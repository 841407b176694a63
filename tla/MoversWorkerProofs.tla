-------------------------- MODULE MoversWorkerProofs --------------------------
(***************************************************************************)
(* Proofs about the movers worker, for any names, windows, bounds, times   *)
(* to live and setups, with deaths, failures and another worker anywhere.  *)
(*                                                                         *)
(* TypeInv is the inductive type invariant.  WatchInv is of the watch set  *)
(* (all of it came in one session), LedgerInv of the outcome file (what    *)
(* the holder of its lock works on is the file with more of it settled),   *)
(* RingInv of the published history and MarksInv of the alerters' marks    *)
(* (a mark is forgotten only when it no longer suppresses anything).       *)
(***************************************************************************)
EXTENDS MoversWorker, SumLemmas, SequenceTheorems

---------------------------------------------------------------------------
(* Elements of a sequence chosen by position.                              *)

\* The sizes for which every set of numbers of that size can be listed in ascending order.
Listed(set, f) ==
    f \in [1..Cardinality(set) -> set] /\ \A i, j \in DOMAIN f : i < j => f[i] < f[j]

\* A finite set of numbers that is not empty has a greatest.
LEMMA HasGreatest ==
    ASSUME NEW n \in Nat, NEW set \in SUBSET (1..n), set # {}
    PROVE  \E m \in set : \A k \in set : k <= m
<1> DEFINE P == {b \in Nat : \A s \in SUBSET (1..b) : s # {} => \E m \in s : \A k \in s : k <= m}
<1>1. 0 \in P
  <2>1. \A s \in SUBSET (1..0) : s = {}
    OBVIOUS
  <2>2. QED
    BY <2>1
<1>2. ASSUME NEW b \in Nat, b \in P PROVE b + 1 \in P
  <2> SUFFICES ASSUME NEW s \in SUBSET (1..(b + 1)), s # {}
               PROVE  \E m \in s : \A k \in s : k <= m
    OBVIOUS
  <2>1. CASE b + 1 \in s
    BY <2>1
  <2>2. CASE b + 1 \notin s
    <3>1. s \in SUBSET (1..b)
      BY <2>2
    <3>2. QED
      BY <1>2, <3>1
  <2>3. QED
    BY <2>1, <2>2
<1> HIDE DEF P
<1>3. \A b \in Nat : b \in P
  BY <1>1, <1>2, Induction
<1>4. QED
  BY <1>3 DEF P

\* A finite set of positions can be listed in ascending order.
LEMMA AscendingExists ==
    ASSUME NEW n \in Nat, NEW set \in SUBSET (1..n)
    PROVE  Listed(set, Ascending(set)) /\ Cardinality(set) \in 0..n
<1> DEFINE P == {c \in Nat : \A s \in SUBSET (1..n) : Cardinality(s) = c => \E f : Listed(s, f)}
<1>1. ASSUME NEW s \in SUBSET (1..n)
      PROVE  IsFiniteSet(s) /\ Cardinality(s) \in 0..n
  <2>1. IsFiniteSet(1..n) /\ Cardinality(1..n) = n
    BY FS_Interval
  <2>2. IsFiniteSet(s) /\ Cardinality(s) <= Cardinality(1..n)
    BY <2>1, FS_Subset
  <2>3. Cardinality(s) \in Nat
    BY <2>2, FS_CardinalityType
  <2>4. QED
    BY <2>1, <2>2, <2>3
<1>2. 0 \in P
  <2> SUFFICES ASSUME NEW s \in SUBSET (1..n), Cardinality(s) = 0 PROVE \E f : Listed(s, f)
    OBVIOUS
  <2>1. [i \in 1..0 |-> i] \in [1..0 -> s]
    OBVIOUS
  <2>2. Listed(s, [i \in 1..0 |-> i])
    BY <2>1 DEF Listed
  <2>3. QED
    BY <2>2
<1>3. ASSUME NEW c \in Nat, c \in P PROVE c + 1 \in P
  <2> SUFFICES ASSUME NEW s \in SUBSET (1..n), Cardinality(s) = c + 1 PROVE \E f : Listed(s, f)
    OBVIOUS
  <2>1. s # {}
    BY FS_EmptySet
  <2>2. PICK m \in s : \A k \in s : k <= m
    BY <2>1, HasGreatest
  <2> DEFINE r == s \ {m}
  <2>3. r \in SUBSET (1..n) /\ Cardinality(r) = c
    BY <1>1, FS_RemoveElement
  <2>4. PICK g : Listed(r, g)
    BY <1>3, <2>3
  <2> DEFINE f == [i \in 1..(c + 1) |-> IF i = c + 1 THEN m ELSE g[i]]
  <2>5. g \in [1..c -> r] /\ \A i, j \in 1..c : i < j => g[i] < g[j]
    BY <2>3, <2>4 DEF Listed
  <2>6. f \in [1..(c + 1) -> s]
    BY <2>5
  <2>7. ASSUME NEW i \in 1..(c + 1), NEW j \in 1..(c + 1), i < j PROVE f[i] < f[j]
    <3>1. CASE j = c + 1
      <4>1. i \in 1..c /\ g[i] \in r
        BY <2>5, <2>7, <3>1
      <4>2. g[i] <= m /\ g[i] # m /\ g[i] \in 1..n /\ m \in 1..n
        BY <2>2, <4>1
      <4>3. QED
        BY <3>1, <4>1, <4>2
    <3>2. CASE j # c + 1
      BY <2>5, <2>7, <3>2
    <3>3. QED
      BY <3>1, <3>2
  <2>8. Listed(s, f)
    BY <2>6, <2>7 DEF Listed
  <2>9. QED
    BY <2>8
<1> HIDE DEF P
<1>4. Cardinality(set) \in P
  BY <1>1, <1>2, <1>3, Induction
<1>5. \E f : Listed(set, f)
  BY <1>4 DEF P
<1>6. \E f \in [1..Cardinality(set) -> set] : \A i, j \in DOMAIN f : i < j => f[i] < f[j]
  BY <1>5 DEF Listed
<1>7. Listed(set, Ascending(set))
  BY <1>6 DEF Listed, Ascending
<1>8. QED
  BY <1>1, <1>7

\* Elements chosen by position are elements of the sequence, at most as many.
LEMMA ChosenAre ==
    ASSUME NEW T, NEW s \in Seq(T), NEW set \in SUBSET (DOMAIN s)
    PROVE  /\ Chosen(s, set) \in Seq(T)
           /\ Len(Chosen(s, set)) = Cardinality(set) /\ Cardinality(set) \in 0..Len(s)
           /\ \A i \in 1..Cardinality(set) : \E k \in set : Chosen(s, set)[i] = s[k]
<1>1. Len(s) \in Nat /\ DOMAIN s = 1..Len(s)
  OBVIOUS
<1>2. Listed(set, Ascending(set)) /\ Cardinality(set) \in 0..Len(s)
  BY <1>1, AscendingExists
<1> DEFINE order == Ascending(set)
           c == Cardinality(set)
<1>3. order \in [1..c -> set] /\ DOMAIN order = 1..c /\ c \in Nat
  BY <1>2 DEF Listed
<1>4. Chosen(s, set) = [i \in 1..c |-> s[order[i]]]
  BY <1>3 DEF Chosen
<1> HIDE DEF order, c
<1>5. \A i \in 1..c : order[i] \in set /\ s[order[i]] \in T
  BY <1>1, <1>3
<1>6. [i \in 1..c |-> s[order[i]]] \in Seq(T)
  BY <1>3, <1>5
<1>7. Len([i \in 1..c |-> s[order[i]]]) = c
  BY <1>3
<1>8. QED
  BY <1>2, <1>4, <1>5, <1>6, <1>7 DEF c

---------------------------------------------------------------------------
(* The end of a sequence.                                                  *)

\* The last n elements
Suffix(s, n) == SubSeq(s, IF Len(s) > n THEN Len(s) - n + 1 ELSE 1, Len(s))

LEMMA SuffixIs ==
    ASSUME NEW T, NEW s \in Seq(T), NEW n \in Nat
    PROVE  /\ Suffix(s, n) \in Seq(T)
           /\ Len(Suffix(s, n)) = IF Len(s) > n THEN n ELSE Len(s)
           /\ \A i \in 1..Len(Suffix(s, n)) :
                 /\ i + (Len(s) - Len(Suffix(s, n))) \in 1..Len(s)
                 /\ Suffix(s, n)[i] = s[i + (Len(s) - Len(Suffix(s, n)))]
<1> DEFINE m == IF Len(s) > n THEN Len(s) - n + 1 ELSE 1
<1>1. Len(s) \in Nat /\ m \in Int /\ Len(s) \in Int
  OBVIOUS
<1>2. \A i \in m..Len(s) : s[i] \in T
  <2> SUFFICES ASSUME NEW i \in m..Len(s) PROVE s[i] \in T
    OBVIOUS
  <2>1. i \in 1..Len(s)
    BY <1>1
  <2>2. QED
    BY <2>1, ElementOfSeq
<1> HIDE DEF m
<1>3. /\ SubSeq(s, m, Len(s)) \in Seq(T)
      /\ Len(SubSeq(s, m, Len(s))) = IF m <= Len(s) THEN Len(s) - m + 1 ELSE 0
      /\ \A i \in 1..(Len(s) - m + 1) : SubSeq(s, m, Len(s))[i] = s[m + i - 1]
  BY <1>1, <1>2, SubSeqProperties
<1>4. Suffix(s, n) = SubSeq(s, m, Len(s))
  BY DEF Suffix, m
<1> DEFINE u == Suffix(s, n)
<1>5. u \in Seq(T) /\ Len(u) = IF Len(s) > n THEN n ELSE Len(s)
  <2>1. (IF m <= Len(s) THEN Len(s) - m + 1 ELSE 0) = IF Len(s) > n THEN n ELSE Len(s)
    <3>1. CASE Len(s) > n
      BY <1>1, <3>1 DEF m
    <3>2. CASE ~(Len(s) > n)
      BY <1>1, <3>2 DEF m
    <3>3. QED
      BY <3>1, <3>2
  <2>2. QED
    BY <1>3, <1>4, <2>1
<1>6. ASSUME NEW i \in 1..Len(u)
      PROVE  i + (Len(s) - Len(u)) \in 1..Len(s) /\ u[i] = s[i + (Len(s) - Len(u))]
  <2> DEFINE l == Len(u)
  <2>1. l = (IF Len(s) > n THEN n ELSE Len(s)) /\ i \in 1..l
    BY <1>5, <1>6
  <2> HIDE DEF l, u
  <2>2. i \in 1..(Len(s) - m + 1) /\ m + i - 1 = i + (Len(s) - l)
    <3>1. CASE Len(s) > n
      BY <1>1, <2>1, <3>1 DEF m
    <3>2. CASE ~(Len(s) > n)
      BY <1>1, <2>1, <3>2 DEF m
    <3>3. QED
      BY <3>1, <3>2
  <2>3. u[i] = s[m + i - 1]
    BY <1>3, <1>4, <2>2 DEF u
  <2>4. i + (Len(s) - l) \in 1..Len(s)
    BY <1>1, <2>1
  <2>5. QED
    BY <2>2, <2>3, <2>4 DEF l
<1>7. QED
  BY <1>5, <1>6

---------------------------------------------------------------------------
(* The invariant of types, by component.                                   *)

AlertsOK ==
    /\ clock \in Times
    /\ recent \in [Sources -> [Names -> Times \cup {Never}]]
    /\ told \in [Sources -> [Names -> Times \cup {Never}]]

WatchOK ==
    /\ watch \in Seq(WatchState) /\ (MaxWatch > 0 => Len(watch) <= MaxWatch)
    /\ session \in Days \cup {NoSession}

OutcomesOK ==
    /\ ledger \in Seq(Record) /\ Len(ledger) <= MaxRecords
    /\ lock \in Processes \cup {NoProcess}
    /\ records \in Seq(Record) /\ due \subseteq DOMAIN records
    /\ unread \in BOOLEAN

\* A socket is open exactly while the link is up.
StreamOK ==
    /\ link \in {"off", "idle", "connecting", "up", "pausing", "ended"}
    /\ sockets = IF link = "up" THEN 1 ELSE 0
    /\ handled \subseteq Symbols /\ subscribed \subseteq handled
    /\ prices \subseteq Symbols /\ inFlight \subseteq Symbols

\* A ring is seeded from the file, which is therefore bounded like it.
LoopOK ==
    /\ setup \in Setups /\ cycle \in 0..(RediscoverEvery - 1)
    /\ found \in Seq(Names) /\ fired \in Seq(Names)
    /\ ring \in Seq(Row) /\ Len(ring) <= MaxRecent
    /\ file \in Seq(Row) /\ Len(file) <= MaxRecent /\ seeded \in BOOLEAN
    /\ faults \in 0..MaxFaults /\ peerAt \in Times

TypeInv == AlertsOK /\ WatchOK /\ OutcomesOK /\ StreamOK /\ LoopOK

LEMMA TypesAreBounded == TypeInv => WorkerIsBounded
  BY DEF TypeInv, AlertsOK, WatchOK, OutcomesOK, StreamOK, LoopOK, WorkerIsBounded, TypeOK, OneSocket

LEMMA Offering ==
    ASSUME NEW o \in Offered
    PROVE  o \in Seq(Names)
<1>1. CASE o = <<>>
  BY <1>1
<1>2. CASE o \in Offers
  <2>1. PICK m \in 0..Cardinality(Names) : o \in [1..m -> Names]
    BY <1>2 DEF Offers, SeqOf
  <2>2. m \in Nat
    BY <2>1
  <2>3. QED
    BY <2>1, <2>2
<1>3. QED
  BY <1>1, <1>2 DEF Offered

\* What fires was offered, is not held back and not suppressed, and is within the cap.
LEMMA FiringFits ==
    ASSUME NEW marks, NEW offered \in Seq(Names), NEW held
    PROVE  /\ Firing(marks, offered, held) \in Seq(Names)
           /\ Len(Firing(marks, offered, held)) <= MaxPerRun
           /\ \A n \in Range(Firing(marks, offered, held)) : ~AlreadyAlerted(marks, n)
<1> DEFINE set == {i \in DOMAIN offered :
                      offered[i] \notin held /\ ~AlreadyAlerted(marks, offered[i])}
           fit == Chosen(offered, set)
           m == IF Len(fit) < MaxPerRun THEN Len(fit) ELSE MaxPerRun
<1>1. set \in SUBSET (DOMAIN offered)
  OBVIOUS
<1>2. \A k \in set : ~AlreadyAlerted(marks, offered[k])
  OBVIOUS
<1>3. Firing(marks, offered, held) = SubSeq(fit, 1, m)
  BY DEF Firing
<1> HIDE DEF set
<1>4. /\ fit \in Seq(Names) /\ Len(fit) \in Nat
      /\ \A i \in 1..Len(fit) : \E k \in set : fit[i] = offered[k]
  BY <1>1, ChosenAre
<1> HIDE DEF fit
<1>5. m \in Nat /\ m <= Len(fit) /\ m <= MaxPerRun
  BY <1>4, AlertsAssumption DEF AlertsAssumption
<1> HIDE DEF m
<1>6. \A i \in 1..m : fit[i] \in Names
  BY <1>4, <1>5, ElementOfSeq
<1>7. /\ SubSeq(fit, 1, m) \in Seq(Names)
      /\ Len(SubSeq(fit, 1, m)) = m
      /\ \A i \in 1..m : SubSeq(fit, 1, m)[i] = fit[i]
  BY <1>5, <1>6, SubSeqProperties
<1> DEFINE u == SubSeq(fit, 1, m)
<1>8. ASSUME NEW n \in Range(u) PROVE ~AlreadyAlerted(marks, n)
  <2>1. DOMAIN u = 1..m
    BY <1>7
  <2>2. PICK i \in 1..m : n = fit[i]
    BY <1>7, <1>8, <2>1 DEF Range
  <2>3. PICK k \in set : fit[i] = offered[k]
    BY <1>4, <1>5, <2>2
  <2>4. QED
    BY <1>2, <2>2, <2>3
<1>9. QED
  BY <1>3, <1>5, <1>7, <1>8
---------------------------------------------------------------------------
(* What a step of the worker does to each component.                       *)

\* What alerter s can send
Sendings(s) ==
    {Firing(Pruned(recent[s]), offered, held) : offered \in Seq(Names), held \in SUBSET Names}

AlertsMove ==
    \/ UNCHANGED <<clock, alertVars>>
    \/ UNCHANGED clock /\ \E s \in Sources : \E sent \in Sendings(s) : Send(s, sent)
    \/ clock' = Later /\ UNCHANGED alertVars
    \/ clock' \in {clock, Later} /\ ForgetAlerts

WatchMove ==
    \/ UNCHANGED monitorVars
    \/ UNCHANGED clock /\ \E names \in Seq(Names) : Watch(names)
    \/ UNCHANGED clock /\ \E enabled \in BOOLEAN : Evaluate(enabled)
    \/ ForgetWatch

OutcomesMove ==
    \/ UNCHANGED outcomeVars
    \/ \E p \in Processes, names \in Seq(Names), s \in Sources, reads, writes \in BOOLEAN :
          RecordAlerts(p, names, s, reads, writes)
    \/ \E p \in Processes, reads \in BOOLEAN : BeginResolve(p, reads)
    \/ \E p \in Processes : Fetch(p) \/ ReleaseAtDeath(p)
    \/ \E p \in Processes, writes \in BOOLEAN : EndResolve(p, writes)

StreamMove ==
    \/ UNCHANGED streamVars
    \/ \E wanted \in BOOLEAN : StartStream(wanted)
    \/ \E want \in SUBSET Symbols, subscribes, unsubscribes \in BOOLEAN :
          SetSymbols(want, subscribes, unsubscribes)
    \/ FirstSubscription \/ Connect \/ Retry \/ Disconnect \/ StreamDies
    \/ \E s \in Symbols : Trade(s) \/ OnTrade(s)

HistoryMove ==
    \/ UNCHANGED <<ring, file, seeded>> /\ (pc = "start" => pc' = "start")
    \/ /\ pc = "start" /\ UNCHANGED file
       /\ \E reads \in BOOLEAN : ring' = Seeded(reads) /\ seeded' = (reads \/ file = <<>>)
    \/ /\ pc # "start" /\ UNCHANGED <<file, seeded>>
       /\ \E rows \in Seq(Row) : ring' = Recent(ring \o rows)
    \/ pc # "start" /\ file' = ring /\ seeded' = TRUE /\ UNCHANGED ring
    \/ pc' = "start" /\ ring' = <<>> /\ seeded' = TRUE /\ UNCHANGED file

LoopMove ==
    /\ setup' = setup /\ cycle' \in 0..(RediscoverEvery - 1)
    /\ found' \in Seq(Names) /\ fired' \in Seq(Names)
    /\ faults' \in 0..MaxFaults /\ peerAt' \in Times

Moves == AlertsMove /\ WatchMove /\ OutcomesMove /\ StreamMove /\ HistoryMove /\ LoopMove

\* A fault is counted down.
LEMMA FaultFits ==
    ASSUME TypeInv, Fault \/ UNCHANGED faults
    PROVE  faults' \in 0..MaxFaults
  BY WorkerAssumption DEF TypeInv, LoopOK, Fault, WorkerAssumption

LEMMA RowsFit ==
    ASSUME TypeInv, NEW names \in Seq(Names), NEW s \in Sources
    PROVE  RowsOf(names, s) \in Seq(Row)
<1>1. DOMAIN names = 1..Len(names) /\ Len(names) \in Nat
  OBVIOUS
<1>2. \A i \in 1..Len(names) : names[i] \in Names
  BY ElementOfSeq
<1>3. RowsOf(names, s) = [i \in 1..Len(names) |-> [name |-> names[i], source |-> s, at |-> clock]]
  BY <1>1 DEF RowsOf
<1>4. \A i \in 1..Len(names) : [name |-> names[i], source |-> s, at |-> clock] \in Row
  BY <1>2 DEF Row, TypeInv, AlertsOK
<1>5. QED
  BY <1>1, <1>3, <1>4

LEMMA SendingsFit ==
    ASSUME NEW s \in Sources, NEW sent \in Sendings(s)
    PROVE  /\ sent \in Seq(Names) /\ Len(sent) <= MaxPerRun
           /\ \A n \in Range(sent) : ~AlreadyAlerted(Pruned(recent[s]), n)
  BY FiringFits DEF Sendings

LEMMA StoriesAreSent ==
    ASSUME NEW sent \in Stories
    PROVE  sent \in Sendings("catalyst")
<1>1. PICK offered \in Offered : sent = Firing(Pruned(recent["catalyst"]), offered, {})
  BY DEF Stories
<1>2. offered \in Seq(Names)
  BY Offering
<1>3. QED
  BY <1>1, <1>2 DEF Sendings

LEMMA AlertsAreSent ==
    ASSUME NEW movers \in Seq(Names), NEW sent \in Alerts(movers)
    PROVE  sent \in Sendings("movers")
<1>1. PICK held \in SUBSET Range(movers) : sent = Firing(Pruned(recent["movers"]), movers, held)
  BY DEF Alerts
<1>2. Range(movers) \subseteq Names
  BY DEF Range
<1>3. QED
  BY <1>1, <1>2 DEF Sendings

LEMMA NextMoves ==
    ASSUME TypeInv, [Next]_vars
    PROVE  Moves
<1> USE DEF Moves, AlertsMove, WatchMove, OutcomesMove, StreamMove, HistoryMove, LoopMove
<1>0. LoopOK /\ clock \in Times
  BY DEF TypeInv, AlertsOK
<1>1. CASE UNCHANGED vars
  BY <1>0, <1>1 DEF vars, loopVars, LoopOK
<1>2. CASE Start
  <2>1. StartStream(On("stream")) /\ On("stream") \in BOOLEAN
    BY <1>2 DEF Start, On
  <2>2. 0 \in 0..(RediscoverEvery - 1)
    BY WorkerAssumption DEF WorkerAssumption
  <2>3. QED
    BY <1>0, <1>2, <2>1, <2>2 DEF Start, LoopOK
<1>3. CASE Poll
  <2>1. PICK sent \in Stories :
           /\ Send("catalyst", sent)
           /\ ring' = Recent(ring \o RowsOf(sent, "catalyst"))
           /\ fired' = IF On("outcomes") THEN sent ELSE <<>>
    BY <1>3 DEF Poll
  <2>2. sent \in Sendings("catalyst") /\ sent \in Seq(Names) /\ "catalyst" \in Sources
    BY StoriesAreSent, SendingsFit DEF Sources
  <2>3. RowsOf(sent, "catalyst") \in Seq(Row)
    BY <2>2, RowsFit
  <2>4. fired' \in Seq(Names)
    BY <2>1, <2>2
  <2>5. QED
    BY <1>0, <1>3, <2>1, <2>2, <2>3, <2>4 DEF Poll, LoopOK
<1>4. CASE SkipWire
  BY <1>0, <1>4 DEF SkipWire, LoopOK
<1>5. CASE PollRaises
  <2>1. PICK sent \in Stories : Send("catalyst", sent)
    BY <1>5 DEF PollRaises
  <2>2. sent \in Sendings("catalyst") /\ "catalyst" \in Sources
    BY StoriesAreSent DEF Sources
  <2>3. faults' \in 0..MaxFaults
    BY <1>5, FaultFits DEF PollRaises
  <2>4. QED
    BY <1>0, <1>5, <2>1, <2>2, <2>3 DEF PollRaises, LoopOK
<1>6. CASE RecordFired
  <2> DEFINE s == IF pc = "log_wire" THEN "catalyst" ELSE "movers"
  <2>1. PICK reads \in BOOLEAN :
           \/ RecordAlerts("worker", fired, s, reads, TRUE) /\ UNCHANGED faults
           \/ RecordAlerts("worker", fired, s, reads, FALSE) /\ Fault
    BY <1>6 DEF RecordFired
  <2>2. s \in Sources /\ "worker" \in Processes /\ fired \in Seq(Names)
    BY <1>0, WorkerAssumption DEF Sources, WorkerAssumption, LoopOK
  <2>3. OutcomesMove
    BY <2>1, <2>2
  <2>4. faults' \in 0..MaxFaults
    BY <2>1, FaultFits
  <2>5. fired' \in Seq(Names)
    BY <1>6 DEF RecordFired
  <2>6. QED
    BY <1>0, <1>6, <2>3, <2>4, <2>5 DEF RecordFired, LoopOK
<1>7. CASE Discover
  <2>1. PICK movers \in Offered : \E sent \in IF On("movers") THEN Alerts(movers) ELSE {<<>>} :
           /\ IF On("movers") THEN Send("movers", sent) ELSE UNCHANGED alertVars
           /\ ring' = Recent(ring \o RowsOf(sent, "movers"))
           /\ fired' = IF On("outcomes") THEN sent ELSE <<>>
           /\ found' = movers
    BY <1>7 DEF Discover
  <2>2. movers \in Seq(Names) /\ "movers" \in Sources
    BY Offering DEF Sources
  <2>3. PICK sent \in IF On("movers") THEN Alerts(movers) ELSE {<<>>} :
           /\ IF On("movers") THEN Send("movers", sent) ELSE UNCHANGED alertVars
           /\ ring' = Recent(ring \o RowsOf(sent, "movers"))
           /\ fired' = IF On("outcomes") THEN sent ELSE <<>>
           /\ found' = movers
    BY <2>1
  <2>4. sent \in Seq(Names) /\ (On("movers") => sent \in Sendings("movers"))
    <3>1. CASE On("movers")
      <4>1. sent \in Sendings("movers")
        BY <2>2, <2>3, <3>1, AlertsAreSent
      <4>2. QED
        BY <2>2, <4>1, SendingsFit
    <3>2. CASE ~On("movers")
      BY <2>3, <3>2
    <3>3. QED
      BY <3>1, <3>2
  <2>5. RowsOf(sent, "movers") \in Seq(Row)
    BY <2>2, <2>4, RowsFit
  <2>6. AlertsMove
    BY <1>7, <2>2, <2>3, <2>4 DEF Discover
  <2>7. fired' \in Seq(Names) /\ found' \in Seq(Names)
    BY <2>2, <2>3, <2>4
  <2>8. QED
    BY <1>0, <1>7, <2>3, <2>5, <2>6, <2>7 DEF Discover, LoopOK
<1>8. CASE DiscoverRaises
  <2>1. faults' \in 0..MaxFaults
    BY <1>8, FaultFits DEF DiscoverRaises
  <2>2. QED
    BY <1>0, <1>8, <2>1 DEF DiscoverRaises, LoopOK
<1>9. CASE SkipDiscovery
  BY <1>0, <1>9 DEF SkipDiscovery, LoopOK
<1>10. CASE WatchFound
  <2>1. found \in Seq(Names) /\ found' \in Seq(Names)
    BY <1>0, <1>10 DEF WatchFound, LoopOK
  <2>2. WatchMove
    BY <1>10, <2>1 DEF WatchFound
  <2>3. QED
    BY <1>0, <1>10, <2>1, <2>2 DEF WatchFound, LoopOK
<1>11. CASE EvaluateWatch
  <2>1. Evaluate(On("monitor")) /\ On("monitor") \in BOOLEAN
    BY <1>11 DEF EvaluateWatch, On
  <2>2. WatchMove
    BY <1>11, <2>1 DEF EvaluateWatch
  <2>3. QED
    BY <1>0, <1>11, <2>2 DEF EvaluateWatch, LoopOK
<1>12. CASE SubscribeWatch
  <2> DEFINE want == {w.name : w \in Active(watch)}
  <2>1. \/ SetSymbols(want, TRUE, TRUE) /\ UNCHANGED faults
        \/ Fault /\ (SetSymbols(want, FALSE, TRUE) \/ SetSymbols(want, TRUE, FALSE))
    BY <1>12 DEF SubscribeWatch
  <2>2. \A w \in Range(watch) : w \in WatchState
    BY DEF Range, TypeInv, WatchOK
  <2>3. want \in SUBSET Symbols
    BY <2>2, WorkerAssumption DEF Active, WatchState, WorkerAssumption
  <2> HIDE DEF want
  <2>4. StreamMove
    BY <2>1, <2>3
  <2>5. faults' \in 0..MaxFaults
    BY <2>1, FaultFits
  <2>6. QED
    BY <1>0, <1>12, <2>4, <2>5 DEF SubscribeWatch, LoopOK
<1>13. CASE Resolve
  <2>1. "worker" \in Processes
    BY WorkerAssumption DEF WorkerAssumption
  <2>2. OutcomesMove
    BY <1>13, <2>1 DEF Resolve
  <2>3. faults' \in 0..MaxFaults
    BY <1>13, FaultFits DEF Resolve
  <2>4. pc # "start"
    BY <1>13 DEF Resolve
  <2>5. QED
    BY <1>0, <1>13, <2>2, <2>3, <2>4 DEF Resolve, LoopOK
<1>14. CASE Publish
  <2>1. faults' \in 0..MaxFaults
    BY <1>14, FaultFits DEF Publish
  <2>2. QED
    BY <1>0, <1>14, <2>1 DEF Publish, LoopOK
<1>15. CASE Sleep
  <2>1. (cycle + 1) % RediscoverEvery \in 0..(RediscoverEvery - 1)
    BY <1>0, WorkerAssumption DEF WorkerAssumption, LoopOK
  <2>2. QED
    BY <1>0, <1>15, <2>1 DEF Sleep, LoopOK
<1>16. CASE Die
  <2>1. faults' \in 0..MaxFaults
    BY <1>16, FaultFits DEF Die
  <2>2. "worker" \in Processes /\ 0 \in 0..(RediscoverEvery - 1)
    BY WorkerAssumption DEF WorkerAssumption
  <2>3. <<>> \in Seq(Names)
    OBVIOUS
  <2>4. QED
    BY <1>0, <1>16, <2>1, <2>2, <2>3 DEF Die, LoopOK
<1>17. CASE StreamStep
  <2>1. faults' \in 0..MaxFaults
    BY <1>17, FaultFits DEF StreamStep
  <2>2. StreamMove
    BY <1>17 DEF StreamStep
  <2>3. QED
    BY <1>0, <1>17, <2>1, <2>2 DEF StreamStep, LoopOK
<1>18. CASE PeerStep
  <2>1. faults' \in 0..MaxFaults /\ peerAt' \in Times
    BY <1>0, <1>18, FaultFits DEF PeerStep, LoopOK
  <2>2. "peer" \in Processes /\ "movers" \in Sources
    BY WorkerAssumption DEF WorkerAssumption, Sources
  <2>3. ASSUME NEW n \in PeerNames PROVE <<n>> \in Seq(Names)
    BY WorkerAssumption DEF WorkerAssumption
  <2>4. OutcomesMove
    BY <1>18, <2>2, <2>3 DEF PeerStep
  <2>5. QED
    BY <1>0, <1>18, <2>1, <2>4 DEF PeerStep, LoopOK
<1>19. QED
  BY <1>1, <1>2, <1>3, <1>4, <1>5, <1>6, <1>7, <1>8, <1>9, <1>10, <1>11, <1>12, <1>13, <1>14,
     <1>15, <1>16, <1>17, <1>18 DEF Next, WorkerStep
---------------------------------------------------------------------------
(* The types are kept.                                                     *)

LEMMA RecentFits ==
    ASSUME NEW rows \in Seq(Row)
    PROVE  Recent(rows) \in Seq(Row) /\ Len(Recent(rows)) <= MaxRecent
<1>1. MaxRecent \in Nat /\ Len(rows) \in Nat
  BY WorkerAssumption DEF WorkerAssumption
<1>2. Recent(rows) = Suffix(rows, MaxRecent)
  BY DEF Recent, Suffix
<1>3. QED
  BY <1>1, <1>2, SuffixIs

LEMMA KeptFits ==
    ASSUME NEW recs \in Seq(Record)
    PROVE  Kept(recs) \in Seq(Record) /\ Len(Kept(recs)) <= MaxRecords
<1>1. MaxRecords \in Nat /\ Len(recs) \in Nat
  BY OutcomesAssumption DEF OutcomesAssumption
<1>2. Kept(recs) = Suffix(recs, MaxRecords)
  BY DEF Kept, Suffix
<1>3. QED
  BY <1>1, <1>2, SuffixIs

LEMMA LaterFits == clock \in Times => Later \in Times /\ Later >= clock
  BY AlertsAssumption DEF Times, Later, AlertsAssumption

LEMMA AlertsKeepTypes ==
    ASSUME AlertsOK, AlertsMove
    PROVE  AlertsOK'
<1>1. Never \notin Times /\ NoMarks \in [Names -> Times \cup {Never}]
  BY AlertsAssumption DEF Never, Times, NoMarks, AlertsAssumption
<1>2. CASE UNCHANGED <<clock, alertVars>>
  BY <1>2 DEF AlertsOK, alertVars
<1>3. CASE UNCHANGED clock /\ \E s \in Sources : \E sent \in Sendings(s) : Send(s, sent)
  <2>1. PICK s \in Sources : \E sent \in Sendings(s) : Send(s, sent)
    BY <1>3
  <2>2. PICK sent \in Sendings(s) : Send(s, sent)
    BY <2>1
  <2>3. ASSUME NEW marks \in [Names -> Times \cup {Never}]
        PROVE  /\ Pruned(marks) \in [Names -> Times \cup {Never}]
               /\ Marked(marks, sent) \in [Names -> Times \cup {Never}]
    BY DEF Pruned, Marked, AlertsOK
  <2>4. QED
    BY <1>3, <2>2, <2>3 DEF Send, AlertsOK
<1>4. CASE clock' = Later /\ UNCHANGED alertVars
  BY <1>4, LaterFits DEF AlertsOK, alertVars
<1>5. CASE clock' \in {clock, Later} /\ ForgetAlerts
  BY <1>1, <1>5, LaterFits DEF AlertsOK, ForgetAlerts
<1>6. QED
  BY <1>2, <1>3, <1>4, <1>5 DEF AlertsMove

LEMMA CapFits ==
    ASSUME NEW T, NEW set \in Seq(T)
    PROVE  EnforceCap(set) \in Seq(T) /\ (MaxWatch > 0 => Len(EnforceCap(set)) <= MaxWatch)
<1>1. MaxWatch \in Nat /\ Len(set) \in Nat
  BY MonitorAssumption DEF MonitorAssumption
<1> DEFINE kept == DropGone(set)
<1>2. kept \in Seq(T)
  BY ChosenAre DEF DropGone
<1> HIDE DEF kept
<1>3. DropOldest(kept) \in Seq(T) /\ Len(DropOldest(kept)) <= MaxWatch
  <2>1. Len(kept) \in Nat
    BY <1>2
  <2>2. DropOldest(kept) = Suffix(kept, MaxWatch)
    BY <1>1, <2>1 DEF DropOldest, Excess, Suffix
  <2>3. QED
    BY <1>1, <1>2, <2>1, <2>2, SuffixIs
<1>4. EnforceCap(set) = IF MaxWatch = 0 THEN set ELSE DropOldest(kept)
  BY DEF EnforceCap, kept
<1>5. QED
  BY <1>1, <1>3, <1>4

\* Names that came on watch on one day.
OfDay(d) == {w \in WatchState : Day(w.seen) = d}

\* The watch set is of its session.
WatchInv == watch \in Seq(OfDay(session))

\* A day is never the mark for no session.
LEMMA DaysAreSessions ==
    ASSUME NEW t \in Times
    PROVE  Day(t) \in Days /\ Day(t) # NoSession
<1>1. t \div DayLength <= t /\ t \div DayLength \in Nat
  BY MonitorAssumption, AlertsAssumption DEF MonitorAssumption, AlertsAssumption, Times
<1>2. QED
  BY <1>1, AlertsAssumption DEF AlertsAssumption, Times, Day, Days, NoSession

\* Once the day was looked at, the watch set is of today.
LEMMA RolledIsOfToday ==
    ASSUME AlertsOK, WatchInv
    PROVE  Rolled \in Seq(OfDay(Day(clock)))
<1>1. CASE session = NoSession
  <2>1. OfDay(NoSession) = {}
    BY DaysAreSessions DEF OfDay, WatchState
  <2>2. Len(watch) \in Nat /\ \A i \in 1..Len(watch) : FALSE
    BY <1>1, <2>1, ElementOfSeq DEF WatchInv
  <2>3. watch = <<>>
    BY <2>2 DEF WatchInv
  <2>4. QED
    BY <2>3 DEF Rolled
<1>2. CASE session # NoSession
  BY <1>2 DEF Rolled, WatchInv
<1>3. QED
  BY <1>1, <1>2

LEMMA NewStatesFit ==
    ASSUME AlertsOK, NEW names \in Seq(Names)
    PROVE  NewStates(names) \in Seq(OfDay(Day(clock)))
<1> DEFINE fresh == [i \in DOMAIN names |->
                       [name |-> names[i], status |-> "watching", seen |-> clock]]
           set == {i \in DOMAIN names : \A w \in Range(Rolled) : w.name # names[i]}
<1>1. DOMAIN names = 1..Len(names) /\ Len(names) \in Nat
  OBVIOUS
<1>2. \A i \in 1..Len(names) : names[i] \in Names
  BY ElementOfSeq
<1>3. \A n \in Names : [name |-> n, status |-> "watching", seen |-> clock] \in OfDay(Day(clock))
  BY DEF OfDay, WatchState, AlertsOK
<1>4. fresh \in Seq(OfDay(Day(clock))) /\ DOMAIN fresh = DOMAIN names
  BY <1>1, <1>2, <1>3
<1>5. set \in SUBSET (DOMAIN names)
  OBVIOUS
<1>6. NewStates(names) = Chosen(fresh, set)
  BY DEF NewStates
<1> HIDE DEF fresh, set
<1>7. QED
  BY <1>4, <1>5, <1>6, ChosenAre

LEMMA WatchKeeps ==
    ASSUME AlertsOK, WatchOK, WatchInv, WatchMove
    PROVE  /\ WatchOK' /\ WatchInv'
           /\ UNCHANGED watch \/ watch' = <<>> \/ session' = Day(clock)
<1> DEFINE today == OfDay(Day(clock))
<1>1. Rolled \in Seq(today) /\ (MaxWatch > 0 => Len(Rolled) <= MaxWatch)
  BY RolledIsOfToday, MonitorAssumption DEF Rolled, WatchOK, MonitorAssumption
<1>2. Day(clock) \in Days
  BY DaysAreSessions DEF AlertsOK
<1>3. CASE UNCHANGED monitorVars
  BY <1>3 DEF monitorVars, WatchOK, WatchInv
<1>4. ASSUME watch' \in Seq(today), MaxWatch > 0 => Len(watch') <= MaxWatch, session' = Day(clock)
      PROVE  WatchOK' /\ WatchInv'
  <2>1. watch' \in Seq(WatchState)
    BY <1>4, SeqMonotonic DEF OfDay
  <2>2. QED
    BY <1>2, <1>4, <2>1 DEF WatchOK, WatchInv
<1>5. CASE UNCHANGED clock /\ \E names \in Seq(Names) : Watch(names)
  <2>1. PICK names \in Seq(Names) : Watch(names)
    BY <1>5
  <2>2. Rolled \o NewStates(names) \in Seq(today)
    BY <1>1, NewStatesFit
  <2>3. watch' = EnforceCap(Rolled \o NewStates(names)) /\ session' = Day(clock)
    BY <2>1 DEF Watch
  <2> HIDE DEF today
  <2>4. watch' \in Seq(today) /\ (MaxWatch > 0 => Len(watch') <= MaxWatch)
    BY <2>2, <2>3, CapFits
  <2>5. QED
    BY <1>4, <2>3, <2>4
<1>6. CASE UNCHANGED clock /\ \E enabled \in BOOLEAN : Evaluate(enabled)
  <2>1. PICK broken : watch' = [i \in DOMAIN Rolled |->
                          IF i \in broken THEN [Rolled[i] EXCEPT !.status = "invalidated"]
                          ELSE Rolled[i]]
    BY <1>6 DEF Evaluate, RolledToEvaluate
  <2>2. \A w \in today : [w EXCEPT !.status = "invalidated"] \in today
    BY DEF OfDay, WatchState
  <2>3. \A i \in 1..Len(Rolled) : Rolled[i] \in today
    BY <1>1, ElementOfSeq
  <2>4. DOMAIN Rolled = 1..Len(Rolled) /\ Len(Rolled) \in Nat
    BY <1>1
  <2> HIDE DEF today
  <2>5. watch' \in Seq(today) /\ Len(watch') = Len(Rolled)
    BY <2>1, <2>2, <2>3, <2>4
  <2>6. session' = Day(clock)
    BY <1>6 DEF Evaluate
  <2>7. QED
    BY <1>1, <1>4, <2>5, <2>6
<1>7. CASE ForgetWatch
  <2>1. watch' = <<>> /\ session' = NoSession
    BY <1>7 DEF ForgetWatch
  <2>2. QED
    BY <2>1, MonitorAssumption DEF WatchOK, WatchInv, MonitorAssumption
<1>8. QED
  BY <1>3, <1>4, <1>5, <1>6, <1>7 DEF WatchMove, monitorVars, Watch, Evaluate, ForgetWatch

LEMMA StreamKeepsTypes ==
    ASSUME StreamOK, StreamMove
    PROVE  StreamOK'
<1>1. CASE UNCHANGED streamVars
  BY <1>1 DEF streamVars, StreamOK
<1>2. CASE \E wanted \in BOOLEAN : StartStream(wanted)
  BY <1>2 DEF StartStream, StreamOK
<1>3. CASE \E want \in SUBSET Symbols, subscribes, unsubscribes \in BOOLEAN :
              SetSymbols(want, subscribes, unsubscribes)
  BY <1>3 DEF SetSymbols, streamVars, StreamOK
<1>4. CASE FirstSubscription \/ Connect \/ Retry \/ StreamDies
  BY <1>4 DEF FirstSubscription, Connect, Retry, StreamDies, StreamOK
<1>5. CASE Disconnect
  <2>1. sockets' = 0
    BY <1>5 DEF Disconnect, Discarded, StreamOK
  <2>2. QED
    BY <1>5, <2>1 DEF Disconnect, StreamOK
<1>6. CASE \E s \in Symbols : Trade(s) \/ OnTrade(s)
  BY <1>6 DEF Trade, OnTrade, StreamOK
<1>7. QED
  BY <1>1, <1>2, <1>3, <1>4, <1>5, <1>6 DEF StreamMove

LEMMA LoopKeepsTypes ==
    ASSUME LoopOK, HistoryMove, LoopMove
    PROVE  LoopOK'
<1>1. ring' \in Seq(Row) /\ Len(ring') <= MaxRecent /\ file' \in Seq(Row) /\ Len(file') <= MaxRecent
  <2>1. CASE /\ pc # "start" /\ UNCHANGED <<file, seeded>>
             /\ \E rows \in Seq(Row) : ring' = Recent(ring \o rows)
    <3>1. PICK rows \in Seq(Row) : ring' = Recent(ring \o rows)
      BY <2>1
    <3>2. ring \o rows \in Seq(Row)
      BY DEF LoopOK
    <3>3. QED
      BY <2>1, <3>1, <3>2, RecentFits DEF LoopOK
  <2>2. Len(<<>>) <= MaxRecent /\ <<>> \in Seq(Row)
    BY WorkerAssumption DEF WorkerAssumption
  <2>3. QED
    BY <2>1, <2>2 DEF HistoryMove, LoopOK, Seeded
<1>2. seeded' \in BOOLEAN
  BY DEF HistoryMove, LoopOK
<1>3. QED
  BY <1>1, <1>2 DEF LoopOK, LoopMove
---------------------------------------------------------------------------
(* The outcome ledger.                                                     *)

\* What the update in progress read of the file
ReadOf == IF unread THEN <<>> ELSE ledger

\* What the holder of the lock works on is what it read with more of it settled.
LedgerInv ==
    lock # NoProcess =>
        Len(records) = Len(ReadOf) /\ \A i \in 1..Len(ReadOf) : SettledFrom(ReadOf[i], records[i])

\* Updating a ledger record by record, adding to its end and cutting it to size goes on from it.
LEMMA KeptGoesOn ==
    ASSUME NEW old \in Seq(Record), NEW new \in Seq(Record), Len(old) <= Len(new),
           \A i \in 1..Len(old) : SettledFrom(old[i], new[i])
    PROVE  GoesOnAs(old, Kept(new))
<1>1. MaxRecords \in Nat /\ Len(old) \in Nat /\ Len(new) \in Nat
  BY OutcomesAssumption DEF OutcomesAssumption
<1> DEFINE kept == Kept(new)
           d == Len(new) - Len(kept)
           dropped == IF d < Len(old) THEN d ELSE Len(old)
<1>2. /\ kept \in Seq(Record) /\ Len(kept) = IF Len(new) > MaxRecords THEN MaxRecords ELSE Len(new)
      /\ \A i \in 1..Len(kept) : i + d \in 1..Len(new) /\ kept[i] = new[i + d]
  <2>1. kept = Suffix(new, MaxRecords)
    BY DEF Kept, Suffix
  <2>2. QED
    BY <1>1, <2>1, SuffixIs
<1>3. Len(kept) \in Nat /\ DOMAIN kept = 1..Len(kept)
  BY <1>2
<1> HIDE DEF kept
<1>4. d \in Nat /\ dropped \in 0..Len(old) /\ (dropped > 0 => Len(kept) = MaxRecords)
  BY <1>1, <1>2, <1>3
<1>5. ASSUME NEW i \in (dropped + 1)..Len(old)
      PROVE  i - dropped \in DOMAIN kept /\ SettledFrom(old[i], kept[i - dropped])
  <2>1. dropped = d /\ i \in 1..Len(old) /\ i > d
    BY <1>1, <1>4
  <2>2. i \in Nat /\ i <= Len(new) /\ Len(new) = Len(kept) + d
    BY <1>1, <1>3, <2>1
  <2> HIDE DEF d, dropped
  <2>3. i - d \in 1..Len(kept) /\ (i - d) + d = i
    BY <1>3, <1>4, <2>1, <2>2
  <2>4. kept[i - d] = new[i]
    BY <1>2, <2>3
  <2>5. QED
    BY <1>3, <2>1, <2>3, <2>4
<1>6. QED
  BY <1>4, <1>5 DEF GoesOnAs, kept

LEMMA SettlingIsReflexive == \A r : SettledFrom(r, r)
  BY DEF SettledFrom

\* The ledger as it was goes on from itself.
LEMMA SameGoesOn ==
    ASSUME NEW old \in Seq(Record)
    PROVE  GoesOnAs(old, old)
<1>1. Len(old) \in Nat /\ DOMAIN old = 1..Len(old)
  OBVIOUS
<1>2. \A i \in (0 + 1)..Len(old) : i - 0 \in DOMAIN old /\ SettledFrom(old[i], old[i - 0])
  BY <1>1, SettlingIsReflexive
<1>3. 0 \in 0..Len(old)
  BY <1>1
<1>4. QED
  BY <1>2, <1>3 DEF GoesOnAs

LEMMA MeasuredFits ==
    ASSUME NEW r \in Record, NEW base \in BOOLEAN, NEW bars \in SUBSET Horizons
    PROVE  Measured(r, base, bars) \in Record /\ SettledFrom(r, Measured(r, base, bars))
<1>1. r.outcomes \in [Horizons -> Outcome] /\ r.baseline \in BOOLEAN
  BY DEF Record
<1>2. CASE ~r.baseline /\ ~base
  <2> DEFINE o == [h \in Horizons |->
                     IF r.outcomes[h] = "pending" THEN "unresolved" ELSE r.outcomes[h]]
  <2>1. o \in [Horizons -> Outcome]
    BY <1>1 DEF Outcome
  <2>2. Measured(r, base, bars) = [r EXCEPT !.outcomes = o]
    BY <1>2 DEF Measured
  <2>3. \A h \in Horizons : r.outcomes[h] # "pending" => o[h] = r.outcomes[h]
    OBVIOUS
  <2> HIDE DEF o
  <2>4. QED
    BY <2>1, <2>2, <2>3 DEF Record, SettledFrom
<1>3. CASE ~(~r.baseline /\ ~base)
  <2> DEFINE o == [h \in Horizons |->
                     IF r.outcomes[h] # "pending" \/ clock < r.at + h THEN r.outcomes[h]
                     ELSE IF h \in bars THEN "measured"
                     ELSE IF clock > r.at + h + HorizonSlip THEN "unresolved" ELSE r.outcomes[h]]
  <2>1. o \in [Horizons -> Outcome]
    BY <1>1 DEF Outcome
  <2>2. Measured(r, base, bars) = [r EXCEPT !.baseline = TRUE, !.outcomes = o]
    BY <1>3 DEF Measured
  <2>3. \A h \in Horizons : r.outcomes[h] # "pending" => o[h] = r.outcomes[h]
    OBVIOUS
  <2> HIDE DEF o
  <2>4. QED
    BY <2>1, <2>2, <2>3 DEF Record, SettledFrom
<1>4. QED
  BY <1>2, <1>3

LEMMA SweptFits ==
    ASSUME NEW recs \in Seq(Record)
    PROVE  /\ Swept(recs) \in Seq(Record) /\ Len(Swept(recs)) = Len(recs)
           /\ \A i \in 1..Len(recs) : SettledFrom(recs[i], Swept(recs)[i])
<1> DEFINE o(r) == [h \in Horizons |-> IF Expired(r, h) THEN "unresolved" ELSE r.outcomes[h]]
           sweep(r) == [r EXCEPT !.outcomes = o(r)]
<1>1. ASSUME NEW r \in Record PROVE sweep(r) \in Record /\ SettledFrom(r, sweep(r))
  <2>1. r.outcomes \in [Horizons -> Outcome]
    BY DEF Record
  <2>2. o(r) \in [Horizons -> Outcome]
    BY <2>1 DEF Outcome
  <2>3. \A h \in Horizons : r.outcomes[h] # "pending" => o(r)[h] = r.outcomes[h]
    BY DEF Expired
  <2> HIDE DEF o
  <2>4. QED
    BY <2>2, <2>3 DEF Record, SettledFrom
<1>2. DOMAIN recs = 1..Len(recs) /\ Len(recs) \in Nat /\ \A i \in 1..Len(recs) : recs[i] \in Record
  BY ElementOfSeq
<1>3. Swept(recs) = [i \in 1..Len(recs) |-> sweep(recs[i])]
  BY <1>2 DEF Swept
<1> HIDE DEF sweep
<1>4. QED
  BY <1>1, <1>2, <1>3

\* What an update of the ledger keeps, and how the file goes on when the update read it.
LEMMA OutcomesKeep ==
    ASSUME AlertsOK, OutcomesOK, LedgerInv, OutcomesMove
    PROVE  OutcomesOK' /\ LedgerInv' /\ (~unread' => GoesOnAs(ledger, ledger'))
<1>0. /\ Len(ledger) \in Nat /\ MaxRecords \in Nat /\ <<>> \in Seq(Record)
      /\ NoProcess \notin Processes /\ ReadOf \in Seq(Record)
  BY OutcomesAssumption DEF OutcomesOK, OutcomesAssumption, NoProcess, ReadOf
<1>1. CASE UNCHANGED outcomeVars
  BY <1>1, SameGoesOn DEF outcomeVars, OutcomesOK, LedgerInv, ReadOf
<1>2. ASSUME NEW reads \in BOOLEAN, unread' = Unread(reads)
      PROVE  /\ Loaded(reads) \in Seq(Record) /\ unread' \in BOOLEAN
             /\ ~unread' => Loaded(reads) = ledger
             /\ (IF unread' THEN <<>> ELSE ledger) = Loaded(reads)
  BY <1>0, <1>2 DEF Unread, Loaded, OutcomesOK
<1>3. ASSUME NEW p \in Processes, NEW names \in Seq(Names), NEW s \in Sources,
             NEW reads \in BOOLEAN, NEW writes \in BOOLEAN,
             RecordAlerts(p, names, s, reads, writes)
      PROVE  OutcomesOK' /\ LedgerInv' /\ (~unread' => GoesOnAs(ledger, ledger'))
  <2> DEFINE old == Loaded(reads)
             set == {i \in DOMAIN names : \A r \in Range(old) :
                               ~(r.name = names[i] /\ r.source = s /\ r.at = clock)}
             new == Chosen(names, set)
             rows == [i \in DOMAIN new |-> Fired(new[i], s)]
  <2>1. set \in SUBSET (DOMAIN names)
    OBVIOUS
  <2>2. ledger' = IF writes THEN Kept(old \o rows) ELSE ledger
    BY <1>3 DEF RecordAlerts
  <2>3. old \in Seq(Record) /\ unread' \in BOOLEAN /\ (~unread' => old = ledger)
    BY <1>2, <1>3 DEF RecordAlerts
  <2> HIDE DEF set, old
  <2>4. new \in Seq(Names) /\ DOMAIN new = 1..Len(new) /\ Len(new) \in Nat
    BY <2>1, ChosenAre
  <2> HIDE DEF new
  <2>5. \A n \in Names : Fired(n, s) \in Record
    BY DEF Fired, Record, Outcome, AlertsOK
  <2>6. \A i \in 1..Len(new) : new[i] \in Names
    BY <2>4, ElementOfSeq
  <2>7. rows \in Seq(Record)
    BY <2>4, <2>5, <2>6
  <2> HIDE DEF rows
  <2>8. /\ old \o rows \in Seq(Record) /\ Len(old) <= Len(old \o rows)
        /\ \A i \in 1..Len(old) : (old \o rows)[i] = old[i]
    BY <2>3, <2>7, ConcatProperties
  <2>9. GoesOnAs(old, Kept(old \o rows))
    BY <2>3, <2>8, KeptGoesOn, SettlingIsReflexive
  <2>10. ledger' \in Seq(Record) /\ Len(ledger') <= MaxRecords
    BY <2>2, <2>8, KeptFits DEF OutcomesOK
  <2>11. ~unread' => GoesOnAs(ledger, ledger')
    BY <2>2, <2>3, <2>9, SameGoesOn DEF OutcomesOK
  <2>12. UNCHANGED <<lock, records, due>> /\ lock = NoProcess
    BY <1>3 DEF RecordAlerts, Free
  <2>13. QED
    BY <2>3, <2>10, <2>11, <2>12 DEF OutcomesOK, LedgerInv
<1>4. ASSUME NEW p \in Processes, NEW reads \in BOOLEAN, BeginResolve(p, reads)
      PROVE  OutcomesOK' /\ LedgerInv' /\ (~unread' => GoesOnAs(ledger, ledger'))
  <2> DEFINE old == Loaded(reads)
  <2>1. /\ records' = Swept(old) /\ ledger' = ledger /\ lock' = p /\ due' = FirstDue(records')
        /\ unread' = Unread(reads)
    BY <1>4 DEF BeginResolve
  <2>2. old \in Seq(Record) /\ unread' \in BOOLEAN /\ ReadOf' = old
    BY <1>2, <2>1 DEF ReadOf
  <2> HIDE DEF old
  <2>3. /\ records' \in Seq(Record) /\ Len(records') = Len(old)
        /\ \A i \in 1..Len(old) : SettledFrom(old[i], records'[i])
    BY <2>1, <2>2, SweptFits
  <2>4. due' \subseteq DOMAIN records'
    BY <2>1 DEF FirstDue
  <2>5. LedgerInv'
    BY <2>2, <2>3 DEF LedgerInv
  <2>6. QED
    BY <2>1, <2>2, <2>3, <2>4, <2>5, SameGoesOn DEF OutcomesOK
<1>5. ASSUME NEW p \in Processes, Fetch(p)
      PROVE  OutcomesOK' /\ LedgerInv' /\ (~unread' => GoesOnAs(ledger, ledger'))
  <2> DEFINE i == CHOOSE j \in due : \A k \in due : j <= k
             old == ReadOf
  <2>1. /\ due' = due \ {i} /\ ledger' = ledger /\ lock' = lock /\ lock # NoProcess
        /\ unread' = unread
        /\ \/ UNCHANGED records
           \/ \E base \in BOOLEAN, bars \in SUBSET Horizons :
                 records' = [records EXCEPT ![i] = Measured(@, base, bars)]
    BY <1>0, <1>5 DEF Fetch
  <2>2. /\ DOMAIN records = 1..Len(records) /\ Len(records) = Len(old) /\ Len(old) \in Nat
        /\ \A j \in 1..Len(old) : SettledFrom(old[j], records[j])
    BY <1>0, <2>1 DEF OutcomesOK, LedgerInv
  <2>3. ReadOf' = old
    BY <2>1 DEF ReadOf
  <2> HIDE DEF i, old
  <2>4. ASSUME NEW j \in 1..Len(old) PROVE records[j] \in Record /\ SettledFrom(old[j], records[j])
    BY <2>2, ElementOfSeq DEF OutcomesOK
  <2>5. CASE UNCHANGED records
    <3>1. LedgerInv'
      BY <2>2, <2>3, <2>5 DEF LedgerInv
    <3>2. QED
      BY <2>1, <2>5, <3>1, SameGoesOn DEF OutcomesOK
  <2>6. ASSUME NEW base \in BOOLEAN, NEW bars \in SUBSET Horizons,
               records' = [records EXCEPT ![i] = Measured(@, base, bars)]
        PROVE  OutcomesOK' /\ LedgerInv' /\ (~unread' => GoesOnAs(ledger, ledger'))
    <3>1. records' = [j \in 1..Len(old) |->
                        IF j = i THEN Measured(records[j], base, bars) ELSE records[j]]
      BY <2>2, <2>6
    <3>2. ASSUME NEW j \in 1..Len(old)
          PROVE  records'[j] \in Record /\ SettledFrom(old[j], records'[j])
      <4>1. Measured(records[j], base, bars) \in Record
            /\ SettledFrom(records[j], Measured(records[j], base, bars))
        BY <2>4, MeasuredFits
      <4>2. records'[j] \in Record /\ SettledFrom(records[j], records'[j])
        BY <2>4, <3>1, <4>1, SettlingIsReflexive
      <4>3. QED
        BY <2>4, <4>2 DEF SettledFrom
    <3>3. records' \in Seq(Record) /\ Len(records') = Len(old) /\ DOMAIN records' = DOMAIN records
      BY <2>2, <3>1, <3>2
    <3>4. LedgerInv'
      BY <2>3, <3>2, <3>3 DEF LedgerInv
    <3>5. QED
      BY <2>1, <3>3, <3>4, SameGoesOn DEF OutcomesOK
  <2>7. QED
    BY <2>1, <2>5, <2>6
<1>6. ASSUME NEW p \in Processes, ReleaseAtDeath(p)
      PROVE  OutcomesOK' /\ LedgerInv' /\ (~unread' => GoesOnAs(ledger, ledger'))
  BY <1>0, <1>1, <1>6, SameGoesOn DEF ReleaseAtDeath, OutcomesOK, LedgerInv
<1>7. ASSUME NEW p \in Processes, NEW writes \in BOOLEAN, EndResolve(p, writes)
      PROVE  OutcomesOK' /\ LedgerInv' /\ (~unread' => GoesOnAs(ledger, ledger'))
  <2>1. /\ lock # NoProcess /\ due = {} /\ due' = due /\ lock' = NoProcess /\ records' = <<>>
        /\ ledger' = IF writes THEN Kept(records) ELSE ledger
        /\ unread' = unread
    BY <1>0, <1>7 DEF EndResolve
  <2>2. GoesOnAs(ReadOf, Kept(records)) /\ Kept(records) \in Seq(Record) /\ Len(Kept(records)) <= MaxRecords
    BY <1>0, <2>1, KeptGoesOn, KeptFits DEF LedgerInv, OutcomesOK
  <2>3. ~unread' => GoesOnAs(ledger, ledger')
    BY <2>1, <2>2, SameGoesOn DEF OutcomesOK, ReadOf
  <2>4. ledger' \in Seq(Record) /\ Len(ledger') <= MaxRecords
    BY <2>1, <2>2 DEF OutcomesOK
  <2>5. QED
    BY <1>0, <2>1, <2>3, <2>4 DEF OutcomesOK, LedgerInv
<1>8. QED
  BY <1>1, <1>3, <1>4, <1>5, <1>6, <1>7 DEF OutcomesMove
---------------------------------------------------------------------------
(* The published history.                                                  *)

\* r is what is left of f after k rows were added to its end.
LeftOf(f, k, r) ==
    /\ k \in 0..Len(r)
    /\ Len(r) = IF Len(f) + k > MaxRecent THEN MaxRecent ELSE Len(f) + k
    /\ \A i \in 1..(Len(r) - k) : r[i] = f[i + (Len(f) + k - Len(r))]

\* The ring of a worker that runs is the published file with newer rows at its end, unless
\* the worker could not read it.
HistoryInv == pc # "start" /\ seeded => \E k \in Nat : LeftOf(file, k, ring)

LEMMA LeftOfItself ==
    ASSUME NEW f \in Seq(Row), Len(f) <= MaxRecent
    PROVE  LeftOf(f, 0, f)
<1>1. Len(f) \in Nat /\ MaxRecent \in Nat
  BY WorkerAssumption DEF WorkerAssumption
<1>2. \A i \in 1..(Len(f) - 0) : i + (Len(f) + 0 - Len(f)) = i
  BY <1>1
<1>3. QED
  BY <1>1, <1>2 DEF LeftOf

\* More rows at the end of a ring leave it a continuation of the file.
LEMMA AddedToTheEnd ==
    ASSUME NEW f \in Seq(Row), NEW r \in Seq(Row), NEW rows \in Seq(Row), Len(r) <= MaxRecent,
           NEW k \in Nat, LeftOf(f, k, r)
    PROVE  \E n \in Nat : LeftOf(f, n, Recent(r \o rows))
<1> DEFINE c == r \o rows
           q == Recent(r \o rows)
           m == Len(rows)
           n == IF k + m <= Len(q) THEN k + m ELSE Len(q)
<1>1. /\ c \in Seq(Row) /\ Len(c) = Len(r) + m
      /\ \A i \in 1..(Len(r) + m) : i <= Len(r) => c[i] = r[i]
  BY ConcatProperties
<1>2. MaxRecent \in Nat /\ Len(f) \in Nat /\ Len(r) \in Nat /\ m \in Nat
  BY WorkerAssumption DEF WorkerAssumption
<1> HIDE DEF c, m
<1>3. /\ Len(q) = IF Len(c) > MaxRecent THEN MaxRecent ELSE Len(c)
      /\ \A i \in 1..Len(q) : q[i] = c[i + (Len(c) - Len(q))]
  <2>1. q = Suffix(c, MaxRecent)
    BY DEF Recent, Suffix, c
  <2> HIDE DEF q
  <2>2. QED
    BY <1>1, <1>2, <2>1, SuffixIs
<1> HIDE DEF q
<1>4. Len(q) \in Nat
  BY <1>1, <1>2, <1>3
<1>5. /\ k <= Len(r) /\ Len(r) = IF Len(f) + k > MaxRecent THEN MaxRecent ELSE Len(f) + k
      /\ \A i \in 1..(Len(r) - k) : r[i] = f[i + (Len(f) + k - Len(r))]
  BY DEF LeftOf
<1>6. n \in 0..Len(q) /\ Len(q) = IF Len(f) + n > MaxRecent THEN MaxRecent ELSE Len(f) + n
  <2>1. CASE k + m <= Len(q)
    BY <1>1, <1>2, <1>3, <1>4, <1>5, <2>1
  <2>2. CASE ~(k + m <= Len(q))
    <3>1. n = Len(q)
      BY <2>2
    <3>2. Len(q) < k + m /\ k + m <= Len(c)
      BY <1>1, <1>2, <1>4, <1>5, <2>2
    <3>3. Len(q) = MaxRecent
      BY <1>1, <1>2, <1>3, <1>4, <3>2
    <3> HIDE DEF n
    <3>4. QED
      BY <1>2, <1>4, <3>1, <3>3
  <2>3. QED
    BY <2>1, <2>2
<1>7. ASSUME NEW i \in 1..(Len(q) - n) PROVE q[i] = f[i + (Len(f) + n - Len(q))]
  <2>1. n = k + m /\ i \in Nat /\ 1 <= i /\ i <= Len(q) - (k + m)
    BY <1>2, <1>4, <1>6
  <2> HIDE DEF n
  <2> DEFINE j == i + (Len(c) - Len(q))
  <2>2. i \in 1..Len(q) /\ j \in 1..(Len(r) - k) /\ j \in 1..(Len(r) + m) /\ j <= Len(r)
    BY <1>1, <1>2, <1>3, <1>4, <2>1
  <2>3. j + (Len(f) + k - Len(r)) = i + (Len(f) + n - Len(q))
    BY <1>1, <1>2, <1>4, <2>1
  <2> HIDE DEF j
  <2>4. q[i] = c[j]
    BY <1>3, <2>2 DEF j
  <2>5. c[j] = r[j] /\ r[j] = f[j + (Len(f) + k - Len(r))]
    BY <1>1, <1>5, <2>2
  <2>6. QED
    BY <2>3, <2>4, <2>5
<1>8. n \in Nat
  BY <1>2, <1>4
<1>9. QED
  BY <1>6, <1>7, <1>8 DEF LeftOf, q

\* What is left of a file after rows were added is the end of the file and those rows.
LEMMA LeftIsRecent ==
    ASSUME NEW f \in Seq(Row), NEW r \in Seq(Row), NEW k \in Nat, LeftOf(f, k, r)
    PROVE  k \in 0..Len(r) /\ r = Recent(f \o SubSeq(r, Len(r) - k + 1, Len(r)))
<1>1. MaxRecent \in Nat /\ Len(f) \in Nat /\ Len(r) \in Nat /\ k <= Len(r)
  BY WorkerAssumption DEF WorkerAssumption, LeftOf
<1> DEFINE e == SubSeq(r, Len(r) - k + 1, Len(r))
           c == f \o e
           q == Recent(c)
<1>2. e \in Seq(Row) /\ Len(e) = k /\ \A i \in 1..k : e[i] = r[i + (Len(r) - k)]
  <2>1. e = Suffix(r, k)
    <3>1. (IF Len(r) > k THEN Len(r) - k + 1 ELSE 1) = Len(r) - k + 1
      BY <1>1
    <3>2. QED
      BY <3>1 DEF Suffix
  <2>2. k = IF Len(r) > k THEN k ELSE Len(r)
    BY <1>1
  <2> HIDE DEF e
  <2>3. QED
    BY <2>1, <2>2, SuffixIs
<1> HIDE DEF e
<1>3. /\ c \in Seq(Row) /\ Len(c) = Len(f) + k
      /\ \A i \in 1..(Len(f) + k) : c[i] = IF i <= Len(f) THEN f[i] ELSE e[i - Len(f)]
  BY <1>2, ConcatProperties
<1> HIDE DEF c
<1>4. /\ Len(r) = IF Len(f) + k > MaxRecent THEN MaxRecent ELSE Len(f) + k
      /\ \A i \in 1..(Len(r) - k) : r[i] = f[i + (Len(f) + k - Len(r))]
  BY DEF LeftOf
<1>5. /\ q \in Seq(Row) /\ Len(q) = Len(r)
      /\ \A i \in 1..Len(r) : q[i] = c[i + (Len(f) + k - Len(r))]
  <2>1. q = Suffix(c, MaxRecent)
    BY DEF Recent, Suffix
  <2> HIDE DEF q
  <2>2. q \in Seq(Row) /\ Len(q) = Len(r)
    BY <1>1, <1>3, <1>4, <2>1, SuffixIs
  <2>3. \A i \in 1..Len(q) : q[i] = c[i + (Len(c) - Len(q))]
    BY <1>1, <1>3, <2>1, SuffixIs
  <2>4. QED
    BY <1>3, <2>2, <2>3
<1> HIDE DEF q
<1>6. ASSUME NEW i \in 1..Len(r) PROVE q[i] = r[i]
  <2> DEFINE j == i + (Len(f) + k - Len(r))
  <2>1. j \in 1..(Len(f) + k) /\ i \in Nat
    BY <1>1, <1>4
  <2>2. CASE i <= Len(r) - k
    <3>1. i \in 1..(Len(r) - k) /\ j <= Len(f)
      BY <1>1, <2>1, <2>2
    <3>2. r[i] = f[j]
      BY <1>4, <3>1
    <3> HIDE DEF j
    <3>3. c[j] = f[j]
      BY <1>3, <2>1, <3>1
    <3>4. QED
      BY <1>5, <3>2, <3>3 DEF j
  <2>3. CASE i > Len(r) - k
    <3>1. j - Len(f) \in 1..k /\ ~(j <= Len(f)) /\ (j - Len(f)) + (Len(r) - k) = i
      BY <1>1, <2>1, <2>3
    <3>2. q[i] = c[j]
      BY <1>5
    <3> HIDE DEF j
    <3>3. c[j] = e[j - Len(f)]
      BY <1>3, <2>1, <3>1
    <3>4. e[j - Len(f)] = r[(j - Len(f)) + (Len(r) - k)]
      BY <1>2, <3>1
    <3>5. QED
      BY <3>1, <3>2, <3>3, <3>4
  <2>4. QED
    BY <1>1, <2>1, <2>2, <2>3
<1>7. q = r
  BY <1>5, <1>6, SeqEqual
<1>8. QED
  BY <1>1, <1>7 DEF q, c, e

\* The invariant of the history is kept, and the file is continued.
LEMMA HistoryKeeps ==
    ASSUME LoopOK, HistoryInv, HistoryMove
    PROVE  /\ HistoryInv'
           /\ seeded => \E k \in 0..Len(file') :
                 file' = Recent(file \o SubSeq(file', Len(file') - k + 1, Len(file')))
<1>1. LeftOf(file, 0, file) /\ LeftOf(ring, 0, ring) /\ 0 \in Nat
  BY LeftOfItself DEF LoopOK
<1>2. ASSUME NEW k \in Nat, LeftOf(file, k, file')
      PROVE  \E n \in 0..Len(file') :
                file' = Recent(file \o SubSeq(file', Len(file') - n + 1, Len(file')))
  <2>1. file' \in Seq(Row)
    BY DEF HistoryMove, LoopOK
  <2>2. QED
    BY <1>2, <2>1, LeftIsRecent DEF LoopOK
<1>3. UNCHANGED file => \E n \in 0..Len(file') :
                file' = Recent(file \o SubSeq(file', Len(file') - n + 1, Len(file')))
  BY <1>1, <1>2
<1>4. CASE UNCHANGED <<ring, file, seeded>> /\ (pc = "start" => pc' = "start")
  BY <1>3, <1>4 DEF HistoryInv
<1>5. CASE /\ pc = "start" /\ UNCHANGED file
           /\ \E reads \in BOOLEAN : ring' = Seeded(reads) /\ seeded' = (reads \/ file = <<>>)
  <2>1. seeded' => ring' = file'
    BY <1>5 DEF Seeded
  <2>2. QED
    BY <1>1, <1>3, <1>5, <2>1 DEF HistoryInv
<1>6. CASE /\ pc # "start" /\ UNCHANGED <<file, seeded>>
           /\ \E rows \in Seq(Row) : ring' = Recent(ring \o rows)
  <2>1. PICK rows \in Seq(Row) : ring' = Recent(ring \o rows)
    BY <1>6
  <2>2. ASSUME seeded PROVE \E n \in Nat : LeftOf(file, n, ring')
    <3>1. PICK k \in Nat : LeftOf(file, k, ring)
      BY <1>6, <2>2 DEF HistoryInv
    <3>2. QED
      BY <2>1, <3>1, AddedToTheEnd DEF LoopOK
  <2>3. QED
    BY <1>3, <1>6, <2>2 DEF HistoryInv
<1>7. CASE pc # "start" /\ file' = ring /\ seeded' = TRUE /\ UNCHANGED ring
  <2>1. HistoryInv'
    BY <1>1, <1>7 DEF HistoryInv
  <2>2. ASSUME seeded PROVE \E k \in Nat : LeftOf(file, k, ring)
    BY <1>7, <2>2 DEF HistoryInv
  <2>3. QED
    BY <1>2, <1>7, <2>1, <2>2
<1>8. CASE pc' = "start" /\ ring' = <<>> /\ seeded' = TRUE /\ UNCHANGED file
  BY <1>3, <1>8 DEF HistoryInv
<1>9. QED
  BY <1>4, <1>5, <1>6, <1>7, <1>8 DEF HistoryMove
---------------------------------------------------------------------------
(* The marks of the alerters.                                              *)

\* What was told is marked until the mark no longer suppresses anything.
MarksInv ==
    \A s \in Sources, n \in Names :
       told[s][n] # Never =>
          /\ told[s][n] <= clock
          /\ recent[s][n] = told[s][n] \/ clock - told[s][n] >= DedupTtl

LEMMA TimesAre ==
    /\ Times \subseteq Nat /\ Never \notin Times /\ DedupTtl \in Nat /\ MaxPerRun \in Nat
  BY AlertsAssumption DEF AlertsAssumption, Times, Never

\* A subject that is not suppressed is due.
LEMMA NotSuppressedIsDue ==
    ASSUME AlertsOK, MarksInv, NEW s \in Sources, NEW n \in Names,
           ~AlreadyAlerted(Pruned(recent[s]), n), told[s][n] # Never
    PROVE  clock - told[s][n] >= DedupTtl
<1>1. told[s][n] \in Nat /\ told[s][n] <= clock /\ clock \in Nat
  BY TimesAre DEF AlertsOK, MarksInv
<1>2. CASE recent[s][n] = told[s][n]
  <2>1. Pruned(recent[s])[n] = IF told[s][n] + DedupTtl >= clock THEN told[s][n] ELSE Never
    BY <1>2 DEF Pruned
  <2>2. CASE told[s][n] + DedupTtl >= clock
    <3>1. ~(clock - told[s][n] < DedupTtl)
      BY <2>1, <2>2 DEF AlreadyAlerted
    <3>2. QED
      BY <1>1, <3>1, TimesAre
  <2>3. CASE ~(told[s][n] + DedupTtl >= clock)
    BY <1>1, <2>3, TimesAre
  <2>4. QED
    BY <2>2, <2>3
<1>3. CASE recent[s][n] # told[s][n]
  BY <1>3 DEF MarksInv
<1>4. QED
  BY <1>2, <1>3

LEMMA MarksKeep ==
    ASSUME AlertsOK, MarksInv, AlertsMove
    PROVE  MarksInv'
<1>1. CASE UNCHANGED <<clock, alertVars>>
  BY <1>1 DEF alertVars, MarksInv
<1>2. CASE UNCHANGED clock /\ \E s \in Sources : \E sent \in Sendings(s) : Send(s, sent)
  <2>1. PICK s \in Sources : \E sent \in Sendings(s) : Send(s, sent)
    BY <1>2
  <2>2. PICK sent \in Sendings(s) : Send(s, sent)
    BY <2>1
  <2> SUFFICES ASSUME NEW x \in Sources, NEW n \in Names, told'[x][n] # Never
               PROVE  /\ told'[x][n] <= clock'
                      /\ recent'[x][n] = told'[x][n] \/ clock' - told'[x][n] >= DedupTtl
    BY DEF MarksInv
  <2>3. /\ recent'[x] = IF x = s THEN Marked(Pruned(recent[s]), sent) ELSE recent[x]
        /\ told'[x] = IF x = s THEN Marked(told[s], sent) ELSE told[x]
    BY <2>2 DEF Send, AlertsOK
  <2>4. clock \in Nat /\ clock' = clock
    BY <1>2, TimesAre DEF AlertsOK
  <2>5. CASE x = s /\ n \in Range(sent)
    BY <2>3, <2>4, <2>5 DEF Marked
  <2>6. CASE x # s
    BY <2>3, <2>4, <2>6 DEF MarksInv
  <2>7. CASE x = s /\ n \notin Range(sent)
    <3>1. told'[x][n] = told[s][n] /\ recent'[x][n] = Pruned(recent[s])[n]
      BY <2>3, <2>7 DEF Marked
    <3>2. told[s][n] \in Nat /\ told[s][n] <= clock
      BY <2>3, <3>1, TimesAre DEF MarksInv, AlertsOK
    <3>3. CASE recent[s][n] = told[s][n] /\ told[s][n] + DedupTtl >= clock
      <4>1. Pruned(recent[s])[n] = told[s][n]
        BY <3>1, <3>3 DEF Pruned
      <4>2. QED
        BY <2>4, <3>1, <3>2, <4>1
    <3>4. CASE ~(told[s][n] + DedupTtl >= clock)
      BY <2>4, <3>1, <3>2, <3>4, TimesAre
    <3>5. CASE recent[s][n] # told[s][n]
      BY <2>4, <2>7, <3>1, <3>2, <3>5 DEF MarksInv
    <3>6. QED
      BY <3>3, <3>4, <3>5
  <2>8. QED
    BY <2>5, <2>6, <2>7
<1>3. CASE clock' = Later /\ UNCHANGED alertVars
  <2>1. clock' \in Nat /\ clock \in Nat /\ clock <= clock'
    BY <1>3, LaterFits, TimesAre DEF AlertsOK
  <2>2. \A s \in Sources, n \in Names : told[s][n] # Never => told[s][n] \in Nat
    BY TimesAre DEF AlertsOK
  <2>3. QED
    BY <1>3, <2>1, <2>2, TimesAre DEF MarksInv, alertVars
<1>4. CASE clock' \in {clock, Later} /\ ForgetAlerts
  BY <1>4 DEF ForgetAlerts, NoMarks, MarksInv
<1>5. QED
  BY <1>1, <1>2, <1>3, <1>4 DEF AlertsMove

---------------------------------------------------------------------------
(* The alerters implement the promise of OncePerTtl.                       *)

ToldSubjects == [subject \in Sources \X Names |-> told[subject[1]][subject[2]]]

\* A run that sends tells of what was due, within the cap.
LEMMA SendTells ==
    ASSUME AlertsOK, MarksInv, NEW s \in Sources, NEW sent \in Sendings(s), Send(s, sent),
           UNCHANGED clock
    PROVE  Told!Tell
<1> DEFINE S == {s} \X Range(sent)
<1>1. /\ sent \in Seq(Names) /\ Len(sent) <= MaxPerRun /\ Len(sent) \in Nat
      /\ DOMAIN sent = 1..Len(sent)
      /\ \A n \in Range(sent) : ~AlreadyAlerted(Pruned(recent[s]), n)
  BY SendingsFit
<1>2. Range(sent) = {sent[i] : i \in 1..Len(sent)} /\ Range(sent) \subseteq Names
  BY <1>1 DEF Range
<1>3. S \in SUBSET (Sources \X Names)
  BY <1>2
<1>4. \A x \in S : Told!Due(x)
  <2> SUFFICES ASSUME NEW n \in Range(sent)
               PROVE  told[s][n] = Never \/ clock - told[s][n] >= DedupTtl
    BY <1>2 DEF Told!Due
  <2>1. QED
    BY <1>1, <1>2, NotSuppressedIsDue
<1>5. Cardinality(S) <= MaxPerRun
  <2> DEFINE f == [i \in 1..Len(sent) |-> <<s, sent[i]>>]
  <2>1. f \in Surjection(1..Len(sent), S)
    <3>1. f \in [1..Len(sent) -> S]
      BY <1>2
    <3>2. \A x \in S : \E i \in 1..Len(sent) : x = <<s, sent[i]>>
      BY <1>2
    <3>3. \A x \in S : \E i \in 1..Len(sent) : f[i] = x
      BY <3>2
    <3> HIDE DEF f, S
    <3>4. QED
      BY <3>1, <3>3 DEF Surjection
  <2>2. IsFiniteSet(1..Len(sent)) /\ Cardinality(1..Len(sent)) = Len(sent)
    <3> DEFINE n == Len(sent)
    <3>1. n \in Nat
      BY <1>1
    <3> HIDE DEF n
    <3>2. IsFiniteSet(1..n) /\ Cardinality(1..n) = n
      BY <3>1, FS_Interval
    <3>3. QED
      BY <3>2 DEF n
  <2> HIDE DEF f, S
  <2>3. IsFiniteSet(S) /\ Cardinality(S) <= Len(sent)
    BY <2>1, <2>2, FS_Surjection
  <2>4. Cardinality(S) \in Nat
    BY <2>3, FS_CardinalityType
  <2>5. QED
    BY <1>1, <2>3, <2>4, TimesAre
<1>6. ToldSubjects' = [x \in Sources \X Names |-> IF x \in S THEN clock ELSE ToldSubjects[x]]
  <2>1. ASSUME NEW t \in Sources, NEW n \in Names
        PROVE  told'[t][n] = IF <<t, n>> \in S THEN clock ELSE told[t][n]
    BY DEF Send, Marked, AlertsOK
  <2>2. QED
    BY <2>1 DEF ToldSubjects
<1>7. Told!Cardinality(S) = Cardinality(S)
  BY DEF Told!Cardinality, Cardinality
<1> HIDE DEF S
<1>8. QED
  BY <1>3, <1>4, <1>5, <1>6, <1>7 DEF Told!Tell, ToldSubjects

LEMMA AlertsMoveTells ==
    ASSUME AlertsOK, MarksInv, AlertsMove
    PROVE  [Told!Next]_<<clock, ToldSubjects>>
<1>1. CASE UNCHANGED <<clock, alertVars>>
  BY <1>1 DEF alertVars, ToldSubjects
<1>2. CASE UNCHANGED clock /\ \E s \in Sources : \E sent \in Sendings(s) : Send(s, sent)
  BY <1>2, SendTells DEF Told!Next
<1>3. CASE clock' = Later /\ UNCHANGED alertVars
  <2>1. clock' \in Nat /\ clock' >= clock /\ ToldSubjects' = ToldSubjects
    BY <1>3, LaterFits, TimesAre DEF alertVars, ToldSubjects, AlertsOK
  <2>2. QED
    BY <2>1 DEF Told!Next, Told!Pass, ToldSubjects
<1>4. CASE clock' \in {clock, Later} /\ ForgetAlerts
  <2>1. clock' \in Nat /\ clock' >= clock
    BY <1>4, LaterFits, TimesAre DEF AlertsOK
  <2>2. \A s \in Sources, n \in Names : told'[s][n] = Never
    BY <1>4 DEF ForgetAlerts, NoMarks
  <2>3. ToldSubjects' = [x \in Sources \X Names |-> Never]
    BY <2>2 DEF ToldSubjects
  <2>4. QED
    BY <2>1, <2>3 DEF Told!Next, Told!Pass, ToldSubjects
<1>5. QED
  BY <1>1, <1>2, <1>3, <1>4 DEF AlertsMove

---------------------------------------------------------------------------
(* The theorems.                                                           *)

WorkerInv == TypeInv /\ WatchInv /\ LedgerInv /\ HistoryInv /\ MarksInv

\* The worker starts in its invariant.
LEMMA InitKeeps == Init => WorkerInv
<1> SUFFICES ASSUME Init PROVE WorkerInv
  OBVIOUS
<1>1. AlertsOK /\ MarksInv
  BY TimesAre, AlertsAssumption DEF Init, AlertsInit, AlertsOK, MarksInv, NoMarks, Times, Sources, AlertsAssumption
<1>2. WatchOK /\ WatchInv
  BY MonitorAssumption DEF Init, MonitorInit, WatchOK, WatchInv, MonitorAssumption
<1>3. OutcomesOK /\ LedgerInv
  <2>1. unread \in BOOLEAN
    BY DEF Init, OutcomesInit
  <2>2. /\ ledger = <<>> /\ lock = NoProcess /\ records = <<>> /\ due = {}
        /\ Len(<<>>) = 0 /\ <<>> \in Seq(Record)
    BY DEF Init, OutcomesInit
  <2>3. QED
    BY <2>1, <2>2, OutcomesAssumption DEF OutcomesOK, LedgerInv, OutcomesAssumption
<1>4. StreamOK
  BY DEF Init, StreamOff, StreamOK
<1>5. LoopOK /\ HistoryInv
  BY WorkerAssumption, AlertsAssumption
     DEF Init, LoopOK, HistoryInv, WorkerAssumption, AlertsAssumption, Times
<1>6. QED
  BY <1>1, <1>2, <1>3, <1>4, <1>5 DEF WorkerInv, TypeInv

\* Every step keeps it.
LEMMA NextKeeps == WorkerInv /\ [Next]_vars => WorkerInv'
<1> SUFFICES ASSUME WorkerInv, [Next]_vars PROVE WorkerInv'
  OBVIOUS
<1>1. /\ AlertsMove /\ WatchMove /\ OutcomesMove /\ StreamMove /\ HistoryMove /\ LoopMove
      /\ AlertsOK /\ WatchOK /\ OutcomesOK /\ StreamOK /\ LoopOK
  BY NextMoves DEF Moves, WorkerInv, TypeInv
<1>2. TypeInv'
  BY <1>1, AlertsKeepTypes, WatchKeeps, OutcomesKeep, StreamKeepsTypes, LoopKeepsTypes
     DEF WorkerInv, TypeInv
<1>3. WatchInv' /\ LedgerInv' /\ HistoryInv' /\ MarksInv'
  BY <1>1, WatchKeeps, OutcomesKeep, HistoryKeeps, MarksKeep DEF WorkerInv
<1>4. QED
  BY <1>2, <1>3 DEF WorkerInv

LEMMA WorkerInvHolds == Spec => []WorkerInv
  BY InitKeeps, NextKeeps, PTL DEF Spec

\* The sets, rings and files of the worker keep to their bounds, and at most one socket
\* is open: MoversMonitor, AlertOutcomeLedger, the rings of run_worker, GuardedDataStream.
THEOREM WorkerIsBoundedHolds == Spec => []WorkerIsBounded
<1>1. WorkerInv => WorkerIsBounded
  BY TypesAreBounded DEF WorkerInv
<1>2. QED
  BY <1>1, WorkerInvHolds, PTL

\* No alerter tells of a subject twice within the time to live, or of more subjects in a run
\* than the cap: MoversAlerter.process, CatalystAlerter.poll.
THEOREM AlertsOncePerTtlHolds == Spec => AlertsOncePerTtl
<1>1. Init => Told!Init
  BY TimesAre, AlertsAssumption DEF Init, AlertsInit, Told!Init, NoMarks
<1>2. ASSUME WorkerInv, [Next]_vars PROVE [Told!Next]_Told!vars
  <2>1. AlertsOK /\ MarksInv /\ AlertsMove
    BY <1>2, NextMoves DEF WorkerInv, TypeInv, Moves
  <2>2. QED
    BY <2>1, AlertsMoveTells DEF Told!vars, ToldSubjects
<1>3. QED
  BY <1>1, <1>2, WorkerInvHolds, PTL DEF Spec, AlertsOncePerTtl, Told!Spec

\* The published history changes only by newer alerts at its end, except when a worker that
\* could not read it publishes for the first time: movers_state.load, publish.
THEOREM HistoryContinuesHolds == Spec => HistoryContinues
<1>1. ASSUME WorkerInv, [Next]_vars
      PROVE  seeded => \E k \in 0..Len(file') :
                file' = Recent(file \o SubSeq(file', Len(file') - k + 1, Len(file')))
  BY <1>1, NextMoves, HistoryKeeps DEF WorkerInv, TypeInv, Moves
<1>2. QED
  BY <1>1, WorkerInvHolds, PTL DEF Spec, HistoryContinues

\* An alert leaves the ledger only when it is full, and a settled horizon keeps its outcome,
\* by every update that read the file: AlertOutcomeLedger.load, record, resolve.
THEOREM OutcomesAreFinalHolds == Spec => OutcomesAreFinal
<1>1. ASSUME WorkerInv, [Next]_vars PROVE ~unread' => GoesOnAs(ledger, ledger')
  BY <1>1, NextMoves, OutcomesKeep DEF WorkerInv, TypeInv, Moves
<1>2. QED
  BY <1>1, WorkerInvHolds, PTL DEF Spec, OutcomesAreFinal

\* A name told to stand down came on watch in today's session: MoversMonitor.evaluate.
THEOREM StandDownsAreOfTodayHolds == Spec => StandDownsAreOfToday
<1>1. ASSUME WorkerInv, [Next]_vars
      PROVE  \A i \in DOMAIN watch' :
                (watch'[i].status = "invalidated" /\ watch'[i] \notin Range(watch)) =>
                   Day(watch'[i].seen) = Day(clock)
  <2>1. watch' \in Seq(OfDay(session')) /\ (UNCHANGED watch \/ watch' = <<>> \/ session' = Day(clock))
    BY <1>1, NextMoves, WatchKeeps DEF WorkerInv, TypeInv, Moves, WatchInv
  <2>2. ASSUME NEW i \in DOMAIN watch', watch'[i] \notin Range(watch)
        PROVE  Day(watch'[i].seen) = Day(clock)
    <3>1. watch'[i] \in OfDay(session')
      BY <2>1, <2>2, ElementOfSeq
    <3>2. session' = Day(clock)
      BY <2>1, <2>2 DEF Range
    <3>3. QED
      BY <3>1, <3>2 DEF OfDay
  <2>3. QED
    BY <2>2
<1>2. QED
  BY <1>1, WorkerInvHolds, PTL DEF Spec, StandDownsAreOfToday

=============================================================================
