------------------------- MODULE BotModesProofs -------------------------
(***************************************************************************)
(* Proofs about a process of bot.py, in every mode and for every set of    *)
(* tickers, number of slots, price, size, cost and limit of time.          *)
(*                                                                         *)
(* SlotsInv is the inductive invariant of the slots of a simulated date:   *)
(* what it has used of them in each of its phases.  Nothing is needed of   *)
(* sizes and prices: a slot is taken and given back by position, whatever  *)
(* is bought or sold.                                                      *)
(*                                                                         *)
(* BooksInv is the inductive invariant of the books.  Its core is that a   *)
(* sale adds to what the position carries exactly what it adds to the cash *)
(* and that nothing else changes the sum of what the positions carry.      *)
(*                                                                         *)
(* ProcessInv adds the shared cache and the two scans to it.  DataInv says *)
(* that a frame in the cache has a newest bar there is, whoever wrote it;  *)
(* ScanInv that a scan that asks for the day's bars keeps the floor of its *)
(* process over its own start, which is what makes a cached frame it may   *)
(* use one of its own; MarksOK of PipelineInv that the mark of a candidate *)
(* is gone from the queue only when its window has passed, for the cycle   *)
(* that goes on and for all the later ones.                                *)
(*                                                                         *)
(* ScreenInv is the inductive invariant of a pre-market screen: every      *)
(* snapshot is one that could have been built at the scan's own instant.   *)
(* What the screen promises follows from it and from what its operators    *)
(* compute: sums of volumes, ladders of points and places in an order.     *)
(*                                                                         *)
(* SignalInv is the inductive invariant of the signals: what a signal was  *)
(* made of, a frame too short, one filtered out or one that is scored on a *)
(* bundle of the same bar.  The promises about it are facts about scores,  *)
(* ladders and weighed sums; what a plan promises is inductive with it.    *)
(*                                                                         *)
(* DayInv is the inductive invariant of a replayed day trade: what was     *)
(* sold and what is left are the whole of it, it was sold at targets as    *)
(* long as something is left, and every exit is within its bar.            *)
(***************************************************************************)
EXTENDS BotModes, SumLemmas, SequenceTheorems, TLAPS

\* A process that simulates takes the steps of the simulation, any other none of them.
LEMMA ProcessSimulates == Spec => BacktestSpec
<1>1. Init => BacktestInit
  BY DEF Init
<1>2. [Next]_vars => [BacktestNext]_backtestVars
  BY DEF Next, vars, DailyMode, IntradayMode, BacktestMode, SignalsMode, DayMode, ScreenMode, Around
<1>3. QED
  BY <1>1, <1>2, PTL DEF Spec, BacktestSpec

---------------------------------------------------------------------------
(* The slots of a date.                                                    *)

\* The shape of the data the counting reads.
Shapes ==
    /\ positions = [t \in Stocks |-> positions[t]]
    /\ trades = [f \in {"count", "pnl", "today"} |-> trades[f]]
    /\ trades.today \in Nat
    /\ slots \in Nat
    /\ phase \in {"open", "entries", "close", "exits", "point", "force", "done"}

\* Before the close nothing was closed today; entries share what is left.
MorningOK ==
    /\ phase \in {"open", "entries", "close"} => trades.today = 0
    /\ phase = "entries" => Cardinality(Open) + slots <= MaxConcurrentPositions

\* What is managed at the close is open.
CloseOK == phase = "exits" => pending \subseteq Open

SlotsInv == Shapes /\ MorningOK /\ CloseOK /\ SlotsFreeAtTheOpen

---------------------------------------------------------------------------
(* Counting open positions.                                                *)

LEMMA OpenIsFinite ==
    /\ IsFiniteSet(Open)
    /\ Cardinality(Open) \in Nat
<1>1. Open \in SUBSET Stocks
  BY DEF Open
<1>2. IsFiniteSet(Open)
  BY <1>1, FS_Subset, BacktestAssumption DEF BacktestAssumption
<1>3. QED
  BY <1>2, FS_CardinalityType

LEMMA OpenIsFiniteNext ==
    /\ IsFiniteSet(Open')
    /\ Cardinality(Open') \in Nat
<1>1. Open' \in SUBSET Stocks
  BY DEF Open
<1>2. IsFiniteSet(Open')
  BY <1>1, FS_Subset, BacktestAssumption DEF BacktestAssumption
<1>3. QED
  BY <1>2, FS_CardinalityType

\* A change of one ticker's position opens at most that one.
LEMMA OneMoreOpen ==
    ASSUME NEW t \in Stocks, NEW pos, Shapes,
           positions' = [positions EXCEPT ![t] = pos]
    PROVE  Cardinality(Open') <= Cardinality(Open) + 1
<1>1. Open' \in SUBSET (Open \cup {t})
  BY DEF Open, Shapes
<1>2. /\ IsFiniteSet(Open \cup {t})
      /\ Cardinality(Open \cup {t}) = IF t \in Open THEN Cardinality(Open)
                                      ELSE Cardinality(Open) + 1
  BY FS_AddElement, OpenIsFinite
<1>3. Cardinality(Open') <= Cardinality(Open \cup {t})
  BY <1>1, <1>2, FS_Subset
<1>4. QED
  BY <1>2, <1>3, OpenIsFinite, OpenIsFiniteNext

\* A change of an open position opens none.
LEMMA NoneOpened ==
    ASSUME NEW t \in Open, NEW pos, Shapes,
           positions' = [positions EXCEPT ![t] = pos]
    PROVE  /\ Open' \subseteq Open
           /\ Open \ {t} \subseteq Open'
           /\ Cardinality(Open') <= Cardinality(Open)
<1>1. /\ Open' \in SUBSET Open
      /\ Open \ {t} \subseteq Open'
  BY DEF Open, Shapes
<1>2. QED
  BY <1>1, FS_Subset, OpenIsFinite

\* Closing an open position frees its place.
LEMMA OneClosed ==
    ASSUME NEW t \in Open, Shapes,
           positions' = [positions EXCEPT ![t] = NoPosition]
    PROVE  /\ Open' = Open \ {t}
           /\ Cardinality(Open') + 1 = Cardinality(Open)
<1>1. Open' = Open \ {t}
  BY DEF Open, Shapes, NoPosition
<1>2. Cardinality(Open \ {t}) = Cardinality(Open) - 1
  BY FS_RemoveElement, OpenIsFinite
<1>3. QED
  BY <1>1, <1>2, OpenIsFinite

\* A reported trade counts once for its date.
LEMMA TradeCounts ==
    ASSUME NEW pos, Shapes, trades' = Closed(pos)
    PROVE  /\ trades'.today = trades.today + 1
           /\ trades' = [f \in {"count", "pnl", "today"} |-> trades'[f]]
  BY DEF Closed, Shapes

---------------------------------------------------------------------------
(* The steps.                                                              *)

LEMMA SlotsInit == BacktestInit => SlotsInv
<1> SUFFICES ASSUME BacktestInit PROVE SlotsInv
  OBVIOUS
<1>1. Open = {}
  BY DEF BacktestInit, Open, NoPosition
<1>2. Cardinality(Open) = 0
  BY <1>1, FS_EmptySet
<1>3. Shapes
  BY DEF BacktestInit, Shapes, Following
<1>4. trades.today = 0 /\ phase = "open"
  BY DEF BacktestInit, Following
<1>5. QED
  BY <1>2, <1>3, <1>4, BacktestAssumption
  DEF SlotsInv, MorningOK, CloseOK, SlotsFreeAtTheOpen, BacktestAssumption

\* Steps that neither open nor close a position, nor report a trade.
LEMMA SlotsKept ==
    ASSUME SlotsInv,
           \/ OpenDate \/ EntriesEnd \/ CloseDate \/ ExitsEnd \/ Reconcile
           \/ \E t \in Stocks : NoBar(t)
           \/ UNCHANGED backtestVars
    PROVE  SlotsInv'
<1>1. /\ Open' = Open
      /\ UNCHANGED <<positions, trades>>
  BY DEF OpenDate, EntriesEnd, CloseDate, ExitsEnd, Reconcile, NoBar, backtestVars, Open
<1>2. SlotsFreeAtTheOpen'
  BY <1>1 DEF SlotsInv, SlotsFreeAtTheOpen
<1>3. Cardinality(Open) \in Nat /\ MaxConcurrentPositions \in Nat
  BY OpenIsFinite, BacktestAssumption DEF BacktestAssumption
<1>4. CASE OpenDate
  <2>1. slots' = (IF 0 < MaxConcurrentPositions - Cardinality(Open)
                  THEN MaxConcurrentPositions - Cardinality(Open) ELSE 0)
    BY <1>3, <1>4 DEF OpenDate, Maximum
  <2>2. trades.today = 0 /\ phase' = "entries"
    BY <1>4 DEF OpenDate, SlotsInv, MorningOK
  <2>3. Cardinality(Open) <= MaxConcurrentPositions
    BY <1>3, <2>2 DEF SlotsInv, SlotsFreeAtTheOpen
  <2>4. slots' \in Nat /\ Cardinality(Open) + slots' <= MaxConcurrentPositions
    BY <1>3, <2>1, <2>3
  <2>5. QED
    BY <1>1, <1>2, <2>2, <2>4 DEF SlotsInv, Shapes, MorningOK, CloseOK
<1>5. CASE EntriesEnd
  BY <1>1, <1>2, <1>5 DEF EntriesEnd, Following, SlotsInv, Shapes, MorningOK, CloseOK
<1>6. CASE CloseDate
  BY <1>1, <1>2, <1>6 DEF CloseDate, SlotsInv, Shapes, MorningOK, CloseOK
<1>7. CASE ExitsEnd
  BY <1>1, <1>2, <1>7 DEF ExitsEnd, Following, SlotsInv, Shapes, MorningOK, CloseOK
<1>8. CASE Reconcile
  BY <1>1, <1>2, <1>8 DEF Reconcile, SlotsInv, Shapes, MorningOK, CloseOK
<1>9. CASE \E t \in Stocks : NoBar(t)
  BY <1>1, <1>2, <1>9 DEF NoBar, SlotsInv, Shapes, MorningOK, CloseOK
<1>10. CASE UNCHANGED backtestVars
  BY <1>1, <1>2, <1>10 DEF backtestVars, SlotsInv, Shapes, MorningOK, CloseOK
<1>11. QED
  BY <1>4, <1>5, <1>6, <1>7, <1>8, <1>9, <1>10

\* An entry takes one of the slots that are left, or none.
LEMMA SlotsEnter ==
    ASSUME SlotsInv, NEW t \in Stocks, Enter(t)
    PROVE  SlotsInv'
<1>1. /\ phase = "entries" /\ phase' = phase
      /\ slots \in Nat /\ slots > 0
      /\ trades' = trades /\ trades.today = 0
      /\ Cardinality(Open) + slots <= MaxConcurrentPositions
  BY DEF Enter, SlotsInv, Shapes, MorningOK
<1>2. /\ Cardinality(Open) \in Nat /\ Cardinality(Open') \in Nat
      /\ MaxConcurrentPositions \in Nat
  BY OpenIsFinite, OpenIsFiniteNext, BacktestAssumption DEF BacktestAssumption
<1>3. \/ UNCHANGED <<positions, slots>>
      \/ /\ \E pos : positions' = [positions EXCEPT ![t] = pos]
         /\ slots' = slots - 1
  BY DEF Enter
<1>4. CASE UNCHANGED <<positions, slots>>
  BY <1>1, <1>4
  DEF SlotsInv, Shapes, MorningOK, CloseOK, SlotsFreeAtTheOpen, Open
<1>5. CASE /\ \E pos : positions' = [positions EXCEPT ![t] = pos]
           /\ slots' = slots - 1
  <2>1. PICK pos : positions' = [positions EXCEPT ![t] = pos]
    BY <1>5
  <2>2. Cardinality(Open') <= Cardinality(Open) + 1
    BY <2>1, OneMoreOpen DEF SlotsInv
  <2>3. slots' \in Nat /\ Cardinality(Open') + slots' <= MaxConcurrentPositions
    BY <1>1, <1>2, <1>5, <2>2
  <2>4. Shapes'
    BY <1>1, <2>1, <2>3 DEF SlotsInv, Shapes
  <2>5. SlotsFreeAtTheOpen'
    BY <1>1, <1>2, <2>3 DEF SlotsFreeAtTheOpen
  <2>6. QED
    BY <1>1, <2>3, <2>4, <2>5 DEF SlotsInv, MorningOK, CloseOK
<1>6. QED
  BY <1>3, <1>4, <1>5

\* An exit keeps a position open or moves it to the trades of the date.
LEMMA SlotsExit ==
    ASSUME SlotsInv, NEW t \in Stocks, Exit(t)
    PROVE  SlotsInv'
<1>1. /\ phase = "exits" /\ phase' = phase /\ slots' = slots
      /\ t \in Open /\ pending' = pending \ {t} /\ pending \subseteq Open
  BY DEF Exit, SlotsInv, CloseOK
<1>2. /\ Cardinality(Open) \in Nat /\ Cardinality(Open') \in Nat
      /\ MaxConcurrentPositions \in Nat
      /\ trades.today \in Nat
      /\ Cardinality(Open) + trades.today <= MaxConcurrentPositions
  BY OpenIsFinite, OpenIsFiniteNext, BacktestAssumption
  DEF BacktestAssumption, SlotsInv, Shapes, SlotsFreeAtTheOpen
<1>3. \/ /\ positions' = [positions EXCEPT ![t] = NoPosition]
         /\ \E pos : trades' = Closed(pos)
      \/ /\ \E pos : positions' = [positions EXCEPT ![t] = pos]
         /\ trades' = trades
  BY DEF Exit
<1>4. CASE /\ positions' = [positions EXCEPT ![t] = NoPosition]
           /\ \E pos : trades' = Closed(pos)
  <2>1. Open' = Open \ {t} /\ Cardinality(Open') + 1 = Cardinality(Open)
    BY <1>1, <1>4, OneClosed DEF SlotsInv
  <2>2. /\ trades'.today = trades.today + 1
        /\ trades' = [f \in {"count", "pnl", "today"} |-> trades'[f]]
    BY <1>4, TradeCounts DEF SlotsInv
  <2>3. Shapes'
    BY <1>1, <1>2, <1>4, <2>2 DEF SlotsInv, Shapes
  <2>4. SlotsFreeAtTheOpen'
    BY <1>2, <2>1, <2>2 DEF SlotsFreeAtTheOpen
  <2>5. QED
    BY <1>1, <2>1, <2>3, <2>4 DEF SlotsInv, MorningOK, CloseOK
<1>5. CASE /\ \E pos : positions' = [positions EXCEPT ![t] = pos]
           /\ trades' = trades
  <2>1. PICK pos : positions' = [positions EXCEPT ![t] = pos]
    BY <1>5
  <2>2. Open \ {t} \subseteq Open' /\ Cardinality(Open') <= Cardinality(Open)
    BY <1>1, <2>1, NoneOpened DEF SlotsInv
  <2>3. Shapes'
    BY <1>1, <1>5, <2>1 DEF SlotsInv, Shapes
  <2>4. SlotsFreeAtTheOpen'
    BY <1>2, <1>5, <2>2 DEF SlotsFreeAtTheOpen
  <2>5. QED
    BY <1>1, <2>2, <2>3, <2>4 DEF SlotsInv, MorningOK, CloseOK
<1>6. QED
  BY <1>3, <1>4, <1>5

\* The forced close moves what is left to the trades of the last date.
LEMMA SlotsForceClose ==
    ASSUME SlotsInv, NEW t \in Stocks, ForceClose(t)
    PROVE  SlotsInv'
<1>1. /\ phase = "force" /\ phase' = phase /\ slots' = slots
      /\ t \in Open
      /\ positions' = [positions EXCEPT ![t] = NoPosition]
      /\ \E pos : trades' = Closed(pos)
  BY DEF ForceClose
<1>2. /\ Cardinality(Open) \in Nat /\ Cardinality(Open') \in Nat
      /\ MaxConcurrentPositions \in Nat
      /\ trades.today \in Nat
      /\ Cardinality(Open) + trades.today <= MaxConcurrentPositions
  BY OpenIsFinite, OpenIsFiniteNext, BacktestAssumption
  DEF BacktestAssumption, SlotsInv, Shapes, SlotsFreeAtTheOpen
<1>3. Cardinality(Open') + 1 = Cardinality(Open)
  BY <1>1, OneClosed DEF SlotsInv
<1>4. /\ trades'.today = trades.today + 1
      /\ trades' = [f \in {"count", "pnl", "today"} |-> trades'[f]]
  BY <1>1, TradeCounts DEF SlotsInv
<1>5. Shapes'
  BY <1>1, <1>2, <1>4 DEF SlotsInv, Shapes
<1>6. SlotsFreeAtTheOpen'
  BY <1>2, <1>3, <1>4 DEF SlotsFreeAtTheOpen
<1>7. QED
  BY <1>1, <1>5, <1>6 DEF SlotsInv, MorningOK, CloseOK

\* The next date begins with no trade of its own and the positions of this one.
LEMMA SlotsEquityPoint ==
    ASSUME SlotsInv, EquityPoint
    PROVE  SlotsInv'
<1>1. /\ positions' = positions /\ Open' = Open /\ slots' = slots
      /\ \/ phase' = "force" /\ trades' = trades
         \/ phase' = "open" /\ trades' = [trades EXCEPT !.today = 0]
  BY DEF EquityPoint, Following, Open
<1>2. /\ Cardinality(Open) \in Nat /\ MaxConcurrentPositions \in Nat
      /\ trades.today \in Nat
      /\ Cardinality(Open) + trades.today <= MaxConcurrentPositions
  BY OpenIsFinite, BacktestAssumption
  DEF BacktestAssumption, SlotsInv, Shapes, SlotsFreeAtTheOpen
<1>3. CASE phase' = "force" /\ trades' = trades
  BY <1>1, <1>2, <1>3 DEF SlotsInv, Shapes, MorningOK, CloseOK, SlotsFreeAtTheOpen
<1>4. CASE phase' = "open" /\ trades' = [trades EXCEPT !.today = 0]
  <2>1. /\ trades'.today = 0
        /\ trades' = [f \in {"count", "pnl", "today"} |-> trades'[f]]
    BY <1>4 DEF SlotsInv, Shapes
  <2>2. Shapes'
    BY <1>1, <1>4, <2>1 DEF SlotsInv, Shapes
  <2>3. SlotsFreeAtTheOpen'
    BY <1>1, <1>2, <2>1 DEF SlotsFreeAtTheOpen
  <2>4. QED
    BY <1>4, <2>1, <2>2, <2>3 DEF SlotsInv, MorningOK, CloseOK
<1>5. QED
  BY <1>1, <1>3, <1>4

LEMMA SlotsStep == SlotsInv /\ [BacktestNext]_backtestVars => SlotsInv'
<1> SUFFICES ASSUME SlotsInv, [BacktestNext]_backtestVars PROVE SlotsInv'
  OBVIOUS
<1>1. CASE \E t \in Stocks : Enter(t)
  BY <1>1, SlotsEnter
<1>2. CASE \E t \in Stocks : Exit(t)
  BY <1>2, SlotsExit
<1>3. CASE \E t \in Stocks : ForceClose(t)
  BY <1>3, SlotsForceClose
<1>4. CASE EquityPoint
  BY <1>4, SlotsEquityPoint
<1>5. QED
  BY <1>1, <1>2, <1>3, <1>4, SlotsKept DEF BacktestNext

---------------------------------------------------------------------------

\* The inductive invariant: the slots used so far on a date, phase by phase.
THEOREM SlotsInvariant == BacktestSpec => []SlotsInv
<1>1. BacktestInit => SlotsInv
  BY SlotsInit
<1>2. SlotsInv /\ [BacktestNext]_backtestVars => SlotsInv'
  BY SlotsStep
<1>3. QED
  BY <1>1, <1>2, PTL DEF BacktestSpec

\* The simulation never uses on a date a slot that only that date's close has freed:
\* the positions held during a date, those closed on it included, fit into
\* max_concurrent_positions.
THEOREM SlotsFreeAtTheOpenHolds == Spec => []SlotsFreeAtTheOpen
<1>1. SlotsInv => SlotsFreeAtTheOpen
  BY DEF SlotsInv
<1>2. QED
  BY <1>1, ProcessSimulates, SlotsInvariant, PTL

---------------------------------------------------------------------------
(* The books.                                                              *)

Carried == SumFunctionOnSet([t \in Stocks |-> Carries(positions[t])], Stocks)

\* A position that has sold its shares is gone.
OpenOrNone == \A t \in Stocks : positions[t].open > 0 \/ positions[t] = NoPosition

\* A candidate has no position yet.
EntriesAreNew == phase = "entries" => pending \cap Open = {}

BooksInv == BacktestTypeOK /\ OpenOrNone /\ EntriesAreNew /\ BooksBalance

LEMMA PercentIsInt ==
    ASSUME NEW x \in Int, NEW pct \in Int
    PROVE  Percent(x, pct) \in Int
<1>1. x * pct \in Int
  OBVIOUS
<1>2. QED
  BY <1>1 DEF Percent

LEMMA CarriesIsInt ==
    ASSUME NEW pos \in Position
    PROVE  Carries(pos) \in Int
<1>1. pos.realized \in Int /\ pos.basis \in Int /\ pos.open \in Int
  BY DEF Position
<1>2. QED
  BY <1>1 DEF Carries

LEMMA NothingCarried == NoPosition \in Position /\ Carries(NoPosition) = 0
<1>1. NoPosition \in Position
  BY BacktestAssumption DEF NoPosition, Position, BacktestAssumption
<1>2. QED
  BY <1>1 DEF NoPosition, Carries

\* The fills and the costs are integers.
LEMMA FillsAreInt ==
    ASSUME NEW qty \in Int, NEW level \in Int
    PROVE  /\ SellFill(level) \in Int /\ BuyFill(level) \in Int
           /\ Commission(qty * SellFill(level)) \in Int
           /\ Commission(qty * BuyFill(level)) \in Int
           /\ Proceeds(qty, level) \in Int /\ Cost(qty, level) \in Int
<1>1. SlippagePct \in Int /\ CommissionPct \in Int
  BY BacktestAssumption DEF BacktestAssumption
<1>2. SellFill(level) \in Int /\ BuyFill(level) \in Int
  BY <1>1 DEF SellFill, BuyFill
<1>3. qty * SellFill(level) \in Int /\ qty * BuyFill(level) \in Int
  BY <1>2
<1>4. Commission(qty * SellFill(level)) \in Int /\ Commission(qty * BuyFill(level)) \in Int
  BY <1>1, <1>3, PercentIsInt DEF Commission
<1>5. QED
  BY <1>2, <1>3, <1>4 DEF Proceeds, Cost

\* A sale adds to what the position carries exactly what it adds to the cash.
LEMMA BookedSettles ==
    ASSUME NEW pos \in Position, NEW qty \in 0..pos.open, NEW level \in Int
    PROVE  /\ Booked(pos, qty, level) \in Position
           /\ Booked(pos, qty, level).open = pos.open - qty
           /\ Carries(Booked(pos, qty, level)) = Carries(pos) + Proceeds(qty, level)
<1>1. pos.realized \in Int /\ pos.basis \in Nat /\ pos.open \in Nat /\ qty \in Nat /\ qty \in Int
  BY DEF Position
<1>2. SellFill(level) \in Int /\ Commission(qty * SellFill(level)) \in Int
  <2>1. qty \in Int
    BY <1>1
  <2>2. QED
    BY <2>1, FillsAreInt
<1> DEFINE gain  == (SellFill(level) - pos.basis) * qty - Commission(qty * SellFill(level))
           after == Booked(pos, qty, level)
<1>3. after = [pos EXCEPT !.open = @ - qty, !.realized = @ + gain]
  <2>1. pos.realized + (SellFill(level) - pos.basis) * qty - Commission(qty * SellFill(level))
           = pos.realized + gain
    BY <1>1, <1>2
  <2>2. QED
    BY <2>1 DEF Booked
<1>4. gain \in Int /\ gain = Proceeds(qty, level) - pos.basis * qty
  BY <1>1, <1>2 DEF Proceeds
<1>5. Proceeds(qty, level) \in Int
  BY <1>1, <1>2 DEF Proceeds
<1> HIDE DEF gain, after
<1>6. pos.open - qty \in Nat /\ pos.realized + gain \in Int
  BY <1>1, <1>4
<1>7. after \in Position
  BY <1>3, <1>6 DEF Position
<1>8. /\ after.open = pos.open - qty /\ after.basis = pos.basis
      /\ after.realized = pos.realized + gain
  BY <1>3 DEF Position
<1>9. Carries(after) = Carries(pos) + Proceeds(qty, level)
  <2>1. pos.basis * (pos.open - qty) = pos.basis * pos.open - pos.basis * qty
        /\ pos.basis * pos.open \in Int /\ pos.basis * qty \in Int
    BY <1>1
  <2>2. QED
    BY <1>1, <1>4, <1>5, <1>8, <2>1 DEF Carries
<1>10. QED
  BY <1>7, <1>8, <1>9 DEF after

\* The account a of a close that began with pos: what was got is what pos carries more.
Settles(a, pos) ==
    /\ a = Account(a.pos, a.got)
    /\ a.pos \in Position /\ a.got \in Int
    /\ Carries(a.pos) = Carries(pos) + a.got

LEMMA PartialQtyFits ==
    ASSUME NEW pos \in Position, NEW i \in 1..3, pos.open > 0
    PROVE  PartialQty(pos, i) \in 0..pos.open
<1>1. pos.open \in Nat /\ pos.initial \in Nat /\ TargetExitPcts[i] \in Nat
  BY DEF Position, TargetExitPcts
<1> DEFINE n == pos.initial * TargetExitPcts[i]
<1>2. n \in Nat
  BY <1>1
<1>3. RoundTenths(n) \in Int
  <2> HIDE DEF n
  <2>1. n \div 10 \in Int /\ n % 10 \in 0..9
    BY <1>2
  <2>2. QED
    BY <2>1 DEF RoundTenths
<1> HIDE DEF n
<1>4. QED
  BY <1>1, <1>3 DEF PartialQty, n, Minimum, Maximum

LEMMA TargetIsInt ==
    ASSUME NEW pos \in Position, NEW i \in 1..3
    PROVE  Target(pos, i) \in Int
<1>1. pos.risk \in Nat /\ pos.entryRef \in Nat /\ TargetRR[i] \in Nat
  BY DEF Position, TargetRR
<1>2. TargetRR[i] * pos.risk \in Nat
  BY <1>1
<1>3. QED
  BY <1>1, <1>2 DEF Target

LEMMA PartialSettles ==
    ASSUME NEW a, NEW pos, NEW close \in Int, NEW i \in {1, 2}, Settles(a, pos),
           Carries(pos) \in Int
    PROVE  Settles(Partial(a, close, i), pos)
<1>1. i \in 1..3 /\ a.pos \in Position /\ a.got \in Int
  BY DEF Settles
<1> DEFINE qty   == PartialQty(a.pos, i)
           level == Target(a.pos, i)
           sold  == Booked(a.pos, qty, level)
           after == [sold EXCEPT !.hit = @ \cup {i}]
<1>2. level \in Int
  BY <1>1, TargetIsInt
<1>3. CASE i \notin a.pos.hit /\ close >= level /\ a.pos.open > 0
  <2>1. qty \in 0..a.pos.open /\ qty \in Int
    <3>1. qty \in 0..a.pos.open
      BY <1>1, <1>3, PartialQtyFits
    <3>2. QED
      BY <1>1, <3>1 DEF Position
  <2>2. /\ sold \in Position /\ Carries(sold) = Carries(a.pos) + Proceeds(qty, level)
    BY <1>1, <1>2, <2>1, BookedSettles
  <2>3. Proceeds(qty, level) \in Int
    BY <1>2, <2>1, FillsAreInt
  <2>4. Partial(a, close, i) = Account(after, a.got + Proceeds(qty, level))
    BY <1>3 DEF Partial
  <2> HIDE DEF qty, level, sold
  <2>5. after \in Position /\ Carries(after) = Carries(sold)
    BY <2>2 DEF Position, Carries
  <2> HIDE DEF after
  <2>6. a.got + Proceeds(qty, level) \in Int
        /\ Carries(after) = Carries(pos) + (a.got + Proceeds(qty, level))
    BY <1>1, <2>2, <2>3, <2>5 DEF Settles
  <2>7. QED
    BY <2>4, <2>5, <2>6 DEF Settles, Account
<1>4. CASE ~(i \notin a.pos.hit /\ close >= level /\ a.pos.open > 0)
  BY <1>4 DEF Partial
<1>5. QED
  BY <1>3, <1>4

\* A sale of all the shares that are left
LEMMA AllSettles ==
    ASSUME NEW a, NEW pos, NEW level \in Int, Settles(a, pos), Carries(pos) \in Int
    PROVE  Settles(Account(Booked(a.pos, a.pos.open, level),
                           a.got + Proceeds(a.pos.open, level)), pos)
<1>1. a.pos \in Position /\ a.got \in Int /\ a.pos.open \in 0..a.pos.open /\ a.pos.open \in Int
  BY DEF Settles, Position
<1>2. /\ Booked(a.pos, a.pos.open, level) \in Position
      /\ Carries(Booked(a.pos, a.pos.open, level)) = Carries(a.pos) + Proceeds(a.pos.open, level)
  BY <1>1, BookedSettles
<1>3. Proceeds(a.pos.open, level) \in Int
  BY <1>1, FillsAreInt
<1>4. a.got + Proceeds(a.pos.open, level) \in Int
      /\ Carries(Booked(a.pos, a.pos.open, level))
            = Carries(pos) + (a.got + Proceeds(a.pos.open, level))
  BY <1>1, <1>2, <1>3 DEF Settles
<1>5. QED
  BY <1>2, <1>4 DEF Settles, Account

\* Whatever a close sells, the account settles.
LEMMA ApplyExitsSettles ==
    ASSUME NEW pos \in Position, NEW close \in Int
    PROVE  Settles(ApplyExits(pos, close), pos)
<1>1. Carries(pos) \in Int
  BY CarriesIsInt
<1> DEFINE a0 == Account(pos, 0)
<1>2. Settles(a0, pos) /\ a0.pos = pos /\ a0.got = 0
  BY <1>1 DEF Settles, Account
<1> HIDE DEF a0
<1>3. CASE close <= pos.stop
  <2> DEFINE level == Minimum(close, pos.stop)
  <2>1. level \in Int /\ pos.open \in Int
    BY DEF Minimum, Position
  <2>2. Proceeds(pos.open, level) \in Int
    BY <2>1, FillsAreInt
  <2>3. ApplyExits(pos, close)
           = Account(Booked(pos, pos.open, level), Proceeds(pos.open, level))
    BY <1>3 DEF ApplyExits, Stopped
  <2> HIDE DEF level
  <2>4. ApplyExits(pos, close)
           = Account(Booked(a0.pos, a0.pos.open, level), a0.got + Proceeds(a0.pos.open, level))
    BY <1>2, <2>2, <2>3
  <2>5. QED
    BY <1>1, <1>2, <2>1, <2>4, AllSettles
<1>4. CASE ~(close <= pos.stop)
  <2> DEFINE a1 == Partial(a0, close, 1)
             a2 == Partial(a1, close, 2)
  <2>1. Settles(a1, pos)
    BY <1>1, <1>2, PartialSettles
  <2> HIDE DEF a1
  <2>2. Settles(a2, pos)
    BY <1>1, <2>1, PartialSettles
  <2> HIDE DEF a2
  <2>3. Target(a2.pos, 3) \in Int
    BY <2>2, TargetIsInt DEF Settles
  <2>4. Settles(Rest(a2, close), pos)
    BY <1>1, <2>2, <2>3, AllSettles DEF Rest
  <2>5. ApplyExits(pos, close) = Rest(a2, close)
    BY <1>4 DEF ApplyExits, a0, a1, a2
  <2>6. QED
    BY <2>4, <2>5
<1>5. QED
  BY <1>3, <1>4

LEMMA ValueIsInt ==
    ASSUME BacktestTypeOK
    PROVE  PortfolioValue \in Int
<1> DEFINE worth == [t \in Stocks |-> positions[t].open * positions[t].last]
<1>1. \A t \in Open : worth[t] \in Int
  <2>1. \A t \in Stocks : positions[t].open \in Nat /\ positions[t].last \in Nat
    BY DEF BacktestTypeOK, Position
  <2>2. QED
    BY <2>1 DEF Open
<1> HIDE DEF worth
<1>2. SumFunctionOnSet(worth, Open) \in Int
  BY <1>1, OpenIsFinite, SumIsInt
<1>3. QED
  BY <1>2 DEF MarketValue, PortfolioValue, BacktestTypeOK, worth

\* When a position changes, what the positions carry changes by as much.
LEMMA CarriedChanges ==
    ASSUME positions \in [Stocks -> Position], NEW t \in Stocks, NEW pos \in Position,
           positions' = [positions EXCEPT ![t] = pos]
    PROVE  /\ Carried \in Int
           /\ Carried' = Carried + (Carries(pos) - Carries(positions[t]))
<1> DEFINE f == [u \in Stocks |-> Carries(positions[u])]
           g == [u \in Stocks |-> Carries(positions'[u])]
<1>1. \A u \in Stocks : f[u] \in Int /\ g[u] \in Int
  BY CarriesIsInt
<1>2. g[t] = Carries(pos) /\ f[t] = Carries(positions[t]) /\ \A u \in Stocks \ {t} : g[u] = f[u]
  OBVIOUS
<1>3. IsFiniteSet(Stocks)
  BY BacktestAssumption DEF BacktestAssumption
<1>4. Carried = SumFunctionOnSet(f, Stocks) /\ Carried' = SumFunctionOnSet(g, Stocks)
  BY DEF Carried, Carries
<1> HIDE DEF f, g
<1>5. QED
  BY <1>1, <1>2, <1>3, <1>4, SumIsInt, SumOfChanged

LEMMA NothingOpen ==
    ASSUME OpenOrNone, Open = {}
    PROVE  Carried = 0
<1> DEFINE f == [t \in Stocks |-> Carries(positions[t])]
<1>1. \A t \in Stocks : f[t] = 0
  BY NothingCarried DEF OpenOrNone, Open
<1>2. IsFiniteSet(Stocks)
  BY BacktestAssumption DEF BacktestAssumption
<1>3. Carried = SumFunctionOnSet(f, Stocks)
  BY DEF Carried
<1> HIDE DEF f
<1>4. QED
  BY <1>1, <1>2, <1>3, SumOfZeros

LEMMA BooksInit == BacktestInit => BooksInv
<1> SUFFICES ASSUME BacktestInit PROVE BooksInv
  OBVIOUS
<1>1. positions \in [Stocks -> Position]
      /\ \A t \in Stocks : positions[t] = NoPosition
  BY NothingCarried DEF BacktestInit
<1>2. Open = {} /\ OpenOrNone
  BY <1>1 DEF Open, OpenOrNone, NoPosition
<1>3. phase = "open" /\ trades.pnl = 0 /\ cash = Value(InitialCapital) /\ cash \in Int
  BY BacktestAssumption DEF BacktestInit, Following, Value, BacktestAssumption
<1>4. BacktestTypeOK
  BY <1>1, <1>3, BacktestAssumption DEF BacktestInit, BacktestTypeOK, BacktestAssumption
<1>5. Carried = 0
  BY <1>2, NothingOpen
<1>6. BooksBalance
  BY <1>3, <1>5 DEF BooksBalance, Carried
<1>7. QED
  BY <1>2, <1>3, <1>4, <1>6 DEF BooksInv, EntriesAreNew

\* Steps that neither buy nor sell.
LEMMA BooksKept ==
    ASSUME BooksInv, BacktestTypeOK', UNCHANGED <<cash, positions>>, trades'.pnl = trades.pnl,
           phase' # "done", EntriesAreNew'
    PROVE  BooksInv'
<1>1. OpenOrNone'
  BY DEF BooksInv, OpenOrNone
<1>2. BooksBalance'
  BY DEF BooksInv, BooksBalance, Carries
<1>3. QED
  BY <1>1, <1>2 DEF BooksInv

LEMMA BooksSteps ==
    ASSUME BooksInv,
           \/ OpenDate \/ EntriesEnd \/ CloseDate \/ ExitsEnd \/ EquityPoint
           \/ \E t \in Stocks : NoBar(t)
    PROVE  BooksInv'
<1>1. BacktestTypeOK /\ PortfolioValue \in Int
  BY ValueIsInt DEF BooksInv
<1>2. Open \subseteq Stocks /\ Cardinality(Open) \in Nat /\ MaxConcurrentPositions \in Nat
  BY OpenIsFinite, BacktestAssumption DEF Open, BacktestAssumption
<1>3. /\ positions \in [Stocks -> Position] /\ cash \in Int
      /\ UNCHANGED <<cash, positions>>
      /\ Open' = Open
  BY <1>1 DEF OpenDate, EntriesEnd, CloseDate, ExitsEnd, EquityPoint, NoBar, Open, BacktestTypeOK
<1>4. CASE OpenDate
  <2>1. slots' \in Nat
    BY <1>2, <1>4 DEF OpenDate, Maximum
  <2>2. pending' \subseteq Stocks \ Open
    BY <1>4 DEF OpenDate
  <2>3. BacktestTypeOK' /\ phase' # "done" /\ UNCHANGED trades
    BY <1>1, <1>3, <1>4, <2>1, <2>2 DEF OpenDate, BacktestTypeOK
  <2>4. EntriesAreNew'
    BY <1>3, <2>2 DEF EntriesAreNew
  <2>5. QED
    BY <1>3, <2>3, <2>4, BooksKept
<1>5. CASE EntriesEnd
  <2>1. BacktestTypeOK' /\ phase' = "close" /\ UNCHANGED trades
    BY <1>1, <1>3, <1>5 DEF EntriesEnd, Following, BacktestTypeOK
  <2>2. QED
    BY <1>3, <2>1, BooksKept DEF EntriesAreNew
<1>6. CASE CloseDate
  <2>1. BacktestTypeOK' /\ phase' = "exits" /\ UNCHANGED trades
    BY <1>1, <1>2, <1>3, <1>6 DEF CloseDate, BacktestTypeOK
  <2>2. QED
    BY <1>3, <2>1, BooksKept DEF EntriesAreNew
<1>7. CASE ExitsEnd
  <2>1. BacktestTypeOK' /\ phase' = "point" /\ UNCHANGED trades
    BY <1>1, <1>3, <1>7 DEF ExitsEnd, Following, BacktestTypeOK
  <2>2. QED
    BY <1>3, <2>1, BooksKept DEF EntriesAreNew
<1>8. CASE EquityPoint
  <2>1. LastDate \in Nat /\ date \in 1..LastDate
    BY <1>1, BacktestAssumption DEF BacktestTypeOK, BacktestAssumption
  <2>2. /\ trades' \in [count : Nat, pnl : Int, today : Nat] /\ trades'.pnl = trades.pnl
        /\ phase' \in {"force", "open"} /\ date' \in 1..LastDate
    BY <1>1, <1>8, <2>1 DEF EquityPoint, Following, BacktestTypeOK
  <2>3. point' \in [date : 0..LastDate, value : Int]
    BY <1>1, <1>8, <2>1 DEF EquityPoint, Point
  <2>4. BacktestTypeOK'
    BY <1>1, <1>3, <1>8, <2>2, <2>3 DEF EquityPoint, BacktestTypeOK
  <2>5. QED
    BY <1>3, <1>8, <2>2, <2>4, BooksKept DEF EquityPoint, EntriesAreNew
<1>9. CASE \E t \in Stocks : NoBar(t)
  <2>1. BacktestTypeOK' /\ phase' = "exits" /\ UNCHANGED trades
    BY <1>1, <1>3, <1>9 DEF NoBar, BacktestTypeOK
  <2>2. QED
    BY <1>3, <2>1, BooksKept DEF EntriesAreNew
<1>10. QED
  BY <1>4, <1>5, <1>6, <1>7, <1>8, <1>9

\* The size of an entry is a number of shares, whatever the prices.
LEMMA SizeIsInt ==
    ASSUME BacktestTypeOK, NEW open \in Opens, NEW stop \in Int
    PROVE  PositionSize(equity, open, stop) \in Int
<1>1. open \in Nat \ {0} /\ cash \in Int /\ equity \in Int /\ RiskPerTrade \in Int
      /\ MaxPositionPct \in Int
  BY BacktestAssumption DEF BacktestAssumption, BacktestTypeOK
<1> DEFINE risk   == Value(open - stop)
           worth  == Maximum(equity, 0)
           budget == Percent(worth, RiskPerTrade)
           most   == Minimum(cash, Percent(worth, MaxPositionPct))
<1>2. risk \in Int /\ worth \in Int /\ Value(open) \in Nat \ {0}
  BY <1>1 DEF Value, Maximum
<1>3. budget \in Int /\ Percent(worth, MaxPositionPct) \in Int
  BY <1>1, <1>2, PercentIsInt
<1>4. most \in Int
  BY <1>1, <1>3 DEF Minimum
<1>5. PositionSize(equity, open, stop)
         = IF risk <= 0 THEN 0 ELSE Minimum(budget \div risk, most \div Value(open))
  BY DEF PositionSize
<1> HIDE DEF risk, budget, most
<1>6. most \div Value(open) \in Int /\ (risk > 0 => budget \div risk \in Int)
  BY <1>2, <1>3, <1>4
<1>7. QED
  BY <1>2, <1>5, <1>6 DEF Minimum

\* What a new position carries is what it costs.
LEMMA NewSettles ==
    ASSUME BacktestTypeOK, NEW open \in Opens, NEW atr \in Atrs, NEW shares \in Nat, shares > 0
    PROVE  LET pos == NewPosition(shares, open, open - AtrStopMult * atr)
           IN  /\ pos \in Position /\ pos.open > 0
               /\ Carries(pos) = -Cost(shares, open) /\ Cost(shares, open) \in Int
<1> DEFINE stop == open - AtrStopMult * atr
           pos  == NewPosition(shares, open, stop)
<1>1. /\ open \in Nat /\ atr \in Nat /\ LastDate \in Nat /\ date \in 0..LastDate
      /\ SlippagePct \in 0..99 /\ CommissionPct \in Int /\ shares \in Int
  BY BacktestAssumption DEF BacktestAssumption, BacktestTypeOK
<1>2. stop \in Int /\ open - stop \in Nat /\ BuyFill(open) \in Nat
  BY <1>1 DEF AtrStopMult, BuyFill
<1>3. Commission(shares * BuyFill(open)) \in Int
  <2>1. shares * BuyFill(open) \in Int
    BY <1>1, <1>2
  <2>2. QED
    BY <1>1, <2>1, PercentIsInt DEF Commission
<1>4. pos \in Position /\ pos.open = shares
  BY <1>1, <1>2, <1>3 DEF NewPosition, Position
<1>5. pos.realized = -Commission(shares * BuyFill(open)) /\ pos.basis = BuyFill(open)
  BY DEF NewPosition
<1>6. Carries(pos) = -Commission(shares * BuyFill(open)) - BuyFill(open) * shares
  BY <1>4, <1>5 DEF Carries
<1>7. BuyFill(open) * shares = shares * BuyFill(open) /\ shares * BuyFill(open) \in Int
  BY <1>1, <1>2
<1> HIDE DEF pos
<1>8. Carries(pos) = -Cost(shares, open) /\ Cost(shares, open) \in Int
  BY <1>3, <1>6, <1>7 DEF Cost
<1>9. QED
  BY <1>4, <1>8 DEF pos

\* A trade of t balances when the cash changes by what t carries more and what is reported.
LEMMA TradeBalances ==
    ASSUME BooksInv, NEW t \in Stocks, NEW pos \in Position,
           positions' = [positions EXCEPT ![t] = pos], cash' \in Int, trades'.pnl \in Int,
           (trades'.pnl - trades.pnl) + Carries(pos) = (cash' - cash) + Carries(positions[t]),
           phase' # "done"
    PROVE  BooksBalance'
<1>1. Carried \in Int /\ Carried' = Carried + (Carries(pos) - Carries(positions[t]))
  BY CarriedChanges DEF BooksInv, BacktestTypeOK
<1>2. Carries(pos) \in Int /\ Carries(positions[t]) \in Int
  BY CarriesIsInt DEF BooksInv, BacktestTypeOK
<1>3. cash = Value(InitialCapital) + trades.pnl + Carried
  BY DEF BooksInv, BooksBalance, Carried
<1>4. Value(InitialCapital) \in Int /\ trades.pnl \in Int /\ cash \in Int
  BY BacktestAssumption DEF BooksInv, BacktestTypeOK, Value, BacktestAssumption
<1>5. cash' = Value(InitialCapital) + trades'.pnl + Carried'
  <2>1. PICK x \in Int : x = Carries(pos)
    BY <1>2
  <2>2. PICK y \in Int : y = Carries(positions[t])
    BY <1>2
  <2>3. PICK v \in Int : v = Value(InitialCapital)
    BY <1>4
  <2>4. (trades'.pnl - trades.pnl) + x = (cash' - cash) + y
    BY <2>1, <2>2
  <2>5. cash' = v + trades'.pnl + (Carried + (x - y))
    BY <1>1, <1>3, <1>4, <2>3, <2>4
  <2>6. QED
    BY <1>1, <2>1, <2>2, <2>3, <2>5
<1>6. Carried' = SumFunctionOnSet([u \in Stocks |-> Carries(positions'[u])], Stocks)
  BY DEF Carried, Carries
<1>7. Value(InitialCapital)' = Value(InitialCapital)
  BY DEF Value
<1>8. QED
  BY <1>5, <1>6, <1>7 DEF BooksBalance, Carries

LEMMA BooksEnter ==
    ASSUME BooksInv, NEW t \in Stocks, Enter(t)
    PROVE  BooksInv'
<1>1. /\ phase = "entries" /\ t \in pending /\ slots > 0
      /\ pending' = pending \ {t}
      /\ UNCHANGED <<date, phase, equity, trades, point>>
  BY DEF Enter
<1>2. positions[t] = NoPosition /\ BacktestTypeOK /\ pending \cap Open = {}
  BY <1>1 DEF BooksInv, EntriesAreNew, OpenOrNone, Open
<1>3. CASE UNCHANGED <<cash, positions, slots>>
  <2>1. Open' = Open
    BY <1>3 DEF Open
  <2>2. BacktestTypeOK'
    BY <1>1, <1>2, <1>3 DEF BacktestTypeOK
  <2>3. QED
    BY <1>1, <1>2, <1>3, <2>1, <2>2, BooksKept DEF EntriesAreNew
<1>4. ASSUME NEW open \in Opens, NEW atr \in Atrs, NEW shares,
             shares = PositionSize(equity, open, open - AtrStopMult * atr), shares > 0,
             cash' = cash - Cost(shares, open), slots' = slots - 1,
             positions' = [positions EXCEPT
                 ![t] = NewPosition(shares, open, open - AtrStopMult * atr)]
      PROVE  BooksInv'
  <2> DEFINE pos == NewPosition(shares, open, open - AtrStopMult * atr)
  <2>1. shares \in Nat
    <3>1. open - AtrStopMult * atr \in Int
      BY BacktestAssumption DEF BacktestAssumption, AtrStopMult
    <3>2. QED
      BY <1>2, <1>4, <3>1, SizeIsInt
  <2>2. /\ pos \in Position /\ pos.open > 0
        /\ Carries(pos) = -Cost(shares, open) /\ Cost(shares, open) \in Int
    BY <1>2, <1>4, <2>1, NewSettles
  <2>3. positions' = [positions EXCEPT ![t] = pos]
    BY <1>4
  <2> HIDE DEF pos
  <2>4. cash' = cash + (-Cost(shares, open)) /\ cash' \in Int /\ slots' \in Nat
    BY <1>1, <1>2, <1>4, <2>2 DEF BacktestTypeOK
  <2>5. BacktestTypeOK'
    BY <1>1, <1>2, <2>2, <2>3, <2>4 DEF BacktestTypeOK
  <2>6. OpenOrNone'
    BY <1>2, <2>2, <2>3 DEF BooksInv, OpenOrNone, BacktestTypeOK
  <2>7. EntriesAreNew'
    BY <1>1, <1>2, <2>3 DEF EntriesAreNew, Open, BacktestTypeOK
  <2>8. (trades'.pnl - trades.pnl) + Carries(pos) = (cash' - cash) + Carries(positions[t])
        /\ trades'.pnl \in Int /\ phase' # "done"
    BY <1>1, <1>2, <2>2, <2>4, NothingCarried DEF BacktestTypeOK
  <2>9. BooksBalance'
    BY <2>2, <2>3, <2>4, <2>8, TradeBalances
  <2>10. QED
    BY <2>5, <2>6, <2>7, <2>9 DEF BooksInv
<1>5. QED
  <2>1. PICK open \in Opens, atr \in Atrs :
          \/ UNCHANGED <<cash, positions, slots>>
          \/ /\ PositionSize(equity, open, open - AtrStopMult * atr) > 0
             /\ cash' = cash - Cost(PositionSize(equity, open, open - AtrStopMult * atr), open)
             /\ positions' = [positions EXCEPT
                    ![t] = NewPosition(PositionSize(equity, open, open - AtrStopMult * atr),
                                       open, open - AtrStopMult * atr)]
             /\ slots' = slots - 1
    BY DEF Enter
  <2>2. QED
    BY <1>3, <1>4, <2>1

\* A sale of shares of t, on a close or at the end
LEMMA SaleKeepsTypes ==
    ASSUME BacktestTypeOK, NEW t \in Stocks, NEW pos \in Position,
           positions' = [positions EXCEPT ![t] = pos], cash' \in Int,
           trades' \in [count : Nat, pnl : Int, today : Nat], pending' \subseteq pending,
           UNCHANGED <<date, phase, equity, slots, point>>
    PROVE  BacktestTypeOK'
  BY DEF BacktestTypeOK

LEMMA ClosedBooks ==
    ASSUME BacktestTypeOK, NEW pos \in Position, trades' = Closed(pos)
    PROVE  trades' \in [count : Nat, pnl : Int, today : Nat]
           /\ trades'.pnl = trades.pnl + pos.realized
<1>1. /\ trades \in [count : Nat, pnl : Int, today : Nat]
      /\ trades.count + 1 \in Nat /\ trades.pnl + pos.realized \in Int /\ trades.today + 1 \in Nat
  BY DEF Position, BacktestTypeOK
<1>2. trades' = [count |-> trades.count + 1, pnl |-> trades.pnl + pos.realized,
                 today |-> trades.today + 1]
  BY <1>1 DEF Closed
<1>3. QED
  BY <1>1, <1>2

LEMMA BooksExit ==
    ASSUME BooksInv, NEW t \in Stocks, Exit(t)
    PROVE  BooksInv'
<1>1. PICK close \in Closes :
         LET after == ApplyExits([positions[t] EXCEPT !.last = Value(close)], close)
         IN  /\ cash' = cash + after.got
             /\ IF after.pos.open = 0
                THEN /\ trades' = Closed(after.pos)
                     /\ positions' = [positions EXCEPT ![t] = NoPosition]
                ELSE /\ positions' = [positions EXCEPT ![t] = after.pos]
                     /\ UNCHANGED trades
  BY DEF Exit
<1> DEFINE marked == [positions[t] EXCEPT !.last = Value(close)]
           after  == ApplyExits(marked, close)
<1>2. phase = "exits" /\ phase' = "exits" /\ pending' \subseteq pending
      /\ UNCHANGED <<date, phase, equity, slots, point>>
  BY DEF Exit
<1>3. close \in Int /\ marked \in Position /\ Carries(marked) = Carries(positions[t])
  <2>1. close \in Nat /\ Value(close) \in Nat /\ positions[t] \in Position
    BY BacktestAssumption DEF BacktestAssumption, BooksInv, BacktestTypeOK, Value
  <2>2. QED
    BY <2>1 DEF Position, Carries
<1> HIDE DEF marked
<1>4. Settles(after, marked)
  BY <1>3, ApplyExitsSettles
<1>5. cash' = cash + after.got
      /\ IF after.pos.open = 0
         THEN trades' = Closed(after.pos) /\ positions' = [positions EXCEPT ![t] = NoPosition]
         ELSE positions' = [positions EXCEPT ![t] = after.pos] /\ UNCHANGED trades
  BY <1>1 DEF marked
<1> HIDE DEF after
<1>6. /\ after.pos \in Position /\ after.got \in Int
      /\ Carries(after.pos) = Carries(positions[t]) + after.got
  BY <1>3, <1>4 DEF Settles
<1>7. BacktestTypeOK /\ cash' \in Int
  BY <1>5, <1>6 DEF BooksInv, BacktestTypeOK
<1>8. EntriesAreNew'
  BY <1>2 DEF EntriesAreNew
<1>9. CASE after.pos.open = 0
  <2>1. trades' = Closed(after.pos) /\ positions' = [positions EXCEPT ![t] = NoPosition]
    BY <1>5, <1>9
  <2>2. trades' \in [count : Nat, pnl : Int, today : Nat]
        /\ trades'.pnl = trades.pnl + after.pos.realized
    BY <1>6, <1>7, <2>1, ClosedBooks
  <2>3. after.pos.realized \in Int /\ Carries(after.pos) = after.pos.realized
    BY <1>6, <1>9 DEF Position, Carries
  <2>4. BacktestTypeOK'
    BY <1>2, <1>7, <2>1, <2>2, NothingCarried, SaleKeepsTypes
  <2>5. OpenOrNone'
    BY <2>1 DEF BooksInv, OpenOrNone, BacktestTypeOK
  <2>6. trades'.pnl \in Int
        /\ (trades'.pnl - trades.pnl) + Carries(NoPosition)
              = (cash' - cash) + Carries(positions[t])
    BY <1>5, <1>6, <1>7, <2>2, <2>3, NothingCarried, CarriesIsInt DEF BacktestTypeOK
  <2>7. BooksBalance'
    BY <1>2, <1>7, <2>1, <2>6, NothingCarried, TradeBalances
  <2>8. QED
    BY <1>8, <2>4, <2>5, <2>7 DEF BooksInv
<1>10. CASE after.pos.open # 0
  <2>1. positions' = [positions EXCEPT ![t] = after.pos] /\ trades' = trades
    BY <1>5, <1>10
  <2>2. after.pos.open > 0
    BY <1>6, <1>10 DEF Position
  <2>3. BacktestTypeOK'
    <3>1. trades' \in [count : Nat, pnl : Int, today : Nat]
      BY <1>7, <2>1 DEF BacktestTypeOK
    <3>2. QED
      BY <1>2, <1>6, <1>7, <2>1, <3>1, SaleKeepsTypes
  <2>4. OpenOrNone'
    BY <2>1, <2>2 DEF BooksInv, OpenOrNone, BacktestTypeOK
  <2>5. trades'.pnl \in Int
        /\ (trades'.pnl - trades.pnl) + Carries(after.pos)
              = (cash' - cash) + Carries(positions[t])
    BY <1>5, <1>6, <1>7, <2>1, CarriesIsInt DEF BacktestTypeOK
  <2>6. BooksBalance'
    BY <1>2, <1>6, <1>7, <2>1, <2>5, TradeBalances
  <2>7. QED
    BY <1>8, <2>3, <2>4, <2>6 DEF BooksInv
<1>11. QED
  BY <1>9, <1>10

LEMMA BooksForceClose ==
    ASSUME BooksInv, NEW t \in Stocks, ForceClose(t)
    PROVE  BooksInv'
<1> DEFINE pos   == positions[t]
           price == pos.last \div 100
           sold  == Booked(pos, pos.open, price)
           got   == Proceeds(pos.open, price)
<1>1. /\ phase = "force" /\ cash' = cash + got /\ trades' = Closed(sold)
      /\ positions' = [positions EXCEPT ![t] = NoPosition]
      /\ UNCHANGED <<date, phase, equity, slots, pending, point>>
  BY DEF ForceClose
<1>2. BacktestTypeOK /\ pos \in Position /\ price \in Int /\ pos.open \in 0..pos.open
      /\ pos.open \in Int
  BY DEF BooksInv, BacktestTypeOK, Position
<1> HIDE DEF pos, price
<1>3. sold \in Position /\ sold.open = pos.open - pos.open /\ got \in Int
      /\ Carries(sold) = Carries(pos) + got
  BY <1>2, BookedSettles, FillsAreInt
<1> HIDE DEF sold, got
<1>4. trades' \in [count : Nat, pnl : Int, today : Nat] /\ trades'.pnl = trades.pnl + sold.realized
  BY <1>1, <1>2, <1>3, ClosedBooks
<1>5. sold.realized \in Int /\ Carries(sold) = sold.realized
  <2>1. sold.open = 0
    BY <1>2, <1>3
  <2>2. QED
    BY <1>3, <2>1 DEF Position, Carries
<1>6. BacktestTypeOK'
  <2>1. cash' \in Int
    BY <1>1, <1>2, <1>3 DEF BacktestTypeOK
  <2>2. QED
    BY <1>1, <1>2, <1>4, <2>1, NothingCarried, SaleKeepsTypes
<1>7. OpenOrNone' /\ EntriesAreNew'
  BY <1>1 DEF BooksInv, OpenOrNone, BacktestTypeOK, EntriesAreNew
<1>8. trades'.pnl \in Int /\ cash' \in Int
      /\ (trades'.pnl - trades.pnl) + Carries(NoPosition) = (cash' - cash) + Carries(positions[t])
  <2>1. Carries(pos) \in Int
    BY <1>2, CarriesIsInt
  <2>2. QED
    BY <1>1, <1>2, <1>3, <1>4, <1>5, <2>1, NothingCarried DEF BacktestTypeOK, pos
<1>9. BooksBalance'
  BY <1>1, <1>8, NothingCarried, TradeBalances
<1>10. QED
  BY <1>6, <1>7, <1>9 DEF BooksInv

\* The curve closes on the cash, which is all there is.
LEMMA BooksReconcile ==
    ASSUME BooksInv, Reconcile
    PROVE  BooksInv'
<1>1. /\ Open = {} /\ point' = Point(cash) /\ phase' = "done"
      /\ UNCHANGED <<date, cash, positions, equity, slots, pending, trades>>
  BY DEF Reconcile
<1>2. LastDate \in Nat /\ date \in 0..LastDate /\ cash \in Int /\ trades.pnl \in Int
      /\ Value(InitialCapital) \in Int
  BY BacktestAssumption DEF BacktestAssumption, BooksInv, BacktestTypeOK, Value
<1>3. BacktestTypeOK'
  BY <1>1, <1>2 DEF BooksInv, BacktestTypeOK, Point
<1>4. cash = Value(InitialCapital) + trades.pnl
  <2>1. Carried = 0 /\ cash = Value(InitialCapital) + trades.pnl + Carried
    BY <1>1, NothingOpen DEF BooksInv, BooksBalance, Carried
  <2>2. QED
    BY <1>2, <2>1
<1>5. BooksBalance'
  <2>1. Open' = {} /\ point'.value = cash
    BY <1>1 DEF Open, Point
  <2>2. QED
    BY <1>1, <1>4, <2>1 DEF BooksInv, BooksBalance, Carries, Value
<1>6. OpenOrNone' /\ EntriesAreNew'
  BY <1>1 DEF BooksInv, OpenOrNone, EntriesAreNew
<1>7. QED
  BY <1>3, <1>5, <1>6 DEF BooksInv

LEMMA BooksStep == BooksInv /\ [BacktestNext]_backtestVars => BooksInv'
<1> SUFFICES ASSUME BooksInv, [BacktestNext]_backtestVars PROVE BooksInv'
  OBVIOUS
<1>1. CASE UNCHANGED backtestVars
  BY <1>1 DEF backtestVars, BooksInv, BacktestTypeOK, OpenOrNone, EntriesAreNew, BooksBalance,
              Open, Carries
<1>2. CASE BacktestNext
  BY <1>2, BooksSteps, BooksEnter, BooksExit, BooksForceClose, BooksReconcile DEF BacktestNext
<1>3. QED
  BY <1>1, <1>2

---------------------------------------------------------------------------

\* Every position has as many shares as it bought less those it sold, and the books
\* balance at every step of the simulation.
THEOREM BooksInvariant == BacktestSpec => []BooksInv
  BY BooksInit, BooksStep, PTL DEF BacktestSpec

\* What the account has is the initial capital, the pnl of the trades and what the
\* positions carry; the curve closes on initial capital plus the pnl that is reported.
THEOREM BooksBalanceHolds == Spec => []BooksBalance
<1>1. BooksInv => BooksBalance
  BY DEF BooksInv
<1>2. QED
  BY <1>1, ProcessSimulates, BooksInvariant, PTL

---------------------------------------------------------------------------
(* Sequences.                                                              *)

\* Among picks items of the sequence and of the set.
LEMMA AmongIsSeq ==
    ASSUME NEW T, NEW items \in Seq(T), NEW S
    PROVE  Among(items, S) \in Seq(T \cap S)
<1> DEFINE Taken(g) == g = [n \in 0..Len(items) |->
                              IF n = 0 THEN <<>>
                              ELSE IF items[n] \in S THEN Append(g[n - 1], items[n]) ELSE g[n - 1]]
           R == T \cap S
           turn == [z \in (1..Len(items)) \X Seq(R) |->
                      IF items[z[1]] \in S THEN Append(z[2], items[z[1]]) ELSE z[2]]
           L == Len(items)
<1>1. L \in Nat /\ \A n \in 1..L : items[n] \in T
  OBVIOUS
<1>2. \A k \in 1..L : \A q \in Seq(R) :
        /\ turn[<<k, q>>] = IF items[k] \in S THEN Append(q, items[k]) ELSE q
        /\ turn[<<k, q>>] \in Seq(R)
  <2> TAKE k \in 1..L
  <2> TAKE q \in Seq(R)
  <2>1. turn[<<k, q>>] = IF items[k] \in S THEN Append(q, items[k]) ELSE q
    <3>1. <<k, q>> \in (1..Len(items)) \X Seq(R)
      OBVIOUS
    <3> HIDE DEF R
    <3>2. QED
      BY <3>1
  <2>2. items[k] \in S => Append(q, items[k]) \in Seq(R)
    BY <1>1
  <2>3. QED
    BY <2>1, <2>2
<1> HIDE DEF turn, R
<1>3. PICK g \in [0..L -> Seq(R)] : Loops(g, 0, L, <<>>, turn)
  <2>1. <<>> \in Seq(R) /\ 0 \in Nat /\ 0 <= L
    BY <1>1, EmptySeq
  <2>2. \A k \in (0 + 1)..L : \A q \in Seq(R) : turn[<<k, q>>] \in Seq(R)
    <3> HIDE DEF L
    <3>1. 0 + 1 = 1
      OBVIOUS
    <3>2. QED
      BY <1>2, <3>1
  <2> HIDE DEF L
  <2>3. QED
    BY <1>1, <2>1, <2>2, LoopExists
<1>4. Taken(g)
  <2>1. \A n \in 0..L : g[n] = IF n = 0 THEN <<>>
                               ELSE IF items[n] \in S THEN Append(g[n - 1], items[n]) ELSE g[n - 1]
    <3> TAKE n \in 0..L
    <3>1. CASE n = 0
      BY <1>3, <3>1 DEF Loops
    <3>2. CASE n # 0
      <4>1. n \in 1..L /\ n - 1 \in 0..L /\ g[n - 1] \in Seq(R)
        BY <1>1, <3>2
      <4>2. g[n] = turn[<<n, g[n - 1]>>]
        BY <1>3, <3>2 DEF Loops
      <4>3. QED
        BY <1>2, <3>2, <4>1, <4>2
    <3>3. QED
      BY <3>1, <3>2
  <2>2. QED
    BY <2>1
<1>5. PICK h : Taken(h) /\ Among(items, S) = h[L]
  <2>1. Among(items, S) = (CHOOSE h : Taken(h))[L]
    BY DEF Among
  <2>2. QED
    BY <1>4, <2>1
<1> DEFINE N == {n \in Nat : n <= L => h[n] \in Seq(R)}
<1>6. 0 \in N
  BY <1>1, <1>5
<1>7. ASSUME NEW n \in Nat, n \in N PROVE n + 1 \in N
  <2> SUFFICES ASSUME n + 1 <= L PROVE h[n + 1] \in Seq(R)
    OBVIOUS
  <2>1. h[n] \in Seq(R) /\ n + 1 \in 0..L /\ n + 1 # 0 /\ (n + 1) - 1 = n /\ n + 1 \in 1..L
    BY <1>1, <1>7
  <2>2. h[n + 1] = IF items[n + 1] \in S THEN Append(h[n], items[n + 1]) ELSE h[n]
    BY <1>5, <2>1
  <2>3. items[n + 1] \in S => Append(h[n], items[n + 1]) \in Seq(R)
    BY <1>1, <2>1 DEF R
  <2>4. QED
    BY <2>1, <2>2, <2>3
<1> HIDE DEF N
<1>8. L \in N
  <2>1. \A n \in Nat : n \in N
    BY <1>6, <1>7, Induction
  <2>2. QED
    BY <1>1, <2>1
<1>9. QED
  BY <1>1, <1>5, <1>8 DEF N, R

---------------------------------------------------------------------------
(* The shared cache.                                                       *)

\* A frame whose newest bar is one there is.
GoodFrame == [fetched : Times, bar : {-1} \cup Times, trusted : BOOLEAN]
GoodEntry == [frame : GoodFrame, expires : Nat]

DataInv ==
    /\ clock \in Times /\ clock > 0 /\ floor \in Times /\ others \in 0..MaxOthers
    /\ disk \in [Key -> GoodEntry]

LEMMA TimesAreNat == Times \subseteq Nat /\ 0 \in Times /\ MaxTime \in Nat
  BY MarketDataAssumption DEF MarketDataAssumption, Times

LEMMA EmptyIsGood == Empty \in GoodFrame /\ NoEntry \in GoodEntry
  BY TimesAreNat DEF Empty, NoEntry, GoodFrame, GoodEntry

LEMMA GoodIsEntry == GoodFrame \subseteq Frame /\ GoodEntry \subseteq Entry
<1>1. {-1} \cup Times \subseteq Int
  BY TimesAreNat
<1>2. QED
  BY <1>1 DEF GoodFrame, GoodEntry, Frame, Entry

LEMMA KeysOf == \A t \in Tickers : Daily(t) \in Key /\ Intraday(t) \in Key
  BY DEF Daily, Intraday, Key, Intervals

LEMMA TTLIsNat == ASSUME NEW k PROVE TTL(k) \in Nat
  BY MarketDataAssumption DEF MarketDataAssumption, TTL

LEMMA RemovedKeeps ==
    ASSUME NEW d \in [Key -> GoodEntry], NEW gone
    PROVE  Removed(d, gone) \in [Key -> GoodEntry]
  BY EmptyIsGood DEF Removed

LEMMA SweepsKeep ==
    ASSUME NEW d \in [Key -> GoodEntry], NEW e \in Sweeps(d)
    PROVE  e \in [Key -> GoodEntry]
<1>1. Unexpired(d) \in [Key -> GoodEntry]
  BY RemovedKeeps DEF Unexpired
<1>2. \A gone : Removed(Unexpired(d), gone) \in [Key -> GoodEntry]
  BY <1>1, RemovedKeeps
<1>3. e \in {d, Unexpired(d)} \/ \E gone : e = Removed(Unexpired(d), gone)
  BY DEF Sweeps
<1>4. QED
  BY <1>1, <1>2, <1>3

LEMMA SetKeeps ==
    ASSUME DataInv, NEW k \in Key, NEW frame \in GoodFrame, Set(k, frame)
    PROVE  disk' \in [Key -> GoodEntry]
<1>1. clock + TTL(k) \in Nat
  BY TTLIsNat, TimesAreNat DEF DataInv
<1>2. [frame |-> frame, expires |-> clock + TTL(k)] \in GoodEntry
  BY <1>1 DEF GoodEntry
<1>3. [disk EXCEPT ![k] = [frame |-> frame, expires |-> clock + TTL(k)]] \in [Key -> GoodEntry]
  BY <1>2 DEF DataInv
<1>4. QED
  BY <1>3, SweepsKeep DEF Set

LEMMA AnswersAreGood ==
    ASSUME DataInv, NEW k, NEW frame \in Answers(k)
    PROVE  /\ frame \in GoodFrame /\ frame.fetched = clock /\ frame.trusted
<1>1. PICK lag \in {0} \cup 0..MaxLag : frame = [fetched |-> clock, bar |-> clock - lag, trusted |-> TRUE]
  BY DEF Answers
<1>2. lag \in {0, 1} /\ clock \in 1..MaxTime
  <2>1. MaxLag \in {0, 1} /\ MaxTime \in Nat
    BY MarketDataAssumption DEF MarketDataAssumption
  <2>2. clock \in 0..MaxTime /\ clock > 0
    BY DEF DataInv, Times
  <2>3. \A x \in {0} \cup 0..MaxLag : x \in {0, 1}
    BY <2>1
  <2>4. lag \in {0, 1}
    BY <1>1, <2>3
  <2>5. clock \in Nat /\ clock > 0 /\ clock <= MaxTime
    BY <2>1, <2>2
  <2>6. QED
    BY <2>1, <2>4, <2>5
<1>3. clock - lag \in Times
  BY <1>2, MarketDataAssumption DEF Times, MarketDataAssumption
<1>4. QED
  BY <1>1, <1>3 DEF GoodFrame, DataInv

\* What a fetch gives back, and leaves of the cache.
LEMMA CachedIsGood ==
    ASSUME DataInv, NEW k \in Key
    PROVE  Get(k) \in GoodFrame /\ GetStale(k) \in GoodFrame
<1>1. disk[k] \in GoodEntry
  BY DEF DataInv
<1>2. disk[k].frame \in GoodFrame
  BY <1>1 DEF GoodEntry
<1>3. QED
  BY <1>2, EmptyIsGood DEF Get, GetStale

LEMMA DownloadedKeeps ==
    ASSUME DataInv, NEW k \in Key, NEW frame, Downloaded(k, frame)
    PROVE  /\ frame \in GoodFrame /\ frame.fetched = clock /\ frame.trusted
           /\ disk' \in [Key -> GoodEntry]
<1>1. frame \in GoodFrame /\ frame.fetched = clock /\ frame.trusted
  BY AnswersAreGood DEF Downloaded
<1>2. QED
  BY <1>1, SetKeeps DEF Downloaded

LEMMA FellBackKeeps ==
    ASSUME DataInv, NEW k \in Key, NEW frame, FellBack(k, frame)
    PROVE  frame \in GoodFrame /\ disk' \in [Key -> GoodEntry]
  BY CachedIsGood DEF FellBack, DataInv

LEMMA DataInvInit == ASSUME NEW keys, DataInit(keys) PROVE DataInv
<1>1. MaxTime \in Nat \ {0} /\ MaxOthers \in Nat
  BY MarketDataAssumption DEF MarketDataAssumption
<1>2. clock \in Times /\ clock > 0 /\ floor \in Times /\ others \in 0..MaxOthers
  BY <1>1 DEF DataInit, Times
<1>3. \A k : Old(k) \subseteq GoodEntry
  <2> SUFFICES ASSUME NEW k, NEW o \in Old(k) PROVE o \in GoodEntry
    OBVIOUS
  <2>1. /\ o = [frame |-> o.frame, expires |-> o.expires] /\ o.expires = 1
        /\ o.frame \in [fetched : {0}, bar : {0}, trusted : IF k[2] = "1d" THEN BOOLEAN ELSE {FALSE}]
    BY DEF Old
  <2>2. o.frame \in GoodFrame
    BY <2>1, TimesAreNat DEF GoodFrame
  <2>3. QED
    BY <2>1, <2>2 DEF GoodEntry
<1>4. \A k \in Key : disk[k] \in GoodEntry
  BY <1>3, EmptyIsGood DEF DataInit
<1>5. disk \in [Key -> {NoEntry} \cup UNION {Old(k) : k \in keys}]
  BY DEF DataInit
<1>6. disk \in [Key -> GoodEntry]
  BY <1>4, <1>5
<1>7. QED
  BY <1>2, <1>6 DEF DataInv

\* The rest of the installation, and time.
LEMMA AroundKeepsData ==
    ASSUME DataInv, NEW keys, keys \subseteq Key, OtherProcess(keys) \/ Tick
    PROVE  DataInv' /\ clock' >= clock /\ UNCHANGED floor
<1>1. CASE OtherProcess(keys)
  <2>1. others' \in 0..MaxOthers
    BY <1>1, MarketDataAssumption DEF OtherProcess, DataInv, MarketDataAssumption
  <2>2. PICK k \in keys : \E frame \in Answers(k) : Set(k, frame)
    BY <1>1 DEF OtherProcess
  <2>3. disk' \in [Key -> GoodEntry]
    BY <2>2, AnswersAreGood, SetKeeps
  <2>4. QED
    BY <1>1, <2>1, <2>3, TimesAreNat DEF OtherProcess, DataInv
<1>2. CASE Tick
  BY <1>2, TimesAreNat, MarketDataAssumption DEF Tick, DataInv, Times, MarketDataAssumption
<1>3. QED
  BY <1>1, <1>2

---------------------------------------------------------------------------
(* The daily scan.                                                         *)

GoodRead == [frame : GoodFrame, via : Sources]

ScanInv ==
    /\ stage \in {"idle", "regime", "batch", "request", "pool", "analyze"}
    /\ start \in Times /\ start <= clock /\ (RefreshDailyBars => floor >= start)
    /\ fetching \in [Tickers -> {"none", "queued", "downloading"}]
    /\ read \in [Tickers -> GoodRead]
    /\ left \subseteq Universe /\ plans \subseteq GoodRead
    /\ ScanBarsAreFresh

\* What a scan may take for fresh.
FreshRead(r) ==
    r.via \in {"cache", "provider"} => r.frame.trusted /\ (RefreshDailyBars => r.frame.fetched >= start)

LEMMA FromIsGood ==
    ASSUME NEW frame \in GoodFrame, NEW via \in Sources
    PROVE  From(frame, via) \in GoodRead /\ From(frame, via).frame = frame /\ From(frame, via).via = via
  BY DEF From, GoodRead

LEMMA UnreadIsGood == Unread \in GoodRead /\ FreshRead(Unread)
  BY EmptyIsGood DEF Unread, GoodRead, Sources, FreshRead

LEMMA HitIsFresh ==
    ASSUME DataInv, ScanInv, NEW t \in Tickers, Hit(Daily(t))
    PROVE  LET r == From(Get(Daily(t)), "cache") IN r \in GoodRead /\ FreshRead(r)
<1>1. Daily(t) \in Key /\ Get(Daily(t)) \in GoodFrame
  BY KeysOf, CachedIsGood
<1>2. Daily(t)[2] = "1d"
  BY DEF Daily
<1>3. /\ Get(Daily(t)).trusted
      /\ floor # 0 => Get(Daily(t)).fetched >= floor
  BY <1>2 DEF Hit, Usable
<1>4. Get(Daily(t)).fetched \in Times
  BY <1>1 DEF GoodFrame
<1>5. RefreshDailyBars => Get(Daily(t)).fetched >= start
  <2>1. /\ floor \in Nat /\ start \in Nat /\ (RefreshDailyBars => floor >= start)
        /\ Get(Daily(t)).fetched \in Nat
    BY <1>4, TimesAreNat DEF DataInv, ScanInv
  <2>2. floor # 0 => Get(Daily(t)).fetched >= floor
    BY <1>3
  <2> HIDE <1>3
  <2>3. QED
    BY <2>1, <2>2
<1>6. "cache" \in Sources
  BY DEF Sources
<1>7. QED
  BY <1>1, <1>3, <1>5, <1>6, FromIsGood DEF FreshRead

\* One more frame is read, by one step of a scan that goes on.
LEMMA ReadKeepsScan ==
    ASSUME ScanInv, NEW t \in Tickers, NEW r \in GoodRead, FreshRead(r),
           read' = [read EXCEPT ![t] = r], UNCHANGED <<clock, floor, stage, start, left, plans>>,
           fetching' \in [Tickers -> {"none", "queued", "downloading"}]
    PROVE  ScanInv'
  BY DEF ScanInv, ScanBarsAreFresh, FreshRead

LEMMA ScanInvInit == DataInv /\ ScanInit => ScanInv
  BY UnreadIsGood, TimesAreNat DEF DataInv, ScanInit, ScanInv, ScanBarsAreFresh, FreshRead

LEMMA LookUpKeeps ==
    ASSUME DataInv, ScanInv, NEW t \in Tickers, LookUp(t)
    PROVE  DataInv' /\ ScanInv'
<1>1. DataInv' /\ UNCHANGED <<clock, floor, stage, start, left, plans>>
  BY DEF LookUp, data, DataInv
<1>2. fetching' \in [Tickers -> {"none", "queued", "downloading"}]
  BY DEF LookUp, ScanInv
<1>3. CASE Hit(Daily(t))
  BY <1>1, <1>2, <1>3, HitIsFresh, ReadKeepsScan DEF LookUp
<1>4. CASE ~Hit(Daily(t))
  BY <1>1, <1>2, <1>4 DEF LookUp, ScanInv, ScanBarsAreFresh
<1>5. QED
  BY <1>1, <1>3, <1>4

LEMMA DownloadKeeps ==
    ASSUME DataInv, ScanInv, NEW t \in Tickers, Download(t)
    PROVE  DataInv' /\ ScanInv'
<1>1. /\ UNCHANGED <<clock, floor, others, stage, start, left, plans>> /\ Daily(t) \in Key
      /\ fetching' \in [Tickers -> {"none", "queued", "downloading"}]
  BY KeysOf DEF Download, ScanInv
<1>2. PICK frame : \/ Downloaded(Daily(t), frame) /\ read' = [read EXCEPT ![t] = From(frame, "provider")]
                   \/ FellBack(Daily(t), frame) /\ read' = [read EXCEPT ![t] = From(frame, "stale")]
  BY DEF Download
<1>3. "provider" \in Sources /\ "stale" \in Sources
  BY DEF Sources
<1>4. CASE Downloaded(Daily(t), frame) /\ read' = [read EXCEPT ![t] = From(frame, "provider")]
  <2>1. /\ frame \in GoodFrame /\ frame.fetched = clock /\ frame.trusted
        /\ disk' \in [Key -> GoodEntry]
    BY <1>1, <1>4, DownloadedKeeps
  <2>2. From(frame, "provider") \in GoodRead /\ FreshRead(From(frame, "provider"))
    BY <1>3, <2>1, FromIsGood DEF FreshRead, ScanInv
  <2>3. QED
    BY <1>1, <1>4, <2>1, <2>2, ReadKeepsScan DEF DataInv
<1>5. CASE FellBack(Daily(t), frame) /\ read' = [read EXCEPT ![t] = From(frame, "stale")]
  <2>1. frame \in GoodFrame /\ disk' \in [Key -> GoodEntry]
    BY <1>1, <1>5, FellBackKeeps
  <2>2. From(frame, "stale") \in GoodRead /\ FreshRead(From(frame, "stale"))
    BY <1>3, <2>1, FromIsGood DEF FreshRead
  <2>3. QED
    BY <1>1, <1>5, <2>1, <2>2, ReadKeepsScan DEF DataInv
<1>6. QED
  BY <1>2, <1>4, <1>5

LEMMA BatchAnswerKeeps ==
    ASSUME DataInv, ScanInv, NEW t \in Tickers, BatchAnswer(t)
    PROVE  DataInv' /\ ScanInv'
<1>1. /\ UNCHANGED <<clock, floor, others, stage, start, fetching, left, plans>> /\ Daily(t) \in Key
      /\ fetching' \in [Tickers -> {"none", "queued", "downloading"}]
  BY KeysOf DEF BatchAnswer, ScanInv
<1>2. PICK frame : Downloaded(Daily(t), frame) /\ read' = [read EXCEPT ![t] = From(frame, "provider")]
  BY DEF BatchAnswer
<1>3. /\ frame \in GoodFrame /\ frame.fetched = clock /\ frame.trusted
      /\ disk' \in [Key -> GoodEntry]
  BY <1>1, <1>2, DownloadedKeeps
<1>4. From(frame, "provider") \in GoodRead /\ FreshRead(From(frame, "provider"))
  <2>1. "provider" \in Sources
    BY DEF Sources
  <2>2. QED
    BY <1>3, <2>1, FromIsGood DEF FreshRead, ScanInv
<1>5. QED
  BY <1>1, <1>2, <1>3, <1>4, ReadKeepsScan DEF DataInv

LEMMA ScanInvStep == DataInv /\ ScanInv /\ ScanNext => DataInv' /\ ScanInv'
<1> SUFFICES ASSUME DataInv, ScanInv, ScanNext PROVE DataInv' /\ ScanInv'
  OBVIOUS
<1>1. CASE ScanStart
  <2>1. floor' \in Times /\ (RefreshDailyBars => floor' >= clock)
    BY <1>1, TimesAreNat DEF ScanStart, RequireDailyBarsFetchedSince, DataInv
  <2>2. read' \in [Tickers -> GoodRead] /\ \A t \in Tickers : read'[t].via = "none"
    BY <1>1, UnreadIsGood DEF ScanStart, Unread
  <2>3. QED
    BY <1>1, <2>1, <2>2, TimesAreNat DEF ScanStart, DataInv, ScanInv, ScanBarsAreFresh
<1>2. CASE Regime \/ BatchEnd \/ ScanEnd
  BY <1>2 DEF Regime, BatchEnd, ScanEnd, data, DataInv, ScanInv, ScanBarsAreFresh
<1>3. CASE BatchHits
  <2>1. \A t \in Tickers : read'[t] \in GoodRead /\ FreshRead(read'[t])
    BY <1>3, HitIsFresh, UnreadIsGood DEF BatchHits
  <2>2. read' \in [Tickers -> GoodRead]
    BY <1>3, <2>1 DEF BatchHits
  <2>3. QED
    BY <1>3, <2>1, <2>2 DEF BatchHits, data, DataInv, ScanInv, ScanBarsAreFresh, FreshRead
<1>4. CASE PreFilter
  BY <1>4 DEF PreFilter, data, DataInv, ScanInv, ScanBarsAreFresh
<1>5. ASSUME NEW t \in Tickers, Analyze(t) PROVE DataInv' /\ ScanInv'
  BY <1>5 DEF Analyze, data, DataInv, ScanInv, ScanBarsAreFresh
<1>6. QED
  BY <1>1, <1>2, <1>3, <1>4, <1>5, LookUpKeeps, DownloadKeeps, BatchAnswerKeeps DEF ScanNext

---------------------------------------------------------------------------
(* The intraday loop.                                                      *)

\* The mark of a candidate is of when it was accepted, or is gone because the window has passed
\* for the scan that goes on and for every later one.
MarksOK ==
    \A c \in Candidate :
        /\ lastSeen[c] # Never => lastSeen[c] = accepted[c]
        /\ lastSeen[c] = Never /\ accepted[c] # Never =>
              /\ clock - accepted[c] >= DedupTTL
              /\ step \in {"scan", "push"} => now - accepted[c] >= DedupTTL

CandidatesOK ==
    /\ found \in Seq(Candidate) /\ queue \in Seq(Candidate) /\ drained \in Seq(Candidate)
    /\ Len(queue) <= QueueMax
    /\ step = "evaluate" => drained # <<>>

BatchOK ==
    /\ offset \in 0..Len(Watchlist)
    /\ batch \in Seq(Tickers) /\ scanned \in 0..Len(batch) /\ coalesced \subseteq Tickers

PlanOK == plan \in Plan \cup {NoPlan} /\ PlansAreRecent

PipelineInv ==
    /\ step \in {"wait", "scan", "push", "eligible", "evaluate"}
    /\ now \in Times /\ now <= clock
    /\ lastSeen \in [Candidate -> Times] /\ accepted \in [Candidate -> Times]
    /\ verdicts \in [Tickers -> Verdict]
    /\ BatchOK /\ CandidatesOK /\ PlanOK /\ MarksOK

LEMMA PipelineFacts ==
    /\ Watchlist \in Seq(Tickers) /\ KindOrder \in Seq(STRING)
    /\ UniverseCap \in Nat \ {0} /\ QueueMax \in Nat \ {0} /\ MaxPerCycle \in Nat \ {0}
    /\ DedupTTL \in Nat /\ MaxStale \in Nat /\ EligibilityTTL \in Nat
  BY PipelineAssumption DEF PipelineAssumption

LEMMA PipelineInvInit == DataInv /\ PipelineInit => PipelineInv
<1> SUFFICES ASSUME DataInv, PipelineInit PROVE PipelineInv
  OBVIOUS
<1>1. lastSeen \in [Candidate -> Times] /\ accepted \in [Candidate -> Times]
  BY TimesAreNat DEF PipelineInit, Never
<1>2. verdicts \in [Tickers -> Verdict]
  BY DEF PipelineInit, NoVerdict, Verdict
<1>3. BatchOK /\ CandidatesOK
  BY PipelineFacts DEF PipelineInit, BatchOK, CandidatesOK
<1>4. PlanOK
  BY DEF PipelineInit, PlanOK, PlansAreRecent
<1>5. MarksOK
  BY DEF PipelineInit, MarksOK, Never
<1>6. QED
  BY <1>1, <1>2, <1>3, <1>4, <1>5, TimesAreNat DEF PipelineInit, PipelineInv, DataInv

\* Time goes on around the loop.
LEMMA PipelineRests ==
    ASSUME DataInv, PipelineInv, UNCHANGED loop, clock' \in Times, clock' >= clock
    PROVE  PipelineInv'
<1>1. now' \in Times /\ now' <= clock'
  BY TimesAreNat DEF PipelineInv, loop, DataInv
<1>2. MarksOK'
  <2>1. clock \in Nat /\ clock' \in Nat /\ DedupTTL \in Nat
    BY TimesAreNat, PipelineFacts DEF DataInv
  <2>2. \A c \in Candidate : accepted[c] \in Nat
    BY TimesAreNat DEF PipelineInv
  <2>3. \A c \in Candidate : clock - accepted[c] >= DedupTTL => clock' - accepted[c] >= DedupTTL
    BY <2>1, <2>2
  <2>4. QED
    BY <2>3 DEF PipelineInv, MarksOK, loop
<1>3. QED
  BY <1>1, <1>2 DEF PipelineInv, BatchOK, CandidatesOK, PlanOK, PlansAreRecent, loop

\* The marks are let be, by a step of a scan or between scans.
LEMMA MarksRest ==
    ASSUME MarksOK, UNCHANGED <<clock, lastSeen, accepted>>,
           \/ step' \notin {"scan", "push"}
           \/ step \in {"scan", "push"} /\ UNCHANGED now
           \/ now' = clock
    PROVE  MarksOK'
  BY DEF MarksOK

LEMMA FetchIntradayKeeps ==
    ASSUME DataInv, NEW t \in Tickers, NEW frame, FetchIntraday(t, frame)
    PROVE  frame \in GoodFrame /\ disk' \in [Key -> GoodEntry]
<1>1. Intraday(t) \in Key
  BY KeysOf
<1>2. QED
  BY <1>1, CachedIsGood, DownloadedKeeps, FellBackKeeps DEF FetchIntraday, DataInv

LEMMA RunOnceKeeps == DataInv /\ PipelineInv /\ RunOnce => DataInv' /\ PipelineInv'
<1> SUFFICES ASSUME DataInv, PipelineInv, RunOnce PROVE DataInv' /\ PipelineInv'
  OBVIOUS
<1> DEFINE n == Len(Watchlist)
           cap == IF UniverseCap < n THEN UniverseCap ELSE n
<1>1. n \in Nat /\ cap \in 0..n /\ (n = 0 => cap = 0)
  BY PipelineFacts
<1>2. \A x \in Int : n # 0 => x % n \in 0..(n - 1)
  BY <1>1
<1>3. batch' \in Seq(Tickers)
  <2>1. \A i \in 1..cap : Watchlist[((offset + i - 1) % n) + 1] \in Tickers
    <3> TAKE i \in 1..cap
    <3>1. offset + i - 1 \in Int /\ n # 0
      BY <1>1 DEF PipelineInv, BatchOK
    <3>2. (offset + i - 1) % n \in 0..(n - 1)
      BY <1>2, <3>1
    <3> HIDE DEF n
    <3>3. ((offset + i - 1) % n) + 1 \in 1..n
      BY <1>1, <3>2
    <3>4. QED
      BY <3>3, PipelineFacts, ElementOfSeq DEF n
  <2>2. batch' = [i \in 1..cap |-> Watchlist[((offset + i - 1) % n) + 1]]
    BY DEF RunOnce, NextBatch
  <2> HIDE DEF cap, n
  <2>3. QED
    BY <1>1, <2>1, <2>2, IsASeq
<1>4. offset' \in 0..n
  <2>1. offset' = IF n = 0 THEN offset ELSE (offset + cap) % n
    BY DEF RunOnce, NextBatch
  <2>2. offset + cap \in Int /\ offset \in 0..n
    BY <1>1 DEF PipelineInv, BatchOK
  <2> HIDE DEF cap, n
  <2>3. QED
    BY <1>1, <1>2, <2>1, <2>2
<1>5. BatchOK'
  BY <1>3, <1>4 DEF RunOnce, BatchOK, PipelineInv
<1>6. CandidatesOK'
  BY DEF RunOnce, CandidatesOK, PipelineInv
<1>7. PlanOK' /\ DataInv'
  BY DEF RunOnce, PlanOK, PlansAreRecent, PipelineInv, DataInv, data
<1>8. MarksOK'
  BY MarksRest DEF RunOnce, PipelineInv, data
<1>9. now' \in Times /\ now' <= clock'
  BY TimesAreNat DEF RunOnce, DataInv, data
<1>10. QED
  BY <1>5, <1>6, <1>7, <1>8, <1>9 DEF RunOnce, PipelineInv

LEMMA ScanTickerKeeps == DataInv /\ PipelineInv /\ ScanTicker => DataInv' /\ PipelineInv'
<1> SUFFICES ASSUME DataInv, PipelineInv, ScanTicker PROVE DataInv' /\ PipelineInv'
  OBVIOUS
<1> DEFINE t == batch[scanned + 1]
<1>1. t \in Tickers
  BY ElementOfSeq DEF ScanTicker, PipelineInv, BatchOK
<1>2. PICK frame : \E kinds \in SUBSET Kinds :
         /\ FetchIntraday(t, frame)
         /\ LET chosen == Among(KindOrder, kinds)
            IN  found' = found \o [i \in DOMAIN chosen |-> <<t, chosen[i]>>]
  BY DEF ScanTicker, KindSets
<1>2a. PICK kinds \in SUBSET Kinds :
         /\ FetchIntraday(t, frame)
         /\ LET chosen == Among(KindOrder, kinds)
            IN  found' = found \o [i \in DOMAIN chosen |-> <<t, chosen[i]>>]
  BY <1>2
<1>3. disk' \in [Key -> GoodEntry]
  BY <1>1, <1>2, FetchIntradayKeeps
<1>4. found' \in Seq(Candidate)
  <2> DEFINE chosen == Among(KindOrder, kinds)
             more   == [i \in DOMAIN chosen |-> <<t, chosen[i]>>]
  <2>1. chosen \in Seq(STRING \cap kinds)
    BY PipelineFacts, AmongIsSeq
  <2>2. DOMAIN chosen = 1..Len(chosen) /\ Len(chosen) \in Nat /\ \A i \in 1..Len(chosen) : chosen[i] \in kinds
    BY <2>1, LenProperties, ElementOfSeq
  <2>3. \A i \in 1..Len(chosen) : <<t, chosen[i]>> \in Candidate
    BY <1>1, <2>2 DEF Candidate
  <2> HIDE DEF chosen
  <2>4. more \in Seq(Candidate)
    BY <2>2, <2>3, IsASeq
  <2>5. found' = found \o more
    BY <1>2a DEF chosen
  <2> HIDE DEF more
  <2>6. QED
    BY <2>4, <2>5, ConcatProperties DEF PipelineInv, CandidatesOK
<1>5. scanned' \in 0..Len(batch)
  BY DEF ScanTicker, PipelineInv, BatchOK
<1>6. BatchOK' /\ CandidatesOK'
  BY <1>4, <1>5 DEF ScanTicker, PipelineInv, BatchOK, CandidatesOK
<1>7. MarksOK'
  BY MarksRest DEF ScanTicker, PipelineInv
<1>8. QED
  BY <1>3, <1>6, <1>7 DEF ScanTicker, PipelineInv, DataInv, PlanOK, PlansAreRecent

LEMMA TailKeeps ==
    ASSUME NEW S, NEW s \in Seq(S), s # <<>>
    PROVE  Head(s) \in S /\ Tail(s) \in Seq(S)
  BY HeadTailProperties

LEMMA ScanGapsKeeps == DataInv /\ PipelineInv /\ ScanGaps => DataInv' /\ PipelineInv'
<1> SUFFICES ASSUME DataInv, PipelineInv, ScanGaps PROVE DataInv' /\ PipelineInv'
  OBVIOUS
<1>1. PICK gaps \in SUBSET (DOMAIN batch) :
         LET gapped == Among([i \in DOMAIN batch |-> i], gaps)
         IN  found' = found \o [j \in DOMAIN gapped |-> <<batch[gapped[j]], "gap">>]
  BY DEF ScanGaps
<1> DEFINE n      == Len(batch)
           all    == [i \in DOMAIN batch |-> i]
           gapped == Among(all, gaps)
           more   == [j \in DOMAIN gapped |-> <<batch[gapped[j]], "gap">>]
<1>2. n \in Nat /\ DOMAIN batch = 1..n /\ \A i \in 1..n : batch[i] \in Tickers
  BY LenProperties, ElementOfSeq DEF PipelineInv, BatchOK
<1>3. all \in Seq(1..n)
  <2> HIDE DEF n
  <2>1. [i \in 1..n |-> i] \in Seq(1..n)
    BY <1>2, IsASeq
  <2>2. QED
    BY <1>2, <2>1
<1>4. gapped \in Seq((1..n) \cap gaps)
  <2> HIDE DEF n, all
  <2>1. QED
    BY <1>3, AmongIsSeq
<1>5. /\ Len(gapped) \in Nat /\ DOMAIN gapped = 1..Len(gapped)
      /\ \A j \in 1..Len(gapped) : gapped[j] \in 1..n
  <2> HIDE DEF n, gapped
  <2>1. QED
    BY <1>4, LenProperties, ElementOfSeq
<1>6. more \in Seq(Candidate)
  <2> HIDE DEF gapped, n
  <2>1. \A j \in 1..Len(gapped) : <<batch[gapped[j]], "gap">> \in Candidate
    BY <1>2, <1>5 DEF Candidate
  <2>2. QED
    BY <1>5, <2>1, IsASeq
<1>7. found' \in Seq(Candidate)
  <2>1. found' = found \o more
    BY <1>1
  <2> HIDE DEF more
  <2>2. QED
    BY <1>6, <2>1, ConcatProperties DEF PipelineInv, CandidatesOK
<1> HIDE DEF n, all, gapped, more
<1>8. BatchOK' /\ CandidatesOK' /\ DataInv'
  BY <1>7 DEF ScanGaps, PipelineInv, BatchOK, CandidatesOK, DataInv, data
<1>9. MarksOK'
  BY MarksRest DEF ScanGaps, PipelineInv, data
<1>10. QED
  BY <1>8, <1>9 DEF ScanGaps, PipelineInv, PlanOK, PlansAreRecent, data

LEMMA BoundedKeeps ==
    ASSUME NEW items \in Seq(Candidate), Len(items) <= QueueMax + 1
    PROVE  Bounded(items) \in Seq(Candidate) /\ Len(Bounded(items)) <= QueueMax
<1>1. QueueMax \in Nat /\ QueueMax > 0 /\ Len(items) \in Nat
  BY PipelineFacts, LenProperties
<1>2. CASE Len(items) > QueueMax
  <2> DEFINE m == Len(items) - QueueMax + 1
             n == Len(items)
  <2>1. m \in Int /\ n \in Int /\ m >= 1 /\ m <= n /\ n - m + 1 = QueueMax
    BY <1>1, <1>2
  <2>2. \A i \in m..n : items[i] \in Candidate
    BY <1>1, <2>1, ElementOfSeq
  <2>3. Bounded(items) = SubSeq(items, m, n)
    BY <1>2 DEF Bounded
  <2> HIDE DEF m, n
  <2>4. QED
    BY <1>1, <2>1, <2>2, <2>3, SubSeqProperties
<1>3. CASE ~(Len(items) > QueueMax)
  BY <1>1, <1>3 DEF Bounded
<1>4. QED
  BY <1>2, <1>3

\* What a push does to the marks.
LEMMA PushMarks ==
    ASSUME DataInv, PipelineInv, Push, ~Fresh(Head(found)), NEW c \in Candidate
    PROVE  /\ Head(found) \in Candidate
           /\ lastSeen' \in [Candidate -> Times]
           /\ accepted' \in [Candidate -> Times]
           /\ accepted'[c] = IF c = Head(found) THEN now ELSE accepted[c]
           /\ lastSeen'[c] = LET seen == IF c = Head(found) THEN now ELSE lastSeen[c]
                             IN  IF now - seen >= DedupTTL THEN Never ELSE seen
<1>1. Head(found) \in Candidate
  BY TailKeeps DEF Push, PipelineInv, CandidatesOK
<1>2. /\ lastSeen \in [Candidate -> Times] /\ accepted \in [Candidate -> Times] /\ now \in Times
      /\ Never \in Times
  BY TimesAreNat DEF PipelineInv, Never
<1>3. /\ lastSeen' = Pruned([lastSeen EXCEPT ![Head(found)] = now])
      /\ accepted' = [accepted EXCEPT ![Head(found)] = now]
  BY DEF Push
<1>4. lastSeen' = [d \in Candidate |->
         LET seen == IF d = Head(found) THEN now ELSE lastSeen[d]
         IN  IF now - seen >= DedupTTL THEN Never ELSE seen]
  BY <1>1, <1>2, <1>3 DEF Pruned
<1>5. \A d \in Candidate :
         (LET seen == IF d = Head(found) THEN now ELSE lastSeen[d]
          IN  IF now - seen >= DedupTTL THEN Never ELSE seen) \in Times
  BY <1>2
<1>6. QED
  BY <1>1, <1>2, <1>3, <1>4, <1>5

LEMMA PushKeeps == DataInv /\ PipelineInv /\ Push => DataInv' /\ PipelineInv'
<1> SUFFICES ASSUME DataInv, PipelineInv, Push PROVE DataInv' /\ PipelineInv'
  OBVIOUS
<1>1. /\ found \in Seq(Candidate) /\ found # <<>> /\ queue \in Seq(Candidate) /\ Len(queue) <= QueueMax
      /\ step = "push" /\ UNCHANGED <<clock, now, step, drained>>
      /\ step' = "push" /\ drained' \in Seq(Candidate)
  BY DEF Push, PipelineInv, CandidatesOK, data
<1>2. found' \in Seq(Candidate) /\ Head(found) \in Candidate
  BY <1>1, TailKeeps DEF Push
<1>3. DataInv' /\ BatchOK' /\ PlanOK'
  BY DEF Push, data, DataInv, PipelineInv, BatchOK, PlanOK, PlansAreRecent
<1>4. CASE Fresh(Head(found))
  <2>1. UNCHANGED <<queue, lastSeen, accepted>>
    BY <1>4 DEF Push
  <2>2. CandidatesOK'
    BY <1>1, <1>2, <2>1 DEF CandidatesOK
  <2>3. MarksOK'
    BY <1>1, <2>1, MarksRest DEF PipelineInv
  <2>4. QED
    BY <1>1, <1>3, <2>1, <2>2, <2>3 DEF Push, PipelineInv
<1>5. CASE ~Fresh(Head(found))
  <2>1. queue' = Bounded(Append(queue, Head(found)))
    BY <1>5 DEF Push
  <2>2. Append(queue, Head(found)) \in Seq(Candidate) /\ Len(Append(queue, Head(found))) <= QueueMax + 1
    BY <1>1, <1>2, AppendProperties, LenProperties, PipelineFacts
  <2>3. CandidatesOK'
    BY <1>1, <1>2, <2>1, <2>2, BoundedKeeps DEF CandidatesOK
  <2>4. \A c \in Candidate :
           /\ accepted'[c] = IF c = Head(found) THEN now ELSE accepted[c]
           /\ lastSeen'[c] = LET seen == IF c = Head(found) THEN now ELSE lastSeen[c]
                             IN  IF now - seen >= DedupTTL THEN Never ELSE seen
    BY <1>5, PushMarks
  <2>5. lastSeen' \in [Candidate -> Times] /\ accepted' \in [Candidate -> Times]
    BY <1>2, <1>5, PushMarks
  <2>6. MarksOK'
    <3> SUFFICES ASSUME NEW c \in Candidate
                 PROVE  /\ lastSeen'[c] # Never => lastSeen'[c] = accepted'[c]
                        /\ lastSeen'[c] = Never /\ accepted'[c] # Never =>
                              /\ clock - accepted'[c] >= DedupTTL
                              /\ now - accepted'[c] >= DedupTTL
      BY <1>1 DEF MarksOK
    <3> DEFINE seen == IF c = Head(found) THEN now ELSE lastSeen[c]
    <3>1. /\ now \in Nat /\ clock \in Nat /\ now <= clock /\ DedupTTL \in Nat
          /\ lastSeen[c] \in Nat /\ accepted[c] \in Nat
      BY TimesAreNat, PipelineFacts DEF PipelineInv, DataInv
    <3>2. seen # Never => seen = accepted'[c]
      BY <2>4 DEF PipelineInv, MarksOK
    <3>3. seen = Never /\ accepted'[c] # Never => now - accepted'[c] >= DedupTTL
      BY <1>1, <2>4 DEF PipelineInv, MarksOK
    <3>4. lastSeen'[c] = IF now - seen >= DedupTTL THEN Never ELSE seen
      BY <2>4
    <3>5. accepted'[c] \in Nat
      BY <2>4, <3>1
    <3>6. seen \in Nat
      BY <3>1
    <3> HIDE DEF seen
    <3>7. CASE now - seen >= DedupTTL /\ seen # Never
      BY <3>1, <3>2, <3>4, <3>5, <3>7
    <3>8. CASE ~(now - seen >= DedupTTL) \/ seen = Never
      <4>1. lastSeen'[c] = seen
        BY <3>4, <3>8
      <4>2. QED
        BY <3>1, <3>2, <3>3, <3>5, <4>1
    <3>9. QED
      BY <3>7, <3>8
  <2>7. QED
    BY <1>1, <1>3, <2>3, <2>5, <2>6 DEF Push, PipelineInv
<1>6. QED
  BY <1>4, <1>5

LEMMA DrainKeeps == DataInv /\ PipelineInv /\ Drain => DataInv' /\ PipelineInv'
<1> SUFFICES ASSUME DataInv, PipelineInv, Drain PROVE DataInv' /\ PipelineInv'
  OBVIOUS
<1> DEFINE L == Len(queue)
           n == IF L < MaxPerCycle THEN L ELSE MaxPerCycle
<1>1. L \in Nat /\ n \in 0..L /\ L <= QueueMax /\ QueueMax \in Nat
  <2>1. queue \in Seq(Candidate) /\ MaxPerCycle \in Nat /\ QueueMax \in Nat /\ L <= QueueMax
    BY PipelineFacts DEF PipelineInv, CandidatesOK
  <2>2. L \in Nat
    BY <2>1, LenProperties
  <2> HIDE DEF L
  <2>3. QED
    BY <2>1, <2>2
<1>2. \A i \in 1..L : queue[i] \in Candidate
  BY ElementOfSeq DEF PipelineInv, CandidatesOK
<1>3. drained' = SubSeq(queue, 1, n) /\ queue' = SubSeq(queue, n + 1, L)
  BY DEF Drain
<1> HIDE DEF L, n
<1>4. drained' \in Seq(Candidate)
  <2>1. \A i \in 1..n : queue[i] \in Candidate
    BY <1>1, <1>2
  <2>2. QED
    BY <1>1, <1>3, <2>1, SubSeqProperties
<1>5. queue' \in Seq(Candidate) /\ Len(queue') <= QueueMax
  <2>1. \A i \in (n + 1)..L : queue[i] \in Candidate
    BY <1>1, <1>2
  <2>2. /\ SubSeq(queue, n + 1, L) \in Seq(Candidate)
        /\ Len(SubSeq(queue, n + 1, L)) = IF n + 1 <= L THEN L - (n + 1) + 1 ELSE 0
    <3>1. n + 1 \in Int /\ L \in Int
      BY <1>1
    <3>2. QED
      BY <2>1, <3>1, SubSeqProperties
  <2>3. QED
    BY <1>1, <1>3, <2>2
<1>6. CandidatesOK' /\ BatchOK' /\ PlanOK' /\ DataInv'
  BY <1>4, <1>5 DEF Drain, data, PipelineInv, CandidatesOK, BatchOK, PlanOK, PlansAreRecent, DataInv
<1>7. MarksOK'
  BY MarksRest DEF Drain, PipelineInv, data
<1>8. now' \in Times /\ now' <= clock'
  BY TimesAreNat DEF Drain, DataInv, data
<1>9. QED
  BY <1>6, <1>7, <1>8 DEF Drain, PipelineInv

LEMMA CurrentIsTicker ==
    ASSUME PipelineInv, drained # <<>>
    PROVE  Current \in Tickers /\ Tail(drained) \in Seq(Candidate)
<1>1. Head(drained) \in Candidate /\ Tail(drained) \in Seq(Candidate)
  BY TailKeeps DEF PipelineInv, CandidatesOK
<1>2. QED
  BY <1>1 DEF Current, Candidate

LEMMA CoalesceKeeps == DataInv /\ PipelineInv /\ Coalesce => DataInv' /\ PipelineInv'
<1> SUFFICES ASSUME DataInv, PipelineInv, Coalesce PROVE DataInv' /\ PipelineInv'
  OBVIOUS
<1>1. drained' \in Seq(Candidate)
  BY CurrentIsTicker DEF Coalesce
<1>2. CandidatesOK' /\ BatchOK' /\ PlanOK' /\ DataInv'
  BY <1>1 DEF Coalesce, data, PipelineInv, CandidatesOK, BatchOK, PlanOK, PlansAreRecent, DataInv
<1>3. MarksOK'
  BY MarksRest DEF Coalesce, PipelineInv, data
<1>4. QED
  BY <1>2, <1>3 DEF Coalesce, PipelineInv, data

LEMMA EligibleKeeps == DataInv /\ PipelineInv /\ Eligible => DataInv' /\ PipelineInv'
<1> SUFFICES ASSUME DataInv, PipelineInv, Eligible PROVE DataInv' /\ PipelineInv'
  OBVIOUS
<1>1. Current \in Tickers /\ Tail(drained) \in Seq(Candidate) /\ drained # <<>>
  BY CurrentIsTicker DEF Eligible
<1>2. Judged(Current) \subseteq Verdict
  <2>1. verdicts[Current] \in Verdict
    BY <1>1 DEF PipelineInv
  <2>2. now + EligibilityTTL \in Nat
    BY TimesAreNat, PipelineFacts DEF PipelineInv
  <2>3. [until : {now + EligibilityTTL}, ok : BOOLEAN] \subseteq Verdict
    BY <2>2 DEF Verdict
  <2>4. QED
    BY <2>1, <2>3 DEF Judged
<1>3. PICK verdict \in Judged(Current) :
        /\ verdicts' = [verdicts EXCEPT ![Current] = verdict]
        /\ IF verdict.ok THEN step' = "evaluate" /\ UNCHANGED drained
           ELSE step' = step /\ drained' = Tail(drained)
  BY DEF Eligible
<1>4. verdicts' \in [Tickers -> Verdict]
  BY <1>2, <1>3 DEF PipelineInv
<1>5. /\ step' \in {"eligible", "evaluate"} /\ drained' \in Seq(Candidate)
      /\ step' = "evaluate" => drained' # <<>>
  BY <1>1, <1>3 DEF Eligible, PipelineInv, CandidatesOK
<1>6. CandidatesOK' /\ BatchOK' /\ PlanOK' /\ DataInv'
  BY <1>1, <1>5 DEF Eligible, data, PipelineInv, CandidatesOK, BatchOK, PlanOK, PlansAreRecent, DataInv
<1>7. MarksOK'
  BY <1>5, MarksRest DEF Eligible, PipelineInv, data
<1>8. QED
  BY <1>4, <1>5, <1>6, <1>7 DEF Eligible, PipelineInv, data

LEMMA EvaluateKeeps == DataInv /\ PipelineInv /\ Evaluate => DataInv' /\ PipelineInv'
<1> SUFFICES ASSUME DataInv, PipelineInv, Evaluate PROVE DataInv' /\ PipelineInv'
  OBVIOUS
<1>1. Current \in Tickers /\ Tail(drained) \in Seq(Candidate)
  BY CurrentIsTicker DEF Evaluate, PipelineInv, CandidatesOK
<1>2. PICK frame : /\ FetchIntraday(Current, frame)
                   /\ \/ plan' = NoPlan
                      \/ /\ Plannable(frame)
                         /\ plan' = [ticker |-> Current, bar |-> frame.bar, at |-> now]
  BY DEF Evaluate
<1>3. frame \in GoodFrame /\ disk' \in [Key -> GoodEntry]
  BY <1>1, <1>2, FetchIntradayKeeps
<1>4. PlanOK'
  <2>1. CASE plan' = NoPlan
    BY <2>1 DEF PlanOK, PlansAreRecent
  <2>2. CASE Plannable(frame) /\ plan' = [ticker |-> Current, bar |-> frame.bar, at |-> now]
    <3>1. frame.bar \in Times /\ ~(now - frame.bar > MaxStale)
      BY <1>3, <2>2 DEF Plannable, IsStale, IsEmpty, GoodFrame
    <3>2. now \in Nat /\ frame.bar \in Nat /\ MaxStale \in Nat /\ now \in Times
      BY <3>1, TimesAreNat, PipelineFacts DEF PipelineInv
    <3>3. now - frame.bar <= MaxStale
      BY <3>1, <3>2
    <3>4. plan' \in Plan
      BY <1>1, <2>2, <3>1, <3>2 DEF Plan
    <3>5. plan'.at - plan'.bar <= MaxStale
      BY <2>2, <3>3
    <3>6. QED
      BY <3>4, <3>5 DEF PlanOK, PlansAreRecent
  <2>3. QED
    BY <1>2, <2>1, <2>2
<1>5. CandidatesOK' /\ BatchOK' /\ DataInv'
  BY <1>1, <1>3 DEF Evaluate, PipelineInv, CandidatesOK, BatchOK, DataInv
<1>6. MarksOK'
  BY MarksRest DEF Evaluate, PipelineInv
<1>7. QED
  BY <1>4, <1>5, <1>6 DEF Evaluate, PipelineInv

LEMMA DrainEndKeeps == DataInv /\ PipelineInv /\ DrainEnd => DataInv' /\ PipelineInv'
<1> SUFFICES ASSUME DataInv, PipelineInv, DrainEnd PROVE DataInv' /\ PipelineInv'
  OBVIOUS
<1>1. DataInv' /\ CandidatesOK' /\ PlanOK'
  BY DEF DrainEnd, data, PipelineInv, CandidatesOK, PlanOK, PlansAreRecent, DataInv
<1>2. BatchOK'
  BY DEF DrainEnd, PipelineInv, BatchOK
<1>3. MarksOK'
  BY MarksRest DEF DrainEnd, PipelineInv, data
<1>4. now' \in Times /\ now' <= clock'
  BY TimesAreNat DEF DrainEnd, DataInv, data
<1>5. QED
  BY <1>1, <1>2, <1>3, <1>4 DEF DrainEnd, PipelineInv

LEMMA PipelineInvStep == DataInv /\ PipelineInv /\ PipelineNext => DataInv' /\ PipelineInv'
  BY RunOnceKeeps, ScanTickerKeeps, ScanGapsKeeps, PushKeeps, DrainKeeps, CoalesceKeeps,
     EligibleKeeps, EvaluateKeeps, DrainEndKeeps DEF PipelineNext

---------------------------------------------------------------------------
(* The process.                                                            *)

ProcessInv == mode \in Modes /\ DataInv /\ ScanInv /\ PipelineInv /\ BooksInv

LEMMA ReadsAreKeys == ASSUME mode \in Modes PROVE Reads \subseteq Key
<1>1. mode \in {"daily", "intraday", "backtest", "signals", "day trades", "premarket"}
  BY ModesAssumption DEF ModesAssumption
<1>2. \A i \in DOMAIN Watchlist : Watchlist[i] \in Tickers
  BY PipelineFacts, LenProperties, ElementOfSeq
<1>3. \A i \in DOMAIN Watchlist : Intraday(Watchlist[i]) \in Key
  BY <1>2, KeysOf
<1>4. CASE mode = "daily"
  BY <1>4, KeysOf DEF Reads
<1>5. CASE mode = "intraday"
  BY <1>3, <1>5 DEF Reads
<1>6. CASE mode \in {"backtest", "signals", "day trades", "premarket"}
  BY <1>6 DEF Reads
<1>7. QED
  BY <1>1, <1>4, <1>5, <1>6

LEMMA DataRests == DataInv /\ UNCHANGED data => DataInv' /\ clock' = clock /\ floor' = floor
  BY DEF DataInv, data

LEMMA ScanRests ==
    ASSUME DataInv, ScanInv, UNCHANGED <<scan, floor>>, clock' \in Times, clock' >= clock
    PROVE  ScanInv'
<1>1. start' <= clock'
  BY TimesAreNat DEF ScanInv, scan, DataInv
<1>2. QED
  BY <1>1 DEF ScanInv, ScanBarsAreFresh, scan

LEMMA ProcessInit == Init => ProcessInv
<1> SUFFICES ASSUME Init PROVE ProcessInv
  OBVIOUS
<1>1. DataInv
  BY DataInvInit DEF Init
<1>2. QED
  BY <1>1, ScanInvInit, PipelineInvInit, BooksInit DEF Init, ProcessInv

\* The steps of a mode are the steps of its part; the other parts rest.
LEMMA PartsMove ==
    ASSUME ProcessInv, [Next]_vars
    PROVE  /\ UNCHANGED mode
           /\ \/ ScanNext /\ UNCHANGED loop
              \/ PipelineNext /\ UNCHANGED scan
              \/ UNCHANGED <<data, scan, loop>>
              \/ (OtherProcess(Reads) \/ Tick) /\ UNCHANGED <<scan, loop>>
           /\ [BacktestNext]_backtestVars
<1>1. SignalNext => UNCHANGED data
  BY DEF SignalNext, GenerateSignal, GenerateTradePlan, NextTicker
<1>2. QED
  BY <1>1 DEF Next, vars, DailyMode, IntradayMode, BacktestMode, SignalsMode, DayMode, ScreenMode, Around

LEMMA ProcessStep == ProcessInv /\ [Next]_vars => ProcessInv'
<1> SUFFICES ASSUME ProcessInv, [Next]_vars PROVE ProcessInv'
  OBVIOUS
<1>1. mode' \in Modes /\ BooksInv'
  BY PartsMove, BooksStep DEF ProcessInv
<1>2. DataInv /\ ScanInv /\ PipelineInv
  BY TimesAreNat DEF ProcessInv
<1>3. CASE ScanNext /\ UNCHANGED loop
  <2>1. DataInv' /\ ScanInv'
    BY <1>2, <1>3, ScanInvStep
  <2>2. UNCHANGED clock
    BY <1>3 DEF ScanNext, ScanStart, Regime, LookUp, Download, BatchHits, BatchAnswer, BatchEnd,
                PreFilter, Analyze, ScanEnd, data
  <2>3. clock' \in Times /\ clock' >= clock
    BY <1>2, <2>2, TimesAreNat DEF DataInv
  <2>4. QED
    BY <1>1, <1>2, <1>3, <2>1, <2>3, PipelineRests DEF ProcessInv
<1>4. CASE PipelineNext /\ UNCHANGED scan
  <2>1. DataInv' /\ PipelineInv'
    BY <1>2, <1>4, PipelineInvStep
  <2>2. UNCHANGED <<clock, floor>>
    BY <1>4 DEF PipelineNext, RunOnce, ScanTicker, ScanGaps, Push, Drain, Coalesce, Eligible,
                Evaluate, DrainEnd, data
  <2>3. clock' \in Times /\ clock' >= clock
    BY <1>2, <2>2, TimesAreNat DEF DataInv
  <2>4. QED
    BY <1>1, <1>2, <1>4, <2>1, <2>2, <2>3, ScanRests DEF ProcessInv
<1>5. CASE UNCHANGED <<data, scan, loop>>
  <2>1. DataInv' /\ clock' = clock /\ floor' = floor
    BY <1>2, <1>5, DataRests
  <2>2. clock' \in Times /\ clock' >= clock
    BY <1>2, <2>1, TimesAreNat DEF DataInv
  <2>3. QED
    BY <1>1, <1>2, <1>5, <2>1, <2>2, PipelineRests, ScanRests DEF ProcessInv
<1>6. CASE (OtherProcess(Reads) \/ Tick) /\ UNCHANGED <<scan, loop>>
  <2>1. DataInv' /\ clock' >= clock /\ UNCHANGED floor
    BY <1>2, <1>6, ReadsAreKeys, AroundKeepsData DEF ProcessInv
  <2>2. clock' \in Times
    BY <2>1 DEF DataInv
  <2>3. QED
    BY <1>1, <1>2, <1>6, <2>1, <2>2, PipelineRests, ScanRests DEF ProcessInv
<1>7. QED
  BY <1>3, <1>4, <1>5, <1>6, PartsMove

LEMMA GoodReadIsRead == GoodRead \subseteq Read
  BY GoodIsEntry DEF GoodRead, Read

LEMMA ProcessIsTyped == ProcessInv => BarsAreRecent
<1> SUFFICES ASSUME ProcessInv PROVE BarsAreRecent
  OBVIOUS
<1>1. disk \in [Key -> Entry] /\ read \in [Tickers -> Read] /\ plans \subseteq Read
  BY GoodIsEntry, GoodReadIsRead DEF ProcessInv, DataInv, ScanInv
<1>2. TypeOK
  BY <1>1 DEF ProcessInv, DataInv, ScanInv, PipelineInv, BatchOK, CandidatesOK, PlanOK, BooksInv, TypeOK
<1>3. QED
  BY <1>2 DEF ProcessInv, ScanInv, PipelineInv, PlanOK, BarsAreRecent

\* The inductive invariant of a process: what the shared cache holds, what its scan has
\* read, where its loop stands and what its simulation has booked.
THEOREM ProcessInvariant == Spec => []ProcessInv
  BY ProcessInit, ProcessStep, PTL DEF Spec

\* Whatever other processes write to the cache or sweep from it, and however late or
\* absent the providers are, a frame a daily scan took from the cache or from a provider
\* was fetched after the scan began and has consolidated volume, and no plan of the
\* intraday consumer rests on a bar older than its limit.
THEOREM BarsAreRecentHolds == Spec => []BarsAreRecent
  BY ProcessInvariant, ProcessIsTyped, PTL

\* A candidate is marked by a push alone, and one whose mark was pruned waited its window out.
LEMMA MarkedAfterTheWindow ==
    ASSUME ProcessInv, [Next]_vars, NEW c \in Candidate,
           lastSeen'[c] # lastSeen[c], lastSeen'[c] # Never
    PROVE  accepted[c] = Never \/ lastSeen'[c] - accepted[c] >= DedupTTL
<1>1. DataInv /\ PipelineInv
  BY DEF ProcessInv
<1>2. CASE Push
  <2>1. ~Fresh(Head(found))
    BY <1>2 DEF Push
  <2>2. lastSeen'[c] = LET seen == IF c = Head(found) THEN now ELSE lastSeen[c]
                       IN  IF now - seen >= DedupTTL THEN Never ELSE seen
    BY <1>1, <1>2, <2>1, PushMarks
  <2>3. c = Head(found) /\ lastSeen'[c] = now
    BY <2>2
  <2>4. lastSeen[c] = Never \/ ~(now - lastSeen[c] < DedupTTL)
    BY <2>1, <2>3 DEF Fresh
  <2>5. lastSeen[c] \in Nat /\ now \in Nat /\ DedupTTL \in Nat
    BY <1>1, TimesAreNat, PipelineFacts DEF PipelineInv
  <2>6. step = "push"
    BY <1>2 DEF Push
  <2>7. QED
    BY <1>1, <2>3, <2>4, <2>5, <2>6 DEF PipelineInv, MarksOK
<1>3. CASE ~Push
  <2>1. PipelineNext => UNCHANGED lastSeen
    BY <1>3 DEF PipelineNext, RunOnce, ScanTicker, ScanGaps, Drain, Coalesce, Eligible,
                Evaluate, DrainEnd
  <2>2. UNCHANGED lastSeen
    BY <2>1, PartsMove DEF loop
  <2>3. QED
    BY <2>2
<1>4. QED
  BY <1>2, <1>3

\* CandidateQueue.push lets a candidate in again only after its dedup window, although
\* the pushes of others prune its mark and a full queue may have dropped it.
THEOREM QueuedOncePerWindowHolds == Spec => QueuedOncePerWindow
<1>1. ProcessInv /\ [Next]_vars =>
         [\A c \in Candidate :
            (lastSeen'[c] # lastSeen[c] /\ lastSeen'[c] # Never) =>
               accepted[c] = Never \/ lastSeen'[c] - accepted[c] >= DedupTTL]_vars
  BY MarkedAfterTheWindow
<1>2. QED
  BY <1>1, ProcessInvariant, PTL DEF Spec, QueuedOncePerWindow

---------------------------------------------------------------------------
(* The pre-market screen.                                                  *)

LEMMA ScreenFacts ==
    /\ Minutes \subseteq Nat /\ Minutes # {} /\ Today \in Nat /\ MaxResults \in Nat
    /\ MinHistory \in Nat /\ ScreenCap \in Nat
    /\ Len(ScreenNames) \in Nat /\ DOMAIN ScreenNames = 1..Len(ScreenNames)
    /\ 1 \in DOMAIN Mornings
    /\ \A m \in DOMAIN Mornings : \A i \in DOMAIN ScreenNames : IsListing(Mornings[m][i])
  BY PremarketAssumption DEF PremarketAssumption

LEMMA ScreenedAreNames ==
    /\ Screened \subseteq DOMAIN ScreenNames
    /\ IsFiniteSet(Screened)
    /\ Screened \subseteq Nat
<1> DEFINE n == Len(ScreenNames)
           k == IF ScreenCap = 0 THEN n ELSE Min({ScreenCap, n})
<1>1. n \in Nat /\ ScreenCap \in Nat /\ DOMAIN ScreenNames = 1..n
  BY ScreenFacts
<1>2. k \in Nat /\ k <= n
  BY <1>1, MinOfTwo
<1>3. Screened = 1..k
  BY DEF Screened
<1> HIDE DEF n, k
<1>4. IsFiniteSet(1..k)
  BY <1>2, FS_Interval
<1>5. QED
  BY <1>1, <1>2, <1>3, <1>4

---------------------------------------------------------------------------
(* One instant.                                                            *)

\* Of what is newer than the cutoff nothing is read.
LEMMA FramesAgree ==
    ASSUME NEW bars, \A b \in bars : b.at \in Nat /\ b.day \in 1..Today,
           NEW at \in Nat, NEW asOf \in Nat, asOf <= at,
           NEW cutoff \in Nat, cutoff <= asOf, NEW day
    PROVE  /\ Clamped(PremarketBars(FrameAt(bars, at), day), cutoff)
                 = Clamped(PremarketBars(FrameAt(bars, asOf), day), cutoff)
           /\ CumulativeVolume(PremarketBars(FrameAt(bars, at), day), cutoff)
                 = CumulativeVolume(PremarketBars(FrameAt(bars, asOf), day), cutoff)
<1>1. Clamped(PremarketBars(FrameAt(bars, at), day), cutoff)
          = Clamped(PremarketBars(FrameAt(bars, asOf), day), cutoff)
  BY DEF Clamped, PremarketBars, FrameAt
<1>2. \A pm : CumulativeVolume(pm, cutoff) = VolumeOf(Clamped(pm, cutoff))
  BY DEF CumulativeVolume, Clamped
<1>3. QED
  BY <1>1, <1>2

LEMMA RvolsAgree ==
    ASSUME NEW bars, \A b \in bars : b.at \in Nat /\ b.day \in 1..Today,
           NEW at \in Nat, NEW asOf \in Nat, asOf <= at,
           NEW cutoff \in Nat, cutoff <= asOf
    PROVE  TimeOfDayRvol(FrameAt(bars, at), cutoff) = TimeOfDayRvol(FrameAt(bars, asOf), cutoff)
<1> DEFINE one == FrameAt(bars, at)
           two == FrameAt(bars, asOf)
           Through(frame, d) == CumulativeVolume(PremarketBars(frame, d), cutoff)
           Prior(frame) == {d \in {b.day : b \in frame} : d < Today /\ Through(frame, d) > 0}
           Sum(frame)   == SumFunctionOnSet([d \in Prior(frame) |-> Through(frame, d)], Prior(frame))
<1>1. \A d : Through(one, d) = Through(two, d)
  BY FramesAgree
<1>2. \A d : d < Today => (d \in {b.day : b \in one} <=> d \in {b.day : b \in two})
  BY DEF FrameAt
<1> HIDE DEF Through, one, two
<1>3. Prior(one) = Prior(two)
  BY <1>1, <1>2
<1>4. [d \in Prior(one) |-> Through(one, d)] = [d \in Prior(two) |-> Through(two, d)]
  BY <1>1, <1>3
<1>5. Sum(one) = Sum(two)
  BY <1>3, <1>4
<1>6. \A frame : TimeOfDayRvol(frame, cutoff) =
         LET n == Cardinality(Prior(frame))
         IN  IF n < Max({1, MinHistory}) THEN [rvol |-> {}, basis |-> "insufficient_history"]
             ELSE IF Sum(frame) < MinBaseline * n THEN [rvol |-> {}, basis |-> "thin_baseline"]
             ELSE [rvol |-> {(100 * n * Through(frame, Today)) \div Sum(frame)}, basis |-> "time_of_day"]
  BY DEF TimeOfDayRvol, Through
<1> HIDE DEF Prior, Sum
<1>7. TimeOfDayRvol(one, cutoff) = TimeOfDayRvol(two, cutoff)
  BY <1>1, <1>3, <1>5, <1>6
<1>8. QED
  BY <1>7 DEF one, two

LEMMA SnapshotsAgree ==
    ASSUME NEW x, \A b \in x.bars : b.at \in Nat /\ b.day \in 1..Today,
           NEW at \in Nat, NEW asOf \in Nat, asOf <= at, NEW heard
    PROVE  Snapshot(x, FrameAt(x.bars, at), heard, asOf) = Snapshot(x, FrameAt(x.bars, asOf), heard, asOf)
<1> DEFINE cutoff == Min({asOf, RthOpen})
           pm(frame) == Clamped(PremarketBars(frame, Today), cutoff)
           ratio(frame) == TimeOfDayRvol(frame, cutoff)
<1>1. cutoff \in Nat /\ cutoff <= asOf
  BY MinOfTwo DEF RthOpen
<1>2. /\ pm(FrameAt(x.bars, at)) = pm(FrameAt(x.bars, asOf))
      /\ ratio(FrameAt(x.bars, at)) = ratio(FrameAt(x.bars, asOf))
  BY <1>1, FramesAgree, RvolsAgree
<1>3. \A frame : Snapshot(x, frame, heard, asOf) =
          IF pm(frame) = {} THEN NoSnapshot ELSE Fields(x, pm(frame), ratio(frame), heard)
  BY DEF Snapshot
<1> HIDE DEF pm, ratio
<1>4. QED
  BY <1>2, <1>3

LEMMA Quotient ==
    ASSUME NEW a \in Nat, NEW b \in Nat, b > 0, a <= 100 * b
    PROVE  a \div b <= 100
<1> DEFINE q == a \div b
<1>1. q \in Int /\ b * q <= a
  OBVIOUS
<1> HIDE DEF q
<1>2. ASSUME q >= 101 PROVE FALSE
  <2>1. b * q >= b * 101
    BY <1>1, <1>2
  <2>2. QED
    BY <1>1, <2>1
<1>3. QED
  BY <1>1, <1>2 DEF q

LEMMA ListingFacts ==
    ASSUME NEW x, IsListing(x)
    PROVE  /\ IsFiniteSet(x.bars)
           /\ \A b \in x.bars : /\ b.day \in 1..Today /\ b.day \in Nat /\ b.at \in Nat
                                /\ b.volume \in Nat /\ b.close \subseteq Int
           /\ \A b, c \in x.bars : b.day = c.day /\ b.at = c.at => b = c
           /\ Len(x.daily) \in Nat /\ DOMAIN x.daily = 1..Len(x.daily)
           /\ \A i \in DOMAIN x.daily : x.daily[i].volume \in Nat /\ x.daily[i].close \subseteq Int
           /\ x.cap \subseteq Int
<1>1. Today \in Nat
  BY ScreenFacts
<1>2. x.daily \in Seq(Range(x.daily))
  BY DEF IsListing
<1>3. Len(x.daily) \in Nat /\ DOMAIN x.daily = 1..Len(x.daily)
  BY <1>2
<1>4. QED
  BY <1>1, <1>3 DEF IsListing, IsReading

---------------------------------------------------------------------------
(* A morning like every morning before it.                                 *)

\* What a window of a session traded depends on the session's shape.
LEMMA VolumeIsOfShape ==
    ASSUME NEW x, IsListing(x), NEW cutoff \in Nat, NEW day
    PROVE  LET Q == {p \in Shape(x.bars, day) : p[1] <= cutoff}
           IN  CumulativeVolume(PremarketBars(x.bars, day), cutoff)
                   = SumFunctionOnSet([p \in Q |-> p[2]], Q)
<1> DEFINE W == {b \in PremarketBars(x.bars, day) : b.at <= cutoff}
           Q == {p \in Shape(x.bars, day) : p[1] <= cutoff}
           f == [b \in W |-> b.volume]
           g == [p \in Q |-> p[2]]
           h == [b \in W |-> <<b.at, b.volume>>]
<1>1. W \subseteq x.bars /\ IsFiniteSet(W)
  BY ListingFacts, FS_Subset DEF PremarketBars
<1>2. \A b \in W : b.day = day
  BY DEF PremarketBars
<1>3. \A b \in W : h[b] = <<b.at, b.volume>> /\ h[b] \in Q
  BY DEF Shape
<1>4. {h[b] : b \in W} = Q
  <2>1. \A p \in Q : \E b \in W : p = <<b.at, b.volume>>
    BY DEF Shape
  <2>2. QED
    BY <1>3, <2>1
<1>5. \A b \in W : f[b] \in Int /\ f[b] = g[h[b]]
  <2>1. \A b \in W : f[b] = b.volume /\ b.volume \in Int
    BY <1>1, ListingFacts
  <2>2. \A b \in W : g[h[b]] = h[b][2]
    BY <1>3
  <2>3. QED
    BY <1>3, <2>1, <2>2
<1>6. \A b, c \in W : h[b] = h[c] => b = c
  <2>1. \A b, c \in W : h[b] = h[c] => b.at = c.at
    BY <1>3
  <2>2. QED
    BY <1>1, <1>2, <2>1, ListingFacts
<1>7. CumulativeVolume(PremarketBars(x.bars, day), cutoff) = SumFunctionOnSet(f, W)
  BY DEF CumulativeVolume, VolumeOf
<1> HIDE DEF W, Q, f, g, h
<1>8. SumFunctionOnSet(f, W) = SumFunctionOnSet(g, {h[b] : b \in W})
  BY <1>1, <1>5, <1>6, SumOfImage
<1>9. QED
  BY <1>4, <1>7, <1>8 DEF Q, g

UsualMorning(x) ==
    \A day \in 1..(Today - 1) : Shape(x.bars, day) \in {{}, Shape(x.bars, Today)}

\* The volumes of a window are naturals, and more bars trade no less.
LEMMA WindowVolumes ==
    ASSUME NEW x, IsListing(x), NEW cutoff \in Nat, NEW day, NEW at \in Nat
    PROVE  /\ CumulativeVolume(PremarketBars(FrameAt(x.bars, at), day), cutoff) \in Nat
           /\ CumulativeVolume(PremarketBars(x.bars, day), cutoff) \in Nat
           /\ CumulativeVolume(PremarketBars(FrameAt(x.bars, at), day), cutoff)
                 <= CumulativeVolume(PremarketBars(x.bars, day), cutoff)
<1> DEFINE S == {b \in PremarketBars(FrameAt(x.bars, at), day) : b.at <= cutoff}
           T == {b \in PremarketBars(x.bars, day) : b.at <= cutoff}
           f == [b \in S |-> b.volume]
           g == [b \in T |-> b.volume]
<1>1. T \subseteq x.bars /\ IsFiniteSet(T) /\ S \in SUBSET T
  BY ListingFacts, FS_Subset DEF PremarketBars, FrameAt
<1>2. /\ \A b \in T : g[b] \in Nat
      /\ \A b \in S : f[b] \in Nat /\ f[b] <= g[b]
  BY <1>1, ListingFacts
<1>3. /\ CumulativeVolume(PremarketBars(x.bars, day), cutoff) = SumFunctionOnSet(g, T)
      /\ CumulativeVolume(PremarketBars(FrameAt(x.bars, at), day), cutoff) = SumFunctionOnSet(f, S)
  BY DEF CumulativeVolume, VolumeOf
<1>4. \A b \in T : g[b] \in Nat /\ g[b] <= g[b]
  BY <1>2
<1> HIDE DEF S, T, f, g
<1>5. SumFunctionOnSet(f, S) \in Nat /\ SumFunctionOnSet(f, S) <= SumFunctionOnSet(g, T)
  BY <1>1, <1>2, SumGrows
<1>6. SumFunctionOnSet(g, T) \in Nat
  BY <1>1, <1>4, SumGrows
<1>7. QED
  BY <1>3, <1>5, <1>6

LEMMA UsualReadsAsUsual ==
    ASSUME NEW x, IsListing(x), UsualMorning(x), NEW at \in Nat, NEW cutoff \in Nat
    PROVE  \A v \in TimeOfDayRvol(FrameAt(x.bars, at), cutoff).rvol : v <= 100
<1> DEFINE frame == FrameAt(x.bars, at)
           Through(d) == CumulativeVolume(PremarketBars(frame, d), cutoff)
           Whole(d)   == CumulativeVolume(PremarketBars(x.bars, d), cutoff)
           Prior == {d \in {b.day : b \in frame} : d < Today /\ Through(d) > 0}
           f     == [d \in Prior |-> Through(d)]
           n     == Cardinality(Prior)
           sum   == SumFunctionOnSet(f, Prior)
           t     == Through(Today)
           V     == Whole(Today)
<1>0. Today \in Nat /\ MinHistory \in Nat
  BY ScreenFacts
<1>1. t \in Nat /\ V \in Nat /\ t <= V
  BY <1>0, WindowVolumes
<1>2. Prior \subseteq 1..Today /\ IsFiniteSet(Prior) /\ n \in Nat
  <2>1. Prior \subseteq 1..Today
    BY ListingFacts DEF FrameAt
  <2>2. IsFiniteSet(1..Today)
    BY <1>0, FS_Interval
  <2> HIDE DEF Prior
  <2>3. QED
    BY <2>1, <2>2, FS_Subset, FS_CardinalityType
<1>3. ASSUME NEW d \in Prior PROVE Through(d) = V /\ V > 0
  <2>1. d \in 1..(Today - 1) /\ Through(d) > 0
    BY <1>0, <1>2
  <2>2. PremarketBars(frame, d) = PremarketBars(x.bars, d)
    BY <2>1 DEF PremarketBars, FrameAt
  <2>3. Through(d) = Whole(d)
    BY <2>2
  <2>4. CASE Shape(x.bars, d) = {}
    <3> DEFINE Q == {p \in Shape(x.bars, d) : p[1] <= cutoff}
    <3>1. Q = {}
      BY <2>4
    <3>2. Whole(d) = SumFunctionOnSet([p \in Q |-> p[2]], Q)
      BY VolumeIsOfShape
    <3> HIDE DEF Q, Whole, Through
    <3>3. Whole(d) = 0
      BY <3>1, <3>2, SumOfNone
    <3>4. QED
      BY <2>1, <2>3, <3>3
  <2>5. CASE Shape(x.bars, d) = Shape(x.bars, Today)
    <3> DEFINE Q(day) == {p \in Shape(x.bars, day) : p[1] <= cutoff}
               Sum(q) == SumFunctionOnSet([p \in q |-> p[2]], q)
    <3>1. Q(d) = Q(Today)
      BY <2>5
    <3>2. Whole(d) = Sum(Q(d)) /\ Whole(Today) = Sum(Q(Today))
      BY VolumeIsOfShape
    <3> HIDE DEF Q, Sum, Whole, Through
    <3>3. QED
      BY <2>1, <2>3, <3>1, <3>2
  <2>6. QED
    BY <2>1, <2>4, <2>5 DEF UsualMorning
<1>4. sum = V * n
  <2>1. \A d \in Prior : f[d] = V
    BY <1>3
  <2>2. V \in Int /\ IsFiniteSet(Prior)
    BY <1>1, <1>2
  <2> HIDE DEF Prior, f, V
  <2>3. SumFunctionOnSet(f, Prior) = V * Cardinality(Prior)
    BY <2>1, <2>2, SumOfEqual
  <2>4. QED
    BY <2>3
<1>5. TimeOfDayRvol(frame, cutoff) =
          IF n < Max({1, MinHistory}) THEN [rvol |-> {}, basis |-> "insufficient_history"]
          ELSE IF sum < MinBaseline * n THEN [rvol |-> {}, basis |-> "thin_baseline"]
          ELSE [rvol |-> {(100 * n * t) \div sum}, basis |-> "time_of_day"]
  BY DEF TimeOfDayRvol
<1>6. n > 0 => V > 0
  <2>1. Prior = {} => n = 0
    BY FS_EmptySet
  <2>2. QED
    BY <1>3, <2>1
<1> HIDE DEF n, sum, t, V
<1>7. ASSUME NEW v \in TimeOfDayRvol(frame, cutoff).rvol
      PROVE  n >= Max({1, MinHistory}) /\ v = (100 * n * t) \div sum
  <2>1. CASE n < Max({1, MinHistory})
    BY <1>5, <1>7, <2>1
  <2>2. CASE ~(n < Max({1, MinHistory})) /\ sum < MinBaseline * n
    BY <1>5, <1>7, <2>2
  <2>3. CASE ~(n < Max({1, MinHistory})) /\ ~(sum < MinBaseline * n)
    <3>1. TimeOfDayRvol(frame, cutoff) = [rvol |-> {(100 * n * t) \div sum}, basis |-> "time_of_day"]
      BY <1>5, <2>3
    <3>2. v = (100 * n * t) \div sum
      BY <3>1
    <3>3. Max({1, MinHistory}) \in Int
      BY <1>0, MaxOfTwo
    <3>4. QED
      BY <1>2, <2>3, <3>2, <3>3
  <2>4. QED
    BY <2>1, <2>2, <2>3
<1>8. ASSUME NEW v \in TimeOfDayRvol(frame, cutoff).rvol PROVE v <= 100
  <2>1. n >= Max({1, MinHistory}) /\ v = (100 * n * t) \div sum
    BY <1>7
  <2>2. n >= 1 /\ n \in Nat
    BY <1>0, <1>2, <2>1, MaxOfTwo
  <2>3. V > 0
    BY <1>6, <2>2
  <2>4. /\ 100 * n * t \in Nat /\ V * n \in Nat /\ V * n > 0
    BY <1>1, <2>2, <2>3
  <2>5. n * t <= V * n
    <3>1. V - t \in Nat /\ n * (V - t) >= 0
      BY <1>1, <2>2
    <3>2. n * (V - t) = V * n - n * t
      BY <1>1, <2>2
    <3>3. QED
      BY <1>1, <2>2, <3>1, <3>2
  <2>6. 100 * n * t <= 100 * (V * n)
    BY <1>1, <2>2, <2>5
  <2>7. (100 * n * t) \div (V * n) <= 100
    BY <2>4, <2>6, Quotient
  <2>8. QED
    BY <1>4, <2>1, <2>7
<1>9. QED
  BY <1>8

---------------------------------------------------------------------------
(* The mean volume of the days.                                            *)

LEMMA PrevRowIs ==
    ASSUME NEW x, IsListing(x)
    PROVE  PrevRow(x.daily).close \subseteq Int
<1> DEFINE rows == Completed(x.daily)
           n == Len(x.daily)
<1>1. rows \in SUBSET (0..n) /\ rows \subseteq DOMAIN x.daily /\ n \in Nat
  BY ListingFacts DEF Completed
<1>2. CASE rows = {}
  BY <1>2 DEF PrevRow
<1>3. CASE rows # {}
  <2>1. Max(rows) \in rows
    BY <1>1, <1>3, MaxIsGreatest
  <2>2. PrevRow(x.daily) = x.daily[Max(rows)]
    BY <1>3 DEF PrevRow
  <2> HIDE DEF rows
  <2>3. QED
    BY <1>1, <2>1, <2>2, ListingFacts
<1>4. QED
  BY <1>2, <1>3

LEMMA AdvIs ==
    ASSUME NEW x, IsListing(x)
    PROVE  Adv(x.daily) \subseteq Int
<1> DEFINE rows == Completed(x.daily)
           last == {i \in rows : Cardinality({j \in rows : j >= i}) <= AdvRows}
           f    == [i \in last |-> x.daily[i].volume]
           n == Len(x.daily)
<1>1. rows \in SUBSET (0..n) /\ rows \subseteq DOMAIN x.daily /\ n \in Nat
  BY ListingFacts DEF Completed
<1>2. IsFiniteSet(rows)
  <2>1. IsFiniteSet(0..n)
    BY <1>1, FS_Interval
  <2> HIDE DEF rows
  <2>2. QED
    BY <1>1, <2>1, FS_Subset
<1>3. IsFiniteSet(last) /\ last \subseteq rows
  BY <1>2, FS_Subset
<1>4. CASE Cardinality(rows) < AdvLeast
  BY <1>4 DEF Adv
<1>5. CASE ~(Cardinality(rows) < AdvLeast)
  <2>1. rows # {}
    BY <1>5, FS_EmptySet DEF AdvLeast
  <2>2. Max(rows) \in rows /\ \A y \in rows : Max(rows) >= y
    BY <1>1, <2>1, MaxIsGreatest
  <2>3. {j \in rows : j >= Max(rows)} = {Max(rows)}
    BY <1>1, <2>2
  <2>4. Cardinality({Max(rows)}) = 1
    BY FS_Singleton
  <2>5. Max(rows) \in last
    BY <2>2, <2>3, <2>4 DEF AdvRows
  <2>6. \A i \in last : f[i] \in Nat /\ f[i] <= f[i]
    BY <1>1, <1>3, ListingFacts
  <2>7. Adv(x.daily) = {SumFunctionOnSet(f, last) \div Cardinality(last)}
    BY <1>5 DEF Adv
  <2> HIDE DEF last, f
  <2>8. SumFunctionOnSet(f, last) \in Nat
    BY <1>3, <2>6, SumGrows
  <2>9. Cardinality(last) \in Nat /\ Cardinality(last) # 0
    BY <1>3, <2>5, FS_CardinalityType, FS_EmptySet
  <2>10. SumFunctionOnSet(f, last) \div Cardinality(last) \in Int
    BY <2>8, <2>9
  <2>11. QED
    BY <2>7, <2>10
<1>6. QED
  BY <1>4, <1>5

---------------------------------------------------------------------------
(* What a snapshot is made of.                                             *)

LEMMA FieldsAre ==
    ASSUME NEW x, NEW pm, NEW ratio, NEW heard
    PROVE  LET s    == Fields(x, pm, ratio, heard)
               last == CHOOSE b \in pm : \A c \in pm : c.at <= b.at
           IN  /\ s.adv = Adv(x.daily) /\ s.cap = NonZero(x.cap) /\ s.rvol = ratio.rvol
               /\ \A v \in s.gap :
                     \E p \in NonZero(last.close), c \in Positive(PrevRow(x.daily).close) :
                        v = (10000 * (p - c)) \div c
<1> DEFINE s    == Fields(x, pm, ratio, heard)
           last == CHOOSE b \in pm : \A c \in pm : c.at <= b.at
           gap  == {(10000 * (p - c)) \div c :
                      p \in NonZero(last.close), c \in Positive(PrevRow(x.daily).close)}
<1>1. s.adv = Adv(x.daily) /\ s.cap = NonZero(x.cap) /\ s.rvol = ratio.rvol
  BY DEF Fields
<1>2. s.gap = gap
  BY DEF Fields
<1>3. \A v \in gap : \E p \in NonZero(last.close), c \in Positive(PrevRow(x.daily).close) :
                        v = (10000 * (p - c)) \div c
  <2> HIDE DEF last
  <2>1. QED
    OBVIOUS
<1>4. QED
  BY <1>1, <1>2, <1>3

\* Of a name with a snapshot, the volume and the cap are the listing's, and the gap is a
\* number.
LEMMA SnapshotHas ==
    ASSUME NEW x, IsListing(x), NEW at \in Nat, NEW asOf \in Nat, NEW heard,
           Snapshot(x, FrameAt(x.bars, at), heard, asOf) # NoSnapshot
    PROVE  LET s == Snapshot(x, FrameAt(x.bars, at), heard, asOf)
           IN  /\ s.adv = Adv(x.daily) /\ s.cap = NonZero(x.cap)
               /\ s.gap \subseteq Int
               /\ s.rvol = TimeOfDayRvol(FrameAt(x.bars, at), Min({asOf, RthOpen})).rvol
<1> DEFINE cutoff == Min({asOf, RthOpen})
           pm    == Clamped(PremarketBars(FrameAt(x.bars, at), Today), cutoff)
           ratio == TimeOfDayRvol(FrameAt(x.bars, at), cutoff)
           last  == CHOOSE b \in pm : \A c \in pm : c.at <= b.at
           s     == Snapshot(x, FrameAt(x.bars, at), heard, asOf)
<1>1. s = (IF pm = {} THEN NoSnapshot ELSE Fields(x, pm, ratio, heard))
  BY DEF Snapshot
<1>2. pm # {} /\ s = Fields(x, pm, ratio, heard)
  BY <1>1
<1>3. pm \subseteq x.bars
  BY DEF Clamped, PremarketBars, FrameAt
<1>4. last \in pm
  <2> DEFINE key == [b \in pm |-> b.at]
  <2>1. \A b \in pm : key[b] = b.at /\ key[b] \in Nat
    BY <1>3, ListingFacts
  <2>2. IsFiniteSet(pm)
    BY <1>3, ListingFacts, FS_Subset
  <2> HIDE DEF pm, key
  <2>3. \E b \in pm : \A c \in pm : key[c] <= key[b]
    BY <1>2, <2>1, <2>2, GreatestKey
  <2>4. \E b \in pm : \A c \in pm : c.at <= b.at
    BY <2>1, <2>3
  <2>5. QED
    BY <2>4
<1>5. last.close \subseteq Int
  BY <1>3, <1>4, ListingFacts
<1>6. \A v \in s.gap : \E p \in NonZero(last.close), c \in Positive(PrevRow(x.daily).close) :
                            v = (10000 * (p - c)) \div c
  <2> HIDE DEF pm, ratio, s
  <2>1. QED
    BY <1>2, FieldsAre
<1>7. /\ s.adv = Adv(x.daily) /\ s.cap = NonZero(x.cap) /\ s.rvol = ratio.rvol
  BY <1>2, FieldsAre
<1>8. \A p \in NonZero(last.close) : p \in Int
  BY <1>5 DEF NonZero
<1>9. \A c \in Positive(PrevRow(x.daily).close) : c \in Int /\ c > 0
  BY PrevRowIs DEF Positive
<1> HIDE DEF last, s, ratio
<1>10. \A p, c \in Int : c > 0 => (10000 * (p - c)) \div c \in Int
  OBVIOUS
<1>11. s.gap \subseteq Int
  BY <1>6, <1>8, <1>9, <1>10
<1>12. QED
  BY <1>7, <1>11 DEF s, ratio

---------------------------------------------------------------------------
(* Scores.                                                                 *)

\* Points over a ladder are what one of its rungs gives.
LEMMA RungIs ==
    ASSUME NEW ladder, NEW n \in Nat, DOMAIN ladder = 1..n,
           \A i \in 1..n : ladder[i][2] \in Int,
           NEW v, NEW below \in Int
    PROVE  Rung(ladder, v, below) \in Int
<1> DEFINE reached == {i \in DOMAIN ladder : v >= ladder[i][1]}
<1>1. reached \in SUBSET Nat /\ reached \subseteq 1..n
  OBVIOUS
<1>2. Rung(ladder, v, below) = IF reached = {} THEN below ELSE ladder[Min(reached)][2]
  BY DEF Rung
<1> HIDE DEF reached
<1>3. reached # {} => Min(reached) \in reached
  BY <1>1, MinIsLeast
<1>4. QED
  BY <1>1, <1>2, <1>3

LEMMA SaturatingIsInt ==
    ASSUME NEW values, NEW scale
    PROVE  Saturating(values, scale) \in Int
<1> DEFINE scaled == {(10 * v) \div scale : v \in values}
<1>1. /\ DOMAIN SaturatingLadder = 1..6
      /\ \A i \in 1..6 : SaturatingLadder[i][2] \in Int
  BY DEF SaturatingLadder
<1> HIDE DEF scaled
<1>2. Rung(SaturatingLadder, The(scaled), 0) \in Int
  <2>1. 6 \in Nat /\ 0 \in Int
    OBVIOUS
  <2>2. QED
    BY <1>1, <2>1, RungIs, Zenon
<1>3. Saturating(values, scale) = IF scaled = {} THEN 0 ELSE Rung(SaturatingLadder, The(scaled), 0)
  BY DEF Saturating, Points, scaled
<1>4. QED
  BY <1>2, <1>3

LEMMA ScoreIsInt ==
    ASSUME NEW s, s.gap \subseteq Int
    PROVE  ScreenScore(s) \in Int
<1>1. OrZero(s.gap) \in Int
  BY DEF OrZero, The
<1>2. GapSize(s) \in Int
  BY <1>1 DEF GapSize, Size
<1>3. GapBand(GapSize(s)) \in Int
  <2> DEFINE g == GapSize(s)
  <2>1. /\ (1000 * (g - 400)) \div 200 \in Int
        /\ 1000 - (800 * (g - 1500)) \div 1500 \in Int
    BY <1>2
  <2> HIDE DEF g
  <2>2. QED
    BY <2>1 DEF GapBand, g
<1>4. CatalystScore(s.catalyst) \in Int
  BY DEF CatalystScore, When
<1>5. When(Liquid(s), Saturating(s.rvol, 500)) \in Int
  BY SaturatingIsInt DEF When
<1>6. Saturating({s.dollars}, 500000) \in Int /\ Saturating(s.rotation, 25) \in Int
  BY SaturatingIsInt
<1>7. \A a, b, c, d, e \in Int : (35 * a + 20 * b + 15 * c + 15 * d + 15 * e) \div 10 \in Int
  OBVIOUS
<1>8. QED
  BY <1>3, <1>4, <1>5, <1>6, <1>7 DEF ScreenScore

---------------------------------------------------------------------------
(* Ranks.                                                                  *)

\* Rows with a name each: every one has its place, behind none that scores less.
LEMMA RankedAre ==
    ASSUME NEW S, IsFiniteSet(S),
           \A r \in S : r.name \in Int /\ r.score \in Int,
           \A r, q \in S : r.name = q.name => r = q
    PROVE  /\ Cardinality(S) \in Nat
           /\ Ranked(S) \in [1..Cardinality(S) -> S]
           /\ \A r \in S : \E k \in 1..Cardinality(S) :
                 /\ Ranked(S)[k] = r
                 /\ \A j \in 1..Cardinality(S) : j < k => Ranked(S)[j].score >= r.score
<1> DEFINE n == Cardinality(S)
           R == {p \in S \X S : Outranks(p[1], p[2])}
           better == [r \in S |-> {q \in S : Outranks(q, r)}]
           place == [r \in S |-> Cardinality({q \in S : Outranks(q, r)}) + 1]
           At(k) == CHOOSE r \in S : Cardinality({q \in S : Outranks(q, r)}) + 1 = k
<1>1. \A r, q \in S : <<r, q>> \in R <=> Outranks(r, q)
  OBVIOUS
<1>2. /\ \A x \in S : <<x, x>> \notin R
      /\ \A x, y \in S : x # y => <<x, y>> \in R \/ <<y, x>> \in R
      /\ \A x, y, z \in S : <<x, y>> \in R /\ <<y, z>> \in R => <<x, z>> \in R
  <2>1. \A r, q \in S : <<r, q>> \in R <=> r.score > q.score \/ (r.score = q.score /\ r.name < q.name)
    BY <1>1 DEF Outranks
  <2> HIDE DEF R
  <2>2. QED
    BY <2>1
<1>3. /\ \A x \in S : better[x] \in SUBSET S
      /\ \A x, y \in S : y \in better[x] <=> <<y, x>> \in R
  BY <1>1
<1>4. \A x \in S : place[x] = Cardinality(better[x]) + 1
  OBVIOUS
<1>5. place \in [S -> Nat]
  <2>1. \A r \in S : IsFiniteSet({q \in S : Outranks(q, r)})
    BY FS_Subset
  <2>2. \A r \in S : Cardinality({q \in S : Outranks(q, r)}) \in Nat
    BY <2>1, FS_CardinalityType
  <2>3. QED
    BY <2>2
<1>6. n \in Nat
  BY FS_CardinalityType
<1> HIDE DEF place, R, better
<1>7. /\ \A x \in S : place[x] \in 1..n
      /\ \A y \in S : \A x \in better[y] : place[x] < place[y]
      /\ \A k \in 1..n : \E x \in S : place[x] = k
      /\ \A x, y \in S : place[x] = place[y] => x = y
  <2>1. Ranking(S, R, better, place)
    BY <1>2, <1>3, <1>4, <1>5 DEF Ranking
  <2>2. \A x \in S : place[x] \in 1..Cardinality(S)
    BY <2>1, PlacesAreTaken
  <2>3. \A y \in S : \A x \in better[y] : place[x] < place[y]
    BY <2>1, PlacesAreTaken
  <2>4. AllTaken(S, place)
    BY <2>1, PlacesAreTaken
  <2>5. \A x, y \in S : place[x] = place[y] => x = y
    BY <2>1, PlacesAreTaken
  <2>6. QED
    BY <2>2, <2>3, <2>4, <2>5 DEF AllTaken
<1>8. Ranked(S) = [k \in 1..n |-> At(k)]
  BY DEF Ranked
<1>9. \A k \in 1..n : At(k) \in S /\ place[At(k)] = k
  <2>1. \A r \in S : place[r] = Cardinality({q \in S : Outranks(q, r)}) + 1
    BY DEF place
  <2>2. ASSUME NEW k \in 1..n PROVE At(k) \in S /\ place[At(k)] = k
    <3>1. \E r \in S : Cardinality({q \in S : Outranks(q, r)}) + 1 = k
      BY <1>7, <2>1
    <3>2. At(k) \in S /\ Cardinality({q \in S : Outranks(q, At(k))}) + 1 = k
      BY <3>1, Zenon
    <3>3. QED
      BY <2>1, <3>2
  <2>3. QED
    BY <2>2
<1>10. \A r \in S : At(place[r]) = r
  BY <1>7, <1>9
<1> HIDE DEF At, n
<1>11. \A k \in 1..n : Ranked(S)[k] = At(k)
  BY <1>8
<1>12. ASSUME NEW r \in S
       PROVE  /\ place[r] \in 1..n /\ Ranked(S)[place[r]] = r
              /\ \A j \in 1..n : j < place[r] => Ranked(S)[j].score >= r.score
  <2>1. place[r] \in 1..n /\ Ranked(S)[place[r]] = r
    BY <1>7, <1>10, <1>11
  <2>2. ASSUME NEW j \in 1..n, j < place[r] PROVE Ranked(S)[j].score >= r.score
    <3> DEFINE x == At(j)
    <3>1. x \in S /\ place[x] = j /\ Ranked(S)[j] = x
      BY <1>9, <1>11
    <3> HIDE DEF x
    <3>2. place[r] \in Int /\ j \in Int
      BY <2>1
    <3>3. x # r /\ <<r, x>> \notin R
      BY <1>3, <1>7, <2>2, <3>1, <3>2
    <3>4. Outranks(x, r)
      BY <1>1, <1>2, <3>1, <3>3
    <3>5. QED
      BY <3>1, <3>4 DEF Outranks
  <2>3. QED
    BY <2>1, <2>2
<1>13. QED
  BY <1>6, <1>8, <1>9, <1>12 DEF n

\* The first n of some rows.
FirstOfRows(first, rows, n) ==
    Len(first) = n /\ DOMAIN first = 1..n /\ \A k \in 1..n : first[k] = rows[k]

LEMMA CappedAre ==
    ASSUME NEW V, NEW n \in Nat, NEW rows \in [1..n -> V], NEW cap \in Nat
    PROVE  FirstOfRows(Capped(rows, cap), rows, IF cap <= n THEN cap ELSE n)
<1> DEFINE m == IF cap <= n THEN cap ELSE n
<1>2. rows \in Seq(V) /\ Len(rows) = n
  OBVIOUS
<1>3. Min({cap, Len(rows)}) = m
  BY <1>2, MinOfTwo
<1>4. m \in Nat /\ m <= n
  OBVIOUS
<1>5. Capped(rows, cap) = SubSeq(rows, 1, m)
  BY <1>3 DEF Capped
<1> HIDE DEF m
<1>6. \A i \in 1..m : rows[i] \in V
  BY <1>4
<1>7. /\ SubSeq(rows, 1, m) \in Seq(V)
      /\ Len(SubSeq(rows, 1, m)) = m
      /\ \A i \in 1..m : SubSeq(rows, 1, m)[i] = rows[i]
  <2>1. SubSeq(rows, 1, m) \in Seq(V)
    BY <1>4, <1>6, SubSeqProperties
  <2>2. Len(SubSeq(rows, 1, m)) = m
    BY <1>4, <1>6, SubSeqProperties
  <2>3. \A i \in 1..m : SubSeq(rows, 1, m)[i] = rows[i]
    BY <1>4, <1>6, SubSeqProperties
  <2>4. QED
    BY <2>1, <2>2, <2>3
<1>8. Len(SubSeq(rows, 1, m)) = m /\ DOMAIN SubSeq(rows, 1, m) = 1..m
  BY <1>4, <1>7
<1>9. \A i \in 1..m : i \in 1..n /\ SubSeq(rows, 1, m)[i] = rows[i]
  BY <1>4, <1>7
<1>10. QED
  BY <1>5, <1>8, <1>9 DEF m, FirstOfRows

---------------------------------------------------------------------------
(* The invariant of the screen.                                            *)

\* A snapshot is one of the scan's instant.
AsOf(i) ==
    \E at \in {m \in Minutes : m <= screen.asOf}, heard \in {Stock(i).news, "none"} :
        screen.snaps[i] = Snapshot(Stock(i), FrameAt(Stock(i).bars, at), heard, screen.asOf)

\* A scan that has begun.
ScreenRuns ==
    /\ screen.stage \in {"build", "done"}
    /\ screen.asOf \in Minutes /\ screen.penny \in BOOLEAN
    /\ DOMAIN screen.snaps = Screened
    /\ \A i \in SnapshotsOf : AsOf(i)
    /\ screen.candidates = IF screen.stage = "done" THEN Capped(Ranked({Row(i) : i \in Passing}), MaxResults)
                           ELSE <<>>

ScreenInv ==
    /\ morning \in DOMAIN Mornings /\ minute \in Minutes
    /\ DOMAIN screen = DOMAIN NoScreen
    /\ screen = NoScreen \/ ScreenRuns

LEMMA StockIsListing ==
    ASSUME morning \in DOMAIN Mornings, NEW i \in Screened
    PROVE  IsListing(Stock(i))
  BY ScreenFacts, ScreenedAreNames DEF Stock

LEMMA ScreenStarts ==
    ASSUME ScreenInv, StartScreen
    PROVE  ScreenInv'
<1> USE DEF StartScreen, ScreenInv
<1>1. PICK small \in BOOLEAN :
          screen' = [NoScreen EXCEPT !.stage = "build", !.asOf = minute, !.penny = small,
                                     !.snaps = [i \in Screened |-> NotBuilt]]
  OBVIOUS
<1>2. /\ DOMAIN screen' = DOMAIN NoScreen
      /\ screen'.stage = "build" /\ screen'.asOf = minute /\ screen'.penny = small
      /\ screen'.snaps = [i \in Screened |-> NotBuilt] /\ screen'.candidates = <<>>
  BY <1>1 DEF NoScreen
<1>3. SnapshotsOf' = {}
  BY <1>2 DEF SnapshotsOf
<1>4. QED
  BY <1>2, <1>3 DEF ScreenRuns

LEMMA SnapshotIsBuilt ==
    ASSUME ScreenInv, NEW i \in DOMAIN screen.snaps, BuildSnapshot(i)
    PROVE  ScreenInv'
<1> USE DEF ScreenInv
<1>1. /\ screen.stage = "build" /\ ScreenRuns /\ i \in Screened
      /\ minute' = minute /\ morning' = morning
  BY DEF BuildSnapshot, NoScreen, ScreenRuns
<1>2. PICK s \in Built(i) : screen' = [screen EXCEPT !.snaps[i] = s]
  BY DEF BuildSnapshot
<1>3. /\ DOMAIN screen' = DOMAIN NoScreen
      /\ screen'.stage = "build" /\ screen'.asOf = screen.asOf /\ screen'.penny = screen.penny
      /\ screen'.snaps = [screen.snaps EXCEPT ![i] = s] /\ screen'.candidates = <<>>
  BY <1>1, <1>2 DEF NoScreen, ScreenRuns
<1>4. ASSUME NEW j \in SnapshotsOf' PROVE AsOf(j)'
  <2>1. j \in DOMAIN screen.snaps /\ screen'.snaps[j] \notin {NotBuilt, NoSnapshot}
    BY <1>3 DEF SnapshotsOf
  <2>2. Stock(j)' = Stock(j)
    BY <1>1 DEF Stock
  <2>3. CASE j # i
    <3>1. screen'.snaps[j] = screen.snaps[j]
      BY <1>3, <2>1, <2>3
    <3>2. j \in SnapshotsOf
      BY <2>1, <3>1 DEF SnapshotsOf
    <3>3. AsOf(j)
      BY <1>1, <3>2 DEF ScreenRuns
    <3>4. QED
      BY <1>3, <2>2, <3>1, <3>3 DEF AsOf
  <2>4. CASE j = i
    <3>1. screen'.snaps[i] = s
      BY <1>3
    <3>2. s # NoSnapshot
      BY <2>1, <2>4, <3>1
    <3>3. PICK at \in {m \in Minutes : m <= minute /\ minute - m <= FrameTTL},
               heard \in {Stock(i).news, "none"} :
            s = Snapshot(Stock(i), FrameAt(Stock(i).bars, at), heard, screen.asOf)
      BY <3>2 DEF Built
    <3>4. at \in Nat /\ screen.asOf \in Nat /\ at \in Minutes /\ screen.asOf \in Minutes
      BY <1>1, ScreenFacts DEF ScreenRuns
    <3>5. \E m \in {m \in Minutes : m <= screen.asOf} :
             s = Snapshot(Stock(i), FrameAt(Stock(i).bars, m), heard, screen.asOf)
      <4>1. CASE at <= screen.asOf
        BY <3>3, <3>4, <4>1
      <4>2. CASE screen.asOf <= at
        <5>1. \A b \in Stock(i).bars : b.at \in Nat /\ b.day \in 1..Today
          BY <1>1, StockIsListing, ListingFacts
        <5>2. Snapshot(Stock(i), FrameAt(Stock(i).bars, at), heard, screen.asOf)
                = Snapshot(Stock(i), FrameAt(Stock(i).bars, screen.asOf), heard, screen.asOf)
          BY <3>4, <4>2, <5>1, SnapshotsAgree
        <5>3. QED
          BY <3>3, <3>4, <5>2
      <4>3. QED
        BY <3>4, <4>1, <4>2
    <3>6. QED
      BY <1>3, <2>2, <2>4, <3>1, <3>3, <3>5 DEF AsOf
  <2>5. QED
    BY <2>3, <2>4
<1>5. ScreenRuns'
  BY <1>1, <1>3, <1>4 DEF ScreenRuns
<1>6. QED
  BY <1>1, <1>3, <1>5

LEMMA ScreenIsRanked ==
    ASSUME ScreenInv, RankScreen
    PROVE  ScreenInv'
<1> USE DEF ScreenInv
<1>1. /\ screen.stage = "build" /\ ScreenRuns /\ minute' = minute /\ morning' = morning
  BY DEF RankScreen, NoScreen, ScreenRuns
<1>2. /\ DOMAIN screen' = DOMAIN NoScreen
      /\ screen'.stage = "done" /\ screen'.asOf = screen.asOf /\ screen'.penny = screen.penny
      /\ screen'.snaps = screen.snaps
      /\ screen'.candidates = Capped(Ranked({Row(i) : i \in Passing}), MaxResults)
  BY DEF RankScreen, NoScreen
<1>3. SnapshotsOf' = SnapshotsOf /\ \A i : FailuresOf(i)' = FailuresOf(i) /\ Row(i)' = Row(i)
  BY <1>2 DEF SnapshotsOf, FailuresOf, Row
<1>4. Passing' = Passing
  BY <1>3 DEF Passing
<1>5. {Row(i) : i \in Passing}' = {Row(i) : i \in Passing}
  BY <1>3, <1>4
<1>6. \A i \in SnapshotsOf' : AsOf(i)'
  <2>1. \A i : Stock(i)' = Stock(i)
    BY <1>1 DEF Stock
  <2>2. QED
    BY <1>1, <1>2, <1>3, <2>1 DEF ScreenRuns, AsOf
<1>7. ScreenRuns'
  BY <1>1, <1>2, <1>5, <1>6 DEF ScreenRuns
<1>8. QED
  BY <1>1, <1>2, <1>7

LEMMA ScreenRests ==
    ASSUME ScreenInv, UNCHANGED <<morning, screen>>, minute' \in Minutes
    PROVE  ScreenInv'
<1>1. SnapshotsOf' = SnapshotsOf /\ Passing' = Passing /\ \A i : Row(i)' = Row(i) /\ AsOf(i)' = AsOf(i)
  BY DEF SnapshotsOf, Passing, FailuresOf, Row, AsOf, Stock
<1>2. {Row(i) : i \in Passing}' = {Row(i) : i \in Passing}
  BY <1>1
<1>3. ScreenRuns' = ScreenRuns
  BY <1>1, <1>2 DEF ScreenRuns
<1>4. QED
  BY <1>3 DEF ScreenInv

LEMMA MinuteGoesOn ==
    ASSUME ScreenInv, ScreenMinute
    PROVE  ScreenInv'
<1> DEFINE later == {m \in Minutes : m > minute}
<1>1. later \in SUBSET Nat /\ later # {} /\ later \subseteq Minutes
  BY ScreenFacts DEF ScreenMinute
<1>2. minute' = Min(later) /\ UNCHANGED <<morning, screen>>
  BY DEF ScreenMinute
<1> HIDE DEF later
<1>3. Min(later) \in later
  BY <1>1, MinIsLeast
<1>4. QED
  BY <1>1, <1>2, <1>3, ScreenRests

LEMMA ScreenSteps ==
    ASSUME ScreenInv, [ScreenNext]_screenVars
    PROVE  ScreenInv'
<1>1. CASE ScreenNext
  BY <1>1, ScreenStarts, SnapshotIsBuilt, ScreenIsRanked, MinuteGoesOn DEF ScreenNext
<1>2. CASE UNCHANGED screenVars
  BY <1>2, ScreenRests DEF screenVars, ScreenInv
<1>3. QED
  BY <1>1, <1>2

LEMMA ScreenBegins ==
    ASSUME NEW mornings \in SUBSET DOMAIN Mornings, ScreenInit(mornings)
    PROVE  ScreenInv
  BY ScreenFacts, MinIsLeast DEF ScreenInit, ScreenInv

---------------------------------------------------------------------------
(* What the invariant gives.                                               *)

\* A name of the screen, with its snapshot.
LEMMA SeenAre ==
    ASSUME ScreenInv, NEW i \in SnapshotsOf
    PROVE  /\ ScreenRuns /\ i \in Screened /\ i \in Nat
           /\ screen.snaps[i].gap \subseteq Int
           /\ screen.snaps[i].adv = Adv(Stock(i).daily)
           /\ screen.snaps[i].cap = NonZero(Stock(i).cap)
           /\ \E at, asOf \in Nat :
                 screen.snaps[i].rvol = TimeOfDayRvol(FrameAt(Stock(i).bars, at), Min({asOf, RthOpen})).rvol
<1>1. /\ ScreenRuns /\ i \in Screened /\ AsOf(i)
      /\ screen.snaps[i] # NoSnapshot
  BY DEF ScreenInv, NoScreen, ScreenRuns, SnapshotsOf
<1>2. PICK at \in {m \in Minutes : m <= screen.asOf}, heard \in {Stock(i).news, "none"} :
        screen.snaps[i] = Snapshot(Stock(i), FrameAt(Stock(i).bars, at), heard, screen.asOf)
  BY <1>1 DEF AsOf
<1>3. at \in Nat /\ screen.asOf \in Nat /\ i \in Nat
  BY <1>1, <1>2, ScreenFacts, ScreenedAreNames DEF ScreenRuns
<1>4. IsListing(Stock(i))
  BY <1>1, StockIsListing DEF ScreenInv
<1> DEFINE s == Snapshot(Stock(i), FrameAt(Stock(i).bars, at), heard, screen.asOf)
<1>5. /\ s.adv = Adv(Stock(i).daily) /\ s.cap = NonZero(Stock(i).cap) /\ s.gap \subseteq Int
      /\ s.rvol = TimeOfDayRvol(FrameAt(Stock(i).bars, at), Min({screen.asOf, RthOpen})).rvol
  BY <1>1, <1>2, <1>3, <1>4, SnapshotHas
<1>6. QED
  BY <1>1, <1>2, <1>3, <1>5

LEMMA OneInstant ==
    ASSUME ScreenInv
    PROVE  AsOfIsOne
<1>1. ASSUME NEW i \in SnapshotsOf PROVE AsOf(i)
  BY <1>1, SeenAre DEF ScreenRuns
<1>2. QED
  BY <1>1 DEF AsOfIsOne, AsOf

LEMMA LikeIsCompared ==
    ASSUME ScreenInv
    PROVE  UsualIsNotUnusual
<1> SUFFICES ASSUME NEW i \in SnapshotsOf, UsualMorning(Stock(i)), NEW v \in screen.snaps[i].rvol
             PROVE  v <= 100
  BY DEF UsualIsNotUnusual, UsualMorning
<1>1. PICK at \in Nat, asOf \in Nat :
         screen.snaps[i].rvol = TimeOfDayRvol(FrameAt(Stock(i).bars, at), Min({asOf, RthOpen})).rvol
  BY SeenAre
<1>2. IsListing(Stock(i))
  BY SeenAre, StockIsListing DEF ScreenInv
<1>3. Min({asOf, RthOpen}) \in Nat
  <2>1. RthOpen \in Nat /\ RthOpen \in Int /\ asOf \in Int
    BY DEF RthOpen
  <2>2. Min({asOf, RthOpen}) = IF asOf <= RthOpen THEN asOf ELSE RthOpen
    BY <2>1, MinOfTwo
  <2>3. QED
    BY <2>1, <2>2
<1>4. QED
  BY <1>1, <1>2, <1>3, UsualReadsAsUsual

\* The rows that pass, in their order.
LEMMA CandidatesAre ==
    ASSUME ScreenInv
    PROVE  /\ \A j \in DOMAIN screen.candidates : \E i \in Passing : screen.candidates[j] = Row(i)
           /\ screen.stage = "done" => \A i \in Passing :
                 \/ \E j \in DOMAIN screen.candidates : screen.candidates[j] = Row(i)
                 \/ /\ Len(screen.candidates) = MaxResults
                    /\ \A j \in DOMAIN screen.candidates : screen.candidates[j].score >= Row(i).score
<1> DEFINE rows == {Row(i) : i \in Passing}
           n    == Cardinality(rows)
           all  == Ranked(rows)
           k    == IF MaxResults <= n THEN MaxResults ELSE n
<1>1. CASE screen.stage # "done"
  <2>1. screen.candidates = <<>>
    BY <1>1 DEF ScreenInv, ScreenRuns, NoScreen
  <2>2. DOMAIN screen.candidates = {}
    BY <2>1
  <2>3. QED
    BY <1>1, <2>2
<1>2. CASE screen.stage = "done"
  <2>1. screen.candidates = Capped(all, MaxResults) /\ ScreenRuns
    BY <1>2 DEF ScreenInv, ScreenRuns, NoScreen
  <2>2. IsFiniteSet(Passing)
    BY ScreenedAreNames, FS_Subset, <2>1 DEF Passing, SnapshotsOf, ScreenRuns
  <2>3. IsFiniteSet(rows)
    <3> DEFINE row == [i \in Passing |-> Row(i)]
    <3>1. row \in Surjection(Passing, rows)
      BY DEF Surjection
    <3> HIDE DEF row, rows
    <3>2. QED
      BY <2>2, <3>1, FS_Surjection
  <2>4. \A i \in Passing : Row(i).name = i /\ Row(i).name \in Int /\ Row(i).score \in Int
    <3>1. \A i : Row(i).name = i /\ Row(i).score = ScreenScore(screen.snaps[i])
      BY DEF Row
    <3>2. \A i \in Passing : i \in SnapshotsOf
      BY DEF Passing
    <3>3. \A i \in Passing : i \in Int /\ screen.snaps[i].gap \subseteq Int
      BY <3>2, SeenAre
    <3>4. QED
      BY <3>1, <3>3, ScoreIsInt
  <2>5. /\ \A r \in rows : r.name \in Int /\ r.score \in Int
        /\ \A r, q \in rows : r.name = q.name => r = q
    BY <2>4
  <2>6. MaxResults \in Nat
    BY ScreenFacts
  <2>7. \A r \in rows : \E i \in Passing : r = Row(i)
    OBVIOUS
  <2>8. \A i \in Passing : Row(i) \in rows
    OBVIOUS
  <2> HIDE DEF rows
  <2>9. /\ n \in Nat /\ all \in [1..n -> rows]
        /\ \A r \in rows : \E m \in 1..n :
              /\ all[m] = r
              /\ \A j \in 1..n : j < m => all[j].score >= r.score
    BY <2>3, <2>5, RankedAre
  <2> HIDE DEF n, all
  <2>10. FirstOfRows(Capped(all, MaxResults), all, k)
    BY <2>6, <2>9, CappedAre
  <2>11. \A j \in 1..k : j \in 1..n
    BY <2>6, <2>9
  <2>12. /\ Len(screen.candidates) = k /\ DOMAIN screen.candidates = 1..k
         /\ \A j \in 1..k : j \in 1..n /\ screen.candidates[j] = all[j] /\ all[j] \in rows
    <3> HIDE DEF k
    <3>1. QED
      BY <2>1, <2>9, <2>10, <2>11 DEF FirstOfRows
  <2>13. \A j \in DOMAIN screen.candidates : \E i \in Passing : screen.candidates[j] = Row(i)
    BY <2>7, <2>12
  <2>14. ASSUME NEW i \in Passing
         PROVE  \/ \E j \in DOMAIN screen.candidates : screen.candidates[j] = Row(i)
                \/ /\ Len(screen.candidates) = MaxResults
                   /\ \A j \in DOMAIN screen.candidates : screen.candidates[j].score >= Row(i).score
    <3>1. PICK m \in 1..n : all[m] = Row(i) /\ \A j \in 1..n : j < m => all[j].score >= Row(i).score
      BY <2>8, <2>9
    <3>2. CASE m <= k
      <4>1. m \in 1..k
        BY <2>6, <2>9, <3>2
      <4>2. QED
        BY <2>12, <3>1, <4>1
    <3>3. CASE ~(m <= k)
      <4>1. k = MaxResults /\ \A j \in 1..k : j < m
        BY <2>6, <2>9, <3>3
      <4>2. QED
        BY <2>12, <3>1, <4>1
    <3>4. QED
      BY <3>2, <3>3
  <2>15. QED
    BY <2>13, <2>14
<1>3. QED
  BY <1>1, <1>2

LEMMA RailsAreKept ==
    ASSUME ScreenInv
    PROVE  RailsFailClosed
<1> SUFFICES ASSUME screen.penny, NEW j \in DOMAIN screen.candidates
             PROVE  LET x == Stock(screen.candidates[j].name)
                    IN  /\ PennyRails.cap > 0 => \E c \in x.cap : c >= PennyRails.cap
                        /\ \E v \in Adv(x.daily) : v >= PennyRails.adv
  BY DEF RailsFailClosed
<1>1. PICK i \in Passing : screen.candidates[j] = Row(i)
  BY CandidatesAre
<1>2. screen.candidates[j].name = i
  BY <1>1 DEF Row
<1> DEFINE s == screen.snaps[i]
           g == PennyProfile(StandardGates)
<1>3. i \in SnapshotsOf /\ Failures(s, g) = {}
  BY DEF Passing, FailuresOf, Gates
<1>4. /\ s.adv = Adv(Stock(i).daily) /\ s.cap = NonZero(Stock(i).cap) /\ IsListing(Stock(i))
  BY <1>3, SeenAre, StockIsListing DEF ScreenInv
<1>5. g.penny = TRUE /\ g.cap = PennyRails.cap /\ g.adv = PennyRails.adv
      /\ PennyRails.cap \in Nat /\ PennyRails.adv \in Nat
  BY PremarketAssumption DEF PennyProfile, PremarketAssumption
<1> DEFINE price  == OrZero(s.price)
           failed == [gap_below_min       |-> GapSize(s) < g.gap,
                      price_below_min     |-> price < g.least,
                      price_above_max     |-> price > g.most,
                      pm_volume_below_min |-> s.shares < g.shares,
                      pm_dollar_volume_below_min |-> s.dollars < g.dollars,
                      adv_unavailable     |-> s.adv = {} /\ g.penny,
                      adv_below_min       |-> \E v \in s.adv : v < g.adv,
                      market_cap_unavailable |-> g.cap > 0 /\ s.cap = {},
                      market_cap_below_min   |-> \E c \in s.cap : c < g.cap]
<1>6. Failures(s, g) = IF s.price = {} \/ s.gap = {} THEN {"no_price_or_gap"}
                       ELSE {reason \in DOMAIN failed : failed[reason]}
  BY DEF Failures
<1>7. \A reason \in DOMAIN failed : ~failed[reason]
  <2> HIDE DEF failed, s, g
  <2>1. QED
    BY <1>3, <1>6
<1> HIDE DEF s, g, price
<1>8. /\ ~(s.adv = {} /\ g.penny) /\ ~(\E v \in s.adv : v < g.adv)
      /\ ~(g.cap > 0 /\ s.cap = {}) /\ ~(\E c \in s.cap : c < g.cap)
  <2>1. /\ {"adv_unavailable", "adv_below_min", "market_cap_unavailable", "market_cap_below_min"} \subseteq DOMAIN failed
        /\ failed["adv_unavailable"] = (s.adv = {} /\ g.penny)
        /\ failed["adv_below_min"] = (\E v \in s.adv : v < g.adv)
        /\ failed["market_cap_unavailable"] = (g.cap > 0 /\ s.cap = {})
        /\ failed["market_cap_below_min"] = (\E c \in s.cap : c < g.cap)
    OBVIOUS
  <2> HIDE DEF failed
  <2>2. QED
    BY <1>7, <2>1
<1>9. \E v \in Adv(Stock(i).daily) : v >= PennyRails.adv
  <2>1. PICK v \in s.adv : TRUE
    BY <1>5, <1>8
  <2>2. v \in Int /\ ~(v < g.adv)
    BY <1>4, <1>8, AdvIs
  <2>3. QED
    BY <1>4, <1>5, <2>1, <2>2
<1>10. ASSUME PennyRails.cap > 0 PROVE \E c \in Stock(i).cap : c >= PennyRails.cap
  <2>1. PICK c \in s.cap : TRUE
    BY <1>5, <1>8, <1>10
  <2>2. c \in Stock(i).cap /\ c \in Int /\ ~(c < g.cap)
    BY <1>4, <1>8, ListingFacts DEF NonZero
  <2>3. QED
    BY <1>5, <2>2
<1>11. QED
  BY <1>2, <1>9, <1>10

LEMMA RanksAreKept ==
    ASSUME ScreenInv
    PROVE  RanksHold
<1>1. ASSUME screen.stage = "done", NEW i \in Passing
      PROVE  \/ \E j \in DOMAIN screen.candidates : screen.candidates[j].name = i
             \/ /\ Len(screen.candidates) = MaxResults
                /\ \A j \in DOMAIN screen.candidates : screen.candidates[j].score >= Row(i).score
  <2>1. Row(i).name = i
    BY DEF Row
  <2>2. QED
    BY <1>1, <2>1, CandidatesAre
<1>2. ASSUME NEW j \in DOMAIN screen.candidates, screen.candidates[j].profile = "continuation"
      PROVE  screen.candidates[j].flags \cap {"micro_float", "below_liquidity_floor", "rvol_unavailable"} = {}
  <2>1. PICK i \in Passing : screen.candidates[j] = Row(i)
    BY CandidatesAre
  <2> DEFINE s == screen.snaps[i]
  <2>2. Profile(s) = "continuation" /\ screen.candidates[j].flags = Flags(s)
    BY <1>2, <2>1 DEF Row
  <2> HIDE DEF s
  <2>3. Liquid(s) /\ s.rvol # {}
    BY <2>2 DEF Profile
  <2>4. ~MicroFloat(s)
    BY <2>3 DEF Liquid
  <2> DEFINE raised == [extreme_gap           |-> Extreme(s),
                        below_liquidity_floor |-> ~Liquid(s),
                        micro_float           |-> MicroFloat(s),
                        crowded_micro_float   |-> MicroFloat(s) /\ s.shares >= 5000,
                        rvol_unavailable      |-> s.rvol = {},
                        dilution_news         |-> s.dilution]
  <2>5. Flags(s) = {f \in DOMAIN raised : raised[f]}
    BY DEF Flags
  <2>6. ~raised["below_liquidity_floor"] /\ ~raised["micro_float"] /\ ~raised["rvol_unavailable"]
    BY <2>3, <2>4
  <2> HIDE DEF raised
  <2>7. QED
    BY <2>2, <2>5, <2>6
<1>3. QED
  BY <1>1, <1>2 DEF RanksHold

LEMMA ScreenHolds ==
    ASSUME ScreenInv
    PROVE  ScreenIsHonest
  BY OneInstant, LikeIsCompared, RailsAreKept, RanksAreKept DEF ScreenIsHonest

LEMMA ScreenMoves == [Next]_vars => [ScreenNext]_screenVars
  BY DEF Next, vars, DailyMode, IntradayMode, BacktestMode, SignalsMode, DayMode, ScreenMode, Around

\* However long the pool of a pre-market screen works and whatever the cache kept: every
\* snapshot is one of the scan's own instant, a morning like all before it never reads as
\* unusual, a penny candidate's cap and volume are known and above the rails, and no name
\* that passes is left out for one that scores less.
THEOREM ScreenIsHonestHolds == Spec => []ScreenIsHonest
<1>1. Init => ScreenInv
  <2>1. Init => ScreenInit(IF mode = "premarket" THEN DOMAIN Mornings ELSE {1})
    BY DEF Init
  <2>2. (IF mode = "premarket" THEN DOMAIN Mornings ELSE {1}) \in SUBSET DOMAIN Mornings
    BY ScreenFacts
  <2>3. QED
    BY <2>1, <2>2, ScreenBegins
<1>2. ScreenInv /\ [Next]_vars => ScreenInv'
  BY ScreenMoves, ScreenSteps
<1>3. QED
  BY <1>1, <1>2, ScreenHolds, PTL DEF Spec

---------------------------------------------------------------------------
(* Scores and their bounds.                                                *)

\* A rung that is reached, or the value below all of them.
LEMMA RungOf ==
    ASSUME NEW ladder, NEW n \in Nat, DOMAIN ladder = 1..n, NEW v, NEW below
    PROVE  \/ Rung(ladder, v, below) = below /\ \A i \in 1..n : ~(v >= ladder[i][1])
           \/ \E i \in 1..n : /\ Rung(ladder, v, below) = ladder[i][2] /\ v >= ladder[i][1]
<1> DEFINE reached == {i \in DOMAIN ladder : v >= ladder[i][1]}
<1>1. reached \in SUBSET Nat /\ \A i \in 1..n : i \in reached <=> v >= ladder[i][1]
  OBVIOUS
<1>2. Rung(ladder, v, below) = IF reached = {} THEN below ELSE ladder[Min(reached)][2]
  BY DEF Rung
<1>3. reached \subseteq 1..n
  OBVIOUS
<1> HIDE DEF reached
<1>4. reached # {} => Min(reached) \in reached /\ \A j \in reached : Min(reached) <= j
  BY <1>1, MinIsLeast
<1>5. QED
  BY <1>1, <1>2, <1>3, <1>4

LEMMA PointsIn ==
    ASSUME NEW ladder, NEW n \in Nat, DOMAIN ladder = 1..n, NEW V, 0 \in V,
           \A i \in 1..n : ladder[i][2] \in V, NEW reading, NEW below \in V
    PROVE  Points(ladder, reading, below) \in V
<1>1. Rung(ladder, The(reading), below) \in V
  BY RungOf
<1>2. QED
  BY <1>1 DEF Points

LEMMA ClampIn ==
    ASSUME NEW x \in Int, NEW a \in Int, NEW b \in Int, a <= b
    PROVE  Clamp(x, a, b) \in a..b
  BY DEF Clamp

LEMMA TrendIs ==
    ASSUME NEW f
    PROVE  Trend(f) \in 0..100
<1> DEFINE a == When(Above(f.close, Average(f, 200)), 20)
           b == When(Above(f.close, Average(f, 50)), 15)
           c == When(Above(f.close, Average(f, 20)), 10)
           d == When(\E v \in Average(f, 50), w \in Average(f, 200) : v > w, 15)
           e == When(f.macd > 0, 15 + 10)
           g == When(Above(f.close, Vwap(f)), 10)
           h == When(Above(f.close, f.psar), 5)
<1>1. a \in 0..20 /\ b \in 0..15 /\ c \in 0..10 /\ d \in 0..15 /\ e \in 0..25 /\ g \in 0..10 /\ h \in 0..5
  BY DEF When
<1>2. Trend(f) = IF f.rows < TrendRows THEN 50 ELSE a + b + c + d + e + g + h
  BY DEF Trend
<1> HIDE DEF a, b, c, d, e, g, h
<1>3. QED
  BY <1>1, <1>2

LEMMA MomentumIs ==
    ASSUME NEW f
    PROVE  Momentum(f) \in 0..100
<1> DEFINE m == MomentumIndicators(f)
           rsi == Points(RsiLadder, m.rsi, 20)
           osc == When(m.stochastic # {}, Stochastic(The(m.stochastic)[1], The(m.stochastic)[2]))
           roc == When(m.roc > 0, 15)
           cci == Points(CciLadder, m.cci, 0)
<1>1. rsi \in Int
  <2>1. DOMAIN RsiLadder = 1..4 /\ \A i \in 1..4 : RsiLadder[i][2] \in Int
    BY DEF RsiLadder
  <2>2. 4 \in Nat /\ 0 \in Int /\ 20 \in Int
    OBVIOUS
  <2> HIDE DEF m
  <2>3. QED
    BY <2>1, <2>2, PointsIn, Zenon DEF rsi
<1>2. cci \in Int
  <2>1. DOMAIN CciLadder = 1..2 /\ \A i \in 1..2 : CciLadder[i][2] \in Int
    BY DEF CciLadder
  <2>2. 2 \in Nat /\ 0 \in Int
    OBVIOUS
  <2> HIDE DEF m
  <2>3. QED
    BY <2>1, <2>2, PointsIn, Zenon DEF cci
<1>3. osc \in Int /\ roc \in Int
  BY DEF When, Stochastic
<1>4. Divergence(f) \in Int
  BY DEF Divergence, When
<1>5. Momentum(f) = IF f.rows < MomentumRows THEN 50
                    ELSE Clamp(rsi + osc + roc + cci + Divergence(f), 0, 100)
  BY DEF Momentum
<1> HIDE DEF rsi, osc, roc, cci
<1>6. rsi + osc + roc + cci + Divergence(f) \in Int
  BY <1>1, <1>2, <1>3, <1>4
<1>7. Clamp(rsi + osc + roc + cci + Divergence(f), 0, 100) \in 0..100
  <2>1. 0 \in Int /\ 100 \in Int /\ 0 <= 100
    OBVIOUS
  <2>2. QED
    BY <1>6, <2>1, ClampIn
<1>8. QED
  BY <1>5, <1>7

LEMMA VolumeIs ==
    ASSUME NEW f
    PROVE  Volume(f) \in Int /\ Volume(f) <= 100
<1> DEFINE v == VolumeIndicators(f)
           rvol == Points(RvolLadder, v.rvol, 0)
           cmf  == Points(CmfLadder, v.cmf, -15)
           V    == -15..30
           W    == -15..25
<1>1. rvol \in V
  <2>1. DOMAIN RvolLadder = 1..3 /\ \A i \in 1..3 : RvolLadder[i][2] \in V
    BY DEF RvolLadder
  <2>2. 3 \in Nat /\ 0 \in V
    OBVIOUS
  <2> HIDE DEF v, V
  <2>3. QED
    BY <2>1, <2>2, PointsIn, Zenon DEF rvol
<1>2. cmf \in W
  <2>1. DOMAIN CmfLadder = 1..3 /\ \A i \in 1..3 : CmfLadder[i][2] \in W
    BY DEF CmfLadder
  <2>2. 3 \in Nat /\ 0 \in W /\ -15 \in W
    OBVIOUS
  <2> HIDE DEF v, W
  <2>3. QED
    BY <2>1, <2>2, PointsIn, Zenon DEF cmf
<1>3. When(f.obv > 0, 25) \in 0..25 /\ When(v.rising, 20) \in 0..20
  BY DEF When
<1>4. Volume(f) = IF f.rows < VolumeRows THEN 50
                  ELSE rvol + When(f.obv > 0, 25) + cmf + When(v.rising, 20)
  BY DEF Volume
<1> HIDE DEF rvol, cmf, v
<1>5. QED
  BY <1>1, <1>2, <1>3, <1>4

LEMMA FundamentalIs ==
    ASSUME NEW fd
    PROVE  FundamentalScore(fd) \in 0..100
<1> DEFINE criteria == Max({Cardinality(Measurable(fd)), 1})
           passed == (25 * Cardinality(Passed(fd))) \div criteria
           z == Points(ZLadder, AltmanZ(fd), 0)
           peg == Points(PegLadder, {-p : p \in Positive(fd.peg)}, 0)
           growth == Points(GrowthLadder, fd.growth, 0)
<1>1. criteria \in Nat /\ criteria >= 1
  <2>1. IsFiniteSet(1..9) /\ Measurable(fd) \in SUBSET (1..9)
    <3>1. 1 \in Int /\ 9 \in Int
      OBVIOUS
    <3>2. QED
      BY <3>1, FS_Interval DEF Measurable
  <2>2. Cardinality(Measurable(fd)) \in Nat
    BY <2>1, FS_Subset, FS_CardinalityType
  <2>3. criteria = IF Cardinality(Measurable(fd)) >= 1 THEN Cardinality(Measurable(fd)) ELSE 1
    BY <2>2, MaxOfTwo
  <2>4. QED
    BY <2>2, <2>3
<1>2. passed \in Int
  <2>1. IsFiniteSet(1..9) /\ Passed(fd) \in SUBSET (1..9)
    <3>1. 1 \in Int /\ 9 \in Int
      OBVIOUS
    <3>2. QED
      BY <3>1, FS_Interval DEF Passed
  <2>2. Cardinality(Passed(fd)) \in Nat
    BY <2>1, FS_Subset, FS_CardinalityType
  <2> HIDE DEF criteria
  <2>3. QED
    BY <1>1, <2>2
<1>3. z \in Int
  <2>1. DOMAIN ZLadder = 1..2 /\ \A i \in 1..2 : ZLadder[i][2] \in Int
    BY DEF ZLadder
  <2>2. 2 \in Nat /\ 0 \in Int
    OBVIOUS
  <2>3. QED
    BY <2>1, <2>2, PointsIn, Zenon
<1>4. peg \in Int /\ growth \in Int
  <2>1. DOMAIN PegLadder = 1..3 /\ \A i \in 1..3 : PegLadder[i][2] \in Int
    BY DEF PegLadder
  <2>2. DOMAIN GrowthLadder = 1..3 /\ \A i \in 1..3 : GrowthLadder[i][2] \in Int
    BY DEF GrowthLadder
  <2>3. 3 \in Nat /\ 0 \in Int
    OBVIOUS
  <2>4. peg \in Int
    BY <2>1, <2>3, PointsIn, Zenon
  <2>5. growth \in Int
    BY <2>2, <2>3, PointsIn, Zenon
  <2>6. QED
    BY <2>4, <2>5
<1>5. FundamentalScore(fd) = Clamp(passed + z + peg + growth, 0, 100)
  BY DEF FundamentalScore
<1> HIDE DEF passed, z, peg, growth
<1>6. passed + z + peg + growth \in Int
  BY <1>2, <1>3, <1>4
<1>7. 0 \in Int /\ 100 \in Int /\ 0 <= 100
  OBVIOUS
<1>8. QED
  BY <1>5, <1>6, <1>7, ClampIn

\* The name of a score, of which the best needs fifty and the worst is under minus fifty.
RegimeName(v) == Rung(RegimeLadder, v, "BEAR_RISK_OFF")

LEMMA RegimeNames ==
    ASSUME NEW v \in Int
    PROVE  /\ RegimeName(v) \in {"BULL_RISK_ON", "MILD_BULL", "NEUTRAL_CHOPPY", "MILD_BEAR", "BEAR_RISK_OFF"}
           /\ RegimeName(v) = "BULL_RISK_ON" => v >= 50
           /\ RegimeName(v) = "BEAR_RISK_OFF" => v < -50
<1>1. /\ DOMAIN RegimeLadder = 1..4
      /\ RegimeLadder[1][1] = 50 /\ RegimeLadder[1][2] = "BULL_RISK_ON"
      /\ RegimeLadder[2][2] = "MILD_BULL" /\ RegimeLadder[3][2] = "NEUTRAL_CHOPPY"
      /\ RegimeLadder[4][1] = -50 /\ RegimeLadder[4][2] = "MILD_BEAR"
  BY DEF RegimeLadder
<1>2. 4 \in Nat /\ DOMAIN RegimeLadder = 1..4
  BY <1>1
<1>3. \/ RegimeName(v) = "BEAR_RISK_OFF" /\ \A i \in 1..4 : ~(v >= RegimeLadder[i][1])
      \/ \E i \in 1..4 : /\ RegimeName(v) = RegimeLadder[i][2] /\ v >= RegimeLadder[i][1]
  BY <1>2, RungOf, Zenon DEF RegimeName
<1>4. ASSUME RegimeName(v) = "BEAR_RISK_OFF", ~(v >= RegimeLadder[4][1])
      PROVE  v < -50
  BY <1>1, <1>4
<1>5. ASSUME NEW i \in 1..4, RegimeName(v) = RegimeLadder[i][2], v >= RegimeLadder[i][1]
      PROVE  /\ RegimeName(v) \in {"BULL_RISK_ON", "MILD_BULL", "NEUTRAL_CHOPPY", "MILD_BEAR"}
             /\ RegimeName(v) = "BULL_RISK_ON" => v >= 50
  <2>1. i = 1 \/ i = 2 \/ i = 3 \/ i = 4
    OBVIOUS
  <2>2. QED
    BY <1>1, <1>5, <2>1
<1>6. 4 \in 1..4
  OBVIOUS
<1>7. QED
  BY <1>3, <1>4, <1>5, <1>6

LEMMA DetectIs ==
    ASSUME NEW m
    PROVE  /\ Detect(m).score \in Int
           /\ Detect(m).name \in DOMAIN SizeMultiplier
           /\ Detect(m).name = "BULL_RISK_ON" => m.vix # {}
           /\ Detect(m).name = "BEAR_RISK_OFF" => Detect(m).score < -50
<1> DEFINE a == When(m.above200, 60)
           v == Points(VixLadder, m.vix, 30)
           b == When(m.above50, 20)
           h == When(m.havens, 15)
           y == Points(YieldLadder, m.yield, 5)
           score == a - 30 + v + b - 10 - h + y
           name  == Rung(RegimeLadder, score, "BEAR_RISK_OFF")
<1>1. a \in 0..60 /\ b \in 0..20 /\ h \in 0..15
  BY DEF When
<1>2. v \in Int /\ (m.vix = {} => v = 0)
  <2>1. DOMAIN VixLadder = 1..3 /\ \A i \in 1..3 : VixLadder[i][2] \in Int
    BY DEF VixLadder
  <2>2. 3 \in Nat /\ 0 \in Int /\ 30 \in Int
    OBVIOUS
  <2>3. v \in Int
    BY <2>1, <2>2, PointsIn, Zenon
  <2>4. QED
    BY <2>3 DEF Points
<1>3. y \in -10..5
  <2> DEFINE V == -10..5
  <2>1. DOMAIN YieldLadder = 1..2 /\ \A i \in 1..2 : YieldLadder[i][2] \in V
    BY DEF YieldLadder
  <2>2. 2 \in Nat /\ 0 \in V /\ 5 \in V
    OBVIOUS
  <2> HIDE DEF V
  <2>3. y \in V
    BY <2>1, <2>2, PointsIn, Zenon
  <2>4. QED
    BY <2>3 DEF V
<1>4. Detect(m) = IF ~m.index THEN RegimeOf(0, "NEUTRAL_CHOPPY") ELSE RegimeOf(score, name)
  BY DEF Detect
<1> HIDE DEF a, v, b, h, y
<1>5. score \in Int /\ (m.vix = {} => score < 50)
  <2>1. /\ a \in Int /\ a <= 60 /\ v \in Int /\ b \in Int /\ b <= 20
        /\ h \in Int /\ h >= 0 /\ y \in Int /\ y <= 5
    BY <1>1, <1>2, <1>3
  <2>2. score \in Int /\ score <= v + 45
    BY <2>1
  <2>3. QED
    BY <1>2, <2>2
<1> HIDE DEF score
<1>6. /\ name \in {"BULL_RISK_ON", "MILD_BULL", "NEUTRAL_CHOPPY", "MILD_BEAR", "BEAR_RISK_OFF"}
      /\ name = "BULL_RISK_ON" => score >= 50
      /\ name = "BEAR_RISK_OFF" => score < -50
  BY <1>5, RegimeNames DEF RegimeName
<1> HIDE DEF name
<1>7. QED
  BY <1>4, <1>5, <1>6 DEF RegimeOf, SizeMultiplier

LEMMA RegimeIs ==
    ASSUME NEW w, NEW how
    PROVE  /\ RegimeFor(w, how).score \in Int
           /\ RegimeFor(w, how).name \in DOMAIN SizeMultiplier
  BY DetectIs DEF RegimeFor, RegimeOf, SizeMultiplier

---------------------------------------------------------------------------
(* Weights and the composite.                                              *)

LEMMA FramesAre ==
    /\ \A i \in DOMAIN FrameList : FrameList[i] \in SignalFrame
    /\ \A w \in DOMAIN WorldList : WorldList[w] \in World
    /\ 0 \notin DOMAIN FrameList
    /\ SignalWeights \in [Dimensions -> Int]
<1>1. FrameList \in Seq(SignalFrame) /\ WorldList \in Seq(World) /\ SignalWeights \in [Dimensions -> Int]
  BY FramesAssumption
<1>2. DOMAIN FrameList = 1..Len(FrameList) /\ DOMAIN WorldList = 1..Len(WorldList)
  BY <1>1
<1>3. /\ \A i \in 1..Len(FrameList) : FrameList[i] \in SignalFrame
      /\ \A w \in 1..Len(WorldList) : WorldList[w] \in World
  BY <1>1, ElementOfSeq
<1>4. QED
  BY <1>1, <1>2, <1>3

LEMMA WeightsAre ==
    ASSUME NEW regime
    PROVE  Weights(regime) \in [Dimensions -> Nat]
<1> DEFINE tilted == [d \in Dimensions |->
                         Max({0, SignalWeights[d] + IF RegimeWeighting THEN Tilt(regime)[d] ELSE 0})]
<1>1. \A d \in Dimensions : Tilt(regime)[d] \in Int
  BY DEF Tilt
<1>2. \A x \in Int : Max({0, x}) \in Nat
  <2> TAKE x \in Int
  <2>1. Max({0, x}) = IF 0 >= x THEN 0 ELSE x
    BY MaxOfTwo
  <2>2. QED
    BY <2>1
<1>3. \A d \in Dimensions : SignalWeights[d] + (IF RegimeWeighting THEN Tilt(regime)[d] ELSE 0) \in Int
  BY <1>1, FramesAre
<1>4. tilted \in [Dimensions -> Nat]
  BY <1>2, <1>3
<1>5. DefaultWeights \in [Dimensions -> Nat]
  BY DEF DefaultWeights, Dimensions
<1>6. Weights(regime) = tilted \/ Weights(regime) = DefaultWeights
  BY DEF Weights
<1>7. QED
  BY <1>4, <1>5, <1>6

LEMMA WithoutKeeps ==
    ASSUME NEW weights \in [Dimensions -> Nat], NEW dropped
    PROVE  /\ Without(weights, dropped) \in [Dimensions -> Nat]
           /\ \A d \in dropped \cap Dimensions : Without(weights, dropped)[d] = 0
  BY DEF Without

LEMMA EffectiveIs ==
    ASSUME NEW w, NEW how
    PROVE  /\ Effective(w, how) \in [Dimensions -> Nat]
           /\ how = "replay" => Effective(w, how) = Without(Weights("NEUTRAL"), Live)
<1> DEFINE weights == Weights(RegimeFor(w, how).name)
<1>1. weights \in [Dimensions -> Nat]
  BY WeightsAre
<1>2. \/ Effective(w, how) = weights
      \/ \E dropped : Effective(w, how) = Without(weights, dropped)
  BY DEF Effective
<1>3. how = "replay" => Effective(w, how) = Without(weights, Live) /\ RegimeFor(w, how).name = "NEUTRAL"
  BY DEF Effective, RegimeFor, RegimeOf
<1>4. QED
  BY <1>1, <1>2, <1>3, WithoutKeeps

LEMMA HeardIsInt ==
    ASSUME NEW reading, reading \subseteq Int
    PROVE  Heard(reading) \in Int
<1>1. reading # {} => The(reading) \in Int
  BY DEF The
<1>2. Heard(reading) = IF reading = {} THEN 50 ELSE The(reading)
  BY DEF Heard, OrZero
<1>3. QED
  BY <1>1, <1>2

LEMMA SourcesAre ==
    ASSUME NEW w \in World
    PROVE  /\ Heard(News(w)) \in Int
           /\ Heard(Social(w)) \in Int
           /\ Heard(Insider(w)) \in Int
<1>1. /\ w.tones \in Seq(Int) /\ w.bullish \in Nat /\ w.mentions \in Nat
      /\ w.trades.buys \in Nat /\ w.trades.sales \in Nat /\ w.trades.large \in Nat /\ w.trades.middling \in Nat
  BY DEF World
<1>2. News(w) \subseteq Int
  <2> DEFINE tones == w.tones
             shifted == [i \in DOMAIN tones |-> tones[i] + 100]
             sum == SumFunctionOnSet(shifted, DOMAIN tones)
  <2>1. DOMAIN tones = 1..Len(tones) /\ Len(tones) \in Nat /\ \A i \in DOMAIN tones : shifted[i] \in Int
    BY <1>1
  <2>2. IsFiniteSet(DOMAIN tones)
    <3>1. 1 \in Int /\ Len(tones) \in Int
      BY <2>1
    <3>2. QED
      BY <2>1, <3>1, FS_Interval
  <2> HIDE DEF shifted
  <2>3. sum \in Int
    BY <2>1, <2>2, SumIsInt
  <2>4. tones # <<>> => Len(tones) > 0
    BY <1>1, <2>1
  <2> HIDE DEF sum
  <2>5. tones # <<>> => sum \div (2 * Len(tones)) \in Int
    BY <2>1, <2>3, <2>4
  <2>6. News(w) = IF tones = <<>> THEN {} ELSE {sum \div (2 * Len(tones))}
    BY DEF News, NewsScore, sum, shifted
  <2>7. QED
    BY <2>5, <2>6
<1>3. Social(w) \subseteq Int
  BY <1>1 DEF Social, SocialScore
<1>4. Insider(w) \subseteq Int
  <2> DEFINE buys == Rung(<<<<3, 20>>, <<1, 10>>>>, w.trades.buys, 0)
             x == 50 + 30 * w.trades.large + 15 * w.trades.middling + buys - When(w.trades.sales >= 5, 10)
  <2>1. buys \in Int
    <3> DEFINE ladder == <<<<3, 20>>, <<1, 10>>>>
    <3>1. DOMAIN ladder = 1..2 /\ \A i \in 1..2 : ladder[i][2] \in Int
      OBVIOUS
    <3>2. 2 \in Nat /\ 0 \in Int
      OBVIOUS
    <3> HIDE DEF ladder
    <3>3. Rung(ladder, w.trades.buys, 0) \in Int
      BY <3>1, <3>2, RungIs, Zenon
    <3>4. QED
      BY <3>3 DEF ladder
  <2>2. When(w.trades.sales >= 5, 10) \in Int
    BY DEF When
  <2> HIDE DEF buys
  <2>3. x \in Int
    <3> DEFINE less == When(w.trades.sales >= 5, 10)
    <3>1. less \in Int
      BY <2>2
    <3>2. 30 * w.trades.large \in Int /\ 15 * w.trades.middling \in Int
      BY <1>1
    <3> HIDE DEF less
    <3>3. 50 + 30 * w.trades.large + 15 * w.trades.middling + buys - less \in Int
      BY <2>1, <3>1, <3>2
    <3>4. QED
      BY <3>3 DEF less
  <2>4. Insider(w) = IF w.trades.buys + w.trades.sales = 0 THEN {} ELSE {Clamp(x, 0, 100)}
    BY DEF Insider, InsiderScore, buys
  <2> HIDE DEF x
  <2>5. 0 \in Int /\ 100 \in Int /\ 0 <= 100 /\ 0..100 \subseteq Int
    OBVIOUS
  <2>6. Clamp(x, 0, 100) \in Int
    BY <2>3, <2>5, ClampIn
  <2>7. QED
    BY <2>4, <2>6
<1>5. QED
  BY <1>2, <1>3, <1>4, HeardIsInt

LEMMA ScoresAre ==
    ASSUME NEW g, NEW w \in World, NEW how
    PROVE  /\ \A d \in Dimensions : Score(g, w, how)[d] \in Int
           /\ Score(g, w, how).technical <= 10000
           /\ Score(g, w, how).volume <= 10000
           /\ Score(g, w, how).fundamental <= 10000
           /\ Score(g, w, how).macro = 50 * (RegimeFor(w, how).score + 100)
<1> DEFINE technical   == Technical(FrameList[g])
           volume      == 100 * Volume(FrameList[g])
           sentiment   == IF how = "replay" THEN 5000
                          ELSE 50 * Heard(News(w)) + 30 * Heard(Social(w)) + 20 * Heard(Insider(w))
           fundamental == 100 * FundamentalScore(w.fd)
           macro       == 50 * (RegimeFor(w, how).score + 100)
<1>1. technical \in Int /\ technical <= 10000
  BY TrendIs, MomentumIs DEF Technical
<1>2. volume \in Int /\ volume <= 10000
  BY VolumeIs
<1>3. sentiment \in Int
  BY SourcesAre
<1>4. fundamental \in Int /\ fundamental <= 10000
  BY FundamentalIs
<1>5. macro \in Int
  BY RegimeIs
<1>6. Score(g, w, how) = [technical |-> technical, volume |-> volume, sentiment |-> sentiment,
                          fundamental |-> fundamental, macro |-> macro]
  BY DEF Score
<1> HIDE DEF technical, volume, sentiment, fundamental
<1>7. \A d \in Dimensions : Score(g, w, how)[d] \in Int
  BY <1>1, <1>2, <1>3, <1>4, <1>5, <1>6 DEF Dimensions
<1>8. QED
  BY <1>1, <1>2, <1>4, <1>6, <1>7

LEMMA ImageIsFinite ==
    ASSUME NEW S, IsFiniteSet(S), NEW f
    PROVE  IsFiniteSet({f[x] : x \in S})
<1> DEFINE s == [x \in S |-> f[x]]
           T == {f[x] : x \in S}
<1>1. s \in Surjection(S, T)
  BY DEF Surjection
<1> HIDE DEF s, T
<1>2. IsFiniteSet(T)
  BY <1>1, FS_Surjection
<1>3. QED
  BY <1>2 DEF T

LEMMA DimensionsAreFinite == IsFiniteSet(Dimensions)
<1>1. IsFiniteSet({}) /\ \A S, x : IsFiniteSet(S) => IsFiniteSet(S \cup {x})
  BY FS_EmptySet, FS_AddElement
<1>2. Dimensions = {} \cup {"technical"} \cup {"volume"} \cup {"sentiment"} \cup {"fundamental"} \cup {"macro"}
  BY DEF Dimensions
<1>3. QED
  BY <1>1, <1>2

LEMMA ProductGrows ==
    ASSUME NEW e \in Nat, NEW s \in Int, NEW t \in Int, s <= t
    PROVE  e * s <= e * t
<1> DEFINE d == t - s
<1>1. d \in Nat /\ t = s + d
  OBVIOUS
<1> HIDE DEF d
<1>2. e * d \in Nat /\ e * s \in Int
  BY <1>1
<1>3. e * (s + d) = e * s + e * d
  BY <1>1
<1>4. QED
  BY <1>1, <1>2, <1>3

\* The composite lies between two numbers that the scores with a weight lie between.
LEMMA CompositeBetween ==
    ASSUME NEW g, NEW w \in World, NEW how, NEW lo \in Int, NEW hi \in Int,
           \A d \in Dimensions : Effective(w, how)[d] > 0 =>
               lo <= Score(g, w, how)[d] /\ Score(g, w, how)[d] <= hi
    PROVE  /\ Summed(g, w, how) \in Int /\ Over(w, how) \in Nat
           /\ lo * Over(w, how) <= Summed(g, w, how)
           /\ Summed(g, w, how) <= hi * Over(w, how)
<1> DEFINE e == Effective(w, how)
           s == Score(g, w, how)
           p == [d \in Dimensions |-> e[d] * s[d]]
<1>1. \A d \in Dimensions : e[d] \in Nat /\ s[d] \in Int
  BY EffectiveIs, ScoresAre
<1>2. \A d \in Dimensions : e[d] > 0 => lo <= s[d] /\ s[d] <= hi
  OBVIOUS
<1>3. Summed(g, w, how) = SumFunctionOnSet(p, Dimensions) /\ Over(w, how) = SumFunctionOnSet(e, Dimensions)
  BY DEF Summed, Over, Total
<1> HIDE DEF e, s
<1>4. ASSUME NEW d \in Dimensions
      PROVE  e[d] \in Int /\ p[d] \in Int /\ p[d] >= lo * e[d] /\ p[d] <= hi * e[d]
  <2>1. e[d] \in Nat /\ s[d] \in Int /\ p[d] = e[d] * s[d] /\ p[d] \in Int
    BY <1>1
  <2>2. CASE e[d] = 0
    BY <2>1, <2>2
  <2>3. CASE e[d] # 0
    <3>1. lo <= s[d] /\ s[d] <= hi
      BY <1>2, <2>1, <2>3
    <3>2. e[d] * lo <= e[d] * s[d] /\ e[d] * s[d] <= e[d] * hi
      BY <2>1, <3>1, ProductGrows
    <3>3. e[d] * lo = lo * e[d] /\ e[d] * hi = hi * e[d]
      BY <2>1
    <3>4. QED
      BY <2>1, <3>2, <3>3
  <2>4. QED
    BY <2>2, <2>3
<1> HIDE DEF p
<1>5. SumFunctionOnSet(p, Dimensions) \in Int
  BY <1>4, DimensionsAreFinite, SumIsInt
<1>6. SumFunctionOnSet(e, Dimensions) \in Nat
  <2>1. Dimensions \in SUBSET Dimensions /\ \A d \in Dimensions : e[d] <= e[d]
    BY <1>1
  <2>2. QED
    BY <1>1, <2>1, DimensionsAreFinite, SumGrows
<1>7. /\ SumFunctionOnSet(p, Dimensions) >= lo * SumFunctionOnSet(e, Dimensions)
      /\ SumFunctionOnSet(p, Dimensions) <= hi * SumFunctionOnSet(e, Dimensions)
  BY <1>4, DimensionsAreFinite, SumOfWeighed
<1>8. QED
  BY <1>3, <1>5, <1>6, <1>7

\* With a weight, a bear's regime keeps the composite under its greatest value.
LEMMA BearKeepsUnder ==
    ASSUME NEW g, NEW w \in World, Detect(w.market).name = "BEAR_RISK_OFF",
           Effective(w, "live")["macro"] > 0, Score(g, w, "live").sentiment <= 10000
    PROVE  /\ Summed(g, w, "live") \in Int /\ Over(w, "live") \in Nat
           /\ Summed(g, w, "live") < 10000 * Over(w, "live")
<1> DEFINE e == Effective(w, "live")
           s == Score(g, w, "live")
           p == [d \in Dimensions |-> e[d] * s[d]]
           q == [d \in Dimensions |-> IF d = "macro" THEN 10000 * e["macro"] ELSE p[d]]
<1>1. \A d \in Dimensions : e[d] \in Nat /\ s[d] \in Int
  BY EffectiveIs, ScoresAre
<1>2. s["macro"] < 10000
  <2>1. RegimeFor(w, "live") = Detect(w.market)
    BY DEF RegimeFor
  <2>2. s["macro"] = 50 * (Detect(w.market).score + 100) /\ Detect(w.market).score \in Int
    BY <2>1, ScoresAre, DetectIs
  <2>3. Detect(w.market).score < -50
    BY DetectIs
  <2> HIDE DEF s
  <2>4. QED
    BY <2>2, <2>3
<1>3. \A d \in Dimensions : s[d] <= 10000
  <2>1. s["technical"] <= 10000 /\ s["volume"] <= 10000 /\ s["fundamental"] <= 10000 /\ s["sentiment"] <= 10000
    BY ScoresAre
  <2> HIDE DEF s
  <2>2. s["macro"] \in Int
    BY <1>1 DEF Dimensions
  <2>3. QED
    BY <1>2, <2>1, <2>2 DEF Dimensions
<1>4. Summed(g, w, "live") = SumFunctionOnSet(p, Dimensions) /\ Over(w, "live") = SumFunctionOnSet(e, Dimensions)
  BY DEF Summed, Over, Total
<1>5. e["macro"] > 0 /\ "macro" \in Dimensions
  BY DEF Dimensions
<1> HIDE DEF e, s
<1>6. ASSUME NEW d \in Dimensions
      PROVE  e[d] \in Int /\ p[d] = e[d] * s[d] /\ p[d] \in Int /\ p[d] <= 10000 * e[d]
  <2>1. e[d] \in Nat /\ s[d] \in Int /\ s[d] <= 10000 /\ 10000 \in Int
    BY <1>1, <1>3
  <2>2. e[d] * s[d] <= e[d] * 10000
    BY <2>1, ProductGrows
  <2>3. QED
    BY <2>1, <2>2
<1>7. ASSUME NEW d \in Dimensions
      PROVE  /\ q[d] \in Int /\ q[d] <= 10000 * e[d]
             /\ d = "macro" => q[d] = 10000 * e[d]
             /\ d # "macro" => q[d] = p[d]
  <2> HIDE DEF p
  <2>1. QED
    BY <1>6
<1> HIDE DEF p, q
<1>8. SumFunctionOnSet(p, Dimensions) = SumFunctionOnSet(q, Dimensions) + (p["macro"] - q["macro"])
  <2>1. \A d \in Dimensions : q[d] \in Int /\ p[d] \in Int
    BY <1>6, <1>7
  <2>2. \A d \in Dimensions \ {"macro"} : p[d] = q[d]
    BY <1>7
  <2>3. QED
    BY <1>5, <2>1, <2>2, DimensionsAreFinite, SumOfChanged
<1>9. p["macro"] < q["macro"] /\ p["macro"] \in Int /\ q["macro"] \in Int
  <2>1. /\ e["macro"] \in Nat /\ e["macro"] >= 1 /\ s["macro"] \in Int /\ s["macro"] <= 9999
        /\ p["macro"] = e["macro"] * s["macro"] /\ q["macro"] = 10000 * e["macro"]
    BY <1>1, <1>2, <1>5, <1>6, <1>7
  <2>2. e["macro"] * s["macro"] <= e["macro"] * 9999
    BY <2>1, ProductGrows
  <2>3. QED
    BY <2>1, <2>2
<1>10. SumFunctionOnSet(q, Dimensions) <= 10000 * SumFunctionOnSet(e, Dimensions)
  <2>1. 10000 \in Int
    OBVIOUS
  <2>2. QED
    BY <1>6, <1>7, <2>1, DimensionsAreFinite, SumOfWeighed
<1>11. SumFunctionOnSet(q, Dimensions) \in Int
  BY <1>7, DimensionsAreFinite, SumIsInt
<1>12. SumFunctionOnSet(e, Dimensions) \in Nat
  <2>1. Dimensions \in SUBSET Dimensions /\ \A d \in Dimensions : e[d] <= e[d]
    BY <1>1
  <2>2. QED
    BY <1>1, <2>1, DimensionsAreFinite, SumGrows
<1>13. QED
  BY <1>4, <1>8, <1>9, <1>10, <1>11, <1>12

\* A label is one of the map's; the first is for four fifths of the scale at least.
LEMMA LabelIs ==
    ASSUME NEW g, NEW w, NEW how, Over(w, how) \in Nat
    PROVE  /\ Label(g, w, how) \notin {"FILTERED_OUT", "NONE"}
           /\ Label(g, w, how) = "STRONG_BUY" =>
                 Over(w, how) > 0 /\ Adjusted(g, w, how) >= 800000 * Over(w, how)
<1> DEFINE over == Over(w, how)
           v == Adjusted(g, w, how)
           scaled == [i \in DOMAIN SignalMap |-> <<SignalMap[i][1] * 10000 * over, SignalMap[i][2]>>]
           label == Rung(scaled, v, "STRONG_SELL")
<1>1. /\ DOMAIN SignalMap = 1..7 /\ SignalMap[1][1] = 80
      /\ SignalMap[1][2] = "STRONG_BUY" /\ SignalMap[2][2] = "BUY" /\ SignalMap[3][2] = "WEAK_BUY"
      /\ SignalMap[4][2] = "HOLD" /\ SignalMap[5][2] = "WEAK_SELL" /\ SignalMap[6][2] = "SELL"
      /\ SignalMap[7][2] = "STRONG_SELL"
  BY DEF SignalMap
<1>2. Label(g, w, how) = IF over > 0 THEN label ELSE IF how = "replay" THEN "ERROR" ELSE "STRONG_SELL"
  BY DEF Label
<1> HIDE DEF v
<1>3. /\ DOMAIN scaled = 1..7 /\ 7 \in Nat /\ scaled[1][1] = 800000 * over
      /\ \A i \in 1..7 : scaled[i][2] = SignalMap[i][2]
  BY <1>1
<1> HIDE DEF over
<1>4. \/ label = "STRONG_SELL"
      \/ \E i \in 1..7 : label = scaled[i][2] /\ v >= scaled[i][1]
  <2>1. DOMAIN scaled = 1..7 /\ 7 \in Nat
    BY <1>3
  <2> HIDE DEF scaled
  <2> HIDE DEF label
  <2>2. \/ Rung(scaled, v, "STRONG_SELL") = "STRONG_SELL" /\ \A i \in 1..7 : ~(v >= scaled[i][1])
        \/ \E i \in 1..7 : /\ Rung(scaled, v, "STRONG_SELL") = scaled[i][2] /\ v >= scaled[i][1]
    BY <2>1, RungOf, ZenonT(60)
  <2>3. QED
    BY <2>2 DEF label
<1> HIDE DEF label, scaled
<1>5. ASSUME NEW i \in 1..7, label = scaled[i][2], v >= scaled[i][1]
      PROVE  label \notin {"FILTERED_OUT", "NONE"} /\ (label = "STRONG_BUY" => v >= 800000 * over)
  <2>1. i = 1 \/ i = 2 \/ i = 3 \/ i = 4 \/ i = 5 \/ i = 6 \/ i = 7
    OBVIOUS
  <2>2. label = SignalMap[i][2]
    BY <1>3, <1>5
  <2>3. QED
    BY <1>1, <1>3, <1>5, <2>1, <2>2
<1>6. QED
  BY <1>2, <1>4, <1>5 DEF over, v

---------------------------------------------------------------------------
(* Signals.                                                                *)

FrameOf(s) == FrameList[s.frame]
WorldOf(s) == WorldList[s.world]

\* What a signal was made of: a frame too short, one that is filtered out, or one that is
\* scored, on a bundle of the same length, last bar and price that has not expired.
SignalIsMade ==
    /\ signal.frame \in DOMAIN FrameList /\ signal.world \in DOMAIN WorldList
    /\ signal.how = "replay" => Replayable(FrameOf(signal))
    /\ \/ signal.of = 0 /\ signal.label = "ERROR" /\ FrameOf(signal).rows < ContextRows
       \/ /\ signal.of = 0 /\ signal.label = "FILTERED_OUT"
          /\ Disqualifiers(FrameOf(signal), WorldOf(signal), signal.how) # {}
       \/ /\ signal.of \in DOMAIN FrameList /\ FeatureKey(signal.of) = FeatureKey(signal.frame)
          /\ signal.age <= FeatureTTL
          /\ ~(FrameOf(signal).rows < ContextRows)
          /\ Disqualifiers(FrameOf(signal), WorldOf(signal), signal.how) = {}
          /\ signal.label = Label(signal.of, WorldOf(signal), signal.how)

\* The store has bundles of frames, and keeps its size.
StoreKeeps ==
    /\ features \in Seq([of : DOMAIN FrameList, made : Times])
    /\ Len(features) <= FeatureMax

SignalInv == StoreKeeps /\ (signal = NoSignal \/ SignalIsMade)

LEMMA BundleIs ==
    ASSUME DataInv, StoreKeeps, NEW i \in DOMAIN FrameList
    PROVE  /\ Bundle(i) \in [of : DOMAIN FrameList, made : Times]
           /\ FeatureKey(Bundle(i).of) = FeatureKey(i)
           /\ clock - Bundle(i).made <= FeatureTTL
<1>1. clock \in Times /\ clock \in Int /\ FeatureTTL \in Nat /\ \A t \in Times : t \in Int
  BY SignalPlanAssumption, TimesAreNat DEF DataInv, SignalPlanAssumption
<1>2. \A j \in DOMAIN features : features[j] \in [of : DOMAIN FrameList, made : Times]
  <2> DEFINE B == [of : DOMAIN FrameList, made : Times]
  <2>1. features \in Seq(B)
    BY DEF StoreKeeps
  <2> HIDE DEF B
  <2>2. DOMAIN features = 1..Len(features) /\ \A j \in 1..Len(features) : features[j] \in B
    BY <2>1, ElementOfSeq
  <2>3. QED
    BY <2>2 DEF B
<1>3. \A e \in Cached(i) : /\ e \in [of : DOMAIN FrameList, made : Times]
                         /\ FeatureKey(e.of) = FeatureKey(i) /\ clock <= e.made + FeatureTTL
  BY <1>2 DEF Cached, Entries
<1>4. \/ Bundle(i) \in Cached(i)
      \/ Bundle(i) = [of |-> i, made |-> clock]
  BY DEF Bundle
<1>5. CASE Bundle(i) \in Cached(i)
  <2>1. Bundle(i).made \in Int /\ clock <= Bundle(i).made + FeatureTTL
    BY <1>1, <1>3, <1>5
  <2>2. clock - Bundle(i).made <= FeatureTTL
    BY <1>1, <2>1
  <2>3. QED
    BY <1>3, <1>5, <2>2
<1>6. CASE Bundle(i) = [of |-> i, made |-> clock]
  <2>1. Bundle(i).made = clock /\ Bundle(i).of = i
    BY <1>6
  <2>2. clock - Bundle(i).made <= FeatureTTL
    BY <1>1, <2>1
  <2>3. QED
    BY <1>1, <1>6, <2>1, <2>2
<1>7. QED
  BY <1>4, <1>5, <1>6

LEMMA KeptKeeps ==
    ASSUME DataInv, StoreKeeps, NEW i \in DOMAIN FrameList
    PROVE  /\ Kept(i) \in Seq([of : DOMAIN FrameList, made : Times])
           /\ Len(Kept(i)) <= FeatureMax
<1> DEFINE B == [of : DOMAIN FrameList, made : Times]
           rest == {features[j] : j \in DOMAIN features} \ Entries(FeatureKey(i))
           among == Among(features, rest)
           all == Append(among, Bundle(i))
           n == Len(all)
           from == Max({1, n - FeatureMax + 1})
<1>1. features \in Seq(B) /\ Bundle(i) \in B
  BY BundleIs DEF StoreKeeps
<1> HIDE DEF B, rest
<1>2. among \in Seq(B)
  <2>1. among \in Seq(B \cap rest)
    BY <1>1, AmongIsSeq
  <2>2. QED
    BY <2>1
<1> HIDE DEF among
<1>3. all \in Seq(B) /\ n \in Nat /\ n >= 1
  BY <1>1, <1>2
<1>4. FeatureMax \in Nat \ {0}
  BY SignalPlanAssumption DEF SignalPlanAssumption
<1> HIDE DEF all
<1>5. from = IF 1 >= n - FeatureMax + 1 THEN 1 ELSE n - FeatureMax + 1
  BY <1>3, <1>4, MaxOfTwo
<1> HIDE DEF n
<1>6. from \in 1..(n + 1) /\ n - from + 1 <= FeatureMax /\ n - from + 1 \in Nat
  BY <1>3, <1>4, <1>5
<1> HIDE DEF from
<1>7. Kept(i) = SubSeq(all, from, n)
  BY DEF Kept, from, n, all, among, rest
<1>8. SubSeq(all, from, n) \in Seq(B) /\ Len(SubSeq(all, from, n)) = n - from + 1
  BY <1>3, <1>6, SubSeqProperties DEF n
<1>9. QED
  BY <1>6, <1>7, <1>8 DEF B

LEMMA SignalIsGenerated ==
    ASSUME DataInv, SignalInv, NEW i \in DOMAIN FrameList, NEW w \in DOMAIN WorldList,
           NEW how \in {"live", "replay"}, GenerateSignal(i, w, how)
    PROVE  SignalInv'
<1>1. FrameList' = FrameList /\ WorldList' = WorldList /\ penny' = penny
  BY DEF GenerateSignal
<1>2. how = "replay" => Replayable(FrameList[i])
  BY DEF GenerateSignal
<1>3. CASE FrameList[i].rows < ContextRows
  <2>1. /\ signal' = Signal(i, w, how, "ERROR", 0, 0) /\ features' = features
    BY <1>3 DEF GenerateSignal
  <2>2. QED
    BY <1>2, <1>3, <2>1 DEF SignalInv, SignalIsMade, StoreKeeps, Signal, FrameOf, WorldOf
<1>4. CASE ~(FrameList[i].rows < ContextRows) /\ Disqualifiers(FrameList[i], WorldList[w], how) # {}
  <2>1. /\ signal' = Signal(i, w, how, "FILTERED_OUT", 0, 0) /\ features' = features
    BY <1>4 DEF GenerateSignal
  <2>2. Disqualifiers(FrameList[i], WorldList[w], how)' # {}
    BY <1>1, <1>4 DEF Disqualifiers, Rails
  <2>3. QED
    BY <1>2, <2>1, <2>2 DEF SignalInv, SignalIsMade, StoreKeeps, Signal, FrameOf, WorldOf
<1>5. CASE ~(FrameList[i].rows < ContextRows) /\ Disqualifiers(FrameList[i], WorldList[w], how) = {}
  <2>1. /\ signal' = Signal(i, w, how, Label(Bundle(i).of, WorldList[w], how), Bundle(i).of, clock - Bundle(i).made)
        /\ features' = Kept(i)
    BY <1>5 DEF GenerateSignal
  <2>2. Disqualifiers(FrameList[i], WorldList[w], how)' = {}
    BY <1>1, <1>5 DEF Disqualifiers, Rails
  <2>3. /\ signal'.frame = i /\ signal'.world = w /\ signal'.how = how /\ signal'.of = Bundle(i).of
        /\ signal'.label = Label(Bundle(i).of, WorldList[w], how)
        /\ signal'.age = clock - Bundle(i).made
    BY <2>1 DEF Signal
  <2>4. /\ Bundle(i).of \in DOMAIN FrameList /\ FeatureKey(Bundle(i).of) = FeatureKey(i)
        /\ clock - Bundle(i).made <= FeatureTTL
    BY BundleIs DEF SignalInv
  <2>5. StoreKeeps'
    BY <2>1, KeptKeeps DEF SignalInv, StoreKeeps
  <2>6. SignalIsMade'
    BY <1>2, <1>5, <2>2, <2>3, <2>4 DEF SignalIsMade, FrameOf, WorldOf
  <2>7. QED
    BY <2>5, <2>6 DEF SignalInv
<1>6. QED
  BY <1>3, <1>4, <1>5

LEMMA SignalRests ==
    ASSUME SignalInv, features' = features, penny' = penny, signal' = signal
    PROVE  SignalInv'
  BY DEF SignalInv, StoreKeeps, SignalIsMade, FrameOf, WorldOf, Disqualifiers, Rails

LEMMA SignalSteps ==
    ASSUME DataInv, SignalInv, [SignalNext]_signalVars
    PROVE  SignalInv'
<1>1. CASE UNCHANGED signalVars
  BY <1>1, SignalRests DEF signalVars
<1>2. CASE \E i \in DOMAIN FrameList, w \in DOMAIN WorldList, how \in {"live", "replay"} :
              GenerateSignal(i, w, how)
  BY <1>2, SignalIsGenerated
<1>3. CASE GenerateTradePlan
  BY <1>3, SignalRests DEF GenerateTradePlan
<1>4. CASE NextTicker
  BY <1>4 DEF NextTicker, SignalInv, StoreKeeps
<1>5. QED
  BY <1>1, <1>2, <1>3, <1>4 DEF SignalNext

LEMMA SignalBegins ==
    ASSUME NEW pennies, SignalInit(pennies)
    PROVE  SignalInv
<1>1. features = <<>> /\ signal = NoSignal
  BY DEF SignalInit
<1>2. <<>> \in Seq([of : DOMAIN FrameList, made : Times]) /\ Len(<<>>) = 0
  BY EmptySeq
<1>3. QED
  BY <1>1, <1>2, SignalPlanAssumption DEF SignalInv, StoreKeeps, SignalPlanAssumption

---------------------------------------------------------------------------
(* What a signal rests on.                                                 *)

LEMMA ScoredIsMade ==
    ASSUME SignalInv, Scored
    PROVE  /\ signal.frame \in DOMAIN FrameList /\ signal.of \in DOMAIN FrameList
           /\ WorldOf(signal) \in World
           /\ FeatureKey(signal.of) = FeatureKey(signal.frame) /\ signal.age <= FeatureTTL
           /\ ~(FrameOf(signal).rows < ContextRows)
           /\ Disqualifiers(FrameOf(signal), WorldOf(signal), signal.how) = {}
           /\ signal.label = Label(signal.of, WorldOf(signal), signal.how)
<1>1. signal # NoSignal
  BY DEF Scored, NoSignal, Signal
<1>2. signal.of # 0
  BY DEF Scored
<1>3. QED
  BY <1>1, <1>2, FramesAre DEF SignalInv, SignalIsMade, WorldOf

LEMMA OverIsNat ==
    ASSUME NEW w, NEW how
    PROVE  Over(w, how) \in Nat
<1> DEFINE e == Effective(w, how)
<1>1. \A d \in Dimensions : e[d] \in Nat /\ e[d] <= e[d]
  BY EffectiveIs
<1>2. Over(w, how) = SumFunctionOnSet(e, Dimensions)
  BY DEF Over, Total
<1> HIDE DEF e
<1>3. Dimensions \in SUBSET Dimensions
  OBVIOUS
<1>4. QED
  BY <1>1, <1>2, <1>3, DimensionsAreFinite, SumGrows

\* Nothing of the world is in the verdict on a bar of the past.
LEMMA StandsAlone ==
    ASSUME NEW g, NEW w, NEW v
    PROVE  /\ Over(w, "replay") = Over(v, "replay")
           /\ Adjusted(g, w, "replay") = Adjusted(g, v, "replay")
           /\ Label(g, w, "replay") = Label(g, v, "replay")
<1> DEFINE e == Without(Weights("NEUTRAL"), Live)
           p == [d \in Dimensions |-> e[d] * Score(g, w, "replay")[d]]
           q == [d \in Dimensions |-> e[d] * Score(g, v, "replay")[d]]
<1>1. Effective(w, "replay") = e /\ Effective(v, "replay") = e
  BY EffectiveIs
<1>2. Over(w, "replay") = Over(v, "replay")
  BY <1>1 DEF Over
<1>3. \A d \in Dimensions : Score(g, w, "replay")[d] = Score(g, v, "replay")[d] \/ d = "fundamental"
  BY DEF Score, RegimeFor, Dimensions
<1>4. e["fundamental"] = 0
  BY DEF Without, Live, Dimensions
<1>5. Score(g, w, "replay")["fundamental"] \in Int /\ Score(g, v, "replay")["fundamental"] \in Int
  BY FundamentalIs DEF Score
<1>6. Summed(g, w, "replay") = SumFunctionOnSet(p, Dimensions) /\ Summed(g, v, "replay") = SumFunctionOnSet(q, Dimensions)
  BY <1>1 DEF Summed
<1> HIDE DEF e
<1>7. \A d \in Dimensions : p[d] = q[d]
  BY <1>3, <1>4, <1>5
<1> HIDE DEF p, q
<1>8. Summed(g, w, "replay") = Summed(g, v, "replay")
  BY <1>6, <1>7, DimensionsAreFinite, SumOfSame
<1>9. RegimeFor(w, "replay") = RegimeFor(v, "replay")
  BY DEF RegimeFor
<1>10. Adjusted(g, w, "replay") = Adjusted(g, v, "replay")
  BY <1>8, <1>9 DEF Adjusted
<1>11. QED
  BY <1>2, <1>10 DEF Label

LEMMA ReplaysAreBlind ==
    ASSUME SignalInv
    PROVE  ReplayIsBlind
<1> SUFFICES ASSUME signal.how = "replay", NEW w \in DOMAIN WorldList
             PROVE  /\ Disqualifiers(FrameList[signal.frame], WorldList[w], "replay") = {} <=> signal.label # "FILTERED_OUT"
                    /\ Scored => Standing(w) = Standing(signal.world)
  BY DEF ReplayIsBlind
<1>1. signal # NoSignal
  BY DEF NoSignal, Signal
<1>2. SignalIsMade
  BY <1>1 DEF SignalInv
<1>3. Disqualifiers(FrameOf(signal), WorldList[w], "replay") = Disqualifiers(FrameOf(signal), WorldOf(signal), "replay")
  BY DEF Disqualifiers
<1>4. ~(FrameOf(signal).rows < ContextRows)
  <2>1. FrameOf(signal).rows \in 200..252
    BY <1>2 DEF SignalIsMade, Replayable
  <2>2. QED
    BY <2>1 DEF ContextRows
<1>5. CASE Scored
  <2>1. signal.label # "FILTERED_OUT"
    BY <1>5, ScoredIsMade, OverIsNat, LabelIs
  <2>2. Standing(w) = Standing(signal.world)
    BY StandsAlone DEF Standing
  <2>3. QED
    BY <1>3, <1>5, <2>1, <2>2, ScoredIsMade DEF FrameOf
<1>6. CASE ~Scored
  <2>1. signal.of = 0
    BY <1>6 DEF Scored
  <2>2. signal.label = "FILTERED_OUT" /\ Disqualifiers(FrameOf(signal), WorldOf(signal), "replay") # {}
    BY <1>2, <1>4, <2>1, FramesAre DEF SignalIsMade
  <2>3. QED
    BY <1>3, <1>6, <2>2 DEF FrameOf
<1>7. QED
  BY <1>5, <1>6

LEMMA KeysAgree ==
    ASSUME NEW i, NEW j, FeatureKey(i) = FeatureKey(j)
    PROVE  /\ FrameList[i].last = FrameList[j].last /\ FrameList[i].rows = FrameList[j].rows
           /\ FrameList[i].close = FrameList[j].close
  BY DEF FeatureKey

LEMMA FeaturesRest ==
    ASSUME SignalInv
    PROVE  FeaturesAreCurrent
<1>1. Len(features) <= FeatureMax
  BY DEF SignalInv, StoreKeeps
<1>2. QED
  BY <1>1, ScoredIsMade, KeysAgree DEF FeaturesAreCurrent

LEMMA CompositesAreMeans ==
    ASSUME SignalInv
    PROVE  CompositeIsAMean
<1> SUFFICES ASSUME Scored PROVE CompositeIsAMean
  BY DEF CompositeIsAMean
<1> DEFINE w     == WorldOf(signal)
           score == Score(signal.of, w, signal.how)
           heavy == {d \in Dimensions : Effective(w, signal.how)[d] > 0}
           weighs == {score[d] : d \in heavy}
           sum   == Summed(signal.of, w, signal.how)
           over  == Over(w, signal.how)
<1>1. FrameList[signal.of].rows >= Max({TrendRows, MomentumRows, VolumeRows, VolatilityRows})
  <2>1. FrameList[signal.of] \in SignalFrame /\ FrameList[signal.of].rows = FrameOf(signal).rows
    BY ScoredIsMade, KeysAgree, FramesAre DEF FrameOf
  <2>2. FrameList[signal.of].rows \in Nat
    BY <2>1 DEF SignalFrame
  <2>3. ~(FrameList[signal.of].rows < 30)
    BY <2>1, ScoredIsMade DEF ContextRows
  <2>4. {TrendRows, MomentumRows, VolumeRows, VolatilityRows} \in SUBSET (0..30)
        /\ {TrendRows, MomentumRows, VolumeRows, VolatilityRows} # {}
    BY DEF TrendRows, MomentumRows, VolumeRows, VolatilityRows
  <2>5. Max({TrendRows, MomentumRows, VolumeRows, VolatilityRows}) \in 0..30
    <3>1. 30 \in Nat
      OBVIOUS
    <3>2. QED
      BY <2>4, <3>1, MaxIsGreatest
  <2>6. QED
    BY <2>2, <2>3, <2>5
<1>2. w \in World
  BY ScoredIsMade
<1>3. \A d \in Dimensions : score[d] \in Int
  BY <1>2, ScoresAre
<1>4. heavy \in SUBSET Dimensions /\ IsFiniteSet(heavy)
  BY DimensionsAreFinite, FS_Subset
<1>5. \A d \in Dimensions : Effective(w, signal.how)[d] > 0 => d \in heavy
  OBVIOUS
<1> HIDE DEF score, heavy
<1>6. weighs \in SUBSET Int /\ IsFiniteSet(weighs)
  BY <1>3, <1>4, ImageIsFinite
<1>7. \A d \in Dimensions : Effective(w, signal.how)[d] > 0 => score[d] \in weighs
  BY <1>5
<1>8. ASSUME weighs # {}
      PROVE  sum >= Min(weighs) * over /\ sum <= Max(weighs) * over
  <2> DEFINE lo == Min(weighs)
             hi == Max(weighs)
  <2> HIDE DEF weighs
  <2>1. lo \in Int /\ hi \in Int /\ \A y \in weighs : y \in Int /\ lo <= y /\ hi >= y
    BY <1>6, <1>8, BoundsOfFinite
  <2> HIDE DEF lo, hi
  <2>2. \A d \in Dimensions : Effective(w, signal.how)[d] > 0 => lo <= score[d] /\ score[d] <= hi
    BY <1>3, <1>7, <2>1
  <2>3. /\ sum \in Int /\ over \in Nat
        /\ lo * over <= sum /\ sum <= hi * over
    BY <1>2, <2>1, <2>2, CompositeBetween DEF score
  <2>4. lo * over \in Int /\ hi * over \in Int
    BY <2>1, <2>3
  <2>5. QED
    BY <2>3, <2>4 DEF lo, hi
<1>9. QED
  BY <1>1, <1>8 DEF CompositeIsAMean, score, heavy, WorldOf

LEMMA BearsHoldBack ==
    ASSUME SignalInv
    PROVE  RegimeHoldsBack
<1> SUFFICES ASSUME Scored, signal.how = "live" PROVE RegimeHoldsBack
  BY DEF RegimeHoldsBack
<1> DEFINE w == WorldOf(signal)
<1>1. Detect(w.market).name = "BULL_RISK_ON" => w.market.vix # {}
  BY DetectIs
<1>2. ASSUME Detect(w.market).name = "BEAR_RISK_OFF", Effective(w, "live")["macro"] > 0,
             Score(signal.of, w, "live").sentiment <= 10000, signal.label = "STRONG_BUY"
      PROVE  FALSE
  <2>1. w \in World /\ Label(signal.of, w, "live") = "STRONG_BUY"
    BY <1>2, ScoredIsMade
  <2>2. /\ Summed(signal.of, w, "live") \in Int /\ Over(w, "live") \in Nat
        /\ Summed(signal.of, w, "live") < 10000 * Over(w, "live")
    BY <1>2, <2>1, BearKeepsUnder
  <2>3. Adjusted(signal.of, w, "live") >= 800000 * Over(w, "live")
    BY <2>1, <2>2, LabelIs
  <2>4. RegimeFor(w, "live").name = "BEAR_RISK_OFF"
    BY <1>2 DEF RegimeFor
  <2>5. Adjusted(signal.of, w, "live") = Summed(signal.of, w, "live") * 80
    BY <2>4 DEF Adjusted, SizeMultiplier
  <2>6. QED
    BY <2>2, <2>3, <2>5
<1>3. QED
  BY <1>1, <1>2 DEF RegimeHoldsBack, WorldOf

LEMMA SignalsHold ==
    ASSUME SignalInv
    PROVE  SignalsAreHonest
  BY ReplaysAreBlind, FeaturesRest, CompositesAreMeans, BearsHoldBack DEF SignalsAreHonest

LEMMA SignalMoves == [Next]_vars => [SignalNext]_signalVars
  BY DEF Next, vars, DailyMode, IntradayMode, BacktestMode, SignalsMode, DayMode, ScreenMode, Around

THEOREM SignalInvariant == Spec => []SignalInv
<1>1. Init => SignalInv
  <2>1. Init => SignalInit(IF mode = "signals" THEN BOOLEAN ELSE {FALSE})
    BY DEF Init
  <2>2. QED
    BY <2>1, SignalBegins
<1>2. ProcessInv /\ SignalInv /\ [Next]_vars => SignalInv'
  BY SignalMoves, SignalSteps DEF ProcessInv
<1>3. QED
  BY <1>1, <1>2, ProcessInvariant, PTL DEF Spec

\* For every sequence of frames, worlds and weights and every state of the feature store:
\* the verdict on a bar of the past is the same whatever the sources say today, a signal
\* rests on features of its own bar, its composite lies among the scores that have a
\* weight, and a market that runs from risk makes nothing a strong buy.
THEOREM SignalsAreHonestHolds == Spec => []SignalsAreHonest
  BY SignalInvariant, SignalsHold, PTL

---------------------------------------------------------------------------
(* Plans.                                                                  *)

LEMMA FewAreFinite ==
    ASSUME NEW a, NEW b, NEW c, NEW d, NEW e
    PROVE  IsFiniteSet({a, b, c, d, e})
<1>1. IsFiniteSet({}) /\ \A S, x : IsFiniteSet(S) => IsFiniteSet(S \cup {x})
  BY FS_EmptySet, FS_AddElement
<1>2. IsFiniteSet({} \cup {a} \cup {b} \cup {c} \cup {d} \cup {e})
  BY <1>1
<1>3. {a, b, c, d, e} = {} \cup {a} \cup {b} \cup {c} \cup {d} \cup {e}
  OBVIOUS
<1>4. QED
  BY <1>2, <1>3

LEMMA RoundedIsInt ==
    ASSUME NEW n \in Int, NEW unit \in Nat, unit > 0
    PROVE  Rounded(n, unit) \in Int /\ (n >= 0 => Rounded(n, unit) >= 0)
<1> DEFINE m == 2 * n + unit
           d == 2 * unit
<1>1. m \in Int /\ d \in Nat /\ d > 0 /\ (n >= 0 => m >= 0)
  OBVIOUS
<1>2. Rounded(n, unit) = m \div d
  BY DEF Rounded
<1> HIDE DEF m, d
<1>3. QED
  BY <1>1, <1>2

LEMMA LevelsAre ==
    ASSUME NEW f \in SignalFrame
    PROVE  Levels(f) \in SUBSET Int /\ IsFiniteSet(Levels(f))
<1> DEFINE pp == f.prevHigh + f.prevLow + f.prevClose
           range == f.prevHigh - f.prevLow
           a == pp
           b == 2 * pp - 3 * f.prevLow
           c == pp + 3 * range
           d == 3 * f.prevHigh + 2 * (pp - 3 * f.prevLow)
           e == 2 * pp - 3 * f.prevHigh
           g == pp - 3 * range
           h == 3 * f.prevLow - 2 * (3 * f.prevHigh - pp)
           thirds == {a, b, c, d, e, g, h}
           ratios == {786, 618, 500, 382, 236}
           fib == [r \in ratios |-> 1000 * f.high - r * (f.high - f.low)]
           fibs == IF f.high > f.low
                   THEN {1000 * f.high - r * (f.high - f.low) : r \in ratios} ELSE {}
           thousandfold == [x \in Int |-> 1000 * x]
           threefold == [x \in Int |-> 3 * x]
<1>1. /\ f.prevHigh \in Nat /\ f.prevLow \in Nat /\ f.prevClose \in Nat
      /\ f.high \in Nat /\ f.low \in Nat
  BY DEF SignalFrame
<1>2. a \in Int /\ b \in Int /\ c \in Int /\ d \in Int /\ e \in Int /\ g \in Int /\ h \in Int
  BY <1>1
<1>3. \A r \in ratios : fib[r] \in Int
  BY <1>1
<1>4. IsFiniteSet(ratios)
  <2>1. ratios \in SUBSET (0..786)
    OBVIOUS
  <2>2. 0 \in Int /\ 786 \in Int
    OBVIOUS
  <2>3. IsFiniteSet(0..786)
    BY <2>2, FS_Interval
  <2> HIDE DEF ratios
  <2>4. QED
    BY <2>1, <2>3, FS_Subset
<1>5. Levels(f) = {1000 * x : x \in thirds} \cup {3 * x : x \in fibs}
  BY Zenon DEF Levels
<1>12. fibs = IF f.high > f.low THEN {fib[r] : r \in ratios} ELSE {}
  OBVIOUS
<1> HIDE DEF a, b, c, d, e, g, h, ratios, fib, fibs
<1>6. thirds \in SUBSET Int /\ IsFiniteSet(thirds)
  <2>1. \A S, x : IsFiniteSet(S) => IsFiniteSet(S \cup {x})
    BY FS_AddElement
  <2>2. thirds = {a, b, c, d, e} \cup {g} \cup {h} /\ IsFiniteSet({a, b, c, d, e})
    BY FewAreFinite
  <2>3. thirds \in SUBSET Int
    BY <1>2
  <2> HIDE DEF thirds
  <2>4. QED
    BY <2>1, <2>2, <2>3
<1>7. fibs \in SUBSET Int /\ IsFiniteSet(fibs)
  <2>1. IsFiniteSet({fib[r] : r \in ratios}) /\ IsFiniteSet({})
    BY <1>4, ImageIsFinite, FS_EmptySet
  <2>2. QED
    BY <1>3, <1>12, <2>1
<1> HIDE DEF thirds
<1>8. /\ {1000 * x : x \in thirds} = {thousandfold[x] : x \in thirds}
      /\ {3 * x : x \in fibs} = {threefold[x] : x \in fibs}
      /\ {1000 * x : x \in thirds} \in SUBSET Int /\ {3 * x : x \in fibs} \in SUBSET Int
  BY <1>6, <1>7
<1> HIDE DEF thousandfold, threefold
<1>9. IsFiniteSet({thousandfold[x] : x \in thirds}) /\ IsFiniteSet({threefold[x] : x \in fibs})
  BY <1>6, <1>7, ImageIsFinite
<1>10. IsFiniteSet({1000 * x : x \in thirds} \cup {3 * x : x \in fibs})
  BY <1>8, <1>9, FS_Union
<1>11. QED
  BY <1>5, <1>8, <1>10

LEMMA ResistanceIsInt ==
    ASSUME NEW f \in SignalFrame
    PROVE  NearestResistance(f) \subseteq Int
<1> DEFINE over == {x \in Levels(f) : x > 3000 * f.close}
<1>1. over \in SUBSET Int /\ IsFiniteSet(over)
  BY LevelsAre, FS_Subset
<1>2. NearestResistance(f) = IF f.rows < 2 \/ over = {} THEN {} ELSE {Rounded(Min(over), 30)}
  BY DEF NearestResistance
<1> HIDE DEF over
<1>3. over # {} => Rounded(Min(over), 30) \in Int
  <2>1. over # {} => Min(over) \in Int
    BY <1>1, BoundsOfFinite
  <2>2. 30 \in Nat /\ 30 > 0
    OBVIOUS
  <2>3. QED
    BY <2>1, <2>2, RoundedIsInt
<1>4. QED
  BY <1>2, <1>3

LEMMA PricesOfPlan ==
    ASSUME NEW f \in SignalFrame, NEW g \in SignalFrame
    PROVE  EntryPrice(f) \in Nat /\ Stop(f, g) \in Int
<1>1. f.close \in Nat /\ g.atr \in SUBSET Nat
  BY DEF SignalFrame
<1>2. EntryPrice(f) \in Nat
  <2>1. f.close * 998 \in Int /\ f.close * 998 >= 0 /\ 1000 \in Nat /\ 1000 > 0
    BY <1>1
  <2>2. QED
    BY <2>1, RoundedIsInt DEF EntryPrice, EntryAt
<1> DEFINE atr == IF NonZero(Atr(g)) = {} THEN 2 * f.close ELSE 100 * OrZero(Atr(g))
<1>3. atr \in Int
  <2>1. Atr(g) \subseteq Nat
    BY <1>1 DEF Atr
  <2>2. OrZero(Atr(g)) \in Nat
    BY <2>1 DEF OrZero, The
  <2>3. QED
    BY <1>1, <2>2
<1>4. Stop(f, g) = Rounded(100 * EntryPrice(f) - 2 * atr, 100)
  BY DEF Stop
<1> HIDE DEF atr
<1>5. 100 * EntryPrice(f) - 2 * atr \in Int /\ 100 \in Nat /\ 100 > 0
  BY <1>2, <1>3
<1>6. QED
  BY <1>2, <1>4, <1>5, RoundedIsInt

\* What a quotient times its divisor is at most.
LEMMA Afforded ==
    ASSUME NEW a \in Nat, NEW p \in Nat, NEW r \in Nat, r > 0, NEW n \in Nat,
           n <= ((a * p) \div 100) \div r
    PROVE  100 * n * r <= a * p
<1> DEFINE m == a * p
           q == m \div 100
           k == q \div r
<1>1. m \in Nat
  OBVIOUS
<1> HIDE DEF m
<1>2. q \in Nat /\ 100 * q <= m
  BY <1>1
<1> HIDE DEF q
<1>3. k \in Nat /\ r * k <= q
  BY <1>2
<1>4. n <= k
  BY DEF k, q, m
<1> HIDE DEF k
<1>5. r * n <= r * k
  BY <1>3, <1>4, ProductGrows
<1>6. r * n \in Nat /\ r * k \in Nat /\ 100 * n * r = 100 * (r * n)
  BY <1>3
<1>7. QED
  BY <1>2, <1>3, <1>5, <1>6 DEF m

\* A price under a resistance that is under a target is at most the target.
LEMMA TargetUnder ==
    ASSUME NEW r \in Int, NEW t \in Nat, r < 100 * t
    PROVE  /\ Rounded(995 * r, 100000) \in Int
           /\ Rounded(995 * r, 100000) <= t
           /\ t >= 100 => Rounded(995 * r, 100000) < t
  BY DEF Rounded

LEMMA TargetsRise ==
    ASSUME NEW f \in SignalFrame, NEW g \in SignalFrame, EntryPrice(f) - Stop(f, g) > 0
    PROVE  LET t == Targets(f, g)
           IN  /\ EntryPrice(f) < t[2] /\ t[2] < t[3] /\ t[1] <= t[2]
               /\ t[2] >= 100 => t[1] < t[2]
<1> DEFINE e == EntryPrice(f)
           risk == e - Stop(f, g)
           raw == [n \in 1..3 |-> e + (Ratios[n] * risk) \div 2]
           near == {r \in NearestResistance(f) : 100 * e < r /\ r < 100 * raw[2]}
           first == Rounded(995 * OrZero(near), 100000)
           t == Targets(f, g)
<1>1. e \in Nat /\ risk \in Nat /\ risk > 0
  BY PricesOfPlan
<1>2. t = IF near = {} THEN raw ELSE [raw EXCEPT ![1] = first]
  BY DEF Targets
<1> HIDE DEF risk, e
<1>3. raw[1] = e + (3 * risk) \div 2 /\ raw[2] = e + (5 * risk) \div 2 /\ raw[3] = e + (8 * risk) \div 2
  BY DEF Ratios
<1>4. raw \in [1..3 -> Int] /\ e < raw[2] /\ raw[2] < raw[3] /\ raw[1] < raw[2]
  <2>1. raw[1] \in Int /\ raw[2] \in Int /\ raw[3] \in Int
    BY <1>1, <1>3
  <2>2. e < raw[2] /\ raw[2] < raw[3] /\ raw[1] < raw[2]
    BY <1>1, <1>3
  <2>3. DOMAIN raw = 1..3 /\ \A n \in 1..3 : n = 1 \/ n = 2 \/ n = 3
    OBVIOUS
  <2>4. raw = [n \in 1..3 |-> raw[n]]
    OBVIOUS
  <2> HIDE DEF raw
  <2>5. QED
    BY <2>1, <2>2, <2>3, <2>4
<1> HIDE DEF raw
<1>5. near # {} => /\ first \in Int /\ first <= raw[2] /\ (raw[2] >= 100 => first < raw[2])
  <2> SUFFICES ASSUME near # {}
               PROVE  /\ first \in Int /\ first <= raw[2] /\ (raw[2] >= 100 => first < raw[2])
    OBVIOUS
  <2>1. OrZero(near) \in near
    BY DEF OrZero, The
  <2>2. OrZero(near) \in Int /\ OrZero(near) < 100 * raw[2]
    BY <2>1, ResistanceIsInt
  <2> HIDE DEF near
  <2>3. raw[2] \in Nat
    BY <1>1, <1>4
  <2>4. QED
    BY <2>2, <2>3, TargetUnder
<1> HIDE DEF near, first
<1>6. /\ t[2] = raw[2] /\ t[3] = raw[3]
      /\ t[1] = IF near = {} THEN raw[1] ELSE first
  BY <1>2, <1>4
<1> HIDE DEF t
<1>7. e < t[2] /\ t[2] < t[3] /\ t[1] <= t[2] /\ (t[2] >= 100 => t[1] < t[2])
  BY <1>1, <1>4, <1>5, <1>6
<1>8. QED
  BY <1>7 DEF t, e

LEMMA SharesFit ==
    ASSUME NEW f \in SignalFrame, NEW g \in SignalFrame, EntryPrice(f) > 0, Shares(f, g) >= 1
    PROVE  LET risk == EntryPrice(f) - Stop(f, g)
           IN  /\ risk > 0
               /\ 100 * Shares(f, g) * risk <= AccountSize * RiskPct
               /\ 100 * Shares(f, g) * EntryPrice(f) <= AccountSize * PositionPct
<1> DEFINE e == EntryPrice(f)
           risk == e - Stop(f, g)
           byRisk == ((AccountSize * RiskPct) \div 100) \div risk
           bySize == ((AccountSize * PositionPct) \div 100) \div e
           n == Shares(f, g)
<1>1. e \in Nat /\ risk \in Int /\ e > 0
  BY PricesOfPlan
<1>2. AccountSize \in Nat /\ RiskPct \in Nat /\ PositionPct \in Nat
  BY SignalPlanAssumption DEF SignalPlanAssumption
<1>3. n = IF risk <= 0 THEN 0 ELSE Min({byRisk, bySize})
  BY DEF Shares
<1>4. n >= 1
  OBVIOUS
<1> HIDE DEF n, e, risk
<1>5. risk > 0
  BY <1>1, <1>3, <1>4
<1>6. byRisk \in Int /\ bySize \in Int
  <2>1. AccountSize * RiskPct \in Nat /\ AccountSize * PositionPct \in Nat
    BY <1>2
  <2>2. (AccountSize * RiskPct) \div 100 \in Nat /\ (AccountSize * PositionPct) \div 100 \in Nat
    BY <2>1
  <2>3. QED
    BY <1>1, <1>5, <2>2
<1> HIDE DEF byRisk, bySize
<1>7. n \in Nat /\ n <= byRisk /\ n <= bySize
  <2>1. ~(risk <= 0)
    BY <1>1, <1>5
  <2>2. n = IF byRisk <= bySize THEN byRisk ELSE bySize
    BY <1>3, <1>6, <2>1, MinOfTwo
  <2>3. QED
    BY <1>4, <1>6, <2>2
<1>8. 100 * n * risk <= AccountSize * RiskPct
  BY <1>1, <1>2, <1>5, <1>7, Afforded DEF byRisk
<1>9. 100 * n * e <= AccountSize * PositionPct
  BY <1>1, <1>2, <1>7, Afforded DEF bySize
<1>10. QED
  BY <1>5, <1>8, <1>9 DEF n, e, risk

LEMMA LimitIsCapped ==
    ASSUME NEW market \in Nat, NEW entry \in Nat, NEW slippage \in Nat
    PROVE  SmartEntry(market, entry, slippage) <= Ceiling(entry)
<1> DEFINE least == Min({OffsetFloor, OffsetCap})
           most == Max({OffsetFloor, OffsetCap})
           off == Clamp(slippage, least, most)
           across == Rounded(market * (10000 + off), 10000)
<1>1. OffsetFloor \in Nat /\ OffsetCap \in Nat
  BY SignalPlanAssumption DEF SignalPlanAssumption
<1>2. least \in Nat /\ most \in Nat
  BY <1>1, MinOfTwo, MaxOfTwo
<1> HIDE DEF least, most
<1>3. off \in Nat
  BY <1>2 DEF Clamp
<1>4. SmartEntry(market, entry, slippage) = Min({across, Ceiling(entry)})
  BY DEF SmartEntry, least, most
<1> HIDE DEF off
<1>5. across \in Int /\ Ceiling(entry) \in Int
  <2>1. market * (10000 + off) \in Int /\ entry * (10000 + OffsetCap) \in Int /\ 10000 \in Nat /\ 10000 > 0
    BY <1>1, <1>3
  <2>2. QED
    BY <2>1, RoundedIsInt DEF Ceiling
<1> HIDE DEF across
<1>6. QED
  BY <1>4, <1>5, MinOfTwo

LEMMA LongIsKnown ==
    ASSUME SignalInv, signal.how = "live", signal.label \in LongSignals
    PROVE  /\ Scored
           /\ \E c \in WorldOf(signal).fd.cap : c >= Rails.cap
<1>1. signal # NoSignal /\ signal.label \notin {"ERROR", "FILTERED_OUT"}
  BY DEF NoSignal, Signal, LongSignals
<1>2. Scored
  BY <1>1, FramesAre DEF SignalInv, SignalIsMade, Scored
<1> DEFINE fd == WorldOf(signal).fd
<1>3. CompanyReasons(fd, Rails) = {}
  <2>1. Disqualifiers(FrameOf(signal), WorldOf(signal), "live") = {}
    BY <1>2, ScoredIsMade
  <2>2. QED
    BY <2>1 DEF Disqualifiers
<1>4. fd.cap # {} /\ \A c \in fd.cap : ~(c < Rails.cap)
  <2>1. "UNKNOWN_MARKET_CAP" \notin CompanyReasons(fd, Rails) /\ "MICRO_CAP" \notin CompanyReasons(fd, Rails)
    BY <1>3
  <2>2. fd.cap # {}
    BY <2>1 DEF CompanyReasons
  <2>3. ~\E c \in fd.cap : c < Rails.cap
    BY <2>1 DEF CompanyReasons
  <2>4. QED
    BY <2>2, <2>3
<1>5. fd.cap \subseteq Int /\ Rails.cap \in Int
  <2>1. fd \in [Items -> SUBSET Int] /\ "cap" \in Items
    BY <1>2, ScoredIsMade DEF World, Items
  <2>2. Rails.cap \in Int
    BY DEF Rails
  <2>3. QED
    BY <2>1, <2>2
<1>6. QED
  BY <1>2, <1>4, <1>5

LEMMA PlanIsSound ==
    ASSUME SignalInv, GenerateTradePlan
    PROVE  PlansAreSound'
<1> DEFINE f == FrameList[signal.frame]
           g == FrameList[signal.of]
<1>1. signal.how = "live" /\ signal.label \in LongSignals /\ signal' = signal /\ penny' = penny
  BY DEF GenerateTradePlan
<1>2. EntryPrice(f) > 0 /\ Shares(f, g) >= 1
  BY DEF GenerateTradePlan
<1>3. PICK slippage \in {0, OffsetFloor + 1, OffsetCap + 1} :
        tradePlan' = [entry |-> EntryPrice(f), stop |-> Stop(f, g), targets |-> Targets(f, g),
                      shares |-> Shares(f, g),
                      limit |-> SmartEntry(f.close, EntryPrice(f), slippage)]
  BY DEF GenerateTradePlan
<1>4. Scored /\ \E c \in WorldOf(signal).fd.cap : c >= Rails.cap
  BY <1>1, LongIsKnown
<1>5. f \in SignalFrame /\ g \in SignalFrame
  BY <1>4, ScoredIsMade, FramesAre
<1>6. f.close \in Nat /\ slippage \in Nat /\ EntryPrice(f) \in Nat
  <2>1. OffsetFloor \in Nat /\ OffsetCap \in Nat
    BY SignalPlanAssumption DEF SignalPlanAssumption
  <2>2. f.close \in Nat
    BY <1>5 DEF SignalFrame
  <2>3. EntryPrice(f) \in Nat
    BY <1>5, PricesOfPlan
  <2>4. slippage \in Nat
    BY <2>1
  <2>5. QED
    BY <2>2, <2>3, <2>4
<1>7. /\ tradePlan'.entry = EntryPrice(f) /\ tradePlan'.stop = Stop(f, g)
      /\ tradePlan'.targets = Targets(f, g) /\ tradePlan'.shares = Shares(f, g)
      /\ tradePlan'.limit = SmartEntry(f.close, EntryPrice(f), slippage)
  BY <1>3
<1> HIDE DEF f, g
<1>8. /\ EntryPrice(f) - Stop(f, g) > 0
      /\ 100 * Shares(f, g) * (EntryPrice(f) - Stop(f, g)) <= AccountSize * RiskPct
      /\ 100 * Shares(f, g) * EntryPrice(f) <= AccountSize * PositionPct
  BY <1>2, <1>5, SharesFit
<1> DEFINE t == Targets(f, g)
<1>9. /\ EntryPrice(f) < t[2] /\ t[2] < t[3] /\ t[1] <= t[2]
      /\ t[2] >= 100 => t[1] < t[2]
  BY <1>5, <1>8, TargetsRise
<1>10. SmartEntry(f.close, EntryPrice(f), slippage) <= Ceiling(EntryPrice(f))
  BY <1>6, LimitIsCapped
<1>11. \E c \in (WorldList[signal.world].fd.cap)' : c >= Rails.cap'
  BY <1>1, <1>4 DEF WorldOf, Rails
<1>12. Ceiling(tradePlan.entry)' = Ceiling(EntryPrice(f))
  BY <1>7 DEF Ceiling
<1> HIDE DEF t
<1>13. QED
  BY <1>1, <1>7, <1>8, <1>9, <1>10, <1>11, <1>12 DEF PlansAreSound, t

LEMMA PlanSteps ==
    ASSUME SignalInv, PlansAreSound, [SignalNext]_signalVars
    PROVE  PlansAreSound'
<1>1. CASE UNCHANGED signalVars
  BY <1>1 DEF signalVars, PlansAreSound, Rails
<1>2. CASE \E i \in DOMAIN FrameList, w \in DOMAIN WorldList, how \in {"live", "replay"} :
              GenerateSignal(i, w, how)
  <2>1. signal = NoSignal /\ tradePlan' = tradePlan
    BY <1>2 DEF GenerateSignal
  <2>2. NoSignal.label \notin LongSignals
    BY DEF NoSignal, Signal, LongSignals
  <2>3. tradePlan = NoTradePlan
    BY <2>1, <2>2 DEF PlansAreSound
  <2>4. QED
    BY <2>1, <2>3 DEF PlansAreSound, NoTradePlan
<1>3. CASE GenerateTradePlan
  BY <1>3, PlanIsSound
<1>4. CASE NextTicker
  BY <1>4 DEF NextTicker, PlansAreSound, NoTradePlan
<1>5. QED
  BY <1>1, <1>2, <1>3, <1>4 DEF SignalNext

\* For every frame, world, account and cap: a plan buys only what a live signal says to
\* buy of a company whose size is known and above the rail, its size is within the risk
\* and the cap on a position at the planned entry, its targets rise, and the order's
\* limit is within the cap over the planned entry.
THEOREM PlansAreSoundHolds == Spec => []PlansAreSound
<1>1. Init => PlansAreSound
  <2>1. Init => tradePlan = NoTradePlan
    BY DEF Init, SignalInit
  <2>2. QED
    BY <2>1 DEF PlansAreSound
<1>2. SignalInv /\ PlansAreSound /\ [Next]_vars => PlansAreSound'
  BY SignalMoves, PlanSteps
<1>3. QED
  BY <1>1, <1>2, SignalInvariant, PTL DEF Spec

---------------------------------------------------------------------------
(* The entries of a day trade.                                             *)

LEMMA DayFacts ==
    /\ BarsAt \in Seq(SUBSET Prices) /\ Len(BarsAt) = Len(Slots) /\ Len(Slots) \in Nat
    /\ Rules \subseteq {"breakout", "sweep_reclaim", "precursor"}
    /\ MaxLookback \in Nat /\ AtrPeriod \in Nat /\ AtrPeriod > 0
    /\ SweepLookback \in Nat /\ SweepWindow \in Nat /\ SweepWindow > 0 /\ SweepBars \in Nat
    /\ CoilBars \in Nat /\ CoilBars > 0 /\ BaselineBars \in Nat
    /\ StopBuffer \in 0..10000
  BY IntradayBacktestAssumption DEF IntradayBacktestAssumption

LEMMA BarIs ==
    ASSUME NEW b \in Prices
    PROVE  /\ b.open \in Nat /\ b.high \in Nat /\ b.low \in Nat /\ b.close \in Nat
           /\ b.low <= b.open /\ b.open <= b.high /\ b.low <= b.close /\ b.close <= b.high
  BY DEF Prices

LEMMA ShownIs ==
    ASSUME NEW t \in Seq(Prices)
    PROVE  /\ Shown(t) \in SUBSET (1..Len(t)) /\ Session(t) \in SUBSET (1..Len(t))
           /\ IsFiniteSet(Shown(t)) /\ Cardinality(Session(t)) \in Nat
           /\ Cardinality(Session(t)) <= Len(t)
           /\ Cardinality(Shown(t)) \in Nat
           /\ \A k \in 1..Cardinality(Shown(t)) :
                 /\ Min(Shown(t)) \in Nat
                 /\ Min(Shown(t)) + k - 1 \in 1..Len(t)
                 /\ Min(Shown(t)) + k - 1 # Min(Shown(t)) => Min(Shown(t)) + k - 2 \in 1..Len(t)
<1> DEFINE n == Len(t)
           a == Maximum(1, n + 1 - MaxLookback)
<1>1. n \in Nat
  OBVIOUS
<1> HIDE DEF n
<1>2. a \in Nat /\ a >= 1
  BY <1>1, DayFacts DEF Maximum
<1>3. Shown(t) = a..n
  BY DEF Shown, n
<1> HIDE DEF a
<1>4. IsFiniteSet(1..n) /\ Cardinality(1..n) = n
  <2>1. 1 \in Int /\ n \in Int
    BY <1>1
  <2>2. IsFiniteSet(1..n) /\ Cardinality(1..n) = IF 1 > n THEN 0 ELSE n - 1 + 1
    BY <2>1, FS_Interval
  <2>3. QED
    BY <1>1, <2>2
<1>5. Shown(t) \in SUBSET (1..n) /\ Session(t) \in SUBSET (1..n)
  BY <1>1, <1>2, <1>3 DEF Session
<1>6. IsFiniteSet(Shown(t)) /\ Cardinality(Session(t)) \in Nat /\ Cardinality(Session(t)) <= n
  BY <1>4, <1>5, FS_Subset, FS_CardinalityType
<1>7. Cardinality(Shown(t)) = IF a > n THEN 0 ELSE n - a + 1
  <2>1. a \in Int /\ n \in Int
    BY <1>1, <1>2
  <2>2. QED
    BY <1>3, <2>1, FS_Interval
<1>8. a <= n => Min(Shown(t)) = a
  <2> SUFFICES ASSUME a <= n PROVE Min(Shown(t)) = a
    OBVIOUS
  <2> DEFINE S == a..n
  <2>1. a \in S
    BY <1>1, <1>2
  <2>5. \A x \in S : a <= x /\ x \in Nat
    BY <1>1, <1>2
  <2> HIDE DEF S
  <2>6. S \in SUBSET Nat /\ S # {}
    BY <2>1, <2>5
  <2>2. Min(S) \in S /\ Min(S) <= a
    BY <2>1, <2>6, MinIsLeast
  <2>7. a <= Min(S) /\ Min(S) \in Nat
    BY <2>2, <2>5
  <2>3. Min(S) = a
    BY <1>2, <2>2, <2>7
  <2>4. QED
    BY <1>3, <2>3 DEF S
<1>9. ASSUME NEW k \in 1..Cardinality(Shown(t))
      PROVE  /\ Min(Shown(t)) \in Nat
             /\ Min(Shown(t)) + k - 1 \in 1..n
             /\ Min(Shown(t)) + k - 1 # Min(Shown(t)) => Min(Shown(t)) + k - 2 \in 1..n
  <2>1. a <= n
    BY <1>1, <1>2, <1>7
  <2>2. k \in 1..(n - a + 1) /\ Min(Shown(t)) = a
    BY <1>7, <1>8, <2>1
  <2>3. QED
    BY <1>1, <1>2, <2>1, <2>2
<1>10. Cardinality(Shown(t)) \in Nat
  BY <1>1, <1>2, <1>7
<1>11. QED
  BY <1>5, <1>6, <1>9, <1>10 DEF n

\* The lowest of some bars of the tape.
LEMMA LowestIs ==
    ASSUME NEW t \in Seq(Prices), NEW S \in SUBSET (1..Len(t)), S # {}
    PROVE  Lowest(t, S) \in Nat
<1> DEFINE lows == {t[j].low : j \in S}
<1>1. \A j \in S : t[j] \in Prices
  BY ElementOfSeq
<1>2. \A j \in S : t[j].low \in Nat
  BY <1>1, BarIs
<1>3. lows \in SUBSET Nat /\ lows # {}
  BY <1>2
<1>4. Lowest(t, S) = Min(lows)
  BY DEF Lowest
<1> HIDE DEF lows
<1>5. QED
  BY <1>3, <1>4, MinIsLeast

LEMMA AtrIs ==
    ASSUME NEW t \in Seq(Prices)
    PROVE  \A a \in IntradayAtr(t) : a \in Nat /\ a > 0
<1> DEFINE first == Min(Shown(t))
           N == Cardinality(Shown(t))
           ranges == [k \in 1..N |-> TrueRange(t, first + k - 1, first)]
           A == AtrPeriod
           L == Len(ranges)
           Wilder(g) == g = [k \in 1..L |->
                               IF k = 1 THEN ranges[1] ELSE ((A - 1) * g[k - 1] + ranges[k]) \div A]
           turn == [z \in (1..L) \X Nat |-> ((A - 1) * z[2] + ranges[z[1]]) \div A]
<1>1. A \in Nat /\ A > 0
  BY DayFacts
<1>2. N \in Nat
  BY ShownIs
<1>3. \A k \in 1..N : ranges[k] \in Nat
  <2> TAKE k \in 1..N
  <2> DEFINE j == first + k - 1
  <2>1. j \in 1..Len(t) /\ (j # first => j - 1 \in 1..Len(t))
    <3>1. first \in Nat /\ first + k - 1 \in 1..Len(t) /\ (first + k - 1 # first => first + k - 2 \in 1..Len(t))
      BY ShownIs
    <3>2. first + k - 2 \in 1..Len(t) => first + k - 2 = (first + k - 1) - 1
      BY <1>2, <3>1
    <3>3. QED
      BY <3>1, <3>2
  <2>2. ranges[k] = TrueRange(t, j, first)
    OBVIOUS
  <2> HIDE DEF j
  <2>3. t[j] \in Prices /\ (j # first => t[j - 1] \in Prices)
    BY <2>1, ElementOfSeq
  <2>4. TrueRange(t, j, first) \in Nat
    <3>1. CASE j = first
      <4>1. TrueRange(t, j, first) = t[j].high - t[j].low
        BY <3>1 DEF TrueRange
      <4>2. QED
        BY <2>3, <4>1, BarIs
    <3>2. CASE j # first
      <4> DEFINE c == t[j - 1].close
                 h == t[j].high
                 l == t[j].low
      <4>1. c \in Nat /\ h \in Nat /\ l \in Nat /\ l <= h
        BY <2>3, <3>2, BarIs
      <4>2. TrueRange(t, j, first) = Maximum(h, c) - Minimum(l, c)
        BY <3>2 DEF TrueRange
      <4> HIDE DEF c, h, l
      <4>3. QED
        BY <4>1, <4>2 DEF Maximum, Minimum
    <3>3. QED
      BY <3>1, <3>2
  <2>5. QED
    BY <2>2, <2>4
<1>4. L = N
  BY <1>2, <1>3
<1>5. IntradayAtr(t) = LET last == (CHOOSE g : Wilder(g))[L]
                       IN  IF L < A + 1 \/ last = 0 THEN {} ELSE {last}
  BY DEF IntradayAtr
<1> HIDE DEF ranges
<1>6. ASSUME NEW k \in 1..L, NEW p \in Nat
      PROVE  /\ turn[<<k, p>>] = ((A - 1) * p + ranges[k]) \div A
             /\ ((A - 1) * p + ranges[k]) \div A \in Nat
  <2>1. <<k, p>> \in (1..L) \X Nat
    BY <1>6
  <2>2. ranges[k] \in Nat /\ (A - 1) \in Nat
    BY <1>1, <1>3, <1>4, <1>6
  <2>3. (A - 1) * p \in Nat
    BY <2>2
  <2>4. (A - 1) * p + ranges[k] \in Nat
    BY <2>2, <2>3
  <2>5. ((A - 1) * p + ranges[k]) \div A \in Nat
    BY <1>1, <2>4
  <2>6. QED
    BY <2>1, <2>5
<1> HIDE DEF turn, N
<1>7. ASSUME L >= A + 1
      PROVE  (CHOOSE g : Wilder(g))[L] \in Nat
  <2> HIDE DEF L
  <2>1. L \in Nat /\ 1 <= L /\ 1 \in Nat /\ ranges[1] \in Nat
    BY <1>1, <1>2, <1>3, <1>4, <1>7
  <2>2. \A k \in (1 + 1)..L : \A p \in Nat : turn[<<k, p>>] \in Nat
    <3>1. \A k \in (1 + 1)..L : k \in 1..L
      BY <2>1
    <3>2. \A k \in 1..L : \A p \in Nat : turn[<<k, p>>] \in Nat
      BY <1>6
    <3>3. QED
      BY <3>1, <3>2
  <2>3. PICK g \in [1..L -> Nat] : Loops(g, 1, L, ranges[1], turn)
    BY <2>1, <2>2, LoopExists
  <2>4. Wilder(g)
    <3>1. \A k \in 1..L : g[k] = IF k = 1 THEN ranges[1] ELSE ((A - 1) * g[k - 1] + ranges[k]) \div A
      <4> TAKE k \in 1..L
      <4>1. g[k] = IF k = 1 THEN ranges[1] ELSE turn[<<k, g[k - 1]>>]
        BY <2>3 DEF Loops
      <4>2. k # 1 => g[k - 1] \in Nat
        BY <2>1, <2>3
      <4>3. QED
        BY <1>6, <4>1, <4>2
    <3>2. QED
      BY <2>3, <3>1
  <2>5. PICK h : Wilder(h) /\ (CHOOSE f : Wilder(f)) = h
    BY <2>4
  <2> DEFINE M == {n \in Nat : n + 1 <= L => h[n + 1] \in Nat}
  <2>6. 0 \in M
    <3>1. h[1] = ranges[1]
      BY <2>1, <2>5
    <3>2. QED
      BY <2>1, <3>1
  <2>7. ASSUME NEW n \in Nat, n \in M PROVE n + 1 \in M
    <3> SUFFICES ASSUME n + 2 <= L PROVE h[n + 2] \in Nat
      BY <2>7
    <3>1. n + 2 \in 1..L /\ n + 2 # 1 /\ (n + 2) - 1 = n + 1 /\ h[n + 1] \in Nat
      BY <2>1, <2>7
    <3>2. h[n + 2] = ((A - 1) * h[n + 1] + ranges[n + 2]) \div A
      BY <2>5, <3>1
    <3>3. QED
      BY <1>6, <3>1, <3>2
  <2> HIDE DEF M
  <2>8. L - 1 \in M
    <3>1. \A n \in Nat : n \in M
      BY <2>6, <2>7, Induction
    <3>2. QED
      BY <2>1, <3>1
  <2>9. (L - 1) + 1 = L /\ L <= L
    BY <2>1
  <2>10. h[L] \in Nat
    BY <2>8, <2>9 DEF M
  <2>11. QED
    BY <2>5, <2>10
<1> HIDE DEF L
<1>8. QED
  BY <1>1, <1>2, <1>4, <1>5, <1>7

LEMMA WickIsUnder ==
    ASSUME NEW t \in Seq(Prices), Measured(t)
    PROVE  WickStop(t) \in Int /\ WickStop(t) <= Lowest(t, Recent(t))
<1> DEFINE low == Lowest(t, Recent(t))
<1>1. Len(t) \in Nat /\ Len(t) >= SweepWindow
  <2>1. Maximum(SweepLookback + SweepWindow, SweepBars) >= SweepLookback + SweepWindow
        /\ Maximum(SweepLookback + SweepWindow, SweepBars) \in Nat
    BY DayFacts DEF Maximum
  <2>2. Cardinality(Session(t)) \in Nat /\ Cardinality(Session(t)) <= Len(t)
    BY ShownIs
  <2>3. QED
    BY <2>1, <2>2, DayFacts DEF Measured
<1>2. Recent(t) \in SUBSET (1..Len(t)) /\ Recent(t) # {}
  <2>1. SweepWindow \in Nat /\ SweepWindow > 0
    BY DayFacts
  <2>2. Len(t) \in Recent(t)
    BY <1>1, <2>1 DEF Recent
  <2>3. Recent(t) \in SUBSET (1..Len(t))
    BY <1>1, <2>1 DEF Recent
  <2>4. QED
    BY <2>2, <2>3
<1>3. low \in Nat
  BY <1>2, LowestIs
<1> HIDE DEF low
<1>4. Rounded(low * (10000 - StopBuffer), 10000) \in Int /\ Rounded(low * (10000 - StopBuffer), 10000) <= low
  <2> DEFINE off == low * StopBuffer
  <2>1. StopBuffer \in Nat /\ StopBuffer <= 10000
    BY DayFacts
  <2>2. off \in Nat /\ low * (10000 - StopBuffer) = 10000 * low - off
    BY <1>3, <2>1
  <2> HIDE DEF off
  <2>3. QED
    BY <1>3, <2>2 DEF Rounded
<1>5. QED
  BY <1>4 DEF WickStop, low

LEMMA CoilIsWithin ==
    ASSUME NEW t \in Seq(Prices), CoilPresent(t)
    PROVE  Lowest(t, Coil(t)) \in Nat
<1>1. Cardinality(Session(t)) \in Nat /\ Cardinality(Session(t)) <= Len(t)
  BY ShownIs
<1>2. Len(t) \in Nat /\ Len(t) >= CoilBars + 2
  BY <1>1, DayFacts DEF CoilPresent, Warm
<1>3. Coil(t) \in SUBSET (1..Len(t)) /\ Len(t) - 1 \in Coil(t)
  BY <1>2, DayFacts DEF Coil
<1>4. QED
  BY <1>3, LowestIs

LEMMA EntryIsSeen ==
    ASSUME NEW t \in Seq(Prices), Len(t) > 0, rule \in Rules, Decision(t) # None
    PROVE  /\ rule = "sweep_reclaim" => SweepPresent(t) /\ Decision(t).by <= Lowest(t, Recent(t))
           /\ rule = "precursor" => CoilPresent(t)
           /\ \A s \in LiveStop(t, Decision(t)) : s < LiveEntry(t)
           /\ Decision(t).by \in Int
<1> DEFINE d == Decision(t)
<1>1. LiveEntry(t) \in Int
  <2>1. Len(t) \in 1..Len(t)
    OBVIOUS
  <2>2. Newest(t).close \in Nat
    BY <2>1, ElementOfSeq, BarIs DEF Newest
  <2> DEFINE x == Newest(t).close * 998
  <2>3. x \in Int /\ 1000 \in Nat /\ 1000 > 0
    BY <2>2
  <2> HIDE DEF x
  <2>4. Rounded(x, 1000) \in Int
    BY <2>3, RoundedIsInt
  <2>5. QED
    BY <2>4 DEF LiveEntry, EntryAt, x
<1>2. ASSUME d.stop = "level", d.by \in Int
      PROVE  \A s \in LiveStop(t, d) : s < LiveEntry(t)
  <2>1. LiveStop(t, d) = {d.by} \ {s \in {d.by} : s >= LiveEntry(t)}
    BY <1>2 DEF LiveStop
  <2> HIDE DEF d
  <2>2. QED
    BY <1>1, <1>2, <2>1
<1>3. CASE rule = "breakout"
  <2>1. d = Breakout(t)
    BY <1>3 DEF Decision
  <2>2. d = AtDistance(AtrStopMult * OrZero(IntradayAtr(t))) /\ IntradayAtr(t) # {}
    BY <2>1 DEF Breakout
  <2>3. OrZero(IntradayAtr(t)) \in IntradayAtr(t)
    BY <2>2 DEF OrZero, The
  <2>4. OrZero(IntradayAtr(t)) \in Nat /\ OrZero(IntradayAtr(t)) > 0
    BY <2>3, AtrIs
  <2>5. d.stop = "distance" /\ d.by = 2 * OrZero(IntradayAtr(t))
    BY <2>2 DEF AtDistance, AtrStopMult
  <2>6. LiveStop(t, d) = {LiveEntry(t) - d.by}
    BY <2>5 DEF LiveStop
  <2> HIDE DEF d
  <2>7. LiveEntry(t) - d.by < LiveEntry(t) /\ d.by \in Int
    BY <1>1, <2>4, <2>5
  <2>8. QED
    BY <1>3, <2>6, <2>7 DEF d
<1>4. CASE rule = "sweep_reclaim"
  <2>1. d = SweepReclaim(t)
    BY <1>4 DEF Decision
  <2>2. SweepPresent(t) /\ d = AtLevel(WickStop(t))
    BY <2>1 DEF SweepReclaim
  <2>3. d.stop = "level" /\ d.by = WickStop(t)
    BY <2>2 DEF AtLevel
  <2>4. Measured(t)
    BY <2>2 DEF SweepPresent
  <2>5. d.by \in Int /\ d.by <= Lowest(t, Recent(t))
    BY <2>3, <2>4, WickIsUnder
  <2>6. \A s \in LiveStop(t, d) : s < LiveEntry(t)
    BY <1>2, <2>3, <2>5
  <2>7. QED
    BY <1>4, <2>2, <2>5, <2>6
<1>5. CASE rule = "precursor"
  <2>1. d = Precursor(t)
    BY <1>5 DEF Decision
  <2>2. CoilPresent(t) /\ d = AtLevel(Lowest(t, Coil(t)))
    BY <2>1 DEF Precursor
  <2>3. d.stop = "level" /\ d.by \in Int
    BY <2>2, CoilIsWithin DEF AtLevel
  <2>4. \A s \in LiveStop(t, d) : s < LiveEntry(t)
    BY <1>2, <2>3
  <2>5. QED
    BY <1>5, <2>2, <2>3, <2>4
<1>6. QED
  BY <1>3, <1>4, <1>5, DayFacts

---------------------------------------------------------------------------
(* Day trades.                                                             *)

\* An exit, and a position with its exits so far.
DayExit     == [at : Nat, price : Int, weight : Nat, why : {"target", "stop", "session close"}]
DayPosition ==
    [entered : Nat, ref : Nat, stop : Int, left : 0..10, hit : SUBSET (1..3), exits : SUBSET DayExit]

\* What holds of an exit on the tape t.
ExitHolds(trade, x, t) ==
    /\ x.at \in trade.entered..Len(t)
    /\ x.price <= 2 * t[x.at].high
    /\ x.why = "target" => t[x.at].low > trade.stop /\ \E h \in trade.hit : x.price = Level(trade, h)
    /\ x.why = "stop" => /\ x.price >= 2 * t[x.at].low
                         /\ x.price >= 2 * trade.stop \/ t[x.at].open < trade.stop
    /\ x.why # "stop" => x.price >= 2 * trade.stop

\* A trade so far: what its exits sold and what is left are the whole of it, and as long as
\* something is left it sold at targets only.
TradeHolds(trade, t) ==
    /\ trade \in DayPosition
    /\ trade.entered \in 1..Len(t) /\ trade.stop < trade.ref /\ trade.ref > 0
    /\ IsFiniteSet(trade.exits) /\ Sold(trade.exits) + trade.left = 10
    /\ \A x \in trade.exits : ExitHolds(trade, x, t)
    /\ trade.left > 0 => \A x \in trade.exits : x.why = "target"

SameTerms(a, b) == a.entered = b.entered /\ a.ref = b.ref /\ a.stop = b.stop

LEMMA SoldIsInt ==
    ASSUME NEW S \in SUBSET DayExit, IsFiniteSet(S)
    PROVE  Sold(S) \in Int
<1> DEFINE f == [y \in S |-> y.weight]
<1>4. \A y \in DayExit : y.weight \in Nat
  BY DEF DayExit
<1>1. \A y \in S : f[y] \in Int
  BY <1>4
<1>2. Sold(S) = SumFunctionOnSet(f, S)
  BY DEF Sold
<1> HIDE DEF f
<1>3. QED
  BY <1>1, <1>2, SumIsInt

LEMMA SoldIsMore ==
    ASSUME NEW S \in SUBSET DayExit, IsFiniteSet(S), NEW x \in DayExit, x \notin S
    PROVE  Sold(S \cup {x}) = Sold(S) + x.weight
<1> DEFINE T == S \cup {x}
           f == [y \in T |-> y.weight]
           g == [y \in S |-> y.weight]
<1>1. IsFiniteSet(T) /\ x \in T /\ T \ {x} = S
  BY FS_AddElement
<1>10. \A y \in DayExit : y.weight \in Nat
  BY DEF DayExit
<1>2. \A y \in T : f[y] \in Int
  BY <1>10
<1>3. \A y \in S : f[y] = g[y]
  OBVIOUS
<1>4. f[x] = x.weight /\ x.weight \in Int
  BY <1>10
<1>5. Sold(T) = SumFunctionOnSet(f, T) /\ Sold(S) = SumFunctionOnSet(g, S)
  BY DEF Sold
<1> HIDE DEF f, g, T
<1>6. SumFunctionOnSet(f, T) = f[x] + SumFunctionOnSet(f, T \ {x})
  BY <1>1, <1>2, SumOfOneMore
<1>7. SumFunctionOnSet(f, S) = SumFunctionOnSet(g, S)
  BY <1>3, SumOfSame
<1>8. SumFunctionOnSet(f, S) \in Int
  <2>1. \A y \in S : f[y] \in Int
    BY <1>1, <1>2
  <2>2. QED
    BY <2>1, SumIsInt
<1>9. Sold(T) = Sold(S) + x.weight
  <2>1. Sold(T) = x.weight + SumFunctionOnSet(f, S)
    BY <1>1, <1>4, <1>5, <1>6
  <2>2. Sold(S) = SumFunctionOnSet(f, S)
    BY <1>5, <1>7
  <2>3. QED
    BY <1>4, <1>8, <2>1, <2>2
<1>11. QED
  BY <1>9 DEF T

LEMMA LeftOver ==
    ASSUME NEW whole \in 0..10, NEW weight \in 0..whole
    PROVE  /\ weight \in Nat /\ whole - weight \in 0..10
           /\ whole - weight > 0 => weight # whole /\ whole > 0
           /\ \A s \in Int : s + whole = 10 => (s + weight) + (whole - weight) = 10
  OBVIOUS

LEMMA LevelsDiffer ==
    ASSUME NEW trade \in DayPosition, trade.stop < trade.ref, NEW k \in 1..3
    PROVE  /\ Level(trade, k) \in Int /\ Level(trade, k) >= 2 * trade.stop
           /\ \A h \in 1..3 : h # k => Level(trade, h) # Level(trade, k)
<1>1. trade.stop \in Int /\ trade.ref \in Int
  BY DEF DayPosition
<1>2. /\ Level(trade, 1) = 2 * trade.ref + 3 * (trade.ref - trade.stop)
      /\ Level(trade, 2) = 2 * trade.ref + 5 * (trade.ref - trade.stop)
      /\ Level(trade, 3) = 2 * trade.ref + 8 * (trade.ref - trade.stop)
  BY DEF Level, TargetRR
<1>3. \A h \in 1..3 : h = 1 \/ h = 2 \/ h = 3
  OBVIOUS
<1>4. QED
  BY <1>1, <1>2, <1>3

\* The same trade on one more bar of the tape.
LEMMA HoldsOnMore ==
    ASSUME NEW t \in Seq(Prices), NEW bar \in Prices, NEW trade, TradeHolds(trade, t)
    PROVE  TradeHolds(trade, Append(t, bar))
<1> DEFINE u == Append(t, bar)
<1>1. Len(u) = Len(t) + 1 /\ Len(t) \in Nat /\ \A j \in 1..Len(t) : u[j] = t[j]
  OBVIOUS
<1> HIDE DEF u
<1>2. trade.entered \in Nat /\ trade.entered \in 1..Len(t)
  BY DEF TradeHolds, DayPosition
<1>3. ASSUME NEW x \in trade.exits
      PROVE  ExitHolds(trade, x, u)
  <2>1. ExitHolds(trade, x, t)
    BY DEF TradeHolds
  <2>2. x.at \in trade.entered..Len(t)
    BY <2>1 DEF ExitHolds
  <2>3. x.at \in 1..Len(t) /\ x.at \in trade.entered..Len(u)
    BY <1>1, <1>2, <2>2
  <2>4. u[x.at] = t[x.at]
    BY <1>1, <2>3
  <2>5. QED
    BY <2>1, <2>3, <2>4 DEF ExitHolds
<1>4. trade.entered \in 1..Len(u)
  BY <1>1, <1>2
<1>5. QED
  BY <1>3, <1>4 DEF TradeHolds, u

\* One exit more, of some of what is left.
LEMMA ExitAdds ==
    ASSUME NEW t \in Seq(Prices), NEW trade, TradeHolds(trade, t),
           NEW price \in Int, NEW weight \in 0..trade.left,
           NEW why \in {"target", "stop", "session close"},
           NEW hit \in SUBSET (1..3), trade.hit \subseteq hit,
           NEW x, x = [at |-> Len(t), price |-> price, weight |-> weight, why |-> why],
           x \notin trade.exits,
           why # "target" => weight = trade.left,
           NEW after, after = [entered |-> trade.entered, ref |-> trade.ref, stop |-> trade.stop,
                               left |-> trade.left - weight, hit |-> hit, exits |-> trade.exits \cup {x}],
           ExitHolds(after, x, t)
    PROVE  TradeHolds(after, t)
<1>1. /\ trade \in DayPosition /\ trade.left \in 0..10 /\ trade.exits \in SUBSET DayExit
      /\ IsFiniteSet(trade.exits) /\ Sold(trade.exits) + trade.left = 10
  BY DEF TradeHolds, DayPosition
<1>2. /\ weight \in Nat /\ trade.left - weight \in 0..10
      /\ trade.left - weight > 0 => weight # trade.left /\ trade.left > 0
      /\ \A s \in Int : s + trade.left = 10 => (s + weight) + (trade.left - weight) = 10
  BY <1>1, LeftOver, Zenon
<1>12. Len(t) \in Nat
  BY LenProperties, Zenon
<1>3. x \in DayExit /\ x.weight = weight /\ x.why = why
  BY <1>2, <1>12 DEF DayExit
<1>4. /\ after.entered = trade.entered /\ after.ref = trade.ref /\ after.stop = trade.stop
      /\ after.left = trade.left - weight /\ after.hit = hit /\ after.exits = trade.exits \cup {x}
  OBVIOUS
<1>5. after \in DayPosition
  <2>1. /\ trade.entered \in Nat /\ trade.ref \in Nat /\ trade.stop \in Int
        /\ trade.left - weight \in 0..10 /\ trade.exits \cup {x} \in SUBSET DayExit
    BY <1>1, <1>2, <1>3 DEF DayPosition
  <2>2. QED
    BY <2>1 DEF DayPosition
<1>6. Sold(after.exits) + after.left = 10
  <2>1. Sold(after.exits) = Sold(trade.exits) + weight
    BY <1>1, <1>3, <1>4, SoldIsMore
  <2>2. Sold(trade.exits) \in Int
    BY <1>1, SoldIsInt
  <2>3. QED
    BY <1>1, <1>2, <1>4, <2>1, <2>2
<1>7. IsFiniteSet(after.exits)
  BY <1>1, <1>4, FS_AddElement
<1>8. ASSUME NEW y \in trade.exits PROVE ExitHolds(after, y, t)
  <2>1. ExitHolds(trade, y, t)
    BY DEF TradeHolds
  <2>2. \A h : Level(after, h) = Level(trade, h)
    BY <1>4 DEF Level
  <2>3. QED
    BY <1>4, <2>1, <2>2 DEF ExitHolds
<1>9. after.left > 0 => \A y \in after.exits : y.why = "target"
  <2> SUFFICES ASSUME after.left > 0 PROVE \A y \in after.exits : y.why = "target"
    OBVIOUS
  <2>1. weight # trade.left /\ trade.left > 0
    BY <1>1, <1>2, <1>4
  <2>2. \A y \in trade.exits : y.why = "target"
    BY <2>1 DEF TradeHolds
  <2>3. QED
    BY <1>3, <1>4, <2>1, <2>2
<1>10. after.entered \in 1..Len(t) /\ after.stop < after.ref /\ after.ref > 0
  BY <1>4 DEF TradeHolds
<1>11. QED
  BY <1>4, <1>5, <1>6, <1>7, <1>8, <1>9, <1>10 DEF TradeHolds

LEMMA ExitOfIs ==
    ASSUME NEW trade \in DayPosition, NEW n, NEW price, NEW weight, NEW why
    PROVE  ExitOf(trade, n, price, weight, why) =
             [entered |-> trade.entered, ref |-> trade.ref, stop |-> trade.stop,
              left |-> trade.left - weight, hit |-> trade.hit,
              exits |-> trade.exits \cup {[at |-> n, price |-> price, weight |-> weight, why |-> why]}]
<1> DEFINE x == [at |-> n, price |-> price, weight |-> weight, why |-> why]
           rest == trade.left - weight
           exits == trade.exits \cup {x}
           less == [trade EXCEPT !.left = rest]
<1>1. ExitOf(trade, n, price, weight, why) = [trade EXCEPT !.left = @ - weight, !.exits = @ \cup {x}]
  BY Zenon DEF ExitOf
<1>2. [trade EXCEPT !.left = @ - weight, !.exits = @ \cup {x}] = [less EXCEPT !.exits = exits]
  OBVIOUS
<1> HIDE DEF rest, exits, x
<1>3. less = [entered |-> trade.entered, ref |-> trade.ref, stop |-> trade.stop,
              left |-> rest, hit |-> trade.hit, exits |-> trade.exits]
  BY DEF DayPosition
<1> HIDE DEF less
<1>4. [less EXCEPT !.exits = exits] =
             [entered |-> trade.entered, ref |-> trade.ref, stop |-> trade.stop,
              left |-> rest, hit |-> trade.hit, exits |-> exits]
  BY <1>3
<1>5. QED
  BY <1>1, <1>2, <1>4, Zenon DEF rest, exits, x

LEMMA TargetKeeps ==
    ASSUME NEW t \in Seq(Prices), Len(t) > 0, NEW trade, TradeHolds(trade, t),
           t[Len(t)].low > trade.stop, NEW k \in 1..3
    PROVE  LET after == AtTarget(trade, Len(t), t[Len(t)], k)
           IN  TradeHolds(after, t) /\ SameTerms(after, trade)
<1> DEFINE n == Len(t)
           bar == t[n]
           price == Level(trade, k)
           weight == Tenths(trade, k)
           x == [at |-> n, price |-> price, weight |-> weight, why |-> "target"]
           hit == trade.hit \cup {k}
           after == [entered |-> trade.entered, ref |-> trade.ref, stop |-> trade.stop,
                     left |-> trade.left - weight, hit |-> hit, exits |-> trade.exits \cup {x}]
           taken == k \notin trade.hit /\ 2 * bar.high >= price /\ trade.left > 0
<1>1. trade \in DayPosition /\ trade.stop < trade.ref /\ trade.left \in 0..10 /\ trade.hit \in SUBSET (1..3)
  BY DEF TradeHolds, DayPosition
<1>2. AtTarget(trade, n, bar, k) = IF taken THEN after ELSE trade
  <2> DEFINE sold == ExitOf(trade, n, price, weight, "target")
  <2>1. sold = [entered |-> trade.entered, ref |-> trade.ref, stop |-> trade.stop,
                left |-> trade.left - weight, hit |-> trade.hit, exits |-> trade.exits \cup {x}]
    BY <1>1, ExitOfIs
  <2>2. AtTarget(trade, n, bar, k) = IF taken THEN [sold EXCEPT !.hit = @ \cup {k}] ELSE trade
    BY Zenon DEF AtTarget
  <2> HIDE DEF sold, price, weight, x
  <2>3. [sold EXCEPT !.hit = @ \cup {k}] = [sold EXCEPT !.hit = hit]
    BY <2>1
  <2>4. [sold EXCEPT !.hit = hit] = after
    <3> DEFINE rest == trade.left - weight
               exits == trade.exits \cup {x}
    <3>1. sold = [entered |-> trade.entered, ref |-> trade.ref, stop |-> trade.stop,
                  left |-> rest, hit |-> trade.hit, exits |-> exits]
      BY <2>1, Zenon
    <3> HIDE DEF rest, exits, hit
    <3>2. [sold EXCEPT !.hit = hit] = [entered |-> trade.entered, ref |-> trade.ref, stop |-> trade.stop,
                                       left |-> rest, hit |-> hit, exits |-> exits]
      BY <3>1
    <3>3. QED
      BY <3>2, Zenon DEF rest, exits
  <2>5. QED
    BY <2>2, <2>3, <2>4, Zenon
<1>3. CASE ~taken
  BY <1>2, <1>3 DEF SameTerms
<1>4. CASE taken
  <2>1. bar \in Prices /\ n \in Nat /\ n \in trade.entered..n
    <3>1. n \in Nat /\ n \in 1..Len(t) /\ trade.entered \in 1..n
      BY DEF TradeHolds
    <3>2. QED
      BY <3>1, ElementOfSeq
  <2>2. price \in Int /\ price >= 2 * trade.stop /\ \A h \in 1..3 : h # k => Level(trade, h) # price
    BY <1>1, LevelsDiffer
  <2>3. weight \in 0..trade.left
    <3>1. TargetExitPcts[k] \in Nat
      BY DEF TargetExitPcts
    <3>2. QED
      BY <1>1, <3>1 DEF Tenths, Minimum
  <2>4. x \notin trade.exits
    <3> SUFFICES ASSUME x \in trade.exits PROVE FALSE
      OBVIOUS
    <3>1. ExitHolds(trade, x, t) /\ x.why = "target" /\ x.price = price
      BY DEF TradeHolds
    <3>2. PICK h \in trade.hit : price = Level(trade, h)
      BY <3>1 DEF ExitHolds
    <3>3. h \in 1..3 /\ h # k
      BY <1>1, <1>4, <3>2
    <3>4. QED
      BY <2>2, <3>2, <3>3
  <2>5. ExitHolds(after, x, t)
    <3>1. /\ x.at = n /\ x.price = price /\ x.why = "target"
          /\ after.entered = trade.entered /\ after.stop = trade.stop /\ after.hit = hit
      OBVIOUS
    <3>2. Level(after, k) = price /\ k \in hit
      BY DEF Level
    <3>3. price <= 2 * t[n].high
      BY <1>4, <2>1, <2>2, BarIs
    <3> HIDE DEF x, price, after, hit
    <3>4. QED
      BY <2>1, <2>2, <3>1, <3>2, <3>3 DEF ExitHolds
  <2>6. hit \in SUBSET (1..3) /\ trade.hit \subseteq hit
    BY <1>1
  <2> HIDE DEF price, weight, hit
  <2>7. TradeHolds(after, t)
    BY <2>2, <2>3, <2>4, <2>5, <2>6, ExitAdds
  <2>8. QED
    BY <1>2, <1>4, <2>7 DEF SameTerms
<1>5. QED
  BY <1>3, <1>4

LEMMA StopKeeps ==
    ASSUME NEW t \in Seq(Prices), NEW trade, TradeHolds(trade, t), trade.left > 0
    PROVE  LET after == AtStop(trade, Len(t), t[Len(t)])
           IN  /\ TradeHolds(after, t) /\ SameTerms(after, trade)
               /\ after.left # 0 => after = trade /\ t[Len(t)].low > trade.stop
<1> DEFINE n == Len(t)
           bar == t[n]
           price == 2 * Minimum(bar.open, trade.stop)
           x == [at |-> n, price |-> price, weight |-> trade.left, why |-> "stop"]
           after == [entered |-> trade.entered, ref |-> trade.ref, stop |-> trade.stop,
                     left |-> trade.left - trade.left, hit |-> trade.hit, exits |-> trade.exits \cup {x}]
<1>1. /\ trade \in DayPosition /\ trade.left \in 0..10 /\ trade.hit \in SUBSET (1..3) /\ trade.stop \in Int
      /\ trade.entered \in 1..n /\ \A y \in trade.exits : y.why = "target"
  BY DEF TradeHolds, DayPosition
<1>2. bar \in Prices /\ n \in Nat /\ n \in trade.entered..n
  <2>1. n \in Nat
    BY LenProperties, Zenon
  <2>2. n \in 1..Len(t) /\ n \in trade.entered..n
    BY <1>1, <2>1
  <2>3. QED
    BY <2>1, <2>2, ElementOfSeq
<1>3. AtStop(trade, n, bar) = IF bar.low <= trade.stop THEN after ELSE trade
  <2> DEFINE all == trade.left
             cut == [at |-> n, price |-> price, weight |-> all, why |-> "stop"]
  <2>3. after = [entered |-> trade.entered, ref |-> trade.ref, stop |-> trade.stop,
                 left |-> trade.left - all, hit |-> trade.hit, exits |-> trade.exits \cup {cut}]
    OBVIOUS
  <2> HIDE DEF price, after
  <2>1. ExitOf(trade, n, price, trade.left, "stop") = after
    <3> HIDE DEF all
    <3>1. ExitOf(trade, n, price, all, "stop") = after
      BY <1>1, <2>3, ExitOfIs
    <3>2. QED
      BY <3>1 DEF all
  <2>2. QED
    BY <2>1 DEF AtStop, price
<1>4. CASE ~(bar.low <= trade.stop)
  <2>1. bar.low \in Nat
    BY <1>2, BarIs
  <2>2. bar.low > trade.stop
    BY <1>1, <1>4, <2>1
  <2>3. QED
    BY <1>3, <1>4, <2>2 DEF SameTerms
<1>5. CASE bar.low <= trade.stop
  <2>1. /\ bar.open \in Nat /\ bar.low \in Nat /\ bar.high \in Nat
        /\ bar.low <= bar.open /\ bar.open <= bar.high
    BY <1>2, BarIs
  <2>2. /\ price \in Int /\ price <= 2 * bar.high /\ price >= 2 * bar.low
        /\ price >= 2 * trade.stop \/ bar.open < trade.stop
    BY <1>1, <1>5, <2>1 DEF Minimum
  <2>3. x \notin trade.exits
    BY <1>1
  <2>4. ExitHolds(after, x, t)
    <3>1. /\ x.at = n /\ x.price = price /\ x.why = "stop"
          /\ after.entered = trade.entered /\ after.stop = trade.stop
      OBVIOUS
    <3> HIDE DEF x, price, after
    <3>2. QED
      BY <1>2, <2>2, <3>1 DEF ExitHolds
  <2>5. trade.left \in 0..trade.left
    BY <1>1
  <2>6. trade.hit \subseteq trade.hit /\ "stop" \in {"target", "stop", "session close"}
    OBVIOUS
  <2> HIDE DEF price
  <2>7. TradeHolds(after, t)
    BY <1>1, <2>2, <2>3, <2>4, <2>5, <2>6, ExitAdds
  <2>8. after.left = 0
    BY <1>1
  <2>9. SameTerms(after, trade)
    BY DEF SameTerms
  <2> HIDE DEF after
  <2>10. QED
    BY <1>3, <1>5, <2>7, <2>8, <2>9
<1>6. QED
  BY <1>4, <1>5

LEMMA ClosedIs ==
    ASSUME NEW trade \in DayPosition, NEW n, NEW price, NEW weight, NEW why,
           NEW x, x = [at |-> n, price |-> price, weight |-> weight, why |-> why],
           NEW after, after = [entered |-> trade.entered, ref |-> trade.ref, stop |-> trade.stop,
                left |-> trade.left - weight, hit |-> trade.hit, exits |-> trade.exits \cup {x}]
    PROVE  ExitOf(trade, n, price, weight, why) = after
  BY ExitOfIs

LEMMA CloseKeeps ==
    ASSUME NEW t \in Seq(Prices), NEW trade, TradeHolds(trade, t), t[Len(t)].low > trade.stop
    PROVE  LET after == AtClose(trade, Len(t), t[Len(t)])
           IN  /\ TradeHolds(after, t) /\ SameTerms(after, trade)
               /\ after.left # 0 => ~LastOfSession(Len(t))
<1> DEFINE n == Len(t)
           bar == t[n]
           price == 2 * bar.close
           x == [at |-> n, price |-> price, weight |-> trade.left, why |-> "session close"]
           after == [entered |-> trade.entered, ref |-> trade.ref, stop |-> trade.stop,
                     left |-> trade.left - trade.left, hit |-> trade.hit, exits |-> trade.exits \cup {x}]
           closes == LastOfSession(n) /\ trade.left > 0
<1>1. /\ trade \in DayPosition /\ trade.left \in 0..10 /\ trade.hit \in SUBSET (1..3) /\ trade.stop \in Int
      /\ trade.entered \in 1..n /\ (trade.left > 0 => \A y \in trade.exits : y.why = "target")
  BY DEF TradeHolds, DayPosition
<1>2. bar \in Prices /\ n \in Nat /\ n \in trade.entered..n
  <2>1. n \in Nat
    BY LenProperties, Zenon
  <2>2. n \in 1..Len(t) /\ n \in trade.entered..n
    BY <1>1, <2>1
  <2>3. QED
    BY <2>1, <2>2, ElementOfSeq
<1>3. AtClose(trade, n, bar) = IF closes THEN after ELSE trade
  <2> DEFINE all == trade.left
             why == "session close"
             cut == [at |-> n, price |-> price, weight |-> all, why |-> why]
  <2>3. after = [entered |-> trade.entered, ref |-> trade.ref, stop |-> trade.stop,
                 left |-> trade.left - all, hit |-> trade.hit, exits |-> trade.exits \cup {cut}]
    OBVIOUS
  <2> HIDE DEF price, after
  <2>1. ExitOf(trade, n, price, trade.left, "session close") = after
    <3> HIDE DEF all, why
    <3>1. trade \in DayPosition
      BY <1>1
    <3>2. ExitOf(trade, n, price, all, why) = after
      BY <2>3, <3>1, ClosedIs
    <3>3. QED
      BY <3>2, Zenon DEF all, why
  <2>2. QED
    BY <2>1 DEF AtClose, price
<1>4. CASE ~closes
  <2>1. trade.left # 0 => ~LastOfSession(n)
    BY <1>1, <1>4
  <2>2. QED
    BY <1>3, <1>4, <2>1 DEF SameTerms
<1>5. CASE closes
  <2>1. bar.close \in Nat /\ bar.low \in Nat /\ bar.high \in Nat /\ bar.low <= bar.close /\ bar.close <= bar.high
    BY <1>2, BarIs
  <2>2. price \in Int /\ price <= 2 * bar.high /\ price >= 2 * trade.stop
    BY <1>1, <2>1
  <2>3. x \notin trade.exits
    BY <1>1, <1>5
  <2>4. ExitHolds(after, x, t)
    <3>1. /\ x.at = n /\ x.price = price /\ x.why = "session close"
          /\ after.entered = trade.entered /\ after.stop = trade.stop
      OBVIOUS
    <3> HIDE DEF x, price, after
    <3>2. QED
      BY <1>2, <2>2, <3>1 DEF ExitHolds
  <2>5. trade.left \in 0..trade.left
    BY <1>1
  <2>6. trade.hit \subseteq trade.hit /\ "session close" \in {"target", "stop", "session close"}
    OBVIOUS
  <2> HIDE DEF price
  <2>7. TradeHolds(after, t)
    BY <1>1, <2>2, <2>3, <2>4, <2>5, <2>6, ExitAdds
  <2>8. after.left = 0
    BY <1>1
  <2>9. SameTerms(after, trade)
    BY DEF SameTerms
  <2> HIDE DEF after
  <2>10. QED
    BY <1>3, <1>5, <2>7, <2>8, <2>9
<1>6. QED
  BY <1>4, <1>5

\* A bar that is managed: the stop first, then targets, then the close of the session.
LEMMA ManagedKeeps ==
    ASSUME NEW t \in Seq(Prices), Len(t) > 0, NEW trade, TradeHolds(trade, t), trade.left > 0
    PROVE  LET after == Managed(trade, Len(t), t[Len(t)])
           IN  /\ TradeHolds(after, t) /\ SameTerms(after, trade)
               /\ after.left # 0 => ~LastOfSession(Len(t))
<1> DEFINE n == Len(t)
           bar == t[n]
           stopped == AtStop(trade, n, bar)
           first == AtTarget(trade, n, bar, 1)
           second == AtTarget(first, n, bar, 2)
           third == AtTarget(second, n, bar, 3)
           closed == AtClose(third, n, bar)
<1>1. /\ TradeHolds(stopped, t) /\ SameTerms(stopped, trade)
      /\ stopped.left # 0 => stopped = trade /\ bar.low > trade.stop
  BY StopKeeps
<1>2. Managed(trade, n, bar) = IF stopped.left = 0 THEN stopped ELSE AtClose(AtTargets(trade, n, bar), n, bar)
  BY DEF Managed
<1>3. AtTargets(trade, n, bar) = third
  BY DEF AtTargets
<1> HIDE DEF stopped
<1>4. CASE stopped.left = 0
  BY <1>1, <1>2, <1>4
<1>5. CASE stopped.left # 0
  <2>1. bar.low > trade.stop /\ 1 \in 1..3 /\ 2 \in 1..3 /\ 3 \in 1..3
    BY <1>1, <1>5
  <2>2. TradeHolds(first, t) /\ SameTerms(first, trade)
    BY <2>1, TargetKeeps
  <2> HIDE DEF first
  <2>3. TradeHolds(second, t) /\ SameTerms(second, trade)
    <3>1. bar.low > first.stop
      BY <2>1, <2>2 DEF SameTerms
    <3>2. TradeHolds(second, t) /\ SameTerms(second, first)
      BY <2>1, <2>2, <3>1, TargetKeeps
    <3> HIDE DEF second
    <3>3. QED
      BY <2>2, <3>2 DEF SameTerms
  <2> HIDE DEF second
  <2>4. TradeHolds(third, t) /\ SameTerms(third, trade)
    <3>1. bar.low > second.stop
      BY <2>1, <2>3 DEF SameTerms
    <3>2. TradeHolds(third, t) /\ SameTerms(third, second)
      BY <2>1, <2>3, <3>1, TargetKeeps
    <3> HIDE DEF third
    <3>3. QED
      BY <2>3, <3>2 DEF SameTerms
  <2> HIDE DEF third
  <2>5. TradeHolds(closed, t) /\ SameTerms(closed, third) /\ (closed.left # 0 => ~LastOfSession(n))
    <3>1. bar.low > third.stop
      BY <2>1, <2>4 DEF SameTerms
    <3>2. QED
      BY <2>4, <3>1, CloseKeeps
  <2> HIDE DEF closed
  <2>6. SameTerms(closed, trade)
    BY <2>4, <2>5 DEF SameTerms
  <2>7. Managed(trade, n, bar) = closed
    BY <1>2, <1>3, <1>5 DEF closed
  <2>8. QED
    BY <2>5, <2>6, <2>7
<1>6. QED
  BY <1>4, <1>5

\* A process that replays day trades replays one of the entries there are.
RuleInv == mode = "day trades" => rule \in Rules

\* The inductive invariant of a replay: the position and the last trade hold on the tape so
\* far, and a decision has a stop.
DayInv ==
    /\ tape \in Seq(Prices)
    /\ dayTrade = NoTrade \/ (TradeHolds(dayTrade, tape) /\ dayTrade.left > 0)
    /\ lastTrade = NoTrade \/ (TradeHolds(lastTrade, tape) /\ lastTrade.left = 0)
    /\ decision # None => decision.by \in Int
    /\ FlatBySessionEnd /\ EntriesAreSeen

\* What a fill opens.
LEMMA FreshIs ==
    ASSUME NEW n, NEW ref, NEW stop
    PROVE  [NoTrade EXCEPT !.entered = n, !.ref = ref, !.left = 10, !.stop = stop]
             = [entered |-> n, ref |-> ref, stop |-> stop, left |-> 10, hit |-> {}, exits |-> {}]
<1> DEFINE none == {}
           all == 10
           a == [NoTrade EXCEPT !.entered = n]
           b == [a EXCEPT !.ref = ref]
           c == [b EXCEPT !.left = all]
           d == [c EXCEPT !.stop = stop]
<1>1. [NoTrade EXCEPT !.entered = n, !.ref = ref, !.left = 10, !.stop = stop] = d
  BY DEF NoTrade
<1>2. NoTrade = [entered |-> 0, ref |-> 0, stop |-> 0, left |-> 0, hit |-> none, exits |-> none]
  BY DEF NoTrade
<1> HIDE DEF none, all
<1>3. a = [entered |-> n, ref |-> 0, stop |-> 0, left |-> 0, hit |-> none, exits |-> none]
  BY <1>2
<1> HIDE DEF a
<1>4. b = [entered |-> n, ref |-> ref, stop |-> 0, left |-> 0, hit |-> none, exits |-> none]
  BY <1>3
<1> HIDE DEF b
<1>5. c = [entered |-> n, ref |-> ref, stop |-> 0, left |-> all, hit |-> none, exits |-> none]
  BY <1>4
<1> HIDE DEF c
<1>6. d = [entered |-> n, ref |-> ref, stop |-> stop, left |-> all, hit |-> none, exits |-> none]
  BY <1>5
<1> HIDE DEF d
<1>7. QED
  BY <1>1, <1>6, Zenon DEF none, all

LEMMA OneMoreBar ==
    ASSUME NEW t \in Seq(Prices), NEW bar \in Prices
    PROVE  /\ Append(t, bar) \in Seq(Prices) /\ Len(Append(t, bar)) = Len(t) + 1
           /\ Append(t, bar)[Len(t) + 1] = bar /\ Len(t) \in Nat
  OBVIOUS

LEMMA NothingManaged ==
    ASSUME NEW n, NEW bar
    PROVE  Managed(NoTrade, n, bar) = NoTrade /\ NoTrade.left = 0
<1>1. NoTrade.left = 0
  BY DEF NoTrade
<1>2. AtStop(NoTrade, n, bar) = NoTrade
  BY <1>1 DEF AtStop
<1>3. QED
  BY <1>1, <1>2, Zenon DEF Managed

LEMMA FilledHolds ==
    ASSUME DayInv, NEW bar \in Prices, NEW u, u = Append(tape, bar), NEW n, n = Len(tape) + 1,
           NEW filled, filled = Filled(n, bar), filled # NoTrade
    PROVE  /\ TradeHolds(filled, u) /\ filled.left > 0
           /\ Slots[filled.entered].session = Slots[n].session
<1>1. tape \in Seq(Prices)
  BY DEF DayInv
<1>2. Len(tape) \in Nat
  BY <1>1, LenProperties, Zenon
<1>3. u \in Seq(Prices) /\ Len(u) = n /\ n \in Nat /\ n > 0
  BY <1>1, <1>2
<1>4. CASE dayTrade # NoTrade
  <2>1. filled = dayTrade /\ TradeHolds(dayTrade, tape) /\ dayTrade.left > 0
    BY <1>4 DEF Filled, DayInv
  <2>2. TradeHolds(filled, u)
    BY <1>1, <2>1, HoldsOnMore
  <2>3. Slots[dayTrade.entered].session = Slots[n].session
    BY <1>4 DEF DayInv, FlatBySessionEnd, LastOfSession
  <2>4. QED
    BY <2>1, <2>2, <2>3
<1>5. CASE dayTrade = NoTrade
  <2> DEFINE stop == StopUnder(decision, bar.open)
             fresh == [entered |-> n, ref |-> bar.open, stop |-> stop, left |-> 10, hit |-> {}, exits |-> {}]
  <2>1. /\ decision # None /\ bar.open > 0 /\ stop < bar.open
        /\ filled = [NoTrade EXCEPT !.entered = n, !.ref = bar.open, !.left = 10, !.stop = stop]
    BY <1>5 DEF Filled
  <2>2. bar.open \in Nat /\ stop \in Int
    <3>1. bar.open \in Nat /\ decision.by \in Int
      BY <2>1, BarIs DEF DayInv
    <3>2. QED
      BY <3>1 DEF StopUnder
  <2> HIDE DEF stop
  <2>3. filled = fresh
    BY <2>1, FreshIs
  <2>4. /\ filled.entered = n /\ filled.ref = bar.open /\ filled.stop = stop /\ filled.left = 10
        /\ filled.hit = {} /\ filled.exits = {}
    BY <2>3
  <2>5. Sold(filled.exits) + filled.left = 10
    <3>1. Sold({}) = 0
      BY SumOfNone DEF Sold
    <3>2. Sold(filled.exits) = Sold({})
      BY <2>4, Zenon
    <3>3. QED
      BY <2>4, <3>1, <3>2
  <2>6. filled \in DayPosition
    BY <1>3, <2>2, <2>3 DEF DayPosition
  <2>7. IsFiniteSet(filled.exits)
    BY <2>4, FS_EmptySet
  <2>8. filled.entered \in 1..Len(u) /\ filled.ref > 0 /\ filled.stop < filled.ref
    BY <1>3, <2>1, <2>4 DEF stop
  <2>9. TradeHolds(filled, u)
    BY <2>1, <2>4, <2>5, <2>6, <2>7, <2>8 DEF TradeHolds
  <2>10. QED
    BY <2>4, <2>9
<1>6. QED
  BY <1>4, <1>5

LEMMA NextSlot ==
    ASSUME NEW m \in Nat
    PROVE  /\ m + 1 > 0
           /\ BarsAt \in Seq(SUBSET Prices) /\ (m < Len(Slots) => m + 1 \in 1..Len(BarsAt))
           /\ \A l \in 0..10 : l # 0 => l > 0
  BY DayFacts

LEMMA BarKeeps ==
    ASSUME DayInv, rule \in Rules, Bar
    PROVE  DayInv' /\ rule' = rule
<1>1. tape \in Seq(Prices) /\ rule \in Rules
  BY DEF DayInv
<1>2. Len(tape) \in Nat
  BY <1>1, LenProperties, Zenon
<1> DEFINE n == Len(tape) + 1
<1>20. /\ n > 0
       /\ BarsAt \in Seq(SUBSET Prices) /\ (Len(tape) < Len(Slots) => n \in 1..Len(BarsAt))
       /\ \A l \in 0..10 : l # 0 => l > 0
  BY <1>2, NextSlot, Zenon
<1>3. PICK bar \in BarsAt[n] :
        LET filled == Filled(n, bar)
            after  == Managed(filled, n, bar)
        IN  /\ tape' = Append(tape, bar)
            /\ decision' = IF filled = NoTrade /\ n < Len(Slots) THEN Decision(tape') ELSE None
            /\ dayTrade' = IF after.left = 0 THEN NoTrade ELSE after
            /\ lastTrade' = IF filled # NoTrade /\ after.left = 0 THEN after ELSE lastTrade
  BY DEF Bar
<1>4. rule' = rule
  BY DEF Bar
<1>5. bar \in Prices
  <2>1. Len(tape) < Len(Slots)
    BY DEF Bar
  <2>2. n \in 1..Len(BarsAt)
    BY <1>20, <2>1, Zenon
  <2>3. BarsAt[n] \in SUBSET Prices
    BY <1>20, <2>2, ElementOfSeq, Zenon
  <2>4. QED
    BY <2>3, Zenon
<1> DEFINE filled == Filled(n, bar)
           after == Managed(filled, n, bar)
           u == Append(tape, bar)
<1>6. /\ tape' = u
      /\ decision' = IF filled = NoTrade /\ n < Len(Slots) THEN Decision(u) ELSE None
      /\ dayTrade' = IF after.left = 0 THEN NoTrade ELSE after
      /\ lastTrade' = IF filled # NoTrade /\ after.left = 0 THEN after ELSE lastTrade
  BY <1>3
<1>7. u \in Seq(Prices) /\ Len(u) = n /\ n > 0 /\ u[n] = bar
  <2>1. u \in Seq(Prices) /\ Len(u) = n /\ u[n] = bar
    BY <1>1, <1>5, OneMoreBar, Zenon
  <2>2. QED
    BY <1>20, <2>1, Zenon
<1>8. filled # NoTrade => TradeHolds(filled, u) /\ filled.left > 0
                          /\ Slots[filled.entered].session = Slots[n].session
  BY <1>5, FilledHolds
<1>9. filled = NoTrade => after = NoTrade /\ NoTrade.left = 0
  BY NothingManaged, Zenon
<1> HIDE DEF filled, u
<1>10. filled # NoTrade => /\ TradeHolds(after, u) /\ SameTerms(after, filled)
                           /\ after.left # 0 => ~LastOfSession(n)
  BY <1>7, <1>8, ManagedKeeps
<1> HIDE DEF after
<1>11. dayTrade' # NoTrade => filled # NoTrade /\ dayTrade' = after /\ after.left # 0
  BY <1>6, <1>9
<1>12. dayTrade' = NoTrade \/ (TradeHolds(dayTrade', u) /\ dayTrade'.left > 0)
  <2> SUFFICES ASSUME dayTrade' # NoTrade PROVE TradeHolds(dayTrade', u) /\ dayTrade'.left > 0
    OBVIOUS
  <2>1. dayTrade' = after /\ TradeHolds(after, u) /\ after.left # 0
    BY <1>10, <1>11
  <2>2. after.left \in 0..10
    BY <2>1 DEF TradeHolds, DayPosition
  <2>3. after.left > 0
    BY <1>20, <2>1, <2>2, Zenon
  <2>4. QED
    BY <2>1, <2>3, Zenon
<1>13. lastTrade' = NoTrade \/ (TradeHolds(lastTrade', u) /\ lastTrade'.left = 0)
  <2>1. CASE filled # NoTrade /\ after.left = 0
    BY <1>6, <1>10, <2>1
  <2>2. CASE ~(filled # NoTrade /\ after.left = 0)
    <3>1. lastTrade' = lastTrade
      BY <1>6, <2>2
    <3>2. lastTrade = NoTrade \/ (TradeHolds(lastTrade, tape) /\ lastTrade.left = 0)
      BY DEF DayInv
    <3>3. QED
      BY <1>1, <1>5, <3>1, <3>2, HoldsOnMore DEF u
  <2>3. QED
    BY <2>1, <2>2
<1>14. FlatBySessionEnd'
  <2> SUFFICES ASSUME dayTrade' # NoTrade
               PROVE  /\ Slots[dayTrade'.entered].session = Slots[Len(u)].session
                      /\ ~LastOfSession(Len(u)) /\ decision' = None
    BY <1>6 DEF FlatBySessionEnd
  <2>1. /\ filled # NoTrade /\ dayTrade' = after /\ ~LastOfSession(n)
        /\ after.entered = filled.entered
    BY <1>10, <1>11 DEF SameTerms
  <2>2. QED
    BY <1>6, <1>7, <1>8, <2>1
<1>15. decision' # None => decision' = Decision(u)
  BY <1>6
<1>16. decision' # None =>
         /\ rule = "sweep_reclaim" => SweepPresent(u) /\ decision'.by <= Lowest(u, Recent(u))
         /\ rule = "precursor" => CoilPresent(u)
         /\ \A s \in LiveStop(u, decision') : s < LiveEntry(u)
         /\ decision'.by \in Int
  BY <1>1, <1>7, <1>15, EntryIsSeen
<1>17. EntriesAreSeen'
  BY <1>4, <1>6, <1>16 DEF EntriesAreSeen
<1>18. QED
  BY <1>1, <1>4, <1>6, <1>7, <1>12, <1>13, <1>14, <1>16, <1>17 DEF DayInv

LEMMA DayRests ==
    ASSUME DayInv, UNCHANGED dayVars
    PROVE  DayInv'
  BY DEF dayVars, DayInv, FlatBySessionEnd, EntriesAreSeen

LEMMA DayMoves ==
    ASSUME [Next]_vars
    PROVE  mode' = mode /\ ((mode = "day trades" /\ Bar) \/ UNCHANGED dayVars)
  BY DEF Next, vars, DailyMode, IntradayMode, BacktestMode, SignalsMode, DayMode, ScreenMode, Around

LEMMA BroughtIs ==
    ASSUME NEW S \in SUBSET DayExit, IsFiniteSet(S), NEW c \in Int, \A x \in S : x.price >= c
    PROVE  Brought(S) \in Int /\ Brought(S) >= c * Sold(S)
<1> DEFINE f == [x \in S |-> x.weight]
           g == [x \in S |-> x.weight * x.price]
<1>1. \A x \in DayExit : x.weight \in Nat /\ x.price \in Int
  BY DEF DayExit
<1>2. ASSUME NEW x \in S PROVE f[x] \in Int /\ g[x] \in Int /\ g[x] >= c * f[x]
  <2> DEFINE w == x.weight
             p == x.price
  <2>1. w \in Nat /\ p \in Int /\ c <= p
    BY <1>1
  <2>2. f[x] = w /\ g[x] = w * p
    OBVIOUS
  <2> HIDE DEF w, p, f, g
  <2>3. w * c <= w * p /\ w * p \in Int /\ w * c = c * w
    BY <2>1, ProductGrows
  <2>4. QED
    BY <2>1, <2>2, <2>3
<1>3. Sold(S) = SumFunctionOnSet(f, S) /\ Brought(S) = SumFunctionOnSet(g, S)
  BY DEF Sold, Brought
<1> HIDE DEF f, g
<1>4. SumFunctionOnSet(g, S) >= c * SumFunctionOnSet(f, S)
  BY <1>2, SumOfWeighed
<1>5. SumFunctionOnSet(g, S) \in Int
  BY <1>2, SumIsInt
<1>6. QED
  BY <1>3, <1>4, <1>5

LEMMA BroughtIsInt ==
    ASSUME NEW S \in SUBSET DayExit, IsFiniteSet(S)
    PROVE  Brought(S) \in Int
<1> DEFINE g == [x \in S |-> x.weight * x.price]
<1>1. \A x \in DayExit : x.weight \in Nat /\ x.price \in Int
  BY DEF DayExit
<1>2. \A x \in S : g[x] \in Int
  BY <1>1
<1>3. Brought(S) = SumFunctionOnSet(g, S)
  BY DEF Brought
<1> HIDE DEF g
<1>4. QED
  BY <1>2, <1>3, SumIsInt

\* What was bought for at least what it brought in is a loss after costs.
LEMMA CostsAreALoss ==
    ASSUME NEW b \in Int, NEW r \in Nat, r > 0, b <= r, NEW s \in 0..99, NEW c \in 0..99, s + c > 0
    PROVE  b * (100 - s) * (100 - c) - r * (100 + s) * (100 + c) < 0
<1> DEFINE p == 100 - s
           q == 100 - c
           u == p * q
           v == (100 + s) * (100 + c)
<1>1. p \in Nat /\ q \in Nat
  OBVIOUS
<1>2. v = u + 200 * (s + c)
  OBVIOUS
<1>3. u \in Nat
  <2> HIDE DEF p, q
  <2>1. QED
    BY <1>1
<1>4. v \in Nat /\ u + 1 <= v
  BY <1>2, <1>3
<1>5. b * (100 - s) * (100 - c) = u * b
  <2>1. \A x, y, z \in Int : x * y * z = (y * z) * x
    OBVIOUS
  <2>2. 100 - s \in Int /\ 100 - c \in Int
    OBVIOUS
  <2>3. QED
    BY <2>1, <2>2, Zenon
<1>6. r * (100 + s) * (100 + c) = r * v
  <2>1. \A x, y, z \in Int : x * y * z = x * (y * z)
    OBVIOUS
  <2>2. 100 + s \in Int /\ 100 + c \in Int /\ r \in Int
    OBVIOUS
  <2>3. QED
    BY <2>1, <2>2, Zenon
<1> HIDE DEF u, v
<1>7. u * b <= u * r
  BY <1>3, ProductGrows
<1>8. r * (u + 1) <= r * v
  BY <1>3, <1>4, ProductGrows
<1>9. r * (u + 1) = u * r + r /\ u * r \in Int /\ u * b \in Int /\ r * v \in Int
  BY <1>3, <1>4
<1>10. QED
  BY <1>5, <1>6, <1>7, <1>8, <1>9

LEMMA DayHolds == DayInv => DayTradesAreHonest
<1> SUFFICES ASSUME DayInv, lastTrade # NoTrade PROVE ExitsAreHonest
  BY DEF DayInv, DayTradesAreHonest, ExitsAreHonest
<1> DEFINE exits == lastTrade.exits
           lost == 20 * lastTrade.ref - Brought(exits)
<1>1. /\ lastTrade \in DayPosition /\ lastTrade.stop < lastTrade.ref /\ lastTrade.ref > 0
      /\ IsFiniteSet(exits) /\ Sold(exits) + lastTrade.left = 10 /\ lastTrade.left = 0
      /\ \A x \in exits : ExitHolds(lastTrade, x, tape)
  BY DEF DayInv, TradeHolds
<1>2. /\ exits \in SUBSET DayExit /\ lastTrade.ref \in Nat /\ lastTrade.stop \in Int
      /\ lastTrade.entered \in Nat
  BY <1>1 DEF DayPosition
<1> DEFINE ref == lastTrade.ref
           stop == lastTrade.stop
<1>3. Sold(exits) = 10
  <2>1. Sold(exits) \in Int
    BY <1>1, <1>2, SoldIsInt
  <2>2. QED
    BY <1>1, <2>1
<1>4. Brought(exits) \in Int
  BY <1>1, <1>2, BroughtIsInt
<1>5. \A x \in exits : /\ x.at >= lastTrade.entered /\ x.price <= 2 * tape[x.at].high
                       /\ x.why = "target" => tape[x.at].low > lastTrade.stop
                       /\ x.why = "stop" => x.price >= 2 * tape[x.at].low
  <2> TAKE x \in exits
  <2>1. ExitHolds(lastTrade, x, tape)
    BY <1>1
  <2>2. x.at >= lastTrade.entered
    BY <1>2, <2>1 DEF ExitHolds
  <2>3. QED
    BY <2>1, <2>2 DEF ExitHolds
<1>6. lost > 20 * (ref - stop) => \E x \in exits : x.why = "stop" /\ tape[x.at].open < stop
  <2> SUFFICES ASSUME \A x \in exits : ~(x.why = "stop" /\ tape[x.at].open < stop)
               PROVE  ~(lost > 20 * (ref - stop))
    OBVIOUS
  <2>1. \A x \in exits : x.price >= 2 * stop
    BY <1>1 DEF ExitHolds
  <2> DEFINE c == 2 * stop
  <2>2. c \in Int
    BY <1>2
  <2>3. Brought(exits) >= c * Sold(exits)
    BY <1>1, <1>2, <2>1, <2>2, BroughtIs
  <2>4. Brought(exits) >= 20 * stop
    BY <1>2, <1>3, <2>3
  <2>5. QED
    BY <1>2, <1>4, <2>4
<1>7. lost >= 0 /\ SlippagePct + CommissionPct > 0 => Profit(lastTrade) < 0
  <2> SUFFICES ASSUME lost >= 0, SlippagePct + CommissionPct > 0 PROVE Profit(lastTrade) < 0
    OBVIOUS
  <2> DEFINE r == 20 * ref
             b == Brought(exits)
  <2>1. r \in Nat /\ r > 0 /\ b \in Int /\ b <= r
    BY <1>1, <1>2, <1>4
  <2>2. SlippagePct \in 0..99 /\ CommissionPct \in 0..99
    BY BacktestAssumption DEF BacktestAssumption
  <2>3. Profit(lastTrade) = b * (100 - SlippagePct) * (100 - CommissionPct)
                              - r * (100 + SlippagePct) * (100 + CommissionPct)
    BY DEF Profit
  <2> HIDE DEF r, b
  <2>4. b * (100 - SlippagePct) * (100 - CommissionPct)
          - r * (100 + SlippagePct) * (100 + CommissionPct) < 0
    BY <2>1, <2>2, CostsAreALoss, Zenon
  <2>5. QED
    BY <2>3, <2>4, Zenon
<1>8. QED
  BY <1>1, <1>3, <1>5, <1>6, <1>7 DEF ExitsAreHonest

LEMMA DayStarts == Init => DayInv /\ RuleInv
<1> SUFFICES ASSUME Init PROVE DayInv /\ RuleInv
  OBVIOUS
<1>1. /\ rule \in IF mode = "day trades" THEN Rules ELSE {"none"}
      /\ tape = <<>> /\ decision = None /\ dayTrade = NoTrade /\ lastTrade = NoTrade
  BY Zenon DEF Init, DayInit
<1>2. RuleInv
  BY <1>1, Zenon DEF RuleInv
<1>3. tape \in Seq(Prices)
  <2>1. <<>> \in Seq(Prices)
    OBVIOUS
  <2>2. QED
    BY <1>1, <2>1, Zenon
<1>4. QED
  BY <1>1, <1>2, <1>3, Zenon DEF DayInv, FlatBySessionEnd, EntriesAreSeen

LEMMA DaySteps == DayInv /\ RuleInv /\ [Next]_vars => DayInv' /\ RuleInv'
<1> SUFFICES ASSUME DayInv, RuleInv, [Next]_vars PROVE DayInv' /\ RuleInv'
  OBVIOUS
<1>1. mode' = mode /\ ((mode = "day trades" /\ Bar) \/ UNCHANGED dayVars)
  BY DayMoves, Zenon
<1>2. CASE mode = "day trades" /\ Bar
  <2>1. rule \in Rules
    BY <1>2, Zenon DEF RuleInv
  <2>2. DayInv' /\ rule' = rule
    BY <1>2, <2>1, BarKeeps, Zenon
  <2>3. QED
    BY <1>1, <2>1, <2>2, Zenon DEF RuleInv
<1>3. CASE UNCHANGED dayVars
  <2>1. rule' = rule
    BY <1>3 DEF dayVars
  <2>2. RuleInv'
    BY <1>1, <2>1, Zenon DEF RuleInv
  <2>3. QED
    BY <1>3, <2>2, DayRests, Zenon
<1>4. QED
  BY <1>1, <1>2, <1>3, Zenon

\* For every tape, session, rule, target and cost: a position never outlives its session,
\* a closed trade sold the whole of what it bought at prices its bars had, no target on a
\* bar that touched the stop, its loss is more than its risk only where a bar opened under
\* the stop and no trade is a profit by its costs alone; and every entry is one the
\* scan's tests let through.
THEOREM DayTradesAreHonestHolds == Spec => []DayTradesAreHonest
<1>1. DayInv => DayTradesAreHonest
  BY DayHolds
<1>2. QED
  BY <1>1, DayStarts, DaySteps, PTL DEF Spec

===========================================================================
