---------------------------- MODULE DailyBacktest ----------------------------
(***************************************************************************)
(* The portfolio simulation of src/backtest/engine.py.                     *)
(*                                                                         *)
(* backtest_signal_system walks a calendar: on each date it fills entries  *)
(* at the open, with the cash and the slots that were free then, manages   *)
(* every open position at the close, and appends a point to the equity     *)
(* curve; after the last date it sells what is left.  The price history is *)
(* revealed bar by bar: a frame is whatever opens, closes, signals and     *)
(* gaps (a date on which a ticker did not trade) the simulation meets.     *)
(*                                                                         *)
(* Prices are integers and fractions are percentages; a fill and its       *)
(* commission are what BuyFill, SellFill and Commission make of them.      *)
(***************************************************************************)
EXTENDS Integers, FiniteSets, Functions

CONSTANTS
    Stocks,
    LastDate,        \* dates of the calendar
    InitialCapital,
    MaxConcurrentPositions,
    Opens, Closes,   \* prices a bar may open and close at
    Atrs,            \* values of ATR_14; 0 stands for none that can be used
    RiskPerTrade, MaxPositionPct,   \* percentages of equity
    SlippagePct, CommissionPct      \* percentages of a fill

ASSUME BacktestAssumption ==
    /\ IsFiniteSet(Stocks)
    /\ LastDate \in Nat \ {0} /\ InitialCapital \in Nat
    /\ MaxConcurrentPositions \in Nat
    /\ Opens \subseteq Nat \ {0} /\ Closes \subseteq Nat \ {0} /\ Atrs \subseteq Nat
    /\ RiskPerTrade \in Nat /\ MaxPositionPct \in Nat
    /\ SlippagePct \in 0..99 /\ CommissionPct \in 0..99

VARIABLES
    date,         \* the calendar date
    phase,        \* where the simulation is: see Following, then "force" and "done"
    cash,
    positions,    \* open_positions
    equity,       \* equity_before_entries, marked at the prior close
    slots,        \* available_slots
    pending,      \* candidates still to try, or positions still to manage
    trades,       \* closed_trades: how many, their pnl together, their exit dates
    point         \* the last point of equity_curve

backtestVars == <<date, phase, cash, positions, equity, slots, pending, trades, point>>

AtrStopMult == 2
Percent(x, pct) == (x * pct) \div 100

---------------------------------------------------------------------------
(* Fills, costs and sizes.  Prices carry two decimals once slipped.        *)

BuyFill(price)       == price * (100 + SlippagePct)
SellFill(price)      == price * (100 - SlippagePct)
Commission(notional) == Percent(notional, CommissionPct)
Value(price)         == price * 100

\* target_rr, times two, and target_exit_pcts, in tenths
TargetRR       == <<3, 5, 8>>
TargetExitPcts == <<3, 4, 3>>
Target(pos, i) == pos.entryRef + (TargetRR[i] * pos.risk) \div 2

Minimum(a, b) == IF a < b THEN a ELSE b
Maximum(a, b) == IF a > b THEN a ELSE b

\* int(round(shares * fraction)), which rounds a half to the even number
RoundTenths(n) ==
    LET down == n \div 10 IN
    CASE n % 10 < 5 -> down
      [] n % 10 > 5 -> down + 1
      [] OTHER      -> IF down % 2 = 0 THEN down ELSE down + 1

PartialQty(pos, i) ==
    Minimum(Maximum(RoundTenths(pos.initial * TargetExitPcts[i]), 1), pos.open)

PositionSize(worth, entryRef, stop) ==
    LET risk   == Value(entryRef - stop)
        budget == Percent(Maximum(worth, 0), RiskPerTrade)
        most   == Minimum(cash, Percent(Maximum(worth, 0), MaxPositionPct))
    IN  IF risk <= 0 THEN 0
        ELSE Minimum(budget \div risk, most \div Value(entryRef))

---------------------------------------------------------------------------
(* Positions.                                                              *)

Position == [entryDate : 0..LastDate, initial : Nat, open : Nat, entryRef : Nat, basis : Nat,
             stop : Int, risk : Nat, realized : Int, hit : SUBSET {1, 2}, last : Nat]

NoPosition == [entryDate |-> 0, initial |-> 0, open |-> 0, entryRef |-> 0, basis |-> 0,
               stop |-> 0, risk |-> 0, realized |-> 0, hit |-> {}, last |-> 0]

NewPosition(shares, entryRef, stop) ==
    [entryDate |-> date,
     initial  |-> shares,
     open     |-> shares,
     entryRef |-> entryRef,
     basis    |-> BuyFill(entryRef),
     stop     |-> stop,
     risk     |-> entryRef - stop,
     realized |-> -Commission(shares * BuyFill(entryRef)),
     hit      |-> {},
     last     |-> BuyFill(entryRef)]

Open           == {t \in Stocks : positions[t].open > 0}
MarketValue    == SumFunctionOnSet([t \in Stocks |-> positions[t].open * positions[t].last], Open)
PortfolioValue == cash + MarketValue

\* Mutant: a sale's commission leaves the cash and not the trade's pnl.
BookedGross(pos, qty, level) ==
    [pos EXCEPT !.open = @ - qty,
                !.realized = @ + (SellFill(level) - pos.basis) * qty]

\* _book_sell: the position after a sale, and what the sale adds to the cash
Booked(pos, qty, level) ==
    [pos EXCEPT !.open = @ - qty,
                !.realized = @ + (SellFill(level) - pos.basis) * qty
                               - Commission(qty * SellFill(level))]
Proceeds(qty, level) == qty * SellFill(level) - Commission(qty * SellFill(level))

\* A position and the proceeds of its sales so far on this close.
Account(pos, got) == [pos |-> pos, got |-> got]

Stopped(pos, close) ==
    LET level == Minimum(close, pos.stop)
    IN  Account(Booked(pos, pos.open, level), Proceeds(pos.open, level))

\* One of the first two targets: a part of the position, once.
Partial(a, close, i) ==
    LET qty   == PartialQty(a.pos, i)
        level == Target(a.pos, i)
    IN  IF i \notin a.pos.hit /\ close >= level /\ a.pos.open > 0
        THEN Account([Booked(a.pos, qty, level) EXCEPT !.hit = @ \cup {i}],
                     a.got + Proceeds(qty, level))
        ELSE a

\* The third target: the shares that are left.
Rest(a, close) ==
    IF close >= Target(a.pos, 3) /\ a.pos.open > 0
    THEN Account(Booked(a.pos, a.pos.open, Target(a.pos, 3)),
                 a.got + Proceeds(a.pos.open, Target(a.pos, 3)))
    ELSE a

\* _apply_position_exits: the stop comes first
ApplyExits(pos, close) ==
    IF close <= pos.stop THEN Stopped(pos, close)
    ELSE Rest(Partial(Partial(Account(pos, 0), close, 1), close, 2), close)

---------------------------------------------------------------------------
(* The open: entries.                                                      *)

\* Mutant: the exits of the close come before the entries of the open.
FollowingExitsFirst(step) ==
    CASE step = "start"   -> "close"
      [] step = "exits"   -> "open"
      [] step = "entries" -> "point"

\* The order of a date's steps: entries "BEFORE today's close-based exits".
Following(step) ==
    CASE step = "start"   -> "open"
      [] step = "entries" -> "close"
      [] step = "exits"   -> "point"

\* A date of the calendar begins.  The candidates are the tickers without a
\* position that trade today, were members of the universe and whose previous bar
\* gave a signal; with no free slot none is looked for.
OpenDate ==
    /\ phase = "open"
    /\ slots' = Maximum(0, MaxConcurrentPositions - Cardinality(Open))
    /\ equity' = PortfolioValue
    /\ pending' \in IF slots' > 0 THEN SUBSET (Stocks \ Open) ELSE {{}}
    /\ phase' = "entries"
    /\ UNCHANGED <<date, cash, positions, trades, point>>

Affordable(cost) == cost <= cash

Cost(shares, open) == shares * BuyFill(open) + Commission(shares * BuyFill(open))

\* A candidate, in whatever order they are ranked: filled at the open, or passed
\* over because no ATR can be used, the size is nothing or the cash is short.
Enter(t) ==
    /\ phase = "entries" /\ t \in pending /\ slots > 0
    /\ \E open \in Opens, atr \in Atrs :
          LET stop   == open - AtrStopMult * atr
              shares == PositionSize(equity, open, stop)
              cost   == Cost(shares, open)
          IN  IF atr > 0 /\ shares > 0 /\ Affordable(cost)
              THEN /\ cash' = cash - cost
                   /\ positions' = [positions EXCEPT ![t] = NewPosition(shares, open, stop)]
                   /\ slots' = slots - 1
              ELSE UNCHANGED <<cash, positions, slots>>
    /\ pending' = pending \ {t}
    /\ UNCHANGED <<date, phase, equity, trades, point>>

EntriesEnd ==
    /\ phase = "entries" /\ (pending = {} \/ slots = 0)
    /\ pending' = {}
    /\ phase' = Following("entries")
    /\ UNCHANGED <<date, cash, positions, equity, slots, trades, point>>

---------------------------------------------------------------------------
(* The close: exits, and the point of the date.                            *)

Closed(pos) ==
    [trades EXCEPT !.count = @ + 1, !.pnl = @ + pos.realized,
                   !.today = @ + 1]

\* The positions that are open now, those filled this morning included, are the
\* ones to manage.
CloseDate ==
    /\ phase = "close"
    /\ pending' = Open
    /\ phase' = "exits"
    /\ UNCHANGED <<date, cash, positions, equity, slots, trades, point>>

\* A position whose ticker has a bar on this date.
Exit(t) ==
    /\ phase = "exits" /\ t \in pending
    /\ \E close \in Closes :
          LET after == ApplyExits([positions[t] EXCEPT !.last = Value(close)], close)
          IN  /\ cash' = cash + after.got
              /\ IF after.pos.open = 0
                 THEN /\ trades' = Closed(after.pos)
                      /\ positions' = [positions EXCEPT ![t] = NoPosition]
                 ELSE /\ positions' = [positions EXCEPT ![t] = after.pos]
                      /\ UNCHANGED trades
    /\ pending' = pending \ {t}
    /\ UNCHANGED <<date, phase, equity, slots, point>>

\* A position whose ticker has none, so it is older than this date: it is left as
\* it is.
NoBar(t) ==
    /\ phase = "exits" /\ t \in pending /\ positions[t].entryDate < date
    /\ pending' = pending \ {t}
    /\ UNCHANGED <<date, phase, cash, positions, equity, slots, trades, point>>

Point(value) == [date |-> date, value |-> value]

ExitsEnd ==
    /\ phase = "exits" /\ pending = {}
    /\ phase' = Following("exits")
    /\ UNCHANGED <<date, cash, positions, equity, slots, pending, trades, point>>

EquityPoint ==
    /\ phase = "point"
    /\ point' = Point(PortfolioValue)
    /\ IF date = LastDate
       THEN phase' = "force" /\ UNCHANGED <<date, trades>>
       ELSE /\ phase' = Following("start") /\ date' = date + 1
            /\ trades' = [trades EXCEPT !.today = 0]
    /\ UNCHANGED <<cash, positions, equity, slots, pending>>

---------------------------------------------------------------------------
(* The end: what is left is sold at the last close of its frame.           *)

ForceClose(t) ==
    /\ phase = "force" /\ t \in Open
    /\ LET pos   == positions[t]
           price == pos.last \div 100
       IN  /\ cash' = cash + Proceeds(pos.open, price)
           /\ trades' = Closed(Booked(pos, pos.open, price))
    /\ positions' = [positions EXCEPT ![t] = NoPosition]
    /\ UNCHANGED <<date, phase, equity, slots, pending, point>>

\* The last point is replaced by the cash.
Reconcile ==
    /\ phase = "force" /\ Open = {}
    /\ point' = Point(cash)
    /\ phase' = "done"
    /\ UNCHANGED <<date, cash, positions, equity, slots, pending, trades>>

---------------------------------------------------------------------------

BacktestInit ==
    /\ date = 1
    /\ phase = Following("start")
    /\ cash = Value(InitialCapital)
    /\ positions = [t \in Stocks |-> NoPosition]
    /\ equity = 0 /\ slots = 0 /\ pending = {}
    /\ trades = [count |-> 0, pnl |-> 0, today |-> 0]
    /\ point = [date |-> 0, value |-> 0]

BacktestNext ==
    \/ OpenDate \/ EntriesEnd \/ CloseDate \/ ExitsEnd \/ EquityPoint \/ Reconcile
    \/ \E t \in Stocks : Enter(t) \/ Exit(t) \/ NoBar(t) \/ ForceClose(t)

BacktestSpec == BacktestInit /\ [][BacktestNext]_backtestVars

---------------------------------------------------------------------------
(* What the portfolio simulation promises of its books.                    *)

\* Every variable holds a value of its kind: in particular a position never sells
\* more shares than it has.
BacktestTypeOK ==
    /\ date \in 1..LastDate
    /\ phase \in {"open", "entries", "close", "exits", "point", "force", "done"}
    /\ cash \in Int /\ equity \in Int /\ slots \in Nat
    /\ positions \in [Stocks -> Position]
    /\ pending \subseteq Stocks
    /\ trades \in [count : Nat, pnl : Int, today : Nat]
    /\ point \in [date : 0..LastDate, value : Int]

\* What a position has realised, less the cost of the shares it still holds.
Carries(pos) == pos.realized - pos.basis * pos.open

\* The books balance: what the account has is what it started with, plus the pnl of
\* the closed trades, plus what the positions carry.  At the end the curve closes on initial capital plus the
\* pnl of the trades that are reported, whatever the fills and the costs were.
BooksBalance ==
    /\ cash = Value(InitialCapital) + trades.pnl
                + SumFunctionOnSet([t \in Stocks |-> Carries(positions[t])], Stocks)
    /\ phase = "done" => /\ Open = {}
                         /\ point.value = Value(InitialCapital) + trades.pnl

\* "Exit proceeds and slots released at today's close must not retroactively fund a
\* fill that happened hours earlier": all that was held during a date, the
\* positions closed on it included, fitted into the slots at its open.
SlotsFreeAtTheOpen ==
    Cardinality(Open) + trades.today <= MaxConcurrentPositions

===========================================================================
