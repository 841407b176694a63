----------------------------- MODULE EntryGate -----------------------------
(***************************************************************************)
(* The limits on new entries: execute_trade_plan and RiskGuard.check of    *)
(* src/alpaca/executor.py, over the whole PositionTracker and the whole    *)
(* account.                                                                *)
(*                                                                         *)
(* PositionLifecycle follows the shares of one position; this module       *)
(* follows many positions and forgets their shares.  What the broker has   *)
(* for a ticker, and what the tracker believes, is one word each.  The     *)
(* executor handles one plan at a time, so its checks are a read of the    *)
(* account followed, later, by a read of the tracker, while the broker and *)
(* the monitor thread go on.                                               *)
(*                                                                         *)
(* RiskGuard's other checks (breaker, sizing, cash, losses, earnings,      *)
(* catalysts, graduation) can only refuse a plan: Refuse stands for them.  *)
(***************************************************************************)
EXTENDS Integers, FiniteSets, TLC

CONSTANTS
    Tickers,
    NoTicker,       \* the executor has no plan
    MaxPositions,   \* SAFETY.max_positions
    MaxTrades,      \* SAFETY.max_trades_per_day
    MaxDay,         \* bound: days
    MaxFaults       \* bound: faults of all kinds

ASSUME TickersAssumption == NoTicker \notin Tickers /\ IsFiniteSet(Tickers)
ASSUME LimitsAssumption ==
    /\ MaxPositions \in Nat /\ MaxTrades \in Nat
    /\ MaxDay \in Nat /\ MaxFaults \in Nat

VARIABLES
    day,
    account,   \* what the broker has for each ticker
    mem,       \* the tracker's memory
    disk,      \* the JSON store
    pc,        \* where the executor is with its plan
    plan,      \* the ticker of the plan
    holdings,  \* the tickers get_portfolio_data returned
    faults,    \* faults that may still happen
    stray,     \* history: tickers the broker has something for that no record covers
    behind,    \* history: a restart read a store that a failed save had left behind
    added      \* history: entries recorded on each day

vars == <<day, account, mem, disk, pc, plan, holdings, faults, stray, behind, added>>
tracker == <<mem, disk>>
executor == <<pc, plan, holdings>>
history == <<stray, behind, added>>

Days     == 0..MaxDay
\* "working": an entry order, nothing bought; "part": an entry order that has bought
\* some; "filled": it has bought all; "remnant": it ended after it bought some.
Accounts == {"flat", "working", "part", "filled", "remnant"}
Statuses == {"none", "pending_fill", "active", "closed"}
Book     == [status : [Tickers -> Statuses], opened : [Tickers -> Days],
             entries : [Days -> Nat]]

\* A reply that is lost, an add_position that raises, a cancel that fails, a save()
\* that fails and is logged, a process that dies: each is one fault.
Fault == faults > 0 /\ faults' = faults - 1

Become(t, what)       == account' = [account EXCEPT ![t] = what]
HasShares(t)          == account[t] \in {"part", "filled", "remnant"}
Mark(book, t, status) == [book EXCEPT !.status[t] = status]

\* get_open
OpenIn(book) == {t \in Tickers : book.status[t] \in {"pending_fill", "active"}}

\* A ticker the broker is done with is no stray any more.
Straying(more) == stray' = {t \in stray \cup more : account'[t] # "flat"}

\* save()
Commit(book) ==
    /\ mem' = book
    /\ \/ disk' = book /\ faults' = faults
       \/ Fault /\ disk' = disk

---------------------------------------------------------------------------
(* The executor.                                                           *)

Return == pc' = "idle" /\ plan' = NoTicker

\* execute_trade_plan, up to get_portfolio_data.  An unreadable account rejects the
\* plan.
ReadPortfolio ==
    /\ pc = "idle"
    /\ plan' \in Tickers
    /\ holdings' = {t \in Tickers : HasShares(t)}
    /\ pc' = "check"
    /\ UNCHANGED <<day, account, tracker, faults, history>>

\* Any of the other checks.
Refuse ==
    /\ pc = "check"
    /\ Return /\ holdings' = {}
    /\ UNCHANGED <<day, account, tracker, faults, history>>

\* Mutant: has_open sees only positions that have filled.
HasOpenActive(t) == mem.status[t] = "active"

\* has_open
HasOpen(t) == t \in OpenIn(mem)

\* Mutant: the larger of the two counts.
LargerCount ==
    IF Cardinality(holdings) > Cardinality(OpenIn(mem))
    THEN Cardinality(holdings) ELSE Cardinality(OpenIn(mem))

\* "Broker positions plus any OPEN tracker positions the broker does not yet report"
PositionCount == Cardinality(holdings) + Cardinality(OpenIn(mem) \ holdings)

\* Mutant: records of today are counted instead of entries.
RecordsToday ==
    Cardinality({t \in Tickers : mem.status[t] # "none" /\ mem.opened[t] = day})

\* trades_today
TradesToday == mem.entries[day]

\* RiskGuard.check.  Its reads of the tracker are one step: only the executor opens
\* records, and one that closes in between only lowers the counts.
Approve ==
    /\ pc = "check"
    /\ ~HasOpen(plan)
    /\ PositionCount < MaxPositions
    /\ TradesToday < MaxTrades
    /\ pc' = "submit"
    /\ UNCHANGED <<day, account, tracker, plan, holdings, faults, history>>

\* The broker's side of an accepted entry order.
Entered == Become(plan, IF HasShares(plan) THEN "part" ELSE "working")

Submit ==
    /\ pc = "submit"
    /\ \/ /\ Entered
          /\ pc' = "track" /\ UNCHANGED <<plan, faults, stray>>
       \/ /\ Return /\ UNCHANGED <<account, faults, stray>>
       \/ /\ Fault /\ Entered /\ Straying({plan})
          /\ Return
    /\ holdings' = {}
    /\ UNCHANGED <<day, tracker, behind, added>>

\* add_position
Track ==
    /\ pc = "track" /\ Return
    /\ Commit([Mark(mem, plan, "pending_fill") EXCEPT !.opened[plan] = day,
                                                      !.entries[day] = @ + 1])
    /\ added' = [added EXCEPT ![day] = @ + 1]
    /\ UNCHANGED <<day, account, holdings, stray, behind>>

\* cancel_order
Cancelled(t) ==
    IF account[t] = "working" THEN "flat"
    ELSE IF account[t] = "part" THEN "remnant" ELSE account[t]

\* add_position raises; the entry is cancelled, if that works.
TrackFails ==
    /\ pc = "track" /\ Return
    /\ \/ Fault /\ Become(plan, Cancelled(plan))
       \/ faults > 1 /\ faults' = faults - 2 /\ account' = account
    /\ Straying({plan})
    /\ UNCHANGED <<day, tracker, holdings, behind, added>>

---------------------------------------------------------------------------
(* The monitor thread, one record at a time.                               *)

\* _finalize_entry_fill, after cancelling the rest of a partial entry
NoticeFill(t) ==
    /\ mem.status[t] = "pending_fill" /\ account[t] \in {"part", "filled"}
    /\ \/ /\ Become(t, Cancelled(t))
          /\ Commit(Mark(mem, t, "active"))
       \/ /\ account[t] = "part" /\ Fault
          /\ mem' = Mark(mem, t, "active") /\ disk' = mem' /\ account' = account
    /\ Straying({})
    /\ UNCHANGED <<day, executor, behind, added>>

\* _check_entry_fill: the entry order has ended, whatever it had bought.
NoticeDead(t) ==
    /\ mem.status[t] = "pending_fill" /\ account[t] \in {"flat", "remnant"}
    /\ Commit(Mark(mem, t, "closed"))
    /\ account' = account
    /\ Straying({t})
    /\ UNCHANGED <<day, executor, behind, added>>

\* _check_exits_oco: every tranche has been sold.
NoticeSold(t) ==
    /\ mem.status[t] = "active" /\ ~HasShares(t)
    /\ Commit(Mark(mem, t, "closed"))
    /\ account' = account
    /\ Straying({t})
    /\ UNCHANGED <<day, executor, behind, added>>

---------------------------------------------------------------------------
(* The broker and the calendar.                                            *)

Buy(t) ==
    /\ account[t] \in {"working", "part"}
    /\ \E what \in {"part", "filled"} : Become(t, what)
    /\ UNCHANGED <<day, tracker, executor, faults, history>>

Expire(t) ==
    /\ account[t] \in {"working", "part"}
    /\ Become(t, Cancelled(t))
    /\ Straying({})
    /\ UNCHANGED <<day, tracker, executor, faults, behind, added>>

\* The exits of a filled position sell all of it.
Sell(t) ==
    /\ HasShares(t) /\ mem.status[t] # "pending_fill"
    /\ Become(t, IF account[t] = "part" THEN "working" ELSE "flat")
    /\ Straying({})
    /\ UNCHANGED <<day, tracker, executor, faults, behind, added>>

Midnight ==
    /\ day < MaxDay
    /\ day' = day + 1
    /\ UNCHANGED <<account, tracker, executor, faults, history>>

---------------------------------------------------------------------------
(* The process dies and is started again.                                  *)

\* load(): records closed on an earlier day are dropped, and so are the entry
\* counts of other days.
Loaded(book) ==
    LET kept  == {t \in Tickers : book.status[t] # "closed" \/ book.opened[t] = day}
        today == {t \in kept : book.status[t] # "none" /\ book.opened[t] = day}
        count == IF book.entries[day] < Cardinality(today)
                 THEN Cardinality(today) ELSE book.entries[day]
    IN  [status  |-> [t \in Tickers |-> IF t \in kept THEN book.status[t] ELSE "none"],
         opened  |-> book.opened,
         entries |-> [d \in Days |-> IF d = day THEN count ELSE 0]]

Crash ==
    /\ Fault
    /\ mem' = Loaded(disk)
    /\ Return /\ holdings' = {}
    /\ behind' = (behind \/ disk # mem)
    /\ account' = account
    /\ Straying(IF pc = "track" THEN {plan} ELSE {})
    /\ UNCHANGED <<day, disk, added>>

---------------------------------------------------------------------------

Empty == [status |-> [t \in Tickers |-> "none"], opened |-> [t \in Tickers |-> 0],
          entries |-> [d \in Days |-> 0]]

Init ==
    /\ day = 0
    /\ account = [t \in Tickers |-> "flat"]
    /\ mem = Empty /\ disk = Empty
    /\ pc = "idle" /\ plan = NoTicker /\ holdings = {}
    /\ faults = MaxFaults
    /\ stray = {} /\ behind = FALSE /\ added = [d \in Days |-> 0]

Execute == ReadPortfolio \/ Refuse \/ Approve \/ Submit \/ Track \/ TrackFails

Next ==
    \/ Execute
    \/ \E t \in Tickers : \/ NoticeFill(t) \/ NoticeDead(t) \/ NoticeSold(t)
                          \/ Buy(t) \/ Expire(t) \/ Sell(t)
    \/ Midnight
    \/ Crash

Spec == Init /\ [][Next]_vars

---------------------------------------------------------------------------
(* What the entry limits promise about the account.                        *)

\* Every variable holds a value of its kind.
TypeOK ==
    /\ day \in Days
    /\ account \in [Tickers -> Accounts]
    /\ mem \in Book /\ disk \in Book
    /\ pc \in {"idle", "check", "submit", "track"}
    /\ plan \in Tickers \cup {NoTicker} /\ (plan = NoTicker <=> pc = "idle")
    /\ holdings \subseteq Tickers
    /\ faults \in Nat
    /\ stray \subseteq Tickers /\ behind \in BOOLEAN
    /\ added \in [Days -> Nat]

Exposed == {t \in Tickers : account[t] # "flat"}

\* When an entry is submitted, max_positions holds at the broker, counting entry
\* orders that still work, although the account was read before the tracker and both
\* have moved since.  What no record covers (an entry whose reply was lost, that could
\* not be recorded or that bought some shares before it ended) counts from when the
\* account shows it.  Left out is a store that had fallen behind.
PositionLimit ==
    [][(pc = "submit" /\ pc' = "track") =>
          \/ behind
          \/ Cardinality({t \in Exposed' : t \notin stray \/ t \in holdings}) <= MaxPositions]_vars

\* max_trades_per_day holds for every day, across restarts and although a ticker that
\* is entered twice has one record.
DailyLimit == behind \/ \A d \in Days : added[d] <= MaxTrades

\* The day's entries are counted right in a book that is well formed.
EntriesAreCounted == TypeOK /\ DailyLimit

\* An entry is submitted for a ticker only when the broker has nothing for it, unless
\* no record covers what it has.
NoDoubleEntry ==
    [][(pc = "submit" /\ pc' = "track") =>
          behind \/ plan \in stray \/ account[plan] = "flat"]_vars

---------------------------------------------------------------------------

\* For TLC: which ticker is which makes no difference.
Interchangeable == Permutations(Tickers)

===========================================================================
