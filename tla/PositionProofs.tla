--------------------------- MODULE PositionProofs ---------------------------
(***************************************************************************)
(* Proofs about the life-cycle of a position, for every number of shares   *)
(* and every fault budget.                                                 *)
(*                                                                         *)
(* RecordInv is the inductive invariant behind type correctness, the share *)
(* accounting and the refinement: what a record looks like in each status, *)
(* and that the monitor is only ever at a step that fits the record's      *)
(* status.                                                                 *)
(*                                                                         *)
(* LedgerInv is the inductive invariant behind the realized-P&L ledger and *)
(* the exit orders: booked and open shares make up the fill, an order that *)
(* is recorded covers its tranche until it is booked, and in memory a      *)
(* booked order is cleared before the monitor does anything else.          *)
(***************************************************************************)
EXTENDS PositionProperties, SumLemmas, TLAPS

AllOpen(p) == \A lv \in Levels : p.tranche[lv].outcome = "open"

RecordOK(p) ==
    /\ AddsUp(p)
    /\ p.status = "pending_fill" => AllOpen(p)

\* A working exit group has shares left to sell; a live entry has some to buy.
BrokerOK ==
    /\ \A o \in ExitIds : exits[o].state = "live" => exits[o].tp < exits[o].qty
    /\ EntryLive => entry.filled < Shares
    /\ main = "ready" => entry.status = "none" /\ entry.filled = 0

\* The step the monitor is at fits the record it works on.
MonitorFits ==
    /\ mon.at \in {"entry", "cancel", "refetch", "finalize"}
          => mem.status = "pending_fill"
    /\ mon.at \in {"check", "clear", "place", "record", "close"}
          => mem.status = "active"

\* Nothing is recorded before add_position.
MainFits ==
    main \in {"ready", "submitted"} => mem.status = "none" /\ disk.status = "none"

RecordInv ==
    /\ TypeOK
    /\ RecordOK(mem)
    /\ RecordOK(disk)
    /\ BrokerOK
    /\ MonitorFits
    /\ MainFits

---------------------------------------------------------------------------
(* The record operators.                                                   *)

LEMMA RoundTenthsIsNat == ASSUME NEW x \in Nat PROVE RoundTenths(x) \in Nat
<1>1. x \div 10 \in Nat
  BY SMT
<1>2. QED
  BY <1>1, SMT DEF RoundTenths

\* _allocate_exit_tranches never sells more or fewer shares than it is given:
\* the three tranches are natural numbers that add up to the position.
THEOREM AllocationAddsUp ==
    ASSUME NEW shares \in Nat
    PROVE  /\ \A lv \in Levels : AllocateExitTranches(shares)[lv] \in Nat
           /\ AllocateExitTranches(shares)[1] + AllocateExitTranches(shares)[2]
                 + AllocateExitTranches(shares)[3] = shares
<1>1. /\ RoundTenths(3 * shares) \in Nat
      /\ RoundTenths(4 * shares) \in Nat
  BY RoundTenthsIsNat
<1>2. QED
  BY <1>1 DEF AllocateExitTranches, Least, Greatest, Levels

LEMMA NoPositionOK == NoPosition \in Position /\ RecordOK(NoPosition)
  BY MaxExitsAssumption
  DEF NoPosition, Position, Statuses, Reasons, Tranche, Outcomes, ExitIds, NoExit,
      Levels, RecordOK, AddsUp, AllOpen, Unsold, Remaining, Unresolved

LEMMA AddPositionOK ==
    ASSUME NEW n \in Nat \ {0}
    PROVE  /\ AddPosition(n) \in Position
           /\ RecordOK(AddPosition(n))
           /\ AddPosition(n).status = "pending_fill"
           /\ AddPosition(n).initial = n
           /\ AddPosition(n).open = n
<1>1. /\ \A lv \in Levels : AllocateExitTranches(n)[lv] \in Nat
      /\ AllocateExitTranches(n)[1] + AllocateExitTranches(n)[2]
            + AllocateExitTranches(n)[3] = n
  BY AllocationAddsUp
<1>2. FreshTranches(n) \in [Levels -> Tranche]
  BY <1>1 DEF FreshTranches, Tranche, Outcomes
<1>3. AddPosition(n) \in Position
  BY <1>2 DEF AddPosition, Position, Statuses, Reasons
<1>4. RecordOK(AddPosition(n))
  BY <1>1 DEF AddPosition, RecordOK, AddsUp, AllOpen, Unsold, Remaining, Unresolved,
                    FreshTranches, Levels
<1>5. QED
  BY <1>3, <1>4 DEF AddPosition


LEMMA MarkEntryFilledOK ==
    ASSUME NEW p \in Position, NEW n \in Nat \ {0},
           AllOpen(p)
    PROVE  /\ MarkEntryFilled(p, n) \in Position
           /\ RecordOK(MarkEntryFilled(p, n))
           /\ MarkEntryFilled(p, n).status = "active"
           /\ MarkEntryFilled(p, n).initial = n
           /\ MarkEntryFilled(p, n).open = n
           /\ MarkEntryFilled(p, n).booked = p.booked
           /\ MarkEntryFilled(p, n).reason = p.reason
           /\ \A lv \in Levels : MarkEntryFilled(p, n).tranche[lv].order = p.tranche[lv].order
<1> DEFINE q == MarkEntryFilled(p, n)
<1>1. /\ \A lv \in Levels : AllocateExitTranches(n)[lv] \in Nat
      /\ AllocateExitTranches(n)[1] + AllocateExitTranches(n)[2]
            + AllocateExitTranches(n)[3] = n
  BY AllocationAddsUp
<1>2. /\ q.tranche \in [Levels -> Tranche]
      /\ \A lv \in Levels : /\ q.tranche[lv].shares = AllocateExitTranches(n)[lv]
                            /\ q.tranche[lv].outcome = "open"
                            /\ q.tranche[lv].order = p.tranche[lv].order
  BY <1>1 DEF MarkEntryFilled, Position, Tranche, AllOpen
<1>3. /\ q.status = "active" /\ q.initial = n /\ q.open = n
      /\ q.booked = p.booked /\ q.reason = p.reason
  BY DEF MarkEntryFilled, Position
<1>4. q \in Position
  BY <1>2, <1>3 DEF MarkEntryFilled, Position, Statuses
<1>5. RecordOK(q)
  BY <1>1, <1>2, <1>3 DEF RecordOK, AddsUp, Unsold, Remaining, Unresolved, Levels
<1>6. QED
  BY <1>2, <1>3, <1>4, <1>5

LEMMA MarkOcoPlacedOK ==
    ASSUME NEW p \in Position, NEW lv \in Levels, NEW o \in ExitIds \cup {NoExit},
           p.status = "active", RecordOK(p)
    PROVE  /\ MarkOcoPlaced(p, lv, o) \in Position
           /\ RecordOK(MarkOcoPlaced(p, lv, o))
           /\ MarkOcoPlaced(p, lv, o).status = "active"
           /\ MarkOcoPlaced(p, lv, o).booked = p.booked
           /\ MarkOcoPlaced(p, lv, o).reason = p.reason
           /\ Abstract(MarkOcoPlaced(p, lv, o)) = Abstract(p)
           /\ \A k \in Levels :
                 /\ MarkOcoPlaced(p, lv, o).tranche[k].order
                       = IF k = lv THEN o ELSE p.tranche[k].order
                 /\ MarkOcoPlaced(p, lv, o).tranche[k].shares = p.tranche[k].shares
                 /\ Unresolved(MarkOcoPlaced(p, lv, o), k) <=> Unresolved(p, k)
<1> DEFINE q == MarkOcoPlaced(p, lv, o)
<1>1. /\ q.status = "active" /\ q.initial = p.initial /\ q.open = p.open
      /\ q.booked = p.booked /\ q.reason = p.reason
  BY DEF MarkOcoPlaced, Position
<1>2. /\ q.tranche \in [Levels -> Tranche]
      /\ \A k \in Levels : /\ q.tranche[k].shares = p.tranche[k].shares
                           /\ q.tranche[k].outcome = p.tranche[k].outcome
                           /\ q.tranche[k].order = IF k = lv THEN o ELSE p.tranche[k].order
  BY DEF MarkOcoPlaced, Position, Tranche
<1>3. q \in Position
  BY <1>1, <1>2 DEF MarkOcoPlaced, Position
<1>4. RecordOK(q)
  BY <1>1, <1>2 DEF RecordOK, AddsUp, Unsold, Remaining, Unresolved, Levels
<1>5. QED
  BY <1>1, <1>2, <1>3, <1>4 DEF Abstract, Unresolved


LEMMA ResolveTrancheOK ==
    ASSUME NEW p \in Position, NEW lv \in Levels, NEW n \in Nat,
           NEW outcome \in Outcomes, outcome # "open",
           p.status = "active", RecordOK(p), Unresolved(p, lv),
           p.tranche[lv].order \in ExitIds
    PROVE  /\ ResolveTranche(p, lv, outcome, n) \in Position
           /\ RecordOK(ResolveTranche(p, lv, outcome, n))
           /\ ResolveTranche(p, lv, outcome, n).status = "active"
           /\ ResolveTranche(p, lv, outcome, n).initial = p.initial
           /\ \E k \in 1..p.open : ResolveTranche(p, lv, outcome, n).open = p.open - k
           /\ ~Unresolved(ResolveTranche(p, lv, outcome, n), lv)
           /\ \A k \in Levels :
                 /\ ResolveTranche(p, lv, outcome, n).tranche[k].order = p.tranche[k].order
                 /\ Unresolved(ResolveTranche(p, lv, outcome, n), k) => Unresolved(p, k)
<1> DEFINE q == ResolveTranche(p, lv, outcome, n)
           o == p.tranche[lv].order
<1>1. /\ q.status = "active" /\ q.initial = p.initial /\ q.reason = p.reason
      /\ q.open = Greatest(0, p.open - p.tranche[lv].shares)
      /\ q.booked = [p.booked EXCEPT ![o] = @ + n]
  BY DEF ResolveTranche, AppendRealized, Position
<1>2. /\ q.tranche \in [Levels -> Tranche]
      /\ \A k \in Levels :
            /\ q.tranche[k].shares = p.tranche[k].shares
            /\ q.tranche[k].order = p.tranche[k].order
            /\ q.tranche[k].outcome = IF k = lv THEN outcome ELSE p.tranche[k].outcome
  BY DEF ResolveTranche, AppendRealized, Position, Tranche, Outcomes
<1>3. /\ p.open = Remaining(p, 1) + Remaining(p, 2) + Remaining(p, 3)
      /\ \A k \in Levels : Remaining(p, k) \in Nat /\ p.tranche[k].shares \in Nat
  BY DEF RecordOK, AddsUp, Unsold, Remaining, Position, Tranche
<1>4. p.tranche[lv].shares \in 1..p.open
  BY <1>3 DEF Remaining, Unresolved, Levels
<1>5. q.open = p.open - p.tranche[lv].shares
  BY <1>1, <1>3, <1>4 DEF Greatest, Levels
<1>6. q \in Position
  <2>1. q.booked \in [ExitIds -> Nat]
    BY <1>1 DEF Position
  <2>2. q.open \in Nat /\ q.initial \in Nat /\ q.reason \in Reasons
    BY <1>1, <1>4, <1>5 DEF Position
  <2>3. QED
    BY <1>1, <1>2, <2>1, <2>2 DEF ResolveTranche, AppendRealized, Position, Statuses
<1>7. RecordOK(q)
  <2>1. /\ \A k \in Levels \ {lv} : Remaining(q, k) = Remaining(p, k)
        /\ Remaining(q, lv) = 0
        /\ Remaining(p, lv) = p.tranche[lv].shares
    BY <1>2 DEF Remaining, Unresolved
  <2>2. q.open = Remaining(q, 1) + Remaining(q, 2) + Remaining(q, 3)
    BY <1>3, <1>5, <2>1 DEF Levels
  <2>3. QED
    BY <1>1, <2>2 DEF RecordOK, AddsUp, Unsold
<1>8. QED
  BY <1>1, <1>2, <1>4, <1>5, <1>6, <1>7 DEF Unresolved

\* What a resolved tranche gives up, and what is booked for it.
LEMMA ResolveTrancheBooks ==
    ASSUME NEW p \in Position, NEW lv \in Levels, NEW n \in Nat, NEW outcome \in Outcomes,
           p.status = "active", RecordOK(p), Unresolved(p, lv)
    PROVE  LET q == ResolveTranche(p, lv, outcome, n)
           IN  /\ q.reason = p.reason
               /\ q.open = p.open - p.tranche[lv].shares
               /\ q.booked = [p.booked EXCEPT ![p.tranche[lv].order] = @ + n]
               /\ \A k \in Levels : q.tranche[k].shares = p.tranche[k].shares
<1>1. p.open = Remaining(p, 1) + Remaining(p, 2) + Remaining(p, 3)
  BY DEF RecordOK, AddsUp, Unsold
<1>2. /\ \A k \in Levels : Remaining(p, k) \in Nat /\ p.tranche[k].shares \in Nat
      /\ Remaining(p, lv) = p.tranche[lv].shares
  BY DEF Remaining, Position, Tranche
<1>3. Greatest(0, p.open - p.tranche[lv].shares) = p.open - p.tranche[lv].shares
  BY <1>1, <1>2, SMTT(30) DEF Greatest, Levels
<1>4. QED
  BY <1>3 DEF ResolveTranche, AppendRealized, Position, Tranche

LEMMA ResizeTrancheOK ==
    ASSUME NEW p \in Position, NEW lv \in Levels, NEW sold \in Nat \ {0},
           p.status = "active", RecordOK(p), Unresolved(p, lv),
           p.tranche[lv].order \in ExitIds
    PROVE  LET q == ResizeTranche(p, lv, Greatest(0, p.tranche[lv].shares - sold), sold)
               o == p.tranche[lv].order
           IN  /\ q \in Position
               /\ RecordOK(q)
               /\ q.status = "active" /\ q.initial = p.initial /\ q.reason = p.reason
               /\ sold < p.tranche[lv].shares => q.open = p.open - sold
               /\ \E k \in 1..p.open : q.open = p.open - k
               /\ q.booked = [p.booked EXCEPT ![o] = @ + sold]
               /\ \A k \in Levels :
                     /\ q.tranche[k].order = p.tranche[k].order
                     /\ k # lv => q.tranche[k].shares = p.tranche[k].shares
                     /\ Unresolved(q, k) => Unresolved(p, k)
<1> DEFINE old == p.tranche[lv].shares
           rest == Greatest(0, old - sold)
           q == ResizeTranche(p, lv, rest, sold)
           o == p.tranche[lv].order
<1>1. /\ old \in Nat \ {0}
      /\ rest \in 0..(old - 1)
      /\ Greatest(0, Least(old, rest)) = rest
  BY DEF Unresolved, Position, Tranche, Greatest, Least
<1>2. /\ q.status = "active" /\ q.initial = p.initial /\ q.reason = p.reason
      /\ q.open = Greatest(0, p.open - (old - rest))
      /\ q.booked = [p.booked EXCEPT ![o] = @ + sold]
  <2> HIDE DEF rest
  <2>1. q = AppendRealized([p EXCEPT !.open = Greatest(0, @ - (old - rest)),
                                     !.tranche[lv].shares = rest], o, sold)
    BY <1>1 DEF ResizeTranche
  <2>2. QED
    BY <2>1 DEF AppendRealized, Position
<1>3. /\ q.tranche \in [Levels -> Tranche]
      /\ \A k \in Levels :
            /\ q.tranche[k].shares = IF k = lv THEN rest ELSE p.tranche[k].shares
            /\ q.tranche[k].order = p.tranche[k].order
            /\ q.tranche[k].outcome = p.tranche[k].outcome
  <2> HIDE DEF rest
  <2>1. q = AppendRealized([p EXCEPT !.open = Greatest(0, @ - (old - rest)),
                                     !.tranche[lv].shares = rest], o, sold)
    BY <1>1 DEF ResizeTranche
  <2>2. QED
    BY <1>1, <2>1 DEF AppendRealized, Position, Tranche
<1> HIDE DEF rest, q
<1>4. /\ p.open = Remaining(p, 1) + Remaining(p, 2) + Remaining(p, 3)
      /\ \A k \in Levels : Remaining(p, k) \in Nat /\ p.tranche[k].shares \in Nat
  BY DEF RecordOK, AddsUp, Unsold, Remaining, Position, Tranche
<1>5. old \in 1..p.open /\ p.open \in Nat
  BY <1>1, <1>4 DEF Remaining, Unresolved, Levels, Position
<1>6. q.open = p.open - (old - rest) /\ q.open \in Nat
  BY <1>1, <1>2, <1>5 DEF Greatest
<1>7. q \in Position
  <2>1. q.booked \in [ExitIds -> Nat]
    BY <1>2 DEF Position
  <2>2. QED
    BY <1>2, <1>3, <1>6, <2>1 DEF q, ResizeTranche, AppendRealized, Position, Statuses
<1>8. RecordOK(q)
  <2>1. /\ \A k \in Levels \ {lv} : Remaining(q, k) = Remaining(p, k)
        /\ Remaining(q, lv) = rest
        /\ Remaining(p, lv) = old
    BY <1>1, <1>3 DEF Remaining, Unresolved
  <2>2. q.open = Remaining(q, 1) + Remaining(q, 2) + Remaining(q, 3)
    BY <1>1, <1>4, <1>6, <2>1 DEF Levels
  <2>3. QED
    BY <1>2, <2>2 DEF RecordOK, AddsUp, Unsold
<1>9. \E k \in 1..p.open : q.open = p.open - k
  <2>1. (old - rest) \in 1..p.open
    BY <1>1, <1>5
  <2>2. QED
    BY <1>6, <2>1
<1>10. sold < old => q.open = p.open - sold
  BY <1>1, <1>6 DEF rest, Greatest
<1>11. QED
  BY <1>2, <1>3, <1>7, <1>8, <1>9, <1>10 DEF q, rest, Unresolved, Position, Tranche

LEMMA ResizeKeeps ==
    ASSUME NEW p \in Position, NEW lv \in Levels, NEW sold \in Nat \ {0},
           p.status = "active", RecordOK(p), Unresolved(p, lv),
           p.tranche[lv].order \in ExitIds
    PROVE  LET q == ResizeTranche(p, lv, Greatest(0, p.tranche[lv].shares - sold), sold)
           IN  q \in Position /\ RecordOK(q) /\ q.status = "active"
  BY ResizeTrancheOK, Zenon

LEMMA MarkClosedOK ==
    ASSUME NEW p \in Position, NEW reason \in Reasons, p.status # "closed"
    PROVE  LET q == MarkClosed(p, reason)
           IN  /\ q \in Position
               /\ RecordOK(q)
               /\ q.status = "closed" /\ q.initial = p.initial /\ q.open = 0
               /\ q.reason = reason
               /\ q.booked = p.booked
               /\ q.tranche = p.tranche
  BY DEF MarkClosed, Position, Statuses, RecordOK, AddsUp


---------------------------------------------------------------------------
(* The invariant of the record.                                            *)

LEMMA SpendOK ==
    ASSUME left \in [Faults -> Nat], NEW kind \in Faults \ {"any"}, CanFail(kind), Spend(kind)
    PROVE  left' \in [Faults -> Nat]
  BY DEF CanFail, Spend, Faults

LEMMA CommitOK ==
    ASSUME NEW p, left \in [Faults -> Nat], Commit(p)
    PROVE  mem' = p /\ disk' \in {p, disk} /\ left' \in [Faults -> Nat]
  BY SpendOK DEF Commit, Faults

LEMMA IdleOK == Idle \in Monitor
  BY SharesAssumption DEF Idle, Monitor, MonitorSteps, Levels, NoExit

LEMMA AdvanceOK ==
    ASSUME mon \in Monitor
    PROVE  /\ Advance \in Monitor
           /\ Advance.at \in {"place", "check", "close", "idle"}
<1>1. mon.lv \in 1..3 /\ mon.from \in {"finalize", "check"}
  BY DEF Monitor, Levels
<1>2. CASE mon.lv < 3 /\ mon.from = "finalize"
  <2>1. Advance = [at |-> "place", lv |-> mon.lv + 1, from |-> "finalize",
                   id |-> NoExit, qty |-> 0]
    BY <1>2 DEF Advance, Idle
  <2>2. QED
    BY <1>1, <1>2, <2>1, SharesAssumption DEF Monitor, MonitorSteps, Levels
<1>3. CASE mon.lv < 3 /\ mon.from = "check"
  <2>1. Advance = [at |-> "check", lv |-> mon.lv + 1, from |-> "check",
                   id |-> NoExit, qty |-> 0]
    BY <1>3 DEF Advance, Idle
  <2>2. QED
    BY <1>1, <1>3, <2>1, SharesAssumption DEF Monitor, MonitorSteps, Levels
<1>4. CASE ~(mon.lv < 3)
  <2>1. Advance \in {Idle, [at |-> "close", lv |-> 1, from |-> "check",
                            id |-> NoExit, qty |-> 0]}
    BY <1>4 DEF Advance, Idle
  <2>2. QED
    BY <2>1, SharesAssumption DEF Idle, Monitor, MonitorSteps, Levels
<1>5. QED
  BY <1>1, <1>2, <1>3, <1>4

LEMMA CancelEntryOK ==
    ASSUME TypeOK, BrokerOK, CancelEntryOrder
    PROVE  /\ entry' \in EntryOrder
           /\ left' \in [Faults -> Nat]
           /\ EntryLive' => entry'.filled < Shares
  BY SpendOK
  DEF TypeOK, BrokerOK, CancelEntryOrder, CancelledEntry, EntryOrder, EntryStatuses,
      EntryLive, Faults

LEMMA RecordInvInit == Init => RecordInv
<1> SUFFICES ASSUME Init PROVE RecordInv
  OBVIOUS
<1>1. TypeOK
  <2>1. entry \in EntryOrder
    BY SharesAssumption DEF Init, EntryOrder, EntryStatuses
  <2>2. exits \in [ExitIds -> ExitGroup]
    BY DEF Init, ExitGroup, ExitStates, NoGroup
  <2>3. MonitorOK
    BY IdleOK DEF Init, MonitorOK, Idle
  <2>4. QED
    BY <2>1, <2>2, <2>3, NoPositionOK, BudgetAssumption DEF Init, TypeOK
<1>2. QED
  BY <1>1, NoPositionOK
  DEF Init, RecordInv, BrokerOK, NoGroup, EntryLive, MonitorFits, MainFits, Idle,
      NoPosition

\* What the broker does on its own leaves the record and both threads alone.
LEMMA BrokerStep ==
    ASSUME RecordInv, Broker
    PROVE  RecordInv'
<1> SUFFICES /\ UNCHANGED <<mem, disk, main, mon, torn>>
             /\ entry' \in EntryOrder
             /\ exits' \in [ExitIds -> ExitGroup]
             /\ left' \in [Faults -> Nat]
             /\ BrokerOK'
  BY DEF RecordInv, TypeOK, MonitorOK, RecordOK, AddsUp, AllOpen, Unsold, Remaining,
         Unresolved, MonitorFits, MainFits
<1> USE DEF RecordInv, TypeOK, BrokerOK, tracker
<1>1. CASE EntryFill
  BY <1>1, SharesAssumption DEF EntryFill, EntryOrder, EntryStatuses, EntryLive
<1>2. CASE EntryEnds
  BY <1>2 DEF EntryEnds, EntryOrder, EntryStatuses, EntryLive
<1>3. CASE EntryRejected
  BY <1>3 DEF EntryRejected, EntryOrder, EntryStatuses, EntryLive
<1>4. ASSUME NEW o \in ExitIds, TakeProfitFill(o)
      PROVE  /\ UNCHANGED <<mem, disk, main, mon, torn>>
             /\ entry' \in EntryOrder
             /\ exits' \in [ExitIds -> ExitGroup]
             /\ left' \in [Faults -> Nat]
             /\ BrokerOK'
  <2>1. PICK q \in 1..(exits[o].qty - exits[o].tp) :
           exits' = [exits EXCEPT ![o] = AfterTakeProfit(@, q)]
    BY <1>4 DEF TakeProfitFill
  <2>2. exits[o].qty \in Nat /\ exits[o].tp \in Nat /\ exits[o].leg \in Nat
    BY DEF ExitGroup
  <2>3. AfterTakeProfit(exits[o], q) \in ExitGroup
    BY <2>2 DEF AfterTakeProfit, ExitGroup, ExitStates
  <2>4. exits' \in [ExitIds -> ExitGroup]
    BY <2>1, <2>3
  <2>5. \A p \in ExitIds : exits'[p].state = "live" => exits'[p].tp < exits'[p].qty
    BY <2>1, <2>2 DEF AfterTakeProfit
  <2>6. QED
    BY <1>4, <2>4, <2>5 DEF TakeProfitFill, EntryLive
<1>5. ASSUME NEW o \in ExitIds, StopFill(o)
      PROVE  /\ UNCHANGED <<mem, disk, main, mon, torn>>
             /\ entry' \in EntryOrder
             /\ exits' \in [ExitIds -> ExitGroup]
             /\ left' \in [Faults -> Nat]
             /\ BrokerOK'
  BY <1>5 DEF StopFill, ExitGroup, ExitStates, EntryLive
<1>6. ASSUME NEW o \in ExitIds, BothLegsFill(o)
      PROVE  /\ UNCHANGED <<mem, disk, main, mon, torn>>
             /\ entry' \in EntryOrder
             /\ exits' \in [ExitIds -> ExitGroup]
             /\ left' \in [Faults -> Nat]
             /\ BrokerOK'
  BY <1>6, SpendOK DEF BothLegsFill, ExitGroup, ExitStates, EntryLive, Faults
<1>7. ASSUME NEW o \in ExitIds, ExitDies(o)
      PROVE  /\ UNCHANGED <<mem, disk, main, mon, torn>>
             /\ entry' \in EntryOrder
             /\ exits' \in [ExitIds -> ExitGroup]
             /\ left' \in [Faults -> Nat]
             /\ BrokerOK'
  BY <1>7, SpendOK DEF ExitDies, ExitGroup, ExitStates, EntryLive, Faults
<1>8. ASSUME NEW o \in ExitIds, ExitDiesAfterStopPartFill(o)
      PROVE  /\ UNCHANGED <<mem, disk, main, mon, torn>>
             /\ entry' \in EntryOrder
             /\ exits' \in [ExitIds -> ExitGroup]
             /\ left' \in [Faults -> Nat]
             /\ BrokerOK'
  BY <1>8, SpendOK DEF ExitDiesAfterStopPartFill, ExitGroup, ExitStates, EntryLive, Faults
<1>9. QED
  BY <1>1, <1>2, <1>3, <1>4, <1>5, <1>6, <1>7, <1>8 DEF Broker


\* A step that saves record p, and what it owes the invariant.
LEMMA SavedRecord ==
    ASSUME RecordInv, NEW p, Commit(p),
           p \in Position, RecordOK(p)
    PROVE  /\ mem' = p
           /\ disk' \in {p, disk}
           /\ mem' \in Position /\ RecordOK(mem)'
           /\ disk' \in Position /\ RecordOK(disk)'
           /\ left' \in [Faults -> Nat]
<1>1. mem' = p /\ disk' \in {p, disk} /\ left' \in [Faults -> Nat]
  BY CommitOK DEF RecordInv, TypeOK
<1>2. /\ disk \in Position /\ RecordOK(disk)
  BY DEF RecordInv, TypeOK
<1>3. RecordOK(mem')
  BY <1>1
<1>4. RecordOK(disk')
  BY <1>1, <1>2
<1>5. QED
  BY <1>1, <1>2, <1>3, <1>4

LEMMA ExecutorStep ==
    ASSUME RecordInv, Executor
    PROVE  RecordInv'
<1>1. CASE Submit
  <2>1. /\ UNCHANGED <<exits, mem, disk, mon, torn>>
        /\ main' \in {"submitted", "done"}
        /\ main = "ready"
    BY <1>1 DEF Submit, tracker
  <2>2. left' \in [Faults -> Nat] /\ entry' \in EntryOrder
    BY <1>1, SpendOK DEF Submit, RecordInv, TypeOK, EntryOrder, EntryStatuses, Faults
  <2>3. entry'.filled < Shares
    BY <1>1, <2>1, SharesAssumption
    DEF Submit, RecordInv, TypeOK, BrokerOK, EntryOrder
  <2>4. BrokerOK'
    BY <2>1, <2>3 DEF RecordInv, BrokerOK
  <2>5. QED
    BY <2>1, <2>2, <2>4
    DEF RecordInv, TypeOK, MonitorOK, MonitorFits, MainFits
<1>2. CASE Track
  <2>1. /\ UNCHANGED <<entry, exits, mon, torn>>
        /\ main = "submitted" /\ main' = "done"
        /\ mem.status = "none"
    BY <1>2 DEF Track, broker, RecordInv, MainFits
  <2>2. /\ mem' = AddPosition(Shares)
        /\ mem' \in Position /\ RecordOK(mem)'
        /\ disk' \in Position /\ RecordOK(disk)'
        /\ left' \in [Faults -> Nat]
    BY <1>2, SavedRecord, AddPositionOK, SharesAssumption DEF Track
  <2>3. mon.at \in {"idle"}
    BY <2>1 DEF RecordInv, TypeOK, MonitorOK, MonitorFits, Monitor, MonitorSteps
  <2>4. QED
    BY <2>1, <2>2, <2>3
    DEF RecordInv, TypeOK, MonitorOK, BrokerOK, EntryLive, MonitorFits, MainFits
<1>3. CASE TrackFails
  <2>1. /\ UNCHANGED <<entry, exits, mem, disk, mon, torn>>
        /\ main' = "untracked"
        /\ left' \in [Faults -> Nat]
    BY <1>3, SpendOK DEF TrackFails, broker, tracker, RecordInv, TypeOK, Faults
  <2>2. QED
    BY <2>1
    DEF RecordInv, TypeOK, MonitorOK, BrokerOK, EntryLive, MonitorFits, MainFits
<1>4. CASE CancelUntracked
  <2>1. /\ UNCHANGED <<exits, mem, disk, mon, torn>>
        /\ main' = "done"
        /\ CancelEntryOrder
    BY <1>4 DEF CancelUntracked, tracker
  <2>2. /\ entry' \in EntryOrder /\ left' \in [Faults -> Nat]
        /\ EntryLive' => entry'.filled < Shares
    BY <2>1, CancelEntryOK DEF RecordInv
  <2>3. QED
    BY <2>1, <2>2
    DEF RecordInv, TypeOK, MonitorOK, BrokerOK, MonitorFits, MainFits
<1>5. QED
  BY <1>1, <1>2, <1>3, <1>4 DEF Executor

LEMMA CrashStep ==
    ASSUME RecordInv, Crash
    PROVE  RecordInv'
<1>1. /\ UNCHANGED <<entry, exits, disk>>
      /\ mem' = disk
      /\ mon' = Idle
      /\ main' = (IF main = "ready" THEN "ready" ELSE "done")
      /\ torn' \in BOOLEAN
      /\ left' \in [Faults -> Nat]
  BY SpendOK DEF Crash, broker, RecordInv, TypeOK, Faults, HalfCleared
<1>2. TypeOK'
  BY <1>1, IdleOK DEF RecordInv, TypeOK, MonitorOK, Idle
<1>3. RecordOK(mem)' /\ RecordOK(disk)'
  BY <1>1 DEF RecordInv
<1>4. QED
  BY <1>1, <1>2, <1>3
  DEF RecordInv, BrokerOK, EntryLive, MonitorFits, MainFits, Idle

\* A monitor step that only moves the monitor.
LEMMA MonitorMove ==
    ASSUME RecordInv, UNCHANGED <<entry, exits, mem, disk, main, torn>>,
           left' \in [Faults -> Nat], MonitorOK', MonitorFits'
    PROVE  RecordInv'
  BY DEF RecordInv, TypeOK, BrokerOK, EntryLive, MainFits

\* A monitor step that saves record p and moves on.
LEMMA MonitorSave ==
    ASSUME RecordInv, NEW p \in Position, RecordOK(p), Commit(p),
           UNCHANGED <<entry, exits, main, torn>>,
           mem.status \in {"pending_fill", "active"},
           MonitorOK', MonitorFits'
    PROVE  RecordInv'
<1>1. /\ mem' \in Position /\ RecordOK(mem)'
      /\ disk' \in Position /\ RecordOK(disk)'
      /\ left' \in [Faults -> Nat]
  BY SavedRecord
<1>2. ~(main \in {"ready", "submitted"})
  BY DEF RecordInv, MainFits
<1>3. QED
  BY <1>1, <1>2 DEF RecordInv, TypeOK, BrokerOK, EntryLive, MainFits

LEMMA MonitorStep ==
    ASSUME RecordInv, MonitorThread
    PROVE  RecordInv'
<1> USE DEF broker, tracker
<1>0. /\ mon \in Monitor /\ mem \in Position /\ left \in [Faults -> Nat]
      /\ entry \in EntryOrder /\ exits \in [ExitIds -> ExitGroup]
      /\ RecordOK(mem)
      /\ Idle \in Monitor /\ Idle.at = "idle"
      /\ Advance \in Monitor /\ Advance.at \in {"place", "check", "close", "idle"}
  BY AdvanceOK, IdleOK DEF RecordInv, TypeOK, MonitorOK, Idle
<1>1. CASE StartCycle
  <2>1. mon' \in Monitor /\ mon'.at = IF mem.status = "active" THEN "check" ELSE "entry"
    BY <1>1, <1>0, SharesAssumption DEF StartCycle, Idle, Monitor, MonitorSteps
  <2>2. MonitorOK' /\ MonitorFits'
    BY <1>1, <2>1 DEF StartCycle, MonitorOK, MonitorFits
  <2>3. QED
    BY <1>0, <1>1, <2>2, MonitorMove DEF StartCycle
<1>2. CASE FetchEntry
  <2>1. mem.status = "pending_fill"
    BY <1>2 DEF FetchEntry, RecordInv, MonitorFits
  <2>2. CASE mon' = Idle /\ UNCHANGED tracker /\ left' \in [Faults -> Nat]
    BY <1>0, <1>2, <2>2, MonitorMove DEF FetchEntry, MonitorOK, MonitorFits
  <2>3. CASE mon' = Idle /\ Commit(MarkClosed(mem, "ENTRY_DEAD"))
    <3>1. MonitorOK' /\ MonitorFits'
      BY <1>0, <2>3 DEF MonitorOK, MonitorFits
    <3>2. /\ MarkClosed(mem, "ENTRY_DEAD") \in Position
          /\ RecordOK(MarkClosed(mem, "ENTRY_DEAD"))
      BY <1>0, <2>1, MarkClosedOK DEF Reasons
    <3>3. QED
      BY <1>2, <2>1, <2>3, <3>1, <3>2, MonitorSave DEF FetchEntry
  <2>4. CASE /\ mon' \in {[mon EXCEPT !.at = "finalize", !.qty = entry.filled],
                          [mon EXCEPT !.at = "cancel"]}
             /\ UNCHANGED <<tracker, left>>
    <3>1. mon' \in Monitor /\ mon'.at \in {"finalize", "cancel"}
      BY <1>0, <2>4 DEF Monitor, MonitorSteps, EntryOrder
    <3>2. MonitorOK' /\ MonitorFits'
      BY <2>1, <2>4, <3>1 DEF MonitorOK, MonitorFits
    <3>3. QED
      BY <1>0, <1>2, <2>4, <3>2, MonitorMove DEF FetchEntry
  <2>5. QED
    <3>1. ASSUME CanFail("api"), Spend("api") PROVE left' \in [Faults -> Nat]
      BY <1>0, <3>1, SpendOK DEF Faults
    <3>2. QED
      BY <1>0, <1>2, <2>2, <2>3, <2>4, <3>1 DEF FetchEntry
<1>3. CASE CancelRemainder
  <2>1. /\ UNCHANGED <<exits, mem, disk, main, torn>>
        /\ mon' = [mon EXCEPT !.at = "refetch"]
        /\ mon.at = "cancel"
        /\ CancelEntryOrder
    BY <1>3 DEF CancelRemainder
  <2>2. /\ entry' \in EntryOrder /\ left' \in [Faults -> Nat]
        /\ EntryLive' => entry'.filled < Shares
    BY <2>1, CancelEntryOK DEF RecordInv
  <2>3. mon' \in Monitor /\ mon'.at = "refetch" /\ mem.status = "pending_fill"
    BY <1>0, <2>1 DEF Monitor, MonitorSteps, RecordInv, MonitorFits
  <2>4. main # "ready"
    BY <2>3 DEF RecordInv, MainFits
  <2>5. QED
    BY <2>1, <2>2, <2>3, <2>4
    DEF RecordInv, TypeOK, MonitorOK, BrokerOK, MonitorFits, MainFits
<1>4. CASE RefetchEntry
  <2>1. mem.status = "pending_fill" /\ left' \in [Faults -> Nat]
    BY <1>0, <1>4, SpendOK DEF RefetchEntry, RecordInv, MonitorFits, Faults
  <2>2. mon' \in Monitor /\ mon'.at \in {"idle", "finalize"}
    BY <1>0, <1>4 DEF RefetchEntry, Monitor, MonitorSteps, EntryOrder
  <2>3. MonitorOK' /\ MonitorFits'
    BY <1>4, <2>1, <2>2 DEF RefetchEntry, MonitorOK, MonitorFits
  <2>4. QED
    BY <1>4, <2>1, <2>3, MonitorMove DEF RefetchEntry
<1>5. CASE FinalizeEntry
  <2>1. mem.status = "pending_fill" /\ mon.qty \in 0..Shares
    BY <1>0, <1>5 DEF FinalizeEntry, RecordInv, MonitorFits, Monitor
  <2>2. CASE mon.qty < 1
    <3>1. MonitorOK' /\ MonitorFits'
      BY <1>0, <1>5, <2>2 DEF FinalizeEntry, MonitorOK, MonitorFits
    <3>2. /\ MarkClosed(mem, "UNFILLED") \in Position
          /\ RecordOK(MarkClosed(mem, "UNFILLED"))
      BY <1>0, <2>1, MarkClosedOK DEF Reasons
    <3>3. QED
      BY <1>5, <2>1, <2>2, <3>1, <3>2, MonitorSave DEF FinalizeEntry
  <2>3. CASE ~(mon.qty < 1)
    <3>1. mon.qty \in Nat \ {0} /\ AllOpen(mem)
      BY <1>0, <2>1, <2>3, SharesAssumption DEF RecordOK
    <3>2. /\ MarkEntryFilled(mem, mon.qty) \in Position
          /\ RecordOK(MarkEntryFilled(mem, mon.qty))
          /\ MarkEntryFilled(mem, mon.qty).status = "active"
      BY <1>0, <3>1, MarkEntryFilledOK
    <3>3. mem' = MarkEntryFilled(mem, mon.qty)
      BY <1>0, <1>5, <2>3, CommitOK DEF FinalizeEntry
    <3>4. mon' \in Monitor /\ mon'.at = "place"
      BY <1>0, <1>5, <2>3, ZenonT(40) DEF FinalizeEntry, Idle, Monitor, MonitorSteps
    <3>5. MonitorOK' /\ MonitorFits'
      BY <3>2, <3>3, <3>4 DEF MonitorOK, MonitorFits
    <3>6. QED
      BY <1>5, <2>1, <2>3, <3>2, <3>5, MonitorSave DEF FinalizeEntry
  <2>4. QED
    BY <2>2, <2>3
<1>6. CASE PlaceExit
  <2> DEFINE qty == mem.tranche[mon.lv].shares
  <2>1. mem.status = "active" /\ qty \in Nat
    BY <1>0, <1>6 DEF PlaceExit, RecordInv, MonitorFits, Monitor, Position, Tranche
  <2>2. left' \in [Faults -> Nat] /\ UNCHANGED <<entry, mem, disk, main, torn>>
    BY <1>0, <1>6, SpendOK DEF PlaceExit, Faults
  <2>3. CASE mon' = Advance /\ exits' = exits
    BY <1>0, <2>1, <2>2, <2>3, MonitorMove DEF MonitorOK, MonitorFits
  <2>4. CASE \E o \in ExitIds :
               /\ qty > 0
               /\ exits' = [exits EXCEPT ![o] = Working(qty)]
               /\ mon' \in {[mon EXCEPT !.at = "record", !.id = o], Advance}
    <3>1. PICK o \in ExitIds :
               /\ qty > 0
               /\ exits' = [exits EXCEPT ![o] = Working(qty)]
               /\ mon' \in {[mon EXCEPT !.at = "record", !.id = o], Advance}
      BY <2>4
    <3>2. Working(qty) \in ExitGroup /\ Working(qty).tp < Working(qty).qty
      BY <2>1, <3>1 DEF Working, ExitGroup, ExitStates
    <3>3. /\ exits' \in [ExitIds -> ExitGroup]
          /\ \A i \in ExitIds : exits'[i].state = "live" => exits'[i].tp < exits'[i].qty
      BY <1>0, <3>1, <3>2 DEF RecordInv, BrokerOK
    <3>4. /\ mon' \in Monitor
          /\ mon'.at \in {"record", "place", "check", "close", "idle"}
          /\ mon'.at = "record" => mon'.id \in ExitIds
      BY <1>0, <3>1 DEF Monitor, MonitorSteps
    <3>5. QED
      BY <2>1, <2>2, <3>3, <3>4
      DEF RecordInv, TypeOK, MonitorOK, BrokerOK, EntryLive, MonitorFits, MainFits
  <2>5. QED
    BY <1>6, <2>3, <2>4 DEF PlaceExit
<1>7. CASE RecordExit
  <2>1. mem.status = "active" /\ mon.lv \in Levels /\ mon.id \in ExitIds \cup {NoExit}
    BY <1>0, <1>7 DEF RecordExit, RecordInv, MonitorFits, Monitor
  <2>2. /\ MarkOcoPlaced(mem, mon.lv, mon.id) \in Position
        /\ RecordOK(MarkOcoPlaced(mem, mon.lv, mon.id))
        /\ MarkOcoPlaced(mem, mon.lv, mon.id).status = "active"
    BY <1>0, <2>1, MarkOcoPlacedOK
  <2>3. mem' = MarkOcoPlaced(mem, mon.lv, mon.id)
    BY <1>0, <1>7, CommitOK DEF RecordExit
  <2>4. MonitorOK' /\ MonitorFits'
    BY <1>0, <1>7, <2>2, <2>3 DEF RecordExit, MonitorOK, MonitorFits
  <2>5. QED
    BY <1>7, <2>1, <2>2, <2>4, MonitorSave DEF RecordExit
<1>8. CASE CheckExit
  <2> DEFINE t == mem.tranche[mon.lv]
  <2>1. mem.status = "active" /\ mon.lv \in Levels
    BY <1>0, <1>8 DEF CheckExit, RecordInv, MonitorFits, Monitor
  <2>2. UNCHANGED <<entry, exits, main, torn>>
    BY <1>8 DEF CheckExit
  <2>3. ASSUME NEW p \in Position, RecordOK(p), p.status = "active", Commit(p),
               mon' = Advance \/ mon' = [mon EXCEPT !.at = "clear"]
        PROVE  RecordInv'
    <3>1. mem' = p
      BY <1>0, <2>3, CommitOK
    <3>2. /\ mon' \in Monitor
          /\ mon'.at \in {"clear", "place", "check", "close", "idle"}
      BY <1>0, <2>3 DEF Monitor, MonitorSteps
    <3>3. MonitorOK' /\ MonitorFits'
      BY <2>3, <3>1, <3>2 DEF MonitorOK, MonitorFits
    <3>4. QED
      BY <2>1, <2>2, <2>3, <3>3, MonitorSave
  <2>4. ASSUME UNCHANGED <<mem, disk>>, left' \in [Faults -> Nat],
               \/ mon' = Advance
               \/ mon' = [mon EXCEPT !.at = "place"]
               \/ mon' = [mon EXCEPT !.at = "clear"]
        PROVE  RecordInv'
    <3>1. /\ mon' \in Monitor
          /\ mon'.at \in {"clear", "place", "check", "close", "idle"}
      BY <1>0, <2>4 DEF Monitor, MonitorSteps
    <3>2. MonitorOK' /\ MonitorFits'
      BY <2>1, <2>4, <3>1 DEF MonitorOK, MonitorFits
    <3>3. QED
      BY <2>2, <2>4, <3>2, MonitorMove
  <2>5. t \in Tranche /\ (t.order # NoExit => t.order \in ExitIds)
    BY <1>0, <2>1 DEF Position, Tranche
  <2>6. t.order \in ExitIds => exits[t.order].tp \in Nat /\ exits[t.order].leg \in Nat
    BY <1>0 DEF ExitGroup
  <2>7. CASE ~Unresolved(mem, mon.lv)
    BY <1>0, <1>8, <2>4, <2>7 DEF CheckExit
  <2>8. CASE Unresolved(mem, mon.lv) /\ t.order = NoExit
    BY <1>0, <1>8, <2>4, <2>8 DEF CheckExit
  <2>9. CASE Unresolved(mem, mon.lv) /\ t.order # NoExit
    <3>1. t.order \in ExitIds
      BY <2>5, <2>9
    <3>2. CASE CanFail("api") /\ Spend("api") /\ mon' = Advance /\ UNCHANGED tracker
      BY <1>0, <2>4, <3>2, SpendOK DEF Faults
    <3>3. CASE mon' = Advance /\ UNCHANGED <<tracker, left>>
      BY <1>0, <2>4, <3>3
    <3>4. CASE /\ Commit(MarkTargetHit(mem, mon.lv, exits[t.order].tp))
               /\ mon' = Advance
      <4> DEFINE n == exits[t.order].tp
      <4>1. n \in Nat
        BY <2>6, <3>1
      <4> HIDE DEF n
      <4>2. /\ MarkTargetHit(mem, mon.lv, n) \in Position
            /\ RecordOK(MarkTargetHit(mem, mon.lv, n))
        BY <1>0, <2>1, <2>9, <3>1, <4>1, ResolveTrancheOK DEF MarkTargetHit, Outcomes
      <4>3. MarkTargetHit(mem, mon.lv, n).status = "active"
        BY <1>0, <2>1, SMTT(30) DEF MarkTargetHit, ResolveTranche, AppendRealized, Position
      <4>4. QED
        BY <4>3, <2>3, <3>4, <4>2 DEF n
    <3>5. CASE /\ Commit(MarkTrancheStopped(mem, mon.lv,
                               exits[t.order].tp + exits[t.order].leg))
               /\ mon' = Advance
      <4> DEFINE n == exits[t.order].tp + exits[t.order].leg
      <4>1. n \in Nat
        BY <2>6, <3>1
      <4> HIDE DEF n
      <4>2. /\ MarkTrancheStopped(mem, mon.lv, n) \in Position
            /\ RecordOK(MarkTrancheStopped(mem, mon.lv, n))
        BY <1>0, <2>1, <2>9, <3>1, <4>1, ResolveTrancheOK DEF MarkTrancheStopped, Outcomes
      <4>3. MarkTrancheStopped(mem, mon.lv, n).status = "active"
        BY <1>0, <2>1, SMTT(30) DEF MarkTrancheStopped, ResolveTranche, AppendRealized, Position
      <4>4. QED
        BY <4>3, <2>3, <3>5, <4>2 DEF n
    <3>6. CASE /\ exits[t.order].tp > 0
               /\ Commit(ResizeTranche(mem, mon.lv,
                      Greatest(0, t.shares - exits[t.order].tp), exits[t.order].tp))
               /\ mon' = [mon EXCEPT !.at = "clear"]
      <4>1. exits[t.order].tp \in Nat \ {0}
        BY <2>6, <3>1, <3>6
      <4>2. LET p == ResizeTranche(mem, mon.lv,
                        Greatest(0, t.shares - exits[t.order].tp), exits[t.order].tp)
            IN  p \in Position /\ RecordOK(p) /\ p.status = "active"
        BY <1>0, <2>1, <2>9, <3>1, <4>1, ResizeKeeps
      <4>3. QED
        BY <2>3, <3>6, <4>2, ZenonT(40)
    <3>7. CASE mon' = [mon EXCEPT !.at = "clear"] /\ UNCHANGED <<tracker, left>>
      BY <1>0, <2>4, <3>7
    <3>8. QED
      BY <1>8, <2>9, <3>2, <3>3, <3>4, <3>5, <3>6, <3>7 DEF CheckExit
  <2>10. QED
    BY <2>7, <2>8, <2>9
<1>9. CASE ClearExit
  <2>1. mem.status = "active" /\ mon.lv \in Levels
    BY <1>0, <1>9 DEF ClearExit, RecordInv, MonitorFits, Monitor
  <2>2. /\ MarkOcoPlaced(mem, mon.lv, NoExit) \in Position
        /\ RecordOK(MarkOcoPlaced(mem, mon.lv, NoExit))
        /\ MarkOcoPlaced(mem, mon.lv, NoExit).status = "active"
    BY <1>0, <2>1, MarkOcoPlacedOK
  <2>3. mem' = MarkOcoPlaced(mem, mon.lv, NoExit)
    BY <1>0, <1>9, CommitOK DEF ClearExit
  <2>4. mon' \in Monitor /\ mon'.at = "place"
    BY <1>0, <1>9 DEF ClearExit, Monitor, MonitorSteps
  <2>5. MonitorOK' /\ MonitorFits'
    BY <2>2, <2>3, <2>4 DEF MonitorOK, MonitorFits
  <2>6. QED
    BY <1>9, <2>1, <2>2, <2>5, MonitorSave DEF ClearExit
<1>10. CASE CloseResolved
  <2>1. mem.status = "active" /\ mon' = Idle
    BY <1>10 DEF CloseResolved, RecordInv, MonitorFits
  <2>2. MonitorOK' /\ MonitorFits'
    BY <1>0, <2>1 DEF MonitorOK, MonitorFits
  <2>3. CASE UNCHANGED <<tracker, left>>
    BY <1>0, <1>10, <2>2, <2>3, MonitorMove DEF CloseResolved
  <2>4. ASSUME NEW reason \in {"STOP", "ALL_TARGETS"}, Commit(MarkClosed(mem, reason))
        PROVE  RecordInv'
    <3>1. /\ MarkClosed(mem, reason) \in Position
          /\ RecordOK(MarkClosed(mem, reason))
      BY <1>0, <2>1, MarkClosedOK DEF Reasons
    <3>2. QED
      BY <1>10, <2>1, <2>2, <2>4, <3>1, MonitorSave DEF CloseResolved
  <2>5. QED
    BY <1>10, <2>3, <2>4 DEF CloseResolved
<1>11. QED
  BY <1>1, <1>2, <1>3, <1>4, <1>5, <1>6, <1>7, <1>8, <1>9, <1>10 DEF MonitorThread

LEMMA StutterStep ==
    ASSUME RecordInv, UNCHANGED vars
    PROVE  RecordInv'
  BY DEF vars, RecordInv, TypeOK, MonitorOK, RecordOK, AddsUp, AllOpen, Unsold, Remaining,
         Unresolved, BrokerOK, EntryLive, MonitorFits, MainFits

\* RecordInv holds in every state, for every number of shares and every budget.
THEOREM RecordInvariant == Spec => []RecordInv
<1>1. RecordInv /\ [Next]_vars => RecordInv'
  BY BrokerStep, ExecutorStep, MonitorStep, CrashStep, StutterStep DEF Next
<1>2. QED
  BY <1>1, RecordInvInit, PTL DEF Spec

\* Every variable holds a value of its kind: no share count of the executor or of
\* the tracker goes below zero, whatever the size of the position.
THEOREM TypeCorrect == Spec => []TypeOK
<1>1. RecordInv => TypeOK
  BY DEF RecordInv
<1>2. QED
  BY <1>1, RecordInvariant, PTL

\* shares_open is the sum of the tranches still to be sold, in memory and in the
\* store, in every state.
THEOREM SharesAddUpHolds == Spec => []SharesAddUp
<1>1. RecordInv => SharesAddUp
  BY DEF RecordInv, RecordOK, SharesAddUp
<1>2. QED
  BY <1>1, RecordInvariant, PTL

---------------------------------------------------------------------------
(* The refinement: each step of the life-cycle is a step of PositionBook   *)
(* on the abstract records, or leaves them alone.                          *)

BookStep == Book!BookNext \/ UNCHANGED Book!bookVars

LEMMA QuietStep == UNCHANGED tracker => BookStep
  BY DEF tracker, BookStep, Book!bookVars, Abstract

\* A committed record is written to the book.
LEMMA CommitWrites ==
    ASSUME NEW p, Commit(p)
    PROVE  Book!Write(Abstract(p))
<1>1. mem' = p /\ disk' \in {p, disk}
  BY DEF Commit
<1>2. Abstract(mem)' = Abstract(p) /\ Abstract(disk)' \in {Abstract(p), Abstract(disk)}
  BY <1>1 DEF Abstract
<1>3. QED
  BY <1>2 DEF Book!Write

\* mark_oco_placed changes nothing the book can see.
LEMMA OcoIsResave ==
    ASSUME RecordInv, NEW lv \in Levels, NEW o \in ExitIds \cup {NoExit},
           mem.status = "active", Commit(MarkOcoPlaced(mem, lv, o))
    PROVE  BookStep
<1>1. Abstract(MarkOcoPlaced(mem, lv, o)) = Abstract(mem)
  BY MarkOcoPlacedOK DEF RecordInv, TypeOK
<1>2. Book!Write(Abstract(mem))
  BY <1>1, CommitWrites
<1>3. QED
  BY <1>2 DEF BookStep, Book!BookNext, Book!Resave

\* A record that gives up a part of its shares is a sale in the book.
LEMMA FewerSharesIsSale ==
    ASSUME NEW p, Commit(p), mem.status = "active",
           p.status = "active", p.initial = mem.initial,
           NEW k \in 1..mem.open, p.open = mem.open - k
    PROVE  BookStep
<1>1. Abstract(p) = [Abstract(mem) EXCEPT !.unsold = @ - k]
  BY DEF Abstract
<1>2. Abstract(mem).status = "active" /\ k \in 1..Abstract(mem).unsold
  BY DEF Abstract
<1>3. QED
  BY <1>1, <1>2, CommitWrites DEF BookStep, Book!BookNext, Book!Sell

LEMMA ExecutorRefines ==
    ASSUME RecordInv, Executor
    PROVE  BookStep
<1>1. CASE Track
  <2>1. mem.status = "none"
    BY <1>1 DEF Track, RecordInv, MainFits
  <2>2. Abstract(AddPosition(Shares)) = Book!Record("pending_fill", Shares, Shares)
    BY DEF Abstract, AddPosition, Book!Record
  <2>3. Shares \in 1..Shares
    BY SharesAssumption
  <2>4. Book!Write(Book!Record("pending_fill", Shares, Shares))
    BY <1>1, <2>2, CommitWrites DEF Track
  <2>5. Book!Enter
    BY <2>1, <2>3, <2>4 DEF Book!Enter, Abstract
  <2>6. QED
    BY <2>5 DEF BookStep, Book!BookNext
<1>2. QED
  BY <1>1, QuietStep DEF Executor, Submit, TrackFails, CancelUntracked

\* A pending record that is closed is an entry given up.
LEMMA ClosedPending ==
    ASSUME mem.status = "pending_fill", NEW reason, Commit(MarkClosed(mem, reason)),
           mem \in Position
    PROVE  BookStep
<1>1. Abstract(MarkClosed(mem, reason)) = Book!Record("closed", Abstract(mem).initial, 0)
  BY DEF MarkClosed, Position, Abstract, Book!Record
<1>2. QED
  BY <1>1, CommitWrites DEF BookStep, Book!BookNext, Book!CloseEntry, Abstract

LEMMA ResolveIsSale ==
    ASSUME mem \in Position, mem.status = "active", RecordOK(mem),
           NEW lv \in Levels, NEW n \in Nat, NEW outcome \in Outcomes, outcome # "open",
           Unresolved(mem, lv), mem.tranche[lv].order \in ExitIds,
           Commit(ResolveTranche(mem, lv, outcome, n))
    PROVE  BookStep
<1> DEFINE p == ResolveTranche(mem, lv, outcome, n)
<1>1. \E k \in 1..mem.open : p.open = mem.open - k
  BY ResolveTrancheOK
<1>2. p.status = "active" /\ p.initial = mem.initial
  BY DEF ResolveTranche, ResizeTranche, AppendRealized, Position
<1>3. Commit(p)
  OBVIOUS
<1> HIDE DEF p
<1>4. PICK k \in 1..mem.open : p.open = mem.open - k
  BY <1>1
<1>5. QED
  BY <1>2, <1>3, <1>4, FewerSharesIsSale

LEMMA ResizeIsSale ==
    ASSUME mem \in Position, mem.status = "active", RecordOK(mem),
           NEW lv \in Levels, NEW n \in Nat \ {0},
           Unresolved(mem, lv), mem.tranche[lv].order \in ExitIds,
           Commit(ResizeTranche(mem, lv, Greatest(0, mem.tranche[lv].shares - n), n))
    PROVE  BookStep
<1> DEFINE p == ResizeTranche(mem, lv, Greatest(0, mem.tranche[lv].shares - n), n)
<1>1. \E k \in 1..mem.open : p.open = mem.open - k
  BY ResizeTrancheOK, ZenonT(40)
<1>2. p.status = "active" /\ p.initial = mem.initial
  BY DEF ResolveTranche, ResizeTranche, AppendRealized, Position
<1>3. Commit(p)
  OBVIOUS
<1> HIDE DEF p
<1>4. PICK k \in 1..mem.open : p.open = mem.open - k
  BY <1>1
<1>5. QED
  BY <1>2, <1>3, <1>4, FewerSharesIsSale

LEMMA CheckExitRefines ==
    ASSUME RecordInv, CheckExit
    PROVE  BookStep
<1> DEFINE t == mem.tranche[mon.lv]
<1>1. /\ mem \in Position /\ RecordOK(mem) /\ mem.status = "active"
      /\ mon.lv \in Levels
      /\ exits \in [ExitIds -> ExitGroup]
  BY DEF CheckExit, RecordInv, TypeOK, MonitorOK, MonitorFits, Monitor
<1>2. CASE UNCHANGED tracker
  BY <1>2, QuietStep
<1>3. ASSUME NEW n, Unresolved(mem, mon.lv), t.order # NoExit,
             n \in Nat,
             \/ Commit(MarkTargetHit(mem, mon.lv, n))
             \/ Commit(MarkTrancheStopped(mem, mon.lv, n))
      PROVE  BookStep
  <2>1. t.order \in ExitIds
    BY <1>1, <1>3 DEF Position, Tranche
  <2>2. PICK outcome \in Outcomes : /\ outcome # "open"
                                    /\ Commit(ResolveTranche(mem, mon.lv, outcome, n))
    BY <1>3 DEF MarkTargetHit, MarkTrancheStopped, Outcomes
  <2>3. QED
    BY <1>1, <1>3, <2>1, <2>2, ResolveIsSale
<1>4. ASSUME NEW n, Unresolved(mem, mon.lv), t.order # NoExit,
             n \in Nat \ {0},
             Commit(ResizeTranche(mem, mon.lv, Greatest(0, t.shares - n), n))
      PROVE  BookStep
  <2>1. t.order \in ExitIds
    BY <1>1, <1>4 DEF Position, Tranche
  <2>2. QED
    BY <1>1, <1>4, <2>1, ResizeIsSale
<1>5. t.order # NoExit => t.order \in ExitIds
  BY <1>1 DEF Position, Tranche
<1>6. t.order \in ExitIds =>
         /\ exits[t.order].tp \in Nat
         /\ exits[t.order].tp + exits[t.order].leg \in Nat
  BY <1>1 DEF ExitGroup
<1>7. QED
  BY <1>2, <1>3, <1>4, <1>5, <1>6 DEF CheckExit

LEMMA MonitorRefines ==
    ASSUME RecordInv, MonitorThread
    PROVE  BookStep
<1>0. /\ mem \in Position /\ mon.lv \in Levels /\ mon.qty \in 0..Shares
      /\ mon.id \in ExitIds \cup {NoExit}
      /\ RecordOK(mem)
  BY DEF RecordInv, TypeOK, MonitorOK, Monitor
<1>1. CASE FetchEntry
  <2>1. mem.status = "pending_fill"
    BY <1>1 DEF FetchEntry, RecordInv, MonitorFits
  <2>2. UNCHANGED tracker \/ Commit(MarkClosed(mem, "ENTRY_DEAD"))
    BY <1>1 DEF FetchEntry
  <2>3. QED
    BY <1>0, <2>1, <2>2, QuietStep, ClosedPending
<1>2. CASE FinalizeEntry
  <2>1. mem.status = "pending_fill"
    BY <1>2 DEF FinalizeEntry, RecordInv, MonitorFits
  <2>2. CASE mon.qty < 1
    BY <1>0, <1>2, <2>1, <2>2, ClosedPending DEF FinalizeEntry
  <2>3. CASE ~(mon.qty < 1)
    <3>1. mon.qty \in 1..Shares
      BY <1>0, <2>3, SharesAssumption
    <3>2. Abstract(MarkEntryFilled(mem, mon.qty)) = Book!Record("active", mon.qty, mon.qty)
      BY <1>0 DEF Abstract, MarkEntryFilled, Position, Book!Record
    <3>3. Book!Write(Book!Record("active", mon.qty, mon.qty))
      BY <1>2, <2>3, <3>2, CommitWrites DEF FinalizeEntry
    <3>4. QED
      BY <2>1, <3>1, <3>3 DEF BookStep, Book!BookNext, Book!Fill, Abstract
  <2>4. QED
    BY <2>2, <2>3
<1>3. CASE RecordExit
  BY <1>0, <1>3, OcoIsResave DEF RecordExit, RecordInv, MonitorFits
<1>4. CASE CheckExit
  BY <1>4, CheckExitRefines
<1>5. CASE ClearExit
  BY <1>0, <1>5, OcoIsResave DEF ClearExit, RecordInv, MonitorFits
<1>6. CASE CloseResolved
  <2>1. mem.status = "active"
    BY <1>6 DEF CloseResolved, RecordInv, MonitorFits
  <2>2. CASE UNCHANGED tracker
    BY <2>2, QuietStep
  <2>3. ASSUME ~(\E lv \in Levels : Unresolved(mem, lv)),
               NEW reason, Commit(MarkClosed(mem, reason))
        PROVE  BookStep
    <3>1. mem.open = 0
      BY <1>0, <2>1, <2>3 DEF RecordOK, AddsUp, Unsold, Remaining, Levels
    <3>2. Abstract(MarkClosed(mem, reason)) = [Abstract(mem) EXCEPT !.status = "closed"]
      BY <1>0, <2>1, <3>1 DEF MarkClosed, Position, Abstract
    <3>3. QED
      BY <2>1, <2>3, <3>1, <3>2, CommitWrites
      DEF BookStep, Book!BookNext, Book!CloseSold, Abstract
  <2>4. QED
    BY <1>6, <2>2, <2>3 DEF CloseResolved
<1>7. CASE StartCycle \/ CancelRemainder \/ RefetchEntry \/ PlaceExit
  BY <1>7, QuietStep DEF StartCycle, CancelRemainder, RefetchEntry, PlaceExit
<1>8. QED
  BY <1>1, <1>2, <1>3, <1>4, <1>5, <1>6, <1>7 DEF MonitorThread

LEMMA CrashRefines == Crash => BookStep
  BY DEF Crash, BookStep, Book!BookNext, Book!Restart, Abstract

LEMMA BrokerRefines == Broker => BookStep
  BY QuietStep
  DEF Broker, EntryFill, EntryEnds, EntryRejected, TakeProfitFill, StopFill, BothLegsFill,
      ExitDies, ExitDiesAfterStopPartFill

\* The life-cycle implements the book: a record is filled once, its shares only
\* leave, it closes through its exits only when all have left, and nothing but a
\* restart takes it back to what was stored.
THEOREM Implementation == Spec => ImplementsBook
<1>1. Init => Book!BookInit
  BY DEF Init, NoPosition, Abstract, Book!BookInit, Book!Blank, Book!Record
<1>2. RecordInv /\ [Next]_vars => [Book!BookNext]_Book!bookVars
  <2> SUFFICES ASSUME RecordInv, [Next]_vars PROVE BookStep
    BY DEF BookStep
  <2>1. CASE UNCHANGED vars
    BY <2>1, QuietStep DEF vars, tracker
  <2>2. QED
    BY <2>1, ExecutorRefines, MonitorRefines, CrashRefines, BrokerRefines DEF Next
<1>3. QED
  BY <1>1, <1>2, RecordInvariant, PTL DEF Spec, ImplementsBook, Book!BookSpec

---------------------------------------------------------------------------
(* The shares of all exit orders.                                          *)

LEMMA ExitIdsFinite == IsFiniteSet(ExitIds)
  BY FS_Interval, MaxExitsAssumption DEF ExitIds

LEMMA TotalIsNat ==
    ASSUME NEW f \in [ExitIds -> Nat]
    PROVE  Total(f) \in Nat
  BY ExitIdsFinite, SumGrows DEF Total

LEMMA TotalOfNothing ==
    ASSUME NEW f \in [ExitIds -> Nat], \A o \in ExitIds : f[o] = 0
    PROVE  Total(f) = 0
  BY ExitIdsFinite, SumOfZeros DEF Total

LEMMA TotalGrows ==
    ASSUME NEW f \in [ExitIds -> Nat], NEW g \in [ExitIds -> Nat],
           \A o \in ExitIds : f[o] <= g[o]
    PROVE  Total(f) <= Total(g)
  BY ExitIdsFinite, SumGrows DEF Total

\* What is added to one order is added to the total.
LEMMA TotalOfOneMore ==
    ASSUME NEW f \in [ExitIds -> Nat], NEW o \in ExitIds, NEW k \in Nat
    PROVE  Total([f EXCEPT ![o] = @ + k]) = Total(f) + k
<1> DEFINE g == [f EXCEPT ![o] = @ + k]
<1>1. /\ \A x \in ExitIds : f[x] \in Int /\ g[x] \in Int
      /\ \A x \in ExitIds \ {o} : g[x] = f[x]
      /\ g[o] = f[o] + k /\ f[o] \in Nat
  OBVIOUS
<1> HIDE DEF g
<1>2. Total(g) = Total(f) + (g[o] - f[o])
  BY <1>1, ExitIdsFinite, SumOfChanged DEF Total
<1>3. Total(f) \in Nat
  BY TotalIsNat
<1>4. QED
  BY <1>1, <1>2, <1>3 DEF g

---------------------------------------------------------------------------
(* The ledger: what an order has sold (x, the exit groups) and what a      *)
(* record has booked for it.                                               *)

SoldOf(g) == g.tp + g.leg

GroupsOK(x) ==
    \A o \in ExitIds :
        /\ x[o].state = "none" => SoldOf(x[o]) = 0
        /\ x[o].state = "live" => x[o].leg = 0
        /\ x[o].state = "tp_filled" => x[o].tp = x[o].qty
        /\ x[o].state = "stop_filled" => SoldOf(x[o]) = x[o].qty
        /\ x[o].state = "dead" => x[o].tp < x[o].qty

\* Nothing has been offered or booked before the record is active.
Untouched(p) ==
    p.status \in {"none", "pending_fill"} =>
        /\ \A lv \in Levels : p.tranche[lv].order = NoExit
        /\ \A o \in ExitIds : p.booked[o] = 0

\* What is booked and what is open make up the fill.
Settled(p) ==
    /\ p.status # "closed" => p.reason = "none"
    /\ p.status = "active" => Total(p.booked) + p.open = p.initial
    /\ p.reason \in {"STOP", "ALL_TARGETS"} => Total(p.booked) = p.initial

\* The order of a tranche was accepted, is of this tranche alone, and until it is
\* booked covers what the tranche holds.
OrdersFit(p, x) ==
    \A lv \in Levels : p.tranche[lv].order # NoExit =>
        /\ x[p.tranche[lv].order].state # "none"
        /\ \A k \in Levels \ {lv} : p.tranche[k].order # p.tranche[lv].order
        /\ Unresolved(p, lv) /\ p.booked[p.tranche[lv].order] = 0
              => x[p.tranche[lv].order].qty = p.tranche[lv].shares

BookedFit(p, x) == \A o \in ExitIds : p.booked[o] <= SoldOf(x[o])

LedgerOK(p, x) == Untouched(p) /\ Settled(p) /\ OrdersFit(p, x) /\ BookedFit(p, x)

\* In memory a booked order is cleared before the monitor does anything else.
BookedIsCleared(p, m) ==
    \A lv \in Levels :
        Unresolved(p, lv) /\ p.tranche[lv].order # NoExit /\ p.booked[p.tranche[lv].order] > 0
           => m.at = "clear" /\ m.lv = lv

\* The order the monitor is about to record is new, and covers its tranche.
NewOrderFits(p, m, x) ==
    m.at = "record" =>
        /\ x[m.id].state # "none"
        /\ x[m.id].qty = p.tranche[m.lv].shares
        /\ p.booked[m.id] = 0
        /\ \A lv \in Levels : p.tranche[lv].order # m.id

LedgerInv ==
    /\ GroupsOK(exits)
    /\ \/ torn
       \/ /\ LedgerOK(mem, exits) /\ LedgerOK(disk, exits)
          /\ BookedIsCleared(mem, mon) /\ NewOrderFits(mem, mon, exits)

\* What orders do: they are accepted once, keep their size, and sell more.
Grow(x, y) ==
    \A o \in ExitIds :
        /\ SoldOf(x[o]) <= SoldOf(y[o])
        /\ x[o].state # "none" => y[o].state # "none" /\ y[o].qty = x[o].qty

LEMMA GrowKeeps ==
    ASSUME NEW x \in [ExitIds -> ExitGroup], NEW y \in [ExitIds -> ExitGroup], Grow(x, y),
           NEW p \in Position, LedgerOK(p, x)
    PROVE  LedgerOK(p, y)
<1>1. \A o \in ExitIds : p.booked[o] \in Nat /\ SoldOf(x[o]) \in Nat /\ SoldOf(y[o]) \in Nat
  BY DEF Position, ExitGroup, SoldOf
<1>2. BookedFit(p, y)
  BY <1>1 DEF LedgerOK, BookedFit, Grow
<1>3. \A lv \in Levels : p.tranche[lv].order # NoExit => p.tranche[lv].order \in ExitIds
  BY DEF Position, Tranche
<1>4. OrdersFit(p, y)
  BY <1>3 DEF LedgerOK, OrdersFit, Grow
<1>5. QED
  BY <1>2, <1>4 DEF LedgerOK

LEMMA GroupsGrow ==
    ASSUME RecordInv, GroupsOK(exits), Broker
    PROVE  GroupsOK(exits') /\ Grow(exits, exits')
<1>1. /\ exits \in [ExitIds -> ExitGroup]
      /\ \A o \in ExitIds : /\ exits[o].qty \in Nat /\ exits[o].tp \in Nat /\ exits[o].leg \in Nat
                            /\ exits[o].state = "live" => exits[o].tp < exits[o].qty
  BY DEF RecordInv, TypeOK, BrokerOK, ExitGroup
<1>2. CASE UNCHANGED exits
  BY <1>1, <1>2 DEF Grow, SoldOf, GroupsOK
<1>3. ASSUME NEW o \in ExitIds, \A i \in ExitIds \ {o} : exits'[i] = exits[i],
             exits[o].state # "none", exits'[o].state # "none",
             exits'[o].qty = exits[o].qty,
             SoldOf(exits[o]) <= SoldOf(exits'[o]),
             exits'[o].state = "live" => exits'[o].leg = 0,
             exits'[o].state = "tp_filled" => exits'[o].tp = exits'[o].qty,
             exits'[o].state = "stop_filled" => SoldOf(exits'[o]) = exits'[o].qty,
             exits'[o].state = "dead" => exits'[o].tp < exits'[o].qty
      PROVE  GroupsOK(exits') /\ Grow(exits, exits')
  <2>1. \A i \in ExitIds : SoldOf(exits[i]) <= SoldOf(exits[i])
    BY <1>1 DEF SoldOf
  <2>2. Grow(exits, exits')
    BY <1>3, <2>1, Zenon DEF Grow
  <2>3. GroupsOK(exits')
    BY <1>3, Zenon DEF GroupsOK
  <2>4. QED
    BY <2>2, <2>3
<1>4. ASSUME NEW o \in ExitIds,
             TakeProfitFill(o) \/ StopFill(o) \/ BothLegsFill(o) \/ ExitDies(o)
                \/ ExitDiesAfterStopPartFill(o)
      PROVE  GroupsOK(exits') /\ Grow(exits, exits')
  <2>1. /\ exits[o] \in ExitGroup
        /\ exits[o].qty \in Nat /\ exits[o].tp \in Nat /\ exits[o].leg \in Nat
        /\ exits[o].state = "live" => exits[o].tp < exits[o].qty /\ exits[o].leg = 0
        /\ exits[o].state = "tp_filled" => exits[o].tp = exits[o].qty
    BY <1>1 DEF GroupsOK
  <2>2. CASE TakeProfitFill(o)
    <3>1. PICK q \in 1..(exits[o].qty - exits[o].tp) :
             exits' = [exits EXCEPT ![o] = AfterTakeProfit(@, q)]
      BY <2>2 DEF TakeProfitFill
    <3>2. /\ exits[o].state = "live"
          /\ \A i \in ExitIds \ {o} : exits'[i] = exits[i]
          /\ exits'[o] = AfterTakeProfit(exits[o], q)
      BY <1>1, <2>2, <3>1 DEF TakeProfitFill
    <3>3. /\ exits'[o].state = IF exits[o].tp + q = exits[o].qty THEN "tp_filled" ELSE "live"
          /\ exits'[o].qty = exits[o].qty
          /\ exits'[o].tp = exits[o].tp + q
          /\ exits'[o].leg = exits[o].leg
      BY <3>2 DEF AfterTakeProfit
    <3>4. SoldOf(exits[o]) <= SoldOf(exits'[o])
      BY <2>1, <3>1, <3>3 DEF SoldOf
    <3>5. QED
      BY <1>3, <2>1, <3>2, <3>3, <3>4
  <2>3. CASE StopFill(o)
    <3>1. /\ exits[o].state = "live"
          /\ \A i \in ExitIds \ {o} : exits'[i] = exits[i]
          /\ exits'[o].state = "stop_filled" /\ exits'[o].qty = exits[o].qty
          /\ exits'[o].tp = exits[o].tp /\ exits'[o].leg = exits[o].qty - exits[o].tp
      BY <1>1, <2>1, <2>3 DEF StopFill, ExitGroup
    <3>2. SoldOf(exits[o]) <= SoldOf(exits'[o]) /\ SoldOf(exits'[o]) = exits'[o].qty
      BY <2>1, <3>1 DEF SoldOf
    <3>3. QED
      BY <1>3, <3>1, <3>2
  <2>4. CASE BothLegsFill(o)
    <3>1. /\ exits[o].state = "tp_filled" /\ exits[o].leg = 0
          /\ \A i \in ExitIds \ {o} : exits'[i] = exits[i]
          /\ exits'[o].state = "tp_filled" /\ exits'[o].qty = exits[o].qty
          /\ exits'[o].tp = exits[o].tp /\ exits'[o].leg = exits[o].qty
      BY <1>1, <2>1, <2>4 DEF BothLegsFill, ExitGroup
    <3>2. SoldOf(exits[o]) <= SoldOf(exits'[o])
      BY <2>1, <3>1 DEF SoldOf
    <3>3. QED
      BY <1>3, <2>1, <3>1, <3>2
  <2>5. CASE ExitDies(o)
    <3>1. /\ exits[o].state = "live"
          /\ \A i \in ExitIds \ {o} : exits'[i] = exits[i]
          /\ exits'[o].state = "dead" /\ exits'[o].qty = exits[o].qty
          /\ exits'[o].tp = exits[o].tp /\ exits'[o].leg = exits[o].leg
      BY <1>1, <2>1, <2>5 DEF ExitDies, ExitGroup
    <3>2. SoldOf(exits[o]) <= SoldOf(exits'[o])
      BY <2>1, <3>1 DEF SoldOf
    <3>3. QED
      BY <1>3, <2>1, <3>1, <3>2
  <2>6. CASE ExitDiesAfterStopPartFill(o)
    <3>1. PICK q \in 1..(exits[o].qty - exits[o].tp - 1) :
             exits' = [exits EXCEPT ![o].leg = q, ![o].state = "dead"]
      BY <2>6 DEF ExitDiesAfterStopPartFill
    <3>2. /\ exits[o].state = "live"
          /\ \A i \in ExitIds \ {o} : exits'[i] = exits[i]
          /\ exits'[o].state = "dead" /\ exits'[o].qty = exits[o].qty
          /\ exits'[o].tp = exits[o].tp /\ exits'[o].leg = q
      BY <1>1, <2>1, <2>6, <3>1 DEF ExitDiesAfterStopPartFill, ExitGroup
    <3>3. SoldOf(exits[o]) <= SoldOf(exits'[o])
      BY <2>1, <3>1, <3>2 DEF SoldOf
    <3>4. QED
      BY <1>3, <2>1, <3>2, <3>3
  <2>7. QED
    BY <1>4, <2>2, <2>3, <2>4, <2>5, <2>6
<1>5. QED
  BY <1>2, <1>4 DEF Broker, EntryFill, EntryEnds, EntryRejected

LEMMA MarkClosedFits ==
    ASSUME NEW x, NEW p \in Position, LedgerOK(p, x), NEW reason \in Reasons,
           p.status # "closed",
           reason \in {"STOP", "ALL_TARGETS"} => Total(p.booked) = p.initial
    PROVE  LedgerOK(MarkClosed(p, reason), x)
<1> DEFINE q == MarkClosed(p, reason)
<1>1. /\ q.status = "closed" /\ q.initial = p.initial /\ q.reason = reason
      /\ q.booked = p.booked /\ q.tranche = p.tranche
  BY MarkClosedOK
<1> HIDE DEF q
<1>2. \A lv \in Levels : Unresolved(q, lv) <=> Unresolved(p, lv)
  BY <1>1 DEF Unresolved
<1>3. OrdersFit(q, x)
  BY <1>1, <1>2 DEF LedgerOK, OrdersFit
<1>4. QED
  BY <1>1, <1>3 DEF q, LedgerOK, Untouched, Settled, BookedFit

LEMMA MarkEntryFilledFits ==
    ASSUME NEW x, NEW p \in Position, LedgerOK(p, x), NEW n \in Nat \ {0},
           p.status = "pending_fill", AllOpen(p)
    PROVE  /\ LedgerOK(MarkEntryFilled(p, n), x)
           /\ \A lv \in Levels : MarkEntryFilled(p, n).tranche[lv].order = NoExit
<1> DEFINE q == MarkEntryFilled(p, n)
<1>1. /\ q.status = "active" /\ q.initial = n /\ q.open = n
      /\ q.booked = p.booked /\ q.reason = p.reason
      /\ \A lv \in Levels : q.tranche[lv].order = p.tranche[lv].order
  BY MarkEntryFilledOK
<1>2. /\ \A lv \in Levels : p.tranche[lv].order = NoExit
      /\ \A o \in ExitIds : p.booked[o] = 0
      /\ p.reason = "none"
  BY DEF LedgerOK, Untouched, Settled
<1>3. Total(p.booked) = 0
  BY <1>2, TotalOfNothing DEF Position
<1> HIDE DEF q
<1>4. Settled(q)
  BY <1>1, <1>2, <1>3 DEF Settled
<1>5. QED
  BY <1>1, <1>2, <1>4 DEF q, LedgerOK, Untouched, OrdersFit, BookedFit

\* Recording an order that fits the tranche, or forgetting the one it had.
LEMMA MarkOcoPlacedFits ==
    ASSUME NEW x, NEW p \in Position, RecordOK(p), LedgerOK(p, x), p.status = "active",
           NEW lv \in Levels, NEW o \in ExitIds \cup {NoExit},
           o # NoExit => /\ x[o].state # "none"
                         /\ x[o].qty = p.tranche[lv].shares
                         /\ \A k \in Levels : p.tranche[k].order # o
    PROVE  LedgerOK(MarkOcoPlaced(p, lv, o), x)
<1> DEFINE q == MarkOcoPlaced(p, lv, o)
<1>1. /\ q.status = "active" /\ q.initial = p.initial /\ q.open = p.open
      /\ q.booked = p.booked /\ q.reason = p.reason
      /\ \A k \in Levels : /\ q.tranche[k].order = IF k = lv THEN o ELSE p.tranche[k].order
                           /\ q.tranche[k].shares = p.tranche[k].shares
                           /\ Unresolved(q, k) <=> Unresolved(p, k)
  BY MarkOcoPlacedOK, ZenonT(40) DEF Abstract
<1> HIDE DEF q
<1>2. OrdersFit(q, x)
  BY <1>1 DEF LedgerOK, OrdersFit
<1>3. QED
  BY <1>1, <1>2 DEF q, LedgerOK, Untouched, Settled, BookedFit

\* Booking n shares for the order of a tranche that gives up n shares.
LEMMA BookingFits ==
    ASSUME NEW x, NEW p \in Position, LedgerOK(p, x), p.status = "active",
           NEW q, NEW lv \in Levels, NEW o \in ExitIds, NEW n \in Nat \ {0},
           o = p.tranche[lv].order, p.booked[o] = 0, n <= SoldOf(x[o]),
           q.status = "active", q.initial = p.initial, q.reason = p.reason,
           q.open = p.open - n, q.booked = [p.booked EXCEPT ![o] = @ + n],
           \A k \in Levels : /\ q.tranche[k].order = p.tranche[k].order
                             /\ k # lv => q.tranche[k].shares = p.tranche[k].shares
                             /\ Unresolved(q, k) => Unresolved(p, k)
    PROVE  LedgerOK(q, x)
<1>1. /\ p.booked \in [ExitIds -> Nat] /\ p.open \in Nat /\ p.initial \in Nat
      /\ o # NoExit
  BY DEF Position, ExitIds, NoExit
<1>2. Total(q.booked) = Total(p.booked) + n /\ Total(p.booked) \in Nat
  BY <1>1, TotalOfOneMore, TotalIsNat
<1>3. Settled(q)
  BY <1>1, <1>2 DEF LedgerOK, Settled
<1>4. \A i \in ExitIds : q.booked[i] = IF i = o THEN n ELSE p.booked[i]
  BY <1>1
<1>5. OrdersFit(q, x)
  <2> SUFFICES ASSUME NEW k \in Levels, q.tranche[k].order # NoExit
               PROVE  /\ x[q.tranche[k].order].state # "none"
                      /\ \A j \in Levels \ {k} : q.tranche[j].order # q.tranche[k].order
                      /\ Unresolved(q, k) /\ q.booked[q.tranche[k].order] = 0
                            => x[q.tranche[k].order].qty = q.tranche[k].shares
    BY DEF OrdersFit
  <2>1. q.tranche[k].order \in ExitIds
    BY DEF Position, Tranche
  <2>2. CASE k = lv
    BY <1>4, <2>2 DEF LedgerOK, OrdersFit
  <2>3. CASE k # lv
    BY <1>1, <1>4, <2>1, <2>3 DEF LedgerOK, OrdersFit
  <2>4. QED
    BY <2>2, <2>3
<1>6. BookedFit(q, x)
  BY <1>4 DEF LedgerOK, BookedFit
<1>7. QED
  BY <1>3, <1>5, <1>6 DEF LedgerOK, Untouched

---------------------------------------------------------------------------

\* A step that saves record p while the exit groups stay as they are.
LEMMA LedgerSave ==
    ASSUME RecordInv, LedgerInv, ~torn, UNCHANGED <<exits, torn>>, NEW p, Commit(p),
           LedgerOK(p, exits), BookedIsCleared(p, mon'), NewOrderFits(p, mon', exits)
    PROVE  LedgerInv'
<1>1. mem' = p /\ disk' \in {p, disk}
  BY CommitOK DEF RecordInv, TypeOK
<1>2. LedgerOK(mem', exits') /\ LedgerOK(disk', exits')
  BY <1>1 DEF LedgerInv
<1>3. BookedIsCleared(mem', mon') /\ NewOrderFits(mem', mon', exits')
  BY <1>1
<1>4. GroupsOK(exits')
  BY DEF LedgerInv
<1>5. QED
  BY <1>2, <1>3, <1>4 DEF LedgerInv

\* A step of the monitor that neither clears an order nor has one to record.
LEMMA LedgerMove ==
    ASSUME LedgerInv, UNCHANGED <<exits, mem, disk, torn>>,
           mon' = mon \/ (mon.at # "clear" /\ mon'.at # "record")
    PROVE  LedgerInv'
<1>1. CASE torn
  BY <1>1 DEF LedgerInv
<1>2. CASE ~torn
  <2>1. BookedIsCleared(mem, mon') /\ NewOrderFits(mem, mon', exits)
    BY <1>2 DEF LedgerInv, BookedIsCleared, NewOrderFits
  <2>2. GroupsOK(exits') /\ LedgerOK(mem', exits') /\ LedgerOK(disk', exits')
    BY <1>2 DEF LedgerInv
  <2>3. BookedIsCleared(mem', mon') /\ NewOrderFits(mem', mon', exits')
    BY <2>1
  <2>4. QED
    BY <2>2, <2>3 DEF LedgerInv
<1>3. QED
  BY <1>1, <1>2

LEMMA LedgerInit == Init => LedgerInv
<1> SUFFICES ASSUME Init PROVE LedgerInv
  OBVIOUS
<1>1. GroupsOK(exits)
  BY DEF Init, GroupsOK, NoGroup, SoldOf
<1>2. ASSUME NEW x, x = exits PROVE LedgerOK(NoPosition, x)
  BY <1>2 DEF Init, NoGroup, SoldOf, NoPosition, LedgerOK, Untouched, Settled, OrdersFit, BookedFit
<1>3. BookedIsCleared(NoPosition, mon) /\ NewOrderFits(NoPosition, mon, exits)
  BY DEF Init, Idle, NoPosition, BookedIsCleared, NewOrderFits
<1>4. QED
  BY <1>1, <1>2, <1>3 DEF Init, LedgerInv

\* Orders that are accepted or sell more leave the ledger as it is.
LEMMA LedgerGrows ==
    ASSUME RecordInv, LedgerInv, UNCHANGED <<mem, disk, torn>>,
           exits' \in [ExitIds -> ExitGroup], GroupsOK(exits'), Grow(exits, exits'),
           ~torn => NewOrderFits(mem, mon', exits'),
           mon' = mon \/ mon.at # "clear"
    PROVE  LedgerInv'
<1>1. CASE torn
  BY <1>1 DEF LedgerInv
<1>2. CASE ~torn
  <2>1. LedgerOK(mem, exits') /\ LedgerOK(disk, exits')
    BY <1>2, GrowKeeps DEF LedgerInv, RecordInv, TypeOK
  <2>2. BookedIsCleared(mem, mon')
    BY <1>2 DEF LedgerInv, BookedIsCleared
  <2>3. LedgerOK(mem', exits') /\ LedgerOK(disk', exits')
    BY <2>1
  <2>4. BookedIsCleared(mem', mon') /\ NewOrderFits(mem', mon', exits')
    BY <1>2, <2>2
  <2>5. QED
    BY <2>3, <2>4 DEF LedgerInv
<1>3. QED
  BY <1>1, <1>2

LEMMA LedgerBroker ==
    ASSUME RecordInv, LedgerInv, Broker
    PROVE  LedgerInv'
<1>1. UNCHANGED <<mem, disk, mon, torn>>
  BY DEF Broker, EntryFill, EntryEnds, EntryRejected, TakeProfitFill, StopFill, BothLegsFill,
         ExitDies, ExitDiesAfterStopPartFill, tracker
<1>2. GroupsOK(exits') /\ Grow(exits, exits')
  BY GroupsGrow DEF LedgerInv
<1>3. exits' \in [ExitIds -> ExitGroup]
  BY BrokerStep DEF RecordInv, TypeOK
<1>4. ~torn => NewOrderFits(mem, mon, exits')
  <2>1. mon.at = "record" => mon.id \in ExitIds
    BY DEF RecordInv, TypeOK, MonitorOK
  <2>2. QED
    BY <1>2, <2>1 DEF LedgerInv, NewOrderFits, Grow
<1>5. QED
  BY <1>1, <1>2, <1>3, <1>4, LedgerGrows

LEMMA LedgerExecutor ==
    ASSUME RecordInv, LedgerInv, Executor
    PROVE  LedgerInv'
<1>1. CASE Submit \/ TrackFails \/ CancelUntracked
  <2>1. UNCHANGED <<exits, mem, disk, mon, torn>>
    BY <1>1 DEF Submit, TrackFails, CancelUntracked, broker, tracker
  <2>2. QED
    BY <2>1, LedgerMove
<1>2. CASE Track
  <2>1. /\ UNCHANGED <<exits, mon, torn>> /\ Commit(AddPosition(Shares))
        /\ mem.status = "none"
    BY <1>2 DEF Track, broker, RecordInv, MainFits
  <2>2. CASE torn
    BY <2>1, <2>2 DEF LedgerInv
  <2>3. CASE ~torn
    <3> DEFINE p == AddPosition(Shares)
    <3>1. /\ p.status = "pending_fill" /\ p.reason = "none"
          /\ \A o \in ExitIds : p.booked[o] = 0
          /\ \A lv \in Levels : p.tranche[lv].order = NoExit
      BY DEF AddPosition, FreshTranches
    <3>2. \A o \in ExitIds : SoldOf(exits[o]) \in Nat
      BY DEF RecordInv, TypeOK, ExitGroup, SoldOf
    <3>3. mon.at \in {"idle"}
      BY <2>1 DEF RecordInv, TypeOK, MonitorOK, MonitorFits, Monitor, MonitorSteps
    <3> HIDE DEF p
    <3>4. LedgerOK(p, exits)
      BY <3>1, <3>2 DEF LedgerOK, Untouched, Settled, OrdersFit, BookedFit
    <3>5. BookedIsCleared(p, mon') /\ NewOrderFits(p, mon', exits)
      BY <2>1, <3>1, <3>3 DEF BookedIsCleared, NewOrderFits
    <3>6. QED
      BY <2>1, <2>3, <3>4, <3>5, LedgerSave DEF p
  <2>4. QED
    BY <2>2, <2>3
<1>3. QED
  BY <1>1, <1>2 DEF Executor

\* A restart keeps the ledger of the store; if that ledger books an order the
\* store has not cleared, the behaviour is torn from here on.
LEMMA LedgerCrash ==
    ASSUME RecordInv, LedgerInv, Crash
    PROVE  LedgerInv'
<1>1. /\ UNCHANGED <<exits, disk>> /\ mem' = disk /\ mon' = Idle
      /\ torn' = (torn \/ HalfCleared(disk))
  BY DEF Crash, broker
<1>2. CASE torn'
  BY <1>1, <1>2 DEF LedgerInv
<1>3. CASE ~torn'
  <2>1. LedgerOK(mem', exits') /\ LedgerOK(disk', exits')
    BY <1>1, <1>3 DEF LedgerInv
  <2>2. BookedIsCleared(disk, Idle)
    BY <1>1, <1>3 DEF BookedIsCleared, HalfCleared
  <2>3. NewOrderFits(disk, Idle, exits)
    BY DEF NewOrderFits, Idle
  <2>4. BookedIsCleared(mem', mon') /\ NewOrderFits(mem', mon', exits')
    BY <1>1, <2>2, <2>3
  <2>5. QED
    BY <1>1, <2>1, <2>4 DEF LedgerInv
<1>4. QED
  BY <1>2, <1>3

\* Booking what the finished group of a tranche has sold.
LEMMA LedgerCheck ==
    ASSUME RecordInv, LedgerInv, CheckExit
    PROVE  LedgerInv'
<1> DEFINE lv == mon.lv
           o == mem.tranche[lv].order
<1>1. /\ mon.at = "check" /\ mem.status = "active" /\ lv \in Levels
      /\ mem \in Position /\ RecordOK(mem) /\ UNCHANGED <<exits, torn>>
      /\ exits \in [ExitIds -> ExitGroup]
      /\ Advance.at \in {"place", "check", "close", "idle"}
  BY AdvanceOK
  DEF CheckExit, broker, RecordInv, TypeOK, MonitorOK, MonitorFits, Monitor
<1>2. mon'.at # "record"
  <2>1. /\ [mon EXCEPT !.at = "place"].at = "place"
        /\ [mon EXCEPT !.at = "clear"].at = "clear"
    BY DEF RecordInv, TypeOK, MonitorOK, Monitor
  <2>2. mon' \in {Advance, [mon EXCEPT !.at = "place"], [mon EXCEPT !.at = "clear"]}
    BY DEF CheckExit
  <2>3. QED
    BY <1>1, <2>1, <2>2
<1>3. CASE UNCHANGED tracker
  BY <1>1, <1>2, <1>3, LedgerMove DEF tracker
<1>4. CASE torn
  BY <1>1, <1>4 DEF LedgerInv
<1>5. CASE ~torn /\ Unresolved(mem, lv) /\ o # NoExit
  <2>1. /\ LedgerOK(mem, exits) /\ GroupsOK(exits)
        /\ BookedIsCleared(mem, mon)
    BY <1>5 DEF LedgerInv
  <2>2. o \in ExitIds
    BY <1>1, <1>5 DEF Position, Tranche
  <2>3. mem.booked[o] = 0
    <3>1. mem.booked[o] \in Nat
      BY <1>1, <2>2 DEF Position
    <3>2. ~(mem.booked[o] > 0)
      BY <1>1, <1>5, <2>1 DEF BookedIsCleared
    <3>3. QED
      BY <3>1, <3>2
  <2>4. /\ exits[o].qty = mem.tranche[lv].shares
        /\ mem.tranche[lv].shares \in Nat \ {0}
        /\ \A k \in Levels \ {lv} : mem.tranche[k].order # o
    BY <1>1, <1>5, <2>1, <2>3 DEF LedgerOK, OrdersFit, Unresolved, Position, Tranche
  <2>5. exits[o].tp \in Nat /\ exits[o].leg \in Nat /\ exits[o].qty \in Nat
    BY <1>1, <2>2 DEF ExitGroup
  <2>6. ASSUME NEW n \in Nat, n = exits[o].qty, n <= SoldOf(exits[o]),
               NEW outcome \in {"hit", "stopped"},
               Commit(ResolveTranche(mem, lv, outcome, n))
        PROVE  LedgerInv'
    <3> DEFINE q == ResolveTranche(mem, lv, outcome, n)
    <3>0. outcome \in Outcomes /\ outcome # "open"
      BY DEF Outcomes
    <3>1. /\ q.status = "active" /\ q.initial = mem.initial
          /\ ~Unresolved(q, lv)
          /\ \A k \in Levels : /\ q.tranche[k].order = mem.tranche[k].order
                               /\ Unresolved(q, k) => Unresolved(mem, k)
      BY <1>1, <1>5, <2>2, <3>0, ResolveTrancheOK
    <3>2. /\ q.reason = mem.reason
          /\ q.open = mem.open - mem.tranche[lv].shares
          /\ q.booked = [mem.booked EXCEPT ![o] = @ + n]
          /\ \A k \in Levels : q.tranche[k].shares = mem.tranche[k].shares
      BY <1>1, <1>5, <3>0, ResolveTrancheBooks, SMTT(30)
    <3>3. Commit(q)
      BY <2>6, Zenon
    <3> HIDE DEF q
    <3>4. LedgerOK(q, exits)
      <4>1. n \in Nat \ {0} /\ q.open = mem.open - n
        BY <2>4, <2>6, <3>2
      <4>2. QED
        BY <1>1, <2>1, <2>2, <2>3, <2>6, <3>1, <3>2, <4>1, BookingFits
    <3>5. BookedIsCleared(q, mon')
      <4> SUFFICES ASSUME NEW k \in Levels, Unresolved(q, k), q.tranche[k].order # NoExit
                   PROVE  ~(q.booked[q.tranche[k].order] > 0)
        BY DEF BookedIsCleared
      <4>1. k # lv /\ Unresolved(mem, k) /\ q.tranche[k].order = mem.tranche[k].order
        BY <3>1
      <4>2. q.tranche[k].order # o
        BY <2>4, <4>1
      <4>3. q.booked[q.tranche[k].order] = mem.booked[mem.tranche[k].order]
        BY <1>1, <3>2, <4>1, <4>2 DEF Position, Tranche
      <4>4. QED
        BY <1>1, <2>1, <4>1, <4>3 DEF BookedIsCleared
    <3>6. NewOrderFits(q, mon', exits)
      BY <1>2, SMTT(30) DEF NewOrderFits
    <3>7. QED
      BY <1>1, <1>5, <3>3, <3>4, <3>5, <3>6, LedgerSave
  <2>7. CASE exits[o].state = "tp_filled" /\ Commit(MarkTargetHit(mem, lv, exits[o].tp))
    <3>1. exits[o].tp = exits[o].qty /\ exits[o].tp <= SoldOf(exits[o])
      BY <2>1, <2>2, <2>5, <2>7 DEF GroupsOK, SoldOf
    <3>2. Commit(ResolveTranche(mem, lv, "hit", exits[o].tp))
      BY <2>7 DEF MarkTargetHit
    <3>3. QED
      BY <2>5, <2>6, <3>1, <3>2
  <2>8. CASE /\ exits[o].state = "stop_filled"
             /\ Commit(MarkTrancheStopped(mem, lv, exits[o].tp + exits[o].leg))
    <3> DEFINE n == exits[o].tp + exits[o].leg
    <3>1. n = exits[o].qty /\ n <= SoldOf(exits[o]) /\ n \in Nat
      BY <2>1, <2>2, <2>5, <2>8 DEF GroupsOK, SoldOf
    <3>2. Commit(ResolveTranche(mem, lv, "stopped", n))
      BY <2>8 DEF MarkTrancheStopped
    <3> HIDE DEF n
    <3>3. QED
      BY <2>6, <3>1, <3>2, SMTT(30)
  <2>9. CASE /\ exits[o].state = "dead" /\ exits[o].tp > 0
             /\ Commit(ResizeTranche(mem, lv,
                          Greatest(0, mem.tranche[lv].shares - exits[o].tp), exits[o].tp))
             /\ mon' = [mon EXCEPT !.at = "clear"]
    <3> DEFINE n == exits[o].tp
               q == ResizeTranche(mem, lv, Greatest(0, mem.tranche[lv].shares - n), n)
    <3>1. n \in Nat \ {0} /\ n < mem.tranche[lv].shares /\ n <= SoldOf(exits[o])
      BY <2>1, <2>2, <2>4, <2>5, <2>9, SMTT(30) DEF GroupsOK, SoldOf
    <3>2. Commit(q)
      BY <2>9, Zenon
    <3> HIDE DEF n
    <3>3. /\ q.status = "active" /\ q.initial = mem.initial /\ q.reason = mem.reason
          /\ n < mem.tranche[lv].shares => q.open = mem.open - n
          /\ q.booked = [mem.booked EXCEPT ![o] = @ + n]
          /\ \A k \in Levels : /\ q.tranche[k].order = mem.tranche[k].order
                               /\ k # lv => q.tranche[k].shares = mem.tranche[k].shares
                               /\ Unresolved(q, k) => Unresolved(mem, k)
      BY <1>1, <1>5, <2>2, <3>1, ResizeTrancheOK
    <3> HIDE DEF q
    <3>4. LedgerOK(q, exits)
      BY <1>1, <2>1, <2>2, <2>3, <3>1, <3>3, BookingFits
    <3>5. mon'.at = "clear" /\ mon'.lv = lv
      BY <2>9 DEF RecordInv, TypeOK, MonitorOK, Monitor
    <3>6. BookedIsCleared(q, mon')
      <4> SUFFICES ASSUME NEW k \in Levels, k # lv, Unresolved(q, k),
                          q.tranche[k].order # NoExit
                   PROVE  ~(q.booked[q.tranche[k].order] > 0)
        BY <3>5 DEF BookedIsCleared
      <4>1. Unresolved(mem, k) /\ q.tranche[k].order = mem.tranche[k].order
        BY <3>3
      <4>2. q.tranche[k].order # o
        BY <2>4, <4>1
      <4>3. q.booked[q.tranche[k].order] = mem.booked[mem.tranche[k].order]
        BY <1>1, <3>3, <4>1, <4>2 DEF Position, Tranche
      <4>4. QED
        BY <1>1, <2>1, <4>1, <4>3 DEF BookedIsCleared
    <3>7. NewOrderFits(q, mon', exits)
      BY <1>2, SMTT(30) DEF NewOrderFits
    <3>8. QED
      BY <1>1, <1>5, <3>2, <3>4, <3>6, <3>7, LedgerSave, SMTT(30)
  <2>10. QED
    BY <1>3, <1>5, <2>7, <2>8, <2>9 DEF CheckExit
<1>6. QED
  BY <1>3, <1>4, <1>5 DEF CheckExit

LEMMA LedgerPlace ==
    ASSUME RecordInv, LedgerInv, PlaceExit
    PROVE  LedgerInv'
<1> DEFINE qty == mem.tranche[mon.lv].shares
<1>1. /\ mon.at = "place" /\ mon.lv \in Levels /\ mem \in Position
      /\ UNCHANGED <<mem, disk, torn>>
      /\ exits \in [ExitIds -> ExitGroup] /\ GroupsOK(exits)
      /\ Advance.at \in {"place", "check", "close", "idle"}
  BY AdvanceOK DEF PlaceExit, tracker, RecordInv, TypeOK, MonitorOK, Monitor, LedgerInv
<1>2. CASE mon' = Advance /\ exits' = exits
  BY <1>1, <1>2, LedgerMove
<1>3. ASSUME NEW o \in ExitIds, IsNext(o), qty > 0, exits' = [exits EXCEPT ![o] = Working(qty)],
             mon' = [mon EXCEPT !.at = "record", !.id = o] \/ mon' = Advance
      PROVE  LedgerInv'
  <2>1. /\ exits[o].state = "none" /\ SoldOf(exits[o]) = 0
        /\ qty \in Nat
    BY <1>1, <1>3 DEF IsNext, Unused, GroupsOK, Position, Tranche
  <2>2. /\ exits'[o] = Working(qty)
        /\ \A i \in ExitIds \ {o} : exits'[i] = exits[i]
    BY <1>1, <1>3
  <2>3. /\ Working(qty) \in ExitGroup
        /\ Working(qty).state = "live" /\ Working(qty).qty = qty
        /\ SoldOf(Working(qty)) = 0 /\ Working(qty).leg = 0
    BY <2>1 DEF Working, ExitGroup, ExitStates, SoldOf
  <2>4. GroupsOK(exits')
    BY <1>1, <2>2, <2>3, Zenon DEF GroupsOK
  <2>5. Grow(exits, exits')
    <3>1. \A i \in ExitIds : SoldOf(exits[i]) <= SoldOf(exits[i])
      BY <1>1 DEF SoldOf, ExitGroup
    <3>2. 0 <= 0
      OBVIOUS
    <3>3. QED
      BY <2>1, <2>2, <2>3, <3>1, <3>2 DEF Grow
  <2>6. exits' \in [ExitIds -> ExitGroup]
    BY <1>1, <1>3, <2>3
  <2>7. ~torn => NewOrderFits(mem, mon', exits')
    <3>1. CASE mon' = Advance
      BY <1>1, <3>1 DEF NewOrderFits
    <3>2. CASE ~torn /\ mon' = [mon EXCEPT !.at = "record", !.id = o]
      <4>1. mon'.id = o /\ mon'.lv = mon.lv
        BY <3>2 DEF RecordInv, TypeOK, MonitorOK, Monitor
      <4>2. mem.booked[o] = 0
        BY <1>1, <2>1, <3>2 DEF LedgerInv, LedgerOK, BookedFit, Position
      <4>3. \A lv \in Levels : mem.tranche[lv].order # o
        BY <2>1, <3>2 DEF LedgerInv, LedgerOK, OrdersFit, ExitIds, NoExit
      <4>4. QED
        BY <2>2, <2>3, <4>1, <4>2, <4>3 DEF NewOrderFits
    <3>3. QED
      BY <1>3, <3>1, <3>2
  <2>8. QED
    BY <1>1, <2>4, <2>5, <2>6, <2>7, LedgerGrows
<1>4. QED
  BY <1>2, <1>3 DEF PlaceExit

LEMMA LedgerMonitor ==
    ASSUME RecordInv, LedgerInv, MonitorThread
    PROVE  LedgerInv'
<1>1. /\ mon \in Monitor /\ mem \in Position /\ RecordOK(mem)
      /\ Idle.at = "idle"
      /\ Advance.at \in {"place", "check", "close", "idle"}
  BY AdvanceOK DEF RecordInv, TypeOK, MonitorOK, Idle
<1>2. CASE StartCycle \/ CancelRemainder \/ RefetchEntry
  <2>1. UNCHANGED <<exits, mem, disk, torn>> /\ mon.at # "clear"
    BY <1>2 DEF StartCycle, CancelRemainder, RefetchEntry, broker, tracker
  <2>2. mon'.at \in {"check", "entry", "refetch", "idle", "finalize"}
    BY <1>1, <1>2 DEF StartCycle, CancelRemainder, RefetchEntry, Idle, Monitor
  <2>3. QED
    BY <2>1, <2>2, LedgerMove
<1>3. ASSUME mem.status = "pending_fill", mon.at \in {"entry", "finalize"},
             NEW reason \in {"UNFILLED", "ENTRY_DEAD"}, Commit(MarkClosed(mem, reason)),
             mon' = Idle, UNCHANGED <<exits, torn>>
      PROVE  LedgerInv'
  <2>1. CASE torn
    BY <1>3, <2>1 DEF LedgerInv
  <2>2. CASE ~torn
    <3> DEFINE p == MarkClosed(mem, reason)
    <3>1. LedgerOK(p, exits)
      BY <1>1, <1>3, <2>2, MarkClosedFits DEF LedgerInv, Reasons
    <3>2. p.tranche = mem.tranche
      BY <1>1, <1>3, MarkClosedOK DEF Reasons
    <3> HIDE DEF p
    <3>3. BookedIsCleared(p, mon') /\ NewOrderFits(p, mon', exits)
      BY <1>1, <1>3, <2>2, <3>2
      DEF LedgerInv, LedgerOK, Untouched, BookedIsCleared, NewOrderFits
    <3>4. QED
      BY <1>3, <2>2, <3>1, <3>3, LedgerSave DEF p
  <2>3. QED
    BY <2>1, <2>2
<1>4. CASE FetchEntry
  <2>1. mon.at = "entry" /\ mem.status = "pending_fill" /\ UNCHANGED <<exits, torn>>
    BY <1>4 DEF FetchEntry, broker, RecordInv, MonitorFits
  <2>2. CASE UNCHANGED tracker
    <3>1. mon'.at \in {"idle", "finalize", "cancel"}
      BY <1>1, <1>4 DEF FetchEntry, Monitor
    <3>2. QED
      BY <2>1, <2>2, <3>1, LedgerMove DEF tracker
  <2>3. CASE Commit(MarkClosed(mem, "ENTRY_DEAD")) /\ mon' = Idle
    BY <1>3, <2>1, <2>3
  <2>4. QED
    BY <1>4, <2>2, <2>3 DEF FetchEntry
<1>5. CASE FinalizeEntry
  <2>1. /\ mon.at = "finalize" /\ mem.status = "pending_fill" /\ UNCHANGED <<exits, torn>>
        /\ mon.qty \in Nat /\ AllOpen(mem)
    BY <1>1, <1>5, SharesAssumption
    DEF FinalizeEntry, broker, RecordInv, MonitorFits, Monitor, RecordOK
  <2>2. CASE mon.qty < 1
    BY <1>3, <1>5, <2>1, <2>2 DEF FinalizeEntry
  <2>3. CASE torn
    BY <2>1, <2>3 DEF LedgerInv
  <2>4. CASE ~torn /\ ~(mon.qty < 1)
    <3> DEFINE p == MarkEntryFilled(mem, mon.qty)
    <3>1. LedgerOK(p, exits) /\ \A lv \in Levels : p.tranche[lv].order = NoExit
      BY <1>1, <2>1, <2>4, MarkEntryFilledFits DEF LedgerInv
    <3>2. Commit(p) /\ mon'.at = "place"
      BY <1>5, <2>4 DEF FinalizeEntry, Idle
    <3> HIDE DEF p
    <3>3. BookedIsCleared(p, mon') /\ NewOrderFits(p, mon', exits)
      BY <3>1, <3>2 DEF BookedIsCleared, NewOrderFits
    <3>4. QED
      BY <2>1, <2>4, <3>1, <3>2, <3>3, LedgerSave
  <2>5. QED
    BY <2>2, <2>3, <2>4
<1>6. ASSUME mem.status = "active", ~torn, NEW o \in ExitIds \cup {NoExit},
             Commit(MarkOcoPlaced(mem, mon.lv, o)), UNCHANGED <<exits, torn>>,
             o # NoExit => /\ exits[o].state # "none"
                           /\ exits[o].qty = mem.tranche[mon.lv].shares
                           /\ mem.booked[o] = 0
                           /\ \A k \in Levels : mem.tranche[k].order # o,
             mon.at = "clear" => o = NoExit,
             mon'.at # "record"
      PROVE  LedgerInv'
  <2> DEFINE lv == mon.lv
             p == MarkOcoPlaced(mem, lv, o)
  <2>1. lv \in Levels
    BY <1>1 DEF Monitor
  <2>2. LedgerOK(p, exits)
    BY <1>1, <1>6, <2>1, MarkOcoPlacedFits DEF LedgerInv
  <2>3. /\ p.booked = mem.booked
        /\ \A k \in Levels : /\ p.tranche[k].order = IF k = lv THEN o ELSE mem.tranche[k].order
                             /\ Unresolved(p, k) <=> Unresolved(mem, k)
    BY <1>1, <1>6, <2>1, MarkOcoPlacedOK
  <2>4. Commit(p)
    BY <1>6
  <2> HIDE DEF p
  <2>5. BookedIsCleared(p, mon')
    BY <1>6, <2>3 DEF LedgerInv, BookedIsCleared
  <2>6. NewOrderFits(p, mon', exits)
    BY <1>6 DEF NewOrderFits
  <2>7. QED
    BY <1>6, <2>2, <2>4, <2>5, <2>6, LedgerSave
<1>7. CASE RecordExit
  <2>1. /\ mon.at = "record" /\ mem.status = "active" /\ UNCHANGED <<exits, torn>>
        /\ mon.id \in ExitIds /\ Commit(MarkOcoPlaced(mem, mon.lv, mon.id)) /\ mon' = Advance
    BY <1>7 DEF RecordExit, broker, RecordInv, TypeOK, MonitorOK, MonitorFits
  <2>2. CASE torn
    BY <2>1, <2>2 DEF LedgerInv
  <2>3. CASE ~torn
    BY <1>1, <1>6, <2>1, <2>3 DEF LedgerInv, NewOrderFits
  <2>4. QED
    BY <2>2, <2>3
<1>8. CASE ClearExit
  <2>1. /\ mon.at = "clear" /\ mem.status = "active" /\ UNCHANGED <<exits, torn>>
        /\ Commit(MarkOcoPlaced(mem, mon.lv, NoExit)) /\ mon'.at = "place"
    BY <1>1, <1>8 DEF ClearExit, broker, RecordInv, MonitorFits, Monitor
  <2>2. CASE torn
    BY <2>1, <2>2 DEF LedgerInv
  <2>3. CASE ~torn
    BY <1>6, <2>1, <2>3
  <2>4. QED
    BY <2>2, <2>3
<1>9. CASE CloseResolved
  <2>1. mon.at = "close" /\ mem.status = "active" /\ mon' = Idle /\ UNCHANGED <<exits, torn>>
    BY <1>9 DEF CloseResolved, broker, RecordInv, MonitorFits
  <2>2. CASE UNCHANGED tracker
    BY <1>1, <2>1, <2>2, LedgerMove DEF tracker
  <2>3. CASE torn
    BY <2>1, <2>3 DEF LedgerInv
  <2>4. ASSUME NEW reason \in {"STOP", "ALL_TARGETS"}, ~torn,
               \A lv \in Levels : ~Unresolved(mem, lv), Commit(MarkClosed(mem, reason))
        PROVE  LedgerInv'
    <3> DEFINE p == MarkClosed(mem, reason)
    <3>1. mem.open = 0
      BY <1>1, <2>1, <2>4 DEF RecordOK, AddsUp, Unsold, Remaining, Levels
    <3>2. Total(mem.booked) = mem.initial
      BY <1>1, <2>1, <2>4, <3>1, TotalIsNat DEF LedgerInv, LedgerOK, Settled, Position
    <3>3. LedgerOK(p, exits)
      BY <1>1, <2>1, <2>4, <3>2, MarkClosedFits DEF LedgerInv, Reasons
    <3>4. p.tranche = mem.tranche
      BY <1>1, <2>1, <2>4, MarkClosedOK DEF Reasons
    <3> HIDE DEF p
    <3>5. BookedIsCleared(p, mon') /\ NewOrderFits(p, mon', exits)
      BY <1>1, <2>1, <2>4, <3>4 DEF BookedIsCleared, NewOrderFits, Unresolved
    <3>6. QED
      BY <2>1, <2>4, <3>3, <3>5, LedgerSave DEF p
  <2>5. QED
    BY <1>9, <2>2, <2>3, <2>4 DEF CloseResolved
<1>10. QED
  BY <1>2, <1>4, <1>5, <1>7, <1>8, <1>9, LedgerCheck, LedgerPlace DEF MonitorThread

\* The ledger and the exit orders agree in every state, until a restart tears them.
THEOREM LedgerInvariant == Spec => [](RecordInv /\ LedgerInv)
<1>1. Init => RecordInv /\ LedgerInv
  BY RecordInvInit, LedgerInit
<1>2. RecordInv /\ LedgerInv /\ [Next]_vars => (RecordInv /\ LedgerInv)'
  <2> SUFFICES ASSUME RecordInv, LedgerInv, [Next]_vars PROVE RecordInv' /\ LedgerInv'
    OBVIOUS
  <2>1. RecordInv'
    BY BrokerStep, ExecutorStep, MonitorStep, CrashStep, StutterStep DEF Next
  <2>2. ASSUME UNCHANGED vars PROVE LedgerInv'
    BY <2>2, LedgerMove DEF vars
  <2>3. LedgerInv'
    BY <2>2, LedgerBroker, LedgerExecutor, LedgerMonitor, LedgerCrash DEF Next
  <2>4. QED
    BY <2>1, <2>3
<1>3. QED
  BY <1>1, <1>2, PTL DEF Spec

\* A fill is booked at most once: the ledger never holds more shares for an exit order
\* than the order sold, in memory and in the store, whatever crashed, failed or was lost
\* on the way, except after a restart between resize_tranche and mark_oco_placed.
THEOREM BookedOnlyWhatSoldHolds == Spec => []BookedOnlyWhatSold
<1>1. LedgerInv => BookedOnlyWhatSold
  BY DEF LedgerInv, LedgerOK, BookedFit, BookedOnlyWhatSold, Backed, Sold, SoldOf
<1>2. QED
  BY <1>1, LedgerInvariant, PTL

\* The exit order recorded for a tranche covers exactly what the tranche holds, and no
\* order is recorded for two tranches.
THEOREM ExitMatchesTrancheHolds == Spec => []ExitMatchesTranche
<1>1. RecordInv /\ LedgerInv => ExitMatchesTranche
  <2> SUFFICES ASSUME RecordInv, LedgerInv, ~torn, NEW lv \in Levels, HasExit(lv)
               PROVE  /\ mon.at = "clear"
                            \/ exits[mem.tranche[lv].order].qty = mem.tranche[lv].shares
                      /\ \A k \in Levels \ {lv} :
                            mem.tranche[k].order # mem.tranche[lv].order
    BY DEF ExitMatchesTranche
  <2>1. mem.tranche[lv].order \in ExitIds
    BY DEF HasExit, RecordInv, TypeOK, Position, Tranche
  <2>2. mem.booked[mem.tranche[lv].order] \in Nat
    BY <2>1 DEF RecordInv, TypeOK, Position
  <2>3. OrdersFit(mem, exits) /\ BookedIsCleared(mem, mon)
    BY DEF LedgerInv, LedgerOK
  <2>4. QED
    BY <2>2, <2>3 DEF HasExit, OrdersFit, BookedIsCleared
<1>2. QED
  BY <1>1, LedgerInvariant, PTL

\* A record that closes through its exits has P&L booked for every share of the fill, and
\* the account holds no share the record knew of.
THEOREM CloseSettlesHolds == Spec => []CloseSettles
<1>1. RecordInv /\ LedgerInv => CloseSettles
  <2> SUFFICES ASSUME RecordInv, LedgerInv, ~torn, Exited
               PROVE  /\ Total(mem.booked) = mem.initial
                      /\ Held <= entry.filled - mem.initial
    BY DEF CloseSettles, ClosedBooksEveryShare, ExitCloseIsFlat
  <2>1. Total(mem.booked) = mem.initial
    BY DEF LedgerInv, LedgerOK, Settled, Exited
  <2>2. Total(mem.booked) <= Total([o \in ExitIds |-> Sold(o)])
    <3>1. mem.booked \in [ExitIds -> Nat]
      BY DEF RecordInv, TypeOK, Position
    <3>2. [o \in ExitIds |-> Sold(o)] \in [ExitIds -> Nat]
      BY DEF RecordInv, TypeOK, ExitGroup, Sold
    <3>3. \A o \in ExitIds : mem.booked[o] <= [i \in ExitIds |-> Sold(i)][o]
      BY DEF LedgerInv, LedgerOK, BookedFit, SoldOf, Sold
    <3>4. QED
      BY <3>1, <3>2, <3>3, TotalGrows
  <2>3. /\ Total([o \in ExitIds |-> Sold(o)]) \in Nat
        /\ entry.filled \in Nat /\ mem.initial \in Nat
    <3>1. [o \in ExitIds |-> Sold(o)] \in [ExitIds -> Nat]
      BY DEF RecordInv, TypeOK, ExitGroup, Sold
    <3>2. QED
      BY <3>1, TotalIsNat, SharesAssumption DEF RecordInv, TypeOK, EntryOrder, Position
  <2>4. QED
    BY <2>1, <2>2, <2>3 DEF Held
<1>2. QED
  BY <1>1, LedgerInvariant, PTL

=============================================================================
