-------------------------- MODULE PositionTracker --------------------------
(***************************************************************************)
(* One record of src/alpaca/position_tracker.py: a LivePosition together   *)
(* with what the realized-P&L ledger holds for it, and the mutators the    *)
(* executor calls on it.  A mutator is an operator from record to record;  *)
(* that every mutator ends in save() is modelled by its callers, which     *)
(* commit the record it returns to memory and to disk (PositionLifecycle). *)
(*                                                                         *)
(* P&L is (exit price - cost basis) * shares.  Prices are left out: what   *)
(* the ledger must get right is which shares it has booked, so a ledger    *)
(* entry is the number of shares it accounts for, filed under the broker   *)
(* order that sold them.                                                   *)
(***************************************************************************)
EXTENDS Integers, Functions

CONSTANT MaxExits   \* bound: exit orders the broker ever accepts for the position

ASSUME MaxExitsAssumption == MaxExits \in Nat \ {0}

ExitIds == 1..MaxExits
NoExit  == 0        \* t{n}_order_id is None
Levels  == 1..3     \* T1, T2, T3

\* The shares of all exit orders, f giving those of each.
Total(f) == SumFunctionOnSet(f, ExitIds)

Least(a, b)    == IF a < b THEN a ELSE b
Greatest(a, b) == IF a < b THEN b ELSE a

(***************************************************************************)
(* _allocate_exit_tranches: T1 is about 30% of the shares and at least     *)
(* one, T2 about 40%, T3 the rest.  Python's round() sends a tie to the    *)
(* even neighbour.                                                         *)
(***************************************************************************)
RoundTenths(x) ==
    LET q == x \div 10
        r == x % 10
    IN  IF r > 5 \/ (r = 5 /\ q % 2 = 1) THEN q + 1 ELSE q

\* Mutant: the allocation before its fix, (1, 1, -1) for one share.
AllocateWithoutClamp(shares) ==
    LET t1 == Greatest(1, RoundTenths(3 * shares))
        t2 == Greatest(1, RoundTenths(4 * shares))
    IN  <<t1, t2, shares - t1 - t2>>

AllocateExitTranches(shares) ==
    LET t1 == Least(shares, Greatest(1, RoundTenths(3 * shares)))
        t2 == Least(shares - t1, RoundTenths(4 * shares))
    IN  <<t1, t2, shares - t1 - t2>>

---------------------------------------------------------------------------

Outcomes == {"open", "hit", "stopped"}
Statuses == {"none", "pending_fill", "active", "closed"}
Reasons  == {"none", "UNFILLED", "ENTRY_DEAD", "STOP", "ALL_TARGETS"}

Tranche  == [shares : Nat, order : ExitIds \cup {NoExit}, outcome : Outcomes]

Position == [status  : Statuses,
             initial : Nat,
             open    : Nat,
             tranche : [Levels -> Tranche],
             booked  : [ExitIds -> Nat],
             reason  : Reasons]

FreshTranches(shares) ==
    [lv \in Levels |-> [shares  |-> AllocateExitTranches(shares)[lv],
                        order   |-> NoExit,
                        outcome |-> "open"]]

\* The ticker is not in the store.
NoPosition ==
    [status |-> "none", initial |-> 0, open |-> 0,
     tranche |-> [lv \in Levels |-> [shares |-> 0, order |-> NoExit, outcome |-> "open"]],
     booked |-> [o \in ExitIds |-> 0], reason |-> "none"]

\* add_position
AddPosition(shares) ==
    [status |-> "pending_fill", initial |-> shares, open |-> shares,
     tranche |-> FreshTranches(shares),
     booked |-> [o \in ExitIds |-> 0], reason |-> "none"]

\* mark_entry_filled: the tranches are cut again from the shares that filled.
\* Order ids are left alone; none is set while the entry is pending.
MarkEntryFilled(p, shares) ==
    [p EXCEPT !.status = "active", !.initial = shares, !.open = shares,
              !.tranche = [lv \in Levels |->
                 [p.tranche[lv] EXCEPT !.shares = AllocateExitTranches(shares)[lv]]]]

\* mark_oco_placed; order = NoExit records that the tranche has no live exit
MarkOcoPlaced(p, lv, order) == [p EXCEPT !.tranche[lv].order = order]

\* _append_realized_locked
AppendRealized(p, order, shares) == [p EXCEPT !.booked[order] = @ + shares]

\* mark_target_hit and its twin mark_tranche_stopped
ResolveTranche(p, lv, outcome, shares) ==
    AppendRealized(
        [p EXCEPT !.open = Greatest(0, @ - p.tranche[lv].shares),
                  !.tranche[lv].outcome = outcome],
        p.tranche[lv].order, shares)

MarkTargetHit(p, lv, shares)      == ResolveTranche(p, lv, "hit", shares)
MarkTrancheStopped(p, lv, shares) == ResolveTranche(p, lv, "stopped", shares)

\* Mutant: shares_open is not reduced.
ResizeKeepsOpen(p, lv, left, sold) ==
    AppendRealized([p EXCEPT !.tranche[lv].shares = Greatest(0, Least(@, left))],
                   p.tranche[lv].order, sold)

\* Mutant: the shares that left are not booked.
ResizeBooksNothing(p, lv, left, sold) ==
    LET old == p.tranche[lv].shares
        new == Greatest(0, Least(old, left))
    IN  [p EXCEPT !.open = Greatest(0, @ - (old - new)), !.tranche[lv].shares = new]

\* resize_tranche: the tranche keeps `left` shares, `sold` are booked
ResizeTranche(p, lv, left, sold) ==
    LET old == p.tranche[lv].shares
        new == Greatest(0, Least(old, left))
    IN  AppendRealized(
            [p EXCEPT !.open = Greatest(0, @ - (old - new)),
                      !.tranche[lv].shares = new],
            p.tranche[lv].order, sold)

\* mark_closed is idempotent: a closed record is returned as it is
MarkClosed(p, reason) ==
    IF p.status = "closed" THEN p
    ELSE [p EXCEPT !.open = 0, !.status = "closed", !.reason = reason]

---------------------------------------------------------------------------

\* A tranche whose shares have not left through its exit yet.
Unresolved(p, lv) ==
    /\ p.tranche[lv].shares > 0
    /\ p.tranche[lv].outcome = "open"

\* Shares of a tranche that are still to be sold.
Remaining(p, lv) == IF Unresolved(p, lv) THEN p.tranche[lv].shares ELSE 0

===========================================================================
