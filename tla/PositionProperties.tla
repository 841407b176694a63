------------------------- MODULE PositionProperties -------------------------
(***************************************************************************)
(* What the life-cycle of PositionLifecycle must satisfy.                  *)
(***************************************************************************)
EXTENDS PositionLifecycle

MonitorOK ==
    /\ mon \in Monitor
    /\ mon.at = "record" => mon.id \in ExitIds

\* Every variable holds a value of its kind; in particular no tranche and no
\* share count of a record ever goes below zero.
TypeOK ==
    /\ entry \in EntryOrder
    /\ exits \in [ExitIds -> ExitGroup]
    /\ mem \in Position
    /\ disk \in Position
    /\ main \in {"ready", "submitted", "untracked", "done"}
    /\ MonitorOK
    /\ left \in [Faults -> Nat]
    /\ torn \in BOOLEAN

Unsold(p) == Remaining(p, 1) + Remaining(p, 2) + Remaining(p, 3)

AddsUp(p) ==
    /\ p.status \in {"pending_fill", "active"} => p.open = Unsold(p)
    /\ p.status = "closed" => p.open = 0

\* shares_open, which add_position, mark_entry_filled, mark_target_hit,
\* mark_tranche_stopped and resize_tranche each maintain on their own, is the
\* sum of the tranches still to be sold, in memory and in the store, whatever
\* crashed or failed to save in between.
SharesAddUp == AddsUp(mem) /\ AddsUp(disk)

Backed(p) == \A o \in ExitIds : p.booked[o] <= Sold(o)

\* The realized-P&L ledger never holds more shares for an exit order than that
\* order sold: a fill is booked at most once, across restarts and lost saves.
\* The one exception is a restart between resize_tranche and the mark_oco_placed
\* that clears the dead group (executor.py:920-924).
BookedOnlyWhatSold == torn \/ (Backed(mem) /\ Backed(disk))

\* The same without the exception, as the comments on mark_target_hit and
\* mark_closed promise it for a crash at any point.
BookedAtMostOnce == Backed(mem)

HasExit(lv) == Unresolved(mem, lv) /\ mem.tranche[lv].order # NoExit

\* An exit order recorded for a tranche covers exactly the shares the tranche
\* still holds, and no order is recorded for two tranches.
ExitMatchesTranche ==
    \/ torn
    \/ \A lv \in Levels : HasExit(lv) =>
          /\ mon.at = "clear" \/ exits[mem.tranche[lv].order].qty = mem.tranche[lv].shares
          /\ \A k \in Levels \ {lv} : mem.tranche[k].order # mem.tranche[lv].order

Exited == mem.reason \in {"STOP", "ALL_TARGETS"}

\* A record that closed through its exits has P&L booked for every share of the
\* fill, no more and no fewer.
ClosedBooksEveryShare ==
    ~torn /\ Exited => Total(mem.booked) = mem.initial

\* When a record closes through its exits, the account holds at most the shares
\* that filled after the fill was recorded: nothing the record knew of is left.
ExitCloseIsFlat == ~torn /\ Exited => Held <= entry.filled - mem.initial

\* Closing through the exits settles a position, in the ledger and at the broker.
CloseSettles == ClosedBooksEveryShare /\ ExitCloseIsFlat

\* A record closed as an entry that never traded leaves no shares behind
\* (_check_entry_fill: "Terminal states with no fill close the record").
EntryCloseLeavesNoShares ==
    mem.reason \in {"ENTRY_DEAD", "UNFILLED"} => entry.filled = 0

---------------------------------------------------------------------------
(* The abstract record.                                                    *)

Abstract(p) == [status |-> p.status, initial |-> p.initial, unsold |-> p.open]

Book == INSTANCE PositionBook
            WITH Sizes <- 1..Shares, current <- Abstract(mem), stored <- Abstract(disk)

\* The life-cycle implements PositionBook: one fill, shares only leave, a filled
\* record closes only when all of them have, and only a restart goes back.
ImplementsBook == Book!BookSpec

---------------------------------------------------------------------------
(* Liveness, under FairSpec.                                               *)

Recorded(o) == \E lv \in Levels : HasExit(lv) /\ mem.tranche[lv].order = o

Unprotected(lv) ==
    /\ mem.status = "active" /\ Unresolved(mem, lv)
    /\ \/ mem.tranche[lv].order = NoExit
       \/ exits[mem.tranche[lv].order].state = "dead"

\* The account has not as many free shares as the tranche would sell: some left
\* unbooked through a stop leg, or are reserved by an order no record knows of.
Refused(lv) == ~Accepts(mem.tranche[lv].shares)

\* A tranche with no exit order, or whose group died, gets a new one ("UNPROTECTED
\* until the next monitor cycle retries") unless the broker must refuse it.
UnprotectedGetsExit ==
    \A lv \in Levels : Unprotected(lv) ~> (~Unprotected(lv) \/ Refused(lv))

\* A recorded exit that fills at the broker is booked, or its record is lost in
\* a restart.
ExitFillGetsBooked ==
    \A o \in ExitIds :
       (Recorded(o) /\ exits[o].state \in {"tp_filled", "stop_filled"})
          ~> (mem.booked[o] > 0 \/ ~Recorded(o))

\* An entry that ended at the broker does not stay pending in the record.
EndedEntryIsNoticed ==
    (mem.status = "pending_fill" /\ entry.status \in {"filled", "canceled"})
       ~> mem.status # "pending_fill"

\* An active record with nothing left to sell is closed, which frees its ticker
\* and its slot in the position limit.
SoldOutGetsClosed ==
    (mem.status = "active" /\ \A lv \in Levels : ~Unresolved(mem, lv))
       ~> mem.status # "active"

\* The monitor catches up with whatever happened at the broker.
MonitorCatchesUp == ExitFillGetsBooked /\ EndedEntryIsNoticed /\ SoldOutGetsClosed

=============================================================================
