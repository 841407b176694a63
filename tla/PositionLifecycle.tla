------------------------- MODULE PositionLifecycle -------------------------
(***************************************************************************)
(* The life of one live position: src/alpaca/executor.py driving           *)
(* src/alpaca/position_tracker.py and the broker through                   *)
(* src/alpaca/orders.py.                                                   *)
(*                                                                         *)
(*   executor   execute_trade_plan after the risk checks: submit the entry *)
(*              order, then record it                                      *)
(*   monitor    the daemon thread of start_monitor_thread: one cycle reads *)
(*              the record and walks _check_entry_fill or _check_exits_oco *)
(*   broker     Alpaca: fills, expires, rejects, reserves shares           *)
(*   crash      the process dies; bot.py's _get_tracker loads the store    *)
(*                                                                         *)
(* Every call to the broker and every save of the store is a step of its   *)
(* own, so the broker may move and the process may die between any two.    *)
(***************************************************************************)
EXTENDS PositionTracker

CONSTANTS
    Shares,   \* shares of the trade plan
    Budget    \* bound: how many faults of each kind, and of any, a behaviour may contain

Faults == {"api",    \* a broker call fails and has no effect
           "lost",   \* a broker call takes effect but its reply is lost
           "track",  \* add_position raises
           "save",   \* save() fails; the error is logged and swallowed
           "crash",  \* the process dies and is restarted
           "dead",   \* the broker ends an exit group whose shares are unsold
           "legs",   \* ... after its stop leg sold some of them
           "both",   \* both legs of an exit group fill
           "any"}    \* any of these

ASSUME SharesAssumption == Shares \in Nat \ {0}
ASSUME BudgetAssumption == Budget \in [Faults -> Nat]

VARIABLES
    entry,    \* the entry order at the broker
    exits,    \* the exit groups (take-profit parent and stop leg) at the broker
    mem,      \* the record in the tracker's memory
    disk,     \* the record in the JSON store
    main,     \* where the executor is in execute_trade_plan
    mon,      \* where the monitor thread is in its cycle
    left,     \* faults that may still happen
    torn      \* history: a restart read a record whose dead exit group was
              \* booked and resized but not yet cleared

vars == <<entry, exits, mem, disk, main, mon, left, torn>>
broker == <<entry, exits>>
tracker == <<mem, disk>>

---------------------------------------------------------------------------
(* The broker.                                                             *)

\* "canceled" stands for canceled, expired and done_for_day, which
\* _check_entry_fill treats alike.
EntryStatuses == {"none", "new", "partially_filled", "filled", "canceled", "rejected"}
EntryLive     == entry.status \in {"new", "partially_filled"}
EntryOrder    == [status : EntryStatuses, filled : 0..Shares]

\* An exit group.  tp and leg count the shares sold by the take-profit parent
\* and by the stop leg.
ExitStates == {"none", "live", "tp_filled", "stop_filled", "dead"}
ExitGroup  == [state : ExitStates, qty : Nat, tp : Nat, leg : Nat]
NoGroup    == [state |-> "none", qty |-> 0, tp |-> 0, leg |-> 0]
Working(n) == [state |-> "live", qty |-> n, tp |-> 0, leg |-> 0]

Sold(o)  == exits[o].tp + exits[o].leg
Held     == entry.filled - Total([o \in ExitIds |-> Sold(o)])
Open(o)  == IF exits[o].state = "live" THEN exits[o].qty - exits[o].tp ELSE 0
Reserved == Total([o \in ExitIds |-> Open(o)])

\* Alpaca reserves the shares of an open sell order and rejects a second sell
\* for them (HTTP 403).
Accepts(qty) == Reserved + qty <= Held

Unused    == {o \in ExitIds : exits[o].state = "none"}
IsNext(o) == o \in Unused /\ \A u \in Unused : o <= u

CanFail(kind) == left[kind] > 0 /\ left["any"] > 0
Spend(kind)   == left' = [left EXCEPT ![kind] = @ - 1, !["any"] = @ - 1]

EntryFill ==
    /\ EntryLive
    /\ \E q \in 1..(Shares - entry.filled) :
          entry' = [status |-> IF entry.filled + q = Shares THEN "filled"
                               ELSE "partially_filled",
                    filled |-> entry.filled + q]
    /\ UNCHANGED <<exits, tracker, main, mon, left, torn>>

\* The DAY order expires, or is cancelled by hand, whatever it has filled.
EntryEnds ==
    /\ EntryLive
    /\ entry' = [entry EXCEPT !.status = "canceled"]
    /\ UNCHANGED <<exits, tracker, main, mon, left, torn>>

EntryRejected ==
    /\ entry.status = "new"
    /\ entry' = [entry EXCEPT !.status = "rejected"]
    /\ UNCHANGED <<exits, tracker, main, mon, left, torn>>

AfterTakeProfit(g, q) ==
    [state |-> IF g.tp + q = g.qty THEN "tp_filled" ELSE "live",
     qty |-> g.qty, tp |-> g.tp + q, leg |-> g.leg]

TakeProfitFill(o) ==
    /\ exits[o].state = "live"
    /\ \E q \in 1..(exits[o].qty - exits[o].tp) :
          exits' = [exits EXCEPT ![o] = AfterTakeProfit(@, q)]
    /\ UNCHANGED <<entry, tracker, main, mon, left, torn>>

\* The stop sells what the take-profit has left.
StopFill(o) ==
    /\ exits[o].state = "live"
    /\ exits' = [exits EXCEPT ![o].leg = exits[o].qty - exits[o].tp,
                              ![o].state = "stop_filled"]
    /\ UNCHANGED <<entry, tracker, main, mon, left, torn>>

\* "In extremely volatile and fast market conditions, both orders may fill
\* before the cancellation occurs": the account goes short.
BothLegsFill(o) ==
    /\ exits[o].state = "tp_filled" /\ exits[o].leg = 0
    /\ CanFail("both") /\ Spend("both")
    /\ exits' = [exits EXCEPT ![o].leg = exits[o].qty]
    /\ UNCHANGED <<entry, tracker, main, mon, torn>>

\* Both legs end canceled, expired or rejected with shares unsold.
ExitDies(o) ==
    /\ exits[o].state = "live"
    /\ CanFail("dead") /\ Spend("dead")
    /\ exits' = [exits EXCEPT ![o].state = "dead"]
    /\ UNCHANGED <<entry, tracker, main, mon, torn>>

\* As above, after the triggered stop sold part of what it covered.
ExitDiesAfterStopPartFill(o) ==
    /\ exits[o].state = "live"
    /\ CanFail("legs") /\ Spend("legs")
    /\ \E q \in 1..(exits[o].qty - exits[o].tp - 1) :
          exits' = [exits EXCEPT ![o].leg = q, ![o].state = "dead"]
    /\ UNCHANGED <<entry, tracker, main, mon, torn>>

---------------------------------------------------------------------------
(* save(): an atomic replace of the store, or a logged failure that leaves *)
(* memory ahead of it.                                                     *)

\* Mutant: the store is written before the record is changed.
CommitBeforeChange(p) ==
    /\ mem' = p
    /\ disk' = mem /\ left' = left

Commit(p) ==
    /\ mem' = p
    /\ \/ disk' = p /\ left' = left
       \/ CanFail("save") /\ Spend("save") /\ disk' = disk

---------------------------------------------------------------------------
(* The executor: the end of execute_trade_plan.                            *)

Submit ==
    /\ main = "ready"
    /\ \/ /\ entry' = [entry EXCEPT !.status = "new"]
          /\ main' = "submitted" /\ left' = left
       \/ /\ CanFail("api") /\ Spend("api")
          /\ main' = "done" /\ entry' = entry
       \/ /\ CanFail("lost") /\ Spend("lost")
          /\ main' = "done" /\ entry' = [entry EXCEPT !.status = "new"]
    /\ UNCHANGED <<exits, tracker, mon, torn>>

Track ==
    /\ main = "submitted"
    /\ Commit(AddPosition(Shares))
    /\ main' = "done"
    /\ UNCHANGED <<broker, mon, torn>>

TrackFails ==
    /\ main = "submitted"
    /\ CanFail("track") /\ Spend("track")
    /\ main' = "untracked"
    /\ UNCHANGED <<broker, tracker, mon, torn>>

\* cancel_order: accepted, refused with 422 because the order has ended, or
\* failed, with or without effect.
CancelledEntry == IF EntryLive THEN [entry EXCEPT !.status = "canceled"] ELSE entry

CancelEntryOrder ==
    \/ entry' = CancelledEntry /\ left' = left
    \/ CanFail("api")  /\ Spend("api")  /\ entry' = entry
    \/ CanFail("lost") /\ Spend("lost") /\ entry' = CancelledEntry

CancelUntracked ==
    /\ main = "untracked"
    /\ CancelEntryOrder
    /\ main' = "done"
    /\ UNCHANGED <<exits, tracker, mon, torn>>

---------------------------------------------------------------------------
(* The monitor thread.  mon.at is its next step, mon.lv the tranche it is  *)
(* on, mon.from the loop it is in (_finalize_entry_fill's or               *)
(* _check_exits_oco's), mon.id and mon.qty its local variables.            *)

MonitorSteps == {"idle", "entry", "cancel", "refetch", "finalize",
                 "check", "clear", "place", "record", "close"}
Monitor == [at : MonitorSteps, lv : Levels, from : {"finalize", "check"},
            id : ExitIds \cup {NoExit}, qty : 0..Shares]
Idle    == [at |-> "idle", lv |-> 1, from |-> "check", id |-> NoExit, qty |-> 0]

\* Mutant: the loops stop before T3.
AdvanceSkipsT3 ==
    IF mon.lv < 2
    THEN [Idle EXCEPT !.at = IF mon.from = "finalize" THEN "place" ELSE "check",
                      !.lv = mon.lv + 1, !.from = mon.from]
    ELSE IF mon.from = "finalize" THEN Idle ELSE [Idle EXCEPT !.at = "close"]

\* Mutant: the check loop returns at the first tranche whose exit is working.
AdvanceReturnsEarly ==
    IF mon.lv < 3 /\ (mon.from = "check" => ~Unresolved(mem, mon.lv))
    THEN [Idle EXCEPT !.at = IF mon.from = "finalize" THEN "place" ELSE "check",
                      !.lv = mon.lv + 1, !.from = mon.from]
    ELSE IF mon.from = "finalize" THEN Idle ELSE [Idle EXCEPT !.at = "close"]

\* The next tranche of the loop the monitor is in, or what follows the loop.
Advance ==
    IF mon.lv < 3
    THEN [Idle EXCEPT !.at = IF mon.from = "finalize" THEN "place" ELSE "check",
                      !.lv = mon.lv + 1, !.from = mon.from]
    ELSE IF mon.from = "finalize" THEN Idle ELSE [Idle EXCEPT !.at = "close"]

\* monitor_positions: get_open, and the handler for the record's status
StartCycle ==
    /\ mon.at = "idle"
    /\ mem.status \in {"pending_fill", "active"}
    /\ mon' = [Idle EXCEPT !.at = IF mem.status = "active" THEN "check" ELSE "entry"]
    /\ UNCHANGED <<broker, tracker, main, left, torn>>

\* _check_entry_fill, the first fetch.  A terminal order cannot change any
\* more, so fetching it and closing the record are one step.
FetchEntry ==
    /\ mon.at = "entry"
    /\ \/ /\ CanFail("api") /\ Spend("api")
          /\ mon' = Idle /\ UNCHANGED tracker
       \/ /\ entry.status = "filled"
          /\ mon' = [mon EXCEPT !.at = "finalize", !.qty = entry.filled]
          /\ UNCHANGED <<tracker, left>>
       \/ /\ entry.status = "partially_filled"
          /\ mon' = [mon EXCEPT !.at = "cancel"]
          /\ UNCHANGED <<tracker, left>>
       \/ /\ entry.status = "canceled"
          /\ Commit(MarkClosed(mem, "ENTRY_DEAD"))
          /\ mon' = Idle
       \/ /\ entry.status \in {"new", "rejected"}
          /\ mon' = Idle /\ UNCHANGED <<tracker, left>>
    /\ UNCHANGED <<broker, main, torn>>

\* The error of a failed cancel is logged; the handler goes on either way.
CancelRemainder ==
    /\ mon.at = "cancel"
    /\ CancelEntryOrder
    /\ mon' = [mon EXCEPT !.at = "refetch"]
    /\ UNCHANGED <<exits, tracker, main, torn>>

RefetchEntry ==
    /\ mon.at = "refetch"
    /\ \/ CanFail("api") /\ Spend("api") /\ mon' = Idle
       \/ mon' = [mon EXCEPT !.at = "finalize", !.qty = entry.filled] /\ left' = left
    /\ UNCHANGED <<broker, tracker, main, torn>>

\* _finalize_entry_fill, up to its placement loop
FinalizeEntry ==
    /\ mon.at = "finalize"
    /\ IF mon.qty < 1
       THEN Commit(MarkClosed(mem, "UNFILLED")) /\ mon' = Idle
       ELSE /\ Commit(MarkEntryFilled(mem, mon.qty))
            /\ mon' = [Idle EXCEPT !.at = "place", !.from = "finalize"]
    /\ UNCHANGED <<broker, main, torn>>

\* _place_tranche_oco: submit ...
PlaceExit ==
    /\ mon.at = "place"
    /\ LET qty == mem.tranche[mon.lv].shares
       IN  \/ /\ qty = 0 \/ ~Accepts(qty)
              /\ mon' = Advance /\ UNCHANGED <<exits, left>>
           \/ /\ qty > 0 /\ CanFail("api") /\ Spend("api")
              /\ mon' = Advance /\ exits' = exits
           \/ /\ qty > 0 /\ Accepts(qty)
              /\ \E o \in ExitIds :
                    /\ IsNext(o)
                    /\ exits' = [exits EXCEPT ![o] = Working(qty)]
                    /\ \/ /\ mon' = [mon EXCEPT !.at = "record", !.id = o]
                          /\ left' = left
                       \/ /\ CanFail("lost") /\ Spend("lost")
                          /\ mon' = Advance
    /\ UNCHANGED <<entry, tracker, main, torn>>

\* ... then mark_oco_placed
RecordExit ==
    /\ mon.at = "record"
    /\ Commit(MarkOcoPlaced(mem, mon.lv, mon.id))
    /\ mon' = Advance
    /\ UNCHANGED <<broker, main, torn>>

\* One tranche of _check_exits_oco.  The fetch and the mutation it leads to
\* are one step: a filled or dead group has ended, so the answer is not stale.
CheckExit ==
    /\ mon.at = "check"
    /\ LET t == mem.tranche[mon.lv]
           g == exits[t.order]
       IN  \/ /\ ~Unresolved(mem, mon.lv)
              /\ mon' = Advance /\ UNCHANGED <<tracker, left>>
           \/ /\ Unresolved(mem, mon.lv) /\ t.order = NoExit
              /\ mon' = [mon EXCEPT !.at = "place"] /\ UNCHANGED <<tracker, left>>
           \/ /\ Unresolved(mem, mon.lv) /\ t.order # NoExit
              /\ \/ /\ CanFail("api") /\ Spend("api")
                    /\ mon' = Advance /\ UNCHANGED tracker
                 \/ /\ g.state = "live"
                    /\ mon' = Advance /\ UNCHANGED <<tracker, left>>
                 \/ /\ g.state = "tp_filled"
                    /\ Commit(MarkTargetHit(mem, mon.lv, g.tp))
                    /\ mon' = Advance
                 \/ /\ g.state = "stop_filled"
                    /\ Commit(MarkTrancheStopped(mem, mon.lv, g.tp + g.leg))
                    /\ mon' = Advance
                 \/ /\ g.state = "dead"
                    /\ IF g.tp > 0
                       THEN Commit(ResizeTranche(mem, mon.lv, Greatest(0, t.shares - g.tp), g.tp))
                       ELSE UNCHANGED <<tracker, left>>
                    /\ mon' = [mon EXCEPT !.at = "clear"]
    /\ UNCHANGED <<broker, main, torn>>

\* Mutant: the id of the dead group is kept.
ClearExitKeepsId ==
    /\ mon.at = "clear"
    /\ mon' = [mon EXCEPT !.at = "place"]
    /\ UNCHANGED <<broker, tracker, main, left, torn>>

\* The dead group is forgotten, and the shares that remain are offered again.
ClearExit ==
    /\ mon.at = "clear"
    /\ Commit(MarkOcoPlaced(mem, mon.lv, NoExit))
    /\ mon' = [mon EXCEPT !.at = "place"]
    /\ UNCHANGED <<broker, main, torn>>

\* After the loop: close the record when no tranche is open.
CloseResolved ==
    /\ mon.at = "close"
    /\ IF \E lv \in Levels : Unresolved(mem, lv)
       THEN UNCHANGED <<tracker, left>>
       ELSE Commit(MarkClosed(mem,
                     IF \E lv \in Levels : mem.tranche[lv].outcome = "stopped"
                     THEN "STOP" ELSE "ALL_TARGETS"))
    /\ mon' = Idle
    /\ UNCHANGED <<broker, main, torn>>

---------------------------------------------------------------------------
(* The process dies and is started again: load() reads the store.          *)

\* A tranche still carries an exit order whose shares are already booked.
HalfCleared(p) ==
    \E lv \in Levels : /\ Unresolved(p, lv)
                       /\ p.tranche[lv].order # NoExit
                       /\ p.booked[p.tranche[lv].order] > 0

Crash ==
    /\ CanFail("crash") /\ Spend("crash")
    /\ mem' = disk
    /\ main' = IF main = "ready" THEN "ready" ELSE "done"
    /\ mon' = Idle
    /\ torn' = (torn \/ HalfCleared(disk))
    /\ UNCHANGED <<broker, disk>>

---------------------------------------------------------------------------

Init ==
    /\ entry = [status |-> "none", filled |-> 0]
    /\ exits = [o \in ExitIds |-> NoGroup]
    /\ mem = NoPosition
    /\ disk = NoPosition
    /\ main = "ready"
    /\ mon = Idle
    /\ left = Budget
    /\ torn = FALSE

Executor == Submit \/ Track \/ TrackFails \/ CancelUntracked

MonitorThread ==
    \/ StartCycle \/ FetchEntry \/ CancelRemainder \/ RefetchEntry \/ FinalizeEntry
    \/ PlaceExit \/ RecordExit \/ CheckExit \/ ClearExit \/ CloseResolved

Broker ==
    \/ EntryFill \/ EntryEnds \/ EntryRejected
    \/ \E o \in ExitIds : \/ TakeProfitFill(o) \/ StopFill(o) \/ BothLegsFill(o)
                          \/ ExitDies(o) \/ ExitDiesAfterStopPartFill(o)

Next == Executor \/ MonitorThread \/ Broker \/ Crash

Spec == Init /\ [][Next]_vars

\* Both threads keep running; the market owes nothing.
FairSpec == Spec /\ WF_vars(Executor) /\ WF_vars(MonitorThread)

===========================================================================
