---------------------------- MODULE PositionBook ----------------------------
(***************************************************************************)
(* What the executor and the tracker promise about one position, with no   *)
(* broker, no monitor and no exit orders: a record that is entered, filled *)
(* once, sold down share by share and closed, and never goes back except   *)
(* by a restart, which returns to what was last stored.  A store that      *)
(* fails to write is allowed to fall behind.                               *)
(***************************************************************************)
EXTENDS Integers

CONSTANT Sizes   \* share counts a position can have

VARIABLES
    current,   \* the record as the running process knows it
    stored     \* the record a restart would find

bookVars == <<current, stored>>

Record(st, n, k) == [status |-> st, initial |-> n, unsold |-> k]
Blank == Record("none", 0, 0)

\* Every change is offered to the store, which takes it or keeps what it has.
Write(r) == current' = r /\ stored' \in {r, stored}

Enter ==
    /\ current.status = "none"
    /\ \E n \in Sizes : Write(Record("pending_fill", n, n))

Fill ==
    /\ current.status = "pending_fill"
    /\ \E n \in Sizes : Write(Record("active", n, n))

Sell ==
    /\ current.status = "active"
    /\ \E k \in 1..current.unsold :
          Write([current EXCEPT !.unsold = @ - k])

\* An entry that is given up: nothing was recorded as bought.
CloseEntry ==
    /\ current.status = "pending_fill"
    /\ Write(Record("closed", current.initial, 0))

\* A filled position closes only when every recorded share has been sold.
CloseSold ==
    /\ current.status = "active"
    /\ current.unsold = 0
    /\ Write([current EXCEPT !.status = "closed"])

\* The record is stored again as it is.
Resave == Write(current)

Restart == current' = stored /\ stored' = stored

BookInit == current = Blank /\ stored = Blank

BookNext == Enter \/ Fill \/ Sell \/ CloseEntry \/ CloseSold \/ Resave \/ Restart

BookSpec == BookInit /\ [][BookNext]_bookVars
=============================================================================
