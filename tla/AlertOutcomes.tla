---------------------------- MODULE AlertOutcomes ----------------------------
(***************************************************************************)
(* AlertOutcomeLedger of src/observability/alert_outcomes.py: one file of  *)
(* fired alerts and of what became of them, shared by the processes that   *)
(* run a worker.  Every update takes the file lock, reads the file, changes*)
(* what it read and writes it back; a resolution fetches prices while it   *)
(* holds the lock.                                                         *)
(***************************************************************************)
EXTENDS MoversAlerts

CONSTANTS
    Processes,
    Horizons,     \* ALERT_OUTCOMES_HORIZONS_MIN
    HorizonSlip,  \* _HORIZON_SLIP_MIN
    Expiry,       \* _EXPIRY_MIN
    MaxFetches,   \* ALERT_OUTCOMES_MAX_FETCHES_PER_CYCLE
    MaxRecords    \* ALERT_OUTCOMES_MAX_RECORDS

ASSUME OutcomesAssumption ==
    /\ Horizons \subseteq Nat /\ HorizonSlip \in Nat /\ Expiry \in Nat
    /\ MaxFetches \in Nat /\ MaxRecords \in Nat \ {0} /\ "none" \notin Processes

Outcome == {"pending", "measured", "unresolved"}
Record  == [name : Names, source : Sources, at : Times, baseline : BOOLEAN,
            outcomes : [Horizons -> Outcome]]
NoProcess == "none"

VARIABLES
    ledger,    \* the file
    lock,      \* who holds its lock
    records,   \* _records of the process that holds it
    due,       \* records of it still to fetch
    unread     \* the last update began from nothing although the file had records

outcomeVars == <<ledger, lock, records, due, unread>>

OutcomesInit ==
    ledger = <<>> /\ lock = NoProcess /\ records = <<>> /\ due = {} /\ unread = FALSE

\* load, under the lock: a file that cannot be read or parsed is logged and gives no
\* records, and the update goes on from there.
Loaded(reads) == IF reads THEN ledger ELSE <<>>
Unread(reads) == ~reads /\ ledger # <<>>

Kept(recs) == SubSeq(recs, IF Len(recs) > MaxRecords THEN Len(recs) - MaxRecords + 1 ELSE 1, Len(recs))

Fired(n, s) == [name |-> n, source |-> s, at |-> clock, baseline |-> FALSE,
                outcomes |-> [h \in Horizons |-> "pending"]]

\* Mutant: updates do not wait for the lock.
FreeAlways(p) == TRUE

\* The lock is taken at once when nobody has it; a process waits otherwise.
Free(p) == lock = NoProcess

\* record: under the lock from the load to the save.  A tick is no shorter than the minute
\* within which an alert of the same source and name is the same event.  An update
\* whose write fails is logged, and these alerts are not recorded.
RecordAlerts(p, fired, s, reads, writes) ==
    /\ Free(p)
    /\ LET old == Loaded(reads)
           new == Chosen(fired, {i \in DOMAIN fired : \A r \in Range(old) :
                               ~(r.name = fired[i] /\ r.source = s /\ r.at = clock)})
       IN  ledger' = IF writes THEN Kept(old \o [i \in DOMAIN new |-> Fired(new[i], s)])
                     ELSE ledger
    /\ unread' = Unread(reads)
    /\ UNCHANGED <<lock, records, due>>

\* Mutant: the sweep retires nothing.
ExpiredNever(r, h) == FALSE

\* resolve first retires what nobody can measure any more, without a fetch.
Expired(r, h) == r.outcomes[h] = "pending" /\ clock > r.at + h + Expiry

Swept(recs) ==
    [i \in DOMAIN recs |->
        [recs[i] EXCEPT !.outcomes =
            [h \in Horizons |-> IF Expired(recs[i], h) THEN "unresolved" ELSE @[h]]]]

\* Pending horizons that are due, of records in file order, the first ones only.
PendingDue(r) == \E h \in Horizons : r.outcomes[h] = "pending" /\ clock >= r.at + h

FirstDue(recs) ==
    {i \in DOMAIN recs :
        /\ PendingDue(recs[i])
        /\ Cardinality({k \in 1..(i - 1) : PendingDue(recs[k])}) < MaxFetches}

BeginResolve(p, reads) ==
    /\ Free(p)
    /\ lock' = p
    /\ records' = Swept(Loaded(reads))
    /\ unread' = Unread(reads)
    /\ due' = FirstDue(records')
    /\ UNCHANGED ledger

\* A frame that has come settles the due horizons its bars reach; without a bar at the
\* alert it settles all of them as unresolved.
Measured(r, base, bars) ==
    IF ~r.baseline /\ ~base
    THEN [r EXCEPT !.outcomes = [h \in Horizons |-> IF @[h] = "pending" THEN "unresolved" ELSE @[h]]]
    ELSE [r EXCEPT !.baseline = TRUE, !.outcomes =
            [h \in Horizons |->
                IF @[h] # "pending" \/ clock < r.at + h THEN @[h]
                ELSE IF h \in bars THEN "measured"
                ELSE IF clock > r.at + h + HorizonSlip THEN "unresolved" ELSE @[h]]]

\* One price fetch.  One that fails leaves its record pending.
Fetch(p) ==
    /\ lock = p /\ due # {}
    /\ LET i == CHOOSE j \in due : \A k \in due : j <= k
       IN  /\ due' = due \ {i}
           /\ \/ UNCHANGED records
              \/ \E base \in BOOLEAN, bars \in SUBSET Horizons :
                    records' = [records EXCEPT ![i] = Measured(@, base, bars)]
    /\ UNCHANGED <<ledger, lock, unread>>

\* The save, and the end of the transaction.  A write that fails is logged.
EndResolve(p, writes) ==
    /\ lock = p /\ due = {}
    /\ ledger' = IF writes THEN Kept(records) ELSE ledger
    /\ lock' = NoProcess /\ records' = <<>>
    /\ UNCHANGED <<due, unread>>

\* The process that holds the lock dies and the system releases it.
ReleaseAtDeath(p) ==
    IF lock = p
    THEN lock' = NoProcess /\ records' = <<>> /\ due' = {} /\ UNCHANGED <<ledger, unread>>
    ELSE UNCHANGED outcomeVars

===========================================================================
