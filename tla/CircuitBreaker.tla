--------------------------- MODULE CircuitBreaker ---------------------------
(***************************************************************************)
(* The entry circuit breaker, src/alpaca/circuit_breaker.py, and the       *)
(* processes that share its state file:                                    *)
(*                                                                         *)
(*   executors   CLI processes in execute_trade_plan: they load the file,  *)
(*               consult it before an entry and record broker errors       *)
(*   operators   dashboard workers in api_breaker: halt and resume         *)
(*                                                                         *)
(* A change is a transaction of _exclusive: take the lock file, reload the *)
(* state, change it, write it, release.  load() takes no lock; the file is *)
(* replaced atomically, so it reads the state before or after a save.  It  *)
(* never raises: an instance whose load fails stays as it was.             *)
(*                                                                         *)
(* Time is a clock that ticks on its own.  The list of error timestamps is *)
(* kept as a bag: how many errors carry each timestamp.                    *)
(***************************************************************************)
EXTENDS Integers, Functions

CONSTANTS
    Executors, Operators,   \* processes
    NoProcess,              \* the holder of a free lock
    Threshold,              \* CIRCUIT_BROKER_ERROR_THRESHOLD
    Window,                 \* CIRCUIT_BROKER_ERROR_WINDOW_SECONDS
    MaxTime,                \* bound: the clock stops here
    MaxErrors,              \* bound: broker errors per executor
    MaxFaults               \* bound: loads, transactions and saves that fail

Processes == Executors \cup Operators

ASSUME ProcessesAssumption ==
    Executors \cap Operators = {} /\ NoProcess \notin Processes
ASSUME LimitsAssumption ==
    /\ Threshold \in Int /\ Window \in Int
    /\ MaxTime \in Nat /\ MaxErrors \in Nat /\ MaxFaults \in Nat

VARIABLES
    clock,
    store,      \* the state file
    lock,       \* the holder of the lock file
    pc,         \* where each process is
    seen,       \* each process's CircuitBreaker instance
    blind,      \* history: that the last load of this instance failed
    stamp,      \* the `now` of each process's record call
    errors,     \* broker errors each executor may still meet
    faults,     \* faults that may still happen
    recorded,   \* history: errors saved since the last resume, by timestamp, or since
                \* the last save of an instance whose load failed
    late,       \* history: entries each executor submitted since the halt, of those
                \* whose check had read the file
    alerts,     \* history: trips reported since the breaker was last untripped, by
                \* who had read the file
    told        \* history: the last request api_breaker answered with "ok"

vars == <<clock, store, lock, pc, seen, blind, stamp, errors, faults,
          recorded, late, alerts, told>>
history == <<recorded, late, alerts, told>>

Times   == 0..MaxTime
NoTimes == [t \in Times |-> 0]
State   == [halt : BOOLEAN, times : [Times -> Nat]]
Healthy == [halt |-> FALSE, times |-> NoTimes]

---------------------------------------------------------------------------
(* The breaker's computations.                                             *)

InWindow(t, now) == Window <= 0 \/ t >= now - Window

\* _prune_locked
Prune(times, now) == [t \in Times |-> IF InWindow(t, now) THEN times[t] ELSE 0]

\* broker_error_count
Count(times, now) ==
    SumFunctionOnSet(times, {t \in Times : InWindow(t, now)})

\* broker_breaker_tripped
Tripped(times, now) == Threshold > 0 /\ Count(times, now) >= Threshold

\* What both record calls do to the list.
Appended(times, now) == Prune([times EXCEPT ![now] = @ + 1], now)

---------------------------------------------------------------------------
(* The transaction.                                                        *)

Waits  == {"want_trip", "want_plain", "want_halt", "want_resume"}
Holds  == {"in_trip", "in_plain", "in_halt", "in_resume"}
Places == {"idle", "check", "submit"} \cup Waits \cup Holds

Inside == [want_trip |-> "in_trip", want_plain |-> "in_plain",
           want_halt |-> "in_halt", want_resume |-> "in_resume"]

Go(p, place) == pc' = [pc EXCEPT ![p] = place]

\* load(): the instance is what the file says; or the file cannot be read, is malformed
\* or not there, and the instance stays what it was, which is healthy when it is new.
LoadFile(p) ==
    \/ /\ seen' = [seen EXCEPT ![p] = store]
       /\ blind' = [blind EXCEPT ![p] = FALSE]
       /\ faults' = faults
    \/ /\ faults > 0 /\ faults' = faults - 1
       /\ blind' = [blind EXCEPT ![p] = TRUE]
       /\ seen' = seen

\* The call returns and its instance is dropped.
Return(p) ==
    /\ Go(p, "idle")
    /\ seen' = [seen EXCEPT ![p] = Healthy]
    /\ blind' = [blind EXCEPT ![p] = FALSE]
    /\ stamp' = [stamp EXCEPT ![p] = 0]

\* record_broker_error reads the clock under the lock.
Stamped(p) == IF pc[p] = "want_plain" THEN [stamp EXCEPT ![p] = clock] ELSE stamp

\* Mutant: the transaction changes the state its instance loaded earlier.
AcquireNoReload(p) ==
    /\ pc[p] \in Waits
    /\ lock = NoProcess /\ lock' = p
    /\ Go(p, Inside[pc[p]])
    /\ stamp' = Stamped(p)
    /\ UNCHANGED <<clock, store, seen, blind, errors, faults, history>>

\* Mutant: no lock file.
AcquireNoLock(p) ==
    /\ pc[p] \in Waits
    /\ lock' = p
    /\ LoadFile(p)
    /\ Go(p, Inside[pc[p]])
    /\ stamp' = Stamped(p)
    /\ UNCHANGED <<clock, store, errors, history>>

\* _exclusive, up to its yield.  A reload that fails goes unnoticed.
Acquire(p) ==
    /\ pc[p] \in Waits
    /\ lock = NoProcess /\ lock' = p
    /\ LoadFile(p)
    /\ Go(p, Inside[pc[p]])
    /\ stamp' = Stamped(p)
    /\ UNCHANGED <<clock, store, errors, history>>

\* The lock file cannot be opened, or no temporary file can be made for the new
\* state: the call raises and releases the lock.  _record_broker_error then tries
\* the plain call on the same instance, which has the error by now when the save
\* raised, and gives up when that raises too; api_breaker answers 500.
Raise(p) ==
    /\ pc[p] \in Waits \cup Holds
    /\ faults > 0 /\ faults' = faults - 1
    /\ lock' = IF lock = p THEN NoProcess ELSE lock
    /\ CASE pc[p] = "want_trip" -> Go(p, "want_plain") /\ UNCHANGED <<seen, blind, stamp>>
         [] pc[p] = "in_trip" ->
              /\ Go(p, "want_plain") /\ UNCHANGED <<blind, stamp>>
              /\ seen' = [seen EXCEPT ![p].times = Appended(@, stamp[p])]
         [] OTHER -> Return(p)
    /\ UNCHANGED <<clock, store, errors, history>>

\* _save_locked and the release.  A write or rename that fails is logged and
\* swallowed.
Save(p, state) ==
    /\ Return(p)
    /\ lock' = NoProcess
    /\ \/ store' = state /\ faults' = faults
       \/ faults > 0 /\ faults' = faults - 1 /\ store' = store
    /\ UNCHANGED <<clock, errors>>

\* Trips are counted as long as the file, read now, stays tripped.
Alerts(n) == IF Tripped(store'.times, clock') THEN n ELSE 0

\* Mutant: every error recorded while tripped is a trip.
TripsEveryTime(before, after, now) == Tripped(after, now)

\* record_broker_error_and_check_trip's answer
Trips(before, after, now) == ~Tripped(before, now) /\ Tripped(after, now)

\* What counts as recorded when p has written: what it added to what it had read, or
\* all it wrote when it had not read the file.
Records(p, added, written) ==
    recorded' = IF faults' # faults THEN recorded
                ELSE IF blind[p] THEN written ELSE added

\* The count of late entries ends with the halt.
CountsLate ==
    late' = IF store.halt /\ ~store'.halt THEN [e \in Executors |-> 0] ELSE late

\* record_broker_error_and_check_trip and record_broker_error
CommitError(p) ==
    /\ pc[p] \in {"in_trip", "in_plain"}
    /\ LET now   == stamp[p]
           times == Appended(seen[p].times, now)
       IN  /\ Save(p, [seen[p] EXCEPT !.times = times])
           /\ Records(p, [recorded EXCEPT ![now] = @ + 1], times)
           /\ alerts' = Alerts(IF /\ pc[p] = "in_trip" /\ ~blind[p]
                                  /\ Trips(seen[p].times, times, now)
                               THEN alerts + 1 ELSE alerts)
    /\ CountsLate /\ UNCHANGED told

CommitHalt(p) ==
    /\ pc[p] = "in_halt"
    /\ Save(p, [seen[p] EXCEPT !.halt = TRUE])
    /\ Records(p, recorded, seen[p].times)
    /\ alerts' = Alerts(alerts) /\ told' = "halt"
    /\ CountsLate

\* resume also clears the broker errors.
CommitResume(p) ==
    /\ pc[p] = "in_resume"
    /\ Save(p, Healthy)
    /\ Records(p, NoTimes, NoTimes)
    /\ alerts' = Alerts(alerts) /\ told' = "resume"
    /\ CountsLate

---------------------------------------------------------------------------
(* The executors and the operators.                                        *)

\* Mutant: the state is not loaded before the check.
CheckUnloaded(e) ==
    /\ e \in Executors /\ pc[e] = "idle"
    /\ Go(e, "check")
    /\ UNCHANGED <<clock, store, lock, seen, blind, stamp, errors, faults, history>>

\* get_portfolio_data succeeds and the state is loaded, without the lock.
Load(e) ==
    /\ e \in Executors /\ pc[e] = "idle"
    /\ LoadFile(e)
    /\ Go(e, "check")
    /\ UNCHANGED <<clock, store, lock, stamp, errors, history>>

\* RiskGuard.check: blocks_entry, or any of the later checks, may refuse.
Check(e) ==
    /\ pc[e] = "check"
    /\ \/ Return(e)
       \/ /\ ~seen[e].halt /\ ~Tripped(seen[e].times, clock)
          /\ Go(e, "submit") /\ UNCHANGED <<seen, blind, stamp>>
    /\ UNCHANGED <<clock, store, lock, errors, faults, history>>

Submit(e) ==
    /\ pc[e] = "submit"
    /\ Return(e)
    /\ late' = [late EXCEPT ![e] = IF store.halt /\ ~blind[e] THEN @ + 1 ELSE @]
    /\ UNCHANGED <<clock, store, lock, errors, faults, recorded, alerts, told>>

\* The portfolio read fails, after which the state is loaded, or the submit does:
\* _record_broker_error, whose record_broker_error_and_check_trip reads the clock
\* before it has the lock.
BrokerError(e) ==
    /\ e \in Executors
    /\ \/ pc[e] = "idle" /\ LoadFile(e)
       \/ pc[e] = "submit" /\ UNCHANGED <<seen, blind, faults>>
    /\ errors[e] > 0
    /\ errors' = [errors EXCEPT ![e] = @ - 1]
    /\ stamp' = [stamp EXCEPT ![e] = clock]
    /\ Go(e, "want_trip")
    /\ UNCHANGED <<clock, store, lock, history>>

\* api_breaker
Request(d) ==
    /\ d \in Operators /\ pc[d] = "idle"
    /\ \E w \in {"want_halt", "want_resume"} : Go(d, w)
    /\ LoadFile(d)
    /\ UNCHANGED <<clock, store, lock, stamp, errors, history>>

\* A process dies; the kernel releases its lock.  A new one takes its place.
Die(p) ==
    /\ pc[p] # "idle"
    /\ Return(p)
    /\ lock' = IF lock = p THEN NoProcess ELSE lock
    /\ UNCHANGED <<clock, store, errors, faults, history>>

Tick ==
    /\ clock < MaxTime
    /\ clock' = clock + 1
    /\ store' = store
    /\ alerts' = Alerts(alerts)
    /\ UNCHANGED <<lock, pc, seen, blind, stamp, errors, faults, recorded, late, told>>

---------------------------------------------------------------------------

\* The file is there, as a resume leaves it.
Init ==
    /\ clock = 0
    /\ store = Healthy
    /\ lock = NoProcess
    /\ pc = [p \in Processes |-> "idle"]
    /\ seen = [p \in Processes |-> Healthy]
    /\ blind = [p \in Processes |-> FALSE]
    /\ stamp = [p \in Processes |-> 0]
    /\ errors = [e \in Executors |-> MaxErrors]
    /\ faults = MaxFaults
    /\ recorded = NoTimes
    /\ late = [e \in Executors |-> 0]
    /\ alerts = 0
    /\ told = "resume"

Transaction(p) ==
    \/ Acquire(p) \/ Raise(p)
    \/ CommitError(p) \/ CommitHalt(p) \/ CommitResume(p)

Execute(e) == Load(e) \/ Check(e) \/ Submit(e) \/ BrokerError(e)

Next ==
    \/ \E p \in Processes : Transaction(p) \/ Die(p)
    \/ \E e \in Executors : Execute(e)
    \/ \E d \in Operators : Request(d)
    \/ Tick

Spec == Init /\ [][Next]_vars

---------------------------------------------------------------------------
(* What the breaker promises to the processes that share it.               *)

\* Every variable holds a value of its kind; the lock has one holder, and the
\* holder is inside the transaction.
TypeOK ==
    /\ clock \in Times
    /\ store \in State
    /\ pc \in [Processes -> Places]
    /\ lock \in Processes \cup {NoProcess}
    /\ \A p \in Processes : pc[p] \in Holds <=> lock = p
    /\ seen \in [Processes -> State] /\ blind \in [Processes -> BOOLEAN]
    /\ stamp \in [Processes -> Times]
    /\ errors \in [Executors -> Nat]
    /\ faults \in Nat
    /\ recorded \in [Times -> Nat]
    /\ late \in [Executors -> Nat]
    /\ alerts \in Nat
    /\ told \in {"halt", "resume"}

\* "An executor recording a broker error can never clobber a halt the dashboard
\* just set": a halt in the file ends only in a resume, or in the record of an
\* executor that could not read the file, for which "malformed -> healthy" holds.
HaltEndsInResume ==
    [][store.halt /\ ~store'.halt =>
          \/ \E d \in Operators : pc[d] = "in_resume"
          \/ \E e \in Executors : pc[e] \in {"in_trip", "in_plain"} /\ blind[e]]_vars

\* "Concurrent writers cannot lose each other's updates": every error saved since the
\* last resume that is still in the window is in the file exactly once.  A writer that
\* could not read the file loses what was there; from its save on nothing is lost.
NoErrorLost ==
    \A t \in Times : InWindow(t, clock) => store.times[t] = recorded[t]

\* "Concurrent writers cannot lose each other's updates": with well-formed state and one
\* holder of the lock, who is inside its transaction, every saved error is in the file.
BreakerIsExact == TypeOK /\ NoErrorLost

\* After a halt is in the file, each executor that can read it submits at most the one
\* entry it had already checked.  A check whose load failed is of a healthy breaker, and
\* its entry is not counted.
HaltLetsOneEntryThrough == \A e \in Executors : late[e] <= 1

\* "At most one caller sees True": while the breaker stays tripped the trip is
\* reported at most once by those who read the file, whichever executors race for the
\* lock and however old the time each of them read before it got the lock.
TripReportedOnce == alerts <= 1

\* "'halt' blocks all new entries in RiskGuard until 'resume'": once api_breaker has
\* answered a halt with "ok", every later load finds it.
HaltHolds == told = "halt" => store.halt

===========================================================================
