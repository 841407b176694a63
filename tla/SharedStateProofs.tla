--------------------------- MODULE SharedStateProofs ---------------------------
(***************************************************************************)
(* The two files by which the executors and the dashboard restrain new     *)
(* entries: the transactions of the circuit breaker lose nothing, the file *)
(* of the equity high-water mark never loses a peak, and no entry is       *)
(* approved after the drop that halts entries; for any number of           *)
(* executors, operators and dashboard requests, any threshold and window,  *)
(* whatever dies or fails.                                                 *)
(*                                                                         *)
(* BreakerInv is the inductive invariant of the breaker.  Its core is      *)
(* Exclusive: what a process knows inside its transaction is what the file *)
(* says.  That a trip is reported once rests on a sum: the window of an    *)
(* earlier instant counts at least the errors of the window of now.        *)
(*                                                                         *)
(* PeakInv is that of the peak: one process is between taking the lock and *)
(* releasing it, and what it knows there is no less than what the file     *)
(* says.  HaltInv adds what each process knows of the equities that were   *)
(* saved before it made its tracker.                                       *)
(*                                                                         *)
(* DecisionInv is that of what the gate decides.  It rests on what the     *)
(* union-find of the engine computes: its loops keep a forest (Rooted) in  *)
(* which every two nodes linked so far have one root, while no union joins *)
(* two that some closed set of nodes keeps apart (Joined).  The members    *)
(* are then the candidate's connected component, MembersAreTheCluster.     *)
(***************************************************************************)
EXTENDS SharedState, SumLemmas, TLAPS

---------------------------------------------------------------------------
(* The circuit breaker.                                                    *)

\* Who calls what.
Roles ==
    \A p \in Processes :
        /\ pc[p] \in {"want_halt", "in_halt", "want_resume", "in_resume"} => p \in Operators
        /\ pc[p] \in {"check", "submit", "want_trip", "in_trip", "want_plain", "in_plain"}
              => p \in Executors

Exclusive == \A p \in Processes : pc[p] \in Holds /\ ~blind[p] => seen[p] = store

\* No error is stamped in the future: a window that begins at the stamp of an error
\* covers the window that begins now.
Stamps == \A p \in Processes : stamp[p] <= clock

\* An executor that has had its entry since the halt is stopped by its next check, if
\* that has read the file.
Stopped ==
    \A e \in Executors :
        /\ late[e] <= 1
        /\ late[e] = 1 => /\ store.halt
                          /\ pc[e] = "submit" => blind[e]
                          /\ pc[e] = "check" => seen[e].halt \/ blind[e]

BreakerInv == TypeOK /\ Roles /\ Exclusive /\ Stamps /\ NoErrorLost /\ Stopped

LEMMA Kinds ==
    /\ Executors \subseteq Processes /\ Operators \subseteq Processes
    /\ \A p \in Executors : p \notin Operators
    /\ NoProcess \notin Processes
    /\ Healthy \in State /\ ~Healthy.halt /\ \A t \in Times : Healthy.times[t] = 0
  BY ProcessesAssumption
  DEF Processes, ProcessesAssumption, Healthy, State, NoTimes

LEMMA BreakerInvInit == Init => BreakerInv
<1> SUFFICES ASSUME Init PROVE BreakerInv
  OBVIOUS
<1>1. TypeOK
  <2>1. clock \in Times /\ store \in State /\ faults \in Nat /\ alerts \in Nat
    BY Kinds, LimitsAssumption DEF Init, Times, LimitsAssumption
  <2>2. /\ pc \in [Processes -> Places] /\ lock \in Processes \cup {NoProcess}
        /\ \A p \in Processes : pc[p] \in Holds <=> lock = p
    BY Kinds DEF Init, Places, Holds
  <2>3. /\ seen \in [Processes -> State] /\ blind \in [Processes -> BOOLEAN]
        /\ stamp \in [Processes -> Times]
    BY Kinds, LimitsAssumption DEF Init, Times, LimitsAssumption
  <2>4. errors \in [Executors -> Nat] /\ late \in [Executors -> Nat] /\ recorded \in [Times -> Nat]
    BY LimitsAssumption DEF Init, NoTimes, LimitsAssumption
  <2>5. QED
    BY <2>1, <2>2, <2>3, <2>4 DEF Init, TypeOK
<1>2. Roles /\ Exclusive /\ Stamps
  BY DEF Init, Roles, Exclusive, Stamps, Holds
<1>3. NoErrorLost /\ Stopped
  BY Kinds DEF Init, NoErrorLost, Stopped, NoTimes
<1>4. QED
  BY <1>1, <1>2, <1>3 DEF BreakerInv

---------------------------------------------------------------------------
(* The list of errors.                                                     *)

\* Recording an error at a past instant changes no other count of the window.
LEMMA AppendedCounts ==
    ASSUME NEW times \in [Times -> Nat], NEW now \in Times, now <= clock, clock \in Times
    PROVE  /\ Appended(times, now) \in [Times -> Nat]
           /\ \A t \in Times : InWindow(t, clock) =>
                 Appended(times, now)[t] = IF t = now THEN times[t] + 1 ELSE times[t]
<1> DEFINE more == [times EXCEPT ![now] = @ + 1]
<1>1. more \in [Times -> Nat]
      /\ \A t \in Times : more[t] = IF t = now THEN times[t] + 1 ELSE times[t]
  OBVIOUS
<1>2. Appended(times, now) = [t \in Times |-> IF InWindow(t, now) THEN more[t] ELSE 0]
  BY DEF Appended, Prune
<1> HIDE DEF more
<1>3. \A t \in Times : InWindow(t, clock) => InWindow(t, now)
  BY LimitsAssumption DEF InWindow, Times, LimitsAssumption
<1>4. QED
  BY <1>1, <1>2, <1>3

---------------------------------------------------------------------------
(* Steps that leave the file alone.                                        *)

\* A step of p outside the transaction, or into it or out of it, that does not write.
Moves(p, place, known, dark, now) ==
    /\ pc' = [pc EXCEPT ![p] = place]
    /\ seen' = [seen EXCEPT ![p] = known]
    /\ blind' = [blind EXCEPT ![p] = dark]
    /\ stamp' = [stamp EXCEPT ![p] = now]
    /\ lock' = IF place \in Holds THEN p ELSE IF lock = p THEN NoProcess ELSE lock
    /\ errors' \in [Executors -> Nat] /\ faults' \in Nat
    /\ UNCHANGED <<clock, store, recorded, alerts, told>>

Fits(p, place) ==
    /\ place \in {"want_halt", "in_halt", "want_resume", "in_resume"} => p \in Operators
    /\ place \in {"check", "submit", "want_trip", "in_trip", "want_plain", "in_plain"}
          => p \in Executors

LEMMA MovesKeep ==
    ASSUME BreakerInv, NEW p \in Processes, NEW place \in Places, NEW known \in State,
           NEW dark \in BOOLEAN, NEW now \in Times, now <= clock,
           Moves(p, place, known, dark, now), Fits(p, place),
           place \in Holds => (dark \/ known = store) /\ (lock = NoProcess \/ lock = p),
           late' \in [Executors -> Nat]
    PROVE  /\ TypeOK' /\ Roles' /\ Exclusive' /\ Stamps' /\ NoErrorLost'
<1>1. \A q \in Processes : /\ pc'[q] = IF q = p THEN place ELSE pc[q]
                           /\ seen'[q] = IF q = p THEN known ELSE seen[q]
                           /\ blind'[q] = IF q = p THEN dark ELSE blind[q]
                           /\ stamp'[q] = IF q = p THEN now ELSE stamp[q]
  BY DEF BreakerInv, TypeOK, Moves
<1>2. \A q \in Processes : pc'[q] \in Holds <=> lock' = q
  BY <1>1, Kinds DEF BreakerInv, TypeOK, Moves
<1>3. lock' \in Processes \cup {NoProcess}
  BY DEF BreakerInv, TypeOK, Moves
<1>4. /\ pc' \in [Processes -> Places] /\ seen' \in [Processes -> State]
      /\ blind' \in [Processes -> BOOLEAN] /\ stamp' \in [Processes -> Times]
  BY DEF BreakerInv, TypeOK, Moves
<1>5. TypeOK'
  BY <1>2, <1>3, <1>4 DEF BreakerInv, TypeOK, Moves
<1>6. Roles'
  BY <1>1 DEF BreakerInv, Roles, Fits
<1>7. Exclusive' /\ Stamps'
  BY <1>1 DEF BreakerInv, Exclusive, Stamps, Moves
<1>8. NoErrorLost'
  BY DEF BreakerInv, NoErrorLost, Moves
<1>9. QED
  BY <1>5, <1>6, <1>7, <1>8

\* ... and for an executor that does not come to its submit so.
LEMMA MovesKeepStopped ==
    ASSUME BreakerInv, NEW p \in Processes, NEW place \in Places, NEW known \in State,
           NEW dark \in BOOLEAN, NEW now \in Times, Moves(p, place, known, dark, now),
           UNCHANGED late,
           place = "submit" => pc[p] = "check" /\ ~seen[p].halt /\ dark = blind[p],
           place = "check" => dark \/ known = store
    PROVE  Stopped'
<1>1. \A q \in Processes : /\ pc'[q] = IF q = p THEN place ELSE pc[q]
                           /\ seen'[q] = IF q = p THEN known ELSE seen[q]
                           /\ blind'[q] = IF q = p THEN dark ELSE blind[q]
  BY DEF BreakerInv, TypeOK, Moves
<1>2. QED
  BY <1>1, Kinds DEF BreakerInv, Stopped, Moves

LEMMA Unmoved ==
    ASSUME BreakerInv, NEW p \in Processes
    PROVE  /\ seen = [seen EXCEPT ![p] = seen[p]] /\ seen[p] \in State
           /\ blind = [blind EXCEPT ![p] = blind[p]] /\ blind[p] \in BOOLEAN
           /\ stamp = [stamp EXCEPT ![p] = stamp[p]] /\ stamp[p] \in Times
           /\ stamp[p] <= clock /\ clock \in Times /\ store \in State /\ 0 \in Times
           /\ 0 <= clock
  BY LimitsAssumption DEF BreakerInv, TypeOK, Stamps, Times, LimitsAssumption

\* A step that only moves p preserves the invariant.
LEMMA MovesPreserve ==
    ASSUME BreakerInv, NEW p \in Processes, NEW place \in Places, NEW known \in State,
           NEW dark \in BOOLEAN, NEW now \in Times, now <= clock,
           Moves(p, place, known, dark, now), Fits(p, place),
           place \in Holds => (dark \/ known = store) /\ (lock = NoProcess \/ lock = p),
           place = "submit" => pc[p] = "check" /\ ~seen[p].halt /\ dark = blind[p],
           place = "check" => dark \/ known = store,
           UNCHANGED late
    PROVE  BreakerInv'
<1>1. late' \in [Executors -> Nat]
  BY DEF BreakerInv, TypeOK
<1>2. QED
  BY <1>1, MovesKeep, MovesKeepStopped DEF BreakerInv

\* What an instance knows after a load: the file, or what it knew before.
LEMMA LoadedFile ==
    ASSUME BreakerInv, NEW p \in Processes, LoadFile(p)
    PROVE  \E known \in State, dark \in BOOLEAN :
              /\ seen' = [seen EXCEPT ![p] = known] /\ blind' = [blind EXCEPT ![p] = dark]
              /\ dark \/ known = store
              /\ faults' \in Nat
<1>1. faults \in Nat
  BY DEF BreakerInv, TypeOK
<1>2. CASE seen' = [seen EXCEPT ![p] = store] /\ blind' = [blind EXCEPT ![p] = FALSE]
           /\ faults' = faults
  BY <1>1, <1>2, Unmoved
<1>3. CASE faults > 0 /\ faults' = faults - 1 /\ blind' = [blind EXCEPT ![p] = TRUE]
           /\ seen' = seen
  <2>1. seen' = [seen EXCEPT ![p] = seen[p]] /\ seen[p] \in State
    BY <1>3, Unmoved
  <2>2. faults' \in Nat /\ TRUE \in BOOLEAN
    BY <1>1, <1>3
  <2>3. QED
    BY <1>3, <2>1, <2>2
<1>4. QED
  BY <1>2, <1>3 DEF LoadFile

LEMMA AcquireStep ==
    ASSUME BreakerInv, NEW p \in Processes, Acquire(p)
    PROVE  BreakerInv'
<1> DEFINE now == IF pc[p] = "want_plain" THEN clock ELSE stamp[p]
<1>1. Inside[pc[p]] \in Holds /\ Inside[pc[p]] \in Places /\ Fits(p, Inside[pc[p]])
  BY DEF Acquire, Inside, Waits, Holds, Places, Fits, BreakerInv, Roles
<1>2. now \in Times /\ now <= clock
  BY Unmoved DEF Times
<1>3. PICK known \in State, dark \in BOOLEAN :
         /\ seen' = [seen EXCEPT ![p] = known] /\ blind' = [blind EXCEPT ![p] = dark]
         /\ dark \/ known = store
         /\ faults' \in Nat
  BY LoadedFile DEF Acquire
<1>4. Moves(p, Inside[pc[p]], known, dark, now)
  BY <1>1, <1>3, Unmoved DEF Acquire, Go, Stamped, Moves, history, BreakerInv, TypeOK
<1>5. Inside[pc[p]] \notin {"submit", "check"}
  BY <1>1 DEF Holds
<1> HIDE DEF now
<1>6. UNCHANGED late /\ lock = NoProcess
  BY DEF Acquire, history
<1>7. QED
  BY <1>1, <1>2, <1>3, <1>4, <1>5, <1>6, Unmoved, MovesPreserve

\* A call that returns without having written
LEMMA ReturnStep ==
    ASSUME BreakerInv, NEW p \in Processes, Return(p),
           lock' = IF lock = p THEN NoProcess ELSE lock,
           errors' \in [Executors -> Nat], faults' \in Nat,
           UNCHANGED <<clock, store, recorded, alerts, told, late>>
    PROVE  BreakerInv'
<1>1. Moves(p, "idle", Healthy, FALSE, 0)
  BY DEF Return, Go, Moves, Holds
<1>2. "idle" \in Places /\ "idle" \notin Holds /\ Fits(p, "idle")
  BY DEF Places, Holds, Fits
<1>3. QED
  BY <1>1, <1>2, Kinds, Unmoved, MovesPreserve

LEMMA RaiseStep ==
    ASSUME BreakerInv, NEW p \in Processes, Raise(p)
    PROVE  BreakerInv'
<1>1. faults' \in Nat /\ errors' \in [Executors -> Nat]
  BY DEF Raise, BreakerInv, TypeOK
<1>2. UNCHANGED late
  BY DEF Raise, history
<1>3. pc[p] \in {"want_trip", "in_trip"} =>
         /\ "want_plain" \in Places /\ "want_plain" \notin Holds /\ Fits(p, "want_plain")
  BY DEF Places, Waits, Holds, Fits, BreakerInv, Roles
<1>4. CASE pc[p] = "want_trip"
  <2>1. Moves(p, "want_plain", seen[p], blind[p], stamp[p])
    BY <1>1, <1>4, Unmoved DEF Raise, Go, Moves, history, Holds
  <2>2. QED
    BY <1>2, <1>3, <1>4, <2>1, Unmoved, MovesPreserve
<1>5. CASE pc[p] = "in_trip"
  <2> DEFINE known == [seen[p] EXCEPT !.times = Appended(seen[p].times, stamp[p])]
  <2>1. known \in State
    <3>1. Appended(seen[p].times, stamp[p]) \in [Times -> Nat]
      BY Unmoved, AppendedCounts DEF State
    <3>2. QED
      BY <3>1, Unmoved DEF State
  <2>2. seen' = [seen EXCEPT ![p] = known]
    BY <1>5 DEF Raise, BreakerInv, TypeOK
  <2> HIDE DEF known
  <2>3. Moves(p, "want_plain", known, blind[p], stamp[p])
    BY <1>1, <1>5, <2>2, Unmoved DEF Raise, Go, Moves, history, Holds
  <2>4. QED
    BY <1>2, <1>3, <1>5, <2>1, <2>3, Unmoved, MovesPreserve
<1>6. CASE pc[p] \notin {"want_trip", "in_trip"}
  BY <1>1, <1>6, ReturnStep DEF Raise, history
<1>7. QED
  BY <1>4, <1>5, <1>6

LEMMA DieStep ==
    ASSUME BreakerInv, NEW p \in Processes, Die(p)
    PROVE  BreakerInv'
<1>1. faults' \in Nat /\ errors' \in [Executors -> Nat]
  BY DEF Die, BreakerInv, TypeOK
<1>2. QED
  BY <1>1, ReturnStep DEF Die, history

\* Outside the transaction nobody holds the lock.
LEMMA Outside ==
    ASSUME BreakerInv, NEW p \in Processes, pc[p] \notin Holds
    PROVE  lock # p
  BY DEF BreakerInv, TypeOK

LEMMA LoadStep ==
    ASSUME BreakerInv, NEW e \in Executors, Load(e)
    PROVE  BreakerInv'
<1>1. e \in Processes /\ lock # e
  BY Kinds, Outside DEF Load, Holds
<1>2. PICK known \in State, dark \in BOOLEAN :
         /\ seen' = [seen EXCEPT ![e] = known] /\ blind' = [blind EXCEPT ![e] = dark]
         /\ dark \/ known = store
         /\ faults' \in Nat
  BY <1>1, LoadedFile DEF Load
<1>3. Moves(e, "check", known, dark, stamp[e])
  BY <1>1, <1>2, Unmoved DEF Load, Go, Moves, history, Holds, BreakerInv, TypeOK
<1>4. "check" \in Places /\ "check" \notin Holds /\ Fits(e, "check") /\ UNCHANGED late
  BY DEF Load, Places, Holds, Fits, history
<1>5. QED
  BY <1>1, <1>2, <1>3, <1>4, Unmoved, MovesPreserve

LEMMA CheckStep ==
    ASSUME BreakerInv, NEW e \in Executors, Check(e)
    PROVE  BreakerInv'
<1>1. e \in Processes /\ lock # e
  BY Kinds, Outside DEF Check, Holds
<1>2. errors' \in [Executors -> Nat] /\ faults' \in Nat
      /\ UNCHANGED <<clock, store, lock, recorded, alerts, told, late>>
  BY DEF Check, history, BreakerInv, TypeOK
<1>3. CASE Return(e)
  BY <1>1, <1>2, <1>3, ReturnStep
<1>4. CASE ~seen[e].halt /\ Go(e, "submit") /\ UNCHANGED <<seen, blind, stamp>>
  <2>1. Moves(e, "submit", seen[e], blind[e], stamp[e])
    BY <1>1, <1>2, <1>4, Unmoved DEF Go, Moves, Holds
  <2>2. "submit" \in Places /\ "submit" \notin Holds /\ Fits(e, "submit") /\ pc[e] = "check"
    BY DEF Check, Places, Holds, Fits
  <2>3. QED
    BY <1>1, <1>2, <1>4, <2>1, <2>2, Unmoved, MovesPreserve
<1>5. QED
  BY <1>3, <1>4 DEF Check

\* The entry of an executor whose check was before the halt
LEMMA SubmitStep ==
    ASSUME BreakerInv, NEW e \in Executors, Submit(e)
    PROVE  BreakerInv'
<1>1. e \in Processes /\ lock # e
  BY Kinds, Outside DEF Submit, Holds
<1>2. Moves(e, "idle", Healthy, FALSE, 0)
  BY <1>1 DEF Submit, Return, Go, Moves, Holds, BreakerInv, TypeOK
<1>3. late' \in [Executors -> Nat] /\ (blind[e] \/ late[e] = 0)
  BY DEF Submit, BreakerInv, TypeOK, Stopped
<1>4. "idle" \in Places /\ "idle" \notin Holds /\ Fits(e, "idle")
  BY DEF Places, Holds, Fits
<1>5. TypeOK' /\ Roles' /\ Exclusive' /\ Stamps' /\ NoErrorLost'
  BY <1>1, <1>2, <1>3, <1>4, Kinds, Unmoved, MovesKeep
<1>6. Stopped'
  <2>1. \A q \in Processes : pc'[q] = IF q = e THEN "idle" ELSE pc[q]
    BY <1>1, <1>2 DEF Moves, BreakerInv, TypeOK
  <2>2. \A q \in Processes : q # e => seen'[q] = seen[q] /\ blind'[q] = blind[q]
    BY <1>1, <1>2 DEF Moves, BreakerInv, TypeOK
  <2>3. \A f \in Executors :
           late'[f] = IF f = e /\ store.halt /\ ~blind[e] THEN 1 ELSE late[f]
    BY <1>3 DEF Submit, BreakerInv, TypeOK
  <2>4. store' = store
    BY DEF Submit
  <2>5. QED
    BY <2>1, <2>2, <2>3, <2>4, Kinds DEF BreakerInv, Stopped
<1>7. QED
  BY <1>5, <1>6 DEF BreakerInv

LEMMA BrokerErrorStep ==
    ASSUME BreakerInv, NEW e \in Executors, BrokerError(e)
    PROVE  BreakerInv'
<1>1. e \in Processes /\ lock # e
  BY Kinds, Outside DEF BrokerError, Holds
<1>2. errors' \in [Executors -> Nat]
  BY DEF BrokerError, BreakerInv, TypeOK
<1>3. PICK known \in State, dark \in BOOLEAN :
         /\ seen' = [seen EXCEPT ![e] = known] /\ blind' = [blind EXCEPT ![e] = dark]
         /\ faults' \in Nat
  <2>1. CASE LoadFile(e)
    BY <1>1, <2>1, LoadedFile
  <2>2. CASE UNCHANGED <<seen, blind, faults>>
    BY <1>1, <2>2, Unmoved DEF BreakerInv, TypeOK
  <2>3. QED
    BY <2>1, <2>2 DEF BrokerError
<1>4. Moves(e, "want_trip", known, dark, clock)
  BY <1>1, <1>2, <1>3, Unmoved DEF BrokerError, Go, Moves, Holds, history
<1>5. "want_trip" \in Places /\ "want_trip" \notin Holds /\ Fits(e, "want_trip") /\ UNCHANGED late
  BY DEF BrokerError, Places, Waits, Holds, Fits, history
<1>6. clock \in Times /\ clock <= clock
  BY LimitsAssumption DEF BreakerInv, TypeOK, Times, LimitsAssumption
<1>7. QED
  BY <1>1, <1>4, <1>5, <1>6, MovesPreserve

LEMMA RequestStep ==
    ASSUME BreakerInv, NEW d \in Operators, Request(d)
    PROVE  BreakerInv'
<1>1. d \in Processes /\ lock # d
  BY Kinds, Outside DEF Request, Holds
<1>2. PICK w \in {"want_halt", "want_resume"} : Go(d, w)
  BY DEF Request
<1>3. PICK known \in State, dark \in BOOLEAN :
         /\ seen' = [seen EXCEPT ![d] = known] /\ blind' = [blind EXCEPT ![d] = dark]
         /\ faults' \in Nat
  BY <1>1, LoadedFile DEF Request
<1>3a. Moves(d, w, known, dark, stamp[d])
  BY <1>1, <1>2, <1>3, Unmoved DEF Request, Go, Moves, Holds, history, BreakerInv, TypeOK
<1>4. w \in Places /\ w \notin Holds /\ w \notin {"check", "submit"} /\ Fits(d, w) /\ UNCHANGED late
  BY DEF Request, Places, Waits, Holds, Fits, history
<1>5. QED
  BY <1>1, <1>3a, <1>4, Unmoved, MovesPreserve

---------------------------------------------------------------------------
(* The transaction.                                                        *)

\* Saving: the others are outside the transaction, so that none of them knows a state
\* that is not in the file any more.
LEMMA SaveKeeps ==
    ASSUME BreakerInv, NEW p \in Processes, pc[p] \in Holds, NEW state \in State,
           Save(p, state), CountsLate, alerts' \in Nat,
           recorded' \in [Times -> Nat], told' \in {"halt", "resume"}
    PROVE  TypeOK' /\ Roles' /\ Exclusive' /\ Stamps'
<1>1. \A q \in Processes : /\ pc'[q] = IF q = p THEN "idle" ELSE pc[q]
                           /\ seen'[q] = IF q = p THEN Healthy ELSE seen[q]
                           /\ stamp'[q] = IF q = p THEN 0 ELSE stamp[q]
  BY DEF BreakerInv, TypeOK, Save, Return, Go
<1>2. \A q \in Processes : pc'[q] \notin Holds
  BY <1>1 DEF BreakerInv, TypeOK, Holds
<1>3. TypeOK'
  <2>1. lock' = NoProcess /\ store' \in State /\ faults' \in Nat
        /\ UNCHANGED <<clock, errors>>
    BY DEF Save, BreakerInv, TypeOK
  <2>2. /\ pc' \in [Processes -> Places] /\ seen' \in [Processes -> State]
        /\ blind' \in [Processes -> BOOLEAN] /\ stamp' \in [Processes -> Times]
    BY Kinds, Unmoved DEF Save, Return, Go, BreakerInv, TypeOK, Places
  <2>3. \A q \in Processes : lock' # q
    BY <2>1, Kinds
  <2>4. late' \in [Executors -> Nat]
    BY DEF CountsLate, BreakerInv, TypeOK
  <2>5. QED
    BY <1>2, <2>1, <2>2, <2>3, <2>4 DEF BreakerInv, TypeOK
<1>4. Roles'
  BY <1>1 DEF BreakerInv, Roles
<1>5. Exclusive' /\ Stamps'
  BY <1>1, <1>2, Unmoved DEF BreakerInv, Exclusive, Stamps, Save
<1>6. QED
  BY <1>3, <1>4, <1>5

\* A save that keeps a halt stops whom it stopped; one that ends it stops nobody.
LEMMA SaveKeepsStopped ==
    ASSUME BreakerInv, NEW p \in Processes, NEW state \in State, Save(p, state), CountsLate
    PROVE  Stopped'
<1>1. \A q \in Processes : /\ pc'[q] = IF q = p THEN "idle" ELSE pc[q]
                           /\ q # p => seen'[q] = seen[q] /\ blind'[q] = blind[q]
  BY DEF BreakerInv, TypeOK, Save, Return, Go
<1>2. CASE store.halt /\ ~store'.halt
  BY <1>2 DEF CountsLate, Stopped
<1>3. CASE ~(store.halt /\ ~store'.halt)
  <2>1. late' = late
    BY <1>3 DEF CountsLate
  <2>2. QED
    BY <1>1, <1>3, <2>1, Kinds DEF BreakerInv, Stopped
<1>4. QED
  BY <1>2, <1>3

LEMMA CommitErrorStep ==
    ASSUME BreakerInv, NEW p \in Processes, CommitError(p)
    PROVE  BreakerInv'
<1> DEFINE now   == stamp[p]
           known == seen[p]
           times == Appended(known.times, now)
           state == [known EXCEPT !.times = times]
<1>1. pc[p] \in Holds /\ (blind[p] \/ known = store)
  BY DEF CommitError, Holds, BreakerInv, Exclusive
<1>2. now \in Times /\ now <= clock /\ clock \in Times /\ known.times \in [Times -> Nat]
  BY Unmoved DEF State
<1>3. /\ times \in [Times -> Nat]
      /\ \A t \in Times : InWindow(t, clock) =>
            times[t] = IF t = now THEN known.times[t] + 1 ELSE known.times[t]
  BY <1>2, AppendedCounts
<1>4. /\ Save(p, state) /\ CountsLate
      /\ Records(p, [recorded EXCEPT ![now] = @ + 1], times)
  BY DEF CommitError
<1>5. known \in State
  BY Unmoved
<1> HIDE DEF known, times
<1>6. state \in State /\ state.times = times
  BY <1>3, <1>5 DEF State
<1>7. alerts' \in Nat /\ UNCHANGED told
  BY DEF CommitError, Alerts, BreakerInv, TypeOK
<1>8. recorded \in [Times -> Nat] /\ recorded' \in [Times -> Nat]
  BY <1>2, <1>3, <1>4 DEF Records, BreakerInv, TypeOK
<1> HIDE DEF state
<1>9. TypeOK' /\ Roles' /\ Exclusive' /\ Stamps'
  BY <1>1, <1>4, <1>6, <1>7, <1>8, SaveKeeps DEF BreakerInv, TypeOK
<1>10. Stopped'
  BY <1>4, <1>6, SaveKeepsStopped
<1>11. NoErrorLost'
  <2>1. clock' = clock /\ faults \in Nat
    BY <1>4 DEF Save, BreakerInv, TypeOK
  <2>2. CASE store' = state /\ faults' = faults /\ blind[p]
    BY <1>4, <1>6, <2>2 DEF Records, NoErrorLost
  <2>3. CASE store' = state /\ faults' = faults /\ ~blind[p]
    BY <1>1, <1>2, <1>3, <1>4, <1>6, <1>8, <2>1, <2>3 DEF Records, BreakerInv, NoErrorLost
  <2>4. CASE store' = store /\ faults' = faults - 1
    BY <1>4, <2>1, <2>4 DEF Records, BreakerInv, NoErrorLost
  <2>5. QED
    BY <1>4, <2>2, <2>3, <2>4 DEF Save
<1>12. QED
  BY <1>9, <1>10, <1>11 DEF BreakerInv

LEMMA CommitHaltStep ==
    ASSUME BreakerInv, NEW p \in Processes, CommitHalt(p)
    PROVE  BreakerInv'
<1> DEFINE state == [seen[p] EXCEPT !.halt = TRUE]
<1>1. pc[p] \in Holds /\ (blind[p] \/ seen[p] = store)
  BY DEF CommitHalt, Holds, BreakerInv, Exclusive
<1>2. state \in State /\ state.times = seen[p].times /\ seen[p].times \in [Times -> Nat]
  BY Unmoved DEF State
<1>3. Save(p, state) /\ CountsLate /\ Records(p, recorded, seen[p].times)
  BY DEF CommitHalt
<1> HIDE DEF state
<1>4. alerts' \in Nat /\ told' = "halt"
  BY DEF CommitHalt, Alerts, BreakerInv, TypeOK
<1>5. recorded' \in [Times -> Nat]
  BY <1>2, <1>3 DEF Records, BreakerInv, TypeOK
<1>6. TypeOK' /\ Roles' /\ Exclusive' /\ Stamps'
  BY <1>1, <1>2, <1>3, <1>4, <1>5, SaveKeeps
<1>7. Stopped'
  BY <1>2, <1>3, SaveKeepsStopped
<1>8. NoErrorLost'
  <2>1. faults \in Nat
    BY DEF BreakerInv, TypeOK
  <2>2. QED
    BY <1>1, <1>2, <1>3, <2>1 DEF Records, Save, BreakerInv, NoErrorLost
<1>9. QED
  BY <1>6, <1>7, <1>8 DEF BreakerInv

LEMMA CommitResumeStep ==
    ASSUME BreakerInv, NEW p \in Processes, CommitResume(p)
    PROVE  BreakerInv'
<1>1. pc[p] \in Holds /\ Save(p, Healthy) /\ CountsLate /\ Records(p, NoTimes, NoTimes)
  BY DEF CommitResume, Holds
<1>2. alerts' \in Nat /\ told' = "resume"
  BY DEF CommitResume, Alerts, BreakerInv, TypeOK
<1>3. recorded' \in [Times -> Nat]
  BY <1>1 DEF Records, NoTimes, BreakerInv, TypeOK
<1>4. TypeOK' /\ Roles' /\ Exclusive' /\ Stamps'
  BY <1>1, <1>2, <1>3, Kinds, SaveKeeps
<1>5. Stopped'
  BY <1>1, Kinds, SaveKeepsStopped
<1>6. NoErrorLost'
  <2>1. faults \in Nat
    BY DEF BreakerInv, TypeOK
  <2>2. QED
    BY <1>1, <2>1, Kinds DEF Records, Save, BreakerInv, NoErrorLost, NoTimes
<1>7. QED
  BY <1>4, <1>5, <1>6 DEF BreakerInv

LEMMA TickStep ==
    ASSUME BreakerInv, Tick
    PROVE  BreakerInv'
<1>1. /\ clock \in Times /\ clock' = clock + 1 /\ clock' \in Times /\ alerts' \in Nat
      /\ UNCHANGED <<store, lock, pc, seen, blind, stamp, errors, faults, recorded, late, told>>
  BY LimitsAssumption DEF Tick, Alerts, Times, BreakerInv, TypeOK, LimitsAssumption
<1>2. TypeOK'
  BY <1>1 DEF BreakerInv, TypeOK
<1>3. Roles' /\ Exclusive' /\ Stopped'
  BY <1>1 DEF BreakerInv, Roles, Exclusive, Stopped
<1>4. Stamps'
  <2>1. \A p \in Processes : stamp[p] \in Times /\ stamp[p] <= clock
    BY DEF BreakerInv, TypeOK, Stamps
  <2>2. QED
    BY <1>1, <2>1 DEF Stamps, Times
<1>5. NoErrorLost'
  <2>1. \A t \in Times : InWindow(t, clock') => InWindow(t, clock)
    BY <1>1, LimitsAssumption DEF InWindow, Times, LimitsAssumption
  <2>2. QED
    BY <1>1, <2>1 DEF BreakerInv, NoErrorLost
<1>6. QED
  BY <1>2, <1>3, <1>4, <1>5 DEF BreakerInv

LEMMA BreakerInvStep == BreakerInv /\ [Next]_vars => BreakerInv'
<1> SUFFICES ASSUME BreakerInv, [Next]_vars PROVE BreakerInv'
  OBVIOUS
<1>1. CASE \E p \in Processes : Transaction(p) \/ Die(p)
  BY <1>1, AcquireStep, RaiseStep, CommitErrorStep, CommitHaltStep, CommitResumeStep, DieStep
  DEF Transaction
<1>2. CASE \E e \in Executors : Execute(e)
  BY <1>2, LoadStep, CheckStep, SubmitStep, BrokerErrorStep DEF Execute
<1>3. CASE \E d \in Operators : Request(d)
  BY <1>3, RequestStep
<1>4. CASE Tick
  BY <1>4, TickStep
<1>5. CASE UNCHANGED vars
  BY <1>5 DEF vars, history, BreakerInv, TypeOK, Roles, Exclusive, Stamps, NoErrorLost, Stopped
<1>6. QED
  BY <1>1, <1>2, <1>3, <1>4, <1>5 DEF Next

\* Inside its transaction a process whose reload succeeded knows the file, whatever died or
\* failed before.
THEOREM BreakerInvariant == Spec => []BreakerInv
  BY BreakerInvInit, BreakerInvStep, PTL DEF Spec

---------------------------------------------------------------------------
(* The reports of trips.                                                   *)

\* The reported trip is one of the breaker as it is now.
Reported == alerts <= 1 /\ (alerts = 1 => Tripped(store.times, clock))

\* The window that begins earlier counts at least as many errors.
LEMMA EarlierCountsMore ==
    ASSUME NEW times \in [Times -> Nat], NEW now \in Times, NEW later \in Times, now <= later
    PROVE  Tripped(times, later) => Tripped(times, now)
<1> DEFINE S == {t \in Times : InWindow(t, later)}
           T == {t \in Times : InWindow(t, now)}
<1>1. S \subseteq T
  BY LimitsAssumption DEF InWindow, Times, LimitsAssumption
<1>2. IsFiniteSet(T)
  <2>1. IsFiniteSet(Times)
    BY FS_Interval, LimitsAssumption DEF Times, LimitsAssumption
  <2>2. QED
    BY <2>1, FS_Subset
<1>3. S \subseteq Times /\ T \subseteq Times
  OBVIOUS
<1>4. Count(times, later) = SumFunctionOnSet(times, S)
      /\ Count(times, now) = SumFunctionOnSet(times, T)
  BY DEF Count
<1> HIDE DEF S, T
<1>5. \A t \in T : times[t] \in Nat
  BY <1>3
<1>6. \A t \in S : times[t] \in Nat /\ times[t] <= times[t]
  BY <1>3
<1>7. Count(times, later) \in Nat /\ Count(times, later) <= Count(times, now)
  BY <1>1, <1>2, <1>4, <1>5, <1>6, SumGrows
<1>8. Count(times, now) \in Nat
  <2>1. \A t \in T : times[t] \in Nat /\ times[t] <= times[t]
    BY <1>5
  <2>2. QED
    BY <1>2, <1>4, <1>5, <2>1, SumGrows
<1>9. QED
  BY <1>7, <1>8, LimitsAssumption DEF Tripped, LimitsAssumption

\* Whoever reports a trip found the breaker untripped at an instant at or before now.
LEMMA ReportedStep == BreakerInv /\ Reported /\ [Next]_vars => Reported'
<1> SUFFICES ASSUME BreakerInv, Reported, [Next]_vars PROVE Reported'
  OBVIOUS
<1> DEFINE Recounts(n) == n \in 0..1 /\ alerts' = Alerts(n)
<1>1. ASSUME NEW n, Recounts(n) PROVE Reported'
  BY <1>1 DEF Alerts, Reported
<1>2. alerts \in 0..1
  BY DEF BreakerInv, TypeOK, Reported
<1>3. ASSUME NEW p \in Processes, CommitError(p) PROVE Reported'
  <2> DEFINE now   == stamp[p]
             times == Appended(seen[p].times, now)
  <2>1. /\ blind[p] \/ seen[p] = store
        /\ now <= clock /\ now \in Times /\ clock \in Times
        /\ store.times \in [Times -> Nat]
    BY <1>3, Unmoved DEF CommitError, Holds, BreakerInv, Exclusive, State
  <2>2. alerts' = Alerts(IF pc[p] = "in_trip" /\ ~blind[p] /\ Trips(seen[p].times, times, now)
                         THEN alerts + 1 ELSE alerts)
    BY <1>3 DEF CommitError
  <2>3. ~blind[p] /\ Trips(seen[p].times, times, now) => alerts = 0
    <3>1. Trips(seen[p].times, times, now) => ~Tripped(seen[p].times, now)
      BY DEF Trips
    <3>2. Tripped(store.times, clock) => Tripped(store.times, now)
      BY <2>1, EarlierCountsMore
    <3>3. QED
      BY <1>2, <2>1, <3>1, <3>2 DEF Reported
  <2>4. QED
    BY <1>1, <1>2, <2>2, <2>3
<1>4. ASSUME NEW p \in Processes, CommitHalt(p) \/ CommitResume(p) PROVE Reported'
  BY <1>1, <1>2, <1>4 DEF CommitHalt, CommitResume
<1>5. CASE Tick
  BY <1>1, <1>2, <1>5 DEF Tick
<1>6. CASE UNCHANGED <<store, clock, alerts>>
  BY <1>6 DEF Reported
<1>7. QED
  BY <1>3, <1>4, <1>5, <1>6
  DEF Next, Transaction, Execute, Acquire, Raise, Die, Load, Check, Submit, BrokerError, Request,
      vars, history

---------------------------------------------------------------------------
(* What the breaker promises.                                              *)

\* The file has every saved error of the window exactly once, counted from the last
\* resume or the last save of a process that could not read the file.
THEOREM BreakerIsExactHolds == Spec => []BreakerIsExact
<1>1. BreakerInv => BreakerIsExact
  BY DEF BreakerInv, BreakerIsExact
<1>2. QED
  BY <1>1, BreakerInvariant, PTL

\* After a halt is in the file each executor has at most one entry more whose check had
\* read the file.
THEOREM OneEntryAfterHalt == Spec => []HaltLetsOneEntryThrough
<1>1. BreakerInv => HaltLetsOneEntryThrough
  BY DEF BreakerInv, Stopped, HaltLetsOneEntryThrough
<1>2. QED
  BY <1>1, BreakerInvariant, PTL

\* While the breaker stays tripped one executor at most, of those that read the file, has
\* reported the trip.
THEOREM TripReportedOnceHolds == Spec => []TripReportedOnce
<1>1. Init => Reported
  BY DEF Init, Reported
<1>2. Reported => TripReportedOnce
  BY DEF Reported, TripReportedOnce
<1>3. QED
  BY <1>1, <1>2, ReportedStep, BreakerInvariant, PTL DEF Spec

\* Only a resume ends a halt, or an executor that records an error on a file it could not
\* read.
THEOREM HaltEndsInResumeHolds == Spec => HaltEndsInResume
<1> DEFINE Allowed == \/ \E d \in Operators : pc[d] = "in_resume"
                      \/ \E e \in Executors : pc[e] \in {"in_trip", "in_plain"} /\ blind[e]
<1>1. ASSUME BreakerInv, [Next]_vars, store.halt, ~store'.halt
      PROVE  Allowed
  <2>1. PICK p \in Processes : CommitError(p) \/ CommitHalt(p) \/ CommitResume(p)
    <3>1. store' # store
      BY <1>1
    <3>2. QED
      BY <1>1, <3>1
      DEF Next, Transaction, Execute, Acquire, Raise, Die, Load, Check, Submit, BrokerError,
          Request, Tick, vars
  <2>2. (blind[p] \/ seen[p] = store) /\ store \in State /\ seen[p] \in State
    BY <1>1, <2>1 DEF BreakerInv, Exclusive, Holds, CommitError, CommitHalt, CommitResume, TypeOK
  <2>3. ~CommitHalt(p)
    BY <1>1, <2>2 DEF CommitHalt, Save, State
  <2>4. CASE CommitError(p)
    <3>1. blind[p]
      BY <1>1, <2>2, <2>4 DEF CommitError, Save, State
    <3>2. pc[p] \in {"in_trip", "in_plain"} /\ p \in Executors
      BY <1>1, <2>4 DEF CommitError, BreakerInv, Roles
    <3>3. QED
      BY <3>1, <3>2
  <2>5. CASE CommitResume(p)
    BY <1>1, <2>5 DEF CommitResume, BreakerInv, Roles
  <2>6. QED
    BY <2>1, <2>3, <2>4, <2>5
<1>2. BreakerInv /\ [Next]_vars => [store.halt /\ ~store'.halt => Allowed]_vars
  BY <1>1
<1>3. QED
  BY <1>2, BreakerInvariant, PTL DEF Spec, HaltEndsInResume

---------------------------------------------------------------------------
(* The high-water mark.                                                    *)

Known == Nat \cup {Unknown}
Steps == {"idle", "read", "loaded", "locked", "release", "observed", "decided"}

Shape(r) == DOMAIN r = {"pc", "equity", "peak", "candidate", "history", "decision", "since", "blind"}

\* Who is where, with what it knows.
ProcOK ==
    /\ proc = [p \in GateProcesses |-> proc[p]]
    /\ \A p \in GateProcesses :
          /\ Shape(proc[p])
          /\ proc[p].pc \in Steps
          /\ proc[p].equity \in Nat /\ proc[p].peak \in Known

\* The lock is held between taking it and releasing it.
LockOK ==
    /\ peakLock \in GateProcesses \cup {NoHolder}
    /\ \A p \in GateProcesses : proc[p].pc \in {"locked", "release"} <=> peakLock = p

\* The holder of the lock, if it has read the file, knows no less than it.
HolderKnows ==
    \A p \in GateProcesses :
        proc[p].pc = "locked" /\ ~proc[p].blind => proc[p].peak >= peakFile

PeakInv ==
    /\ equity \in Nat /\ peakFile \in Known
    /\ ProcOK /\ LockOK /\ HolderKnows /\ PeakIsKept

LEMMA IdleShape ==
    /\ Shape(Idle) /\ Idle.pc = "idle"
    /\ Idle.equity \in Nat /\ Idle.peak \in Known
<1>1. Shape(Idle)
  BY DEF Idle, Shape
<1>2. Idle.pc = "idle" /\ Idle.equity = 0 /\ Idle.peak = Unknown
  BY DEF Idle
<1>3. QED
  BY <1>1, <1>2 DEF Known

LEMMA PeakInvInit == GateInit => PeakInv
<1> SUFFICES ASSUME GateInit PROVE PeakInv
  OBVIOUS
<1>1. \A p \in GateProcesses : proc[p] = Idle
  BY DEF GateInit
<1>2. ProcOK
  BY <1>1, IdleShape DEF GateInit, ProcOK, Steps
<1>3. LockOK /\ HolderKnows
  BY <1>1, IdleShape, GateAssumption DEF GateInit, LockOK, HolderKnows, GateAssumption
<1>4. QED
  BY <1>2, <1>3, GateAssumption
  DEF GateInit, PeakInv, PeakIsKept, GateAssumption, Known

\* Steps that leave the file and the lock alone, and take a process to a place outside
\* the lock.
LEMMA OutsideTheLock ==
    ASSUME PeakInv, NEW p \in GateProcesses, peakLock # p, NEW r,
           Shape(r), r.pc \in Steps \ {"locked", "release"},
           r.equity \in Nat, r.peak \in Known,
           proc' = [proc EXCEPT ![p] = r],
           UNCHANGED <<peakFile, peakLock, saved, equity>>
    PROVE  PeakInv'
<1>1. \A q \in GateProcesses : proc'[q] = IF q = p THEN r ELSE proc[q]
  BY DEF PeakInv, ProcOK
<1>2. ProcOK'
  BY <1>1 DEF PeakInv, ProcOK
<1>3. LockOK' /\ HolderKnows'
  BY <1>1 DEF PeakInv, LockOK, HolderKnows
<1>4. QED
  BY <1>2, <1>3 DEF PeakInv, PeakIsKept

\* A step by which p gives the lock back
Freed(p, r) ==
    /\ Shape(r) /\ r.pc \in Steps \ {"locked", "release"}
    /\ r.equity \in Nat /\ r.peak \in Known
    /\ proc' = [proc EXCEPT ![p] = r] /\ peakLock' = NoHolder
    /\ UNCHANGED <<peakFile, saved, equity>>

LEMMA FreeingTheLock ==
    ASSUME PeakInv, NEW p \in GateProcesses, peakLock = p, NEW r, Freed(p, r)
    PROVE  PeakInv'
<1>1. \A q \in GateProcesses : proc'[q] = IF q = p THEN r ELSE proc[q]
  BY DEF PeakInv, ProcOK, Freed
<1>2. ProcOK'
  BY <1>1 DEF PeakInv, ProcOK, Freed
<1>3. LockOK' /\ HolderKnows'
  BY <1>1, GateAssumption DEF PeakInv, LockOK, HolderKnows, Freed, GateAssumption
<1>4. QED
  BY <1>2, <1>3 DEF PeakInv, PeakIsKept, Freed

\* What p knows once it has the lock
LEMMA EnterReads ==
    ASSUME PeakInv, NEW p \in GateProcesses, Enter(p)
    PROVE  \E r : /\ proc' = [proc EXCEPT ![p] = r] /\ Shape(r) /\ r.pc = "locked"
                  /\ r.equity = proc[p].equity /\ r.equity \in Nat /\ r.peak \in Known
                  /\ r.candidate = proc[p].candidate /\ r.decision = proc[p].decision
                  /\ ~r.blind => r.peak >= peakFile
                  /\ \/ r.peak = proc[p].peak /\ r.since = proc[p].since
                     \/ r.peak = peakFile /\ r.since = saved
<1> USE DEF Unknown, Known
<1> DEFINE kept  == [proc[p] EXCEPT !.pc = "locked"]
           read  == [proc[p] EXCEPT !.pc = "locked", !.peak = peakFile, !.since = saved]
           blank == [proc[p] EXCEPT !.pc = "locked", !.blind = TRUE]
<1>1. /\ Shape(proc[p]) /\ proc[p].equity \in Nat /\ proc[p].peak \in Known
      /\ peakFile \in Known
  BY DEF PeakInv, ProcOK
<1>2. Shape(kept) /\ Shape(read) /\ Shape(blank)
  BY <1>1 DEF Shape
<1>3. /\ kept.pc = "locked" /\ kept.equity = proc[p].equity /\ kept.peak = proc[p].peak
      /\ kept.since = proc[p].since
      /\ read.pc = "locked" /\ read.equity = proc[p].equity /\ read.peak = peakFile
      /\ read.since = saved
      /\ blank.pc = "locked" /\ blank.equity = proc[p].equity /\ blank.peak = proc[p].peak
      /\ blank.since = proc[p].since /\ blank.blind
  BY <1>1 DEF Shape
<1>3a. \A r \in {kept, read, blank} :
          r.candidate = proc[p].candidate /\ r.decision = proc[p].decision
  BY <1>1 DEF Shape
<1>4. \/ proc' = [proc EXCEPT ![p] = kept] /\ peakFile = Unknown
      \/ proc' = [proc EXCEPT ![p] = read]
      \/ proc' = [proc EXCEPT ![p] = blank]
  BY DEF Enter, Reloaded, PeakInv, ProcOK
<1> HIDE DEF kept, read, blank
<1>4a. peakFile >= peakFile /\ (peakFile = Unknown => proc[p].peak >= peakFile)
  BY <1>1
<1>5. CASE proc' = [proc EXCEPT ![p] = kept] /\ peakFile = Unknown
  BY <1>1, <1>2, <1>3, <1>3a, <1>4a, <1>5
<1>6. CASE proc' = [proc EXCEPT ![p] = read]
  BY <1>1, <1>2, <1>3, <1>3a, <1>4a, <1>6
<1>7. CASE proc' = [proc EXCEPT ![p] = blank]
  BY <1>1, <1>2, <1>3, <1>3a, <1>4a, <1>7
<1>8. QED
  BY <1>4, <1>5, <1>6, <1>7

LEMMA PeakInvStep == PeakInv /\ [GateNext]_gateVars => PeakInv'
<1> SUFFICES ASSUME PeakInv, [GateNext]_gateVars PROVE PeakInv'
  OBVIOUS
<1> USE DEF Unknown, Known
<1>1. ASSUME NEW p \in GateProcesses, ReadAccount(p) PROVE PeakInv'
  <2>1. PICK c, h : proc' = [proc EXCEPT ![p] = [Idle EXCEPT
              !.pc = "read", !.equity = equity, !.candidate = c, !.history = h]]
    BY <1>1 DEF ReadAccount
  <2>2. peakLock # p
    BY <1>1 DEF ReadAccount, At, PeakInv, LockOK
  <2> DEFINE r == [Idle EXCEPT !.pc = "read", !.equity = equity, !.candidate = c, !.history = h]
  <2>3. Shape(r)
    BY IdleShape DEF Idle, Shape
  <2>3a. r.pc = "read" /\ r.equity = equity /\ r.peak = Unknown
    BY DEF Idle
  <2>3b. equity \in Nat
    BY DEF PeakInv
  <2> HIDE DEF r
  <2>4. proc' = [proc EXCEPT ![p] = r]
    BY <2>1 DEF r
  <2>5. UNCHANGED <<peakFile, peakLock, saved, equity>>
    BY <1>1 DEF ReadAccount, market
  <2>6. r.pc \in Steps \ {"locked", "release"} /\ r.equity \in Nat /\ r.peak \in Known
    BY <2>3a, <2>3b DEF Steps
  <2>7. QED
    BY <2>2, <2>3, <2>4, <2>5, <2>6, OutsideTheLock
<1>2. ASSUME NEW p \in GateProcesses, LoadDefault(p) PROVE PeakInv'
  <2> DEFINE known == [proc[p] EXCEPT !.pc = "loaded", !.peak = peakFile, !.since = saved]
             blank == [proc[p] EXCEPT !.pc = "loaded"]
  <2>1. peakLock # p
    BY <1>2 DEF LoadDefault, At, PeakInv, LockOK
  <2>2. /\ Shape(proc[p]) /\ proc[p].equity \in Nat /\ proc[p].peak \in Known
        /\ peakFile \in Known
    BY DEF PeakInv, ProcOK
  <2>3. Shape(known) /\ Shape(blank)
    BY <2>2 DEF Shape
  <2>4. /\ known.pc = "loaded" /\ known.equity = proc[p].equity /\ known.peak = peakFile
        /\ blank.pc = "loaded" /\ blank.equity = proc[p].equity /\ blank.peak = proc[p].peak
    BY <2>2 DEF Shape
  <2>5. proc' = [proc EXCEPT ![p] = known] \/ proc' = [proc EXCEPT ![p] = blank]
    BY <1>2 DEF LoadDefault, Goto, PeakInv, ProcOK
  <2> HIDE DEF known, blank
  <2>6. UNCHANGED <<peakFile, peakLock, saved, equity>> /\ "loaded" \in Steps
    BY <1>2 DEF LoadDefault, market, Steps
  <2>7. QED
    BY <2>1, <2>2, <2>3, <2>4, <2>5, <2>6, OutsideTheLock
<1>3. ASSUME NEW p \in GateProcesses, Lock(p) PROVE PeakInv'
  <2>1. /\ peakLock = NoHolder /\ peakLock' = p /\ UNCHANGED <<peakFile, saved, equity>>
        /\ Enter(p)
    BY <1>3 DEF Lock, Enter, market
  <2>2. PICK r : /\ proc' = [proc EXCEPT ![p] = r] /\ Shape(r) /\ r.pc = "locked"
                 /\ r.equity \in Nat /\ r.peak \in Known
                 /\ ~r.blind => r.peak >= peakFile
    BY <2>1, EnterReads
  <2>3. \A q \in GateProcesses : proc'[q] = IF q = p THEN r ELSE proc[q]
    BY <2>2 DEF PeakInv, ProcOK
  <2>4. ProcOK'
    BY <2>2, <2>3 DEF PeakInv, ProcOK, Steps
  <2>5. \A q \in GateProcesses : proc[q].pc \notin {"locked", "release"}
    BY <2>1, GateAssumption DEF PeakInv, LockOK, GateAssumption
  <2>6. LockOK' /\ HolderKnows'
    BY <2>1, <2>2, <2>3, <2>5 DEF LockOK, HolderKnows
  <2>7. QED
    BY <2>1, <2>4, <2>6 DEF PeakInv, PeakIsKept
<1>4. ASSUME NEW p \in GateProcesses, LockFails(p) PROVE PeakInv'
  <2> DEFINE r == [proc[p] EXCEPT !.pc = "observed", !.peak = FallbackPeak(p)]
  <2>1. peakLock # p
    BY <1>4 DEF LockFails, At, PeakInv, LockOK
  <2>2. Shape(proc[p]) /\ proc[p].equity \in Nat /\ FallbackPeak(p) \in Known
    BY DEF PeakInv, ProcOK, FallbackPeak, Raised
  <2>3. Shape(r)
    BY <2>2 DEF Shape
  <2>4. r.pc = "observed" /\ r.equity = proc[p].equity /\ r.peak = FallbackPeak(p)
    BY <2>2 DEF Shape
  <2>5. proc' = [proc EXCEPT ![p] = r] /\ UNCHANGED <<peakFile, peakLock, saved, equity>>
    BY <1>4 DEF LockFails, market, PeakInv, ProcOK
  <2> HIDE DEF r
  <2>6. QED
    BY <2>1, <2>2, <2>3, <2>4, <2>5, OutsideTheLock DEF Steps
<1>5. ASSUME NEW p \in GateProcesses, Observe(p) PROVE PeakInv'
  <2> DEFINE r == [proc[p] EXCEPT !.pc = "release", !.peak = Raised(p)]
  <2>1. peakLock = p /\ (~proc[p].blind => proc[p].peak >= peakFile)
    BY <1>5 DEF Observe, At, PeakInv, LockOK, HolderKnows
  <2>2. Shape(proc[p]) /\ proc[p].equity \in Nat /\ Raised(p) \in Known
    BY DEF PeakInv, ProcOK, Raised
  <2>3. Shape(r)
    BY <2>2 DEF Shape
  <2>4. r.pc = "release" /\ r.equity = proc[p].equity /\ r.peak = Raised(p)
    BY <2>2 DEF Shape
  <2>5. proc' = [proc EXCEPT ![p] = r] /\ UNCHANGED <<peakLock, equity>>
    BY <1>5 DEF Observe, market, PeakInv, ProcOK
  <2> HIDE DEF r
  <2>6. \A q \in GateProcesses : proc'[q] = IF q = p THEN r ELSE proc[q]
    BY <2>5 DEF PeakInv, ProcOK
  <2>7. ProcOK'
    BY <2>2, <2>3, <2>4, <2>5, <2>6 DEF PeakInv, ProcOK, Steps
  <2>8. LockOK' /\ HolderKnows'
    BY <2>1, <2>4, <2>5, <2>6 DEF PeakInv, LockOK, HolderKnows
  <2>9. PeakIsKept' /\ peakFile' \in Known
    BY <1>5, <2>1, <2>2 DEF Observe, PeakInv, ProcOK, PeakIsKept
  <2>10. QED
    BY <2>5, <2>7, <2>8, <2>9 DEF PeakInv
<1>6. ASSUME NEW p \in GateProcesses, Release(p) PROVE PeakInv'
  <2> DEFINE r == [proc[p] EXCEPT !.pc = "observed"]
  <2>1. peakLock = p
    BY <1>6 DEF Release, At, PeakInv, LockOK
  <2>2. Shape(proc[p]) /\ proc[p].equity \in Nat /\ proc[p].peak \in Known
    BY DEF PeakInv, ProcOK
  <2>3. Shape(r)
    BY <2>2 DEF Shape
  <2>4. r.pc = "observed" /\ r.equity = proc[p].equity /\ r.peak = proc[p].peak
    BY <2>2 DEF Shape
  <2>5. /\ proc' = [proc EXCEPT ![p] = r] /\ peakLock' = NoHolder
        /\ UNCHANGED <<peakFile, saved, equity>>
    BY <1>6 DEF Release, Goto, market, PeakInv, ProcOK
  <2> HIDE DEF r
  <2>6. Freed(p, r)
    BY <2>3, <2>4, <2>5, <2>2 DEF Freed, Steps
  <2>7. QED
    BY <2>1, <2>6, FreeingTheLock
<1>7. ASSUME NEW p \in GateProcesses, Decide(p) PROVE PeakInv'
  <2>1. PICK d : proc' = [proc EXCEPT ![p].pc = "decided", ![p].decision = d]
    BY <1>7 DEF Decide
  <2> DEFINE r == [proc[p] EXCEPT !.pc = "decided", !.decision = d]
  <2>2. peakLock # p
    BY <1>7 DEF Decide, At, PeakInv, LockOK
  <2>3. Shape(proc[p]) /\ proc[p].equity \in Nat /\ proc[p].peak \in Known
    BY DEF PeakInv, ProcOK
  <2>4. Shape(r)
    BY <2>3 DEF Shape
  <2>5. r.pc = "decided" /\ r.equity = proc[p].equity /\ r.peak = proc[p].peak
    BY <2>3 DEF Shape
  <2>6. proc' = [proc EXCEPT ![p] = r]
    BY <2>1 DEF PeakInv, ProcOK
  <2>7. UNCHANGED <<peakFile, peakLock, saved, equity>>
    BY <1>7 DEF Decide, market
  <2> HIDE DEF r
  <2>8. QED
    BY <2>2, <2>3, <2>4, <2>5, <2>6, <2>7, OutsideTheLock DEF Steps
<1>8. ASSUME NEW p \in GateProcesses, GateReturn(p) PROVE PeakInv'
  <2>1. peakLock # p
    BY <1>8 DEF GateReturn, At, PeakInv, LockOK
  <2>2. proc' = [proc EXCEPT ![p] = Idle] /\ UNCHANGED <<peakFile, peakLock, saved, equity>>
    BY <1>8 DEF GateReturn, market
  <2>3. Idle.pc \in Steps \ {"locked", "release"}
    BY IdleShape DEF Steps
  <2>4. QED
    BY <2>1, <2>2, <2>3, IdleShape, OutsideTheLock
<1>9. ASSUME NEW p \in GateProcesses, GateDie(p) PROVE PeakInv'
  <2>1. proc' = [proc EXCEPT ![p] = Idle] /\ UNCHANGED <<peakFile, saved, equity>>
    BY <1>9 DEF GateDie, market
  <2>2. Idle.pc \in Steps \ {"locked", "release"}
    BY IdleShape DEF Steps
  <2>3. CASE peakLock = p
    <3>1. Freed(p, Idle)
      BY <1>9, <2>1, <2>2, <2>3, IdleShape DEF GateDie, Freed
    <3>2. QED
      BY <2>3, <3>1, FreeingTheLock
  <2>4. CASE peakLock # p
    <3>1. UNCHANGED peakLock
      BY <1>9, <2>4 DEF GateDie
    <3>2. QED
      BY <2>1, <2>2, <2>4, <3>1, IdleShape, OutsideTheLock
  <2>5. QED
    BY <2>3, <2>4
<1>10. CASE Move
  BY <1>10, GateAssumption
  DEF Move, PeakInv, ProcOK, LockOK, HolderKnows, PeakIsKept, GateAssumption
<1>11. CASE UNCHANGED gateVars
  BY <1>11 DEF gateVars, market, PeakInv, ProcOK, LockOK, HolderKnows, PeakIsKept
<1>12. QED
  BY <1>1, <1>2, <1>3, <1>4, <1>5, <1>6, <1>7, <1>8, <1>9, <1>10, <1>11
  DEF GateNext, ProcessStep

\* The high-water mark on disk is the highest equity that was saved: no process that reads
\* the file overwrites the peak of another, for any number of processes, equities and
\* faults.  The count begins anew when a process saves that could not read it.
THEOREM PeakIsKeptHolds == GateSpec => []PeakIsKept
<1>1. PeakInv => PeakIsKept
  BY DEF PeakInv
<1>2. QED
  BY PeakInvInit, PeakInvStep, <1>1, PTL DEF GateSpec
---------------------------------------------------------------------------
(* The halt after a drop from the peak.                                    *)

\* What a process knows of the equities that were saved: its peak covers those saved when
\* it last read the file; what it approved is not halted.
Informed(r) ==
    /\ r.since \in Known
    /\ r.pc = "read" => r.since = Unknown
    /\ r.pc \in {"loaded", "locked", "release", "observed", "decided"} => r.since <= r.peak
    /\ r.pc # "idle" => r.equity > 0
    /\ r.pc = "decided" /\ r.decision.action # "veto" => ~Halted(r.equity, r.peak)

HaltInv == equity > 0 /\ saved \in Known /\ \A p \in GateProcesses : Informed(proc[p])

\* A higher peak halts what a lower one does.
LEMMA HaltsFromHigher ==
    ASSUME NEW e \in Nat, NEW low \in Known, NEW high \in Known, low <= high, Halted(e, low)
    PROVE  Halted(e, high)
<1>1. MaxDrawdown \in Nat /\ MaxDrawdown > 0 /\ low > e /\ (low - e) * 100 >= MaxDrawdown * low
  BY RiskAssumption DEF Halted, RiskAssumption
<1>2. low \in Nat /\ high \in Nat /\ high > e
  BY <1>1 DEF Known, Unknown
<1>3. MaxDrawdown <= 100
  <2>1. CASE MaxDrawdown > 100
    <3>1. MaxDrawdown * low >= 101 * low
      BY <1>1, <1>2, <2>1
    <3>2. QED
      BY <1>1, <1>2, <3>1
  <2>2. QED
    BY <1>1, <2>1
<1>4. MaxDrawdown * (high - low) <= 100 * (high - low)
  BY <1>1, <1>2, <1>3
<1>5. MaxDrawdown * (high - low) = MaxDrawdown * high - MaxDrawdown * low
      /\ MaxDrawdown * high \in Int /\ MaxDrawdown * low \in Int
  BY <1>1, <1>2
<1>6. (high - e) * 100 >= MaxDrawdown * high
  BY <1>1, <1>2, <1>4, <1>5
<1>7. QED
  BY <1>1, <1>2, <1>6 DEF Halted

\* What evaluate lets through, for an account that has equity, is not halted.
LEMMA EvaluateHalts ==
    ASSUME NEW c, NEW book, NEW returns, NEW alike, NEW e \in Nat, e > 0, NEW peak,
           Halted(e, peak)
    PROVE  Evaluate(c, book, returns, alike, e, peak).action = "veto"
<1>1. Breach(c, book, e, peak)
  BY DEF Breach
<1>2. Evaluate(c, book, returns, alike, e, peak) = Veto
  BY <1>1 DEF Evaluate
<1>3. QED
  BY <1>2 DEF Veto

LEMMA IdleInformed == Informed(Idle)
<1>1. Idle.since = Unknown /\ Idle.pc = "idle"
  BY DEF Idle
<1>2. QED
  BY <1>1 DEF Informed, Known, Unknown

LEMMA HaltInvStep == PeakInv /\ HaltInv /\ [GateNext]_gateVars => HaltInv'
<1> SUFFICES ASSUME PeakInv, HaltInv, [GateNext]_gateVars PROVE HaltInv'
  OBVIOUS
<1>1. saved \in Known /\ saved = peakFile /\ equity \in Nat /\ equity > 0
  BY DEF HaltInv, PeakInv, PeakIsKept
<1>2. ASSUME NEW p \in GateProcesses
      PROVE  /\ Shape(proc[p]) /\ proc[p].equity \in Nat /\ proc[p].peak \in Known
             /\ Informed(proc[p])
  BY <1>2 DEF PeakInv, ProcOK, HaltInv
<1>3. ASSUME NEW p \in GateProcesses, NEW r, Informed(r), saved' \in Known, UNCHANGED equity,
             proc' = [proc EXCEPT ![p] = r]
      PROVE  HaltInv'
  <2>1. \A q \in GateProcesses : proc'[q] = IF q = p THEN r ELSE proc[q]
    BY <1>3 DEF PeakInv, ProcOK
  <2>2. \A q \in GateProcesses : Informed(proc'[q])
    BY <1>2, <1>3, <2>1
  <2>3. QED
    BY <1>1, <1>3, <2>2 DEF HaltInv, Informed, Halted
<1>4. ASSUME NEW p \in GateProcesses, ReadAccount(p) PROVE HaltInv'
  <2>1. PICK c, h : proc' = [proc EXCEPT ![p] = [Idle EXCEPT
              !.pc = "read", !.equity = equity, !.candidate = c, !.history = h]]
    BY <1>4 DEF ReadAccount
  <2> DEFINE r == [Idle EXCEPT !.pc = "read", !.equity = equity, !.candidate = c, !.history = h]
  <2>2. r.pc = "read" /\ r.equity = equity /\ r.since = Unknown
    BY DEF Idle
  <2> HIDE DEF r
  <2>3. Informed(r)
    BY <1>1, <2>2 DEF Informed, Known, Unknown
  <2>4. QED
    BY <1>1, <1>3, <1>4, <2>1, <2>3 DEF ReadAccount, r, market
<1>5. ASSUME NEW p \in GateProcesses, LoadDefault(p) PROVE HaltInv'
  <2> DEFINE known == [proc[p] EXCEPT !.pc = "loaded", !.peak = peakFile, !.since = saved]
             blank == [proc[p] EXCEPT !.pc = "loaded"]
  <2>1. /\ proc' = [proc EXCEPT ![p] = known] \/ proc' = [proc EXCEPT ![p] = blank]
        /\ UNCHANGED <<saved, equity>> /\ proc[p].pc = "read"
    BY <1>5 DEF LoadDefault, Goto, At, market, PeakInv, ProcOK
  <2>2. /\ known.pc = "loaded" /\ known.equity = proc[p].equity /\ known.peak = peakFile
        /\ known.since = saved
        /\ blank.pc = "loaded" /\ blank.equity = proc[p].equity /\ blank.peak = proc[p].peak
        /\ blank.since = proc[p].since
    BY <1>2 DEF Shape
  <2> HIDE DEF known, blank
  <2>3. Informed(known) /\ Informed(blank)
    BY <1>1, <1>2, <2>1, <2>2 DEF Informed, Known, Unknown
  <2>4. QED
    BY <1>1, <1>3, <2>1, <2>3
<1>6. ASSUME NEW p \in GateProcesses, NEW r, r.since \in Known,
             r.pc \in {"locked", "release", "observed"}, proc[p].pc # "idle",
             r.equity = proc[p].equity, r.since <= r.peak
      PROVE  Informed(r)
  <2>1. r.pc \notin {"decided", "idle", "read"} /\ r.equity > 0
    BY <1>2, <1>6 DEF Informed
  <2>2. QED
    BY <1>6, <2>1 DEF Informed
<1>7. ASSUME NEW p \in GateProcesses, Lock(p) PROVE HaltInv'
  <2>1. Enter(p) /\ UNCHANGED <<saved, equity>> /\ proc[p].pc = "loaded"
    BY <1>7 DEF Lock, At, market
  <2>2. PICK r : /\ proc' = [proc EXCEPT ![p] = r] /\ r.pc = "locked"
                 /\ r.equity = proc[p].equity
                 /\ \/ r.peak = proc[p].peak /\ r.since = proc[p].since
                    \/ r.peak = peakFile /\ r.since = saved
    BY <2>1, EnterReads
  <2>3. r.since \in Known /\ r.since <= r.peak
    BY <1>1, <1>2, <2>1, <2>2 DEF Informed, Known, Unknown
  <2>4. Informed(r)
    BY <1>6, <2>1, <2>2, <2>3
  <2>5. QED
    BY <1>1, <1>3, <2>1, <2>2, <2>4
<1>8. ASSUME NEW p \in GateProcesses PROVE Raised(p) \in Known /\ Raised(p) >= proc[p].peak
  BY <1>2 DEF Raised, Known, Unknown
<1>9. ASSUME NEW p \in GateProcesses, LockFails(p) PROVE HaltInv'
  <2> DEFINE r == [proc[p] EXCEPT !.pc = "observed", !.peak = Raised(p)]
  <2>1. proc' = [proc EXCEPT ![p] = r] /\ UNCHANGED <<saved, equity>> /\ proc[p].pc = "loaded"
    BY <1>9 DEF LockFails, FallbackPeak, At, market, PeakInv, ProcOK
  <2>2. Raised(p) \in Known /\ proc[p].since <= Raised(p)
    BY <1>2, <1>8, <2>1 DEF Informed, Known, Unknown
  <2>3. /\ r.pc = "observed" /\ r.equity = proc[p].equity /\ r.since = proc[p].since
         /\ r.peak = Raised(p)
    BY <1>2 DEF Shape
  <2> HIDE DEF r
  <2>4. r.since \in Known /\ r.since <= r.peak
    BY <1>2, <2>2, <2>3 DEF Informed
  <2>5. Informed(r)
    BY <1>6, <2>1, <2>3, <2>4
  <2>6. QED
    BY <1>1, <1>3, <2>1, <2>5
<1>10. ASSUME NEW p \in GateProcesses, Observe(p) PROVE HaltInv'
  <2> DEFINE r == [proc[p] EXCEPT !.pc = "release", !.peak = Raised(p)]
  <2>1. proc' = [proc EXCEPT ![p] = r] /\ proc[p].pc = "locked" /\ UNCHANGED equity
    BY <1>10 DEF Observe, At, market, PeakInv, ProcOK
  <2>2. Raised(p) \in Known /\ proc[p].since <= Raised(p)
    BY <1>2, <1>8, <2>1 DEF Informed, Known, Unknown
  <2>3. saved' \in Known /\ r.since \in Known
    BY <1>1, <1>2, <1>10 DEF Observe, Known, Unknown, Informed, Shape
  <2>4. /\ r.pc = "release" /\ r.equity = proc[p].equity /\ r.since = proc[p].since
         /\ r.peak = Raised(p)
    BY <1>2 DEF Shape
  <2> HIDE DEF r
  <2>5. Informed(r)
    BY <1>6, <2>1, <2>2, <2>3, <2>4
  <2>6. QED
    BY <1>3, <2>1, <2>3, <2>5
<1>11. ASSUME NEW p \in GateProcesses, Release(p) PROVE HaltInv'
  <2> DEFINE r == [proc[p] EXCEPT !.pc = "observed", !.peak = proc[p].peak]
  <2>1. proc' = [proc EXCEPT ![p] = r] /\ UNCHANGED <<saved, equity>> /\ proc[p].pc = "release"
    BY <1>2, <1>11 DEF Release, Goto, At, market, PeakInv, ProcOK, Shape
  <2>2. proc[p].peak \in Known /\ proc[p].since <= proc[p].peak
    BY <1>2, <2>1 DEF Informed
  <2>3. /\ r.pc = "observed" /\ r.equity = proc[p].equity /\ r.since = proc[p].since
         /\ r.peak = proc[p].peak
    BY <1>2 DEF Shape
  <2> HIDE DEF r
  <2>4. r.since \in Known /\ r.since <= r.peak
    BY <1>2, <2>2, <2>3 DEF Informed
  <2>5. Informed(r)
    BY <1>6, <2>1, <2>3, <2>4
  <2>6. QED
    BY <1>1, <1>3, <2>1, <2>5
<1>12. ASSUME NEW p \in GateProcesses, Decide(p) PROVE HaltInv'
  <2> DEFINE d == Evaluate(proc[p].candidate, scene.book, proc[p].history, scene.alike,
                           proc[p].equity, proc[p].peak)
             r == [proc[p] EXCEPT !.pc = "decided", !.decision = d]
  <2>1. proc' = [proc EXCEPT ![p] = r] /\ UNCHANGED <<saved, equity>> /\ proc[p].pc = "observed"
    BY <1>12 DEF Decide, At, market, PeakInv, ProcOK
  <2>2. proc[p].equity > 0 /\ proc[p].since <= proc[p].peak
    BY <1>2, <2>1 DEF Informed
  <2>3. d.action # "veto" => ~Halted(proc[p].equity, proc[p].peak)
    BY <1>2, <2>2, EvaluateHalts
  <2>4. /\ r.pc = "decided" /\ r.equity = proc[p].equity /\ r.peak = proc[p].peak
        /\ r.since = proc[p].since /\ r.decision = d
    BY <1>2 DEF Shape
  <2> HIDE DEF r, d
  <2>5. Informed(r)
    BY <1>2, <2>2, <2>3, <2>4 DEF Informed
  <2>6. QED
    BY <1>1, <1>3, <2>1, <2>5
<1>13. ASSUME NEW p \in GateProcesses, GateReturn(p) \/ GateDie(p) PROVE HaltInv'
  <2>1. proc' = [proc EXCEPT ![p] = Idle] /\ UNCHANGED <<saved, equity>>
    BY <1>13 DEF GateReturn, GateDie, market
  <2>2. QED
    BY <1>1, <1>3, <2>1, IdleInformed
<1>14. CASE Move \/ UNCHANGED gateVars
  <2>1. UNCHANGED <<proc, saved>> /\ (equity' \in Equities \/ UNCHANGED equity)
    BY <1>14 DEF Move, gateVars
  <2>2. \A e \in Equities : e > 0
    BY GateAssumption DEF GateAssumption
  <2>3. equity' > 0
    BY <1>1, <2>1, <2>2
  <2>4. QED
    BY <2>1, <2>3 DEF HaltInv, Informed, Halted
<1>15. QED
  BY <1>4, <1>5, <1>7, <1>9, <1>10, <1>11, <1>12, <1>13, <1>14
  DEF GateNext, ProcessStep

\* No entry is approved whose account has dropped by the limit from the peak that was saved,
\* by whatever process, when the gate last managed to read the file, even when the gate's
\* own lock or save fails.
THEOREM DrawdownHaltsEntriesHolds == GateSpec => []DrawdownHaltsEntries
<1>1. GateInit => HaltInv
  <2> SUFFICES ASSUME GateInit PROVE HaltInv
    OBVIOUS
  <2>1. saved \in Known /\ equity > 0 /\ \A p \in GateProcesses : proc[p] = Idle
    BY GateAssumption DEF GateInit, Known, GateAssumption
  <2>2. QED
    BY <2>1, IdleInformed DEF HaltInv
<1>2. PeakInv /\ HaltInv => DrawdownHaltsEntries
  <2> SUFFICES ASSUME PeakInv, HaltInv, NEW p \in Gates, At(p, "decided"),
                      proc[p].decision.action # "veto"
               PROVE  ~Halted(proc[p].equity, proc[p].since)
    BY DEF DrawdownHaltsEntries
  <2>1. p \in GateProcesses
    BY DEF GateProcesses
  <2>2. /\ Informed(proc[p]) /\ proc[p].equity \in Nat /\ proc[p].peak \in Known
        /\ proc[p].pc = "decided"
    BY <2>1 DEF HaltInv, PeakInv, ProcOK, At
  <2>3. /\ proc[p].since \in Known /\ proc[p].since <= proc[p].peak
        /\ ~Halted(proc[p].equity, proc[p].peak)
    BY <2>2 DEF Informed
  <2>4. QED
    BY <2>2, <2>3, HaltsFromHigher
<1>3. QED
  BY <1>1, <1>2, HaltInvStep, PeakInvInit, PeakInvStep, PTL DEF GateSpec


\* The invariant of the runs: the peak is kept, and a drop from it halts entries.
THEOREM PeakRestrainsHolds == GateSpec => []PeakRestrains
  BY PeakIsKeptHolds, DrawdownHaltsEntriesHolds, PTL DEF PeakRestrains

---------------------------------------------------------------------------
(* The cluster.                                                            *)

\* parent is a forest over D in which root[y] is where y leads, by way of ever lower ranks.
Rooted(parent, root, rank, D) ==
    /\ parent \in [D -> D] /\ root \in [D -> D] /\ rank \in [D -> Nat]
    /\ \A y \in D : /\ parent[root[y]] = root[y]
                    /\ parent[y] = y => root[y] = y
                    /\ parent[y] # y => root[y] = root[parent[y]] /\ rank[parent[y]] < rank[y]

\* find's equation
Finds(parent, g) == g = [y \in DOMAIN parent |-> IF parent[y] = y THEN y ELSE g[parent[y]]]

LEMMA FindIsRoot ==
    ASSUME NEW D, NEW parent, NEW root, NEW rank, Rooted(parent, root, rank, D), NEW x \in D
    PROVE  Find(parent, x) = root[x]
<1>1. Find(parent, x) = (CHOOSE g : Finds(parent, g))[x]
  BY DEF Find, Finds
<1>2. Finds(parent, root)
  BY DEF Finds, Rooted
<1>3. PICK g : Finds(parent, g) /\ g = CHOOSE h : Finds(parent, h)
  BY <1>2
<1> DEFINE N == {n \in Nat : \A y \in D : rank[y] < n => g[y] = root[y]}
<1>4. 0 \in N
  BY DEF Rooted
<1>5. ASSUME NEW n \in Nat, n \in N PROVE n + 1 \in N
  <2> SUFFICES ASSUME NEW y \in D, rank[y] < n + 1 PROVE g[y] = root[y]
    OBVIOUS
  <2>1. g[y] = IF parent[y] = y THEN y ELSE g[parent[y]]
    BY <1>3 DEF Finds, Rooted
  <2>2. CASE parent[y] = y
    BY <2>1, <2>2 DEF Rooted
  <2>3. CASE parent[y] # y
    <3>1. parent[y] \in D /\ rank[parent[y]] < n
      BY <2>3 DEF Rooted
    <3>2. g[parent[y]] = root[parent[y]]
      BY <1>5, <3>1
    <3>3. QED
      BY <2>1, <2>3, <3>2 DEF Rooted
  <2>4. QED
    BY <2>2, <2>3
<1> HIDE DEF N
<1>6. \A n \in Nat : n \in N
  BY <1>4, <1>5, Induction
<1>7. rank[x] \in Nat /\ rank[x] < rank[x] + 1
  BY DEF Rooted
<1>8. g[x] = root[x]
  BY <1>6, <1>7 DEF N
<1>9. QED
  BY <1>1, <1>3, <1>8

\* What leads where root[i] does is led where root[j] does.
Led(root, i, j, D) == [y \in D |-> IF root[y] = root[i] THEN root[j] ELSE root[y]]

\* union leads the one tree where the other leads.
LEMMA UnionJoins ==
    ASSUME NEW D, NEW parent, NEW root, NEW rank, Rooted(parent, root, rank, D),
           NEW i \in D, NEW j \in D
    PROVE  \E rank2 : Rooted(Union(parent, i, j), Led(root, i, j, D), rank2, D)
<1> DEFINE joined == Union(parent, i, j)
           root2  == [y \in D |-> IF root[y] = root[i] THEN root[j] ELSE root[y]]
           rank2  == [y \in D |-> IF root[i] # root[j] /\ root[y] = root[i]
                                 THEN rank[y] + rank[root[j]] + 1 ELSE rank[y]]
<1>1. joined = [parent EXCEPT ![root[i]] = root[j]]
  BY FindIsRoot DEF Union
<1>2. root[i] \in D /\ root[j] \in D /\ rank[root[j]] \in Nat /\ joined \in [D -> D]
  BY <1>1 DEF Rooted
<1>3. \A y \in D : joined[y] = IF y = root[i] THEN root[j] ELSE parent[y]
  BY <1>1 DEF Rooted
<1> HIDE DEF joined
<1>4. root2 \in [D -> D] /\ rank2 \in [D -> Nat]
  BY <1>2 DEF Rooted
<1>5. \A y \in D : root[root[y]] = root[y] /\ parent[root[y]] = root[y] /\ root[y] \in D
  BY DEF Rooted
<1>6. ASSUME NEW y \in D
      PROVE  /\ joined[root2[y]] = root2[y]
             /\ joined[y] = y => root2[y] = y
             /\ joined[y] # y => root2[y] = root2[joined[y]] /\ rank2[joined[y]] < rank2[y]
  <2>1. joined[root2[y]] = root2[y]
    BY <1>2, <1>3, <1>5
  <2>2. ASSUME joined[y] = y PROVE root2[y] = y
    BY <1>2, <1>3, <1>5, <2>2 DEF Rooted
  <2>3. ASSUME joined[y] # y PROVE root2[y] = root2[joined[y]]
    <3>1. CASE y = root[i]
      BY <1>2, <1>3, <1>5, <2>3, <3>1
    <3>2. CASE y # root[i]
      <4>1. joined[y] = parent[y] /\ parent[y] \in D /\ root[y] = root[parent[y]]
        BY <1>3, <2>3, <3>2 DEF Rooted
      <4>2. QED
        BY <4>1
    <3>3. QED
      BY <3>1, <3>2
  <2>4. ASSUME joined[y] # y PROVE rank2[joined[y]] < rank2[y]
    <3>1. CASE y = root[i]
      <4>1. joined[y] = root[j] /\ root[i] # root[j] /\ root[y] = root[i] /\ root[root[j]] = root[j]
        BY <1>2, <1>3, <1>5, <2>4, <3>1
      <4>2. rank2[root[j]] = rank[root[j]] /\ rank2[y] = rank[y] + rank[root[j]] + 1
        BY <1>2, <4>1
      <4>3. rank[y] \in Nat /\ rank[root[j]] \in Nat
        BY <1>2 DEF Rooted
      <4>4. QED
        BY <4>1, <4>2, <4>3
    <3>2. CASE y # root[i]
      <4>1. /\ joined[y] = parent[y] /\ parent[y] \in D /\ root[y] = root[parent[y]]
            /\ rank[parent[y]] < rank[y] /\ rank[y] \in Nat /\ rank[parent[y]] \in Nat
        BY <1>3, <2>4, <3>2 DEF Rooted
      <4>2. QED
        BY <1>2, <4>1
    <3>3. QED
      BY <3>1, <3>2
  <2>5. QED
    BY <2>1, <2>2, <2>3, <2>4
<1> HIDE DEF root2, rank2
<1>7. Rooted(joined, root2, rank2, D)
  BY <1>2, <1>4, <1>6 DEF Rooted
<1>8. QED
  BY <1>7 DEF joined, root2, Led

\* A set that has, with a node, all that are linked to it.
Closed(nodes, alike, S) ==
    \A i \in S, j \in DOMAIN nodes : Linked(nodes, alike, i, j) => j \in S

\* After the pairs up to i and j: a forest whose trees have both ends of every link so far,
\* and stay within every closed set.
Joined(parent, nodes, alike, i, j) ==
    \E root, rank :
        /\ Rooted(parent, root, rank, DOMAIN nodes)
        /\ \A a, b \in DOMAIN nodes :
              a < b /\ (a < i \/ (a = i /\ b <= j)) /\ Linked(nodes, alike, a, b)
              => root[a] = root[b]
        /\ \A S \in SUBSET DOMAIN nodes : Closed(nodes, alike, S) =>
              \A y \in DOMAIN nodes : y \in S <=> root[y] \in S

Forests(D) == {parent \in [D -> D] : \E root, rank : Rooted(parent, root, rank, D)}

LEMMA LinkedBack ==
    ASSUME NEW nodes, NEW alike, NEW i, NEW j, Linked(nodes, alike, i, j)
    PROVE  Linked(nodes, alike, j, i)
<1>1. {nodes[i].ticker, nodes[j].ticker} = {nodes[j].ticker, nodes[i].ticker}
  OBVIOUS
<1>2. QED
  BY <1>1 DEF Linked, Correlated

LEMMA JoinStep ==
    ASSUME NEW nodes, NEW alike, DOMAIN nodes \subseteq Nat, NEW parent, NEW i \in Nat, NEW j \in Nat,
           i < j, Joined(parent, nodes, alike, i, j - 1)
    PROVE  Joined(IF Linked(nodes, alike, i, j) THEN Union(parent, i, j) ELSE parent,
                  nodes, alike, i, j)
<1> DEFINE D == DOMAIN nodes
<1>1. PICK root, rank :
        /\ Rooted(parent, root, rank, D)
        /\ \A a, b \in D : a < b /\ (a < i \/ (a = i /\ b <= j - 1)) /\ Linked(nodes, alike, a, b)
              => root[a] = root[b]
        /\ \A S \in SUBSET D : Closed(nodes, alike, S) =>
              \A y \in D : y \in S <=> root[y] \in S
  BY DEF Joined
<1>2. \A b \in D : b <= j => b = j \/ b <= j - 1
  OBVIOUS
<1>3. CASE ~Linked(nodes, alike, i, j)
  <2>1. \A a, b \in D : a < b /\ (a < i \/ (a = i /\ b <= j)) /\ Linked(nodes, alike, a, b)
              => root[a] = root[b]
    BY <1>1, <1>2, <1>3
  <2>2. Joined(parent, nodes, alike, i, j)
    BY <1>1, <2>1 DEF Joined
  <2>3. QED
    BY <1>3, <2>2
<1>4. CASE Linked(nodes, alike, i, j)
  <2>1. i \in D /\ j \in D
    BY <1>4 DEF Linked
  <2> DEFINE root2 == Led(root, i, j, D)
  <2>2. PICK rank2 : Rooted(Union(parent, i, j), root2, rank2, D)
    BY <1>1, <2>1, UnionJoins
  <2>3. \A a, b \in D : a < b /\ (a < i \/ (a = i /\ b <= j)) /\ Linked(nodes, alike, a, b)
              => root2[a] = root2[b]
    <3> USE DEF Led
    <3> SUFFICES ASSUME NEW a \in D, NEW b \in D, a < b, a < i \/ (a = i /\ b <= j),
                        Linked(nodes, alike, a, b)
                 PROVE  root2[a] = root2[b]
      OBVIOUS
    <3>1. CASE a = i /\ b = j
      BY <3>1
    <3>2. CASE ~(a = i /\ b = j)
      <4>1. root[a] = root[b]
        BY <1>1, <1>2, <3>2
      <4>2. QED
        BY <4>1
    <3>3. QED
      BY <3>1, <3>2
  <2>4. ASSUME NEW S \in SUBSET D, Closed(nodes, alike, S), NEW y \in D
        PROVE  y \in S <=> root2[y] \in S
    <3>1. \A z \in D : z \in S <=> root[z] \in S
      BY <1>1, <2>4
    <3>2. i \in S <=> j \in S
      BY <1>4, <2>1, <2>4, LinkedBack DEF Closed
    <3>3. root[i] \in S <=> root[j] \in S
      BY <2>1, <3>1, <3>2
    <3>4. QED
      BY <3>1, <3>3 DEF Led
  <2> HIDE DEF root2
  <2>5. Joined(Union(parent, i, j), nodes, alike, i, j)
    BY <2>2, <2>3, <2>4 DEF Joined
  <2>6. QED
    BY <1>4, <2>5
<1>5. QED
  BY <1>3, <1>4

LEMMA UnionIsForest ==
    ASSUME NEW D, NEW parent \in Forests(D), NEW i \in D, NEW j \in D
    PROVE  Union(parent, i, j) \in Forests(D)
<1>1. PICK root, rank : Rooted(parent, root, rank, D)
  BY DEF Forests
<1>2. PICK root2, rank2 : Rooted(Union(parent, i, j), root2, rank2, D)
  BY <1>1, UnionJoins
<1>3. QED
  BY <1>2 DEF Forests, Rooted

\* The inner loop joins node i with each node after it that it is linked to.
IsRow(row, nodes, alike, n, parent, i) ==
    row = [j \in i..n |-> IF j = i THEN parent
                          ELSE IF Linked(nodes, alike, i, j) THEN Union(row[j - 1], i, j)
                          ELSE row[j - 1]]

LEMMA RowJoins ==
    ASSUME NEW nodes, NEW alike, DOMAIN nodes \subseteq Nat, NEW n \in Nat,
           NEW i \in 0..n, NEW parent \in Forests(DOMAIN nodes)
    PROVE  /\ Row(nodes, alike, n, parent, i) \in Forests(DOMAIN nodes)
           /\ Joined(parent, nodes, alike, i, i) =>
                 Joined(Row(nodes, alike, n, parent, i), nodes, alike, i, n)
<1> DEFINE P == Forests(DOMAIN nodes)
           step == [kp \in Nat \X P |-> IF Linked(nodes, alike, i, kp[1])
                                        THEN Union(kp[2], i, kp[1]) ELSE kp[2]]
<1>1. \A k \in Nat : \A p \in P :
        step[<<k, p>>] = IF Linked(nodes, alike, i, k) THEN Union(p, i, k) ELSE p
  OBVIOUS
<1>2. \A k \in Nat : \A p \in P : step[<<k, p>>] \in P
  <2> SUFFICES ASSUME NEW k \in Nat, NEW p \in P PROVE step[<<k, p>>] \in P
    OBVIOUS
  <2>1. Linked(nodes, alike, i, k) => i \in DOMAIN nodes /\ k \in DOMAIN nodes
    BY DEF Linked
  <2> HIDE DEF step
  <2>2. QED
    BY <1>1, <2>1, UnionIsForest
<1> HIDE DEF step, P
<1>3. i \in Nat /\ i <= n /\ parent \in P
  BY DEF P
<1>4. PICK f \in [i..n -> P] : Loops(f, i, n, parent, step)
  <2>1. \A k \in (i + 1)..n : k \in Nat
    BY <1>3
  <2>2. \A k \in (i + 1)..n : \A p \in P : step[<<k, p>>] \in P
    BY <1>2, <2>1, Zenon
  <2>3. QED
    BY <1>3, <2>2, LoopExists
<1>5. IsRow(f, nodes, alike, n, parent, i)
  <2>1. ASSUME NEW k \in i..n, k # i
        PROVE  step[<<k, f[k - 1]>>] = IF Linked(nodes, alike, i, k) THEN Union(f[k - 1], i, k)
                                       ELSE f[k - 1]
    <3>1. k \in Nat /\ k - 1 \in i..n
      BY <1>3, <2>1
    <3>2. QED
      BY <1>1, <3>1
  <2>2. QED
    BY <1>4, <2>1 DEF IsRow, Loops
<1>6. PICK row : IsRow(row, nodes, alike, n, parent, i) /\ Row(nodes, alike, n, parent, i) = row[n]
  <2>1. Row(nodes, alike, n, parent, i) = (CHOOSE g : IsRow(g, nodes, alike, n, parent, i))[n]
    BY DEF Row, IsRow
  <2>2. QED
    BY <1>5, <2>1
<1>7. /\ row[i] = parent
      /\ \A k \in i..n : k # i => row[k] = IF Linked(nodes, alike, i, k)
                                           THEN Union(row[k - 1], i, k) ELSE row[k - 1]
  BY <1>3, <1>6 DEF IsRow
<1> DEFINE N == {d \in Nat : i + d <= n =>
                    /\ row[i + d] \in P
                    /\ Joined(parent, nodes, alike, i, i) => Joined(row[i + d], nodes, alike, i, i + d)}
<1>8. 0 \in N
  <2>1. i + 0 = i
    BY <1>3
  <2>2. QED
    BY <1>3, <1>7, <2>1
<1>9. ASSUME NEW d \in Nat, d \in N PROVE d + 1 \in N
  <2> SUFFICES ASSUME i + (d + 1) <= n
               PROVE  /\ row[i + (d + 1)] \in P
                      /\ Joined(parent, nodes, alike, i, i) =>
                            Joined(row[i + (d + 1)], nodes, alike, i, i + (d + 1))
    OBVIOUS
  <2> DEFINE k == i + (d + 1)
  <2>1. k \in i..n /\ k \in Nat /\ k # i /\ k - 1 = i + d /\ i < k /\ i + d <= n
    BY <1>3
  <2>2. row[k] = IF Linked(nodes, alike, i, k) THEN Union(row[i + d], i, k) ELSE row[i + d]
    BY <1>7, <2>1
  <2>3. row[i + d] \in P /\
           (Joined(parent, nodes, alike, i, i) => Joined(row[i + d], nodes, alike, i, k - 1))
    BY <1>9, <2>1
  <2> HIDE DEF k
  <2>4. Linked(nodes, alike, i, k) => i \in DOMAIN nodes /\ k \in DOMAIN nodes
    BY DEF Linked
  <2>5. row[k] \in P
    BY <2>2, <2>3, <2>4, UnionIsForest DEF P
  <2>6. Joined(parent, nodes, alike, i, i) => Joined(row[k], nodes, alike, i, k)
    BY <1>3, <2>1, <2>2, <2>3, JoinStep
  <2>7. QED
    BY <2>5, <2>6 DEF k
<1> HIDE DEF N
<1>10. \A d \in Nat : d \in N
  BY <1>8, <1>9, Induction
<1>11. n - i \in Nat /\ i + (n - i) = n
  BY <1>3
<1>12. n - i \in N
  BY <1>10, <1>11
<1>13. QED
  BY <1>6, <1>11, <1>12 DEF N, P

\* The outer loop joins every node in turn.
IsForest(forest, nodes, alike, n) ==
    forest = [i \in 0..(n + 1) |-> IF i = 0 THEN [k \in DOMAIN nodes |-> k]
                                   ELSE Row(nodes, alike, n, forest[i - 1], i - 1)]

\* Nothing is joined before the first turn.
LEMMA NothingJoined ==
    ASSUME NEW nodes, NEW alike, DOMAIN nodes \subseteq Nat
    PROVE  /\ [k \in DOMAIN nodes |-> k] \in Forests(DOMAIN nodes)
           /\ Joined([k \in DOMAIN nodes |-> k], nodes, alike, 0, 0)
<1> DEFINE D  == DOMAIN nodes
           id == [k \in D |-> k]
           rank == [k \in D |-> 0]
<1>1. id \in [D -> D] /\ rank \in [D -> Nat] /\ \A y \in D : id[y] = y
  OBVIOUS
<1> HIDE DEF id, rank
<1>2. Rooted(id, id, rank, D)
  BY <1>1 DEF Rooted
<1>3. \A a, b \in D : ~(a < b /\ (a < 0 \/ (a = 0 /\ b <= 0)))
  OBVIOUS
<1>4. Joined(id, nodes, alike, 0, 0)
  BY <1>1, <1>2, <1>3 DEF Joined
<1>5. id \in Forests(D)
  BY <1>1, <1>2 DEF Forests
<1>6. QED
  BY <1>4, <1>5 DEF id

LEMMA ForestJoins ==
    ASSUME NEW nodes, NEW alike, NEW n \in Nat, DOMAIN nodes \subseteq 0..n
    PROVE  Joined(Forest(nodes, alike, n), nodes, alike, n + 1, n + 1)
<1> DEFINE P == Forests(DOMAIN nodes)
           id == [k \in DOMAIN nodes |-> k]
           step == [kp \in (1..(n + 1)) \X P |-> Row(nodes, alike, n, kp[2], kp[1] - 1)]
<1>1. DOMAIN nodes \subseteq Nat
  OBVIOUS
<1>2. id \in P /\ Joined(id, nodes, alike, 0, 0)
  BY <1>1, NothingJoined
<1>3. \A k \in 1..(n + 1) : \A p \in P : step[<<k, p>>] = Row(nodes, alike, n, p, k - 1)
  OBVIOUS
<1>4. \A k \in 1..(n + 1) : \A p \in P : step[<<k, p>>] \in P
  <2> SUFFICES ASSUME NEW k \in 1..(n + 1), NEW p \in P PROVE step[<<k, p>>] \in P
    OBVIOUS
  <2>1. k - 1 \in 0..n
    OBVIOUS
  <2> HIDE DEF step
  <2>2. QED
    BY <1>1, <1>3, <2>1, RowJoins
<1> HIDE DEF step, P, id
<1>5. PICK f \in [0..(n + 1) -> P] : Loops(f, 0, n + 1, id, step)
  <2>1. 0 + 1 = 1 /\ 0 \in Nat /\ n + 1 \in Nat /\ 0 <= n + 1
    OBVIOUS
  <2>2. \A k \in (0 + 1)..(n + 1) : \A p \in P : step[<<k, p>>] \in P
    BY <1>4, <2>1
  <2>3. QED
    BY <1>2, <2>1, <2>2, LoopExists
<1>6. IsForest(f, nodes, alike, n)
  <2>1. ASSUME NEW k \in 0..(n + 1), k # 0
        PROVE  step[<<k, f[k - 1]>>] = Row(nodes, alike, n, f[k - 1], k - 1)
    <3>1. k \in 1..(n + 1) /\ k - 1 \in 0..(n + 1)
      BY <2>1
    <3>2. QED
      BY <1>3, <3>1
  <2>2. QED
    BY <1>5, <2>1 DEF IsForest, Loops, id
<1>7. PICK forest : IsForest(forest, nodes, alike, n) /\ Forest(nodes, alike, n) = forest[n + 1]
  <2>1. Forest(nodes, alike, n) = (CHOOSE g : IsForest(g, nodes, alike, n))[n + 1]
    BY DEF Forest, IsForest
  <2>2. QED
    BY <1>6, <2>1
<1>8. /\ forest[0] = id
      /\ \A k \in 0..(n + 1) : k # 0 => forest[k] = Row(nodes, alike, n, forest[k - 1], k - 1)
  BY <1>7 DEF IsForest, id
<1> DEFINE N == {i \in Nat : i <= n + 1 =>
                    forest[i] \in P /\ Joined(forest[i], nodes, alike, i, i)}
<1>9. 0 \in N
  BY <1>2, <1>8
<1>10. ASSUME NEW i \in Nat, i \in N PROVE i + 1 \in N
  <2> SUFFICES ASSUME i + 1 <= n + 1
               PROVE  forest[i + 1] \in P /\ Joined(forest[i + 1], nodes, alike, i + 1, i + 1)
    OBVIOUS
  <2>1. i \in 0..n /\ i + 1 \in 0..(n + 1) /\ i + 1 # 0 /\ (i + 1) - 1 = i
    OBVIOUS
  <2>2. forest[i + 1] = Row(nodes, alike, n, forest[i], i)
    BY <1>8, <2>1
  <2>3. forest[i] \in P /\ Joined(forest[i], nodes, alike, i, i)
    BY <1>10, <2>1
  <2>4. forest[i + 1] \in P /\ Joined(forest[i + 1], nodes, alike, i, n)
    BY <1>1, <2>1, <2>2, <2>3, RowJoins DEF P
  <2>5. \A a, b \in DOMAIN nodes : a < b /\ (a < i + 1 \/ (a = i + 1 /\ b <= i + 1))
                                   => a < i \/ (a = i /\ b <= n)
    OBVIOUS
  <2>6. Joined(forest[i + 1], nodes, alike, i + 1, i + 1)
    BY <2>4, <2>5 DEF Joined
  <2>7. QED
    BY <2>4, <2>6
<1> HIDE DEF N
<1>11. n + 1 \in N
  BY <1>9, <1>10, Induction
<1>12. QED
  BY <1>7, <1>11 DEF N

\* The candidate's component is the cluster: union-find finds the names that move with the
\* candidate, directly or through others, and no more.
LEMMA MembersAreTheCluster ==
    ASSUME NEW nodes, NEW alike, NEW n \in Nat, DOMAIN nodes \subseteq 0..n, 0 \in DOMAIN nodes
    PROVE  Members(nodes, alike, n) = Cluster(nodes, alike)
<1> DEFINE D == DOMAIN nodes
           parent == Forest(nodes, alike, n)
<1>1. PICK root, rank :
        /\ Rooted(parent, root, rank, D)
        /\ \A a, b \in D : a < b /\ (a < n + 1 \/ (a = n + 1 /\ b <= n + 1))
                           /\ Linked(nodes, alike, a, b) => root[a] = root[b]
        /\ \A S \in SUBSET D : Closed(nodes, alike, S) =>
              \A y \in D : y \in S <=> root[y] \in S
  BY ForestJoins DEF Joined
<1>2. Members(nodes, alike, n) = {k \in D : root[k] = root[0]}
  BY <1>1, FindIsRoot DEF Members
<1>3. Cluster(nodes, alike) =
        {k \in D : \A S \in SUBSET D : 0 \in S /\ Closed(nodes, alike, S) => k \in S}
  BY DEF Cluster, Closed
<1>4. Closed(nodes, alike, {k \in D : root[k] = root[0]})
  <2> SUFFICES ASSUME NEW a \in D, root[a] = root[0], NEW b \in D, Linked(nodes, alike, a, b)
               PROVE  root[b] = root[0]
    BY DEF Closed
  <2>1. CASE a < b
    BY <1>1, <2>1
  <2>2. CASE b < a
    BY <1>1, <2>2, LinkedBack
  <2>3. CASE a = b
    BY <2>3
  <2>4. QED
    BY <2>1, <2>2, <2>3
<1>5. ASSUME NEW k \in D, root[k] = root[0], NEW S \in SUBSET D, 0 \in S, Closed(nodes, alike, S)
      PROVE  k \in S
  BY <1>1, <1>5
<1>6. {k \in D : root[k] = root[0]} \in SUBSET D /\ 0 \in {k \in D : root[k] = root[0]}
  OBVIOUS
<1>7. QED
  BY <1>2, <1>3, <1>4, <1>5, <1>6

\* As many as fit in a room leave it no emptier than nothing.
LEMMA Fitting ==
    ASSUME NEW room \in Int, NEW b \in Nat \ {0}, NEW s \in Int, s <= room \div b
    PROVE  s * b <= room
<1> DEFINE q == room \div b
           r == room % b
<1>1. room = b * q + r /\ r \in 0..(b - 1) /\ q \in Int
  OBVIOUS
<1> HIDE DEF r
<1>2. s <= q
  OBVIOUS
<1> HIDE DEF q
<1>3. \A d \in Int : d >= 0 => b * d >= 0
  OBVIOUS
<1>4. q - s \in Int /\ q - s >= 0 /\ b * q = b * s + b * (q - s)
  BY <1>1, <1>2
<1>5. b * (q - s) >= 0 /\ b * (q - s) \in Int /\ b * s \in Int /\ s * b = b * s
  BY <1>1, <1>3, <1>4
<1>6. QED
  BY <1>1, <1>4, <1>5

\* What evaluate lets through fits, with the candidate's cluster, into its cap.
LEMMA EvaluateFits ==
    ASSUME NEW c, c.shares \in Nat, c.price \in Nat, c.value = c.shares * c.price,
           NEW book, Len(book) \in Nat, DOMAIN book = 1..Len(book),
           \A k \in DOMAIN book : book[k].value \in Int,
           NEW names, NEW alike, NEW e \in Nat, e > 0, NEW peak
    PROVE  LET d == Evaluate(c, book, names, alike, e, peak)
               nodes == Nodes(c, book, names)
           IN  /\ d.shares \in 0..c.shares
               /\ d.shares > 0 /\ c.ticker \in names /\ MaxCluster > 0 =>
                     ~Exceeds(ValueAmong(nodes, Cluster(nodes, alike) \ {0}) + d.shares * c.price,
                              MaxCluster, e)
<1> DEFINE d == Evaluate(c, book, names, alike, e, peak)
           nodes == Nodes(c, book, names)
           C == Cluster(nodes, alike)
           f == [k \in DOMAIN nodes |-> nodes[k].value]
           others == IF c.ticker \in names THEN ValueAmong(nodes, C \ {0}) ELSE 0
           cluster == ClusterValue(c, book, names, alike)
           room == Room(c, cluster, e)
           scaled == room \div (100 * c.price)
           sound == ~Breach(c, book, e, peak)
           crowded == Exceeds(cluster, MaxCluster, e)
           full == room <= 0 \/ c.price <= 0
<1> SUFFICES /\ d.shares \in 0..c.shares
             /\ d.shares > 0 /\ MaxCluster > 0 => ~Exceeds(others + d.shares * c.price, MaxCluster, e)
  OBVIOUS
<1>1. /\ DOMAIN nodes \subseteq 0..Len(book) /\ 0 \in DOMAIN nodes /\ nodes[0] = c
      /\ \A k \in DOMAIN nodes : nodes[k].value \in Int
  <2>1. c.value \in Int
    OBVIOUS
  <2>2. QED
    BY <2>1 DEF Nodes
<1>2. cluster = IF c.ticker \in names THEN SumFunctionOnSet(f, C) ELSE c.value
  BY <1>1, MembersAreTheCluster DEF ClusterValue, ValueAmong
<1>3. C \subseteq DOMAIN nodes /\ 0 \in C /\ IsFiniteSet(C)
  <2>1. C \subseteq DOMAIN nodes /\ 0 \in C
    BY <1>1 DEF Cluster
  <2>2. IsFiniteSet(0..Len(book))
    BY FS_Interval
  <2>3. C \subseteq 0..Len(book)
    BY <1>1, <2>1
  <2>4. QED
    BY <2>1, <2>2, <2>3, FS_Subset
<1> HIDE DEF C
<1>4. cluster = c.value + others /\ others \in Int
  <2>1. \A k \in C : f[k] \in Int
    BY <1>1, <1>3
  <2>2. f[0] = c.value
    BY <1>1
  <2>3. IsFiniteSet(C \ {0}) /\ \A k \in C \ {0} : f[k] \in Int
    BY <1>3, <2>1, FS_Subset
  <2> HIDE DEF f
  <2>4. SumFunctionOnSet(f, C) = f[0] + SumFunctionOnSet(f, C \ {0})
    BY <1>3, <2>1, SumOfOneMore
  <2>5. SumFunctionOnSet(f, C \ {0}) \in Int
    BY <2>3, SumIsInt
  <2>6. others = IF c.ticker \in names THEN SumFunctionOnSet(f, C \ {0}) ELSE 0
    BY DEF ValueAmong, f
  <2>7. c.value \in Int
    OBVIOUS
  <2>8. QED
    BY <1>2, <2>2, <2>4, <2>5, <2>6, <2>7 DEF f
<1> HIDE DEF nodes, others
<1>5. MaxCluster \in Nat /\ MaxCluster * e \in Int
  BY RiskAssumption DEF RiskAssumption
<1>6. c.shares * c.price \in Int
  OBVIOUS
<1>7. room \in Int /\ others * 100 <= MaxCluster * e - room
  <2>1. cluster - c.value = others
    BY <1>4, <1>6
  <2> HIDE DEF cluster
  <2>2. room = MaxCluster * e - (IF others > 0 THEN others * 100 ELSE 0)
    BY <2>1 DEF Room
  <2> HIDE DEF room
  <2>3. QED
    BY <1>4, <1>5, <2>2
<1>8. \/ sound /\ crowded /\ ~full /\ scaled < c.shares /\ d = [action |-> "scale_down", shares |-> scaled]
      \/ d = Veto
      \/ d = Approved(c) /\ (MaxCluster = 0 \/ ~crowded \/ (~full /\ scaled >= c.shares))
  <2> HIDE DEF cluster
  <2>1. d = CASE e <= 0 -> Approved(c)
              [] e > 0 /\ ~(e > 0 /\ sound) -> Veto
              [] (e > 0 /\ sound) /\ (MaxCluster > 0 /\ crowded) /\ full -> Veto
              [] (e > 0 /\ sound) /\ (MaxCluster > 0 /\ crowded) /\ ~full /\ scaled < c.shares ->
                    [action |-> "scale_down", shares |-> scaled]
              [] OTHER -> Approved(c)
    BY DEF Evaluate, cluster
  <2> HIDE DEF d, room, crowded, sound
  <2>2. ~full => scaled \in Int
    BY <1>7 DEF room
  <2> HIDE DEF full, scaled
  <2>3. QED
    BY <1>5, <2>1, <2>2
<1> HIDE DEF d, cluster, room, crowded, sound
<1>9. CASE d = Veto
  BY <1>9 DEF Veto
<1>10. ASSUME ~full PROVE 100 * c.price \in Nat \ {0} /\ scaled \in Int
  BY <1>7, <1>10
<1>11. ASSUME ~full, NEW s \in Int, s <= scaled PROVE (others + s * c.price) * 100 <= MaxCluster * e
  <2>1. s * (100 * c.price) <= room
    BY <1>7, <1>10, <1>11, Fitting
  <2>2. s * c.price \in Int /\ s * (100 * c.price) = (s * c.price) * 100
    BY <1>11
  <2>3. QED
    BY <1>4, <1>5, <1>7, <2>1, <2>2
<1>12. CASE d = Approved(c) /\ (MaxCluster = 0 \/ ~crowded)
  BY <1>4, <1>5, <1>6, <1>12 DEF Approved, Exceeds, crowded
<1>13. CASE d = Approved(c) /\ ~full /\ scaled >= c.shares
  <2>1. (others + c.shares * c.price) * 100 <= MaxCluster * e
    BY <1>10, <1>11, <1>13
  <2>2. QED
    BY <1>4, <1>5, <1>6, <1>13, <2>1 DEF Approved, Exceeds
<1>14. CASE ~full /\ scaled < c.shares /\ d = [action |-> "scale_down", shares |-> scaled]
  <2>1. (others + scaled * c.price) * 100 <= MaxCluster * e
    BY <1>10, <1>11, <1>14
  <2>2. scaled >= 0
    <3>1. room >= 0 /\ 100 * c.price \in Nat \ {0}
      BY <1>7, <1>10, <1>14
    <3>2. \A a \in Int, b \in Nat \ {0} : a >= 0 => a \div b >= 0
      OBVIOUS
    <3>3. QED
      BY <1>7, <3>1, <3>2
  <2>3. QED
    BY <1>4, <1>5, <1>10, <1>14, <2>1, <2>2 DEF Exceeds
<1>15. QED
  BY <1>8, <1>9, <1>12, <1>13, <1>14

---------------------------------------------------------------------------
(* What the gate lets through.                                             *)

\* A gate knows equities the account had, and has decided, if it has, what evaluate says of
\* its candidate.
Decides(p, r, s) ==
    /\ r.peak \in Equities \cup {Unknown}
    /\ r.pc # "idle" => r.equity \in Equities
    /\ p \in Gates /\ r.pc # "idle" => r.candidate \in Candidates
    /\ r.decision.shares \in 0..r.candidate.shares
    /\ r.pc = "decided" =>
          /\ p \in Gates
          /\ r.decision = Evaluate(r.candidate, s.book, r.history, s.alike, r.equity, r.peak)

DecisionInv ==
    /\ equity \in Equities /\ scene \in Scenes
    /\ peakFile \in Equities \cup {Unknown} /\ saved \in Equities \cup {Unknown}
    /\ \A p \in GateProcesses : Decides(p, proc[p], scene)

LEMMA EquitiesArePositive == \A e \in Equities : e \in Nat /\ e > 0
<1>1. Equities \subseteq Nat \ {0}
  BY GateAssumption DEF GateAssumption
<1>2. QED
  BY <1>1

LEMMA CandidatesAreWhole ==
    \A c \in Candidates : c.shares \in Nat /\ c.price \in Nat /\ c.value = c.shares * c.price
  BY GateAssumption DEF GateAssumption

\* One process has gone on, and the account and the files are well.
LEMMA DecidesStep ==
    ASSUME PeakInv, DecisionInv, NEW p \in GateProcesses, NEW r, Decides(p, r, scene),
           proc' = [proc EXCEPT ![p] = r], UNCHANGED <<equity, scene>>,
           peakFile' \in Equities \cup {Unknown}, saved' \in Equities \cup {Unknown}
    PROVE  DecisionInv'
<1>1. \A q \in GateProcesses : proc'[q] = IF q = p THEN r ELSE proc[q]
  BY DEF PeakInv, ProcOK
<1>2. \A q \in GateProcesses : Decides(q, proc'[q], scene)
  BY <1>1 DEF DecisionInv
<1>3. QED
  BY <1>2 DEF DecisionInv

LEMMA IdleDecides == \A p, s : Decides(p, Idle, s)
<1>1. /\ Idle.pc = "idle" /\ Idle.peak = Unknown /\ Idle.decision.shares = 0
      /\ Idle.candidate.shares = 0
  BY DEF Idle, NoDecision, NoCandidate
<1>2. QED
  BY <1>1 DEF Decides

LEMMA DecisionInvInit == GateInit => DecisionInv
<1> SUFFICES ASSUME GateInit PROVE DecisionInv
  OBVIOUS
<1>1. \A p \in GateProcesses : proc[p] = Idle
  BY DEF GateInit
<1>2. QED
  BY <1>1, IdleDecides DEF GateInit, DecisionInv

\* The read of the account, and what evaluate makes of it.
LEMMA DecideStep ==
    ASSUME PeakInv, DecisionInv, NEW p \in GateProcesses, ReadAccount(p) \/ Decide(p)
    PROVE  DecisionInv'
<1>1. /\ Shape(proc[p]) /\ Decides(p, proc[p], scene) /\ scene \in Scenes
      /\ UNCHANGED <<equity, scene, peakFile, saved>> /\ equity \in Equities
      /\ peakFile' \in Equities \cup {Unknown} /\ saved' \in Equities \cup {Unknown}
  BY DEF PeakInv, ProcOK, DecisionInv, ReadAccount, Decide, market
<1>2. CASE ReadAccount(p)
  <2>1. PICK c \in (IF p \in Gates THEN Candidates ELSE {NoCandidate}), h \in scene.histories :
          proc' = [proc EXCEPT ![p] = [Idle EXCEPT
              !.pc = "read", !.equity = equity, !.candidate = c, !.history = h]]
    BY <1>2 DEF ReadAccount
  <2> DEFINE r == [Idle EXCEPT !.pc = "read", !.equity = equity, !.candidate = c, !.history = h]
  <2>2. /\ r.pc = "read" /\ r.equity = equity /\ r.candidate = c
        /\ r.peak = Unknown /\ r.decision.shares = 0
    BY DEF Idle, NoDecision
  <2>3. c.shares \in Nat /\ (p \in Gates => c \in Candidates)
    BY GateAssumption DEF GateAssumption, NoCandidate
  <2> HIDE DEF r
  <2>4. Decides(p, r, scene)
    BY <1>1, <2>2, <2>3 DEF Decides
  <2>5. QED
    BY <1>1, <2>1, <2>4, DecidesStep DEF r
<1>3. CASE Decide(p)
  <2> DEFINE c == proc[p].candidate
             d == Evaluate(c, scene.book, proc[p].history, scene.alike,
                           proc[p].equity, proc[p].peak)
             r == [proc[p] EXCEPT !.pc = "decided", !.decision = d]
  <2>1. proc' = [proc EXCEPT ![p] = r] /\ p \in Gates /\ proc[p].pc = "observed"
    BY <1>3 DEF Decide, At, PeakInv, ProcOK
  <2>2. c \in Candidates /\ proc[p].equity \in Nat /\ proc[p].equity > 0
    BY <1>1, <2>1, GateAssumption DEF Decides, GateAssumption
  <2>3. c.shares \in Nat /\ c.price \in Nat /\ c.value = c.shares * c.price
    BY <2>2, CandidatesAreWhole
  <2>4. /\ Len(scene.book) \in Nat /\ DOMAIN scene.book = 1..Len(scene.book)
        /\ \A k \in DOMAIN scene.book : scene.book[k].value \in Int
    BY <1>1, GateAssumption DEF GateAssumption
  <2> HIDE DEF c
  <2>5. d.shares \in 0..c.shares
    BY <2>2, <2>3, <2>4, EvaluateFits
  <2>6. /\ r.pc = "decided" /\ r.equity = proc[p].equity /\ r.peak = proc[p].peak
        /\ r.candidate = c /\ r.history = proc[p].history /\ r.decision = d
    BY <1>1 DEF Shape, c
  <2> HIDE DEF r, d
  <2>7. Decides(p, r, scene)
    BY <1>1, <2>1, <2>2, <2>5, <2>6 DEF Decides, c, d
  <2>8. QED
    BY <1>1, <2>1, <2>7, DecidesStep
<1>4. QED
  BY <1>2, <1>3

LEMMA DecisionInvStep == PeakInv /\ DecisionInv /\ [GateNext]_gateVars => DecisionInv'
<1> SUFFICES ASSUME PeakInv, DecisionInv, [GateNext]_gateVars PROVE DecisionInv'
  OBVIOUS
<1>1. /\ peakFile \in Equities \cup {Unknown} /\ saved \in Equities \cup {Unknown}
      /\ equity \in Equities /\ scene \in Scenes
  BY DEF DecisionInv
<1>2. ASSUME NEW p \in GateProcesses
      PROVE  /\ Shape(proc[p]) /\ proc[p].peak \in Equities \cup {Unknown}
             /\ proc[p].pc # "idle" => Raised(p) \in Equities \cup {Unknown}
  <2>1. Shape(proc[p]) /\ Decides(p, proc[p], scene)
    BY DEF PeakInv, ProcOK, DecisionInv
  <2>2. QED
    BY <2>1 DEF Decides, Raised
<1>3. ASSUME NEW p \in GateProcesses, NEW r,
             r.pc \in {"loaded", "locked", "release", "observed"},
             r.peak \in Equities \cup {Unknown}, r.equity = proc[p].equity,
             r.candidate = proc[p].candidate, r.decision = proc[p].decision,
             proc[p].pc # "idle"
      PROVE  Decides(p, r, scene)
  <2>1. Decides(p, proc[p], scene)
    BY DEF DecisionInv
  <2>2. QED
    BY <1>3, <2>1 DEF Decides
<1>3a. ASSUME NEW p \in GateProcesses, NEW at \in {"loaded", "locked", "release", "observed"},
             NEW peak \in Equities \cup {Unknown}, proc[p].pc # "idle",
             proc' = [proc EXCEPT ![p] = [proc[p] EXCEPT !.pc = at, !.peak = peak]],
             UNCHANGED <<equity, scene>>,
             peakFile' \in Equities \cup {Unknown}, saved' \in Equities \cup {Unknown}
      PROVE  DecisionInv'
  <2> DEFINE r == [proc[p] EXCEPT !.pc = at, !.peak = peak]
  <2>1. /\ r.pc = at /\ r.peak = peak /\ r.equity = proc[p].equity
        /\ r.candidate = proc[p].candidate /\ r.decision = proc[p].decision
    BY <1>2 DEF Shape
  <2>2. proc' = [proc EXCEPT ![p] = r]
    BY <1>3a
  <2> HIDE DEF r
  <2>3. r.pc \in {"loaded", "locked", "release", "observed"} /\ r.peak \in Equities \cup {Unknown}
    BY <1>3a, <2>1
  <2>4. Decides(p, r, scene)
    BY <1>3, <1>3a, <2>1, <2>3
  <2>5. QED
    BY <1>3a, <2>2, <2>4, DecidesStep
<1>4. ASSUME NEW p \in GateProcesses, LoadDefault(p) PROVE DecisionInv'
  <2> DEFINE known == [proc[p] EXCEPT !.pc = "loaded", !.peak = peakFile, !.since = saved]
             blank == [proc[p] EXCEPT !.pc = "loaded"]
  <2>1. /\ proc[p].pc # "idle" /\ UNCHANGED <<equity, scene, peakFile, saved>>
        /\ proc' = [proc EXCEPT ![p] = known] \/ proc' = [proc EXCEPT ![p] = blank]
    BY <1>4 DEF LoadDefault, Goto, At, market, PeakInv, ProcOK
  <2>2. \A r \in {known, blank} :
           /\ r.pc = "loaded" /\ r.peak \in {peakFile, proc[p].peak}
           /\ r.equity = proc[p].equity
           /\ r.candidate = proc[p].candidate /\ r.decision = proc[p].decision
    BY <1>2 DEF Shape
  <2> HIDE DEF known, blank
  <2>3. \A r \in {known, blank} : r.peak \in Equities \cup {Unknown}
    BY <1>1, <1>2, <2>2
  <2>4. Decides(p, known, scene) /\ Decides(p, blank, scene)
    BY <1>3, <2>1, <2>2, <2>3
  <2>5. QED
    BY <1>1, <2>1, <2>4, DecidesStep
<1>5. ASSUME NEW p \in GateProcesses, Lock(p) PROVE DecisionInv'
  <2>1. proc[p].pc # "idle" /\ UNCHANGED <<equity, scene, peakFile, saved>> /\ Enter(p)
    BY <1>5 DEF Lock, At, market
  <2>2. PICK r : /\ proc' = [proc EXCEPT ![p] = r] /\ r.pc = "locked"
                 /\ r.equity = proc[p].equity /\ r.peak \in {proc[p].peak, peakFile}
                 /\ r.candidate = proc[p].candidate /\ r.decision = proc[p].decision
    BY <2>1, EnterReads
  <2>3. r.peak \in Equities \cup {Unknown}
    BY <1>1, <1>2, <2>2
  <2>4. Decides(p, r, scene)
    BY <1>3, <2>1, <2>2, <2>3
  <2>5. QED
    BY <1>1, <2>1, <2>2, <2>4, DecidesStep
<1>6. ASSUME NEW p \in GateProcesses, LockFails(p) PROVE DecisionInv'
  <2>1. /\ proc[p].pc # "idle" /\ UNCHANGED <<equity, scene, peakFile, saved>>
        /\ proc' = [proc EXCEPT ![p] = [proc[p] EXCEPT !.pc = "observed", !.peak = Raised(p)]]
    BY <1>6 DEF LockFails, FallbackPeak, At, market, PeakInv, ProcOK
  <2>2. QED
    BY <1>1, <1>2, <1>3a, <2>1
<1>7. ASSUME NEW p \in GateProcesses, Observe(p) PROVE DecisionInv'
  <2>1. /\ proc[p].pc # "idle" /\ UNCHANGED <<equity, scene>>
        /\ proc' = [proc EXCEPT ![p] = [proc[p] EXCEPT !.pc = "release", !.peak = Raised(p)]]
    BY <1>7 DEF Observe, At, market, PeakInv, ProcOK
  <2>2. Decides(p, proc[p], scene)
    BY DEF DecisionInv
  <2>3. peakFile' \in Equities \cup {Unknown} /\ saved' \in Equities \cup {Unknown}
    BY <1>1, <1>7, <2>1, <2>2 DEF Observe, Decides
  <2>4. QED
    BY <1>2, <1>3a, <2>1, <2>3
<1>8. ASSUME NEW p \in GateProcesses, Release(p) PROVE DecisionInv'
  <2>1. /\ proc[p].pc # "idle" /\ UNCHANGED <<equity, scene, peakFile, saved>>
        /\ proc' = [proc EXCEPT ![p] = [proc[p] EXCEPT !.pc = "observed", !.peak = proc[p].peak]]
    BY <1>2, <1>8 DEF Release, Goto, At, market, PeakInv, ProcOK, Shape
  <2>2. QED
    BY <1>1, <1>2, <1>3a, <2>1
<1>9. ASSUME NEW p \in GateProcesses, GateReturn(p) \/ GateDie(p) PROVE DecisionInv'
  <2>1. proc' = [proc EXCEPT ![p] = Idle] /\ UNCHANGED <<equity, scene, peakFile, saved>>
    BY <1>9 DEF GateReturn, GateDie, market
  <2>2. QED
    BY <1>1, <2>1, IdleDecides, DecidesStep
<1>10. CASE Move \/ UNCHANGED gateVars
  BY <1>10 DEF Move, gateVars, DecisionInv, Decides
<1>11. QED
  BY <1>4, <1>5, <1>6, <1>7, <1>8, <1>9, <1>10, DecideStep DEF GateNext, ProcessStep

\* The shares that a gate lets through keep the candidate's cluster under its cap, in
\* whatever order the holdings come and the correlations chain, and are no more than were
\* proposed; only the holder of the lock works on the file.
THEOREM DecisionsAreSoundHolds == GateSpec => []DecisionsAreSound
<1>1. PeakInv /\ DecisionInv => DecisionsAreSound
  <2> SUFFICES ASSUME PeakInv, DecisionInv PROVE DecisionsAreSound
    OBVIOUS
  <2>1. GateTypeOK
    BY DEF GateTypeOK, PeakInv, LockOK, DecisionInv, Decides
  <2>2. EntriesFitTheCluster
    <3> SUFFICES ASSUME NEW p \in Gates, At(p, "decided"), proc[p].decision.shares > 0,
                        proc[p].candidate.ticker \in proc[p].history, MaxCluster > 0
                 PROVE  ~Exceeds(ValueAmong(Nodes(proc[p].candidate, scene.book, proc[p].history),
                                            Cluster(Nodes(proc[p].candidate, scene.book,
                                                          proc[p].history), scene.alike) \ {0})
                                    + proc[p].decision.shares * proc[p].candidate.price,
                                 MaxCluster, proc[p].equity)
      BY DEF EntriesFitTheCluster
    <3> DEFINE c == proc[p].candidate
    <3>1. Decides(p, proc[p], scene) /\ proc[p].pc = "decided" /\ scene \in Scenes
      BY DEF DecisionInv, At, GateProcesses
    <3>2. /\ c \in Candidates /\ proc[p].equity \in Nat /\ proc[p].equity > 0
          /\ proc[p].decision = Evaluate(c, scene.book, proc[p].history, scene.alike,
                                         proc[p].equity, proc[p].peak)
      <4>1. /\ c \in Candidates /\ proc[p].equity \in Equities
            /\ proc[p].decision = Evaluate(c, scene.book, proc[p].history, scene.alike,
                                           proc[p].equity, proc[p].peak)
        BY <3>1 DEF Decides
      <4>2. QED
        BY <4>1, EquitiesArePositive
    <3>3. c.shares \in Nat /\ c.price \in Nat /\ c.value = c.shares * c.price
      BY <3>2, CandidatesAreWhole
    <3>4. /\ Len(scene.book) \in Nat /\ DOMAIN scene.book = 1..Len(scene.book)
          /\ \A k \in DOMAIN scene.book : scene.book[k].value \in Int
      BY <3>1, GateAssumption DEF GateAssumption
    <3> HIDE DEF c
    <3>5. QED
      BY <3>2, <3>3, <3>4, EvaluateFits DEF c
  <2>3. QED
    BY <2>1, <2>2 DEF DecisionsAreSound
<1>2. QED
  BY <1>1, PeakInvInit, PeakInvStep, DecisionInvInit, DecisionInvStep, PTL DEF GateSpec

---------------------------------------------------------------------------
(* Both.                                                                   *)

\* What the two watch together is a behaviour of each.
THEOREM EachFileIsKept == SharedSpec => Spec /\ GateSpec
<1>1. SharedInit => Init /\ GateInit
  BY DEF SharedInit
<1>2. [SharedNext]_sharedVars => [Next]_vars /\ [GateNext]_gateVars
  BY DEF SharedNext, sharedVars, vars, gateVars
<1>3. QED
  BY <1>1, <1>2, PTL DEF SharedSpec, Spec, GateSpec

\* What restrains entries, of the breaker, of the peak and of the cluster, in the
\* specification that the runs check.
THEOREM EntriesAreRestrained ==
    SharedSpec => /\ [](BreakerIsExact /\ HaltLetsOneEntryThrough /\ TripReportedOnce)
                  /\ [](PeakRestrains /\ DecisionsAreSound) /\ HaltEndsInResume
  BY EachFileIsKept, BreakerIsExactHolds, OneEntryAfterHalt, TripReportedOnceHolds,
     PeakRestrainsHolds, DecisionsAreSoundHolds, HaltEndsInResumeHolds, PTL
===============================================================================
