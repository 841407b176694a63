---------------------------- MODULE EntryGateProofs ----------------------------
(***************************************************************************)
(* The limits on new entries, for any number of tickers, any limits and    *)
(* any budget of faults.                                                   *)
(*                                                                         *)
(* GateInv is the inductive invariant.  PositionLimit and DailyLimit relate *)
(* what the executor counted when it approved a plan to what the account   *)
(* and the history hold later: Fresh and Approved carry the counts from    *)
(* the check to the submit, Covered relates the account to the records,    *)
(* Counted the history to the day's counter.                               *)
(***************************************************************************)
EXTENDS EntryGate, FiniteSetTheorems, TLAPS

\* Whatever the broker has is in an open record, is being recorded, or is a stray.
Covered ==
    behind \/ \A t \in Tickers :
        account[t] # "flat" =>
            t \in OpenIn(mem) \/ t \in stray \/ (pc = "track" /\ plan = t)

\* The day's counter has seen every entry of the day, and later days have none.
Counted ==
    /\ \A d \in Days : d > day => mem.entries[d] = 0 /\ added[d] = 0
    /\ behind \/ added[day] <= mem.entries[day]

\* What was checked of the day still holds when the entry is recorded ...
Approved == pc \in {"submit", "track"} => mem.entries[day] < MaxTrades

\* ... and what was checked of the records still holds when it is submitted.
Fresh ==
    pc = "submit" =>
        plan \notin OpenIn(mem) /\ Cardinality(holdings \cup OpenIn(mem)) < MaxPositions

GateInv == TypeOK /\ Covered /\ Counted /\ Approved /\ Fresh /\ DailyLimit

---------------------------------------------------------------------------
(* The records.                                                            *)

\* A set of tickers is finite, and a part of it is no larger.
LEMMA TickerSets ==
    ASSUME NEW S \in SUBSET Tickers, NEW T \in SUBSET S
    PROVE  /\ IsFiniteSet(S) /\ Cardinality(S) \in Nat
           /\ IsFiniteSet(T) /\ Cardinality(T) \in Nat
           /\ Cardinality(T) <= Cardinality(S)
<1>1. IsFiniteSet(S)
  BY TickersAssumption, FS_Subset DEF TickersAssumption
<1>2. IsFiniteSet(T) /\ Cardinality(T) <= Cardinality(S)
  BY <1>1, FS_Subset
<1>3. QED
  BY <1>1, <1>2, FS_CardinalityType

\* Marking a record changes its status and nothing else.
LEMMA Marked ==
    ASSUME NEW book \in Book, NEW t \in Tickers, NEW s \in Statuses
    PROVE  /\ Mark(book, t, s) \in Book
           /\ Mark(book, t, s).status = [book.status EXCEPT ![t] = s]
           /\ Mark(book, t, s).opened = book.opened
           /\ Mark(book, t, s).entries = book.entries
  BY DEF Mark, Book

\* A restart keeps the open records and counts no fewer entries of the day.
LEMMA LoadedBook ==
    ASSUME NEW book \in Book, day \in Days
    PROVE  /\ Loaded(book) \in Book
           /\ OpenIn(Loaded(book)) = OpenIn(book)
           /\ Loaded(book).entries[day] >= book.entries[day]
           /\ \A d \in Days : d > day => Loaded(book).entries[d] = 0
<1> DEFINE kept  == {t \in Tickers : book.status[t] # "closed" \/ book.opened[t] = day}
           today == {t \in kept : book.status[t] # "none" /\ book.opened[t] = day}
           count == IF book.entries[day] < Cardinality(today)
                    THEN Cardinality(today) ELSE book.entries[day]
           status == [t \in Tickers |-> IF t \in kept THEN book.status[t] ELSE "none"]
           entries == [d \in Days |-> IF d = day THEN count ELSE 0]
<1>1. Loaded(book) = [status |-> status, opened |-> book.opened, entries |-> entries]
  BY DEF Loaded
<1>2. Cardinality(today) \in Nat
  <2>1. today \in SUBSET Tickers
    OBVIOUS
  <2>2. QED
    BY <2>1, TickerSets
<1>3. book.entries \in [Days -> Nat] /\ book.status \in [Tickers -> Statuses]
      /\ book.opened \in [Tickers -> Days]
  BY DEF Book
<1>4. count \in Nat /\ count >= book.entries[day]
  BY <1>2, <1>3
<1>5. entries \in [Days -> Nat] /\ entries[day] = count
      /\ \A d \in Days : d > day => entries[d] = 0
  <2> HIDE DEF count
  <2>1. QED
    BY <1>4 DEF Days
<1>6. status \in [Tickers -> Statuses]
  BY <1>3 DEF Statuses
<1>7. \A t \in Tickers : status[t] \in {"pending_fill", "active"}
                         <=> book.status[t] \in {"pending_fill", "active"}
  BY <1>3
<1> HIDE DEF status, entries, count
<1>8. QED
  BY <1>1, <1>3, <1>4, <1>5, <1>6, <1>7 DEF Book, OpenIn

\* What no record covers, unless the broker is done with it, is a stray.
LEMMA Strays ==
    ASSUME NEW more, Straying(more), NEW t \in Tickers, account'[t] # "flat",
           t \in stray \cup more
    PROVE  t \in stray'
  BY DEF Straying

---------------------------------------------------------------------------
(* The invariant.                                                          *)

LEMMA GateInvInit == Init => GateInv
<1> SUFFICES ASSUME Init PROVE GateInv
  OBVIOUS
<1>1. Empty \in Book /\ \A d \in Days : Empty.entries[d] = 0
  BY LimitsAssumption DEF Empty, Book, Statuses, Days, LimitsAssumption
<1>2. TypeOK
  <2>1. day \in Days /\ faults \in Nat /\ added \in [Days -> Nat]
    BY LimitsAssumption DEF Init, Days, LimitsAssumption
  <2>2. account \in [Tickers -> Accounts] /\ holdings \subseteq Tickers /\ stray \subseteq Tickers
    BY DEF Init, Accounts
  <2>3. mem \in Book /\ disk \in Book
    BY <1>1 DEF Init
  <2>4. QED
    BY <2>1, <2>2, <2>3 DEF Init, TypeOK
<1>3. Covered /\ Counted /\ Approved /\ Fresh /\ DailyLimit
  BY <1>1, LimitsAssumption
  DEF Init, Covered, Counted, Approved, Fresh, DailyLimit, Days, LimitsAssumption
<1>4. QED
  BY <1>2, <1>3 DEF GateInv

\* The monitor thread at a ticker with an open record: it stays open or is closed.
Noticed(t, s) ==
    /\ t \in OpenIn(mem) /\ mem' = Mark(mem, t, s)
    /\ disk' \in {disk, mem'} /\ faults' \in Nat
    /\ account' \in [Tickers -> Accounts] /\ stray' \subseteq Tickers
    /\ UNCHANGED <<day, executor, behind, added>>

LEMMA NoticedKeeps ==
    ASSUME GateInv, NEW t \in Tickers, NEW s \in Statuses, Noticed(t, s)
    PROVE  TypeOK' /\ Counted' /\ Approved' /\ Fresh' /\ DailyLimit'
<1>1. mem' \in Book /\ mem'.status = [mem.status EXCEPT ![t] = s] /\ mem'.entries = mem.entries
  BY Marked DEF GateInv, TypeOK, Noticed
<1>2. TypeOK'
  BY <1>1 DEF GateInv, TypeOK, Noticed, executor
<1>3. Counted' /\ Approved' /\ DailyLimit'
  BY <1>1 DEF GateInv, TypeOK, Noticed, Counted, Approved, DailyLimit, executor
<1>4. OpenIn(mem') \subseteq OpenIn(mem)
  BY <1>1 DEF OpenIn, GateInv, TypeOK, Book, Noticed
<1>5. Fresh'
  <2>1. SUFFICES ASSUME pc = "submit"
                 PROVE  plan \notin OpenIn(mem')
                        /\ Cardinality(holdings \cup OpenIn(mem')) < MaxPositions
    BY DEF Fresh, Noticed, executor
  <2>2. /\ holdings \cup OpenIn(mem) \in SUBSET Tickers
        /\ holdings \cup OpenIn(mem') \in SUBSET (holdings \cup OpenIn(mem))
    BY <1>4 DEF GateInv, TypeOK, OpenIn
  <2>3. Cardinality(holdings \cup OpenIn(mem')) <= Cardinality(holdings \cup OpenIn(mem))
        /\ Cardinality(holdings \cup OpenIn(mem')) \in Nat
        /\ Cardinality(holdings \cup OpenIn(mem)) \in Nat
    BY <2>2, TickerSets
  <2>4. QED
    BY <2>1, <2>3, <1>4, LimitsAssumption DEF GateInv, Fresh, LimitsAssumption
<1>6. QED
  BY <1>2, <1>3, <1>5

LEMMA NoticeFillStep ==
    ASSUME GateInv, NEW t \in Tickers, NoticeFill(t)
    PROVE  GateInv'
<1>1. Noticed(t, "active")
  <2>1. account' \in [Tickers -> Accounts]
    BY DEF NoticeFill, Become, Cancelled, Accounts, GateInv, TypeOK
  <2>2. stray' \subseteq Tickers /\ faults' \in Nat
    BY DEF NoticeFill, Straying, Commit, Fault, GateInv, TypeOK
  <2>3. QED
    BY <2>1, <2>2 DEF NoticeFill, Noticed, Commit, OpenIn
<1>2. OpenIn(mem') = OpenIn(mem)
  <2>1. mem'.status = [mem.status EXCEPT ![t] = "active"] /\ t \in OpenIn(mem)
    BY <1>1, Marked DEF Noticed, GateInv, TypeOK, Statuses
  <2>2. mem.status \in [Tickers -> Statuses]
    BY DEF GateInv, TypeOK, Book
  <2>3. QED
    BY <2>1, <2>2 DEF OpenIn
<1>3. Covered'
  <2>1. SUFFICES ASSUME ~behind', NEW u \in Tickers, account'[u] # "flat"
                 PROVE  u \in OpenIn(mem') \/ u \in stray' \/ (pc' = "track" /\ plan' = u)
    BY DEF Covered
  <2>2. u # t => account[u] # "flat"
    BY <2>1 DEF NoticeFill, Become, GateInv, TypeOK
  <2>3. Straying({})
    BY DEF NoticeFill
  <2>4. QED
    BY <1>1, <1>2, <2>1, <2>2, <2>3, Strays DEF Noticed, executor, GateInv, Covered
<1>4. QED
  BY <1>1, <1>3, NoticedKeeps DEF GateInv, Statuses

\* A record that closes leaves what the broker still has as a stray.
LEMMA NoticeClosedStep ==
    ASSUME GateInv, NEW t \in Tickers, NoticeDead(t) \/ NoticeSold(t)
    PROVE  GateInv'
<1>1. Noticed(t, "closed")
  <2>1. stray' \subseteq Tickers /\ faults' \in Nat /\ account' = account
    BY DEF NoticeDead, NoticeSold, Straying, Commit, Fault, GateInv, TypeOK
  <2>2. QED
    BY <2>1 DEF NoticeDead, NoticeSold, Noticed, Commit, OpenIn, GateInv, TypeOK
<1>2. \A u \in Tickers : u # t /\ u \in OpenIn(mem) => u \in OpenIn(mem')
  <2>1. mem'.status = [mem.status EXCEPT ![t] = "closed"]
    BY <1>1, Marked DEF Noticed, GateInv, TypeOK, Statuses
  <2>2. mem.status \in [Tickers -> Statuses]
    BY DEF GateInv, TypeOK, Book
  <2>3. QED
    BY <2>1, <2>2 DEF OpenIn
<1>3. Covered'
  <2>1. SUFFICES ASSUME ~behind', NEW u \in Tickers, account'[u] # "flat"
                 PROVE  u \in OpenIn(mem') \/ u \in stray' \/ (pc' = "track" /\ plan' = u)
    BY DEF Covered
  <2>2. Straying({t}) /\ account' = account
    BY DEF NoticeDead, NoticeSold
  <2>3. CASE u = t
    BY <2>1, <2>2, <2>3, Strays
  <2>4. CASE u # t
    BY <1>1, <1>2, <2>1, <2>2, <2>4, Strays DEF Noticed, executor, GateInv, Covered
  <2>5. QED
    BY <2>3, <2>4
<1>4. QED
  BY <1>1, <1>3, NoticedKeeps DEF GateInv, Statuses

\* The broker: what it has changes for a ticker for which it had something.
LEMMA BrokerStep ==
    ASSUME GateInv, NEW t \in Tickers, Buy(t) \/ Expire(t) \/ Sell(t)
    PROVE  GateInv'
<1>1. /\ account[t] # "flat"
      /\ \E what \in Accounts : account' = [account EXCEPT ![t] = what]
  BY DEF Buy, Expire, Sell, Become, Cancelled, HasShares, Accounts
<1>2. UNCHANGED <<day, tracker, executor, faults, behind, added>>
  BY DEF Buy, Expire, Sell, history
<1>3. stray' = stray \/ Straying({})
  BY DEF Buy, Expire, Sell, history
<1>4. TypeOK'
  <2>1. stray' \subseteq Tickers
    BY <1>3 DEF Straying, GateInv, TypeOK
  <2>2. QED
    BY <1>1, <1>2, <2>1 DEF GateInv, TypeOK, tracker, executor
<1>5. Covered'
  <2>1. SUFFICES ASSUME ~behind', NEW u \in Tickers, account'[u] # "flat"
                 PROVE  u \in OpenIn(mem') \/ u \in stray' \/ (pc' = "track" /\ plan' = u)
    BY DEF Covered
  <2>2. account[u] # "flat"
    BY <1>1, <2>1 DEF GateInv, TypeOK
  <2>3. u \in stray => u \in stray'
    BY <1>3, <2>1, Strays
  <2>4. QED
    BY <1>2, <2>1, <2>2, <2>3 DEF tracker, executor, GateInv, Covered
<1>6. Counted' /\ Approved' /\ Fresh' /\ DailyLimit'
  BY <1>2 DEF tracker, executor, GateInv, Counted, Approved, Fresh, DailyLimit
<1>7. QED
  BY <1>4, <1>5, <1>6 DEF GateInv

\* The executor, a plan at a time.  Its steps before the submit leave the account, the
\* records and the history alone.
LEMMA BeforeSubmit ==
    ASSUME GateInv, ReadPortfolio \/ Refuse \/ Approve
    PROVE  GateInv'
<1>1. UNCHANGED <<day, account, tracker, faults, history>> /\ pc' # "track" /\ pc # "track"
  BY DEF ReadPortfolio, Refuse, Approve, Return
<1>2. TypeOK'
  BY <1>1, TickersAssumption
  DEF GateInv, TypeOK, ReadPortfolio, Refuse, Approve, Return, tracker, history, TickersAssumption
<1>3. Covered' /\ Counted' /\ DailyLimit'
  BY <1>1 DEF GateInv, Covered, Counted, DailyLimit, tracker, history
<1>4. CASE ReadPortfolio \/ Refuse
  BY <1>1, <1>2, <1>3, <1>4 DEF ReadPortfolio, Refuse, Return, GateInv, Approved, Fresh
<1>5. CASE Approve
  <2>1. Approved'
    BY <1>1, <1>5 DEF Approve, TradesToday, Approved, tracker
  <2>2. holdings \in SUBSET Tickers /\ OpenIn(mem) \in SUBSET Tickers
    BY DEF GateInv, TypeOK, OpenIn
  <2>3. Cardinality(holdings \cup OpenIn(mem))
          = Cardinality(holdings) + Cardinality(OpenIn(mem) \ holdings)
    <3>1. IsFiniteSet(holdings) /\ IsFiniteSet(OpenIn(mem) \ holdings)
      BY <2>2, TickerSets
    <3>2. holdings \cap (OpenIn(mem) \ holdings) = {}
      OBVIOUS
    <3>3. holdings \cup (OpenIn(mem) \ holdings) = holdings \cup OpenIn(mem)
      OBVIOUS
    <3>4. Cardinality(holdings) \in Nat /\ Cardinality(OpenIn(mem) \ holdings) \in Nat
      BY <3>1, FS_CardinalityType
    <3>5. Cardinality(holdings \cup (OpenIn(mem) \ holdings))
            = Cardinality(holdings) + Cardinality(OpenIn(mem) \ holdings) - Cardinality({})
      BY <3>1, <3>2, FS_Union
    <3>6. QED
      BY <3>3, <3>4, <3>5, FS_EmptySet
  <2>4. Fresh'
    BY <1>1, <1>5, <2>3 DEF Approve, PositionCount, HasOpen, Fresh, tracker
  <2>5. QED
    BY <1>2, <1>3, <2>1, <2>4 DEF GateInv
<1>6. QED
  BY <1>4, <1>5

\* What the entry makes of the account changes for the ticker of the plan only.
LEMMA PlanOnly ==
    ASSUME GateInv, NEW what \in Accounts, Become(plan, what), plan \in Tickers
    PROVE  /\ account' \in [Tickers -> Accounts]
           /\ \A t \in Tickers : t # plan => account'[t] = account[t]
  BY DEF GateInv, TypeOK, Become

LEMMA SubmitStep ==
    ASSUME GateInv, Submit
    PROVE  GateInv'
<1>1. UNCHANGED <<day, tracker, behind, added>> /\ holdings' = {} /\ plan \in Tickers
  BY DEF Submit, GateInv, TypeOK
<1>2. Entered => /\ account' \in [Tickers -> Accounts]
                 /\ \A t \in Tickers : t # plan => account'[t] = account[t]
  BY <1>1, PlanOnly DEF Entered, Accounts
<1>3. stray' \subseteq Tickers /\ faults' \in Nat
  BY <1>1 DEF Submit, Straying, Fault, GateInv, TypeOK
<1>4. account' \in [Tickers -> Accounts]
  BY <1>2 DEF Submit, GateInv, TypeOK
<1>5. TypeOK'
  BY <1>1, <1>3, <1>4, TickersAssumption
  DEF GateInv, TypeOK, Submit, Return, tracker, TickersAssumption
<1>6. Counted' /\ Approved' /\ Fresh' /\ DailyLimit'
  BY <1>1 DEF Submit, Return, tracker, GateInv, Counted, Approved, Fresh, DailyLimit
<1>7. Covered'
  <2>1. SUFFICES ASSUME ~behind', NEW u \in Tickers, account'[u] # "flat"
                 PROVE  u \in OpenIn(mem') \/ u \in stray' \/ (pc' = "track" /\ plan' = u)
    BY DEF Covered
  <2>2. account[u] # "flat" => u \in OpenIn(mem) \/ u \in stray
    BY <1>1, <2>1 DEF GateInv, Covered, Submit
  <2>3. CASE Entered /\ pc' = "track" /\ UNCHANGED <<plan, faults, stray>>
    BY <1>1, <1>2, <2>1, <2>2, <2>3 DEF tracker
  <2>4. CASE UNCHANGED <<account, faults, stray>>
    BY <1>1, <2>1, <2>2, <2>4 DEF tracker
  <2>5. CASE Entered /\ Straying({plan})
    BY <1>1, <1>2, <2>1, <2>2, <2>5, Strays DEF tracker
  <2>6. QED
    BY <2>3, <2>4, <2>5 DEF Submit
<1>8. QED
  BY <1>5, <1>6, <1>7 DEF GateInv

LEMMA TrackStep ==
    ASSUME GateInv, Track
    PROVE  GateInv'
<1> DEFINE m == Mark(mem, plan, "pending_fill")
<1>1. plan \in Tickers /\ day \in Days /\ mem \in Book /\ added \in [Days -> Nat]
  BY DEF Track, GateInv, TypeOK
<1>2. m \in Book /\ m.status = [mem.status EXCEPT ![plan] = "pending_fill"]
      /\ m.entries = mem.entries
  BY <1>1, Marked DEF Statuses
<1>3. mem' = [m EXCEPT !.opened[plan] = day, !.entries[day] = @ + 1]
  BY DEF Track, Commit
<1> HIDE DEF m
<1>4. /\ mem' \in Book
      /\ mem'.status = [mem.status EXCEPT ![plan] = "pending_fill"]
      /\ mem'.entries = [mem.entries EXCEPT ![day] = @ + 1]
  <2>1. m = [status |-> m.status, opened |-> m.opened, entries |-> m.entries]
        /\ m.status \in [Tickers -> Statuses] /\ m.opened \in [Tickers -> Days]
        /\ m.entries \in [Days -> Nat]
    BY <1>2 DEF Book
  <2>2. mem' = [status |-> m.status, opened |-> [m.opened EXCEPT ![plan] = day],
                entries |-> [m.entries EXCEPT ![day] = @ + 1]]
    BY <1>3, <2>1
  <2>3. QED
    BY <1>1, <1>2, <2>1, <2>2 DEF Book
<1>5. TypeOK'
  <2>1. disk' \in {disk, mem'} /\ faults' \in Nat
    BY DEF Track, Commit, Fault, GateInv, TypeOK
  <2>2. added' \in [Days -> Nat]
    BY <1>1 DEF Track
  <2>3. QED
    BY <1>4, <2>1, <2>2, TickersAssumption DEF Track, Return, GateInv, TypeOK, TickersAssumption
<1>6. Counted' /\ DailyLimit'
  <2>1. /\ added' = [added EXCEPT ![day] = @ + 1] /\ day' = day /\ behind' = behind
        /\ mem.entries[day] < MaxTrades /\ mem.entries \in [Days -> Nat]
    BY <1>1 DEF Track, GateInv, Approved, Book
  <2>2. Counted'
    <3>1. \A d \in Days : d > day => mem'.entries[d] = mem.entries[d] /\ added'[d] = added[d]
      BY <1>1, <1>4, <2>1, LimitsAssumption, SMTT(30) DEF Days, LimitsAssumption
    <3>2. mem'.entries[day] = mem.entries[day] + 1 /\ added'[day] = added[day] + 1
      BY <1>1, <1>4, <2>1
    <3>3. QED
      BY <1>1, <2>1, <3>1, <3>2 DEF GateInv, Counted
  <2>3. DailyLimit'
    BY <1>1, <2>1, LimitsAssumption DEF GateInv, Counted, DailyLimit, Days, LimitsAssumption
  <2>4. QED
    BY <2>2, <2>3
<1>7. Covered'
  <2>1. \A u \in Tickers : u \in OpenIn(mem) \/ u = plan => u \in OpenIn(mem')
    <3>1. mem.status \in [Tickers -> Statuses]
      BY <1>1 DEF Book
    <3>2. QED
      BY <1>4, <3>1 DEF OpenIn
  <2>2. QED
    BY <2>1 DEF Track, GateInv, Covered
<1>8. Approved' /\ Fresh'
  BY DEF Track, Return, Approved, Fresh
<1>9. QED
  BY <1>5, <1>6, <1>7, <1>8 DEF GateInv

LEMMA TrackFailsStep ==
    ASSUME GateInv, TrackFails
    PROVE  GateInv'
<1>1. UNCHANGED <<day, tracker, holdings, behind, added>> /\ plan \in Tickers
  BY DEF TrackFails, GateInv, TypeOK
<1>2. Cancelled(plan) \in Accounts
  BY <1>1 DEF Cancelled, Accounts, GateInv, TypeOK
<1>3. /\ account' \in [Tickers -> Accounts]
      /\ \A t \in Tickers : t # plan => account'[t] = account[t]
  BY <1>1, <1>2, PlanOnly DEF TrackFails, GateInv, TypeOK
<1>4. TypeOK'
  <2>1. stray' \subseteq Tickers /\ faults' \in Nat
    BY <1>1 DEF TrackFails, Straying, Fault, GateInv, TypeOK
  <2>2. QED
    BY <1>1, <1>3, <2>1, TickersAssumption
    DEF TrackFails, Return, tracker, GateInv, TypeOK, TickersAssumption
<1>5. Covered'
  BY <1>1, <1>3, Strays DEF TrackFails, tracker, GateInv, Covered
<1>6. Counted' /\ Approved' /\ Fresh' /\ DailyLimit'
  BY <1>1 DEF TrackFails, Return, tracker, GateInv, Counted, Approved, Fresh, DailyLimit
<1>7. QED
  BY <1>4, <1>5, <1>6 DEF GateInv

LEMMA MidnightStep ==
    ASSUME GateInv, Midnight
    PROVE  GateInv'
<1>1. /\ day \in Days /\ day' = day + 1 /\ day' \in Days
      /\ UNCHANGED <<account, tracker, executor, faults, history>>
  BY LimitsAssumption DEF Midnight, GateInv, TypeOK, Days, LimitsAssumption
<1>2. TypeOK'
  BY <1>1 DEF tracker, executor, history, GateInv, TypeOK
<1>3. mem.entries[day'] = 0 /\ added[day'] = 0
  BY <1>1 DEF GateInv, Counted, Days
<1>4. Counted'
  BY <1>1, <1>3 DEF tracker, history, GateInv, Counted, Days
<1>5. Approved'
  <2>1. mem.entries[day] \in Nat
    BY <1>1 DEF GateInv, TypeOK, Book
  <2>2. QED
    BY <1>1, <1>3, <2>1, LimitsAssumption
    DEF tracker, executor, GateInv, Approved, LimitsAssumption
<1>6. Covered' /\ Fresh' /\ DailyLimit'
  BY <1>1 DEF tracker, executor, history, GateInv, Covered, Fresh, DailyLimit
<1>7. QED
  BY <1>2, <1>4, <1>5, <1>6 DEF GateInv

\* A restart finds the records of the store; unless it had fallen behind they are those
\* of the process that died.
LEMMA CrashStep ==
    ASSUME GateInv, Crash
    PROVE  GateInv'
<1>1. /\ day \in Days /\ disk \in Book /\ mem' = Loaded(disk)
      /\ UNCHANGED <<day, disk, added, account>>
      /\ pc' = "idle" /\ plan' = NoTicker /\ holdings' = {}
      /\ behind' = (behind \/ disk # mem)
  BY DEF Crash, Return, GateInv, TypeOK
<1>2. /\ mem' \in Book /\ OpenIn(mem') = OpenIn(disk)
      /\ mem'.entries[day] >= disk.entries[day]
      /\ \A d \in Days : d > day => mem'.entries[d] = 0
  BY <1>1, LoadedBook
<1>3. TypeOK'
  <2>1. faults' \in Nat /\ stray' \subseteq Tickers
    BY DEF Crash, Fault, Straying, GateInv, TypeOK
  <2>2. behind' \in BOOLEAN
    BY <1>1
  <2>3. QED
    BY <1>1, <1>2, <2>1, <2>2 DEF GateInv, TypeOK
<1>4. ~behind' => ~behind /\ disk = mem
  BY <1>1
<1>5. Counted'
  <2>1. added[day] \in Nat /\ mem.entries[day] \in Nat /\ mem'.entries[day] \in Nat
    BY <1>1, <1>2 DEF GateInv, TypeOK, Book
  <2>2. QED
    BY <1>1, <1>2, <1>4, <2>1 DEF GateInv, Counted
<1>6. Covered'
  <2>1. SUFFICES ASSUME ~behind', NEW u \in Tickers, account'[u] # "flat"
                 PROVE  u \in OpenIn(mem') \/ u \in stray'
    BY DEF Covered
  <2>2. u \in OpenIn(mem) \/ u \in stray \/ (pc = "track" /\ plan = u)
    BY <1>1, <1>4, <2>1 DEF GateInv, Covered
  <2>3. Straying(IF pc = "track" THEN {plan} ELSE {})
    BY DEF Crash
  <2>4. QED
    BY <1>2, <1>4, <2>1, <2>2, <2>3, Strays
<1>7. Approved' /\ Fresh' /\ DailyLimit'
  BY <1>1, <1>4 DEF GateInv, Approved, Fresh, DailyLimit
<1>8. QED
  BY <1>3, <1>5, <1>6, <1>7 DEF GateInv

LEMMA GateInvStep == GateInv /\ [Next]_vars => GateInv'
<1> SUFFICES ASSUME GateInv, [Next]_vars PROVE GateInv'
  OBVIOUS
<1>1. CASE Execute
  BY <1>1, BeforeSubmit, SubmitStep, TrackStep, TrackFailsStep DEF Execute
<1>2. CASE \E t \in Tickers : NoticeFill(t) \/ NoticeDead(t) \/ NoticeSold(t)
  BY <1>2, NoticeFillStep, NoticeClosedStep
<1>3. CASE \E t \in Tickers : Buy(t) \/ Expire(t) \/ Sell(t)
  BY <1>3, BrokerStep
<1>4. CASE Midnight
  BY <1>4, MidnightStep
<1>5. CASE Crash
  BY <1>5, CrashStep
<1>6. CASE UNCHANGED vars
  BY <1>6 DEF vars, GateInv, TypeOK, Covered, Counted, Approved, Fresh, DailyLimit
<1>7. QED
  BY <1>1, <1>2, <1>3, <1>4, <1>5, <1>6 DEF Next

\* The account, the records and the counters, wherever executor, monitor and broker are.
THEOREM GateInvariant == Spec => []GateInv
  BY GateInvInit, GateInvStep, PTL DEF Spec

---------------------------------------------------------------------------
(* The limits.                                                             *)

\* max_trades_per_day holds on every day, across restarts, in a well-formed book.
THEOREM EntriesAreCountedHolds == Spec => []EntriesAreCounted
<1>1. GateInv => EntriesAreCounted
  BY DEF GateInv, EntriesAreCounted
<1>2. QED
  BY <1>1, GateInvariant, PTL

\* An entry is submitted only for a ticker for which the broker has nothing, but for
\* what no record covers.
THEOREM NoDoubleEntryHolds == Spec => NoDoubleEntry
<1>1. GateInv /\ pc = "submit" => behind \/ plan \in stray \/ account[plan] = "flat"
  BY DEF GateInv, TypeOK, Covered, Fresh
<1>2. GateInv /\ [Next]_vars
        => [(pc = "submit" /\ pc' = "track") =>
               behind \/ plan \in stray \/ account[plan] = "flat"]_vars
  BY <1>1
<1>3. QED
  BY <1>2, GateInvariant, PTL DEF Spec, NoDoubleEntry

\* max_positions holds at the broker when an entry is submitted.
THEOREM PositionLimitHolds == Spec => PositionLimit
<1>1. ASSUME GateInv, [Next]_vars, pc = "submit", pc' = "track", ~behind
      PROVE  Cardinality({t \in Exposed' : t \notin stray \/ t \in holdings}) <= MaxPositions
  <2> DEFINE counted == holdings \cup OpenIn(mem)
             exposed == {t \in Exposed' : t \notin stray \/ t \in holdings}
  <2>1. Submit /\ plan \in Tickers
    <3>1. \A t \in Tickers : ~(NoticeFill(t) \/ NoticeDead(t) \/ NoticeSold(t)
                               \/ Buy(t) \/ Expire(t) \/ Sell(t))
      BY <1>1 DEF NoticeFill, NoticeDead, NoticeSold, Buy, Expire, Sell, executor
    <3>2. ~Midnight /\ ~Crash /\ ~UNCHANGED vars
      BY <1>1 DEF Midnight, Crash, Return, executor, vars
    <3>3. QED
      BY <1>1, <3>1, <3>2
      DEF Next, Execute, ReadPortfolio, Refuse, Approve, Track, TrackFails, GateInv, TypeOK
  <2>2. \A t \in Tickers : t # plan => account'[t] = account[t]
    <3>1. Entered
      BY <1>1, <2>1 DEF Submit, Return
    <3>2. QED
      BY <1>1, <2>1, <3>1, PlanOnly DEF Entered, Accounts
  <2>3. \A t \in Tickers : account[t] # "flat" => t \in OpenIn(mem) \/ t \in stray
    BY <1>1 DEF GateInv, Covered
  <2>4. exposed \in SUBSET (counted \cup {plan})
    BY <2>2, <2>3 DEF Exposed
  <2>5. counted \in SUBSET Tickers /\ counted \cup {plan} \in SUBSET Tickers
    BY <1>1, <2>1 DEF GateInv, TypeOK, OpenIn
  <2> HIDE DEF counted, exposed
  <2>6. IsFiniteSet(counted) /\ Cardinality(counted) \in Nat
        /\ Cardinality(exposed) <= Cardinality(counted \cup {plan})
        /\ Cardinality(exposed) \in Nat
    BY <2>4, <2>5, TickerSets
  <2>7. Cardinality(counted \cup {plan}) <= Cardinality(counted) + 1
    <3>1. Cardinality(counted \cup {plan})
            = IF plan \in counted THEN Cardinality(counted) ELSE Cardinality(counted) + 1
      BY <2>6, FS_AddElement
    <3>2. QED
      BY <2>6, <3>1
  <2>8. Cardinality(counted) < MaxPositions
    BY <1>1 DEF GateInv, Fresh, counted
  <2>9. Cardinality(counted \cup {plan}) \in Nat
    BY <2>5, TickerSets
  <2>10. QED
    BY <2>6, <2>7, <2>8, <2>9, LimitsAssumption DEF exposed, LimitsAssumption
<1>2. GateInv /\ [Next]_vars
        => [(pc = "submit" /\ pc' = "track") =>
               \/ behind
               \/ Cardinality({t \in Exposed' : t \notin stray \/ t \in holdings})
                     <= MaxPositions]_vars
  BY <1>1
<1>3. QED
  BY <1>2, GateInvariant, PTL DEF Spec, PositionLimit

===========================================================================
