--------------------------- MODULE EarningsCalendar ---------------------------
(***************************************************************************)
(* src/catalysts/earnings_calendar.py: the file of next earnings dates,    *)
(* the command that refreshes it from the provider, and the executor that  *)
(* reads it for the earnings-week rule of RiskGuard.  The two share        *)
(* nothing but the file, which is replaced as a whole; the reader looks at *)
(* its modification time.  A version stands for that time.                 *)
(***************************************************************************)
EXTENDS Integers, Sequences, FiniteSets, SequencesExt

CONSTANTS
    Symbols,        \* tickers
    NoSymbol,
    Universes,      \* the sequences of tickers a refresh is asked for
    Checkpoint,     \* a refresh saves after so many tickers: 50 in the code
    Planned,        \* bound: the tickers of the plans
    Window,         \* earnings_week_window_days
    LastDay,        \* bound: days, and how far ahead dates are known
    MaxRefreshes,   \* bound
    MaxCalFaults    \* bound: saves and reads of the file that fail and are logged

ASSUME CalendarAssumption ==
    /\ NoSymbol \notin Symbols /\ Planned \subseteq Symbols
    /\ \A u \in Universes : u \in Seq(Symbols)
    /\ Checkpoint \in Nat \ {0} /\ Window \in Nat /\ LastDay \in Nat \ {0}
    /\ MaxRefreshes \in Nat /\ MaxCalFaults \in Nat

CalendarDays    == 1..LastDay
NoDate == 0
Dates   == CalendarDays \cup {NoDate}
NoDates == [t \in Symbols |-> NoDate]

VARIABLES
    date,
    announced,   \* the next earnings date of each ticker, as the provider has it
    calFile,     \* the dates on disk and the version of the file; 0 is no file
    cli,         \* the refresh
    reader,      \* the executor's calendar, and the plan it is at
    refreshes, calFaults

calVars == <<date, announced, calFile, cli, reader, refreshes, calFaults>>

\* asOf is the day it counts from.  History: got, the dates it made of the answers; failed, that a save failed; blind,
\* that it could not read the file it began with.
NoRefresh == [pc |-> "off", asOf |-> NoDate, todo |-> <<>>, at |-> 0, dates |-> NoDates,
              got |-> NoDates, failed |-> FALSE, blind |-> FALSE]

\* own is the number of days that the plan brings along.  History: during, the dates that the
\* file had for the ticker during the lookup; unread, whether the last read of the file failed.
NoDays == -1
NewReader == [pc |-> "idle", loaded |-> FALSE, mtime |-> 0, dates |-> NoDates,
              ticker |-> NoSymbol, own |-> NoDays, verdict |-> "none", during |-> {}, unread |-> FALSE]

CalInit ==
    /\ date = 1
    /\ announced \in [Symbols -> Dates]
    /\ calFile = [dates |-> NoDates, version |-> 0]
    /\ cli = NoRefresh /\ reader = NewReader
    /\ refreshes = 0 /\ calFaults = 0

CalFault == calFaults < MaxCalFaults /\ calFaults' = calFaults + 1

\* What the reader may have seen in the file
Watching(f) ==
    reader' = IF reader.pc \in {"load", "read", "answer"}
              THEN [reader EXCEPT !.during = @ \cup {f.dates[reader.ticker]}]
              ELSE reader

---------------------------------------------------------------------------
(* refresh_from_provider, as cmd_earnings_calendar runs it.                *)

\* Mutant: a refresh starts from nothing.
FreshDates == NoDates

\* _ensure_loaded of a new instance
LoadedDates == calFile.dates

\* as_of is the day on which the refresh begins.
NewRefresh(u) == [NoRefresh EXCEPT !.pc = "ask", !.asOf = date, !.todo = u]

Start ==
    /\ cli.pc = "off" /\ refreshes < MaxRefreshes
    /\ refreshes' = refreshes + 1
    /\ \E u \in Universes :
          \/ cli' = [NewRefresh(u) EXCEPT !.dates = LoadedDates] /\ UNCHANGED calFaults
          \/ cli' = [NewRefresh(u) EXCEPT !.blind = TRUE] /\ calFile.version > 0 /\ CalFault
    /\ UNCHANGED <<date, announced, calFile, reader>>

AtCheckpoint(i) == i % Checkpoint = 0

\* _days_to_earnings, where the provider knows a time to come: whole days from this moment,
\* the last of them not yet counted when the announcement is at an earlier time of the day.
DaysTo(t) == {announced[t] - date, announced[t] - date - 1} \cap Nat

\* as_of and the days: the day is the one the refresh began on, and the days count from now.
DateOf(days) == cli.asOf + days

\* The next ticker is asked for; and it has a date.
NextAsked == [cli EXCEPT !.at = @ + 1, !.pc = IF AtCheckpoint(cli.at + 1) THEN "save" ELSE "ask"]
WithDate(t, day) == [NextAsked EXCEPT !.dates[t] = day, !.got[t] = day]

\* One ticker: the provider answers, or it raises or does not know.
AskProvider ==
    /\ cli.pc = "ask" /\ cli.at < Len(cli.todo)
    /\ LET t == cli.todo[cli.at + 1] IN
          \/ \E days \in DaysTo(t) : cli' = WithDate(t, DateOf(days))
          \/ cli' = NextAsked
    /\ UNCHANGED <<date, announced, calFile, reader, refreshes, calFaults>>

\* _save_locked, at a checkpoint or at the end
Save ==
    /\ cli.pc = "save" \/ (cli.pc = "ask" /\ cli.at = Len(cli.todo))
    /\ LET next == IF cli.pc = "save" THEN "ask" ELSE "off" IN
       \/ /\ calFile' = [dates |-> cli.dates, version |-> calFile.version + 1]
          /\ cli' = IF next = "off" THEN NoRefresh ELSE [cli EXCEPT !.pc = "ask"]
          /\ Watching(calFile')
          /\ UNCHANGED calFaults
       \/ /\ CalFault
          /\ cli' = IF next = "off" THEN NoRefresh ELSE [cli EXCEPT !.pc = "ask", !.failed = TRUE]
          /\ UNCHANGED <<calFile, reader>>
    /\ UNCHANGED <<date, announced, refreshes>>

\* "An interrupted run"
Interrupt ==
    /\ cli.pc # "off" /\ cli' = NoRefresh
    /\ UNCHANGED <<date, announced, calFile, reader, refreshes, calFaults>>

---------------------------------------------------------------------------
(* _lookup_days_to_earnings and the earnings-week rule.                    *)

\* The rule on a number of days, known or not
JudgedBy(r, days) ==
    [r EXCEPT !.pc = "judged", !.verdict = IF days \in 0..Window THEN "block" ELSE "pass"]

\* What generate_trade_plan puts into a plan as days_to_earnings; a plan from Alpaca metadata
\* has none.  Bound: more days than these judge like the last.
PlanDays == {NoDays} \cup 0..(Window + 1)

PlanFor(t, own) ==
    [reader EXCEPT !.pc = "load", !.ticker = t, !.own = own, !.during = {calFile.dates[t]}]

\* The rule takes the plan's own number, and asks the calendar when the plan has none.
Propose ==
    /\ reader.pc = "idle"
    /\ \E t \in Planned, own \in PlanDays :
          reader' = IF own = NoDays THEN PlanFor(t, own) ELSE JudgedBy(PlanFor(t, own), own)
    /\ UNCHANGED <<date, announced, calFile, cli, refreshes, calFaults>>

\* Mutant: the calendar is loaded once.
ChangedOnce == ~reader.loaded

\* Never loaded, or not the version it was loaded from
Changed == ~reader.loaded \/ reader.mtime # calFile.version

\* _ensure_loaded, and load up to its stamp: the version is taken before the dates.
EnsureLoaded ==
    /\ reader.pc = "load"
    /\ reader' = IF Changed
                 THEN [reader EXCEPT !.pc = "read", !.loaded = TRUE,
                                     !.mtime = calFile.version, !.dates = NoDates]
                 ELSE [reader EXCEPT !.pc = "answer"]
    /\ UNCHANGED <<date, announced, calFile, cli, refreshes, calFaults>>

\* The rest of load: a file that cannot be read leaves the calendar empty.
ReadFile ==
    /\ reader.pc = "read"
    /\ \/ /\ reader' = [reader EXCEPT !.pc = "answer", !.dates = calFile.dates, !.unread = FALSE]
          /\ UNCHANGED calFaults
       \/ /\ reader' = [reader EXCEPT !.pc = "answer", !.unread = TRUE]
          /\ calFile.version > 0 /\ CalFault
    /\ UNCHANGED <<date, announced, calFile, cli, refreshes>>

\* days_to_earnings: a date to come answers; a past one or none leaves it to the provider,
\* who may fail.
Answer ==
    /\ reader.pc = "answer"
    /\ LET d == reader.dates[reader.ticker] IN
          \/ d >= date /\ reader' = JudgedBy(reader, d - date)
          \/ d < date /\ \E days \in DaysTo(reader.ticker) \cup {NoDays} :
                            reader' = JudgedBy(reader, days)
    /\ UNCHANGED <<date, announced, calFile, cli, refreshes, calFaults>>

NextPlan ==
    /\ reader.pc = "judged"
    /\ reader' = [reader EXCEPT !.pc = "idle", !.ticker = NoSymbol, !.own = NoDays,
                                !.verdict = "none", !.during = {}]
    /\ UNCHANGED <<date, announced, calFile, cli, refreshes, calFaults>>

Restart ==
    /\ reader.loaded /\ reader' = NewReader
    /\ UNCHANGED <<date, announced, calFile, cli, refreshes, calFaults>>

---------------------------------------------------------------------------
(* Companies, and the calendar day.                                        *)

Announce(t) ==
    /\ announced' \in {[announced EXCEPT ![t] = d] : d \in {e \in CalendarDays : e >= date}}
    /\ UNCHANGED <<date, calFile, cli, reader, refreshes, calFaults>>

NextDay ==
    /\ date < LastDay /\ date' = date + 1
    /\ reader.pc = "idle"   \* bound: midnight falls between two plans
    /\ UNCHANGED <<announced, calFile, cli, reader, refreshes, calFaults>>

Reader == Propose \/ EnsureLoaded \/ ReadFile \/ Answer \/ NextPlan \/ Restart
Cli    == Start \/ AskProvider \/ Save \/ Interrupt

CalNext == Reader \/ Cli \/ (\E t \in Symbols : Announce(t)) \/ NextDay

CalSpec == CalInit /\ [][CalNext]_calVars

---------------------------------------------------------------------------
(* What it promises.                                                       *)

\* Every variable holds a value of its kind.
CalTypeOK ==
    /\ date \in CalendarDays /\ announced \in [Symbols -> Dates]
    /\ calFile.dates \in [Symbols -> Dates] /\ calFile.version \in Nat
    /\ cli.dates \in [Symbols -> Dates] /\ cli.at \in 0..Len(cli.todo) /\ cli.asOf \in 0..date
    /\ reader.dates \in [Symbols -> Dates] /\ reader.mtime \in 0..calFile.version
    /\ refreshes <= MaxRefreshes /\ calFaults <= MaxCalFaults

\* The file had a date within the window throughout the lookup.
InWindow(d) == d >= date /\ d <= date + Window
WasInWindow == \A d \in reader.during : InWindow(d)

\* The earnings-week rule: a plan with a number of days of its own passes only if that is
\* beyond the window, whatever the file says; one without passes only if the file had, at
\* some moment of the lookup, no date within the window for its ticker, or the calendar is
\* empty because it could not be read.
EarningsWeekIsBlocked ==
    reader.verdict = "pass" =>
        IF reader.own = NoDays THEN WasInWindow => reader.unread ELSE reader.own > Window

\* "An interrupted run keeps what it already fetched": wherever a refresh stops, the file
\* lacks no more of the dates it made of its answers than lie between two checkpoints,
\* unless a save has failed.  Such a date is the announced one or earlier: by the part of a
\* day that the provider does not count, and by the midnights since the refresh began.
FetchedDatesAreKept ==
    cli.pc # "off" /\ ~cli.failed =>
        Cardinality({t \in Symbols : cli.got[t] # NoDate /\ calFile.dates[t] # cli.got[t]})
            <= Checkpoint

\* A refresh that could read the file fills dates in and corrects them: it never removes
\* one, of a ticker that it was not asked for or that the provider does not know.
NoDateVanishes ==
    [][~cli.blind =>
         \A t \in Symbols : calFile.dates[t] # NoDate => calFile'.dates[t] # NoDate]_<<calFile, cli>>

\* Both: a refresh loses nothing that was fetched before it, and of its own no more than
\* lies between two checkpoints.
DatesAreKept == []FetchedDatesAreKept /\ NoDateVanishes

===========================================================================
