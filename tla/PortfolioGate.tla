---------------------------- MODULE PortfolioGate ----------------------------
(***************************************************************************)
(* The opt-in gate on new entries and the equity high-water mark behind    *)
(* its drawdown halt: PeakEquityTracker of src/risk/peak_equity.py, the    *)
(* gate in execute_trade_plan of src/alpaca/executor.py and the advisory   *)
(* endpoint of dashboard.py.  Each reads the account, makes a tracker of   *)
(* its own and observes the equity: it loads the file, takes the file      *)
(* lock, loads again, raises the peak, saves and releases.  A process may  *)
(* die anywhere, which frees its lock; a load, a save or the lock may      *)
(* fail.  A load that fails leaves the peak the tracker knew, if any.      *)
(***************************************************************************)
EXTENDS PortfolioRisk

CONSTANTS
    Gates,         \* executors
    Dashboards,    \* requests for the advisory snapshot
    NoHolder,
    Equities,      \* the equities the account moves through
    Candidates,    \* the entries that may be proposed
    Scenes,        \* what an account may be in: see scene
    MaxMoves,      \* bound: changes of equity
    MaxGateFaults      \* bound: gateFaults of all kinds

GateProcesses == Gates \cup Dashboards

ASSUME GateAssumption ==
    /\ NoHolder \notin GateProcesses /\ Gates \cap Dashboards = {}
    /\ Equities \subseteq Nat \ {0} /\ MaxMoves \in Nat /\ MaxGateFaults \in Nat
    /\ \A c \in Candidates : /\ c.shares \in Nat /\ c.price \in Nat
                            /\ c.value = c.shares * c.price
    /\ \A s \in Scenes : /\ Len(s.book) \in Nat /\ DOMAIN s.book = 1..Len(s.book)
                        /\ \A k \in DOMAIN s.book : s.book[k].value \in Int

VARIABLES
    equity,    \* total_equity of the account
    scene,     \* its holdings in the broker's order, which pairs of names move alike, the
               \* sets of names that may have a history, and the processes that run
    peakFile,      \* the JSON file: the peak, or that there is none
    peakLock,      \* who holds the file lock
    proc,      \* each process: where it is, what it read and what it knows
    moves, gateFaults,
    saved      \* history: the highest equity saved since a process last saved without
               \* having read the file

gateVars == <<equity, scene, peakFile, peakLock, proc, moves, gateFaults, saved>>
market   == <<equity, scene, moves>>

NoCandidate == [ticker |-> "none", value |-> 0, risk |-> 0, shares |-> 0, price |-> 0]
NoDecision  == [action |-> "none", shares |-> 0]

Idle == [pc |-> "idle", equity |-> 0, peak |-> Unknown, candidate |-> NoCandidate,
         history |-> {}, decision |-> NoDecision,
         since |-> Unknown,    \* history: what was saved when it last read the file
         blind |-> FALSE]      \* history: that its load under the lock failed

GateInit ==
    /\ equity \in Equities /\ scene \in Scenes
    /\ peakFile = Unknown /\ peakLock = NoHolder /\ saved = Unknown
    /\ proc = [p \in GateProcesses |-> Idle]
    /\ moves = 0 /\ gateFaults = 0

At(p, step) == proc[p].pc = step
Goto(p, step) == proc' = [proc EXCEPT ![p].pc = step]
GateFault == gateFaults < MaxGateFaults /\ gateFaults' = gateFaults + 1

\* get_portfolio_data; the gate has a candidate that RiskGuard approved.
ReadAccount(p) ==
    /\ At(p, "idle")
    /\ \E c \in IF p \in Gates THEN Candidates ELSE {NoCandidate}, h \in scene.histories :
          proc' = [proc EXCEPT ![p] = [Idle EXCEPT
              !.pc = "read", !.equity = equity, !.candidate = c, !.history = h]]
    /\ UNCHANGED <<market, peakFile, peakLock, gateFaults, saved>>

\* PeakEquityTracker.load_default; an unreadable or malformed file is no peak.
LoadDefault(p) ==
    /\ At(p, "read")
    /\ \/ /\ proc' = [proc EXCEPT ![p].pc = "loaded", ![p].peak = peakFile, ![p].since = saved]
          /\ UNCHANGED gateFaults
       \/ Goto(p, "loaded") /\ GateFault
    /\ UNCHANGED <<market, peakFile, peakLock, saved>>

Raised(p) == IF proc[p].equity > proc[p].peak THEN proc[p].equity ELSE proc[p].peak

\* Mutant: the lock is taken, the file is not read again.
EnterWithoutReload(p) ==
    /\ peakLock' = p
    /\ Goto(p, "locked") /\ UNCHANGED gateFaults

\* What is known with the file as it is now.  A missing file leaves the peak alone.
Reloaded(r) ==
    IF peakFile = Unknown THEN [r EXCEPT !.pc = "locked"]
    ELSE [r EXCEPT !.pc = "locked", !.peak = peakFile, !.since = saved]

\* _exclusive: the lock, and the file again, or as before when it cannot be read.
Enter(p) ==
    /\ peakLock' = p
    /\ \/ proc' = [proc EXCEPT ![p] = Reloaded(proc[p])] /\ UNCHANGED gateFaults
       \/ proc' = [proc EXCEPT ![p].pc = "locked", ![p].blind = TRUE] /\ GateFault

Lock(p) ==
    /\ At(p, "loaded") /\ peakLock = NoHolder
    /\ Enter(p)
    /\ UNCHANGED <<market, peakFile, saved>>

\* Mutant: without the lock the account's equity passes for the peak.
EquityAlone(p) == proc[p].equity

\* "The in-memory peak is still returned"
FallbackPeak(p) == Raised(p)

\* The lock file cannot be opened or locked.
LockFails(p) ==
    /\ At(p, "loaded") /\ GateFault
    /\ proc' = [proc EXCEPT ![p].pc = "observed", ![p].peak = FallbackPeak(p)]
    /\ UNCHANGED <<market, peakFile, peakLock, saved>>

\* A new high is saved by replacing the file, or the save fails and is logged.
Observe(p) ==
    /\ At(p, "locked")
    /\ proc' = [proc EXCEPT ![p].pc = "release", ![p].peak = Raised(p)]
    /\ \/ /\ proc[p].equity > proc[p].peak
          /\ peakFile' = proc[p].equity
          /\ saved' = IF proc[p].blind \/ proc[p].equity > saved THEN proc[p].equity ELSE saved
          /\ UNCHANGED gateFaults
       \/ /\ proc[p].equity > proc[p].peak /\ GateFault
          /\ UNCHANGED <<peakFile, saved>>
       \/ proc[p].equity <= proc[p].peak /\ UNCHANGED <<peakFile, saved, gateFaults>>
    /\ UNCHANGED <<market, peakLock>>

Release(p) ==
    /\ At(p, "release")
    /\ peakLock' = NoHolder /\ Goto(p, "observed")
    /\ UNCHANGED <<market, peakFile, gateFaults, saved>>

\* The gate evaluates the candidate against the book of its own read.
Decide(p) ==
    /\ At(p, "observed") /\ p \in Gates
    /\ proc' = [proc EXCEPT ![p].pc = "decided",
          ![p].decision = Evaluate(proc[p].candidate, scene.book, proc[p].history, scene.alike,
                                   proc[p].equity, proc[p].peak)]
    /\ UNCHANGED <<market, peakFile, peakLock, gateFaults, saved>>

\* The answer is given, the order placed or not; a dashboard only shows the drawdown.
GateReturn(p) ==
    /\ At(p, "decided") \/ (At(p, "observed") /\ p \in Dashboards)
    /\ proc' = [proc EXCEPT ![p] = Idle]
    /\ UNCHANGED <<market, peakFile, peakLock, gateFaults, saved>>

GateDie(p) ==
    /\ ~At(p, "idle") /\ GateFault
    /\ proc' = [proc EXCEPT ![p] = Idle]
    /\ peakLock' = IF peakLock = p THEN NoHolder ELSE peakLock
    /\ UNCHANGED <<market, peakFile, saved>>

Move ==
    /\ moves < MaxMoves /\ moves' = moves + 1
    /\ equity' \in Equities \ {equity}
    /\ UNCHANGED <<scene, peakFile, peakLock, proc, gateFaults, saved>>

ProcessStep(p) ==
    \/ ReadAccount(p) \/ LoadDefault(p) \/ Lock(p) \/ LockFails(p) \/ Observe(p)
    \/ Release(p) \/ Decide(p) \/ GateReturn(p) \/ GateDie(p)

GateNext == (\E p \in GateProcesses : p \in scene.processes /\ ProcessStep(p)) \/ Move

GateSpec == GateInit /\ [][GateNext]_gateVars

---------------------------------------------------------------------------
(* What it promises.                                                       *)

\* Every variable holds a value of its kind; only the holder of the lock works on the file,
\* and a decision never asks for more shares than were proposed.
GateTypeOK ==
    /\ equity \in Equities /\ scene \in Scenes
    /\ peakFile \in Equities \cup {Unknown} /\ saved \in Equities \cup {Unknown}
    /\ peakLock \in GateProcesses \cup {NoHolder}
    /\ \A p \in GateProcesses :
          /\ proc[p].peak \in Equities \cup {Unknown}
          /\ proc[p].pc \in {"locked", "release"} <=> peakLock = p
          /\ proc[p].decision.shares \in 0..proc[p].candidate.shares

\* "A peak written by the other process is merged (max) rather than clobbered": the file
\* never falls below an equity that was saved, but for the save of a process whose load
\* under the lock failed, which replaces the peak it could not read by its own equity.
PeakIsKept == peakFile = saved

\* "Halt new entries after a peak-to-trough drop": no entry is approved whose account has
\* dropped that far from the peak that was saved when the gate last managed to read the
\* file, whichever process saved it and whether or not the gate's own lock or save works.
DrawdownHaltsEntries ==
    \A p \in Gates :
        At(p, "decided") /\ proc[p].decision.action # "veto" =>
            ~Halted(proc[p].equity, proc[p].since)

\* The high-water mark restrains every gate: it is never lost, and a drop from it halts.
PeakRestrains == PeakIsKept /\ DrawdownHaltsEntries

\* The nodes that move with the candidate, directly or through others: those of every set
\* that has it and whatever moves with one that it has.
Cluster(nodes, alike) ==
    LET Closed(S) == \A i \in S, j \in DOMAIN nodes : Linked(nodes, alike, i, j) => j \in S
    IN  {k \in DOMAIN nodes : \A S \in SUBSET DOMAIN nodes : 0 \in S /\ Closed(S) => k \in S}

\* "Brings the cluster back within limit", "the full connected component": the shares
\* that a decision lets through keep the candidate's cluster under its cap, in whatever
\* order the holdings come and the correlations chain.
EntriesFitTheCluster ==
    \A p \in Gates :
        LET d == proc[p].decision
            c == proc[p].candidate
            nodes == Nodes(c, scene.book, proc[p].history)
        IN  /\ At(p, "decided") /\ d.shares > 0
            /\ c.ticker \in proc[p].history /\ MaxCluster > 0
            => ~Exceeds(ValueAmong(nodes, Cluster(nodes, scene.alike) \ {0}) + d.shares * c.price,
                        MaxCluster, proc[p].equity)
===========================================================================
