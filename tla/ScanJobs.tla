------------------------------ MODULE ScanJobs ------------------------------
(***************************************************************************)
(* The background scan registry, src/scanner/scan_jobs.py.                 *)
(*                                                                         *)
(* Request threads of the dashboard start, poll and look up scans; each    *)
(* scan runs in a thread of its own and ends in the registry.  The         *)
(* registry is a dictionary under one lock: every `with _lock` block is an *)
(* action.  What happens between two blocks of one call is what the lock   *)
(* does not cover: start_scan starts its thread after it has released it,  *)
(* and latest_job looks twice.                                             *)
(***************************************************************************)
EXTENDS Integers, FiniteSets

CONSTANTS
    Clients,      \* request threads
    MaxScans,     \* bound: scans that are ever started
    MaxJobs,      \* _MAX_JOBS
    TTL,          \* _RESULT_TTL_SEC
    MaxTime,      \* bound: the clock stops here
    MaxFaults     \* bound: threads that cannot be started

ASSUME BoundsAssumption ==
    /\ MaxScans \in Nat \ {0} /\ MaxJobs \in Nat /\ TTL \in Nat
    /\ MaxTime \in Nat /\ MaxFaults \in Nat

\* Job ids in the order of their started_at.
JobIds == 1..MaxScans
NoJob  == 0

VARIABLES
    clock,
    jobs,      \* the registry: status, started_at and finished_at of each job
    last,      \* the last job id given out
    thread,    \* the scan thread of each job
    pc,        \* where each request thread is
    job,       \* the job a request thread has just registered
    reply,     \* what latest_job last returned to each request thread
    faults     \* threads that may still fail to start

vars == <<clock, jobs, last, thread, pc, job, reply, faults>>

Times    == 0..MaxTime
Statuses == {"absent", "running", "done", "error"}
Job      == [status : Statuses, started : Times, finished : Times]
Absent   == [status |-> "absent", started |-> 0, finished |-> 0]
NewJob   == [status |-> "running", started |-> clock, finished |-> 0]

Present(js)  == {j \in JobIds : js[j].status # "absent"}
Running(js)  == {j \in JobIds : js[j].status = "running"}
Finished(js) == {j \in JobIds : js[j].status \in {"done", "error"}}

---------------------------------------------------------------------------
(* _reap                                                                   *)

Drop(js, gone) == [j \in JobIds |-> IF j \in gone THEN Absent ELSE js[j]]

Expired(js) == {j \in Finished(js) : clock - js[j].finished > TTL}

\* The jobs trimmed to keep MaxJobs: the finished ones that started first.
Excess(js) ==
    LET excess == Cardinality(Present(js)) - MaxJobs
    IN  {j \in Finished(js) : Cardinality({k \in Finished(js) : k < j}) < excess}

Reap(js) ==
    LET fresh == Drop(js, Expired(js))
    IN  Drop(fresh, Excess(fresh))

---------------------------------------------------------------------------
(* Request threads.                                                        *)

Go(c, place) == pc' = [pc EXCEPT ![c] = place]

\* Mutant: the running job is not looked for.
RegisterAlways(c) ==
    /\ pc[c] = "idle" /\ last < MaxScans
    /\ last' = last + 1
    /\ jobs' = [Reap(jobs) EXCEPT ![last + 1] = NewJob]
    /\ job' = [job EXCEPT ![c] = last + 1]
    /\ Go(c, "spawn")
    /\ UNCHANGED <<clock, thread, reply, faults>>

\* start_scan, its locked part: join the running job, or register a new one
Register(c) ==
    /\ pc[c] = "idle"
    /\ IF Running(Reap(jobs)) # {}
       THEN /\ jobs' = Reap(jobs)
            /\ UNCHANGED <<last, job, pc>>
       ELSE /\ last < MaxScans
            /\ last' = last + 1
            /\ jobs' = [Reap(jobs) EXCEPT ![last + 1] = NewJob]
            /\ job' = [job EXCEPT ![c] = last + 1]
            /\ Go(c, "spawn")
    /\ UNCHANGED <<clock, thread, reply, faults>>

\* thread.start(), which raises when the process is out of threads.
Spawn(c) ==
    /\ pc[c] = "spawn"
    /\ \/ thread' = [thread EXCEPT ![job[c]] = "scanning"] /\ faults' = faults
       \/ faults > 0 /\ faults' = faults - 1 /\ thread' = thread
    /\ job' = [job EXCEPT ![c] = NoJob]
    /\ Go(c, "idle")
    /\ UNCHANGED <<clock, jobs, last, reply>>

\* get_job: whatever it answers, it reaps.
Poll(c) ==
    /\ pc[c] = "idle"
    /\ jobs' = Reap(jobs)
    /\ UNCHANGED <<clock, last, thread, pc, job, reply, faults>>

\* latest_job, first active_job ...
LatestRunning(c) ==
    /\ pc[c] = "idle"
    /\ IF Running(jobs) # {}
       THEN reply' = [reply EXCEPT ![c] = CHOOSE j \in Running(jobs) : TRUE] /\ pc' = pc
       ELSE reply' = reply /\ Go(c, "newest")
    /\ UNCHANGED <<clock, jobs, last, thread, job, faults>>

\* Mutant: only the running job is reported, as active_job does.
LatestNone(c) ==
    /\ pc[c] = "newest"
    /\ jobs' = Reap(jobs)
    /\ reply' = [reply EXCEPT ![c] = NoJob]
    /\ Go(c, "idle")
    /\ UNCHANGED <<clock, last, thread, job, faults>>

\* latest_job's key: finished_at, or started_at.  Two jobs whose keys fall into
\* the same tick are told apart by the order in which they started.
Key(js, j) == IF j \in Finished(js) THEN js[j].finished ELSE js[j].started
After(js, j, k) ==
    Key(js, j) > Key(js, k) \/ (Key(js, j) = Key(js, k) /\ j >= k)

\* ... then, in a second locked part, the job that finished or started last
LatestFinished(c) ==
    /\ pc[c] = "newest"
    /\ jobs' = Reap(jobs)
    /\ reply' = [reply EXCEPT ![c] =
          IF Present(jobs') = {} THEN NoJob
          ELSE CHOOSE j \in Present(jobs') : \A k \in Present(jobs') : After(jobs', j, k)]
    /\ Go(c, "idle")
    /\ UNCHANGED <<clock, last, thread, job, faults>>

---------------------------------------------------------------------------
(* Scan threads.                                                           *)

\* Mutant: a scan that raises leaves its job as it is.
FinishNoError(j) ==
    /\ thread[j] = "scanning"
    /\ thread' = [thread EXCEPT ![j] = "ended"]
    /\ \/ jobs' = [jobs EXCEPT ![j].status = "done", ![j].finished = clock]
       \/ jobs' = jobs
    /\ UNCHANGED <<clock, last, pc, job, reply, faults>>

\* _run: the scan returns or raises, and its job says so if it still exists.
Finish(j) ==
    /\ thread[j] = "scanning"
    /\ thread' = [thread EXCEPT ![j] = "ended"]
    /\ \E outcome \in {"done", "error"} :
          jobs' = IF jobs[j].status = "absent" THEN jobs
                  ELSE [jobs EXCEPT ![j].status = outcome, ![j].finished = clock]
    /\ UNCHANGED <<clock, last, pc, job, reply, faults>>

Tick ==
    /\ clock < MaxTime
    /\ clock' = clock + 1
    /\ UNCHANGED <<jobs, last, thread, pc, job, reply, faults>>

---------------------------------------------------------------------------

Init ==
    /\ clock = 0
    /\ jobs = [j \in JobIds |-> Absent]
    /\ last = NoJob
    /\ thread = [j \in JobIds |-> "none"]
    /\ pc = [c \in Clients |-> "idle"]
    /\ job = [c \in Clients |-> NoJob]
    /\ reply = [c \in Clients |-> NoJob]
    /\ faults = MaxFaults

Client(c) ==
    Register(c) \/ Spawn(c) \/ Poll(c) \/ LatestRunning(c) \/ LatestFinished(c)

Next ==
    \/ \E c \in Clients : Client(c)
    \/ \E j \in JobIds : Finish(j)
    \/ Tick

Spec == Init /\ [][Next]_vars

\* A request thread that registered a job goes on, and scans end.
FairSpec ==
    /\ Spec
    /\ \A c \in Clients : WF_vars(Spawn(c))
    /\ \A j \in JobIds : WF_vars(Finish(j))

---------------------------------------------------------------------------
(* What scan_jobs.py promises: "Single-flight", "Bounded", and that a      *)
(* result can be collected.                                                *)

\* Every variable holds a value of its kind; "Bounded": the registry is trimmed before
\* a job is added, so it holds at most one job more than _MAX_JOBS.
TypeOK ==
    /\ clock \in Times
    /\ jobs \in [JobIds -> Job]
    /\ last \in JobIds \cup {NoJob}
    /\ thread \in [JobIds -> {"none", "scanning", "ended"}]
    /\ pc \in [Clients -> {"idle", "spawn", "newest"}]
    /\ job \in [Clients -> JobIds \cup {NoJob}]
    /\ reply \in [Clients -> JobIds \cup {NoJob}]
    /\ faults \in Nat
    /\ Cardinality(Present(jobs)) <= MaxJobs + 1

\* "Single-flight": one scan at a time, counting the threads that scan and those
\* about to be started, whatever the registry says of their jobs.
Scanning == {j \in JobIds : thread[j] = "scanning" \/ \E c \in Clients : job[c] = j}
SingleFlight == Cardinality(Scanning) <= 1

\* "Bounded" and "Single-flight", at every instant.
RegistryHolds == TypeOK /\ SingleFlight

\* "Never evict a running job" and "a slow poller still collects its result": a poll of
\* a scan that runs is never answered "unknown", and a finished job leaves the registry
\* only after its time to live, or when MaxJobs others are left that started later.
ResultIsKept ==
    [][\A j \in Present(jobs) :
          jobs'[j].status = "absent" =>
             /\ j \in Finished(jobs)
             /\ \/ clock - jobs[j].finished > TTL
                \/ Cardinality({k \in Present(jobs') : k > j}) >= MaxJobs]_vars

\* A page that has lost its job id gets the job that was started last of those in
\* the registry, whichever is running, although latest_job orders them by the time
\* they finished and looks twice while jobs start, end and expire in between.
LatestIsFound ==
    [][\A c \in Clients :
          (pc[c] = "newest" /\ pc'[c] = "idle") =>
             \A j \in Present(jobs') : reply'[c] >= j]_vars

\* A page finds its scan: by its id while the registry must keep it, or as the latest.
ScansAreFound == ResultIsKept /\ LatestIsFound

\* "A crashed scan must be reported as a failed job, not as a job that silently
\* never finishes": a job whose thread was started leaves the running state.
ScanReportsItsEnd ==
    \A j \in JobIds :
       (jobs[j].status = "running" /\ thread[j] # "none") ~> jobs[j].status # "running"

===========================================================================
