---------------------------- MODULE ScanJobsProofs ----------------------------
(***************************************************************************)
(* One scan at a time and a bounded registry, for any number of request    *)
(* threads, scans, and any size and time to live of the registry.          *)
(*                                                                         *)
(* RegistryInv is the inductive invariant: what scans, or is about to, is  *)
(* a running job, there is one of those at most, and a job starts when     *)
(* those before it have finished, so that the newest is the one that       *)
(* finished or started last.                                               *)
(***************************************************************************)
EXTENDS ScanJobs, FiniteSetTheorems, TLAPS

\* A request thread on its way to start a scan has registered a job of its own.
Registered ==
    \A c \in Clients :
        /\ (pc[c] = "spawn") <=> (job[c] # NoJob)
        /\ job[c] # NoJob => jobs[job[c]].status = "running" /\ thread[job[c]] = "none"
        /\ \A d \in Clients : job[c] = job[d] /\ job[c] # NoJob => c = d

ScanningRuns == \A j \in JobIds : thread[j] = "scanning" => jobs[j].status = "running"

OneRuns == \A j, k \in Running(jobs) : j = k

\* Ids are given out in order.
InOrder ==
    \A j \in JobIds : j > last => jobs[j].status = "absent" /\ thread[j] = "none"

\* Of the jobs in a registry each has finished when the next one started.
Chronology(js) ==
    /\ \A j \in Present(js) : js[j].started <= clock
    /\ \A j \in Finished(js) : js[j].started <= js[j].finished /\ js[j].finished <= clock
    /\ \A j, k \in Present(js) :
          j < k => j \in Finished(js) /\ js[j].finished <= js[k].started

RegistryInv ==
    TypeOK /\ Registered /\ ScanningRuns /\ OneRuns /\ InOrder /\ Chronology(jobs)

---------------------------------------------------------------------------
(* _reap.                                                                  *)

\* A part of a set of jobs is finite and no larger.
LEMMA JobSets ==
    ASSUME NEW S \in SUBSET JobIds, NEW T \in SUBSET S
    PROVE  /\ IsFiniteSet(S) /\ Cardinality(S) \in Nat
           /\ IsFiniteSet(T) /\ Cardinality(T) \in Nat
           /\ Cardinality(T) <= Cardinality(S)
<1>1. IsFiniteSet(JobIds)
  BY FS_Interval, BoundsAssumption DEF JobIds, BoundsAssumption
<1>2. IsFiniteSet(S)
  BY <1>1, FS_Subset
<1>3. IsFiniteSet(T) /\ Cardinality(T) <= Cardinality(S)
  BY <1>2, FS_Subset
<1>4. QED
  BY <1>2, <1>3, FS_CardinalityType

\* Each job stays as it is or is dropped, and a running one stays.
LEMMA ReapDrops ==
    ASSUME NEW js \in [JobIds -> Job]
    PROVE  /\ Reap(js) \in [JobIds -> Job]
           /\ \A j \in JobIds : Reap(js)[j] = js[j] \/ Reap(js)[j] = Absent
           /\ \A j \in Running(js) : Reap(js)[j] = js[j]
           /\ Running(Reap(js)) = Running(js)
           /\ Present(Reap(js)) \subseteq Present(js)
<1> DEFINE fresh == Drop(js, Expired(js))
<1>1. Absent \in Job /\ Absent.status = "absent"
  BY BoundsAssumption DEF Absent, Job, Statuses, Times, BoundsAssumption
<1>2. Reap(js) = Drop(fresh, Excess(fresh))
  BY DEF Reap
<1>3. fresh = [j \in JobIds |-> IF j \in Expired(js) THEN Absent ELSE js[j]]
  BY DEF Drop
<1>4. Reap(js) = [j \in JobIds |-> IF j \in Excess(fresh) THEN Absent ELSE fresh[j]]
  BY <1>2 DEF Drop
<1>5. \A j \in Running(js) : j \notin Expired(js) /\ j \notin Excess(fresh)
  <2>1. \A j \in Running(js) : j \notin Expired(js)
    BY DEF Running, Expired, Finished
  <2>2. \A j \in Running(js) : fresh[j].status = "running"
    BY <1>3, <2>1 DEF Running
  <2>3. QED
    BY <2>1, <2>2 DEF Excess, Finished
<1> HIDE DEF fresh
<1>6. \A j \in JobIds : Reap(js)[j] = js[j] \/ Reap(js)[j] = Absent
  BY <1>3, <1>4
<1>7. \A j \in Running(js) : Reap(js)[j] = js[j]
  BY <1>3, <1>4, <1>5 DEF Running
<1>8. Reap(js) \in [JobIds -> Job]
  BY <1>1, <1>3, <1>4
<1>9. QED
  BY <1>1, <1>6, <1>7, <1>8 DEF Running, Present

\* How many of a set of jobs started before j
Rank(F, j) == Cardinality({k \in F : k < j})

LEMMA RankBounds ==
    ASSUME NEW F \in SUBSET JobIds, NEW j \in F
    PROVE  Rank(F, j) \in 0..(Cardinality(F) - 1)
<1> DEFINE below == {k \in F : k < j}
<1>1. below \in SUBSET (F \ {j}) /\ F \ {j} \in SUBSET JobIds /\ F \in SUBSET F
  BY BoundsAssumption DEF JobIds, BoundsAssumption
<1>2. Cardinality(below) \in Nat /\ Cardinality(below) <= Cardinality(F \ {j})
      /\ IsFiniteSet(F) /\ Cardinality(F) \in Nat
  BY <1>1, JobSets
<1>3. Cardinality(F \ {j}) = Cardinality(F) - 1
  BY <1>2, FS_RemoveElement
<1>4. QED
  BY <1>2, <1>3 DEF Rank

LEMMA RankGrows ==
    ASSUME NEW F \in SUBSET JobIds, NEW j \in F, NEW k \in F
    PROVE  /\ j < k => Rank(F, j) < Rank(F, k)
           /\ Rank(F, j) = Rank(F, k) => j = k
<1>1. ASSUME NEW x \in F, NEW y \in F, x < y PROVE Rank(F, x) < Rank(F, y)
  <2> DEFINE below(z) == {i \in F : i < z}
  <2>1. /\ below(y) \in SUBSET JobIds /\ below(x) \cup {x} \in SUBSET below(y)
        /\ below(x) \in SUBSET JobIds /\ below(x) \in SUBSET below(x) /\ ~(x \in below(x))
    <3>1. \A i \in F : i \in Int
      BY BoundsAssumption DEF JobIds, BoundsAssumption
    <3>2. \A i \in F : i < x => i < y
      BY <1>1, <3>1
    <3>3. ~(x < x)
      BY <1>1, <3>1
    <3>4. QED
      BY <1>1, <3>2, <3>3
  <2>2. /\ IsFiniteSet(below(x)) /\ Cardinality(below(x)) \in Nat
        /\ Cardinality(below(y)) \in Nat
    BY <2>1, JobSets
  <2>3. Cardinality(below(x) \cup {x}) <= Cardinality(below(y))
    BY <2>1, JobSets
  <2> HIDE DEF below
  <2>4. Cardinality(below(x) \cup {x}) = Cardinality(below(x)) + 1
    <3>1. Cardinality(below(x) \cup {x})
            = IF x \in below(x) THEN Cardinality(below(x)) ELSE Cardinality(below(x)) + 1
      BY <2>2, FS_AddElement
    <3>2. QED
      BY <2>1, <3>1
  <2>5. QED
    BY <2>2, <2>3, <2>4 DEF Rank, below
<1>2. Rank(F, j) \in Int /\ Rank(F, k) \in Int
  BY RankBounds
<1>3. j \in Int /\ k \in Int
  BY BoundsAssumption DEF JobIds, BoundsAssumption
<1>4. QED
  BY <1>1, <1>2, <1>3

\* Jobs whose ranks lie between two bounds are no more than the places there.
LEMMA RankedSets ==
    ASSUME NEW F \in SUBSET JobIds, NEW S \in SUBSET F, NEW lo \in Int, NEW hi \in Int,
           \A j \in S : Rank(F, j) \in lo..hi
    PROVE  Cardinality(S) <= IF lo > hi THEN 0 ELSE hi - lo + 1
<1> DEFINE place == [j \in S |-> Rank(F, j)]
<1>1. place \in [S -> lo..hi]
  OBVIOUS
<1>2. \A j, k \in S : place[j] = place[k] => j = k
  BY RankGrows
<1>3. place \in Injection(S, lo..hi)
  BY <1>1, <1>2 DEF Injection, IsInjective
<1>4. /\ IsFiniteSet(lo..hi)
      /\ Cardinality(lo..hi) = IF lo > hi THEN 0 ELSE hi - lo + 1
  BY FS_Interval
<1>5. Cardinality(S) <= Cardinality(lo..hi)
  BY <1>3, <1>4, FS_Injection
<1>6. QED
  BY <1>4, <1>5

\* What is left after trimming, and what was trimmed
LEMMA ExcessRanks ==
    ASSUME NEW js \in [JobIds -> Job]
    PROVE  /\ Finished(js) \in SUBSET JobIds /\ Present(js) \in SUBSET JobIds
           /\ Excess(js) = {j \in Finished(js) :
                               Rank(Finished(js), j) < Cardinality(Present(js)) - MaxJobs}
           /\ Present(Drop(js, Excess(js))) = Present(js) \ Excess(js)
<1>1. Finished(js) \in SUBSET JobIds /\ Present(js) \in SUBSET JobIds
  BY DEF Finished, Present
<1>2. Excess(js) = {j \in Finished(js) :
                       Rank(Finished(js), j) < Cardinality(Present(js)) - MaxJobs}
  BY DEF Excess, Rank
<1>3. Present(Drop(js, Excess(js))) = Present(js) \ Excess(js)
  BY DEF Present, Drop, Absent
<1>4. QED
  BY <1>1, <1>2, <1>3

\* A registry without running jobs is trimmed to MaxJobs.
LEMMA Trimmed ==
    ASSUME NEW js \in [JobIds -> Job], Running(js) = {}
    PROVE  Cardinality(Present(Drop(js, Excess(js)))) <= MaxJobs
<1> DEFINE F == Finished(js)
           n == Cardinality(F)
           kept == Present(Drop(js, Excess(js)))
<1>1. Present(js) = F /\ F \in SUBSET JobIds
  BY DEF Present, Finished, Running, Job, Statuses
<1>2. n \in Nat /\ MaxJobs \in Nat
  BY <1>1, JobSets, BoundsAssumption DEF BoundsAssumption
<1>3. kept = {j \in F : ~(Rank(F, j) < n - MaxJobs)}
  BY <1>1, ExcessRanks
<1>4. kept \in SUBSET F
  BY <1>3
<1> HIDE DEF F, n, kept
<1>5. CASE n <= MaxJobs
  <2>1. Cardinality(kept) <= n /\ Cardinality(kept) \in Nat
    BY <1>1, <1>4, JobSets DEF n
  <2>2. QED
    BY <1>2, <1>5, <2>1 DEF kept
<1>6. CASE n > MaxJobs
  <2>1. \A j \in kept : Rank(F, j) \in (n - MaxJobs)..(n - 1)
    <3>1. SUFFICES ASSUME NEW j \in kept PROVE Rank(F, j) \in (n - MaxJobs)..(n - 1)
      OBVIOUS
    <3>2. j \in F /\ Rank(F, j) \in 0..(n - 1) /\ ~(Rank(F, j) < n - MaxJobs)
      BY <1>1, <1>3, RankBounds DEF n
    <3>3. QED
      BY <1>2, <3>2
  <2>2. Cardinality(kept) <= IF n - MaxJobs > n - 1 THEN 0 ELSE (n - 1) - (n - MaxJobs) + 1
    <3>1. n - MaxJobs \in Int /\ n - 1 \in Int
      BY <1>2
    <3>2. QED
      BY <1>1, <1>4, <2>1, <3>1, RankedSets
  <2>3. Cardinality(kept) \in Nat
    BY <1>1, <1>4, JobSets
  <2>4. QED
    BY <1>2, <2>2, <2>3 DEF kept
<1>7. QED
  BY <1>2, <1>5, <1>6

\* A job that is trimmed leaves MaxJobs behind, all of which started after it.
LEMMA LaterKept ==
    ASSUME NEW js \in [JobIds -> Job], Chronology(js), NEW j \in Excess(js)
    PROVE  /\ Cardinality(Present(Drop(js, Excess(js)))) >= MaxJobs
           /\ \A k \in Present(Drop(js, Excess(js))) : k > j
<1> DEFINE F == Finished(js)
           P == Present(js)
           E == Excess(js)
           n == Cardinality(P)
<1>1. /\ F \in SUBSET JobIds /\ P \in SUBSET JobIds /\ E \in SUBSET F /\ F \in SUBSET P
      /\ E = {i \in F : Rank(F, i) < n - MaxJobs}
      /\ Present(Drop(js, E)) = P \ E
  <2>1. F \in SUBSET P
    BY DEF Finished, Present
  <2>2. QED
    BY <2>1, ExcessRanks
<1>2. /\ n \in Nat /\ MaxJobs \in Nat /\ IsFiniteSet(P)
      /\ IsFiniteSet(E) /\ Cardinality(E) \in Nat
  BY <1>1, JobSets, BoundsAssumption DEF BoundsAssumption
<1>3. j \in F /\ Rank(F, j) \in Nat /\ Rank(F, j) < n - MaxJobs
  <2>1. j \in F /\ Rank(F, j) < n - MaxJobs
    BY <1>1
  <2>2. Rank(F, j) \in 0..(Cardinality(F) - 1)
    BY <1>1, <2>1, RankBounds
  <2>3. QED
    BY <2>1, <2>2
<1> HIDE DEF F, P, E, n
<1>4. Cardinality(E) <= n - MaxJobs
  <2>1. \A i \in E : Rank(F, i) \in 0..(n - MaxJobs - 1)
    <3>1. SUFFICES ASSUME NEW i \in E PROVE Rank(F, i) \in 0..(n - MaxJobs - 1)
      OBVIOUS
    <3>2. i \in F /\ Rank(F, i) < n - MaxJobs
      BY <1>1
    <3>3. Rank(F, i) \in 0..(Cardinality(F) - 1)
      BY <1>1, <3>2, RankBounds
    <3>4. QED
      BY <1>2, <3>2, <3>3
  <2>2. Cardinality(E) <= IF 0 > n - MaxJobs - 1 THEN 0 ELSE (n - MaxJobs - 1) - 0 + 1
    <3>1. n - MaxJobs - 1 \in Int /\ 0 \in Int
      BY <1>2
    <3>2. QED
      BY <1>1, <2>1, <3>1, RankedSets
  <2>3. QED
    BY <1>2, <1>3, <2>2
<1>5. Cardinality(P \ E) >= MaxJobs
  <2>1. P \cap E = E
    BY <1>1
  <2>2. Cardinality(P \ E) = n - Cardinality(E)
    BY <1>2, <2>1, FS_Difference DEF n
  <2>3. QED
    BY <1>2, <1>4, <2>2
<1>6. \A k \in P \ E : k > j
  <2>1. SUFFICES ASSUME NEW k \in P \ E PROVE k > j
    OBVIOUS
  <2>2. j \in E /\ j \in P /\ j \in Int /\ k \in Int /\ j # k
    <3>1. j \in E
      BY DEF E
    <3>2. \A i \in P : i \in Int
      BY <1>1, BoundsAssumption DEF JobIds, BoundsAssumption
    <3>3. QED
      BY <1>1, <2>1, <3>1, <3>2
  <2>3. CASE k \in F
    <3>1. ~(Rank(F, k) < n - MaxJobs) /\ Rank(F, k) \in 0..(Cardinality(F) - 1)
      BY <1>1, <2>1, <2>3, RankBounds
    <3>2. k < j => Rank(F, k) < Rank(F, j)
      BY <1>1, <1>3, <2>3, RankGrows
    <3>3. QED
      BY <1>2, <1>3, <2>2, <3>1, <3>2
  <2>4. CASE k \notin F
    BY <2>2, <2>4 DEF Chronology, F, P
  <2>5. QED
    BY <2>3, <2>4
<1>7. QED
  BY <1>1, <1>5, <1>6 DEF E

\* Dropping jobs leaves the others in order.
LEMMA DroppingKeepsOrder ==
    ASSUME NEW js, Chronology(js), NEW ks,
           \A j \in JobIds : ks[j] = js[j] \/ ks[j] = Absent
    PROVE  Chronology(ks)
<1>1. \A j \in JobIds : ks[j].status # "absent" => ks[j] = js[j]
  BY DEF Absent
<1>2. \A j \in Present(ks) : j \in Present(js) /\ ks[j] = js[j]
  BY <1>1 DEF Present
<1>3. \A j \in Finished(ks) : j \in Finished(js) /\ ks[j] = js[j]
  BY <1>1 DEF Finished
<1>4. \A j \in Present(ks) : j \in Finished(js) => j \in Finished(ks)
  BY <1>2 DEF Present, Finished
<1>5. QED
  BY <1>2, <1>3, <1>4 DEF Chronology

\* _reap trims a registry in which nothing runs.
LEMMA ReapTrims ==
    ASSUME NEW js \in [JobIds -> Job], Running(js) = {}
    PROVE  Cardinality(Present(Reap(js))) <= MaxJobs
<1> DEFINE fresh == Drop(js, Expired(js))
<1>1. Absent \in Job /\ Absent.status = "absent"
  BY BoundsAssumption DEF Absent, Job, Statuses, Times, BoundsAssumption
<1>2. fresh \in [JobIds -> Job]
  BY <1>1 DEF Drop
<1>3. Running(fresh) = {}
  BY <1>1 DEF Running, Drop
<1>4. Reap(js) = Drop(fresh, Excess(fresh))
  BY DEF Reap
<1> HIDE DEF fresh
<1>5. QED
  BY <1>2, <1>3, <1>4, Trimmed

\* Some job of a set is the newest of it.
LEMMA Newest ==
    ASSUME NEW S \in SUBSET JobIds, S # {}
    PROVE  \E j \in S : \A k \in S : j >= k
<1> DEFINE R == OpToRel(<, Nat)
           T == {MaxScans - j : j \in S}
<1>1. \A j \in S : j \in Int /\ MaxScans - j \in Nat
  BY BoundsAssumption DEF JobIds, BoundsAssumption
<1>2. \A x, y \in Nat : x < y => <<x, y>> \in R
  BY DEF OpToRel
<1>3. T \subseteq Nat /\ T # {}
  BY <1>1
<1> HIDE DEF R
<1>4. \E x \in T : \A y \in T : <<y, x>> \notin R
  BY <1>3, NatLessThanWellFounded, WFMin DEF R
<1>5. PICK j \in S : \A y \in T : <<y, MaxScans - j>> \notin R
  BY <1>4
<1>6. \A k \in S : ~(MaxScans - k < MaxScans - j)
  BY <1>1, <1>2, <1>5
<1>7. QED
  BY <1>1, <1>6, BoundsAssumption DEF BoundsAssumption

\* The job that latest_job chooses
Latest(js) == CHOOSE j \in Present(js) : \A k \in Present(js) : After(js, j, k)

\* In a registry in order it is the newest.
LEMMA NewestIsLatest ==
    ASSUME NEW js \in [JobIds -> Job], Chronology(js), Present(js) # {}
    PROVE  Latest(js) \in Present(js) /\ \A k \in Present(js) : Latest(js) >= k
<1>1. Present(js) \in SUBSET JobIds
  BY DEF Present
<1>2. PICK newest \in Present(js) : \A k \in Present(js) : newest >= k
  BY <1>1, Newest
<1>3. \A j \in Present(js) : j \in Int /\ js[j].started \in Int /\ js[j].finished \in Int
  BY <1>1, BoundsAssumption DEF JobIds, Job, Times, BoundsAssumption
<1>4. \A j, k \in Present(js) : j < k => Key(js, k) >= Key(js, j)
  BY <1>3 DEF Chronology, Key
<1>5. \A j \in Present(js) : Key(js, j) \in Int
  BY <1>3 DEF Key
<1>6. \A k \in Present(js) : After(js, newest, k)
  <2>1. SUFFICES ASSUME NEW k \in Present(js) PROVE After(js, newest, k)
    OBVIOUS
  <2>2. k < newest \/ k = newest
    BY <1>2, <1>3
  <2>3. QED
    BY <1>2, <1>3, <1>4, <1>5, <2>2 DEF After
<1>7. Latest(js) \in Present(js) /\ \A k \in Present(js) : After(js, Latest(js), k)
  BY <1>6 DEF Latest
<1>8. After(js, Latest(js), newest)
  BY <1>7
<1>9. Latest(js) = newest
  <2>1. Latest(js) < newest \/ Latest(js) = newest
    BY <1>2, <1>3, <1>7
  <2>2. QED
    BY <1>3, <1>4, <1>5, <1>7, <1>8, <2>1 DEF After
<1>10. QED
  BY <1>2, <1>9

---------------------------------------------------------------------------
(* The invariant.                                                          *)

LEMMA RegistryInvInit == Init => RegistryInv
<1> SUFFICES ASSUME Init PROVE RegistryInv
  OBVIOUS
<1>1. Absent \in Job /\ Absent.status = "absent" /\ 0 \in Times /\ NoJob \notin JobIds
  BY BoundsAssumption DEF Absent, Job, Statuses, Times, NoJob, JobIds, BoundsAssumption
<1>2. Present(jobs) = {} /\ Running(jobs) = {}
  BY <1>1 DEF Init, Present, Running
<1>3. Cardinality(Present(jobs)) <= MaxJobs + 1
  BY <1>2, FS_EmptySet, BoundsAssumption DEF BoundsAssumption
<1>4. TypeOK
  <2>1. /\ clock \in Times /\ jobs \in [JobIds -> Job] /\ last \in JobIds \cup {NoJob}
        /\ thread \in [JobIds -> {"none", "scanning", "ended"}] /\ faults \in Nat
    BY <1>1, BoundsAssumption DEF Init, BoundsAssumption
  <2>2. /\ pc \in [Clients -> {"idle", "spawn", "newest"}]
        /\ job \in [Clients -> JobIds \cup {NoJob}]
        /\ reply \in [Clients -> JobIds \cup {NoJob}]
    BY DEF Init
  <2>3. QED
    BY <1>3, <2>1, <2>2 DEF TypeOK
<1>5. Registered /\ ScanningRuns /\ OneRuns /\ InOrder /\ Chronology(jobs)
  <2>1. Finished(jobs) = {}
    BY <1>1 DEF Init, Finished
  <2>2. QED
    BY <1>1, <1>2, <2>1 DEF Init, Registered, ScanningRuns, OneRuns, InOrder, Chronology
<1>6. QED
  BY <1>4, <1>5 DEF RegistryInv

\* A registry of which finished jobs are dropped
LEMMA ReapedJobs ==
    ASSUME RegistryInv, jobs' = Reap(jobs)
    PROVE  /\ jobs' \in [JobIds -> Job] /\ Running(jobs') = Running(jobs)
           /\ \A j \in JobIds : jobs[j].status = "running" => jobs'[j].status = "running"
           /\ \A j \in JobIds : jobs[j].status = "absent" => jobs'[j].status = "absent"
           /\ Cardinality(Present(jobs')) <= MaxJobs + 1
           /\ Chronology(jobs')
<1>1. jobs \in [JobIds -> Job] /\ Cardinality(Present(jobs)) <= MaxJobs + 1
  BY DEF RegistryInv, TypeOK
<1>2. Present(jobs) \in SUBSET JobIds /\ Present(jobs') \in SUBSET Present(jobs)
  BY <1>1, ReapDrops DEF Present
<1>3. Cardinality(Present(jobs')) <= MaxJobs + 1
  BY <1>1, <1>2, JobSets, BoundsAssumption DEF BoundsAssumption
<1>4. Chronology(jobs')
  BY <1>1, ReapDrops, DroppingKeepsOrder DEF RegistryInv
<1>5. QED
  BY <1>1, <1>3, <1>4, ReapDrops DEF Running, Absent

\* A call that reaps and starts nothing
LEMMA ReapStep ==
    ASSUME RegistryInv, jobs' \in {jobs, Reap(jobs)},
           NEW c \in Clients, NEW place \in {"idle", "newest"}, pc[c] # "spawn",
           pc' = [pc EXCEPT ![c] = place], reply' \in [Clients -> JobIds \cup {NoJob}],
           UNCHANGED <<clock, last, thread, job, faults>>
    PROVE  RegistryInv'
<1>1. /\ jobs' \in [JobIds -> Job] /\ Running(jobs') = Running(jobs)
      /\ \A j \in JobIds : jobs[j].status = "running" => jobs'[j].status = "running"
      /\ \A j \in JobIds : jobs[j].status = "absent" => jobs'[j].status = "absent"
      /\ Cardinality(Present(jobs')) <= MaxJobs + 1
  BY ReapedJobs DEF RegistryInv, TypeOK
<1>2. TypeOK'
  BY <1>1 DEF RegistryInv, TypeOK
<1>3. Registered'
  BY <1>1 DEF RegistryInv, TypeOK, Registered
<1>4. ScanningRuns' /\ OneRuns' /\ InOrder'
  BY <1>1 DEF RegistryInv, ScanningRuns, OneRuns, InOrder
<1>5. Chronology(jobs)'
  <2>1. Chronology(jobs') /\ clock' = clock
    BY ReapedJobs DEF RegistryInv
  <2>2. QED
    BY <2>1 DEF Chronology
<1>6. QED
  BY <1>2, <1>3, <1>4, <1>5 DEF RegistryInv

LEMMA RegisterStep ==
    ASSUME RegistryInv, NEW c \in Clients, Register(c)
    PROVE  RegistryInv'
<1>1. CASE Running(Reap(jobs)) # {}
  <2>1. pc' = [pc EXCEPT ![c] = "idle"] /\ jobs' = Reap(jobs)
        /\ reply' \in [Clients -> JobIds \cup {NoJob}]
    BY <1>1 DEF Register, RegistryInv, TypeOK
  <2>2. QED
    BY <1>1, <2>1, ReapStep DEF Register
<1>2. CASE Running(Reap(jobs)) = {}
  <2> DEFINE new == last + 1
             kept == Reap(jobs)
  <2>1. /\ jobs' = [kept EXCEPT ![new] = NewJob] /\ last' = new
        /\ job' = [job EXCEPT ![c] = new] /\ pc' = [pc EXCEPT ![c] = "spawn"]
        /\ UNCHANGED <<clock, thread, reply, faults>> /\ pc[c] = "idle" /\ last < MaxScans
    BY <1>2 DEF Register, Go
  <2>2. /\ kept \in [JobIds -> Job] /\ Running(kept) = {} /\ Running(jobs) = {}
        /\ Present(kept) \subseteq Present(jobs) /\ jobs \in [JobIds -> Job]
    BY <1>2, ReapDrops DEF RegistryInv, TypeOK
  <2>3. Cardinality(Present(kept)) <= MaxJobs
    BY <2>2, ReapTrims
  <2> HIDE DEF kept
  <2>4. new \in JobIds /\ new # NoJob /\ new > last
    BY <2>1, BoundsAssumption DEF RegistryInv, TypeOK, JobIds, NoJob, BoundsAssumption
  <2>5. NewJob \in Job /\ NewJob.status = "running"
    BY BoundsAssumption DEF NewJob, Job, Statuses, Times, RegistryInv, TypeOK, BoundsAssumption
  <2>6. \A d \in Clients : job[d] = NoJob
    <3>1. \A d \in Clients : job[d] # NoJob => job[d] \in Running(jobs)
      BY DEF RegistryInv, Registered, TypeOK, Running
    <3>2. QED
      BY <2>2, <3>1
  <2>7. \A j \in JobIds : thread[j] # "scanning"
    BY <2>2 DEF RegistryInv, ScanningRuns, Running
  <2>8. thread[new] = "none"
    BY <2>4 DEF RegistryInv, InOrder
  <2>9. \A j \in JobIds : jobs'[j] = IF j = new THEN NewJob ELSE kept[j]
    BY <2>1, <2>2
  <2>10. TypeOK'
    <3>1. Present(jobs') = Present(kept) \cup {new}
      BY <2>4, <2>5, <2>9 DEF Present
    <3>2. IsFiniteSet(Present(kept)) /\ Cardinality(Present(kept)) \in Nat
      <4>1. Present(kept) \in SUBSET JobIds
        BY DEF Present
      <4>2. QED
        BY <4>1, JobSets
    <3>3. Cardinality(Present(jobs'))
            = IF new \in Present(kept) THEN Cardinality(Present(kept))
              ELSE Cardinality(Present(kept)) + 1
      BY <3>1, <3>2, FS_AddElement
    <3>4. Cardinality(Present(jobs')) <= MaxJobs + 1
      BY <2>3, <3>2, <3>3, BoundsAssumption DEF BoundsAssumption
    <3>5. jobs' \in [JobIds -> Job]
      BY <2>1, <2>2, <2>5
    <3>6. QED
      BY <2>1, <2>4, <3>4, <3>5 DEF RegistryInv, TypeOK
  <2>11. Registered'
    <3>1. \A d \in Clients : job'[d] = IF d = c THEN new ELSE NoJob
      BY <2>1, <2>6 DEF RegistryInv, TypeOK
    <3>2. \A d \in Clients : pc'[d] = IF d = c THEN "spawn" ELSE pc[d]
      BY <2>1 DEF RegistryInv, TypeOK
    <3>3. jobs'[new].status = "running" /\ thread'[new] = "none"
      BY <2>1, <2>4, <2>5, <2>8, <2>9
    <3>4. \A d \in Clients : pc[d] # "spawn"
      BY <2>6 DEF RegistryInv, Registered
    <3>5. QED
      BY <2>4, <3>1, <3>2, <3>3, <3>4 DEF Registered
  <2>12. ScanningRuns'
    BY <2>1, <2>7 DEF ScanningRuns
  <2>13. OneRuns'
    <3>1. Running(jobs') \subseteq {new}
      BY <2>2, <2>9 DEF Running
    <3>2. QED
      BY <3>1 DEF OneRuns
  <2>14. InOrder'
    <3>1. SUFFICES ASSUME NEW j \in JobIds, j > new
                   PROVE  jobs'[j].status = "absent" /\ thread[j] = "none"
      BY <2>1 DEF InOrder
    <3>2. j > last /\ j # new
      BY <2>4, <3>1, BoundsAssumption DEF RegistryInv, TypeOK, JobIds, NoJob, BoundsAssumption
    <3>3. j \notin Present(kept) /\ thread[j] = "none"
      BY <2>2, <3>2 DEF RegistryInv, InOrder, Present
    <3>4. QED
      BY <2>9, <3>2, <3>3 DEF Present
  <2>15. Chronology(jobs)'
    <3>1. Chronology(kept)
      BY ReapDrops, DroppingKeepsOrder DEF kept, RegistryInv, TypeOK
    <3>2. \A j \in Present(kept) : j \in Finished(kept) /\ kept[j].finished <= clock /\ j <= last
      <4>1. \A j \in Present(kept) : j \in Finished(kept)
        BY <2>2 DEF Present, Finished, Running, Job, Statuses
      <4>2. \A j \in Present(kept) : ~(j > last)
        BY <2>2 DEF RegistryInv, InOrder, Present
      <4>3. \A j \in Present(kept) : j \in Int /\ last \in Int
        BY BoundsAssumption DEF Present, JobIds, NoJob, RegistryInv, TypeOK, BoundsAssumption
      <4>4. QED
        BY <3>1, <4>1, <4>2, <4>3 DEF Chronology
    <3>3. NewJob.started = clock /\ NewJob.status = "running" /\ clock \in Int /\ last \in Int
      BY BoundsAssumption
      DEF NewJob, RegistryInv, TypeOK, Times, JobIds, NoJob, BoundsAssumption
    <3>4. \A j \in Present(jobs') : j = new \/ (j \in Present(kept) /\ j # new)
      BY <2>9 DEF Present
    <3>5. \A j \in Finished(jobs') : j # new /\ j \in Finished(kept)
      BY <2>9, <3>3 DEF Finished
    <3>6. \A j \in Present(kept) : j # new /\ j < new /\ jobs'[j] = kept[j]
      <4>1. SUFFICES ASSUME NEW j \in Present(kept)
                     PROVE  j # new /\ j < new /\ jobs'[j] = kept[j]
        OBVIOUS
      <4>2. j \in JobIds /\ j <= last /\ j \in Int
        BY <3>2, BoundsAssumption DEF Present, JobIds, BoundsAssumption
      <4>3. QED
        BY <2>9, <3>3, <4>2
    <3>7. \A j \in Present(kept) : j \in Finished(jobs')
      BY <3>2, <3>6 DEF Finished
    <3>8. jobs'[new] = NewJob
      BY <2>4, <2>9
    <3> HIDE DEF new
    <3>9. \A j \in Present(jobs') : jobs'[j].started <= clock
      BY <3>1, <3>3, <3>4, <3>6, <3>8 DEF Chronology
    <3>10. \A j \in Finished(jobs') :
              jobs'[j].started <= jobs'[j].finished /\ jobs'[j].finished <= clock
      <4>1. \A j \in Finished(jobs') : j \in Present(kept)
        BY <3>5 DEF Finished, Present
      <4>2. QED
        BY <3>1, <3>5, <3>6, <4>1 DEF Chronology
    <3>11. \A j, k \in Present(jobs') :
              j < k => j \in Finished(jobs') /\ jobs'[j].finished <= jobs'[k].started
      <4>1. SUFFICES ASSUME NEW j \in Present(jobs'), NEW k \in Present(jobs'), j < k
                     PROVE  j \in Finished(jobs') /\ jobs'[j].finished <= jobs'[k].started
        OBVIOUS
      <4>2. new \in Int /\ \A i \in Present(kept) : i \in Int
        BY <2>4, BoundsAssumption DEF Present, JobIds, BoundsAssumption
      <4>3. j \in Present(kept)
        BY <3>4, <3>6, <4>1, <4>2
      <4>4. CASE k = new
        BY <3>2, <3>3, <3>6, <3>7, <3>8, <4>3, <4>4
      <4>5. CASE k \in Present(kept)
        BY <3>1, <3>6, <3>7, <4>1, <4>3, <4>5 DEF Chronology
      <4>6. QED
        BY <3>4, <4>4, <4>5
    <3>12. QED
      BY <2>1, <3>9, <3>10, <3>11 DEF Chronology
  <2>16. QED
    BY <2>10, <2>11, <2>12, <2>13, <2>14, <2>15 DEF RegistryInv
<1>3. QED
  BY <1>1, <1>2

LEMMA SpawnStep ==
    ASSUME RegistryInv, NEW c \in Clients, Spawn(c)
    PROVE  RegistryInv'
<1> DEFINE j == job[c]
<1>1. /\ j \in JobIds /\ j # NoJob /\ jobs[j].status = "running" /\ thread[j] = "none"
      /\ \A d \in Clients : d # c => job[d] # j
  BY DEF Spawn, RegistryInv, TypeOK, Registered
<1>2. /\ UNCHANGED <<clock, jobs, last, reply>> /\ faults' \in Nat
      /\ thread' \in {thread, [thread EXCEPT ![j] = "scanning"]}
      /\ job' = [job EXCEPT ![c] = NoJob] /\ pc' = [pc EXCEPT ![c] = "idle"]
  BY DEF Spawn, Go, RegistryInv, TypeOK
<1> HIDE DEF j
<1>3. TypeOK'
  <2>1. thread' \in [JobIds -> {"none", "scanning", "ended"}]
    BY <1>2 DEF RegistryInv, TypeOK
  <2>2. QED
    BY <1>2, <2>1 DEF RegistryInv, TypeOK
<1>4. \A d \in Clients : /\ job'[d] = IF d = c THEN NoJob ELSE job[d]
                         /\ pc'[d] = IF d = c THEN "idle" ELSE pc[d]
  BY <1>2 DEF RegistryInv, TypeOK
<1>5. \A k \in JobIds : k # j => thread'[k] = thread[k]
  BY <1>2 DEF RegistryInv, TypeOK
<1>6. Registered'
  <2>1. \A d \in Clients : job[d] \in JobIds \/ job[d] = NoJob
    BY DEF RegistryInv, TypeOK
  <2>2. QED
    BY <1>1, <1>2, <1>4, <1>5, <2>1 DEF RegistryInv, Registered
<1>7. ScanningRuns'
  BY <1>1, <1>2, <1>5 DEF RegistryInv, ScanningRuns
<1>8. OneRuns' /\ InOrder'
  <2>1. ~(j > last)
    BY <1>1 DEF RegistryInv, InOrder
  <2>2. QED
    BY <1>2, <1>5, <2>1 DEF RegistryInv, OneRuns, InOrder
<1>9. Chronology(jobs)'
  BY <1>2 DEF RegistryInv, Chronology
<1>10. QED
  BY <1>3, <1>6, <1>7, <1>8, <1>9 DEF RegistryInv

LEMMA FinishStep ==
    ASSUME RegistryInv, NEW j \in JobIds, Finish(j)
    PROVE  RegistryInv'
<1>1. /\ thread[j] = "scanning" /\ jobs[j].status = "running"
      /\ thread' = [thread EXCEPT ![j] = "ended"]
      /\ UNCHANGED <<clock, last, pc, job, reply, faults>>
  BY DEF Finish, RegistryInv, ScanningRuns
<1>2. PICK outcome \in {"done", "error"} :
         jobs' = [jobs EXCEPT ![j].status = outcome, ![j].finished = clock]
  BY <1>1 DEF Finish
<1>3. /\ jobs \in [JobIds -> Job] /\ clock \in Times
      /\ thread \in [JobIds -> {"none", "scanning", "ended"}]
  BY DEF RegistryInv, TypeOK
<1>4. /\ jobs' \in [JobIds -> Job]
      /\ \A k \in JobIds : jobs'[k].status = IF k = j THEN outcome ELSE jobs[k].status
  BY <1>2, <1>3 DEF Job, Statuses
<1>5. \A k \in JobIds : thread'[k] = IF k = j THEN "ended" ELSE thread[k]
  BY <1>1, <1>3
<1>6. TypeOK'
  <2>1. Present(jobs') = Present(jobs)
    BY <1>1, <1>4 DEF Present
  <2>2. QED
    BY <1>1, <1>3, <1>4, <2>1 DEF RegistryInv, TypeOK
<1>7. Registered'
  <2>1. \A d \in Clients : job[d] # j
    BY <1>1, BoundsAssumption DEF RegistryInv, Registered, JobIds, NoJob, BoundsAssumption
  <2>2. \A d \in Clients : job[d] \in JobIds \/ job[d] = NoJob
    BY DEF RegistryInv, TypeOK
  <2>3. QED
    BY <1>1, <1>4, <1>5, <2>1, <2>2 DEF RegistryInv, Registered
<1>8. ScanningRuns'
  BY <1>4, <1>5 DEF RegistryInv, ScanningRuns
<1>9. OneRuns'
  BY <1>4 DEF RegistryInv, OneRuns, Running
<1>10. InOrder'
  BY <1>1, <1>4, <1>5 DEF RegistryInv, InOrder
<1>11. Chronology(jobs)'
  <2>1. \A k \in JobIds : /\ jobs'[k].started = jobs[k].started
                          /\ jobs'[k].finished = IF k = j THEN clock ELSE jobs[k].finished
    BY <1>2, <1>3 DEF Job
  <2>2. Present(jobs') = Present(jobs) /\ Finished(jobs') = Finished(jobs) \cup {j}
        /\ j \in Present(jobs) /\ j \notin Finished(jobs)
    BY <1>1, <1>4 DEF Present, Finished
  <2>3. \A k \in Present(jobs) : ~(j < k)
    BY <2>2 DEF RegistryInv, Chronology
  <2>4. jobs[j].started <= clock /\ clock <= clock
    BY <1>3, <2>2, BoundsAssumption DEF RegistryInv, Chronology, Times, BoundsAssumption
  <2>5. \A k \in Present(jobs') : k \in JobIds
    BY DEF Present
  <2>6. \A k \in Present(jobs') : jobs'[k].started <= clock
    BY <2>1, <2>2, <2>5 DEF RegistryInv, Chronology
  <2>7. \A k \in Finished(jobs') :
           jobs'[k].started <= jobs'[k].finished /\ jobs'[k].finished <= clock
    <3>1. \A k \in Finished(jobs) : k \in JobIds /\ k # j
      BY <2>2 DEF Finished
    <3>2. QED
      BY <2>1, <2>2, <2>4, <3>1 DEF RegistryInv, Chronology
  <2>8. \A i, k \in Present(jobs') :
           i < k => i \in Finished(jobs') /\ jobs'[i].finished <= jobs'[k].started
    <3>1. SUFFICES ASSUME NEW i \in Present(jobs'), NEW k \in Present(jobs'), i < k
                   PROVE  i \in Finished(jobs') /\ jobs'[i].finished <= jobs'[k].started
      OBVIOUS
    <3>2. i # j /\ i \in JobIds /\ k \in JobIds
      BY <2>2, <2>3, <2>5, <3>1
    <3>3. i \in Finished(jobs) /\ jobs[i].finished <= jobs[k].started
      BY <2>2, <3>1 DEF RegistryInv, Chronology
    <3>4. QED
      BY <2>1, <2>2, <3>2, <3>3
  <2>9. QED
    BY <1>1, <2>6, <2>7, <2>8 DEF Chronology
<1>12. QED
  BY <1>6, <1>7, <1>8, <1>9, <1>10, <1>11 DEF RegistryInv

LEMMA RegistryInvStep == RegistryInv /\ [Next]_vars => RegistryInv'
<1> SUFFICES ASSUME RegistryInv, [Next]_vars PROVE RegistryInv'
  OBVIOUS
<1>1. ASSUME NEW c \in Clients, Poll(c) PROVE RegistryInv'
  <2>1. pc' = [pc EXCEPT ![c] = "idle"] /\ reply' \in [Clients -> JobIds \cup {NoJob}]
    BY <1>1 DEF Poll, RegistryInv, TypeOK
  <2>2. QED
    BY <1>1, <2>1, ReapStep DEF Poll
<1>2. ASSUME NEW c \in Clients, LatestRunning(c) PROVE RegistryInv'
  <2>1. CASE Running(jobs) # {}
    <3>1. (CHOOSE j \in Running(jobs) : TRUE) \in JobIds
      BY <2>1 DEF Running
    <3>2. pc' = [pc EXCEPT ![c] = "idle"] /\ reply' \in [Clients -> JobIds \cup {NoJob}]
      BY <1>2, <2>1, <3>1 DEF LatestRunning, RegistryInv, TypeOK
    <3>3. QED
      BY <1>2, <3>2, ReapStep DEF LatestRunning
  <2>2. CASE Running(jobs) = {}
    <3>1. pc' = [pc EXCEPT ![c] = "newest"] /\ reply' \in [Clients -> JobIds \cup {NoJob}]
      BY <1>2, <2>2 DEF LatestRunning, Go, RegistryInv, TypeOK
    <3>2. QED
      BY <1>2, <3>1, ReapStep DEF LatestRunning
  <2>3. QED
    BY <2>1, <2>2
<1>3. CASE \E j \in JobIds : Finish(j)
  BY <1>3, FinishStep
<1>4. CASE Tick
  <2>1. clock' \in Times /\ UNCHANGED <<jobs, last, thread, pc, job, reply, faults>>
    BY <1>4, BoundsAssumption DEF Tick, Times, RegistryInv, TypeOK, BoundsAssumption
  <2>2. clock \in Int /\ clock' = clock + 1 /\ jobs \in [JobIds -> Job]
    BY <1>4, BoundsAssumption DEF Tick, Times, RegistryInv, TypeOK, BoundsAssumption
  <2>3. \A j \in JobIds : jobs[j].started \in Int /\ jobs[j].finished \in Int
    BY <2>2, BoundsAssumption DEF Job, Times, BoundsAssumption
  <2>4. Chronology(jobs)'
    BY <2>1, <2>2, <2>3 DEF RegistryInv, Chronology, Present, Finished
  <2>5. QED
    BY <2>1, <2>4 DEF RegistryInv, TypeOK, Registered, ScanningRuns, OneRuns, InOrder
<1>5. CASE UNCHANGED vars
  BY <1>5 DEF vars, RegistryInv, TypeOK, Registered, ScanningRuns, OneRuns, InOrder, Chronology
<1>6. ASSUME NEW c \in Clients, LatestFinished(c) PROVE RegistryInv'
  <2>1. jobs' \in [JobIds -> Job] /\ Chronology(jobs')
    BY <1>6, ReapedJobs DEF LatestFinished
  <2>2. Present(jobs') # {} => Latest(jobs') \in JobIds
    BY <2>1, NewestIsLatest DEF Present
  <2>3. /\ pc' = [pc EXCEPT ![c] = "idle"] /\ pc[c] # "spawn"
        /\ reply' \in [Clients -> JobIds \cup {NoJob}]
    BY <1>6, <2>2 DEF LatestFinished, Go, Latest, RegistryInv, TypeOK
  <2>4. QED
    BY <1>6, <2>3, ReapStep DEF LatestFinished
<1>7. QED
  BY <1>1, <1>2, <1>3, <1>4, <1>5, <1>6, RegisterStep, SpawnStep DEF Next, Client

\* What scans is a running job, of which there is one, and jobs follow one another.
THEOREM RegistryInvariant == Spec => []RegistryInv
  BY RegistryInvInit, RegistryInvStep, PTL DEF Spec

---------------------------------------------------------------------------
(* What the registry promises.                                             *)

\* "Single-flight" and "Bounded": one scan at a time, one job more than _MAX_JOBS.
THEOREM RegistryHoldsAlways == Spec => []RegistryHolds
<1>1. ASSUME RegistryInv PROVE RegistryHolds
  <2>1. \A j \in Scanning : j \in Running(jobs)
    <3>1. \A j \in JobIds : thread[j] = "scanning" => j \in Running(jobs)
      BY <1>1 DEF RegistryInv, ScanningRuns, Running
    <3>2. \A c \in Clients : job[c] \in JobIds => job[c] \in Running(jobs)
      BY <1>1, BoundsAssumption
      DEF RegistryInv, Registered, Running, JobIds, NoJob, BoundsAssumption
    <3>3. QED
      BY <3>1, <3>2 DEF Scanning
  <2>2. \A j, k \in Scanning : j = k
    BY <1>1, <2>1 DEF RegistryInv, OneRuns
  <2>3. CASE Scanning = {}
    BY <1>1, <2>3, FS_EmptySet DEF RegistryInv, RegistryHolds, SingleFlight
  <2>4. CASE Scanning # {}
    <3>1. PICK j : Scanning = {j}
      BY <2>2, <2>4
    <3>2. Cardinality(Scanning) = 1
      BY <3>1, FS_Singleton
    <3>3. QED
      BY <1>1, <3>2 DEF RegistryInv, RegistryHolds, SingleFlight
  <2>5. QED
    BY <2>3, <2>4
<1>2. QED
  BY <1>1, RegistryInvariant, PTL

\* Who leaves the registry when it is reaped
LEMMA ReapedOnlyThen ==
    ASSUME NEW js \in [JobIds -> Job], Chronology(js), NEW j \in Present(js),
           Reap(js)[j].status = "absent"
    PROVE  /\ j \in Finished(js)
           /\ \/ clock - js[j].finished > TTL
              \/ /\ Cardinality(Present(Reap(js))) >= MaxJobs
                 /\ \A k \in Present(Reap(js)) : k > j
<1> DEFINE fresh == Drop(js, Expired(js))
<1>1. Reap(js) = Drop(fresh, Excess(fresh)) /\ j \in JobIds /\ js[j].status # "absent"
  BY DEF Reap, Present
<1>2. fresh = [i \in JobIds |-> IF i \in Expired(js) THEN Absent ELSE js[i]]
  BY DEF Drop
<1>3. Absent \in Job /\ Absent.status = "absent"
  BY BoundsAssumption DEF Absent, Job, Statuses, Times, BoundsAssumption
<1>4. fresh \in [JobIds -> Job] /\ Chronology(fresh)
  <2>1. fresh \in [JobIds -> Job] /\ \A i \in JobIds : fresh[i] = js[i] \/ fresh[i] = Absent
    BY <1>2, <1>3
  <2>2. QED
    BY <2>1, DroppingKeepsOrder
<1> HIDE DEF fresh
<1>5. CASE j \in Expired(js)
  BY <1>5 DEF Expired
<1>6. CASE j \notin Expired(js)
  <2>1. fresh[j] = js[j]
    BY <1>1, <1>2, <1>6
  <2>2. j \in Excess(fresh)
    BY <1>1, <2>1 DEF Drop
  <2>3. j \in Finished(js)
    BY <1>1, <2>1, <2>2 DEF Excess, Finished
  <2>4. QED
    BY <1>1, <1>4, <2>2, <2>3, LaterKept
<1>7. QED
  BY <1>5, <1>6

\* A page finds its scan: a running job is never reaped and a finished one only when its
\* time is over or _MAX_JOBS later ones are left; and the latest is the newest job.
THEOREM ScansAreFoundHolds == Spec => ScansAreFound
<1>1. ASSUME RegistryInv, [Next]_vars, NEW j \in Present(jobs), jobs'[j].status = "absent"
      PROVE  /\ j \in Finished(jobs)
             /\ \/ clock - jobs[j].finished > TTL
                \/ Cardinality({k \in Present(jobs') : k > j}) >= MaxJobs
  <2>1. jobs \in [JobIds -> Job] /\ Chronology(jobs) /\ j \in JobIds
        /\ jobs[j].status # "absent"
    BY <1>1 DEF RegistryInv, TypeOK, Present
  <2>2. \/ jobs' = Reap(jobs)
        \/ last + 1 \in JobIds /\ jobs' = [Reap(jobs) EXCEPT ![last + 1] = NewJob]
    <3>1. jobs' # jobs
      BY <1>1, <2>1
    <3>2. \A i \in JobIds : ~Finish(i)
      <4>1. SUFFICES ASSUME NEW i \in JobIds, Finish(i) PROVE FALSE
        OBVIOUS
      <4>2. PICK outcome \in {"done", "error"} :
               jobs' = IF jobs[i].status = "absent" THEN jobs
                       ELSE [jobs EXCEPT ![i].status = outcome, ![i].finished = clock]
        BY <4>1 DEF Finish
      <4>3. jobs' = [jobs EXCEPT ![i].status = outcome, ![i].finished = clock]
        BY <3>1, <4>2
      <4>4. jobs'[j].status = IF i = j THEN outcome ELSE jobs[j].status
        BY <2>1, <4>3 DEF Job
      <4>5. QED
        BY <1>1, <2>1, <4>4
    <3>3. \E c \in Clients : Register(c) \/ Poll(c) \/ LatestFinished(c)
      BY <1>1, <3>1, <3>2 DEF Next, Client, Spawn, LatestRunning, Tick, vars
    <3>4. last < MaxScans => last + 1 \in JobIds
      BY <1>1, BoundsAssumption DEF RegistryInv, TypeOK, JobIds, NoJob, BoundsAssumption
    <3>5. QED
      BY <3>3, <3>4 DEF Register, Poll, LatestFinished
  <2>3. Reap(jobs)[j].status = "absent" /\ Present(Reap(jobs)) \subseteq Present(jobs')
        /\ Reap(jobs) \in [JobIds -> Job]
    <3>1. Reap(jobs) \in [JobIds -> Job]
      BY <2>1, ReapDrops
    <3>2. NewJob.status = "running"
      BY DEF NewJob
    <3>3. QED
      BY <1>1, <2>1, <2>2, <3>1, <3>2 DEF Present
  <2>4. /\ j \in Finished(jobs)
        /\ \/ clock - jobs[j].finished > TTL
           \/ /\ Cardinality(Present(Reap(jobs))) >= MaxJobs
              /\ \A k \in Present(Reap(jobs)) : k > j
    BY <1>1, <2>1, <2>3, ReapedOnlyThen
  <2>5. CASE Cardinality(Present(Reap(jobs))) >= MaxJobs
             /\ \A k \in Present(Reap(jobs)) : k > j
    <3> DEFINE later == {k \in Present(jobs') : k > j}
    <3>1. later \in SUBSET JobIds /\ Present(Reap(jobs)) \in SUBSET later
      BY <2>3, <2>5 DEF Present
    <3>2. /\ Cardinality(Present(Reap(jobs))) <= Cardinality(later)
          /\ Cardinality(Present(Reap(jobs))) \in Nat /\ Cardinality(later) \in Nat
      BY <3>1, JobSets
    <3>3. Cardinality(later) >= MaxJobs
      BY <2>5, <3>2, BoundsAssumption DEF BoundsAssumption
    <3>4. QED
      BY <2>4, <3>3
  <2>6. QED
    BY <2>4, <2>5
<1>2. ASSUME RegistryInv, [Next]_vars, NEW c \in Clients, pc[c] = "newest", pc'[c] = "idle",
             NEW j \in Present(jobs')
      PROVE  reply'[c] >= j
  <2>1. LatestFinished(c)
    <3>1. pc \in [Clients -> {"idle", "spawn", "newest"}]
      BY <1>2 DEF RegistryInv, TypeOK
    <3>2. \A d \in Clients : ~(Register(d) \/ Spawn(d) \/ Poll(d) \/ LatestRunning(d))
      BY <1>2, <3>1 DEF Register, Spawn, Poll, LatestRunning, Go
    <3>3. \A d \in Clients : LatestFinished(d) => d = c
      BY <1>2, <3>1 DEF LatestFinished, Go
    <3>4. QED
      BY <1>2, <3>2, <3>3 DEF Next, Client, Finish, Tick, vars
  <2>2. jobs' \in [JobIds -> Job] /\ Chronology(jobs')
    BY <1>2, <2>1, ReapedJobs DEF LatestFinished
  <2>3. reply'[c] = Latest(jobs')
    BY <1>2, <2>1 DEF LatestFinished, Latest, RegistryInv, TypeOK
  <2>4. QED
    BY <1>2, <2>2, <2>3, NewestIsLatest
<1>3. RegistryInv /\ [Next]_vars
        => [\A j \in Present(jobs) :
               jobs'[j].status = "absent" =>
                  /\ j \in Finished(jobs)
                  /\ \/ clock - jobs[j].finished > TTL
                     \/ Cardinality({k \in Present(jobs') : k > j}) >= MaxJobs]_vars
  BY <1>1
<1>4. RegistryInv /\ [Next]_vars
        => [\A c \in Clients :
               (pc[c] = "newest" /\ pc'[c] = "idle") =>
                  \A j \in Present(jobs') : reply'[c] >= j]_vars
  BY <1>2
<1>5. QED
  BY <1>3, <1>4, RegistryInvariant, PTL DEF Spec, ScansAreFound, ResultIsKept, LatestIsFound

===========================================================================
