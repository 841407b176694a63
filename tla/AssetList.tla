------------------------------ MODULE AssetList ------------------------------
(***************************************************************************)
(* src/data/security_type.py: is a symbol a warrant, a right or a unit?    *)
(* The names in Alpaca's asset list answer it; for a symbol they do not    *)
(* cover, or while the list cannot be had, the suffix of the symbol does.  *)
(* The list is cached on disk, for every process of the installation.  The *)
(* threads of this process share a lock, a back-off and one flag that says *)
(* which of the two answered last.                                         *)
(***************************************************************************)
EXTENDS Naturals

CONSTANTS
    Threads,
    Listed,            \* symbols of the asset list
    NamedDerivative,   \* those of them whose name says warrant, right or unit
    LooksDerivative,   \* symbols with the suffix of one
    AssetTTL,          \* _TTL_SEC
    AssetBackoff,      \* _FAILURE_BACKOFF_SEC
    MaxTime            \* bound: the clock stops here

ASSUME AssetAssumption ==
    /\ NamedDerivative \subseteq Listed
    /\ AssetTTL \in Nat /\ AssetBackoff \in Nat \ {0} /\ MaxTime \in Nat \ {0}

Nobody  == "nobody"
Expired == 0

VARIABLES
    clock,        \* starts at 1
    keyed,        \* the Alpaca credentials are set
    cachedUntil,  \* expiry of the cached list
    retryAfter,   \* _retry_after
    lastOk,       \* _last_fetch_ok
    holder,       \* who holds _lock
    looking       \* where each thread is in _fetch_map

assetVars == <<keyed, cachedUntil, retryAfter, lastOk, holder, looking>>

AssetInit ==
    /\ clock = 1
    /\ cachedUntil = Expired /\ retryAfter = 0 /\ lastOk = FALSE
    /\ holder = Nobody /\ looking = [t \in Threads |-> "out"]

\* cache.get
Cached == cachedUntil # Expired /\ clock <= cachedUntil

\* Without credentials not even the cache is read.
Keyless(t) ==
    /\ looking[t] = "out" /\ ~keyed
    /\ lastOk' = FALSE
    /\ UNCHANGED <<keyed, cachedUntil, retryAfter, holder, looking>>

\* The first look at the cache takes no lock.
CacheHit(t) ==
    /\ looking[t] = "out" /\ keyed /\ Cached
    /\ lastOk' = TRUE
    /\ UNCHANGED <<keyed, cachedUntil, retryAfter, holder, looking>>

CacheMiss(t) ==
    /\ looking[t] = "out" /\ keyed /\ ~Cached
    /\ looking' = [looking EXCEPT ![t] = "waiting"]
    /\ UNCHANGED <<keyed, cachedUntil, retryAfter, lastOk, holder>>

\* Another thread may have filled the cache while this one waited for the lock.
FilledMeanwhile(t) ==
    /\ looking[t] = "waiting" /\ holder = Nobody /\ Cached
    /\ lastOk' = TRUE
    /\ looking' = [looking EXCEPT ![t] = "out"]
    /\ UNCHANGED <<keyed, cachedUntil, retryAfter, holder>>

BackedOff(t) ==
    /\ looking[t] = "waiting" /\ holder = Nobody /\ ~Cached /\ clock < retryAfter
    /\ looking' = [looking EXCEPT ![t] = "out"]
    /\ UNCHANGED <<keyed, cachedUntil, retryAfter, lastOk, holder>>

\* The request goes out under the lock.
BeginFetch(t) ==
    /\ looking[t] = "waiting" /\ holder = Nobody /\ ~Cached /\ clock >= retryAfter
    /\ holder' = t
    /\ looking' = [looking EXCEPT ![t] = "fetching"]
    /\ UNCHANGED <<keyed, cachedUntil, retryAfter, lastOk>>

Fetched(t) ==
    /\ looking[t] = "fetching"
    /\ lastOk' = TRUE /\ retryAfter' = 0 /\ cachedUntil' = clock + AssetTTL
    /\ holder' = Nobody
    /\ looking' = [looking EXCEPT ![t] = "out"]
    /\ UNCHANGED keyed

\* No answer, an error, or an empty list
FetchFailed(t) ==
    /\ looking[t] = "fetching"
    /\ lastOk' = FALSE /\ retryAfter' = clock + AssetBackoff
    /\ holder' = Nobody
    /\ looking' = [looking EXCEPT ![t] = "out"]
    /\ UNCHANGED <<keyed, cachedUntil>>

\* The steps in which _fetch_map returns: with the list, without it.
FoundList(t) == CacheHit(t) \/ FilledMeanwhile(t) \/ Fetched(t)
NoList(t)    == Keyless(t) \/ BackedOff(t) \/ FetchFailed(t)
LookOn(t)    == CacheMiss(t) \/ BeginFetch(t)

\* is_derivative
IsDerivative(symbol, byName) ==
    IF byName /\ symbol \in Listed THEN symbol \in NamedDerivative ELSE symbol \in LooksDerivative

\* Another process of the installation fetches the list into the shared cache.
OtherProcessFetches ==
    /\ keyed /\ ~Cached
    /\ cachedUntil' = clock + AssetTTL
    /\ UNCHANGED <<clock, keyed, retryAfter, lastOk, holder, looking>>

Tick ==
    /\ clock < MaxTime
    /\ clock' = clock + 1
    /\ UNCHANGED assetVars

===========================================================================
