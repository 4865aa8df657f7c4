-------------------------- MODULE PopularityWindow --------------------------
(***************************************************************************)
(* How the inference service materializes a popularity window in Redis.    *)
(*                                                                         *)
(* The union of a window's buckets is stored under a key named after the   *)
(* current bucket, with a short TTL.  Two kinds of workers look for it and *)
(* rebuild it when it is gone: the threads that load personalization       *)
(* snapshots (feature_reader.py), which share a local cache per replica,   *)
(* and the popularity deployment (popularity.py).  Each kind takes a lease *)
(* of its own first.  Threads of one replica meet only under its lock; a   *)
(* step here is one hold of that lock or one Redis pipeline.  Redis may    *)
(* fail any pipeline, after any of its commands.                           *)
(*                                                                         *)
(* The three windows are handled alike, in the same pipelines; one is      *)
(* modelled.  The union of buckets without clicks leaves no key.  The clock *)
(* runs in parts of a second, since TTL answers in whole seconds.  A load  *)
(* ends with the reads of the snapshot, which leave nothing behind.        *)
(***************************************************************************)
EXTENDS Integers, FiniteSets

CONSTANTS
    Readers,    \* threads that load snapshots
    Replicas,
    Replica,    \* [Readers -> Replicas]: whose cache and lock they share
    Pods,       \* calls of the popularity deployment
    Horizon,    \* the time at which the clock stops (a bound)
    Second,     \* how many steps of the clock make a second
    Width,      \* POPULARITY_*_BUCKET_SECONDS
    Ttl,        \* POPULARITY_*_MATERIALIZED_TTL_SECONDS
    Lease,      \* the 5 s of px
    Retry       \* the 5.0 s of a pending entry

ASSUME WindowAssumption ==
    /\ Readers \cap Pods = {}
    /\ Replica \in [Readers -> Replicas]
    /\ Horizon \in Nat
    /\ {Second, Width, Ttl, Lease, Retry} \subseteq Nat \ {0}

Workers == Readers \cup Pods
Kinds == {"reader", "popularity"}
Kind(w) == IF w \in Readers THEN "reader" ELSE "popularity"
\* latest_bucket_start; materialized_window_key names its key after it.
BucketStart(t) == (t \div Width) * Width
Keys == {BucketStart(t) : t \in 0 .. Horizon}

NoKey == -1
Never == -1
Forever == Horizon + Ttl + 1    \* a key without a TTL outlives all others
Absent == [built |-> Never, ends |-> 0]
NoEntry == [key |-> NoKey, until |-> 0, seen |-> FALSE]

VARIABLES
    now,
    clicked,    \* the keys whose buckets hold clicks
    key,        \* [Keys -> [built, ends]]
    lease,      \* [Keys -> [Kinds -> when it ends, 0: free]]
    local,      \* [Replicas -> _materialized_window_cache]: key, until, and
                \* whether Redis had the key, or a union with clicks was
                \* stored under it (history)
    events,     \* [Replicas -> SUBSET Keys]: _rebuild_events
    stage,      \* [Workers -> what it does next]
    start,      \* [Workers -> its now_ts]
    got         \* [Workers -> what Redis has answered, until it is used]

redisVars == <<clicked, key, lease>>
workVars == <<stage, start, got>>
vars == <<now, redisVars, local, events, workVars>>

ReaderStages == {"idle", "ttl", "judge", "lock", "sort", "rebuild", "tell", "unlock",
                 "signal", "recheck", "peer"}
PodStages == {"idle", "lock", "rebuild", "release"}

Init ==
    /\ now = 0
    /\ clicked = {}
    /\ key = [k \in Keys |-> Absent]
    /\ lease = [k \in Keys |-> [d \in Kinds |-> 0]]
    /\ local = [p \in Replicas |-> NoEntry]
    /\ events = [p \in Replicas |-> {}]
    /\ stage = [w \in Workers |-> "idle"]
    /\ start = [w \in Workers |-> 0]
    /\ got = [w \in Workers |-> 0]

-----------------------------------------------------------------------------
(* Redis.                                                                  *)

Key(w) == BucketStart(start[w])

Half == Second \div 2
Rounded(time) == ((time + Half) \div Second) * Second

\* TTL: the time left, to the nearest second; -2 for a key that is not there,
\* -1 for one that has no TTL.
Remaining(k) ==
    IF key[k].built = Never THEN -2
    ELSE IF key[k].ends = Forever THEN -1 ELSE Rounded(key[k].ends - now)

\* The worker goes on, with an answer for its next stage.
GotoWith(w, next, value) ==
    /\ stage' = [stage EXCEPT ![w] = next]
    /\ got' = [got EXCEPT ![w] = value]
    /\ start' = IF next = "idle" THEN [start EXCEPT ![w] = 0] ELSE start
Goto(w, next) == GotoWith(w, next, 0)

\* TTL of the worker's key.
AskTtl(w, from, next) ==
    /\ stage[w] = from
    /\ GotoWith(w, next, Remaining(Key(w)))
    /\ UNCHANGED <<now, redisVars, local, events>>

Leased(w) == [lease EXCEPT ![Key(w)][Kind(w)] = now + Lease]

\* SET NX PX.
Acquire(w, next) ==
    /\ stage[w] = "lock"
    /\ LET free == lease[Key(w)][Kind(w)] = 0
       IN  /\ lease' = IF free THEN Leased(w) ELSE lease
           /\ GotoWith(w, next, IF free /\ w \in Readers THEN 1 ELSE 0)
    /\ UNCHANGED <<now, clicked, key, local, events>>

\* Redis does not answer; the lease may have been taken all the same.
AskFails(w) ==
    /\ stage[w] \in {"ttl", "lock", "recheck"}
    /\ Goto(w, "idle")
    /\ lease' = IF stage[w] = "lock" /\ lease[Key(w)][Kind(w)] = 0 THEN Leased(w) ELSE lease
    /\ UNCHANGED <<now, clicked, key, local, events>>

\* The key that a union leaves, and n - 1 commands after it: none, without
\* clicks, and then EXPIRE does nothing.
Stored(k, n) ==
    IF k \in clicked
    THEN [built |-> now, ends |-> IF n = 1 THEN Forever ELSE now + Ttl]
    ELSE Absent

\* The first n of ZUNIONSTORE, EXPIRE and DEL of the lease.
Executed(w, n) ==
    /\ key' = IF n = 0 THEN key ELSE [key EXCEPT ![Key(w)] = Stored(Key(w), n)]
    /\ lease' = IF n < 3 THEN lease ELSE [lease EXCEPT ![Key(w)][Kind(w)] = 0]

Release(w) == lease' = [lease EXCEPT ![Key(w)][Kind(w)] = 0]

-----------------------------------------------------------------------------
(* load_personalization_snapshot.                                          *)

Cached(r) == local[Replica[r]].key = Key(r) /\ start[r] < local[Replica[r]].until
Cache(r, until, seen) ==
    local' = [local EXCEPT ![Replica[r]] = [key |-> Key(r), until |-> until, seen |-> seen]]

\* Phase 1: a load takes the time; it is done at once if the key is cached.
Resolve(r) ==
    /\ stage[r] = "idle"
    /\ ~(local[Replica[r]].key = BucketStart(now) /\ now < local[Replica[r]].until)
    /\ start' = [start EXCEPT ![r] = now]
    /\ stage' = [stage EXCEPT ![r] = "ttl"]
    /\ UNCHANGED <<now, redisVars, local, events, got>>

\* Mutant: the TTL is counted from when the answer is used.
JudgesByClock(r) ==
    /\ stage[r] = "judge"
    /\ IF Cached(r) THEN UNCHANGED local /\ Goto(r, "idle")
       ELSE IF got[r] > 0 THEN Cache(r, now + got[r], TRUE) /\ Goto(r, "idle")
       ELSE UNCHANGED local /\ Goto(r, "lock")
    /\ UNCHANGED <<now, redisVars, events>>

\* Phase 3: another thread may have cached the key in the meantime.
Judge(r) ==
    /\ stage[r] = "judge"
    /\ \/ Cached(r) /\ UNCHANGED local /\ Goto(r, "idle")
       \/ ~Cached(r) /\ got[r] > 0 /\ Cache(r, start[r] + got[r], TRUE) /\ Goto(r, "idle")
       \/ ~Cached(r) /\ got[r] <= 0 /\ UNCHANGED local /\ Goto(r, "lock")
    /\ UNCHANGED <<now, redisVars, events>>

\* Phase 5: the winner announces its rebuild to the threads of its replica.
\* The others look for the key again, after at most 50 ms (event.wait).
Sort(r) ==
    /\ stage[r] = "sort"
    /\ IF got[r] = 1
       THEN events' = [events EXCEPT ![Replica[r]] = @ \cup {Key(r)}] /\ Goto(r, "rebuild")
       ELSE UNCHANGED events /\ Goto(r, "recheck")
    /\ UNCHANGED <<now, redisVars, local>>

\* Phase 6: the pipeline succeeds, or fails with some of its commands executed.
Rebuild(r) ==
    /\ stage[r] = "rebuild"
    /\ \/ Executed(r, 3) /\ GotoWith(r, "tell", IF Key(r) \in clicked THEN 1 ELSE 0)
       \/ \E n \in 0 .. 3 : Executed(r, n) /\ Goto(r, "unlock")
    /\ UNCHANGED <<now, clicked, local, events>>

\* The key is cached, whether the union left one or not.
Tell(r) ==
    /\ stage[r] = "tell"
    /\ Cache(r, start[r] + Ttl, got[r] = 1)
    /\ events' = [events EXCEPT ![Replica[r]] = @ \ {Key(r)}]
    /\ Goto(r, "idle")
    /\ UNCHANGED <<now, redisVars>>

\* The lease is deleted, or left to expire.
Unlock(r) ==
    /\ stage[r] = "unlock"
    /\ UNCHANGED lease \/ Release(r)
    /\ Goto(r, "signal")
    /\ UNCHANGED <<now, clicked, key, local, events>>

\* Mutant: after a failure the event is set, but not removed.
SignalsOnly(r) ==
    /\ stage[r] = "signal"
    /\ Goto(r, "idle")
    /\ UNCHANGED <<now, redisVars, local, events>>

Signal(r) ==
    /\ stage[r] = "signal"
    /\ events' = [events EXCEPT ![Replica[r]] = @ \ {Key(r)}]
    /\ Goto(r, "idle")
    /\ UNCHANGED <<now, redisVars, local>>

\* The peer's rebuild is visible, or looked for again in a while.
Peer(r) ==
    /\ stage[r] = "peer"
    /\ IF got[r] > 0 THEN Cache(r, start[r] + got[r], TRUE) ELSE Cache(r, start[r] + Retry, FALSE)
    /\ Goto(r, "idle")
    /\ UNCHANGED <<now, redisVars, events>>

ReaderStep(r) ==
    \/ AskTtl(r, "ttl", "judge") \/ AskFails(r) \/ Judge(r)
    \/ Acquire(r, "sort") \/ Sort(r) \/ Rebuild(r) \/ Tell(r) \/ Unlock(r) \/ Signal(r)
    \/ AskTtl(r, "recheck", "peer") \/ Peer(r)

-----------------------------------------------------------------------------
(* topk and _ensure_materialized_window.                                   *)

\* The key of this moment, and its TTL; a key that is there is read at once.
PodBegin(p) ==
    /\ stage[p] = "idle"
    /\ Remaining(BucketStart(now)) <= 0
    /\ start' = [start EXCEPT ![p] = now]
    /\ stage' = [stage EXCEPT ![p] = "lock"]
    /\ UNCHANGED <<now, redisVars, local, events, got>>

\* The lease; without it the key is read as it is.
PodAcquire(p) == Acquire(p, IF lease[Key(p)]["popularity"] = 0 THEN "rebuild" ELSE "idle")

PodRebuild(p) ==
    /\ stage[p] = "rebuild"
    /\ \E n \in 0 .. 2 : Executed(p, n)
    /\ Goto(p, "release")
    /\ UNCHANGED <<now, clicked, local, events>>

\* finally: the lease is deleted, unless that fails too.
PodRelease(p) ==
    /\ stage[p] = "release"
    /\ UNCHANGED lease \/ Release(p)
    /\ Goto(p, "idle")
    /\ UNCHANGED <<now, clicked, key, local, events>>

PodStep(p) ==
    PodAcquire(p) \/ AskFails(p) \/ PodRebuild(p) \/ PodRelease(p)

-----------------------------------------------------------------------------
\* A click is counted in the bucket of its time (FeatureUpsert), and so in the
\* windows that end with this bucket or a later one.
Click ==
    /\ \E t \in 0 .. now : clicked' = clicked \cup {k \in Keys : k >= BucketStart(t)}
    /\ UNCHANGED <<now, key, lease, local, events, workVars>>

\* Time passes; keys and leases expire.
Tick ==
    /\ now < Horizon
    /\ now' = now + 1
    /\ key' = [k \in Keys |-> IF key[k].ends <= now' THEN Absent ELSE key[k]]
    /\ lease' = [k \in Keys |-> [d \in Kinds |->
                    IF lease[k][d] <= now' THEN 0 ELSE lease[k][d]]]
    /\ UNCHANGED <<clicked, local, events, workVars>>

Next ==
    \/ \E r \in Readers : Resolve(r) \/ ReaderStep(r)
    \/ \E p \in Pods : PodBegin(p) \/ PodStep(p)
    \/ Click
    \/ Tick

Spec == Init /\ [][Next]_vars

-----------------------------------------------------------------------------
(* Properties.                                                             *)

\* Keys, leases, caches and workers hold what the code gives them.
WindowTypeOK ==
    /\ now \in 0 .. Horizon
    /\ clicked \in SUBSET Keys
    /\ key \in [Keys -> [built : Nat \cup {Never}, ends : Nat]]
    /\ lease \in [Keys -> [Kinds -> Nat]]
    /\ local \in [Replicas -> [key : Keys \cup {NoKey}, until : Nat, seen : BOOLEAN]]
    /\ events \in [Replicas -> SUBSET Keys]
    /\ stage \in [Workers -> ReaderStages \cup PodStages]
    /\ start \in [Workers -> 0 .. now] /\ got \in [Workers -> Int]

\* While an entry of the local cache is taken without asking Redis, the key it
\* was cached for is still there, with scores no older than its TTL, but for
\* the half second that TTL may round up; whatever the threads did between
\* reading the TTL and using it (_resolve_materialized_popularity_windows).
\* Excepted are the entries of a key nobody saw: of a rebuild that is pending
\* elsewhere, and of a union without clicks.
CachedKeyLives ==
    \A p \in Replicas :
        local[p].seen /\ now + Half < local[p].until =>
            /\ key[local[p].key].built # Never
            /\ now - key[local[p].key].built <= Ttl

\* What one would expect of every entry of the cache: that its key is there as
\* long as it is taken.
CacheIsExact ==
    \A p \in Replicas :
        now < local[p].until => key[local[p].key].built # Never

Building(r) == stage[r] \in {"rebuild", "tell", "unlock", "signal"}

\* A registered event belongs to a rebuild of its key in that replica: none is
\* left behind, "to prevent memory leak", on any path.
EventsHaveBuilder ==
    \A p \in Replicas : \A k \in events[p] :
        \E r \in Readers : Replica[r] = p /\ Building(r) /\ Key(r) = k

\* "If another pod already holds the short lease for this exact materialized
\* window key, skip duplicate rebuild work" (popularity.py:109): while no lease
\* expires, a key has one builder.
SingleRebuild ==
    \A v, w \in Workers :
        v # w /\ stage[v] = "rebuild" /\ stage[w] = "rebuild" => Key(v) # Key(w)
=============================================================================
