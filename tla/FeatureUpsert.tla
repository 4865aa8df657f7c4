--------------------------- MODULE FeatureUpsert ---------------------------
(***************************************************************************)
(* What a click leaves in Redis, and for how long it can be read.          *)
(*                                                                         *)
(* The event consumer (feature_update_handler.py) finds the category of    *)
(* the clicked item, in its own cache or in Redis, and runs one Lua script *)
(* (redis_feature_writer.py), which Redis executes alone.  Beside it the   *)
(* data pipeline loads the items' metadata and reseeds global:popular      *)
(* (bootstrap_data.py).  Clicks come in any order and any number of times  *)
(* (module ClickPipeline says how).                                        *)
(*                                                                         *)
(* A decayed score is a cell [score, ts]: what it was worth at time ts.    *)
(* Half-lives are one unit of time, and a score of One counts one click.   *)
(* heat stands for global:popular:score and its time stamps, and for the   *)
(* two counters item:<id>:clicks and item:<id>:recent_clicks, which the    *)
(* script updates in the same way.  One popularity window of the three is  *)
(* modelled.  The session's list and last_activity have no reader, and the *)
(* TTL of the feature keys (30 days) lies beyond the horizon.              *)
(***************************************************************************)
EXTENDS Integers, Sequences, FiniteSetsExt, Functions

CONSTANTS
    Click,          \* [Events -> [user, item, ts]]
    Items,          \* numbers, in the order of their ids
    Catalogues,     \* what the pipeline may load: [Items -> a category]
    Seeds,          \* what it may seed: [Items -> the count, or Missing]
    Horizon,        \* the time at which the clock stops (a bound)
    Retention,      \* how long Kafka may deliver an event again
    DedupeWindow,   \* DEDUPE_WINDOW_SECONDS
    Width,          \* POPULARITY_*_BUCKET_SECONDS
    BucketCount,    \* POPULARITY_*_BUCKET_COUNT
    BucketTtl,      \* POPULARITY_*_BUCKET_TTL_SECONDS
    CacheSize,      \* CATEGORY_CACHE_MAX_SIZE
    CacheTtl,       \* CATEGORY_CACHE_TTL_SECONDS
    PopularMax,     \* the 50000 of ZREMRANGEBYRANK
    RecentMax,      \* RECENT_CLICKS_MAX
    One             \* a power of two

Events == DOMAIN Click
Users == {Click[e].user : e \in Events}
Unknown == "unknown"
Missing == -1

\* The defaults: seven days of both; a bucket lives twice its window.  One can
\* be halved exactly until the clock stops, as a double can.
ASSUME UpsertAssumption ==
    /\ \A e \in Events : Click[e].item \in Items /\ Click[e].ts \in Nat
    /\ Items \subseteq Nat /\ IsFiniteSet(Items)
    /\ \A counts \in Seeds : counts \in [Items -> Nat \cup {Missing}]
    /\ \A c \in Catalogues : c \in [Items -> {c[i] : i \in Items}]
    /\ {Horizon, Retention, BucketTtl, CacheTtl} \subseteq Nat
    /\ {DedupeWindow, Width, BucketCount, CacheSize, PopularMax, RecentMax, One} \subseteq Nat \ {0}
    /\ DedupeWindow >= Retention
    /\ BucketTtl >= BucketCount * Width
    /\ (One \div 2 ^ Horizon) * 2 ^ Horizon = One

VARIABLES
    now,
    meta,       \* [Items -> category]: item:<id>:meta
    since,      \* history: [Items -> when meta was last changed]
    cache,      \* _CategoryCache._store, the least recently used entry first
    dedupe,     \* [Events -> when dedupe:event:<id> expires, 0: it does not exist]
    recent,     \* [Users -> Seq(Items)], newest first
    affinity,   \* [Users -> [Categories -> cell]]
    heat,       \* [Items -> cell]
    popular,    \* [Items -> score or Missing]: global:popular, scores only compared
    bucket,     \* [Starts -> [Items -> Nat]]
    expires,    \* [Starts -> when the bucket expires]
    seeded,     \* history: popular was reseeded
    log         \* history: the clicks applied, [event, category], in order

featureVars == <<dedupe, recent, affinity, heat, popular, bucket, expires, log>>
vars == <<now, meta, since, cache, seeded, featureVars>>

Categories == (UNION {{c[i] : i \in Items} : c \in Catalogues}) \ {Unknown}
Starts == {n * Width : n \in 0 .. Horizon \div Width}
NoCell == [score |-> 0, ts |-> 0]

Init ==
    /\ now = 0
    /\ meta = [i \in Items |-> Unknown]
    /\ since = [i \in Items |-> 0]
    /\ cache = <<>>
    /\ dedupe = [e \in Events |-> 0]
    /\ recent = [u \in Users |-> <<>>]
    /\ affinity = [u \in Users |-> [c \in Categories |-> NoCell]]
    /\ heat = [i \in Items |-> NoCell]
    /\ popular = [i \in Items |-> Missing]
    /\ bucket = [s \in Starts |-> [i \in Items |-> 0]]
    /\ expires = [s \in Starts |-> 0]
    /\ seeded = FALSE
    /\ log = <<>>

-----------------------------------------------------------------------------
(* The category cache.                                                     *)

Entry(i, until) == [item |-> i, category |-> meta[i], until |-> until]
Places(i) == {n \in DOMAIN cache : cache[n].item = i}

\* del self._store[item_id].
Without(i) ==
    IF Places(i) = {} THEN cache
    ELSE LET n == CHOOSE n \in Places(i) : TRUE
         IN  [k \in 1 .. Len(cache) - 1 |-> cache[IF k < n THEN k ELSE k + 1]]

\* Mutant: a hit starts the time of the entry anew.
RefreshOnHit(i) ==
    IF \E n \in Places(i) : now <= cache[n].until
    THEN {[category |-> cache[n].category,
           cache |-> Append(Without(i), [cache[n] EXCEPT !.until = now + CacheTtl])] : n \in Places(i)}
    ELSE {}

\* get finds the entry alive and moves it to the end.
Hit(i) ==
    IF \E n \in Places(i) : now <= cache[n].until
    THEN {[category |-> cache[n].category, cache |-> Append(Without(i), cache[n])] : n \in Places(i)}
    ELSE {}

\* Mutant: no entry makes room for another.
NeverEvicts(i) ==
    IF Hit(i) # {} THEN Hit(i)
    ELSE {[category |-> meta[i], cache |-> Append(Without(i), Entry(i, now + CacheTtl))],
          [category |-> Unknown, cache |-> Without(i)]}

\* _infer_category: a hit; or what Redis says, which is kept, the oldest entry
\* making room; or "unknown", not kept, when Redis fails.
Inferred(i) ==
    LET rest == Without(i)
        room == IF Len(rest) >= CacheSize THEN Tail(rest) ELSE rest
    IN  IF Hit(i) # {} THEN Hit(i)
        ELSE {[category |-> meta[i], cache |-> Append(room, Entry(i, now + CacheTtl))],
              [category |-> Unknown, cache |-> rest]}

-----------------------------------------------------------------------------
(* The script.                                                             *)

\* decayed_score, decayed_hash_score: an event older than the cell decays
\* nothing.
Decayed(cell, t) ==
    IF cell.ts >= t THEN cell.score ELSE cell.score \div (2 ^ (t - cell.ts))

\* Mutant: a late click leaves the newer time stamp.
KeepsNewestTime(cell, t) ==
    [score |-> Decayed(cell, t) + One, ts |-> IF t < cell.ts THEN cell.ts ELSE t]

Clicked(cell, t) == [score |-> Decayed(cell, t) + One, ts |-> t]

\* The surrogate log(score) + lambda * ts orders as this does.
Worth(cell) == cell.score * 2 ^ cell.ts

\* The members of the sorted set below i.
Below(set, i) ==
    {j \in Items : /\ set[j] # Missing
                   /\ set[j] < set[i] \/ (set[j] = set[i] /\ j < i)}

\* Mutant: the ranks are counted from the best.
KeepsColdest(set) ==
    [i \in Items |-> IF Cardinality(Below(set, i)) >= PopularMax THEN Missing ELSE set[i]]

\* ZREMRANGEBYRANK 0 -(PopularMax + 1).
Capped(set) ==
    LET size == Cardinality({i \in Items : set[i] # Missing})
    IN  [i \in Items |-> IF size - Cardinality(Below(set, i)) > PopularMax THEN Missing ELSE set[i]]

BucketStart(t) == (t \div Width) * Width

\* LUA_UPSERT_FEATURES after the check of the marker.
Upsert(e, category) ==
    LET c == Click[e]
        start == BucketStart(c.ts)
        trimmed == <<c.item>> \o recent[c.user]
    IN  /\ dedupe' = [dedupe EXCEPT ![e] = now + DedupeWindow]
        /\ recent' = [recent EXCEPT ![c.user] =
                IF Len(trimmed) > RecentMax THEN SubSeq(trimmed, 1, RecentMax) ELSE trimmed]
        /\ affinity' = IF category = Unknown THEN affinity
                       ELSE [affinity EXCEPT ![c.user][category] = Clicked(@, c.ts)]
        /\ heat' = [heat EXCEPT ![c.item] = Clicked(@, c.ts)]
        /\ popular' = Capped([popular EXCEPT ![c.item] = Worth(Clicked(heat[c.item], c.ts))])
        /\ bucket' = [bucket EXCEPT ![start][c.item] = @ + 1]
        /\ expires' = [expires EXCEPT ![start] = now + BucketTtl]
        /\ log' = Append(log, [event |-> e, category |-> category])

\* update_features.  Redis may fail before the script; that it fails after it
\* makes no difference here.
Deliver(e) ==
    /\ Click[e].ts <= now /\ now < Click[e].ts + Retention
    /\ \E found \in Inferred(Click[e].item) :
          /\ cache' = found.cache
          /\ \/ dedupe[e] = 0 /\ Upsert(e, found.category)
             \/ UNCHANGED featureVars
    /\ UNCHANGED <<now, meta, since, seeded>>

\* The consumer restarts with an empty cache.
Restart ==
    /\ cache # <<>>
    /\ cache' = <<>>
    /\ UNCHANGED <<now, meta, since, seeded, featureVars>>

-----------------------------------------------------------------------------
(* The data pipeline, and time.                                            *)

\* load_redis_data: the metadata of every item.
LoadMetadata ==
    \E c \in Catalogues :
        /\ meta' = c
        /\ since' = [i \in Items |-> IF c[i] # meta[i] THEN now ELSE since[i]]
        /\ UNCHANGED <<now, cache, seeded, featureVars>>

\* load_popularity: global:popular is deleted and filled with purchase counts;
\* the hashes of scores and times stay.
LoadPopularity ==
    /\ ~seeded
    /\ \E counts \in Seeds : popular' = counts
    /\ seeded' = TRUE
    /\ UNCHANGED <<now, meta, since, cache, dedupe, recent, affinity, heat, bucket, expires, log>>

\* Time passes, and markers and buckets expire.
Tick ==
    /\ now < Horizon
    /\ now' = now + 1
    /\ dedupe' = [e \in Events |-> IF dedupe[e] <= now' THEN 0 ELSE dedupe[e]]
    /\ bucket' = [s \in Starts |-> IF expires[s] <= now' THEN [i \in Items |-> 0] ELSE bucket[s]]
    /\ UNCHANGED <<meta, since, cache, recent, affinity, heat, popular, expires, seeded, log>>

Next ==
    \/ \E e \in Events : Deliver(e)
    \/ Restart \/ LoadMetadata \/ LoadPopularity \/ Tick

Spec == Init /\ [][Next]_vars

-----------------------------------------------------------------------------
(* What the inference service reads (popularity_windows.py).               *)

\* Mutant: the window starts at the last full bucket.
FullBuckets(t) == {BucketStart(t) - n * Width : n \in 1 .. BucketCount}

\* active_bucket_keys.
ActiveBuckets(t) == {BucketStart(t) - n * Width : n \in 0 .. BucketCount - 1}

\* ZUNIONSTORE over them.
WindowCount(i) == SumFunctionOnSet([s \in Starts |-> bucket[s][i]], ActiveBuckets(now) \cap Starts)

-----------------------------------------------------------------------------
(* Properties.                                                             *)

Cells == [score : Nat, ts : Nat]

\* Every key holds what the script and the pipeline write there, and neither a
\* user's recent clicks nor the category cache is longer than its limit.
\* (global:popular may be: the pipeline seeds it with as many as it likes.)
UpsertTypeOK ==
    /\ now \in 0 .. Horizon
    /\ meta \in [Items -> Categories \cup {Unknown}] /\ since \in [Items -> 0 .. now]
    /\ cache \in Seq([item : Items, category : Categories \cup {Unknown}, until : Nat])
    /\ Len(cache) <= CacheSize
    /\ \A m, n \in DOMAIN cache : cache[m].item = cache[n].item => m = n
    /\ dedupe \in [Events -> Nat]
    /\ recent \in [Users -> Seq(Items)] /\ \A u \in Users : Len(recent[u]) <= RecentMax
    /\ affinity \in [Users -> [Categories -> Cells]] /\ heat \in [Items -> Cells]
    /\ popular \in [Items -> Nat \cup {Missing}]
    /\ bucket \in [Starts -> [Items -> Nat]] /\ expires \in [Starts -> Nat]
    /\ seeded \in BOOLEAN
    /\ log \in Seq([event : Events, category : Categories \cup {Unknown}])

\* The window the inference service unites at this moment counts every click
\* of its buckets once: no click counts twice because it was delivered again
\* after its marker expired, no bucket expires while it is in the window, and
\* writer and reader cut time at the same places.
WindowExact ==
    \A i \in Items :
        WindowCount(i) =
            Cardinality({e \in {log[n].event : n \in DOMAIN log} :
                            /\ Click[e].item = i
                            /\ BucketStart(Click[e].ts) \in ActiveBuckets(now)})

TsOf(n) == Click[log[n].event].ts
Due(S) == SumFunctionOnSet([n \in DOMAIN log |-> One * 2 ^ TsOf(n)], S)
Honest(cell, S) ==
    /\ Worth(cell) <= Due(S)
    /\ (\A m, n \in S : m <= n => TsOf(m) <= TsOf(n)) => Worth(cell) = Due(S)

\* A decayed score is what the clicks applied to it are worth today, when they
\* came in the order of their times, and never more: clicks that were retried
\* and come late, in any order, do not inflate it (decayed_score,
\* decayed_hash_score).
DecayHonest ==
    /\ \A i \in Items : Honest(heat[i], {n \in DOMAIN log : Click[log[n].event].item = i})
    /\ \A u \in Users : \A c \in Categories :
          Honest(affinity[u][c],
                 {n \in DOMAIN log : Click[log[n].event].user = u /\ log[n].category = c})

\* Until the pipeline seeds it, global:popular holds the surrogates of the
\* items it lists, and, of clicks that came in the order of their times, the
\* cap has dropped none that is worth more than one it has kept.  This is a
\* deployment that the clicks alone fill: a bootstrapped one begins with counts
\* of another scale (see ClickRaises).
CapKeepsHottest ==
    ~seeded =>
        /\ \A i \in Items : popular[i] \in {Missing, Worth(heat[i])}
        /\ (\A m, n \in DOMAIN log : m <= n => TsOf(m) <= TsOf(n)) =>
              \A i, j \in Items :
                  popular[i] # Missing /\ popular[j] = Missing => Worth(heat[j]) <= popular[i]

\* The category in a cached entry is the one in Redis, or was until at most
\* one TTL before the entry ends (_CategoryCache: "safe and keeps the cache
\* warm"), however often it is hit.
CategoryFresh ==
    \A n \in DOMAIN cache :
        cache[n].category # meta[cache[n].item] =>
            since[cache[n].item] >= cache[n].until - CacheTtl

\* The script "increments global popularity decay hash + ZSET surrogate"
\* (redis_feature_writer.py:10): a click never lowers the rank of its item.
ClickRaises ==
    [][\A i \in Items :
          Len(log') > Len(log) /\ Click[log'[Len(log')].event].item = i
             /\ popular'[i] # Missing => popular'[i] >= popular[i]]_vars
=============================================================================
