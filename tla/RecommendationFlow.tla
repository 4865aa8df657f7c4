------------------------- MODULE RecommendationFlow -------------------------
(***************************************************************************)
(* The gateway's recommendation path (RecommendationService,               *)
(* ProductCacheService, RecommendationController): a request runs on the   *)
(* inference executor behind a circuit breaker and a timeout; a text       *)
(* answer is enriched on the cache executor with product objects of the    *)
(* shared local cache; every failure falls back, to text search, to the    *)
(* shared query cache or to popular items; the controller's DeferredResult *)
(* may give up at any time.                                                *)
(*                                                                         *)
(* A cancelled or timed-out request does not interrupt work that has begun *)
(* on the cache executor, so that work has a state of its own (job).  The  *)
(* product objects are shared and mutable: the model keeps them in a heap  *)
(* and gives an answer the values they have when it is serialised.  The    *)
(* lookups and annotations of one list are one step.                       *)
(***************************************************************************)
EXTENDS Naturals, Sequences, FiniteSets, Functions

CONSTANTS
    Requests,
    Kind,           \* [Requests -> SUBSET Legs]: the endpoints it may ask
    QueryOf,        \* [Requests -> Queries \cup {NoQuery}]
    UserOf,         \* [Requests -> Users \cup {NoUser}]
    Queries,        \* cache keys: query, intent and k
    Users,
    NoQuery, NoUser, NoReason, NoEntry,
    Items,
    Missing,        \* items without readable product metadata in Redis
    Rankings,       \* the lists Ray may answer with
    PopularLists,   \* what the first non-empty popularity tier may hold
    K,              \* the number of results asked for
    Window,         \* sliding-window-size of the breaker
    MinCalls,       \* minimum-number-of-calls
    HalfOpenCalls,  \* permitted-number-of-calls-in-half-open-state
    MaxLoads        \* bound: times an item enters the local cache

Legs == {"text", "image", "hybrid"}

ASSUME FlowAssumption ==
    /\ IsFiniteSet(Requests)
    /\ Kind \in [Requests -> SUBSET Legs]
    /\ QueryOf \in [Requests -> Queries \cup {NoQuery}]
    /\ \A r \in Requests : "text" \in Kind[r] => QueryOf[r] # NoQuery
    /\ UserOf \in [Requests -> Users \cup {NoUser}]
    /\ NoUser \notin Users /\ NoQuery \notin Queries /\ NoReason \notin Requests
    /\ Missing \subseteq Items
    /\ Rankings \subseteq Seq(Items) /\ PopularLists \subseteq Seq(Items)
    /\ {K, Window, MinCalls, HalfOpenCalls, MaxLoads} \subseteq Nat \ {0}

VARIABLES
    client,     \* what the caller of the endpoint has seen
    stage,      \* where the request's reactive chain is
    leg,        \* which search the chain runs; an image search may turn to text
    refs,       \* the product objects of its result
    answer,     \* its result: origin, the user it was ranked for, values
    job,        \* the enrichment of its Ray answer on the cache executor
    l1,         \* local product cache: an entry, a cached absence, or neither
    gen,        \* how often each item entered l1; <<i, gen[i]>> is its object
    note,       \* [Objects -> Reason]: whose reason an object carries
    recCache,   \* Redis rec:v1:*: the last answer per query
    cb,         \* state of the circuit breaker
    window,     \* its recorded calls, TRUE for a failure
    permits,    \* calls it still admits when half open
    waited,     \* wait-duration-in-open-state is over
    slow        \* history: calls in a row that ran into the timeout

request == <<client, stage, leg, refs, answer>>
products == <<l1, gen, note>>
breaker == <<cb, window, permits, waited, slow>>
vars == <<request, job, products, recCache, breaker>>

Objects == Items \X (1 .. MaxLoads)
Reason == Requests \cup {NoReason}
Entry == [item : Items, reason : Reason]
NoAnswer == [from |-> "none", rankedFor |-> NoUser, items |-> <<>>]
NoJob == [phase |-> "none", ids |-> <<>>, refs |-> <<>>]
Stages == {"new", "submit", "queued", "calling", "enriching", "reading",
           "popular", "ready", "done"}
Calls == {r \in Requests : stage[r] \in {"calling", "enriching"}}

FlowTypeOK ==
    /\ client \in [Requests -> {"none", "waiting", "answered", "refused"}]
    /\ stage \in [Requests -> Stages]
    /\ leg \in [Requests -> Legs]
    /\ refs \in [Requests -> Seq(Objects)]
    /\ answer \in [Requests -> [from : {"none", "ray", "cache", "popular"},
                                rankedFor : Users \cup {NoUser}, items : Seq(Entry)]]
    /\ job \in [Requests -> [phase : {"none", "lookup", "write"},
                             ids : Seq(Items), refs : Seq(Objects)]]
    /\ l1 \in [Items -> {"unknown", "absent", "present"}]
    /\ gen \in [Items -> 0 .. MaxLoads]
    /\ note \in [Objects -> Reason]
    /\ recCache \in [Queries -> {NoEntry} \cup
                        [rankedFor : Users \cup {NoUser}, items : Seq(Entry)]]
    /\ cb \in {"closed", "open", "half_open"}
    /\ window \in Seq(BOOLEAN)
    /\ Len(window) <= IF cb = "half_open" THEN HalfOpenCalls ELSE Window
    /\ permits \in Nat
    /\ waited \in BOOLEAN
    /\ slow \in 0 .. MinCalls

Init ==
    /\ client = [r \in Requests |-> "none"]
    /\ stage = [r \in Requests |-> "new"]
    /\ leg \in [Requests -> Legs] /\ \A r \in Requests : leg[r] \in Kind[r]
    /\ refs = [r \in Requests |-> <<>>]
    /\ answer = [r \in Requests |-> NoAnswer]
    /\ job = [r \in Requests |-> NoJob]
    /\ l1 = [i \in Items |-> "unknown"]
    /\ gen = [i \in Items |-> 0]
    /\ note = [o \in Objects |-> NoReason]
    /\ recCache = [q \in Queries |-> NoEntry]
    /\ cb = "closed"
    /\ window = <<>>
    /\ permits = 0
    /\ waited = FALSE
    /\ slow = 0

-----------------------------------------------------------------------------
(* The circuit breaker (resilience4j, instance "ray").                     *)

Admits == cb = "closed" \/ (cb = "open" /\ waited) \/ (cb = "half_open" /\ permits > 0)

\* An open breaker turns half open with the first call after its wait.
Acquire ==
    IF cb = "closed"
    THEN UNCHANGED breaker
    ELSE /\ cb' = "half_open"
         /\ permits' = (IF cb = "open" THEN HalfOpenCalls ELSE permits) - 1
         /\ window' = IF cb = "open" THEN <<>> ELSE window
         /\ waited' = FALSE
         /\ UNCHANGED slow

\* The call ends with a result.  The rate is judged over the sliding window
\* when closed, over the probes when half open; late results of an open
\* breaker change nothing.
Record(failed) ==
    LET size == IF cb = "closed" THEN Window ELSE HalfOpenCalls
        needed == IF cb = "closed" THEN MinCalls ELSE HalfOpenCalls
        all == Append(window, failed)
        recent == IF Len(all) > size THEN Tail(all) ELSE all
        failures == Cardinality({n \in 1 .. Len(recent) : recent[n]})
        judged == cb # "open" /\ Len(recent) >= needed
        trips == judged /\ 2 * failures >= Len(recent)
        closes == cb = "half_open" /\ judged /\ ~trips
    IN  /\ cb' = IF trips THEN "open" ELSE IF closes THEN "closed" ELSE cb
        /\ window' = IF trips \/ closes \/ cb = "open" THEN <<>> ELSE recent
        /\ permits' = IF trips \/ closes THEN 0 ELSE permits
        /\ waited' = (waited /\ ~trips)
        /\ slow' = 0

\* Mutant: a call that is cancelled or ignored keeps its permission.
KeepsPermission == UNCHANGED <<cb, window, permits, waited>>

\* The call is cancelled, or ends with an ignored exception.
Release ==
    /\ permits' = IF cb = "half_open" THEN permits + 1 ELSE permits
    /\ UNCHANGED <<cb, window, waited>>

\* record-exceptions: what counts as a failure.  Ray refused the connection or
\* broke it (WebClientRequestException); any other error counts as a success.
RecordedAsFailure(outcome) == outcome = "unreachable"
Ignored(outcome) == outcome = "bad_request"

CallEnds(outcome) ==
    IF Ignored(outcome) THEN Release /\ slow' = 0 ELSE Record(RecordedAsFailure(outcome))

CircuitWaits ==
    /\ cb = "open"
    /\ ~waited
    /\ waited' = TRUE
    /\ UNCHANGED <<request, job, products, recCache, cb, window, permits, slow>>

-----------------------------------------------------------------------------
(* The product cache: local entries over Redis.                            *)

\* getProduct for each id: the loader runs for ids that are not in l1.  A
\* loaded product is a new object; an id that Redis does not know is cached as
\* absent.
LookUp(ids) ==
    LET loaded == {i \in Range(ids) : l1[i] = "unknown"}
    IN  /\ \A i \in loaded \ Missing : gen[i] < MaxLoads
        /\ l1' = [i \in Items |-> IF i \notin loaded THEN l1[i]
                                  ELSE IF i \in Missing THEN "absent" ELSE "present"]
        /\ gen' = [i \in Items |-> IF i \in loaded \ Missing THEN gen[i] + 1 ELSE gen[i]]

\* The objects of those that were found, in the order of ids.
Found(ids) ==
    LET known == SelectSeq(ids, LAMBDA i : l1'[i] = "present")
    IN  [n \in 1 .. Len(known) |-> <<known[n], gen'[known[n]]>>]

\* Redis fails at the id after a prefix that was looked up: the loader throws,
\* and nothing is cached for it.
FailsAfter(ids, n) == n < Len(ids) /\ l1[ids[n + 1]] = "unknown"

\* Mutant: an error of Redis is cached as an absence.
LooksUpBadly(ids, n) ==
    /\ FailsAfter(ids, n)
    /\ l1' = [l1 EXCEPT ![ids[n + 1]] = "absent"]
    /\ UNCHANGED gen

LookUpFails(ids, n) == FailsAfter(ids, n) /\ LookUp(SubSeq(ids, 1, n))

\* expireAfterWrite and maximumSize.
Expire(i) ==
    /\ l1[i] # "unknown"
    /\ l1' = [l1 EXCEPT ![i] = "unknown"]
    /\ UNCHANGED <<request, job, gen, note, recCache, breaker>>

FirstK(s) == SubSeq(s, 1, IF Len(s) < K THEN Len(s) ELSE K)
Values(objs) == [n \in 1 .. Len(objs) |-> [item |-> objs[n][1], reason |-> note[objs[n]]]]

-----------------------------------------------------------------------------
(* A request.                                                              *)

Personalized(r) == UserOf[r] # NoUser

\* The text chain's getFallbackResultsMono, for a request that may share the
\* query cache or may not.
TextFallback(r) == IF Personalized(r) THEN "popular" ELSE "reading"

\* onErrorResume of searchAsync, imageSearchAsync and hybridSearchAsync.  An
\* image search with a query runs searchAsync next.
FallBack(r) ==
    LET turnsToText == leg[r] = "image" /\ QueryOf[r] # NoQuery
    IN  /\ leg' = [leg EXCEPT ![r] = IF turnsToText THEN "text" ELSE @]
        /\ stage' = [stage EXCEPT ![r] =
               IF turnsToText THEN "submit"
               ELSE IF leg[r] = "text" THEN TextFallback(r) ELSE "popular"]

GoTo(r, s) ==
    /\ stage' = [stage EXCEPT ![r] = s]
    /\ UNCHANGED leg

\* subscribeOn(inferenceScheduler): queued, or rejected by a full executor.
Submit(r) ==
    /\ stage[r] \in {"new", "submit"}
    /\ client' = [client EXCEPT ![r] = IF @ = "none" THEN "waiting" ELSE @]
    /\ GoTo(r, "queued") \/ FallBack(r)
    /\ UNCHANGED <<refs, answer, job, products, recCache, breaker>>

\* A thread subscribes: the timer starts and the breaker is asked.
Subscribe(r) ==
    /\ stage[r] = "queued"
    /\ IF Admits THEN Acquire /\ GoTo(r, "calling")
       ELSE FallBack(r) /\ UNCHANGED breaker
    /\ UNCHANGED <<client, refs, answer, job, products, recCache>>

\* Ray answers a text search: its list is to be enriched on the cache executor.
AnswersText(r, ids) ==
    /\ stage[r] = "calling"
    /\ leg[r] = "text"
    /\ job' = [job EXCEPT ![r] = [phase |-> "lookup", ids |-> ids, refs |-> <<>>]]
    /\ GoTo(r, "enriching")
    /\ UNCHANGED <<client, refs, answer, products, recCache, breaker>>

\* Ray answers an image or hybrid search, with the product data.  Only the
\* first result has a reason.
AnswersImage(r, ids) ==
    /\ stage[r] = "calling"
    /\ leg[r] # "text"
    /\ answer' = [answer EXCEPT ![r] =
           [from |-> "ray", rankedFor |-> UserOf[r],
            items |-> [n \in DOMAIN ids |->
                [item |-> ids[n], reason |-> IF n = 1 THEN r ELSE NoReason]]]]
    /\ CallEnds("answered")
    /\ GoTo(r, "ready")
    /\ UNCHANGED <<client, refs, job, products, recCache>>

\* Ray cannot be reached, answers an error or an empty body, finds the request
\* invalid; or the cache executor rejects the enrichment of its answer.
CallFails(r, outcome) ==
    /\ stage[r] = "calling"
    /\ outcome = "rejected" => leg[r] = "text"
    /\ CallEnds(outcome)
    /\ FallBack(r)
    /\ UNCHANGED <<client, refs, answer, job, products, recCache>>

\* Work that the cache executor has not begun is dropped with the request,
\* other work goes on.
Cancel(r) ==
    \/ UNCHANGED job
    \/ job[r].phase = "lookup" /\ job' = [job EXCEPT ![r] = NoJob]

\* Mono.timeout: it cancels the call, and the breaker sees no result.
TimesOut(r) ==
    /\ r \in Calls
    /\ Release
    /\ slow' = IF slow < MinCalls THEN slow + 1 ELSE slow
    /\ Cancel(r)
    /\ FallBack(r)
    /\ UNCHANGED <<client, refs, answer, products, recCache>>

\* The annotations the enrichment makes: on the first result its reason.
Enriched(r, objs, ids) ==
    [o \in Objects |->
        IF o \notin Range(objs) THEN note[o]
        ELSE IF o[1] = ids[1] THEN r ELSE NoReason]

Enrich(r) ==
    LET ids == job[r].ids
    IN  /\ job[r].phase = "lookup"
        /\ LookUp(ids)
        /\ note' = Enriched(r, Found(ids), ids)
        /\ job' = [job EXCEPT ![r] = [@ EXCEPT !.phase = "write", !.refs = FirstK(Found(ids))]]
        /\ UNCHANGED <<request, recCache, breaker>>

\* getProduct throws: the job ends, and the chain falls back if it still waits.
EnrichFails(r) ==
    LET ids == job[r].ids
    IN  /\ job[r].phase = "lookup"
        /\ \E n \in 0 .. Len(ids) :
              /\ LookUpFails(ids, n)
              /\ note' = Enriched(r, Found(SubSeq(ids, 1, n)), ids)
        /\ job' = [job EXCEPT ![r] = NoJob]
        /\ IF stage[r] = "enriching"
           THEN CallEnds("error") /\ FallBack(r)
           ELSE UNCHANGED <<stage, leg, breaker>>
        /\ UNCHANGED <<client, refs, answer, recCache>>

\* Mutant: every answer is written to the shared query cache.
SharesAll(r) == TRUE

\* Only results that were not ranked for a user go to the shared query cache.
MayShare(r) == ~Personalized(r)

\* The end of the enrichment: the write to the query cache, which may fail
\* silently, and the result for a chain that still waits for it.
EnrichEnds(r) ==
    LET objs == job[r].refs
    IN  /\ job[r].phase = "write"
        /\ \/ UNCHANGED recCache
           \/ /\ MayShare(r)
              /\ recCache' = [recCache EXCEPT ![QueryOf[r]] =
                     [rankedFor |-> UserOf[r], items |-> Values(objs)]]
        /\ job' = [job EXCEPT ![r] = NoJob]
        /\ IF stage[r] = "enriching"
           THEN /\ refs' = [refs EXCEPT ![r] = objs]
                /\ answer' = [answer EXCEPT ![r] =
                       [from |-> "ray", rankedFor |-> UserOf[r], items |-> <<>>]]
                /\ GoTo(r, "ready")
                /\ CallEnds("answered")
           ELSE UNCHANGED <<refs, answer, stage, leg, breaker>>
        /\ UNCHANGED <<client, products>>

\* The query cache as a fallback: its list is a private copy.  A miss, an
\* empty list, an error and a rejection all turn to the popular items.
ReadCache(r) ==
    LET entry == recCache[QueryOf[r]]
    IN  /\ stage[r] = "reading"
        /\ \/ /\ entry # NoEntry
              /\ entry.items # <<>>
              /\ answer' = [answer EXCEPT ![r] =
                     [from |-> "cache", rankedFor |-> entry.rankedFor, items |-> entry.items]]
              /\ GoTo(r, "ready")
           \/ UNCHANGED answer /\ GoTo(r, "popular")
        /\ UNCHANGED <<client, refs, job, products, recCache, breaker>>

\* CACHE_TTL, or Redis is flushed.
CacheExpires(q) ==
    /\ recCache[q] # NoEntry
    /\ recCache' = [recCache EXCEPT ![q] = NoEntry]
    /\ UNCHANGED <<request, job, products, breaker>>

\* getPopularItemsFallbackMono: the list of the first tier that has one.  The
\* objects keep the reason they carry.  A hybrid answer copies them.
PopularItems(r, ids) ==
    LET objs == FirstK(Found(ids))
        copies == leg[r] = "hybrid"
    IN  /\ stage[r] = "popular"
        /\ LookUp(ids)
        /\ refs' = [refs EXCEPT ![r] = IF copies THEN <<>> ELSE objs]
        /\ answer' = [answer EXCEPT ![r] =
               [from |-> "popular", rankedFor |-> NoUser,
                items |-> IF copies THEN Values(objs) ELSE <<>>]]
        /\ GoTo(r, "ready")
        /\ UNCHANGED <<client, job, note, recCache, breaker>>

\* Mutant: the error is passed on, and nobody is left to answer.
GivesUp(r) ==
    /\ stage[r] = "popular"
    /\ GoTo(r, "done")
    /\ UNCHANGED <<client, refs, answer, job, products, recCache, breaker>>

\* Redis fails, in a tier or at a product, or the executor is full: the result
\* is empty.
PopularFails(r) ==
    /\ stage[r] = "popular"
    /\ \/ UNCHANGED <<l1, gen>>
       \/ \E ids \in PopularLists : \E n \in 0 .. Len(ids) : LookUpFails(ids, n)
    /\ answer' = [answer EXCEPT ![r] =
           [from |-> "popular", rankedFor |-> NoUser, items |-> <<>>]]
    /\ GoTo(r, "ready")
    /\ UNCHANGED <<client, refs, job, note, recCache, breaker>>

\* The DeferredResult is set and the objects are serialised, unless the client
\* has been refused.
Serialise(r) ==
    /\ stage[r] = "ready"
    /\ IF client[r] = "waiting"
       THEN /\ client' = [client EXCEPT ![r] = "answered"]
            /\ answer' = [answer EXCEPT ![r].items =
                   IF refs[r] = <<>> THEN @ ELSE Values(refs[r])]
       ELSE UNCHANGED <<client, answer>>
    /\ refs' = [refs EXCEPT ![r] = <<>>]
    /\ GoTo(r, "done")
    /\ UNCHANGED <<job, products, recCache, breaker>>

\* DeferredResult.onTimeout, or the client went away: the future is cancelled
\* and the chain with it.  Only work that the cache executor has begun goes on.
Deadline(r) ==
    /\ client[r] = "waiting"
    /\ client' = [client EXCEPT ![r] = "refused"]
    /\ IF r \in Calls THEN Release /\ UNCHANGED slow ELSE UNCHANGED breaker
    /\ Cancel(r)
    /\ \/ stage[r] # "ready" /\ GoTo(r, "done")
       \/ stage[r] \in {"popular", "ready"} /\ UNCHANGED <<stage, leg>>
    /\ UNCHANGED <<refs, answer, products, recCache>>

-----------------------------------------------------------------------------

Failures == {"unreachable", "error", "bad_request", "rejected"}

\* What the gateway itself does next for a request: no step of the client, of
\* Ray, or of the DeferredResult's timer.
Works(r) ==
    \/ Submit(r) /\ stage[r] = "submit"
    \/ Subscribe(r)
    \/ TimesOut(r)
    \/ ReadCache(r)
    \/ \E ids \in PopularLists : PopularItems(r, ids)
    \/ PopularFails(r)
    \/ Serialise(r)

EnrichStep(r) == Enrich(r) \/ EnrichFails(r) \/ EnrichEnds(r)

Next ==
    \/ \E r \in Requests :
          \/ Submit(r)
          \/ Works(r)
          \/ \E ids \in Rankings : AnswersText(r, ids) \/ AnswersImage(r, ids)
          \/ \E outcome \in Failures : CallFails(r, outcome)
          \/ EnrichStep(r)
          \/ Deadline(r)
    \/ \E i \in Items : Expire(i)
    \/ \E q \in Queries : CacheExpires(q)
    \/ CircuitWaits

FlowSpec == Init /\ [][Next]_vars

\* The executors run what they queue, Redis answers or times out, and the
\* timeout of 600 ms fires.  Nothing is assumed of Ray, of the DeferredResult's
\* timer or of the caches.
FlowFairness == \A r \in Requests : WF_vars(Works(r)) /\ WF_vars(EnrichStep(r))

FairFlowSpec == FlowSpec /\ FlowFairness

-----------------------------------------------------------------------------
(* Properties.                                                             *)

\* "Personalized results must never be stored in or served from a key that
\* does not include userId" (RecommendationService.java:155-158): nobody is
\* served a list that was ranked for another user, and the shared query cache
\* holds none, whatever is cancelled, late or served as a fallback.
RankedForSelf ==
    /\ \A r \in Requests : answer[r].rankedFor \in {NoUser, UserOf[r]}
    /\ \A q \in Queries : recCache[q] # NoEntry => recCache[q].rankedFor = NoUser

\* "A transient 30-second Redis outage will not cause 10 minutes of degraded
\* metadata lookups" (ProductCacheService.java:147-150): only an item that
\* Redis does not have is remembered as absent.
AbsenceIsReal == \A i \in Items : l1[i] = "absent" => i \in Missing

\* The breaker never gets stuck half open: with no call in flight it admits
\* one, also after calls that were cancelled, timed out, were ignored, or were
\* admitted in an earlier state of the breaker.
HalfOpenNotStuck == cb = "half_open" /\ Calls = {} => permits > 0

\* "partial success rather than empty result" (RecommendationService.java:571):
\* every request is answered with a result by the gateway's own fallbacks, and
\* only the DeferredResult's timer can refuse one.
EveryRequestAnswered ==
    \A r \in Requests : client[r] = "waiting" ~> client[r] \in {"answered", "refused"}

\* "AI-generated reason (1 sentence), empty if fallback or not Top-1"
\* (RecommendationDTO.java:26): an answer of popular items has no reason.
PopularHasNoReason ==
    \A r \in Requests :
        client[r] = "answered" /\ answer[r].from = "popular" =>
            \A n \in DOMAIN answer[r].items : answer[r].items[n].reason = NoReason

\* "Record all common HTTP and timeout exceptions" (application.properties:122)
\* and "When Ray inference is down or slow: ... Circuit breaker opens at: 50%
\* failure rate" (InferenceClientConfig.java:59-64): a breaker whose last
\* MinCalls calls all ran into the timeout is not closed.
SlowRayOpensCircuit == slow = MinCalls => cb # "closed"
=============================================================================
