----------------------- MODULE RecommendationFlowProofs -----------------------
(***************************************************************************)
(* Theorems about RecommendationFlow.                                      *)
(***************************************************************************)
EXTENDS RecommendationFlow, TLAPS, FiniteSetTheorems

-----------------------------------------------------------------------------
(* The circuit breaker.                                                    *)

\* The part of the type invariant that the breaker rests on.
BreakerType ==
    /\ stage \in [Requests -> Stages]
    /\ cb \in {"closed", "open", "half_open"}
    /\ window \in Seq(BOOLEAN)
    /\ permits \in Nat

\* Every probe a half open breaker was opened with is still to be given, has
\* been recorded, or belongs to a call in flight.  Calls admitted before it
\* turned half open only add to the right side.
ProbesAccounted ==
    cb = "half_open" =>
        /\ Len(window) < HalfOpenCalls
        /\ HalfOpenCalls <= permits + Len(window) + Cardinality(Calls)

BInv == BreakerType /\ ProbesAccounted

LEMMA CallsFinite == IsFiniteSet(Calls) /\ Cardinality(Calls) \in Nat
<1>1. Calls \in SUBSET Requests
  BY DEF Calls
<1> QED
  BY <1>1, FlowAssumption, FS_Subset, FS_CardinalityType

LEMMA OneMore ==
  ASSUME NEW S, IsFiniteSet(S), NEW T, \E x : x \notin S /\ T = S \cup {x}
  PROVE  Cardinality(T) = Cardinality(S) + 1
<1>1. PICK x : x \notin S /\ T = S \cup {x}
  OBVIOUS
<1> QED
  BY <1>1, FS_AddElement

LEMMA OneLess ==
  ASSUME NEW S, IsFiniteSet(S), NEW T, \E x \in S : T = S \ {x}
  PROVE  Cardinality(S) = Cardinality(T) + 1 /\ Cardinality(T) \in Nat
<1>1. PICK x \in S : T = S \ {x}
  OBVIOUS
<1>2. IsFiniteSet(T) /\ Cardinality(T) \in Nat
  BY <1>1, FS_RemoveElement, FS_CardinalityType
<1>3. x \notin T /\ S = T \cup {x}
  BY <1>1
<1> QED
  BY <1>2, <1>3, FS_AddElement

\* What a step does to the calls in flight and to the breaker at the same time.
Breaks ==
    \/ UNCHANGED <<cb, window, permits>> /\ Calls' = Calls
    \/ /\ Admits /\ Acquire
       /\ \E r : r \notin Calls /\ Calls' = Calls \cup {r}
    \/ /\ Release \/ \E failed \in BOOLEAN : Record(failed)
       /\ \E r \in Calls : Calls' = Calls \ {r}

\* A step that keeps Breaks keeps the account of the probes.
LEMMA BreaksKeepsAccount ==
  ASSUME BInv, Breaks, stage' \in [Requests -> Stages]
  PROVE  BInv'
<1> DEFINE c == Cardinality(Calls)
<1>h. HalfOpenCalls \in Nat \ {0}
  BY FlowAssumption
<1>w. /\ cb \in {"closed", "open", "half_open"} /\ window \in Seq(BOOLEAN) /\ permits \in Nat
      /\ Len(window) \in Nat /\ c \in Nat
  BY CallsFinite DEF BInv, BreakerType
<1>a. cb = "half_open" => /\ Len(window) < HalfOpenCalls
                          /\ HalfOpenCalls <= permits + Len(window) + c
  BY DEF BInv, ProbesAccounted
<1>g. SUFFICES
        /\ cb' \in {"closed", "open", "half_open"} /\ window' \in Seq(BOOLEAN) /\ permits' \in Nat
        /\ cb' = "half_open" =>
              /\ Len(window') < HalfOpenCalls
              /\ HalfOpenCalls <= permits' + Len(window') + Cardinality(Calls')
  BY DEF BInv, BreakerType, ProbesAccounted
<1>1. CASE UNCHANGED <<cb, window, permits>> /\ Calls' = Calls
  BY <1>1, <1>w, <1>a
<1>2. CASE /\ Admits /\ Acquire
           /\ \E r : r \notin Calls /\ Calls' = Calls \cup {r}
  <2>1. Cardinality(Calls') = c + 1
    BY <1>2, CallsFinite, OneMore
  <2> HIDE DEF c
  <2>2. CASE cb = "closed"
    BY <1>2, <1>w, <2>2 DEF Acquire, breaker
  <2>3. CASE cb = "open"
    <3>1. cb' = "half_open" /\ permits' = HalfOpenCalls - 1 /\ window' = <<>>
      BY <1>2, <2>3 DEF Acquire
    <3> QED
      BY <3>1, <2>1, <1>w, <1>h
  <2>4. CASE cb = "half_open"
    <3>1. cb' = "half_open" /\ permits' = permits - 1 /\ window' = window /\ permits > 0
      BY <1>2, <2>4 DEF Acquire, Admits
    <3> QED
      BY <3>1, <2>1, <2>4, <1>w, <1>h, <1>a
  <2> QED
    BY <1>w, <2>2, <2>3, <2>4
<1>3. CASE Release /\ \E r \in Calls : Calls' = Calls \ {r}
  <2>1. c = Cardinality(Calls') + 1 /\ Cardinality(Calls') \in Nat
    BY <1>3, CallsFinite, OneLess
  <2> HIDE DEF c
  <2>2. /\ cb' = cb /\ window' = window
        /\ permits' = IF cb = "half_open" THEN permits + 1 ELSE permits
    BY <1>3 DEF Release
  <2> QED
    BY <2>1, <2>2, <1>w, <1>h, <1>a
<1>4. ASSUME NEW failed \in BOOLEAN, Record(failed),
             \E r \in Calls : Calls' = Calls \ {r}
      PROVE  /\ cb' \in {"closed", "open", "half_open"} /\ window' \in Seq(BOOLEAN) /\ permits' \in Nat
             /\ cb' = "half_open" =>
                   /\ Len(window') < HalfOpenCalls
                   /\ HalfOpenCalls <= permits' + Len(window') + Cardinality(Calls')
  <2>1. c = Cardinality(Calls') + 1 /\ Cardinality(Calls') \in Nat
    BY <1>4, CallsFinite, OneLess
  <2> HIDE DEF c
  <2> DEFINE size == IF cb = "closed" THEN Window ELSE HalfOpenCalls
             needed == IF cb = "closed" THEN MinCalls ELSE HalfOpenCalls
             all == Append(window, failed)
             recent == IF Len(all) > size THEN Tail(all) ELSE all
             failures == Cardinality({n \in 1 .. Len(recent) : recent[n]})
             judged == cb # "open" /\ Len(recent) >= needed
             trips == judged /\ 2 * failures >= Len(recent)
             closes == cb = "half_open" /\ judged /\ ~trips
  <2>2. /\ cb' = (IF trips THEN "open" ELSE IF closes THEN "closed" ELSE cb)
        /\ window' = (IF trips \/ closes \/ cb = "open" THEN <<>> ELSE recent)
        /\ permits' = (IF trips \/ closes THEN 0 ELSE permits)
    BY <1>4, Zenon DEF Record
  <2>3. /\ all \in Seq(BOOLEAN) /\ Len(all) = Len(window) + 1 /\ Tail(all) \in Seq(BOOLEAN)
    BY <1>w
  <2>4. recent \in Seq(BOOLEAN)
    BY <2>3
  <2>5. cb = "half_open" => recent = all
    BY <2>3, <1>w, <1>a, <1>h
  <2>6. cb = "half_open" /\ ~trips /\ ~closes => ~(Len(all) >= HalfOpenCalls)
    <3>1. SUFFICES ASSUME cb = "half_open", Len(all) >= HalfOpenCalls
                   PROVE  trips \/ closes
      OBVIOUS
    <3>2. judged
      BY <3>1, <2>5
    <3> QED
      BY <3>1, <3>2, Zenon
  <2> HIDE DEF trips, closes, recent
  <2>7. cb' \in {"closed", "open", "half_open"} /\ window' \in Seq(BOOLEAN) /\ permits' \in Nat
    <3>1. cb' \in {"open", "closed", cb} /\ window' \in {<<>>, recent} /\ permits' \in {0, permits}
      BY <2>2, Zenon
    <3>2. cb' \in {"closed", "open", "half_open"}
      BY <3>1, <1>w
    <3>3. <<>> \in Seq(BOOLEAN)
      OBVIOUS
    <3>4. window' \in Seq(BOOLEAN)
      BY <3>1, <3>3, <2>4, <1>w, Zenon
    <3>5. permits' \in Nat
      BY <3>1, <1>w
    <3> QED
      BY <3>2, <3>4, <3>5
  <2>8. CASE cb' = "half_open"
    <3>1. cb = "half_open" /\ ~trips /\ ~closes /\ window' = all /\ permits' = permits
      BY <2>2, <2>5, <2>8, Zenon
    <3> QED
      BY <3>1, <2>1, <2>3, <2>6, <2>7, <1>w, <1>a, <1>h
  <2> QED
    BY <2>7, <2>8
<1> QED
  BY <1>1, <1>2, <1>3, <1>4 DEF Breaks

\* Where a chain may fall back to: never to a call.
LEMMA FallBackMoves ==
  ASSUME NEW r \in Requests, FallBack(r)
  PROVE  \E s \in {"submit", "reading", "popular"} : stage' = [stage EXCEPT ![r] = s]
BY DEF FallBack, TextFallback

\* The calls in flight after one request has moved.
LEMMA CallsAfter ==
  ASSUME stage \in [Requests -> Stages], NEW r \in Requests, NEW s \in Stages,
         stage' = [stage EXCEPT ![r] = s]
  PROVE  /\ stage' \in [Requests -> Stages]
         /\ s \in {"calling", "enriching"} => Calls' = Calls \cup {r}
         /\ s \notin {"calling", "enriching"} => Calls' = Calls \ {r}
BY DEF Calls

\* A request that is not in a call moves, and starts none.
LEMMA MovesOutside ==
  ASSUME stage \in [Requests -> Stages], NEW r \in Requests \ Calls,
         UNCHANGED <<cb, window, permits>>,
         \/ UNCHANGED stage
         \/ FallBack(r)
         \/ \E s \in {"queued", "popular", "ready", "done"} : GoTo(r, s)
  PROVE  Breaks /\ stage' \in [Requests -> Stages]
<1>1. CASE UNCHANGED stage
  BY <1>1 DEF Breaks, Calls
<1>2. ASSUME NEW s \in {"submit", "reading", "queued", "popular", "ready", "done"},
             stage' = [stage EXCEPT ![r] = s]
      PROVE  Breaks /\ stage' \in [Requests -> Stages]
  <2>1. s \in Stages /\ s \notin {"calling", "enriching"}
    BY DEF Stages
  <2>2. Calls' = Calls \ {r} /\ stage' \in [Requests -> Stages]
    BY <1>2, <2>1, CallsAfter
  <2> QED
    BY <2>2 DEF Breaks
<1>3. CASE FallBack(r)
  BY <1>2, <1>3, FallBackMoves
<1> QED
  BY <1>1, <1>2, <1>3 DEF GoTo

\* A request leaves its call, and the breaker is told.
LEMMA MovesOut ==
  ASSUME stage \in [Requests -> Stages], NEW r \in Calls,
         Release \/ \E outcome : CallEnds(outcome),
         FallBack(r) \/ GoTo(r, "ready") \/ GoTo(r, "done")
  PROVE  Breaks /\ stage' \in [Requests -> Stages]
<1>1. r \in Requests
  BY DEF Calls
<1>2. PICK s \in {"submit", "reading", "popular", "ready", "done"} :
        stage' = [stage EXCEPT ![r] = s]
  BY <1>1, FallBackMoves DEF GoTo
<1>3. s \in Stages /\ s \notin {"calling", "enriching"}
  BY DEF Stages
<1>4. Calls' = Calls \ {r} /\ stage' \in [Requests -> Stages]
  BY <1>1, <1>2, <1>3, CallsAfter
<1>5. Release \/ \E failed \in BOOLEAN : Record(failed)
  <2>1. ASSUME NEW outcome, CallEnds(outcome), ~Ignored(outcome)
        PROVE  \E failed \in BOOLEAN : Record(failed)
    BY <2>1 DEF CallEnds, RecordedAsFailure
  <2>2. ASSUME NEW outcome, CallEnds(outcome), Ignored(outcome)
        PROVE  Release
    BY <2>2 DEF CallEnds
  <2> QED
    BY <2>1, <2>2
<1> QED
  BY <1>4, <1>5 DEF Breaks

\* Every step of the gateway treats the breaker and the calls together.
LEMMA StepBreaks ==
  ASSUME stage \in [Requests -> Stages], [Next]_vars
  PROVE  Breaks /\ stage' \in [Requests -> Stages]
<1> DEFINE Goal == Breaks /\ stage' \in [Requests -> Stages]
<1>0. ASSUME UNCHANGED <<stage, cb, window, permits>>
      PROVE  Goal
  BY <1>0 DEF Breaks, Calls
<1>1. ASSUME NEW r \in Requests, Submit(r) PROVE Goal
  BY <1>1, MovesOutside DEF Submit, Calls, breaker
<1>2. ASSUME NEW r \in Requests, Subscribe(r) PROVE Goal
  <2>1. r \notin Calls
    BY <1>2 DEF Subscribe, Calls
  <2>2. CASE Admits
    <3>1. Acquire /\ stage' = [stage EXCEPT ![r] = "calling"] /\ "calling" \in Stages
      BY <1>2, <2>2 DEF Subscribe, GoTo, Stages
    <3>2. Calls' = Calls \cup {r} /\ stage' \in [Requests -> Stages]
      BY <3>1, CallsAfter
    <3> QED
      BY <2>1, <2>2, <3>1, <3>2 DEF Breaks
  <2>3. CASE ~Admits
    BY <1>2, <2>1, <2>3, MovesOutside DEF Subscribe, breaker
  <2> QED
    BY <2>2, <2>3
<1>3. ASSUME NEW r \in Requests, NEW ids \in Rankings, AnswersText(r, ids) PROVE Goal
  <2>1. /\ stage' = [stage EXCEPT ![r] = "enriching"] /\ "enriching" \in Stages
        /\ r \in Calls /\ UNCHANGED <<cb, window, permits>>
    BY <1>3 DEF AnswersText, GoTo, Stages, Calls, breaker
  <2>2. Calls' = Calls \cup {r} /\ stage' \in [Requests -> Stages]
    BY <2>1, CallsAfter
  <2> QED
    BY <2>1, <2>2 DEF Breaks
<1>4. ASSUME NEW r \in Requests, NEW ids \in Rankings, AnswersImage(r, ids) PROVE Goal
  BY <1>4, MovesOut DEF AnswersImage, Calls
<1>5. ASSUME NEW r \in Requests, NEW outcome \in Failures, CallFails(r, outcome) PROVE Goal
  BY <1>5, MovesOut DEF CallFails, Calls
<1>6. ASSUME NEW r \in Requests, TimesOut(r) PROVE Goal
  BY <1>6, MovesOut DEF TimesOut
<1>7. ASSUME NEW r \in Requests, Enrich(r) PROVE Goal
  BY <1>7, <1>0 DEF Enrich, request, breaker
<1>8. ASSUME NEW r \in Requests, EnrichFails(r) PROVE Goal
  <2>1. CASE stage[r] = "enriching"
    BY <1>8, <2>1, MovesOut DEF EnrichFails, Calls
  <2>2. CASE stage[r] # "enriching"
    BY <1>8, <2>2, <1>0 DEF EnrichFails, breaker
  <2> QED
    BY <2>1, <2>2
<1>9. ASSUME NEW r \in Requests, EnrichEnds(r) PROVE Goal
  <2>1. CASE stage[r] = "enriching"
    BY <1>9, <2>1, MovesOut DEF EnrichEnds, Calls
  <2>2. CASE stage[r] # "enriching"
    BY <1>9, <2>2, <1>0 DEF EnrichEnds, breaker
  <2> QED
    BY <2>1, <2>2
<1>10. ASSUME NEW r \in Requests, ReadCache(r) PROVE Goal
  BY <1>10, MovesOutside DEF ReadCache, Calls, breaker
<1>11. ASSUME NEW r \in Requests, NEW ids \in PopularLists, PopularItems(r, ids) PROVE Goal
  BY <1>11, MovesOutside DEF PopularItems, Calls, breaker
<1>12. ASSUME NEW r \in Requests, PopularFails(r) PROVE Goal
  BY <1>12, MovesOutside DEF PopularFails, Calls, breaker
<1>13. ASSUME NEW r \in Requests, Serialise(r) PROVE Goal
  BY <1>13, MovesOutside DEF Serialise, Calls, breaker
<1>14. ASSUME NEW r \in Requests, Deadline(r) PROVE Goal
  <2>1. CASE r \in Calls
    <3>1. Release /\ GoTo(r, "done")
      BY <1>14, <2>1 DEF Deadline, Calls
    <3> QED
      BY <2>1, <3>1, MovesOut
  <2>2. CASE r \notin Calls
    BY <1>14, <2>2, MovesOutside DEF Deadline, breaker
  <2> QED
    BY <2>1, <2>2
<1>15. ASSUME NEW i \in Items, Expire(i) PROVE Goal
  BY <1>15, <1>0 DEF Expire, request, breaker
<1>16. ASSUME NEW q \in Queries, CacheExpires(q) PROVE Goal
  BY <1>16, <1>0 DEF CacheExpires, request, breaker
<1>17. ASSUME CircuitWaits PROVE Goal
  BY <1>17, <1>0 DEF CircuitWaits, request
<1>18. ASSUME UNCHANGED vars PROVE Goal
  BY <1>18, <1>0 DEF vars, request, breaker
<1> QED
  BY <1>1, <1>2, <1>3, <1>4, <1>5, <1>6, <1>7, <1>8, <1>9, <1>10, <1>11, <1>12,
     <1>13, <1>14, <1>15, <1>16, <1>17, <1>18
  DEF Next, Works, EnrichStep

\* The breaker never gets stuck half open (resilience4j as InferenceClientConfig
\* and callRay use it): with no call in flight a probe is left to give.
THEOREM HalfOpenNeverStuck == FlowSpec => []HalfOpenNotStuck
<1>1. Init => BInv
  BY DEF Init, BInv, BreakerType, ProbesAccounted, Stages
<1>2. BInv /\ [Next]_vars => BInv'
  BY StepBreaks, BreaksKeepsAccount DEF BInv, BreakerType
<1>3. BInv => HalfOpenNotStuck
  <2>1. SUFFICES ASSUME BInv, cb = "half_open", Calls = {}
                 PROVE  permits > 0
    BY DEF HalfOpenNotStuck
  <2>2. Cardinality(Calls) = 0
    BY <2>1, FS_EmptySet
  <2>3. Len(window) < HalfOpenCalls /\ HalfOpenCalls <= permits + Len(window)
    BY <2>1, <2>2 DEF BInv, BreakerType, ProbesAccounted
  <2> QED
    BY <2>1, <2>3, FlowAssumption DEF BInv, BreakerType
<1> QED
  BY <1>1, <1>2, <1>3, PTL DEF FlowSpec

-----------------------------------------------------------------------------
(* The product cache.                                                      *)

AbsenceInv == l1 = [i \in Items |-> l1[i]] /\ AbsenceIsReal

LEMMA LookUpKeepsAbsence ==
  ASSUME AbsenceInv, NEW ids, LookUp(ids)
  PROVE  AbsenceInv'
BY DEF AbsenceInv, AbsenceIsReal, LookUp

\* Only what Redis does not have is remembered as absent by ProductCacheService,
\* however often Redis fails in the middle of a list.
THEOREM AbsencesAreReal == FlowSpec => []AbsenceIsReal
<1>1. Init => AbsenceInv
  BY DEF Init, AbsenceInv, AbsenceIsReal
<1>2. ASSUME AbsenceInv, [Next]_vars
      PROVE  AbsenceInv'
  <2>0. ASSUME UNCHANGED l1 PROVE AbsenceInv'
    BY <1>2, <2>0 DEF AbsenceInv, AbsenceIsReal
  <2>1. ASSUME NEW r \in Requests,
               \/ Submit(r) \/ Subscribe(r) \/ TimesOut(r) \/ ReadCache(r) \/ Serialise(r)
               \/ \E ids \in Rankings : AnswersText(r, ids) \/ AnswersImage(r, ids)
               \/ \E outcome \in Failures : CallFails(r, outcome)
               \/ EnrichEnds(r) \/ Deadline(r)
        PROVE  AbsenceInv'
    BY <2>0, <2>1 DEF Submit, Subscribe, TimesOut, ReadCache, Serialise, AnswersText,
         AnswersImage, CallFails, EnrichEnds, Deadline, products
  <2>2. ASSUME NEW r \in Requests, Enrich(r) PROVE AbsenceInv'
    BY <1>2, <2>2, LookUpKeepsAbsence DEF Enrich
  <2>3. ASSUME NEW r \in Requests, EnrichFails(r) PROVE AbsenceInv'
    <3>1. \E ids : LookUp(ids)
      BY <2>3 DEF EnrichFails, LookUpFails
    <3> QED
      BY <1>2, <3>1, LookUpKeepsAbsence
  <2>4. ASSUME NEW r \in Requests, NEW ids \in PopularLists, PopularItems(r, ids)
        PROVE  AbsenceInv'
    BY <1>2, <2>4, LookUpKeepsAbsence DEF PopularItems
  <2>5. ASSUME NEW r \in Requests, PopularFails(r) PROVE AbsenceInv'
    <3>1. UNCHANGED l1 \/ \E ids : LookUp(ids)
      BY <2>5 DEF PopularFails, LookUpFails
    <3> QED
      BY <1>2, <2>0, <3>1, LookUpKeepsAbsence
  <2>6. ASSUME NEW i \in Items, Expire(i) PROVE AbsenceInv'
    BY <1>2, <2>6 DEF Expire, AbsenceInv, AbsenceIsReal
  <2>7. ASSUME UNCHANGED vars \/ CircuitWaits \/ \E q \in Queries : CacheExpires(q)
        PROVE  AbsenceInv'
    BY <2>0, <2>7 DEF vars, products, CircuitWaits, CacheExpires
  <2> QED
    BY <1>2, <2>1, <2>2, <2>3, <2>4, <2>5, <2>6, <2>7 DEF Next, Works, EnrichStep
<1>3. AbsenceInv => AbsenceIsReal
  BY DEF AbsenceInv
<1> QED
  BY <1>1, <1>2, <1>3, PTL DEF FlowSpec

-----------------------------------------------------------------------------
(* The shared query cache.                                                 *)

Chain == <<stage, leg>>

\* A chain reads the query cache only with a query: it is a text search by
\* then.
ChainShape ==
    /\ stage \in [Requests -> Stages]
    /\ leg \in [Requests -> Legs]
    /\ \A r \in Requests : leg[r] = "text" => QueryOf[r] \in Queries
    /\ \A r \in Requests : stage[r] = "reading" => leg[r] = "text"

LEMMA FallBackKeepsChain ==
  ASSUME ChainShape, NEW r \in Requests, FallBack(r)
  PROVE  ChainShape'
BY FlowAssumption DEF ChainShape, FallBack, TextFallback, Legs, Stages

LEMMA GoToKeepsChain ==
  ASSUME ChainShape, NEW r \in Requests, NEW s \in Stages \ {"reading"}, GoTo(r, s)
  PROVE  ChainShape'
BY DEF ChainShape, GoTo

\* What a step of the gateway does to the chain.
LEMMA StepKeepsChain ==
  ASSUME ChainShape, [Next]_vars
  PROVE  ChainShape'
<1>0. ASSUME UNCHANGED Chain PROVE ChainShape'
  BY <1>0 DEF Chain, ChainShape
<1>1. ASSUME NEW r \in Requests,
             \/ UNCHANGED Chain
             \/ FallBack(r)
             \/ \E s \in Stages \ {"reading"} : GoTo(r, s)
      PROVE  ChainShape'
  BY <1>0, <1>1, FallBackKeepsChain, GoToKeepsChain
<1>2. {"queued", "calling", "enriching", "popular", "ready", "done"} \subseteq Stages \ {"reading"}
  BY DEF Stages
<1>3. ASSUME NEW r \in Requests,
             Submit(r) \/ Subscribe(r) \/ TimesOut(r) \/ ReadCache(r) \/ Serialise(r)
      PROVE  ChainShape'
  BY <1>1, <1>2, <1>3 DEF Submit, Subscribe, TimesOut, ReadCache, Serialise
<1>4. ASSUME NEW r \in Requests, NEW ids \in Rankings, AnswersText(r, ids) \/ AnswersImage(r, ids)
      PROVE  ChainShape'
  BY <1>1, <1>2, <1>4 DEF AnswersText, AnswersImage
<1>5. ASSUME NEW r \in Requests, NEW outcome \in Failures, CallFails(r, outcome)
      PROVE  ChainShape'
  BY <1>1, <1>5 DEF CallFails
<1>6. ASSUME NEW r \in Requests, Enrich(r) \/ EnrichFails(r) \/ EnrichEnds(r)
      PROVE  ChainShape'
  BY <1>1, <1>2, <1>6 DEF Enrich, EnrichFails, EnrichEnds, request, Chain
<1>7. ASSUME NEW r \in Requests, NEW ids \in PopularLists, PopularItems(r, ids)
      PROVE  ChainShape'
  BY <1>1, <1>2, <1>7 DEF PopularItems
<1>8. ASSUME NEW r \in Requests, PopularFails(r) \/ Deadline(r)
      PROVE  ChainShape'
  BY <1>1, <1>2, <1>8 DEF PopularFails, Deadline, Chain
<1>9. ASSUME \/ UNCHANGED vars \/ CircuitWaits
             \/ \E i \in Items : Expire(i)
             \/ \E q \in Queries : CacheExpires(q)
      PROVE  ChainShape'
  BY <1>0, <1>9 DEF vars, request, Chain, CircuitWaits, Expire, CacheExpires
<1> QED
  BY <1>3, <1>4, <1>5, <1>6, <1>7, <1>8, <1>9 DEF Next, Works, EnrichStep

IsAnswer(a) == a = [from |-> a.from, rankedFor |-> a.rankedFor, items |-> a.items]

AnswersShape ==
    /\ answer = [r \in Requests |-> answer[r]]
    /\ \A r \in Requests : IsAnswer(answer[r])
    /\ recCache = [q \in Queries |-> recCache[q]]

SharingInv == ChainShape /\ AnswersShape /\ RankedForSelf

LEMMA NewItems ==
  ASSUME NEW a, IsAnswer(a), NEW items
  PROVE  [a EXCEPT !.items = items] =
            [from |-> a.from, rankedFor |-> a.rankedFor, items |-> items]
<1> DEFINE from == a.from
           user == a.rankedFor
           old == a.items
<1>1. a = [from |-> from, rankedFor |-> user, items |-> old]
  BY DEF IsAnswer
<1> HIDE DEF from, user, old
<1>2. [a EXCEPT !.items = items] = [from |-> from, rankedFor |-> user, items |-> items]
  BY <1>1
<1> QED
  BY <1>2 DEF from, user

LEMMA AnswerIsOwn ==
  ASSUME AnswersShape, RankedForSelf, UNCHANGED recCache, NEW r \in Requests,
         NEW from, NEW user \in {NoUser, UserOf[r]}, NEW items,
         answer' = [answer EXCEPT ![r] = [from |-> from, rankedFor |-> user, items |-> items]]
  PROVE  (AnswersShape /\ RankedForSelf)'
BY DEF AnswersShape, IsAnswer, RankedForSelf

LEMMA StepKeepsOwn ==
  ASSUME SharingInv, [Next]_vars
  PROVE  (AnswersShape /\ RankedForSelf)'
<1> DEFINE Goal == (AnswersShape /\ RankedForSelf)'
<1> USE DEF SharingInv
<1>0. ASSUME UNCHANGED <<answer, recCache>> PROVE Goal
  BY <1>0 DEF AnswersShape, IsAnswer, RankedForSelf
<1>1. ASSUME NEW r \in Requests,
             \/ Submit(r) \/ Subscribe(r) \/ TimesOut(r) \/ Enrich(r) \/ EnrichFails(r)
             \/ \E ids \in Rankings : AnswersText(r, ids)
             \/ \E outcome \in Failures : CallFails(r, outcome)
             \/ Deadline(r)
      PROVE  Goal
  BY <1>0, <1>1 DEF Submit, Subscribe, TimesOut, Enrich, EnrichFails, AnswersText,
       CallFails, Deadline, request
<1>2. ASSUME NEW r \in Requests, NEW ids \in Rankings, AnswersImage(r, ids) PROVE Goal
  BY <1>2, AnswerIsOwn DEF AnswersImage
<1>3. ASSUME NEW r \in Requests, EnrichEnds(r) PROVE Goal
  <2>1. CASE UNCHANGED recCache
    <3>1. CASE stage[r] = "enriching"
      BY <1>3, <2>1, <3>1, AnswerIsOwn DEF EnrichEnds
    <3>2. CASE stage[r] # "enriching"
      BY <1>0, <1>3, <2>1, <3>2 DEF EnrichEnds
    <3> QED
      BY <3>1, <3>2
  <2>2. CASE /\ MayShare(r)
             /\ recCache' = [recCache EXCEPT ![QueryOf[r]] =
                    [rankedFor |-> UserOf[r], items |-> Values(job[r].refs)]]
    <3>1. UserOf[r] = NoUser
      BY <2>2 DEF MayShare, Personalized
    <3>2. /\ recCache' = [q \in Queries |-> recCache'[q]]
          /\ \A q \in Queries : recCache'[q] # NoEntry => recCache'[q].rankedFor = NoUser
      BY <2>2, <3>1 DEF AnswersShape, RankedForSelf
    <3>3. \/ UNCHANGED answer
          \/ answer' = [answer EXCEPT ![r] =
                 [from |-> "ray", rankedFor |-> UserOf[r], items |-> <<>>]]
      BY <1>3 DEF EnrichEnds
    <3> QED
      BY <3>2, <3>3 DEF AnswersShape, IsAnswer, RankedForSelf
  <2> QED
    BY <1>3, <2>1, <2>2 DEF EnrichEnds
<1>4. ASSUME NEW r \in Requests, ReadCache(r) PROVE Goal
  <2> DEFINE entry == recCache[QueryOf[r]]
  <2>1. QueryOf[r] \in Queries /\ UNCHANGED recCache
    BY <1>4 DEF ReadCache, ChainShape
  <2>2. CASE /\ entry # NoEntry
             /\ answer' = [answer EXCEPT ![r] =
                    [from |-> "cache", rankedFor |-> entry.rankedFor, items |-> entry.items]]
    <3>1. entry.rankedFor \in {NoUser, UserOf[r]}
      BY <2>1, <2>2 DEF RankedForSelf
    <3> QED
      BY <2>1, <2>2, <3>1, AnswerIsOwn
  <2>3. CASE UNCHANGED answer
    BY <1>0, <2>1, <2>3
  <2> QED
    BY <1>4, <2>2, <2>3 DEF ReadCache
<1>5. ASSUME NEW r \in Requests, NEW ids \in PopularLists, PopularItems(r, ids) PROVE Goal
  BY <1>5, AnswerIsOwn DEF PopularItems
<1>6. ASSUME NEW r \in Requests, PopularFails(r) PROVE Goal
  BY <1>6, AnswerIsOwn DEF PopularFails
<1>7. ASSUME NEW r \in Requests, Serialise(r) PROVE Goal
  <2>1. CASE client[r] = "waiting"
    <3>1. PICK items : answer' = [answer EXCEPT ![r].items = items]
      BY <1>7, <2>1 DEF Serialise
    <3>2. answer' = [answer EXCEPT ![r] =
             [from |-> answer[r].from, rankedFor |-> answer[r].rankedFor, items |-> items]]
      <4>1. answer' = [answer EXCEPT ![r] = [answer[r] EXCEPT !.items = items]]
        BY <3>1 DEF AnswersShape
      <4>2. IsAnswer(answer[r])
        BY DEF AnswersShape
      <4> QED
        BY <4>1, <4>2, NewItems
    <3>3. answer[r].rankedFor \in {NoUser, UserOf[r]} /\ UNCHANGED recCache
      BY <1>7 DEF RankedForSelf, Serialise
    <3> QED
      BY <3>2, <3>3, AnswerIsOwn
  <2>2. CASE client[r] # "waiting"
    BY <1>0, <1>7, <2>2 DEF Serialise
  <2> QED
    BY <2>1, <2>2
<1>8. ASSUME NEW q \in Queries, CacheExpires(q) PROVE Goal
  BY <1>8 DEF CacheExpires, request, AnswersShape, IsAnswer, RankedForSelf
<1>9. ASSUME UNCHANGED vars \/ CircuitWaits \/ \E i \in Items : Expire(i) PROVE Goal
  BY <1>0, <1>9 DEF vars, request, CircuitWaits, Expire
<1> QED
  BY <1>1, <1>2, <1>3, <1>4, <1>5, <1>6, <1>7, <1>8, <1>9 DEF Next, Works, EnrichStep

\* Nobody is served a list that was ranked for somebody else, and the shared
\* query cache never holds one (the two caches of RecommendationService).
THEOREM NobodyElsesRanking == FlowSpec => []RankedForSelf
<1>1. Init => SharingInv
  <2>1. SUFFICES ASSUME Init PROVE SharingInv
    OBVIOUS
  <2>2. ChainShape
    BY <2>1, FlowAssumption DEF Init, ChainShape, Stages
  <2>3. AnswersShape /\ RankedForSelf
    BY <2>1 DEF Init, AnswersShape, IsAnswer, RankedForSelf, NoAnswer
  <2> QED
    BY <2>2, <2>3 DEF SharingInv
<1>2. SharingInv /\ [Next]_vars => SharingInv'
  BY StepKeepsChain, StepKeepsOwn DEF SharingInv
<1>3. SharingInv => RankedForSelf
  BY DEF SharingInv
<1> QED
  BY <1>1, <1>2, <1>3, PTL DEF FlowSpec

-----------------------------------------------------------------------------
(* Every request is answered, if only the gateway takes its steps.         *)

\* How far a request has come.  An image or hybrid search queues and calls
\* before the text search it may turn to.
StageNo == [new |-> 0, submit |-> 3, queued |-> 4, calling |-> 5, enriching |-> 6,
            reading |-> 7, popular |-> 8, ready |-> 9, done |-> 10]
Place(s, l) ==
    IF s = "queued" /\ l # "text" THEN 1
    ELSE IF s = "calling" /\ l # "text" THEN 2
    ELSE StageNo[s]
Progress(r) == Place(stage[r], leg[r])

\* The gateway has a step for whoever waits: each stage but the first and the
\* last has one in Works that waits for nobody, of which the timeout and the
\* empty result of PopularFails are the last resorts.
NobodyIsDropped ==
    \A r \in Requests : client[r] = "waiting" => stage[r] \in Stages \ {"new", "done"}

\* No step of anybody takes a request back, and each of the gateway's takes it
\* on, so that ten are enough.
RequestsAdvance ==
    \A r \in Requests :
        /\ Progress(r) \in 0 .. 10 /\ Progress(r)' >= Progress(r)
        /\ Works(r) => Progress(r)' > Progress(r)

ServiceInv ==
    /\ client \in [Requests -> {"none", "waiting", "answered", "refused"}]
    /\ stage \in [Requests -> Stages] /\ leg \in [Requests -> Legs]
    /\ \A r \in Requests :
          /\ stage[r] = "new" <=> client[r] = "none"
          /\ stage[r] = "done" => client[r] # "waiting"
          /\ stage[r] \in {"submit", "enriching"} => leg[r] = "text"

LEMMA StageNoIs ==
  /\ StageNo["new"] = 0 /\ StageNo["submit"] = 3 /\ StageNo["queued"] = 4 /\ StageNo["calling"] = 5
  /\ StageNo["enriching"] = 6 /\ StageNo["reading"] = 7 /\ StageNo["popular"] = 8
  /\ StageNo["ready"] = 9 /\ StageNo["done"] = 10
BY DEF StageNo

LEMMA PlaceIs == ASSUME NEW s \in Stages, NEW l PROVE Place(s, l) \in 0 .. 10
BY StageNoIs DEF Place, Stages

ServiceTyped ==
    \A r \in Requests : Progress(r) \in 0 .. 10

LEMMA ServiceIs == ServiceInv => ServiceTyped
BY PlaceIs DEF ServiceInv, ServiceTyped, Progress

\* The fallback of a request that has not got to the caches.
LEMMA FallBackAdvances ==
  ASSUME ServiceInv, NEW r \in Requests, FallBack(r),
         stage[r] \in {"new", "submit", "queued", "calling", "enriching"}
  PROVE  /\ Progress(r)' > Progress(r) /\ \A q \in Requests \ {r} : Progress(q)' = Progress(q)
         /\ stage'[r] \in {"submit", "reading", "popular"} /\ (stage'[r] = "submit" => leg'[r] = "text")
         /\ stage' \in [Requests -> Stages] /\ leg' \in [Requests -> Legs]
         /\ \A q \in Requests \ {r} : stage'[q] = stage[q] /\ leg'[q] = leg[q]
<1>1. stage \in [Requests -> Stages] /\ leg \in [Requests -> Legs]
      /\ (stage[r] \in {"submit", "enriching"} => leg[r] = "text")
  BY DEF ServiceInv
<1>2. /\ stage' \in [Requests -> Stages] /\ leg' \in [Requests -> Legs]
      /\ \A q \in Requests \ {r} : stage'[q] = stage[q] /\ leg'[q] = leg[q]
  BY <1>1 DEF FallBack, TextFallback, Stages, Legs
<1>3. \/ leg[r] = "image" /\ leg'[r] = "text" /\ stage'[r] = "submit"
      \/ leg[r] = "text" /\ leg'[r] = leg[r] /\ stage'[r] \in {"reading", "popular"}
      \/ leg[r] # "text" /\ leg'[r] = leg[r] /\ stage'[r] = "popular"
  BY <1>1 DEF FallBack, TextFallback, Legs
<1>4. Progress(r)' > Progress(r)
  BY <1>1, <1>3, StageNoIs DEF Progress, Place
<1> QED
  BY <1>2, <1>3, <1>4 DEF Progress

\* A request that goes on to a later stage of its chain.
LEMMA GoToAdvances ==
  ASSUME ServiceInv, NEW r \in Requests, NEW s \in Stages \ {"new"}, GoTo(r, s)
  PROVE  /\ Progress(r)' = Place(s, leg[r]) /\ \A q \in Requests \ {r} : Progress(q)' = Progress(q)
         /\ stage'[r] = s /\ leg'[r] = leg[r]
         /\ stage' \in [Requests -> Stages] /\ leg' \in [Requests -> Legs]
         /\ \A q \in Requests \ {r} : stage'[q] = stage[q] /\ leg'[q] = leg[q]
BY DEF ServiceInv, GoTo, Progress

\* One request has moved, and its client may have been told.
LEMMA OneServed ==
  ASSUME ServiceInv, NEW r \in Requests,
         stage' \in [Requests -> Stages], leg' \in [Requests -> Legs],
         client' \in [Requests -> {"none", "waiting", "answered", "refused"}],
         \A q \in Requests \ {r} : stage'[q] = stage[q] /\ leg'[q] = leg[q] /\ client'[q] = client[q],
         stage'[r] # "new", client'[r] # "none",
         stage'[r] = "done" => client'[r] # "waiting",
         stage'[r] \in {"submit", "enriching"} => leg'[r] = "text"
  PROVE  ServiceInv'
BY DEF ServiceInv

\* What each action does for its request and the others.
LEMMA StepsServe ==
  ASSUME ServiceInv, NEW r \in Requests
  PROVE  LET up == Progress(r)' > Progress(r) /\ \A q \in Requests \ {r} : Progress(q)' = Progress(q)
         IN  /\ Submit(r) \/ Works(r) => up /\ ServiceInv'
             /\ (\E ids \in Rankings : AnswersText(r, ids) \/ AnswersImage(r, ids)) => up /\ ServiceInv'
             /\ (\E outcome \in Failures : CallFails(r, outcome)) => up /\ ServiceInv'
             /\ EnrichStep(r) => (up \/ UNCHANGED <<stage, leg>>) /\ ServiceInv'
             /\ Deadline(r) => (up \/ UNCHANGED <<stage, leg>>) /\ ServiceInv'
<1> DEFINE Others == \A q \in Requests \ {r} : Progress(q)' = Progress(q)
           Up == Progress(r)' > Progress(r) /\ Others
           Kept == client' = client
<1>0. /\ client \in [Requests -> {"none", "waiting", "answered", "refused"}]
      /\ stage \in [Requests -> Stages] /\ leg \in [Requests -> Legs]
      /\ stage[r] = "new" <=> client[r] = "none"
      /\ stage[r] = "done" => client[r] # "waiting"
      /\ stage[r] \in {"submit", "enriching"} => leg[r] = "text"
  BY DEF ServiceInv
<1>1. ASSUME FallBack(r), stage[r] \in {"submit", "queued", "calling", "enriching"}, Kept
      PROVE  Up /\ ServiceInv'
  <2>1. /\ Up /\ stage'[r] \in {"submit", "reading", "popular"} /\ (stage'[r] = "submit" => leg'[r] = "text")
        /\ stage' \in [Requests -> Stages] /\ leg' \in [Requests -> Legs]
        /\ \A q \in Requests \ {r} : stage'[q] = stage[q] /\ leg'[q] = leg[q]
    BY <1>1, FallBackAdvances
  <2>2. client'[r] # "none"
    BY <1>0, <1>1
  <2>3. stage'[r] # "new" /\ stage'[r] # "done" /\ stage'[r] # "enriching"
    BY <2>1
  <2> HIDE DEF Up
  <2> QED
    BY <1>0, <1>1, <2>1, <2>2, <2>3, OneServed
<1>2. ASSUME NEW s \in Stages \ {"new", "submit", "done"}, GoTo(r, s), Kept, stage[r] # "new",
             Place(s, leg[r]) > Progress(r), s = "enriching" => leg[r] = "text"
      PROVE  Up /\ ServiceInv'
  <2>1. /\ Up /\ stage'[r] = s /\ leg'[r] = leg[r]
        /\ stage' \in [Requests -> Stages] /\ leg' \in [Requests -> Legs]
        /\ \A q \in Requests \ {r} : stage'[q] = stage[q] /\ leg'[q] = leg[q]
    BY <1>2, GoToAdvances
  <2> HIDE DEF Up
  <2> QED
    BY <1>0, <1>2, <2>1, OneServed
<1>3. ASSUME Submit(r) PROVE Up /\ ServiceInv'
  <2>1. /\ stage[r] \in {"new", "submit"}
        /\ GoTo(r, "queued") \/ FallBack(r)
        /\ client' = [client EXCEPT ![r] = IF @ = "none" THEN "waiting" ELSE @]
    BY <1>3 DEF Submit
  <2>2. /\ client' \in [Requests -> {"none", "waiting", "answered", "refused"}] /\ client'[r] # "none"
        /\ \A q \in Requests \ {r} : client'[q] = client[q]
    BY <1>0, <2>1
  <2>3. CASE GoTo(r, "queued")
    <3>1. Place("queued", leg[r]) > Progress(r)
      BY <1>0, <2>1, StageNoIs DEF Progress, Place
    <3>2. "queued" \in Stages \ {"new"}
      BY DEF Stages
    <3>3. /\ Up /\ stage'[r] = "queued"
          /\ stage' \in [Requests -> Stages] /\ leg' \in [Requests -> Legs]
          /\ \A q \in Requests \ {r} : stage'[q] = stage[q] /\ leg'[q] = leg[q]
      BY <2>3, <3>1, <3>2, GoToAdvances
    <3> HIDE DEF Up
    <3> QED
      BY <2>2, <3>3, OneServed
  <2>4. CASE FallBack(r)
    <3>1. /\ Up /\ stage'[r] \in {"submit", "reading", "popular"} /\ (stage'[r] = "submit" => leg'[r] = "text")
          /\ stage' \in [Requests -> Stages] /\ leg' \in [Requests -> Legs]
          /\ \A q \in Requests \ {r} : stage'[q] = stage[q] /\ leg'[q] = leg[q]
      BY <2>1, <2>4, FallBackAdvances
    <3>2. stage'[r] # "new" /\ stage'[r] # "done" /\ stage'[r] # "enriching"
      BY <3>1
    <3> HIDE DEF Up
    <3> QED
      BY <2>2, <3>1, <3>2, OneServed
  <2> QED
    BY <2>1, <2>3, <2>4
<1>4. ASSUME Subscribe(r) PROVE Up /\ ServiceInv'
  <2>1. stage[r] = "queued" /\ (GoTo(r, "calling") \/ FallBack(r)) /\ Kept
    BY <1>4 DEF Subscribe
  <2>2. Place("calling", leg[r]) > Progress(r) /\ "calling" \in Stages \ {"new", "submit", "done"}
    BY <2>1, StageNoIs DEF Progress, Place, Stages
  <2> QED
    BY <1>1, <1>2, <2>1, <2>2
<1>5. ASSUME TimesOut(r) PROVE Up /\ ServiceInv'
  <2>1. stage[r] \in {"calling", "enriching"} /\ FallBack(r) /\ Kept
    BY <1>5 DEF TimesOut, Calls
  <2> QED
    BY <1>1, <2>1
<1>6. ASSUME ReadCache(r) PROVE Up /\ ServiceInv'
  <2>1. stage[r] = "reading" /\ (GoTo(r, "ready") \/ GoTo(r, "popular")) /\ Kept
    BY <1>6 DEF ReadCache
  <2>2. /\ Place("ready", leg[r]) > Progress(r) /\ Place("popular", leg[r]) > Progress(r)
        /\ "ready" \in Stages \ {"new", "submit", "done"} /\ "popular" \in Stages \ {"new", "submit", "done"}
    BY <2>1, StageNoIs DEF Progress, Place, Stages
  <2> QED
    BY <1>2, <2>1, <2>2
<1>7. ASSUME PopularFails(r) \/ \E ids \in PopularLists : PopularItems(r, ids) PROVE Up /\ ServiceInv'
  <2>1. stage[r] = "popular" /\ GoTo(r, "ready") /\ Kept
    BY <1>7 DEF PopularFails, PopularItems
  <2>2. Place("ready", leg[r]) > Progress(r) /\ "ready" \in Stages \ {"new", "submit", "done"}
    BY <2>1, StageNoIs DEF Progress, Place, Stages
  <2> QED
    BY <1>2, <2>1, <2>2
<1>8. ASSUME Serialise(r) PROVE Up /\ ServiceInv'
  <2>1. /\ stage[r] = "ready" /\ GoTo(r, "done")
        /\ client' = IF client[r] = "waiting" THEN [client EXCEPT ![r] = "answered"] ELSE client
    BY <1>8 DEF Serialise
  <2>2. /\ client' \in [Requests -> {"none", "waiting", "answered", "refused"}]
        /\ client'[r] # "none" /\ client'[r] # "waiting"
        /\ \A q \in Requests \ {r} : client'[q] = client[q]
    BY <1>0, <2>1
  <2>3. Place("done", leg[r]) > Progress(r) /\ "done" \in Stages \ {"new"}
    BY <2>1, StageNoIs DEF Progress, Place, Stages
  <2>4. /\ Up /\ stage'[r] = "done"
        /\ stage' \in [Requests -> Stages] /\ leg' \in [Requests -> Legs]
        /\ \A q \in Requests \ {r} : stage'[q] = stage[q] /\ leg'[q] = leg[q]
    BY <2>1, <2>3, GoToAdvances
  <2> HIDE DEF Up
  <2> QED
    BY <2>2, <2>4, OneServed
<1>9. ASSUME NEW ids \in Rankings, AnswersText(r, ids) \/ AnswersImage(r, ids) PROVE Up /\ ServiceInv'
  <2>1. /\ stage[r] = "calling" /\ Kept
        /\ (leg[r] = "text" /\ GoTo(r, "enriching")) \/ GoTo(r, "ready")
    BY <1>9 DEF AnswersText, AnswersImage
  <2>2. /\ leg[r] = "text" => Place("enriching", leg[r]) > Progress(r)
        /\ Place("ready", leg[r]) > Progress(r)
        /\ "ready" \in Stages \ {"new", "submit", "done"} /\ "enriching" \in Stages \ {"new", "submit", "done"}
    BY <2>1, StageNoIs DEF Progress, Place, Stages
  <2> QED
    BY <1>2, <2>1, <2>2
<1>10. ASSUME NEW outcome \in Failures, CallFails(r, outcome) PROVE Up /\ ServiceInv'
  BY <1>1, <1>10 DEF CallFails
<1>11. ASSUME UNCHANGED <<client, stage, leg>> PROVE ServiceInv'
  BY <1>11 DEF ServiceInv
<1>12. ASSUME EnrichStep(r) PROVE (Up \/ UNCHANGED <<stage, leg>>) /\ ServiceInv'
  <2>1. CASE UNCHANGED <<client, stage, leg>>
    BY <1>11, <2>1
  <2>2. CASE stage[r] = "enriching" /\ FallBack(r) /\ Kept
    BY <1>1, <2>2
  <2>3. CASE stage[r] = "enriching" /\ GoTo(r, "ready") /\ Kept
    <3>1. Place("ready", leg[r]) > Progress(r) /\ "ready" \in Stages \ {"new", "submit", "done"}
      BY <2>3, StageNoIs DEF Progress, Place, Stages
    <3> QED
      BY <1>2, <2>3, <3>1
  <2> QED
    BY <1>12, <2>1, <2>2, <2>3 DEF EnrichStep, Enrich, EnrichFails, EnrichEnds, request
<1>13. ASSUME Deadline(r) PROVE (Up \/ UNCHANGED <<stage, leg>>) /\ ServiceInv'
  <2>1. client[r] = "waiting" /\ client' = [client EXCEPT ![r] = "refused"]
    BY <1>13 DEF Deadline
  <2>2. /\ client' \in [Requests -> {"none", "waiting", "answered", "refused"}]
        /\ client'[r] = "refused" /\ stage[r] # "new" /\ stage[r] # "done"
        /\ \A q \in Requests \ {r} : client'[q] = client[q]
    BY <1>0, <2>1
  <2>3. CASE GoTo(r, "done")
    <3>1. Place("done", leg[r]) > Progress(r) /\ "done" \in Stages \ {"new"}
      BY <1>0, <2>2, StageNoIs DEF Progress, Place, Stages
    <3>2. /\ Up /\ stage'[r] = "done"
          /\ stage' \in [Requests -> Stages] /\ leg' \in [Requests -> Legs]
          /\ \A q \in Requests \ {r} : stage'[q] = stage[q] /\ leg'[q] = leg[q]
      BY <2>3, <3>1, GoToAdvances
    <3> HIDE DEF Up
    <3> QED
      BY <2>2, <3>2, OneServed
  <2>4. CASE UNCHANGED <<stage, leg>>
    BY <1>0, <2>2, <2>4, OneServed
  <2> QED
    BY <1>13, <2>3, <2>4 DEF Deadline
<1> HIDE DEF Up
<1> QED
  BY <1>3, <1>4, <1>5, <1>6, <1>7, <1>8, <1>9, <1>10, <1>12, <1>13 DEF Works, Up, Others

LEMMA ServiceInit == Init => ServiceInv
BY FlowAssumption DEF Init, ServiceInv, Stages

LEMMA ServiceStep ==
  ASSUME ServiceInv, [Next]_vars
  PROVE  /\ ServiceInv'
         /\ \/ UNCHANGED <<stage, leg>>
            \/ \E r \in Requests : /\ Progress(r)' > Progress(r)
                                   /\ \A q \in Requests \ {r} : Progress(q)' = Progress(q)
<1>1. ASSUME UNCHANGED <<client, stage, leg>> PROVE ServiceInv'
  BY <1>1 DEF ServiceInv
<1>2. CASE \/ UNCHANGED vars \/ CircuitWaits
           \/ \E i \in Items : Expire(i)
           \/ \E q \in Queries : CacheExpires(q)
  <2>1. UNCHANGED <<client, stage, leg>>
    BY <1>2 DEF vars, request, CircuitWaits, Expire, CacheExpires
  <2> QED
    BY <1>1, <2>1
<1>3. ASSUME NEW r \in Requests,
             \/ Submit(r) \/ Works(r)
             \/ \E ids \in Rankings : AnswersText(r, ids) \/ AnswersImage(r, ids)
             \/ \E outcome \in Failures : CallFails(r, outcome)
             \/ EnrichStep(r)
             \/ Deadline(r)
      PROVE  /\ ServiceInv'
             /\ \/ UNCHANGED <<stage, leg>>
                \/ /\ Progress(r)' > Progress(r)
                   /\ \A q \in Requests \ {r} : Progress(q)' = Progress(q)
  BY <1>3, StepsServe
<1> QED
  BY <1>2, <1>3 DEF Next

LEMMA ServiceInvariance == FlowSpec => []ServiceInv
<1>1. ServiceInv /\ [Next]_vars => ServiceInv'
  BY ServiceStep
<1> QED
  BY <1>1, ServiceInit, PTL DEF FlowSpec

\* Whatever fails, is cancelled or times out, in whatever order: a client that
\* waits has a request that the gateway itself has a step for, so no fallback
\* loses it (onErrorResume, getPopularItemsFallbackMono).
THEOREM NobodyDropped == FlowSpec => []NobodyIsDropped
<1>1. ServiceInv => NobodyIsDropped
  BY DEF ServiceInv, NobodyIsDropped
<1> QED
  BY <1>1, ServiceInvariance, PTL

\* The fallbacks do not go round in a circle, although a search may queue and
\* call twice: with NobodyDropped this is what EveryRequestAnswered needs besides
\* fairness (imageSearchAsync, searchAsync).
THEOREM RequestsOnlyAdvance == FlowSpec => [][RequestsAdvance]_vars
<1>1. ServiceInv /\ ServiceInv' /\ [Next]_vars => [RequestsAdvance]_vars
  <2> SUFFICES ASSUME ServiceInv, ServiceInv', [Next]_vars PROVE RequestsAdvance
    OBVIOUS
  <2>1. ServiceTyped /\ ServiceTyped'
    BY ServiceIs, PTL
  <2>2. \A r \in Requests : Progress(r) \in 0 .. 10 /\ Progress(r)' \in 0 .. 10
    BY <2>1 DEF ServiceTyped
  <2>3. \A r \in Requests : Progress(r)' >= Progress(r)
    <3>1. CASE UNCHANGED <<stage, leg>>
      <4>1. \A r \in Requests : Progress(r)' = Progress(r)
        BY <3>1 DEF Progress
      <4> QED
        BY <2>2, <4>1
    <3>2. CASE \E r \in Requests : /\ Progress(r)' > Progress(r)
                                   /\ \A q \in Requests \ {r} : Progress(q)' = Progress(q)
      BY <2>2, <3>2
    <3> QED
      BY <3>1, <3>2, ServiceStep
  <2>4. \A r \in Requests : Works(r) => Progress(r)' > Progress(r)
    BY StepsServe
  <2> QED
    BY <2>2, <2>3, <2>4 DEF RequestsAdvance
<1> QED
  BY <1>1, ServiceInvariance, PTL DEF FlowSpec
=============================================================================
