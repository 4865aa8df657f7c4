--------------------------- MODULE SearchPipeline ---------------------------
(***************************************************************************)
(* One replica of the ingress (deployments/ingress.py): its search         *)
(* handlers, from the HTTP request to the answer, over the pools of        *)
(* ServingPool and the list operators of Ranking.                          *)
(*                                                                         *)
(* The handlers are coroutines of one event loop, so a step runs from one  *)
(* await to the next.  stage[r] names the await request r is at:           *)
(*   text        routing, [popular | embedding, retrieving, enriching,     *)
(*               [emptied | reranking, snapshot], generating]              *)
(*   image       recalling, describing                                     *)
(*   multimodal  recalling, enriching, reranking                           *)
(*   hybrid      recalling, enriching, snapshot                            *)
(* The probe that replaces the null feature reader is a thread of its own. *)
(***************************************************************************)
EXTENDS ServingPool, Ranking

CONSTANTS
    Requests,
    Asks,           \* the requests a client may send
    Configs,        \* the deployments' settings
    K,              \* the number of items asked for
    RecallK,        \* RetrievalConfig.RECALL_K and its caps
    MaxDocs,        \* RerankerConfig.MAX_DOCS
    Recalls,        \* [Sources -> set of lists]: what a collection may rank first
    Meta,           \* the item hashes in Redis: [article -> [colour, price]]
    Unreadable,     \* the articles whose hash may fail to be read
    PopularLists,   \* what the popularity deployment may answer
    Scores,         \* what the reranker gives to a document: raw logits, or -1e9
    Snapshots       \* what the feature reader may load

Reasons == {"inference_timeout", "inference_unavailable", "empty_results_allowed",
            "redis_timeout", "personalization_unavailable",
            "text_recall_failed", "image_recall_failed", "rerank_timeout", "rerank_failed"}

ASSUME PipelineAssumption ==
    /\ Calls = Requests \X Sources
    /\ K \in Nat \ {0} /\ RecallK \in Nat \ {0} /\ MaxDocs \in Nat \ {0}
    /\ Scores \subseteq Int
    /\ \A s \in Snapshots : s.degraded \subseteq Reasons
    /\ \A a \in Asks : a.weights.text \in Int /\ a.weights.image \in Int

\* What a collection answers: the articles by descending score (metric IP),
\* each once (the key is the article).
Candidate == [id : {Id(a, "stored") : a \in DOMAIN Meta}, score : Int]
ASSUME RecallAssumption ==
    /\ DOMAIN Meta \subseteq Nat
    /\ \A s \in Sources : \A recall \in Recalls[s] :
          /\ recall \in Seq(Candidate)
          /\ \A i, j \in DOMAIN recall : i < j =>
                recall[i].score >= recall[j].score /\ recall[i].id # recall[j].id

\* An item of an answer.
ItemIds == {Id(a, spelling) : a \in DOMAIN Meta, spelling \in {"stored", "padded"}}
Item == [id : ItemIds, score : Int, meta : {Meta[a] : a \in DOMAIN Meta} \cup {Absent},
         sources : SUBSET Sources, factor : Nat]

\* The popularity windows are sorted sets whose members are padded ids.
ASSUME PopularAssumption ==
    \A list \in PopularLists :
        /\ list \in Seq(Item)
        /\ \A i, j \in DOMAIN list : i # j => list[i].id.article # list[j].id.article

VARIABLES
    config,         \* one of Configs
    reader,         \* self._feature_reader: "none", "null" or "real"
    probing,        \* the probe thread runs
    ask,            \* [Requests -> Asks]
    stage,          \* [Requests -> Stages]
    plan,           \* what the router said: [intent, filters, flow]
    mode,           \* ctx["personalization_mode"]
    reasons,        \* the degradation reasons of the answer, or of its metrics
    found,          \* [Requests -> [Sources -> a recall]]
    merged,         \* merged_candidates
    results,        \* the list under work, then the answer's
    origin,         \* where results came from: "none", "popularity", "search"
    reason,         \* reason_source of the first item
    status          \* the HTTP status, 0 before the answer

requestVars == <<ask, stage, plan, mode, reasons, found, merged, results, origin, reason, status>>
readerVars == <<reader, probing>>
vars == <<poolVars, config, readerVars, requestVars>>

Stages == {"idle", "routing", "popular", "emptied", "embedding", "retrieving", "recalling",
           "enriching", "describing", "reranking", "snapshot", "generating", "done", "gone"}
Modes == {"disabled", "normal", "degraded_init_fallback", "degraded_timeout",
          "degraded_runtime_boost_failure"}
Unfiltered == [colour |-> "", priceBelow |-> 0]
NothingFound == [s \in Sources |-> <<>>]

Leg(r, s) == <<r, s>>
Legs(r) == {Leg(r, s) : s \in Sources}
Kind(r) == ask[r].kind

PipelineTypeOK ==
    /\ PoolTypeOK
    /\ config \in Configs
    /\ reader \in {"none", "null", "real"}
    /\ probing \in BOOLEAN
    /\ ask \in [Requests -> Asks]
    /\ stage \in [Requests -> Stages]
    /\ mode \in [Requests -> Modes]
    /\ reasons \in [Requests -> SUBSET Reasons]
    /\ found \in [Requests -> [Sources -> Seq(Candidate)]]
    /\ results \in [Requests -> Seq(Item)]
    /\ origin \in [Requests -> {"none", "popularity", "search"}]
    /\ reason \in [Requests -> {"none", "llm", "template", "fallback"}]
    /\ status \in [Requests -> {0, 200, 400, 422, 500, 503}]

Init ==
    /\ PoolInit
    /\ config \in Configs
    /\ reader = "none"
    /\ probing = FALSE
    /\ ask \in [Requests -> Asks]
    /\ stage = [r \in Requests |-> "idle"]
    /\ plan = [r \in Requests |-> [intent |-> "SEARCH", filters |-> Unfiltered, flow |-> "smart"]]
    /\ mode = [r \in Requests |-> "disabled"]
    /\ reasons = [r \in Requests |-> {}]
    /\ found = [r \in Requests |-> NothingFound]
    /\ merged = [r \in Requests |-> <<>>]
    /\ results = [r \in Requests |-> <<>>]
    /\ origin = [r \in Requests |-> "none"]
    /\ reason = [r \in Requests |-> "none"]
    /\ status = [r \in Requests |-> 0]

-----------------------------------------------------------------------------
(* The ends of a handler.                                                  *)

GoTo(r, s) == stage' = [stage EXCEPT ![r] = s]

\* A response without items.
Refuse(r, code) ==
    /\ GoTo(r, "done")
    /\ status' = [status EXCEPT ![r] = code]
    /\ UNCHANGED <<ask, reason, plan, mode, reasons, found, merged, results, origin>>

\* contract_normalize: ids are padded and the list cut to k.
Contract(list) ==
    AtMost([i \in DOMAIN list |-> [list[i] EXCEPT !.id = Canonical(list[i].id)]], K)

\* A 200 with a list.  It leaves ask, plan, found and merged alone.
Respond(r, list, from) ==
    /\ GoTo(r, "done")
    /\ status' = [status EXCEPT ![r] = 200]
    /\ results' = [results EXCEPT ![r] = Contract(list)]
    /\ origin' = [origin EXCEPT ![r] = from]

Record(r, why) == reasons' = [reasons EXCEPT ![r] = @ \cup why]

-----------------------------------------------------------------------------
(* Calls to the deployments.                                               *)

\* Mutant: the reranker is awaited without a limit.
NoRerankDeadline == {"embedding", "retrieval", "generation"}

\* The calls under asyncio.wait_for.  The router, the popularity deployment and
\* the vision deployment are awaited without a limit.
WithDeadline == {"embedding", "retrieval", "reranker", "generation"}

\* What awaiting the call c may come to.
Outcomes == {"answered", "failed", "timeout"}
Outcome(c, o) ==
    \/ o # "timeout" /\ at[c] = o
    \/ o = "timeout" /\ callee[c] \in WithDeadline /\ at[c] \in {"waiting", "working"}

\* A call given up keeps its place, or Ray frees it.
Places == {"kept", "freed"}

\* What a search in a collection answers: its ranking, filtered when the
\* collection has the fields of the filter, and cut.  Without them retrieval
\* searches again unfiltered.
SearchAnswer(ranking, filters) ==
    LET admitted == {i \in DOMAIN ranking : Matches(Meta[ranking[i].id.article], filters)}
    IN  AtMost(IF config.filterable THEN Picked(ranking, admitted) ELSE ranking, RecallK)

-----------------------------------------------------------------------------
(* The feature reader.                                                     *)

\* The property feature_reader: built on its first use; a failure leaves the
\* null reader and starts the probe.
ReaderUsed ==
    IF reader # "none" THEN UNCHANGED readerVars
    ELSE \/ reader' = "real" /\ UNCHANGED probing
         \/ reader' = "null" /\ probing' = TRUE

\* Mutant: a failed attempt ends the probe.
ProbeOnce == probing /\ probing' = FALSE /\ reader' \in {"null", "real"}

\* _feature_reader_probe_loop: it builds the reader again; it ends when that
\* succeeds.
ProbeStep ==
    /\ probing /\ reader = "null"
    /\ \/ reader' = "real" /\ probing' = FALSE
       \/ UNCHANGED readerVars

Probe == ProbeStep /\ UNCHANGED <<poolVars, config, requestVars>>

-----------------------------------------------------------------------------
(* Text search.                                                            *)

\* A request arrives and is validated.
Submit(r) ==
    /\ stage[r] = "idle"
    /\ UNCHANGED <<config, readerVars>>
    /\ \/ /\ Kind(r) = "text" /\ ~ask[r].complete
          /\ Refuse(r, 422) /\ UNCHANGED poolVars
       \/ /\ Kind(r) # "text" /\ ~config.vision
          /\ Refuse(r, 503) /\ UNCHANGED poolVars
       \/ /\ Kind(r) \in {"multimodal", "hybrid"} /\ config.vision /\ ~ask[r].complete
          /\ Refuse(r, 400) /\ UNCHANGED poolVars
       \/ /\ \/ /\ Kind(r) = "text" /\ ask[r].complete
                /\ GoTo(r, "routing")
                /\ Turn({}, "kept", OneCall(Leg(r, "text"), "router"))
             \/ /\ Kind(r) = "image" /\ config.vision
                /\ GoTo(r, "recalling")
                /\ Turn({}, "kept", OneCall(Leg(r, "image"), "vision"))
             \/ /\ Kind(r) \in {"multimodal", "hybrid"} /\ config.vision /\ ask[r].complete
                /\ GoTo(r, "recalling")
                /\ Turn({}, "kept", [c \in Legs(r) |-> IF c = Leg(r, "image") THEN "vision" ELSE "embedding"])
          /\ UNCHANGED <<ask, reason, plan, mode, reasons, found, merged, results, origin, status>>

\* bucket_user: a request without a user is in bucket 0.
Flow(user) == IF user = "odd" THEN "base" ELSE "smart"

\* RouterDeployment.route, or what stands for it when the call raises.
Routed(r, o) ==
    IF o = "answered"
    THEN [intent |-> ask[r].intent,
          filters |-> IF ask[r].intent = "BROWSE" THEN Unfiltered ELSE ask[r].filters,
          flow |-> Flow(ask[r].user)]
    ELSE [intent |-> "SEARCH", filters |-> Unfiltered, flow |-> Flow(ask[r].user)]

\* Mutant: a reader that is not built yet is taken for a real one.
ModeBefore == IF ~config.personalization THEN "disabled"
              ELSE IF reader = "null" THEN "degraded_init_fallback" ELSE "normal"

\* The mode of the request, from the reader it has just used.
ModeNow == IF ~config.personalization THEN "disabled"
           ELSE IF reader' = "null" THEN "degraded_init_fallback" ELSE "normal"

\* The router's answer arrives or its call raises, the mode is taken, and the
\* request goes to popularity or to the embedding.
Route(r) ==
    LET c == Leg(r, "text")
    IN  /\ stage[r] = "routing"
        /\ IF config.personalization THEN ReaderUsed ELSE UNCHANGED readerVars
        /\ mode' = [mode EXCEPT ![r] = ModeNow]
        /\ \E o \in Outcomes :
              LET p == Routed(r, o)
                  popular == p.intent = "BROWSE" \/ (p.flow = "base" /\ config.base = "popularity")
              IN  /\ Outcome(c, o)
                  /\ plan' = [plan EXCEPT ![r] = p]
                  /\ GoTo(r, IF popular THEN "popular" ELSE "embedding")
                  /\ Turn({c}, "kept", OneCall(c, IF popular THEN "popularity" ELSE "embedding"))
        /\ UNCHANGED <<config, ask, reason, reasons, found, merged, results, origin, status>>

\* Mutant: a timeout is not recorded.
SilentTimeout(r, o) ==
    /\ GoTo(r, "popular")
    /\ Record(r, IF o = "timeout" THEN {} ELSE {"inference_unavailable"})

\* A recall failed: the answer will be the popular items, for this reason.
\* Popularity is called in the same step.
Substitute(r, o) ==
    /\ GoTo(r, "popular")
    /\ Record(r, {IF o = "timeout" THEN "inference_timeout" ELSE "inference_unavailable"})

\* _run_embed.
Embed(r) ==
    LET c == Leg(r, "text")
    IN  /\ stage[r] = "embedding"
        /\ \E o \in Outcomes, places \in Places :
              /\ Outcome(c, o)
              /\ IF o = "answered"
                 THEN /\ GoTo(r, "retrieving") /\ UNCHANGED reasons
                      /\ Turn({c}, places, OneCall(c, "retrieval"))
                 ELSE /\ Substitute(r, o)
                      /\ Turn({c}, places, OneCall(c, "popularity"))
        /\ UNCHANGED <<config, readerVars, ask, reason, plan, mode, found, merged, results, origin, status>>

\* _run_retrieval.
Retrieve(r) ==
    LET c == Leg(r, "text")
    IN  /\ stage[r] = "retrieving"
        /\ \E o \in Outcomes, places \in Places :
              /\ Outcome(c, o)
              /\ Turn({c}, places, IF o = "answered" THEN NoCall ELSE OneCall(c, "popularity"))
              /\ IF o = "answered"
                 THEN /\ \E ranking \in Recalls["text"] : found' = [found EXCEPT
                            ![r]["text"] = SearchAnswer(ranking, plan[r].filters)]
                      /\ GoTo(r, "enriching") /\ UNCHANGED reasons
                 ELSE Substitute(r, o) /\ UNCHANGED found
        /\ UNCHANGED <<config, readerVars, ask, reason, plan, mode, merged, results, origin, status>>

\* _safe_popularity_topk: a list, or none when the call raises.  (topk itself
\* answers with none when Redis fails.)
PopularAnswers(o) == {<<>>} \cup (IF o = "answered" THEN PopularLists ELSE {})

\* The popular items are the answer.
Popular(r) ==
    LET c == Leg(r, "text")
    IN  /\ stage[r] = "popular"
        /\ \E o \in Outcomes : /\ Outcome(c, o)
                               /\ \E list \in PopularAnswers(o) : Respond(r, list, "popularity")
        /\ Turn({c}, "kept", NoCall)
        /\ UNCHANGED <<config, readerVars, ask, reason, plan, mode, reasons, found, merged>>

-----------------------------------------------------------------------------
(* From candidates to the answer.                                          *)

\* _run_generation: whether a reason is asked for the first item.
Explained(r, list) ==
    /\ list # <<>>
    /\ \/ config.generation \in {"all", "search"}
       \/ config.generation = "smart" /\ plan[r].flow = "smart"

\* A text search has its list: cut to k, then explained or answered.
Generate(r, list, from) ==
    IF Explained(r, AtMost(list, K))
    THEN /\ GoTo(r, "generating")
         /\ results' = [results EXCEPT ![r] = AtMost(list, K)]
         /\ origin' = [origin EXCEPT ![r] = from]
         /\ UNCHANGED status
    ELSE Respond(r, list, from)

\* The call this makes.
Explaining(r, list) ==
    IF Explained(r, AtMost(list, K)) THEN OneCall(Leg(r, "text"), "generation") ELSE NoCall

\* Nothing passed the filters: popular items, explained like found ones.
Emptied(r) ==
    LET c == Leg(r, "text")
    IN  /\ stage[r] = "emptied"
        /\ \E o \in Outcomes : \E list \in PopularAnswers(o) :
              /\ Outcome(c, o)
              /\ Generate(r, list, "popularity")
              /\ Turn({c}, "kept", Explaining(r, list))
        /\ UNCHANGED <<config, readerVars, ask, reason, plan, mode, reasons, found, merged>>

\* Enrichment succeeds but for the hashes in unread.
Enriched(r, unread) ==
    IF Kind(r) = "text"
    THEN EnrichAndFilter(found[r]["text"], Meta, unread, plan[r].filters, MaxDocs)
    ELSE Annotated(EnrichAndFilter(merged[r], Meta, unread, Unfiltered,
                                   IF Kind(r) = "hybrid" THEN RecallK ELSE MaxDocs),
                   merged[r])

\* What follows on the enriched list.
AfterEnrichment(r, list) ==
    CASE Kind(r) = "text" /\ list = <<>> -> "emptied"
      [] Kind(r) = "text" /\ list # <<>> /\ config.reranker /\ plan[r].flow = "smart" -> "reranking"
      [] Kind(r) = "multimodal" /\ list # <<>> /\ config.reranker -> "reranking"
      [] Kind(r) = "hybrid" /\ list # <<>> /\ config.personalization /\ ask[r].user # "none" -> "snapshot"
      [] OTHER -> "answer"

\* A list is ready, and the handler goes on to the stage `next`.
Continue(r, next, list) ==
    /\ GoTo(r, next)
    /\ results' = [results EXCEPT ![r] = list]
    /\ UNCHANGED <<origin, status>>

\* enrich_and_filter, and what each handler does with its list.
Enrich(r) ==
    /\ stage[r] = "enriching"
    /\ \E unread \in SUBSET Unreadable :
          LET list == Enriched(r, unread)
              next == AfterEnrichment(r, list)
          IN  /\ Record(r, IF next = "emptied" THEN {"empty_results_allowed"} ELSE {})
              /\ IF next = "snapshot" THEN ReaderUsed ELSE UNCHANGED readerVars
              /\ IF next # "answer" THEN Continue(r, next, list)
                 ELSE IF Kind(r) = "text" THEN Generate(r, list, "search")
                 ELSE Respond(r, list, "search")
              /\ Turn({}, "kept", IF next = "reranking" THEN OneCall(Leg(r, "text"), "reranker")
                                  ELSE IF next = "emptied" THEN OneCall(Leg(r, "text"), "popularity")
                                  ELSE IF next = "answer" /\ Kind(r) = "text" THEN Explaining(r, list)
                                  ELSE NoCall)
    /\ UNCHANGED <<config, ask, reason, plan, mode, found, merged>>

\* The pipeline of enrich_and_filter raises.
EnrichRaises(r) ==
    /\ stage[r] = "enriching"
    /\ IF Kind(r) = "text"
       THEN /\ Substitute(r, "failed") /\ UNCHANGED status
            /\ Turn({}, "kept", OneCall(Leg(r, "text"), "popularity"))
       ELSE /\ GoTo(r, "done") /\ status' = [status EXCEPT ![r] = 500]
            /\ UNCHANGED <<poolVars, reasons>>
    /\ UNCHANGED <<config, readerVars, ask, reason, plan, mode, found, merged, results, origin>>

\* The rerank of a text search: its scores, then the snapshot of the user;
\* a rerank that is lost is skipped, and the boost with it.
RerankText(r) ==
    LET c == Leg(r, "text")
    IN  /\ stage[r] = "reranking" /\ Kind(r) = "text"
        /\ \E o \in Outcomes, places \in Places, scores \in [DOMAIN results[r] -> Scores] :
              LET list == IF o = "answered" THEN Reranked(results[r], scores) ELSE results[r]
              IN  /\ Outcome(c, o)
                  /\ IF o = "answered" /\ config.personalization
                     THEN /\ ReaderUsed /\ Continue(r, "snapshot", list)
                          /\ Turn({c}, places, NoCall)
                     ELSE /\ UNCHANGED readerVars
                          /\ Generate(r, list, "search")
                          /\ Turn({c}, places, Explaining(r, list))
        /\ UNCHANGED <<config, ask, reason, plan, mode, reasons, found, merged>>

\* The rerank of a multimodal search.
RerankMerged(r) ==
    LET c == Leg(r, "text")
    IN  /\ stage[r] = "reranking" /\ Kind(r) = "multimodal"
        /\ \E o \in Outcomes, places \in Places, scores \in [DOMAIN results[r] -> Scores] :
              /\ Outcome(c, o)
              /\ Turn({c}, places, NoCall)
              /\ Record(r, CASE o = "answered" -> {}
                              [] o = "failed" -> {"rerank_failed"}
                              [] o = "timeout" -> {"rerank_timeout"})
              /\ Respond(r, IF o = "answered" THEN Reranked(results[r], scores) ELSE results[r],
                         "search")
        /\ UNCHANGED <<config, readerVars, ask, reason, plan, mode, found, merged>>

\* load_personalization_snapshot: the null reader's is empty and says so.
Loaded == IF reader = "null"
          THEN {[clicked |-> {}, liked |-> {}, hot |-> [w \in DOMAIN WindowBoost |-> {}],
                 degraded |-> {"personalization_unavailable"}]}
          ELSE Snapshots

\* apply_boost, which leaves the list of a request without a user alone.
Boosted(r, s) == IF ask[r].user = "none" THEN results[r] ELSE ApplyBoost(results[r], s)

\* The snapshot of a text search arrives and boosts, or does not.
BoostText(r) ==
    /\ stage[r] = "snapshot" /\ Kind(r) = "text"
    /\ \E list \in {Boosted(r, s) : s \in Loaded} \cup {results[r]} :
          /\ \/ /\ \E s \in Loaded : list = Boosted(r, s) /\ Record(r, s.degraded)
                /\ UNCHANGED mode
             \/ /\ list = results[r]
                /\ mode' = [mode EXCEPT ![r] = "degraded_timeout"]
                /\ Record(r, {"redis_timeout"})
             \/ /\ list = results[r]
                /\ mode' = [mode EXCEPT ![r] = "degraded_runtime_boost_failure"]
                /\ Record(r, {"personalization_unavailable"})
          /\ Generate(r, list, "search")
          /\ Turn({}, "kept", Explaining(r, list))
    /\ UNCHANGED <<config, readerVars, ask, reason, plan, found, merged>>

\* The snapshot of a hybrid search: losing it leaves no trace.
BoostFused(r) ==
    /\ stage[r] = "snapshot" /\ Kind(r) = "hybrid"
    /\ \E list \in {Boosted(r, s) : s \in Loaded} \cup {results[r]} :
          Respond(r, list, "search")
    /\ UNCHANGED <<poolVars, config, readerVars, ask, reason, plan, mode, reasons, found, merged>>

\* GenerationDeployment.explain: a sentence of the model or the template, or
\* an empty one when that failed.
Sentences(o) == IF o # "answered" THEN {"fallback"}
              ELSE {"fallback", IF model["generation"] = "loaded" THEN "llm" ELSE "template"}

\* The reason for the first item arrives, or is left empty.
Explain(r) ==
    LET c == Leg(r, "text")
    IN  /\ stage[r] = "generating"
        /\ \E o \in Outcomes, places \in Places :
              /\ Outcome(c, o)
              /\ Turn({c}, places, NoCall)
              /\ \E source \in Sentences(o) : reason' = [reason EXCEPT ![r] = source]
        /\ Respond(r, results[r], origin[r])
        /\ UNCHANGED <<config, readerVars, ask, plan, mode, reasons, found, merged>>

-----------------------------------------------------------------------------
(* Image, multimodal and hybrid search.                                    *)

\* The answer of the vision deployment is an error unless the image came in
\* the body: images are not loaded by URL.
ImageFound(r, o) == o = "answered" /\ ask[r].image = "inline"

\* Mutant: a leg that failed ends the gathering.
PendingUntilFailure(r) ==
    LET failed == {s \in Sources : at[Leg(r, s)] = "failed"}
    IN  IF failed # {} THEN failed ELSE {s \in Sources : at[Leg(r, s)] # "none"}

\* The legs that are still under way.
Pending(r) == {s \in Sources : at[Leg(r, s)] # "none"}

\* merge_ranked_candidates or fuse_with_normalized_scores, with the weights of
\* the request.
Combined(r, recalls) ==
    LET asked == ask[r].weights
    IN  IF Kind(r) = "multimodal"
        THEN {MergeRanked(recalls, Weights(Given(asked.text, 5), Given(asked.image, 5)), MaxDocs)}
        ELSE Fuse(recalls, Weights(Given(asked.text, 4), Given(asked.image, 5)), RecallK)

ReasonOf(s) == IF s = "text" THEN "text_recall_failed" ELSE "image_recall_failed"

\* The embedding of recall_text arrives, and the collection is searched.
RecallSearch(r) ==
    LET c == Leg(r, "text")
    IN  /\ stage[r] = "recalling" /\ callee[c] = "embedding" /\ at[c] = "answered"
        /\ Turn({c}, "kept", OneCall(c, "retrieval"))
        /\ UNCHANGED <<config, readerVars, requestVars>>

\* A leg ends.  With the last one, gather returns: nothing found at all is an
\* error, and else the recalls are merged.
LegEnds(r, s) ==
    LET c == Leg(r, s)
    IN  /\ stage[r] = "recalling" /\ Kind(r) # "image"
        /\ \E o \in Outcomes, places \in Places, ranking \in Recalls[s] :
              LET ok == IF s = "text" THEN o = "answered" ELSE ImageFound(r, o)
                  now == [found[r] EXCEPT ![s] = IF ok THEN AtMost(ranking, RecallK) ELSE <<>>]
              IN  /\ Outcome(c, o)
                  /\ o = "answered" => callee[c] # "embedding"
                  /\ Turn({c}, places, NoCall)
                  /\ found' = [found EXCEPT ![r] = now]
                  /\ Record(r, IF ok THEN {} ELSE {ReasonOf(s)})
                  /\ IF Pending(r) # {s}
                     THEN UNCHANGED <<stage, status, merged>>
                     ELSE IF now = NothingFound
                     THEN /\ GoTo(r, "done") /\ status' = [status EXCEPT ![r] = 500]
                          /\ UNCHANGED merged
                     ELSE /\ GoTo(r, "enriching") /\ UNCHANGED status
                          /\ \E list \in Combined(r, now) : merged' = [merged EXCEPT ![r] = list]
        /\ UNCHANGED <<config, readerVars, ask, reason, plan, mode, results, origin>>

\* An image search: the answer of the vision deployment.
ImageRecall(r) ==
    LET c == Leg(r, "image")
    IN  /\ stage[r] = "recalling" /\ Kind(r) = "image"
        /\ \E o \in Outcomes, ranking \in Recalls["image"] :
              /\ Outcome(c, o)
              /\ Turn({c}, "kept", NoCall)
              /\ IF ImageFound(r, o)
                 THEN /\ GoTo(r, "describing") /\ UNCHANGED status
                      /\ found' = [found EXCEPT ![r]["image"] = AtMost(ranking, K)]
                 ELSE /\ GoTo(r, "done") /\ status' = [status EXCEPT ![r] = 500]
                      /\ UNCHANGED found
        /\ UNCHANGED <<config, readerVars, ask, reason, plan, mode, reasons, merged, results, origin>>

\* The hash of each item is read; an item without one is shown by its id.
Describe(r) ==
    /\ stage[r] = "describing"
    /\ \E unread \in SUBSET Unreadable :
          LET item(c) == [id |-> Canonical(c.id), score |-> c.score, sources |-> {}, factor |-> NoBoost,
                          meta |-> IF c.id.article \in unread THEN Absent ELSE Meta[c.id.article]]
              list == found[r]["image"]
          IN  Respond(r, [i \in DOMAIN list |-> item(list[i])], "search")
    /\ UNCHANGED <<poolVars, config, readerVars, ask, reason, plan, mode, reasons, found, merged>>
-----------------------------------------------------------------------------
(* The specification.                                                      *)

\* The client's connection ends (the gateway's own timeout): Ray cancels the
\* handler, and with it the calls it has under way.
ClientLeaves(r) ==
    /\ stage[r] \notin {"idle", "done", "gone"}
    /\ GoTo(r, "gone")
    /\ Turn(Legs(r), "freed", NoCall)
    /\ UNCHANGED <<config, readerVars, ask, reason, plan, mode, reasons, found, merged, results, origin, status>>

\* What the event loop of the ingress does for a request.
Serve(r) ==
    \/ Route(r) \/ Embed(r) \/ Retrieve(r) \/ Popular(r) \/ Emptied(r)
    \/ Enrich(r) \/ EnrichRaises(r) \/ RerankText(r) \/ RerankMerged(r)
    \/ BoostText(r) \/ BoostFused(r) \/ Explain(r)
    \/ RecallSearch(r) \/ (\E s \in Sources : LegEnds(r, s))
    \/ ImageRecall(r) \/ Describe(r)

\* What the deployments do.
Admit(c) == Enter(c) /\ UNCHANGED <<config, readerVars, requestVars>>
Return(c) == Finish(c) /\ UNCHANGED <<config, readerVars, requestVars>>
ThreadEnds(d) == LateEnd(d) /\ UNCHANGED <<config, readerVars, requestVars>>

Next ==
    \/ \E r \in Requests : Submit(r) \/ Serve(r) \/ ClientLeaves(r)
    \/ \E c \in Calls : Admit(c) \/ Return(c)
    \/ \E d \in Deployments : ThreadEnds(d)
    \/ Probe

Spec == Init /\ [][Next]_vars

\* The event loop runs, Redis answers or fails within its socket timeouts, and
\* an attempt of the probe at last succeeds.  Nothing is assumed of the
\* deployments: any call may wait or work for ever.
Fairness ==
    /\ \A r \in Requests : WF_vars(Serve(r))
    /\ SF_vars(Probe /\ reader' = "real")

FairSpec == Spec /\ Fairness

-----------------------------------------------------------------------------
(* Properties.                                                             *)

Answered(r) == status[r] = 200

\* An answer never lists an article twice, although two recalls may find it
\* and spell its id in two ways.
NoDuplicates ==
    \A r \in Requests : \A i, j \in DOMAIN results[r] :
        Answered(r) /\ i # j => results[r][i].id # results[r][j].id

\* Every item of a text search that was answered from the collection has the
\* colour the router found, and no price that is known to be above its limit,
\* whatever the collection could filter itself.
FiltersHonoured ==
    \A r \in Requests : Answered(r) /\ Kind(r) = "text" /\ origin[r] = "search" =>
        \A i \in DOMAIN results[r] :
            LET m == Meta[results[r][i].id.article]
                filters == plan[r].filters
            IN  /\ filters.colour # "" => m.colour = filters.colour
                /\ filters.priceBelow # 0 /\ m.price # Unpriced => m.price < filters.priceBelow

\* "Enrich candidates with Redis metadata and apply post-retrieval filters."
\* (search_result_service.py:70): no item without a price passes for a cheap one.
FiltersStrict ==
    \A r \in Requests : Answered(r) /\ Kind(r) = "text" /\ origin[r] = "search" =>
        \A i \in DOMAIN results[r] : Matches(Meta[results[r][i].id.article], plan[r].filters)

\* The sources listed for an item of a hybrid answer are the recalls that
\* found it; none is one the answer calls failed.
SourcesTrue ==
    \A r \in Requests : Answered(r) /\ Kind(r) = "hybrid" =>
        \A i \in DOMAIN results[r] : LET item == results[r][i] IN
            /\ item.sources = {s \in Sources :
                   \E c \in Elements(found[r][s]) : Canonical(c.id) = item.id}
            /\ \A s \in item.sources : ReasonOf(s) \notin reasons[r]

\* Of two candidates of a multimodal search, the one that is ranked at least as
\* high by each recall, and higher by one, comes first.
MergeRespectsRecalls ==
    \A r \in Requests : Kind(r) = "multimodal" =>
        \A i, j \in DOMAIN merged[r] :
            LET Place(n, s) == IF merged[r][n].id \in Ids(found[r][s])
                               THEN RankOf(found[r][s], merged[r][n].id) ELSE RecallK + 1
            IN  /\ \A s \in Sources : Place(i, s) <= Place(j, s)
                /\ \E s \in Sources : Place(i, s) < Place(j, s)
                => i < j

\* "the merged list records contributing sources for each item"
\* (docs/api/multimodal-search.md:28).
SourcesReported ==
    \A r \in Requests : Answered(r) /\ Kind(r) = "multimodal" =>
        \A i \in DOMAIN results[r] : results[r][i].sources # {}

\* Personalization puts an item behind one that had a smaller rerank score only
\* for the other's larger boost.  Below zero a larger boost takes an item down,
\* as the product falls with the factor: there only the item's own larger boost
\* does.  (A score here is the rerank score times the factor.)
BoostMonotone ==
    \A r \in Requests : Answered(r) /\ Kind(r) \in {"text", "hybrid"} /\ origin[r] = "search" =>
        \A i, j \in DOMAIN results[r] :
            LET x == results[r][i]
                y == results[r][j]
            IN  /\ i < j
                /\ IF y.score >= 0 THEN y.factor >= x.factor ELSE y.factor <= x.factor
                => y.score * x.factor <= x.score * y.factor

\* A "boost" (behavior_boost.py:2) in the word's sense: what is boosted at least
\* as much does not fall behind a smaller rerank score.
BoostNeverDemotes ==
    \A r \in Requests : Answered(r) /\ Kind(r) \in {"text", "hybrid"} /\ origin[r] = "search" =>
        \A i, j \in DOMAIN results[r] :
            LET x == results[r][i]
                y == results[r][j]
            IN  i < j /\ y.factor >= x.factor => y.score * x.factor <= x.score * y.factor

\* Popular items stand for search results only for a reason that is recorded,
\* or for a user whose bucket gets them.
SubstituteExplained ==
    \A r \in Requests : Answered(r) /\ origin[r] = "popularity" =>
        \/ plan[r].intent = "BROWSE"
        \/ plan[r].flow = "base" /\ config.base = "popularity"
        \/ reasons[r] \cap {"inference_timeout", "inference_unavailable", "empty_results_allowed"} # {}

\* A request counted as "normal" found the real reader, and the null reader
\* never stays without a probe that replaces it.
ReaderSound ==
    /\ reader = "null" <=> probing = TRUE
    /\ \A r \in Requests : mode[r] = "normal" => reader = "real"

\* Whom a stage of a text search, or of a rerank, awaits.
Deployed == [routing |-> "router", popular |-> "popularity", emptied |-> "popularity",
             embedding |-> "embedding", retrieving |-> "retrieval",
             reranking |-> "reranker", generating |-> "generation"]

\* Who awaits a call has made it, and nobody leaves a call behind: not with an
\* answer, a refusal or a substitute, nor when the client leaves.
CallsAreAwaited ==
    \A r \in Requests :
        /\ at[Leg(r, "text")] # "none" =>
              \/ stage[r] \in DOMAIN Deployed /\ callee[Leg(r, "text")] = Deployed[stage[r]]
              \/ stage[r] = "recalling" /\ callee[Leg(r, "text")] \in {"embedding", "retrieval"}
        /\ at[Leg(r, "image")] # "none" => stage[r] = "recalling" /\ callee[Leg(r, "image")] = "vision"
        /\ stage[r] \in DOMAIN Deployed => at[Leg(r, "text")] # "none"
        /\ stage[r] = "recalling" => \E s \in Sources : at[Leg(r, s)] # "none"

\* A deployment that no deadline guards has a call of r and does not answer.
HeldUp(r) ==
    \E s \in Sources : /\ callee[Leg(r, s)] \in {"router", "popularity", "vision"}
                       /\ at[Leg(r, s)] \in {"waiting", "working"}

\* Every request is answered, unless its client leaves, although each of the
\* deployments may hang for ever: only a call of the router, of popularity or
\* of vision that never comes back keeps it.
EveryRequestAnswered ==
    \A r \in Requests : <>[]HeldUp(r) \/ []<>(stage[r] \in {"idle", "done", "gone"})

\* Personalization that could not be set up is set up later.
ReaderRecovers == reader = "null" ~> reader = "real"
=============================================================================
