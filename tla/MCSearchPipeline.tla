-------------------------- MODULE MCSearchPipeline --------------------------
(* Values for the constants of SearchPipeline.                              *)
EXTENDS SearchPipeline

CONSTANTS r1, r2

OneRequest == {r1}
TwoRequests == {r1, r2}
OneCalls == OneRequest \X Sources
TwoCalls == TwoRequests \X Sources
CapOne == [d \in Deployments |-> 1]

\* How the deployments have started: with every model, or
\* without some model or collection.
Started == [d \in Deployments |-> "loaded"]
OneStart == {Started}
MCStarts == {Started,
             [Started EXCEPT !["embedding"] = "missing", !["reranker"] = "substitute"],
             [Started EXCEPT !["retrieval"] = "missing", !["generation"] = "substitute"],
             [Started EXCEPT !["generation"] = "substitute"]}

\* The settings of a replica.
Setting(personal, rerank, generation, vision, base, filterable) ==
    [personalization |-> personal, reranker |-> rerank, generation |-> generation,
     vision |-> vision, base |-> base, filterable |-> filterable]
AllSettings ==
    {Setting(TRUE, TRUE, "smart", TRUE, "vector", FALSE),
     Setting(FALSE, TRUE, "all", TRUE, "popularity", TRUE),
     Setting(TRUE, FALSE, "off", FALSE, "vector", TRUE)}
FullSetting == {Setting(TRUE, TRUE, "all", TRUE, "vector", TRUE)}

\* The requests.  A zero weight stands for a weight the body does not give.
Text(complete, user, intent, filters) ==
    [kind |-> "text", complete |-> complete, user |-> user, intent |-> intent,
     filters |-> filters, image |-> "none", weights |-> [text |-> 0, image |-> 0]]
Image(kind, complete, user, image, text) ==
    [kind |-> kind, complete |-> complete, user |-> user, intent |-> "SEARCH",
     filters |-> Unfiltered, image |-> image, weights |-> [text |-> text, image |-> 0]]

Red == [colour |-> "red", priceBelow |-> 0]
Cheap == [colour |-> "", priceBelow |-> 20]
AllAsks ==
    {Text(TRUE, user, "SEARCH", filters) : user \in {"none", "even", "odd"}, filters \in {Unfiltered, Red, Cheap}}
    \cup {Text(FALSE, "none", "SEARCH", Unfiltered), Text(TRUE, "even", "BROWSE", Unfiltered)}
    \cup {Image("image", TRUE, "none", image, 0) : image \in {"inline", "url"}}
    \cup {Image("multimodal", TRUE, "none", "inline", text) : text \in {0, 10}}
    \cup {Image("hybrid", TRUE, user, "inline", 0) : user \in {"none", "even"}}
    \cup {Image(kind, FALSE, "none", "none", 0) : kind \in {"multimodal", "hybrid"}}
    \cup {Image("multimodal", TRUE, "none", "url", 0)}
FewAsks == {Text(TRUE, "even", "SEARCH", Unfiltered), Image("multimodal", TRUE, "none", "inline", 0),
            Image("hybrid", TRUE, "even", "inline", 0), Image("image", TRUE, "none", "inline", 0)}

\* Articles 1 to 4; the third has no hash, the fourth no price.
MCMeta == [a \in 1 .. 4 |-> CASE a = 1 -> [colour |-> "red", price |-> 10]
                              [] a = 2 -> [colour |-> "blue", price |-> 30]
                              [] a = 3 -> Absent
                              [] a = 4 -> [colour |-> "red", price |-> Unpriced]]
Hit(a, score) == [id |-> Id(a, "stored"), score |-> score]
MCRecalls == [s \in Sources |->
    IF s = "text" THEN {<<Hit(1, 3), Hit(2, 2), Hit(3, 1)>>, <<Hit(2, 3), Hit(4, 2)>>, <<>>}
    ELSE {<<Hit(2, 3), Hit(3, 2)>>, <<Hit(1, 2)>>, <<>>}]
OneRecall == [s \in Sources |-> {<<Hit(1, 1)>>}]
\* Scores on both sides of zero.
MCScores == {-4, -3, 1}
PopularItem(a) == [id |-> Id(a, "padded"), score |-> 1, meta |-> MCMeta[a], sources |-> {},
                   factor |-> NoBoost]
MCPopular == {<<PopularItem(2), PopularItem(1)>>}
Cold(clicked, liked, degraded) ==
    [clicked |-> clicked, liked |-> liked, hot |-> [w \in {"1h", "24h", "7d"} |-> {}], degraded |-> degraded]
MCSnapshots ==
    {Cold({2}, {"blue"}, {}),
     [Cold({}, {"red"}, {}) EXCEPT !.hot = [w \in {"1h", "24h", "7d"} |-> IF w = "7d" THEN {} ELSE {2}]],
     Cold({}, {}, {"redis_timeout"})}
OneSnapshot == {Cold({1}, {}, {})}
=============================================================================
