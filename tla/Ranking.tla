------------------------------ MODULE Ranking ------------------------------
(***************************************************************************)
(* What the inference service does to a list of candidates: fusing two     *)
(* recalls, enriching with metadata, reranking, boosting.  No state.       *)
(*                                                                         *)
(* An article is a number; its id is the article and a spelling: "stored"  *)
(* for the digits of the INT64 key both Milvus collections use, "padded"   *)
(* for the ten digits of the Redis keys and of the API.  A score is an     *)
(* integer; a quotient is taken of a multiple of RankUnit or SpanUnit, so   *)
(* that it is exact for ranks up to 3 and for spans up to 3.               *)
(***************************************************************************)
EXTENDS Integers, Sequences, FiniteSets

RankUnit == 61 * 62 * 63
SpanUnit == 6

Id(a, spelling) == [article |-> a, spelling |-> spelling]

\* canonical_article_id.
Canonical(id) == Id(id.article, "padded")

AtMost(s, n) == IF Len(s) <= n THEN s ELSE SubSeq(s, 1, n)
Elements(s) == {s[i] : i \in DOMAIN s}

\* Python's sort: stable, x before y when Beats(x, y).
Sorted(s, Beats(_, _)) ==
    LET Ahead(i) == {j \in DOMAIN s : Beats(s[j], s[i])
                                   \/ (~Beats(s[i], s[j]) /\ j < i)}
    IN  [n \in DOMAIN s |-> s[CHOOSE i \in DOMAIN s : Cardinality(Ahead(i)) = n - 1]]

\* The elements of S in the strict order Beats.
InOrder(S, Beats(_, _)) ==
    [n \in 1 .. Cardinality(S) |->
        CHOOSE x \in S : Cardinality({y \in S : Beats(y, x)}) = n - 1]

\* The elements of s at the given places, in their order.
Picked(s, places) ==
    LET kept == InOrder(places, <) IN [n \in DOMAIN kept |-> s[kept[n]]]

\* The lists in which the elements of S appear once, in any order.
Arrangements(S) == {s \in [1 .. Cardinality(S) -> S] : Elements(s) = S}

-----------------------------------------------------------------------------
(* The two fusions.  A recall is a list of [id, score] without repetition. *)

Sources == {"text", "image"}
Ids(recall) == {c.id : c \in Elements(recall)}
RankOf(recall, id) == CHOOSE i \in DOMAIN recall : recall[i].id = id
ScoreOf(recall, id) == recall[RankOf(recall, id)].score

\* float(body.get(...) or default): a weight of zero is the default.
Given(weight, default) == IF weight = 0 THEN default ELSE weight
Positive(weight) == IF weight > 0 THEN weight ELSE 0

\* _normalize_weights, up to the common factor.
Weights(text, image) ==
    LET w == [s \in Sources |-> Positive(IF s = "text" THEN text ELSE image)]
    IN  IF w["text"] + w["image"] = 0 THEN [s \in Sources |-> 1] ELSE w

\* Mutant: the share of a recall grows with the rank.
MergeByDepth(recalls, weights, limit) ==
    LET Share(s, id) == IF id \in Ids(recalls[s]) THEN weights[s] * (60 + RankOf(recalls[s], id)) ELSE 0
        entry(id) == [id |-> id, sources |-> {s \in Sources : id \in Ids(recalls[s])}, best |-> 1,
                      score |-> Share("text", id) + Share("image", id)]
        Beats(x, y) == x.score > y.score \/ (x.score = y.score /\ x.id.article > y.id.article)
    IN  AtMost(InOrder({entry(id) : id \in UNION {Ids(recalls[s]) : s \in Sources}}, Beats), limit)

\* merge_ranked_candidates: weighted reciprocal ranks, ties by the best rank,
\* then by the id.
MergeRanked(recalls, weights, limit) ==
    LET used == {s \in Sources : weights[s] > 0}
        In(id) == {s \in used : id \in Ids(recalls[s])}
        Rank(s, id) == RankOf(recalls[s], id)
        Share(s, id) == IF s \in In(id) THEN (weights[s] * RankUnit) \div (60 + Rank(s, id)) ELSE 0
        entry(id) == [id |-> id, sources |-> In(id),
                      best |-> CHOOSE n \in {Rank(s, id) : s \in In(id)} :
                                   \A s \in In(id) : n <= Rank(s, id),
                      score |-> Share("text", id) + Share("image", id)]
        Beats(x, y) == \/ x.score > y.score
                       \/ x.score = y.score /\ x.best < y.best
                       \/ x.score = y.score /\ x.best = y.best /\ x.id.article > y.id.article
        all == UNION {Ids(recalls[s]) : s \in used}
    IN  AtMost(InOrder({entry(id) : id \in all}, Beats), limit)

\* _minmax_normalize, times SpanUnit: equal scores count as 1.
MinMax(scores, v) ==
    LET lo == CHOOSE x \in scores : \A y \in scores : x <= y
        hi == CHOOSE x \in scores : \A y \in scores : x >= y
    IN  IF hi = lo THEN SpanUnit ELSE ((v - lo) * SpanUnit) \div (hi - lo)

\* Mutant: an id is looked up as it was recalled and listed canonically.
FuseUncanonical(recalls, weights, limit) ==
    LET entry(s, c) == [id |-> Canonical(c.id), sources |-> {s},
                        score |-> weights[s] * MinMax({d.score : d \in Elements(recalls[s])}, c.score)]
        all == UNION {{entry(s, c) : c \in Elements(recalls[s])} : s \in Sources}
        Beats(x, y) == x.score > y.score
    IN  {AtMost(Sorted(s, Beats), limit) : s \in Arrangements(all)}

\* fuse_with_normalized_scores.  The candidates are collected from a set of
\* strings, so the order of equal scores is any.
Fuse(recalls, weights, limit) ==
    LET canon(s) == [i \in DOMAIN recalls[s] |->
                        [id |-> Canonical(recalls[s][i].id), score |-> recalls[s][i].score]]
        scores(s) == {c.score : c \in Elements(canon(s))}
        In(id) == {s \in Sources : id \in Ids(canon(s))}
        Share(s, id) == IF s \in In(id)
                        THEN weights[s] * MinMax(scores(s), ScoreOf(canon(s), id))
                        ELSE 0
        all == Ids(canon("text")) \cup Ids(canon("image"))
        Beats(x, y) == x.score > y.score
        entries == {[id |-> id, sources |-> In(id),
                     score |-> Share("text", id) + Share("image", id)] : id \in all}
    IN  {AtMost(Sorted(s, Beats), limit) : s \in Arrangements(entries)}

-----------------------------------------------------------------------------
(* Metadata.  meta[a] is the hash item:<a>, [colour, price], or Absent.    *)

Absent == [colour |-> "", price |-> -2]
NoBoost == 200

\* The price of a row without one: the loaders write an empty string, which
\* float() does not read, or nan, which is not below any limit and not above.
Unpriced == -1

\* What a filter asks for; an empty colour and a zero price stand for none.
Matches(m, filters) ==
    /\ filters.colour = "" \/ m.colour = filters.colour
    /\ filters.priceBelow = 0 \/ (m.price # Unpriced /\ m.price < filters.priceBelow)

\* What enrich_and_filter lets through: a price that cannot be read, or compared,
\* drops no item.
Passes(m, filters) ==
    /\ filters.colour = "" \/ m.colour = filters.colour
    /\ filters.priceBelow = 0 \/ m.price = Unpriced \/ m.price < filters.priceBelow

\* Mutant: the filters are left to the collection.
EnrichUnfiltered(candidates, meta, unread, filters, limit) ==
    LET Kept(c) == c.id.article \notin unread /\ meta[c.id.article] # Absent
        kept == Picked(candidates, {i \in DOMAIN candidates : Kept(candidates[i])})
    IN  AtMost([i \in DOMAIN kept |->
                   [id |-> Canonical(kept[i].id), score |-> kept[i].score,
                    meta |-> meta[kept[i].id.article], sources |-> {}, factor |-> NoBoost]], limit)

\* enrich_and_filter: one pipeline; what is missing, filtered or could not be
\* read (unread) is dropped, and the first limit items are kept.
EnrichAndFilter(candidates, meta, unread, filters, limit) ==
    LET Kept(c) == /\ c.id.article \notin unread
                   /\ meta[c.id.article] # Absent
                   /\ Passes(meta[c.id.article], filters)
        kept == Picked(candidates, {i \in DOMAIN candidates : Kept(candidates[i])})
    IN  AtMost([i \in DOMAIN kept |->
                   [id |-> Canonical(kept[i].id), score |-> kept[i].score,
                    meta |-> meta[kept[i].id.article], sources |-> {}, factor |-> NoBoost]], limit)

\* Mutant: items and candidates are paired by their place.
AnnotatedByPlace(results, candidates) ==
    [i \in DOMAIN results |-> [results[i] EXCEPT !.sources = candidates[i].sources]]

\* The annotation of enriched items with the candidate of the same id.
Annotated(results, candidates) ==
    LET Same(i) == {c \in Elements(candidates) : c.id = results[i].id}
    IN  [i \in DOMAIN results |-> [results[i] EXCEPT
            !.sources = UNION {c.sources : c \in Same(i)}]]

-----------------------------------------------------------------------------
(* The behaviour boost: factors in two-hundredths, of tenths and twentieths. *)

ExactClick == 15        \* EXACT_CLICK_BOOST
CategoryAffinity == 12  \* CATEGORY_AFFINITY_BOOST
MaxBoost == 600         \* max_boost_cap
WindowBoost == [w \in {"1h", "24h", "7d"} |-> CASE w = "1h" -> 4 [] w = "24h" -> 2 [] w = "7d" -> 1]

\* A window's signal is zero or the largest of the window here, so the
\* logarithmic share is zero or one.
Hotness(article, snapshot) ==
    LET share(w) == IF article \in snapshot.hot[w] THEN WindowBoost[w] ELSE 0
    IN  20 + share("1h") + share("24h") + share("7d")

\* The factor of one item in apply_boost: clicked, or else of a category the
\* user clicked; times its popularity; capped.
BoostFactor(article, colour, snapshot) ==
    LET behaviour == IF article \in snapshot.clicked THEN ExactClick
                     ELSE IF colour \in snapshot.liked THEN CategoryAffinity ELSE 10
        factor == behaviour * Hotness(article, snapshot)
    IN  IF factor > MaxBoost THEN MaxBoost ELSE factor

\* Mutant: the list is sorted by ascending score.
BoostAscending(results, snapshot) ==
    LET boosted == [i \in DOMAIN results |->
            LET f == BoostFactor(results[i].id.article, results[i].meta.colour, snapshot)
            IN  [results[i] EXCEPT !.factor = f, !.score = @ * f]]
        Beats(x, y) == x.score < y.score
    IN  Sorted(boosted, Beats)

\* apply_boost: scores are multiplied and the list is sorted again.
ApplyBoost(results, snapshot) ==
    LET boosted == [i \in DOMAIN results |->
            LET f == BoostFactor(results[i].id.article, results[i].meta.colour, snapshot)
            IN  [results[i] EXCEPT !.factor = f, !.score = @ * f]]
        Beats(x, y) == x.score > y.score
    IN  Sorted(boosted, Beats)

\* Scores of the reranker, in the order of the documents, and the sort.
Reranked(results, scores) ==
    LET scored == [i \in DOMAIN results |-> [results[i] EXCEPT !.score = scores[i]]]
        Beats(x, y) == x.score > y.score
    IN  Sorted(scored, Beats)
=============================================================================
