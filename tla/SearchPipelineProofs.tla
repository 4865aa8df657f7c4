------------------------- MODULE SearchPipelineProofs -------------------------
(***************************************************************************)
(* Theorems about ServingPool and SearchPipeline, for any requests, limits *)
(* of the deployments, rankings and settings.                              *)
(***************************************************************************)
EXTENDS SearchPipeline, FiniteSetTheorems, TLAPS

-----------------------------------------------------------------------------
(* The pools.                                                              *)

LEMMA WorkingFinite ==
  ASSUME NEW d, NEW S
  PROVE  Cardinality(S \cap Working(d)) \in Nat
<1>1. Working(d) \subseteq Calls /\ IsFiniteSet(Calls)
  BY PoolAssumption DEF Working
<1>2. IsFiniteSet(S \cap Working(d))
  BY <1>1, FS_Subset, S \cap Working(d) \subseteq Calls
<1> QED
  BY <1>2, FS_CardinalityType

LEMMA PoolStart == PoolInit => PoolTypeOK
BY DEF PoolInit, PoolTypeOK, Deployments, CallStates

LEMMA PoolStep == PoolTypeOK /\ [PoolNext]_poolVars => PoolTypeOK'
<1> SUFFICES ASSUME PoolTypeOK, [PoolNext]_poolVars PROVE PoolTypeOK'
  OBVIOUS
<1>1. ASSUME NEW S \in SUBSET Calls, NEW places \in {"kept", "freed"},
             NEW D \in SUBSET Calls, NEW to \in [D -> Deployments], Turn(S, places, to)
      PROVE  PoolTypeOK'
  <2> DEFINE late(d) == Cardinality(S \cap Working(d))
  <2>1. \A d \in Deployments : late(d) \in Nat
    BY WorkingFinite
  <2>2. \/ kept' = [d \in Deployments |-> kept[d] + late(d)] /\ loose' = loose
        \/ loose' = [d \in Deployments |-> loose[d] + late(d)] /\ kept' = kept
    BY <1>1 DEF Turn
  <2> HIDE DEF late
  <2>3. kept' \in [Deployments -> Nat] /\ loose' \in [Deployments -> Nat]
    BY <2>1, <2>2 DEF PoolTypeOK
  <2> QED
    BY <1>1, <2>3 DEF Turn, PoolTypeOK, CallStates
<1>2. ASSUME NEW c \in Calls, Enter(c) \/ Finish(c) PROVE PoolTypeOK'
  BY <1>2 DEF Enter, Finish, PoolTypeOK, CallStates
<1>3. ASSUME NEW e \in Deployments, LateEnd(e) PROVE PoolTypeOK'
  <2>1. kept' \in [Deployments -> Nat] /\ loose' \in [Deployments -> Nat]
    BY <1>3 DEF LateEnd, PoolTypeOK
  <2> QED
    BY <1>3, <2>1 DEF LateEnd, PoolTypeOK
<1>4. CASE UNCHANGED poolVars
  BY <1>4 DEF poolVars, PoolTypeOK
<1> QED
  BY <1>1, <1>2, <1>3, <1>4 DEF PoolNext

LEMMA PoolTypes == PoolSpec => []PoolTypeOK
BY PoolStart, PoolStep, PTL DEF PoolSpec
-----------------------------------------------------------------------------
(* The ingress calls the pools as they promise to be called.               *)

LEMMA LegIsCall ==
  ASSUME NEW r \in Requests, NEW s \in Sources PROVE Leg(r, s) \in Calls
BY PipelineAssumption DEF Leg

LEMMA LegsAreCalls ==
  ASSUME NEW r \in Requests PROVE Legs(r) \in SUBSET Calls
BY LegIsCall DEF Legs

\* A turn with one call at most that ends, and one at most that is made.
LEMMA TurnIsPoolStep ==
  ASSUME NEW S \in SUBSET Calls, NEW places \in {"kept", "freed"}, NEW to,
         Turn(S, places, to),
         \/ to = NoCall
         \/ \E c \in Calls, d \in Deployments : to = OneCall(c, d)
  PROVE  PoolNext
<1>1. CASE to = NoCall
  <2>1. to \in [{} -> Deployments]
    BY <1>1 DEF NoCall
  <2>2. {} \in SUBSET Calls
    OBVIOUS
  <2> QED
    BY <2>1, <2>2 DEF PoolNext
<1>2. ASSUME NEW c \in Calls, NEW d \in Deployments, to = OneCall(c, d) PROVE PoolNext
  <2>1. to \in [{c} -> Deployments] /\ {c} \in SUBSET Calls
    BY <1>2 DEF OneCall
  <2> QED
    BY <2>1 DEF PoolNext
<1> QED
  BY <1>1, <1>2
LEMMA ServeIsPoolStep ==
  ASSUME NEW r \in Requests, Serve(r) PROVE PoolNext \/ UNCHANGED poolVars
<1> DEFINE text == Leg(r, "text")
           image == Leg(r, "image")
<1>1. text \in Calls /\ image \in Calls
  BY LegIsCall DEF Sources
<1>2. {text} \in SUBSET Calls /\ {image} \in SUBSET Calls /\ {} \in SUBSET Calls
  BY <1>1
<1>3. Deployments = {"router", "popularity", "embedding", "retrieval", "reranker", "generation", "vision"}
  BY DEF Deployments
<1>4. Places = {"kept", "freed"}
  BY DEF Places
<1>5. \A list : Explaining(r, list) \in {NoCall, OneCall(text, "generation")}
  BY DEF Explaining
<1> HIDE DEF text, image
\* The shapes of the handlers' turns.
<1>6. ASSUME NEW S \in {{}, {text}, {image}}, NEW places \in Places,
             NEW to \in {NoCall} \cup {OneCall(text, d) : d \in Deployments},
             Turn(S, places, to)
      PROVE  PoolNext
  BY <1>1, <1>2, <1>4, <1>6, TurnIsPoolStep
<1>7. CASE Route(r)
  <2>1. PICK to \in {OneCall(text, "popularity"), OneCall(text, "embedding")} : Turn({text}, "kept", to)
    BY <1>7 DEF Route, text
  <2> QED
    BY <1>3, <1>4, <1>6, <2>1
<1>8. CASE Embed(r)
  <2>1. PICK places \in Places, to \in {OneCall(text, "popularity"), OneCall(text, "retrieval")} :
            Turn({text}, places, to)
    BY <1>8 DEF Embed, text
  <2> QED
    BY <1>3, <1>6, <2>1
<1>9. CASE Retrieve(r)
  <2>1. PICK places \in Places, to \in {NoCall, OneCall(text, "popularity")} : Turn({text}, places, to)
    BY <1>9 DEF Retrieve, text
  <2> QED
    BY <1>3, <1>6, <2>1
<1>10. CASE BoostFused(r) \/ Describe(r)
  BY <1>10 DEF BoostFused, Describe
<1>20. CASE Popular(r)
  <2>1. Turn({text}, "kept", NoCall)
    BY <1>20 DEF Popular, text
  <2> QED
    BY <1>4, <1>6, <2>1
<1>21. CASE EnrichRaises(r)
  <2>1. UNCHANGED poolVars \/ Turn({}, "kept", OneCall(text, "popularity"))
    BY <1>21 DEF EnrichRaises, text
  <2> QED
    BY <1>3, <1>4, <1>6, <2>1
<1>11. CASE Emptied(r)
  <2>1. PICK list : Turn({text}, "kept", Explaining(r, list))
    BY <1>11 DEF Emptied, text
  <2> QED
    BY <1>3, <1>4, <1>5, <1>6, <2>1
<1>12. CASE Enrich(r)
  <2>1. PICK list, to : /\ Turn({}, "kept", to)
                      /\ to \in {NoCall, OneCall(text, "reranker"), OneCall(text, "popularity"), Explaining(r, list)}
    BY <1>12, Zenon DEF Enrich, text
  <2> QED
    BY <1>3, <1>4, <1>5, <1>6, <2>1
<1>13. CASE RerankText(r)
  <2>1. PICK places, list, to :
            Turn({text}, places, to) /\ places \in Places /\ to \in {NoCall, Explaining(r, list)}
    BY <1>13, Zenon DEF RerankText, text
  <2> QED
    BY <1>3, <1>5, <1>6, <2>1
<1>14. CASE RerankMerged(r)
  <2>1. PICK places \in Places : Turn({text}, places, NoCall)
    BY <1>14 DEF RerankMerged, text
  <2> QED
    BY <1>6, <2>1
<1>15. CASE BoostText(r)
  <2>1. PICK list : Turn({}, "kept", Explaining(r, list))
    BY <1>15 DEF BoostText
  <2> QED
    BY <1>3, <1>4, <1>5, <1>6, <2>1
<1>16. CASE Explain(r)
  <2>1. PICK places \in Places : Turn({text}, places, NoCall)
    BY <1>16 DEF Explain, text
  <2> QED
    BY <1>6, <2>1
<1>17. CASE RecallSearch(r)
  <2>1. Turn({text}, "kept", OneCall(text, "retrieval"))
    BY <1>17 DEF RecallSearch, text
  <2> QED
    BY <1>3, <1>4, <1>6, <2>1
<1>18. ASSUME NEW s \in Sources, LegEnds(r, s) PROVE PoolNext
  <2>1. PICK places \in Places : Turn({Leg(r, s)}, places, NoCall)
    BY <1>18 DEF LegEnds
  <2>2. {Leg(r, s)} \in SUBSET Calls
    BY LegIsCall
  <2> QED
    BY <1>4, <2>1, <2>2, TurnIsPoolStep
<1>19. CASE ImageRecall(r)
  <2>1. Turn({image}, "kept", NoCall)
    BY <1>19 DEF ImageRecall, image
  <2> QED
    BY <1>4, <1>6, <2>1
<1> QED
  BY <1>7, <1>8, <1>9, <1>10, <1>11, <1>12, <1>13, <1>14, <1>15, <1>16, <1>17, <1>18, <1>19,
     <1>20, <1>21 DEF Serve

LEMMA SubmitIsPoolStep ==
  ASSUME NEW r \in Requests, Submit(r) PROVE PoolNext \/ UNCHANGED poolVars
<1>1. CASE Turn({}, "kept", OneCall(Leg(r, "image"), "vision"))
  BY <1>1, LegIsCall, TurnIsPoolStep DEF Sources, Deployments
<1>4. CASE Turn({}, "kept", OneCall(Leg(r, "text"), "router"))
  BY <1>4, LegIsCall, TurnIsPoolStep DEF Sources, Deployments
<1>2. CASE Turn({}, "kept", [c \in Legs(r) |-> IF c = Leg(r, "image") THEN "vision" ELSE "embedding"])
  <2>1. [c \in Legs(r) |-> IF c = Leg(r, "image") THEN "vision" ELSE "embedding"] \in [Legs(r) -> Deployments]
    BY DEF Deployments
  <2>2. {} \in SUBSET Calls /\ Legs(r) \in SUBSET Calls
    BY LegsAreCalls
  <2> QED
    BY <1>2, <2>1, <2>2 DEF PoolNext
<1>3. CASE UNCHANGED poolVars
  BY <1>3
<1> QED
  BY <1>1, <1>2, <1>3, <1>4, Zenon DEF Submit

LEMMA StepIsPoolStep == [Next]_vars => [PoolNext]_poolVars
<1> SUFFICES ASSUME [Next]_vars PROVE [PoolNext]_poolVars
  OBVIOUS
<1>1. ASSUME NEW r \in Requests, ClientLeaves(r) PROVE PoolNext
  <2>1. Turn(Legs(r), "freed", NoCall)
    BY <1>1 DEF ClientLeaves
  <2> QED
    BY <2>1, LegsAreCalls, TurnIsPoolStep
<1>2. ASSUME NEW c \in Calls, Admit(c) \/ Return(c) PROVE PoolNext
  BY <1>2 DEF Admit, Return, PoolNext
<1>3. ASSUME NEW d \in Deployments, ThreadEnds(d) PROVE PoolNext
  BY <1>3 DEF ThreadEnds, PoolNext
<1>4. CASE Probe \/ UNCHANGED vars
  BY <1>4 DEF Probe, vars, poolVars
<1> QED
  BY <1>1, <1>2, <1>3, <1>4, ServeIsPoolStep, SubmitIsPoolStep DEF Next

\* The ingress and its clients use the deployments as ServingPool says, with
\* all their timeouts, cancellations and parallel legs.
THEOREM PipelineImplementsPool == Spec => PoolSpec
<1>1. Init => PoolInit
  BY DEF Init
<1> QED
  BY <1>1, StepIsPoolStep, PTL DEF Spec, PoolSpec
-----------------------------------------------------------------------------
(* The feature reader.                                                     *)

ReaderInv ==
    /\ reader \in {"none", "null", "real"} /\ probing \in BOOLEAN
    /\ mode \in [Requests -> Modes]
    /\ ReaderSound

\* The step of whoever uses the reader.
LEMMA ReaderUse ==
  ASSUME ReaderInv, ReaderUsed \/ ProbeStep \/ UNCHANGED readerVars
  PROVE  /\ reader' \in {"none", "null", "real"} /\ probing' \in BOOLEAN
         /\ reader' = "null" <=> probing' = TRUE
         /\ reader = "real" => reader' = "real"
<1>1. CASE ReaderUsed
  BY <1>1 DEF ReaderUsed, ReaderInv, ReaderSound, readerVars
<1>2. CASE ProbeStep
  BY <1>2 DEF ProbeStep, ReaderInv, ReaderSound, readerVars
<1>3. CASE UNCHANGED readerVars
  BY <1>3 DEF ReaderInv, ReaderSound, readerVars
<1> QED
  BY <1>1, <1>2, <1>3

\* What a step does to the reader and to the mode of a request.
LEMMA ServeReader ==
  ASSUME NEW r \in Requests, Serve(r) \/ Submit(r) \/ ClientLeaves(r)
  PROVE  /\ ReaderUsed \/ UNCHANGED readerVars
         /\ \/ mode' = mode
            \/ \E m \in Modes : /\ mode' = [mode EXCEPT ![r] = m]
                                /\ m = "normal" => /\ reader' # "null"
                                                   /\ ReaderUsed
<1>1. CASE Route(r)
  <2>1. mode' = [mode EXCEPT ![r] = ModeNow]
    BY <1>1 DEF Route
  <2>2. CASE config.personalization
    <3>1. ReaderUsed
      BY <1>1, <2>2 DEF Route
    <3>2. ModeNow = IF reader' = "null" THEN "degraded_init_fallback" ELSE "normal"
      BY <2>2 DEF ModeNow
    <3> QED
      BY <2>1, <3>1, <3>2 DEF Modes
  <2>3. CASE ~config.personalization
    <3>1. UNCHANGED readerVars
      BY <1>1, <2>3 DEF Route
    <3>2. ModeNow = "disabled"
      BY <2>3 DEF ModeNow
    <3> QED
      BY <2>1, <3>1, <3>2 DEF Modes
  <2> QED
    BY <2>2, <2>3
<1>2. CASE Embed(r) \/ Retrieve(r) \/ Popular(r) \/ Emptied(r) \/ EnrichRaises(r) \/ RerankMerged(r)
           \/ BoostFused(r) \/ Explain(r) \/ ImageRecall(r) \/ Describe(r)
  BY <1>2 DEF Embed, Retrieve, Popular, Emptied, EnrichRaises, RerankMerged, BoostFused, Explain,
              ImageRecall, Describe
<1>3. CASE Enrich(r)
  <2>1. mode' = mode
    BY <1>3 DEF Enrich
  <2>2. ReaderUsed \/ UNCHANGED readerVars
    BY <1>3, Zenon DEF Enrich
  <2> QED
    BY <2>1, <2>2
<1>4. CASE RerankText(r)
  <2>1. mode' = mode
    BY <1>4 DEF RerankText
  <2>2. ReaderUsed \/ UNCHANGED readerVars
    BY <1>4, Zenon DEF RerankText
  <2> QED
    BY <2>1, <2>2
<1>5. CASE BoostText(r)
  <2>1. UNCHANGED readerVars
    BY <1>5 DEF BoostText
  <2>2. \/ mode' = mode
        \/ mode' = [mode EXCEPT ![r] = "degraded_timeout"]
        \/ mode' = [mode EXCEPT ![r] = "degraded_runtime_boost_failure"]
    BY <1>5, Zenon DEF BoostText
  <2> QED
    BY <2>1, <2>2 DEF Modes
<1>6. CASE RecallSearch(r) \/ (\E s \in Sources : LegEnds(r, s)) \/ ClientLeaves(r)
  BY <1>6 DEF RecallSearch, LegEnds, ClientLeaves, requestVars
<1>7. CASE Submit(r)
  BY <1>7, Zenon DEF Submit, Refuse
<1> QED
  BY <1>1, <1>2, <1>3, <1>4, <1>5, <1>6, <1>7 DEF Serve

LEMMA ReaderStep == ReaderInv /\ [Next]_vars => ReaderInv'
<1> SUFFICES ASSUME ReaderInv, [Next]_vars PROVE ReaderInv'
  OBVIOUS
<1>1. ASSUME NEW r \in Requests, Serve(r) \/ Submit(r) \/ ClientLeaves(r) PROVE ReaderInv'
  <2>1. /\ reader' \in {"none", "null", "real"} /\ probing' \in BOOLEAN
        /\ reader' = "null" <=> probing' = TRUE
        /\ reader = "real" => reader' = "real"
    BY <1>1, ServeReader, ReaderUse
  <2>2. ReaderUsed => reader' # "none"
    BY <2>1 DEF ReaderUsed, readerVars, ReaderInv
  <2>3. mode \in [Requests -> Modes] /\ \A q \in Requests : mode[q] = "normal" => reader = "real"
    BY DEF ReaderInv, ReaderSound
  <2>4. \/ mode' = mode
        \/ \E m \in Modes : /\ mode' = [mode EXCEPT ![r] = m]
                            /\ m = "normal" => reader' = "real"
    BY <1>1, <2>1, <2>2, ServeReader
  <2>5. mode' \in [Requests -> Modes] /\ \A q \in Requests : mode'[q] = "normal" => reader' = "real"
    BY <2>1, <2>3, <2>4
  <2> QED
    BY <2>1, <2>5 DEF ReaderInv, ReaderSound
<1>2. ASSUME mode' = mode, ProbeStep \/ UNCHANGED readerVars PROVE ReaderInv'
  <2>1. /\ reader' \in {"none", "null", "real"} /\ probing' \in BOOLEAN
        /\ reader' = "null" <=> probing' = TRUE
        /\ reader = "real" => reader' = "real"
    BY <1>2, ReaderUse
  <2> QED
    BY <1>2, <2>1 DEF ReaderInv, ReaderSound
<1>3. CASE Probe \/ (\E c \in Calls : Admit(c) \/ Return(c)) \/ (\E d \in Deployments : ThreadEnds(d))
           \/ UNCHANGED vars
  BY <1>2, <1>3 DEF Probe, Admit, Return, ThreadEnds, vars, requestVars
<1> QED
  BY <1>1, <1>3 DEF Next

\* A request is counted as personalized only if the real feature reader was
\* there when it was routed, whatever other requests and the probe's thread did
\* with the reader before and after; and the null reader always has its probe.
THEOREM ReaderIsSound == Spec => []ReaderSound
<1>1. Init => ReaderInv
  BY DEF Init, ReaderInv, ReaderSound, Modes
<1>2. ReaderInv => ReaderSound
  BY DEF ReaderInv
<1> QED
  BY <1>1, <1>2, ReaderStep, PTL DEF Spec
-----------------------------------------------------------------------------
(* Popular items in the place of search results.                           *)

Substitutions == {"inference_timeout", "inference_unavailable", "empty_results_allowed"}

\* Why request r may get popular items.
Known(r) ==
    \/ plan[r].intent = "BROWSE"
    \/ plan[r].flow = "base" /\ config.base = "popularity"
    \/ reasons[r] \cap Substitutions # {}

\* Popular items, or the decision to get them, have their reason; a request
\* that is not routed yet has neither.
OriginInv ==
    /\ stage \in [Requests -> Stages]
    /\ plan = [r \in Requests |-> plan[r]]
    /\ reasons = [r \in Requests |-> reasons[r]]
    /\ origin \in [Requests -> {"none", "popularity", "search"}]
    /\ \A r \in Requests :
          /\ stage[r] \in {"idle", "routing"} => origin[r] = "none"
          /\ stage[r] \in {"popular", "emptied"} \/ origin[r] = "popularity" => Known(r)

\* A step that leaves the plan alone, and goes to popular items only with a
\* reason or if it has one.
LEMMA Moves ==
  ASSUME OriginInv, NEW r \in Requests, NEW s \in Stages, NEW why,
         NEW from \in {"none", "popularity", "search"},
         plan' = plan, config' = config,
         (UNCHANGED stage /\ s = stage[r]) \/ GoTo(r, s),
         (UNCHANGED reasons /\ why = {}) \/ Record(r, why),
         (UNCHANGED origin /\ from = origin[r]) \/ origin' = [origin EXCEPT ![r] = from],
         s \in {"idle", "routing"} => from = "none",
         s \in {"popular", "emptied"} \/ from = "popularity" =>
             \/ why \cap Substitutions # {}
             \/ stage[r] \in {"popular", "emptied"}
             \/ origin[r] = "popularity"
  PROVE  OriginInv'
<1>1. /\ stage' \in [Requests -> Stages] /\ stage'[r] = s
      /\ \A q \in Requests : q # r => stage'[q] = stage[q]
  BY DEF GoTo, OriginInv
<1>2. /\ reasons' = [q \in Requests |-> reasons'[q]] /\ reasons'[r] = reasons[r] \cup why
      /\ \A q \in Requests : q # r => reasons'[q] = reasons[q]
  BY DEF Record, OriginInv
<1>3. /\ origin' \in [Requests -> {"none", "popularity", "search"}] /\ origin'[r] = from
      /\ \A q \in Requests : q # r => origin'[q] = origin[q]
  BY DEF OriginInv
<1>4. plan' = [q \in Requests |-> plan'[q]]
  BY DEF OriginInv
<1>5. \A q \in Requests : Known(q) => Known(q)'
  BY <1>2 DEF Known
<1>6. why \cap Substitutions # {} => Known(r)'
  BY <1>2 DEF Known
<1>7. ASSUME NEW q \in Requests
      PROVE  /\ stage'[q] \in {"idle", "routing"} => origin'[q] = "none"
             /\ stage'[q] \in {"popular", "emptied"} \/ origin'[q] = "popularity" => Known(q)'
  BY <1>1, <1>3, <1>5, <1>6 DEF OriginInv
<1> QED
  BY <1>1, <1>2, <1>3, <1>4, <1>7 DEF OriginInv

LEMMA RouteOrigin ==
  ASSUME OriginInv, NEW r \in Requests, Route(r) PROVE OriginInv'
<1>1. /\ stage[r] = "routing" /\ reasons' = reasons /\ origin' = origin /\ config' = config
      /\ \E p : /\ plan' = [plan EXCEPT ![r] = p]
                /\ \/ GoTo(r, "embedding")
                   \/ /\ GoTo(r, "popular")
                      /\ p.intent = "BROWSE" \/ (p.flow = "base" /\ config.base = "popularity")
  BY DEF Route
<1>2. PICK p : /\ plan' = [plan EXCEPT ![r] = p]
               /\ \/ GoTo(r, "embedding")
                  \/ /\ GoTo(r, "popular")
                     /\ p.intent = "BROWSE" \/ (p.flow = "base" /\ config.base = "popularity")
  BY <1>1
<1>3. /\ plan' = [q \in Requests |-> plan'[q]] /\ plan'[r] = p
      /\ \A q \in Requests : q # r => plan'[q] = plan[q]
  BY <1>2 DEF OriginInv
<1>4. /\ stage' \in [Requests -> Stages] /\ stage'[r] \in {"embedding", "popular"}
      /\ \A q \in Requests : q # r => stage'[q] = stage[q]
  BY <1>2 DEF GoTo, OriginInv, Stages
<1>5. stage'[r] = "popular" => Known(r)'
  BY <1>1, <1>2, <1>3 DEF GoTo, OriginInv, Known
<1>6. \A q \in Requests : q # r /\ Known(q) => Known(q)'
  BY <1>1, <1>3 DEF Known
<1>7. origin[r] = "none"
  BY <1>1 DEF OriginInv
<1> QED
  BY <1>1, <1>3, <1>4, <1>5, <1>6, <1>7 DEF OriginInv

LEMMA ServeOrigin ==
  ASSUME OriginInv, NEW r \in Requests, Serve(r) \/ Submit(r) \/ ClientLeaves(r) PROVE OriginInv'
<1>1. /\ stage[r] \in Stages /\ origin[r] \in {"none", "popularity", "search"}
      /\ {"idle", "routing", "popular", "emptied", "embedding", "retrieving", "recalling", "enriching",
          "describing", "reranking", "snapshot", "generating", "done", "gone"} \subseteq Stages
  BY DEF OriginInv, Stages
<1>2. ASSUME NEW s \in {"retrieving", "recalling", "enriching", "describing", "reranking", "snapshot",
                       "generating", "done", "gone", stage[r]},
             plan' = plan, config' = config, GoTo(r, s) \/ (UNCHANGED stage /\ s = stage[r]),
             UNCHANGED reasons \/ (\E why : Record(r, why)),
             \/ UNCHANGED origin
             \/ stage[r] \notin {"idle", "routing"} /\ origin' = [origin EXCEPT ![r] = "search"]
      PROVE  OriginInv'
  <2>1. PICK why : (UNCHANGED reasons /\ why = {}) \/ Record(r, why)
    BY <1>2
  <2>2. s \in Stages /\ (s \in {"idle", "routing", "popular", "emptied"} => s = stage[r])
    BY <1>1
  <2>3. (UNCHANGED stage /\ s = stage[r]) \/ GoTo(r, s)
    BY <1>2
  <2>4. CASE UNCHANGED origin
    <3>1. s \in {"idle", "routing"} => origin[r] = "none"
      BY <2>2 DEF OriginInv
    <3>2. s \in {"popular", "emptied"} \/ origin[r] = "popularity" =>
             stage[r] \in {"popular", "emptied"} \/ origin[r] = "popularity"
      BY <2>2
    <3> QED
      BY <1>1, <1>2, <2>1, <2>2, <2>3, <2>4, <3>1, <3>2, Moves
  <2>5. CASE stage[r] \notin {"idle", "routing"} /\ origin' = [origin EXCEPT ![r] = "search"]
    BY <1>2, <2>1, <2>2, <2>3, <2>5, Moves
  <2> QED
    BY <1>2, <2>4, <2>5
<1>3. ASSUME NEW o, Substitute(r, o), plan' = plan, config' = config, UNCHANGED origin
      PROVE  OriginInv'
  <2>1. PICK why \in {"inference_timeout", "inference_unavailable"} : Record(r, {why}) /\ GoTo(r, "popular")
    BY <1>3 DEF Substitute
  <2> QED
    BY <1>1, <1>3, <2>1, Moves DEF Substitutions
<1>4. ASSUME NEW list, NEW from \in {"popularity", "search"}, Generate(r, list, from) \/ Respond(r, list, from)
      PROVE  /\ GoTo(r, "generating") \/ GoTo(r, "done")
             /\ origin' = [origin EXCEPT ![r] = from]
  BY <1>4 DEF Generate, Respond
<1>5. ASSUME NEW list, Generate(r, list, "popularity") \/ Respond(r, list, "popularity"),
             stage[r] \in {"popular", "emptied"}, plan' = plan, config' = config, UNCHANGED reasons
      PROVE  OriginInv'
  <2>1. PICK s \in {"generating", "done"} : GoTo(r, s) /\ origin' = [origin EXCEPT ![r] = "popularity"]
    BY <1>4, <1>5
  <2> QED
    BY <1>1, <1>5, <2>1, Moves
<1>6. ASSUME NEW list, Generate(r, list, "search") \/ Respond(r, list, "search"),
             stage[r] \notin {"idle", "routing"}, plan' = plan, config' = config,
             UNCHANGED reasons \/ (\E why : Record(r, why))
      PROVE  OriginInv'
  <2>1. PICK s \in {"generating", "done"} : GoTo(r, s) /\ origin' = [origin EXCEPT ![r] = "search"]
    BY <1>4, <1>6
  <2> QED
    BY <1>1, <1>2, <1>6, <2>1
<1>7. CASE Route(r)
  BY <1>7, RouteOrigin
<1>8. CASE Embed(r) \/ Retrieve(r)
  <2>1. plan' = plan /\ config' = config /\ origin' = origin
    BY <1>8 DEF Embed, Retrieve
  <2>2. \/ \E o : Substitute(r, o)
        \/ (GoTo(r, "retrieving") \/ GoTo(r, "enriching")) /\ UNCHANGED reasons
    BY <1>8, Zenon DEF Embed, Retrieve
  <2> QED
    BY <1>2, <1>3, <2>1, <2>2
<1>9. CASE Popular(r) \/ Emptied(r)
  BY <1>5, <1>9 DEF Popular, Emptied
<1>10. CASE EnrichRaises(r)
  <2>1. plan' = plan /\ config' = config /\ origin' = origin
    BY <1>10 DEF EnrichRaises
  <2>2. Substitute(r, "failed") \/ (GoTo(r, "done") /\ UNCHANGED reasons)
    BY <1>10, Zenon DEF EnrichRaises
  <2> QED
    BY <1>2, <1>3, <2>1, <2>2
<1>11. CASE Explain(r)
  <2>1. Respond(r, results[r], origin[r]) /\ stage[r] = "generating"
        /\ plan' = plan /\ config' = config /\ UNCHANGED reasons
    BY <1>11 DEF Explain
  <2>2. GoTo(r, "done") /\ origin' = [origin EXCEPT ![r] = origin[r]]
    BY <2>1 DEF Respond
  <2> QED
    BY <1>1, <2>1, <2>2, Moves
<1>12. CASE BoostFused(r) \/ ImageRecall(r) \/ Describe(r) \/ RerankMerged(r)
  <2>1. plan' = plan /\ config' = config /\ stage[r] \notin {"idle", "routing"}
    BY <1>12 DEF BoostFused, ImageRecall, Describe, RerankMerged
  <2>2. CASE ImageRecall(r)
    <3>1. (GoTo(r, "describing") \/ GoTo(r, "done")) /\ UNCHANGED <<reasons, origin>>
      BY <2>2 DEF ImageRecall
    <3> QED
      BY <1>2, <2>1, <3>1
  <2>3. CASE BoostFused(r) \/ Describe(r)
    <3>1. (\E list : Respond(r, list, "search")) /\ UNCHANGED reasons
      BY <2>3 DEF BoostFused, Describe
    <3> QED
      BY <1>6, <2>1, <3>1
  <2>4. CASE RerankMerged(r)
    <3>1. (\E list : Respond(r, list, "search")) /\ (\E why : Record(r, why))
      BY <2>4 DEF RerankMerged
    <3> QED
      BY <1>6, <2>1, <3>1
  <2> QED
    BY <1>12, <2>2, <2>3, <2>4
<1>13. CASE RecallSearch(r) \/ ClientLeaves(r)
  <2>1. CASE RecallSearch(r)
    <3>1. UNCHANGED <<stage, plan, config, reasons, origin>>
      BY <2>1 DEF RecallSearch, requestVars
    <3> QED
      BY <1>1, <1>2, <3>1
  <2>2. CASE ClientLeaves(r)
    <3>1. GoTo(r, "gone") /\ UNCHANGED <<plan, config, reasons, origin>>
      BY <2>2 DEF ClientLeaves
    <3> QED
      BY <1>2, <3>1
  <2> QED
    BY <1>13, <2>1, <2>2
<1>14. ASSUME NEW s \in Sources, LegEnds(r, s) PROVE OriginInv'
  <2>1. plan' = plan /\ config' = config /\ origin' = origin
    BY <1>14 DEF LegEnds
  <2>2. /\ GoTo(r, "done") \/ GoTo(r, "enriching") \/ UNCHANGED stage
        /\ Record(r, {}) \/ Record(r, {ReasonOf(s)})
    BY <1>14, Zenon DEF LegEnds
  <2> QED
    BY <1>2, <2>1, <2>2
<1>15. CASE Enrich(r)
  <2>1. stage[r] = "enriching" /\ plan' = plan /\ config' = config
    BY <1>15 DEF Enrich
  <2>2. PICK next, list, why :
           /\ Record(r, why) /\ (next = "emptied" => why = {"empty_results_allowed"})
           /\ next \in {"emptied", "reranking", "snapshot", "answer"}
           /\ IF next # "answer" THEN Continue(r, next, list)
              ELSE Generate(r, list, "search") \/ Respond(r, list, "search")
    <3>1. PICK unread :
             LET list == Enriched(r, unread)
                 next == AfterEnrichment(r, list)
             IN  /\ Record(r, IF next = "emptied" THEN {"empty_results_allowed"} ELSE {})
                 /\ IF next # "answer" THEN Continue(r, next, list)
                    ELSE IF Kind(r) = "text" THEN Generate(r, list, "search")
                    ELSE Respond(r, list, "search")
      BY <1>15 DEF Enrich
    <3> DEFINE list == Enriched(r, unread)
               next == AfterEnrichment(r, list)
    <3>2. next \in {"emptied", "reranking", "snapshot", "answer"}
      BY DEF AfterEnrichment
    <3> DEFINE why == IF next = "emptied" THEN {"empty_results_allowed"} ELSE {}
    <3>3. /\ Record(r, why)
          /\ IF next # "answer" THEN Continue(r, next, list)
             ELSE Generate(r, list, "search") \/ Respond(r, list, "search")
      BY <3>1
    <3>4. next = "emptied" => why = {"empty_results_allowed"}
      OBVIOUS
    <3> HIDE DEF next, list, why
    <3> QED
      BY <3>2, <3>3, <3>4, Zenon
  <2>3. CASE next = "emptied"
    <3>1. GoTo(r, "emptied") /\ UNCHANGED origin
      BY <2>2, <2>3 DEF Continue
    <3> QED
      BY <1>1, <2>1, <2>2, <2>3, <3>1, Moves DEF Substitutions
  <2>4. CASE next \in {"reranking", "snapshot"}
    <3>1. GoTo(r, next) /\ UNCHANGED origin
      BY <2>2, <2>4 DEF Continue
    <3> QED
      BY <1>2, <2>1, <2>2, <2>4, <3>1
  <2>5. CASE next = "answer"
    BY <1>6, <2>1, <2>2, <2>5
  <2> QED
    BY <2>2, <2>3, <2>4, <2>5
<1>16. CASE RerankText(r)
  <2>1. stage[r] = "reranking" /\ plan' = plan /\ config' = config /\ UNCHANGED reasons
    BY <1>16 DEF RerankText
  <2>2. (\E list : Continue(r, "snapshot", list)) \/ (\E list : Generate(r, list, "search"))
    BY <1>16, Zenon DEF RerankText
  <2>3. CASE \E list : Continue(r, "snapshot", list)
    <3>1. GoTo(r, "snapshot") /\ UNCHANGED origin
      BY <2>3 DEF Continue
    <3> QED
      BY <1>2, <2>1, <3>1
  <2>4. CASE \E list : Generate(r, list, "search")
    BY <1>6, <2>1, <2>4
  <2> QED
    BY <2>2, <2>3, <2>4
<1>17. CASE BoostText(r)
  <2>1. stage[r] = "snapshot" /\ plan' = plan /\ config' = config
    BY <1>17 DEF BoostText
  <2>2. (\E list : Generate(r, list, "search")) /\ (\E why : Record(r, why))
    BY <1>17, Zenon DEF BoostText
  <2> QED
    BY <1>6, <2>1, <2>2
<1>18. CASE Submit(r)
  <2>1. stage[r] = "idle" /\ UNCHANGED <<plan, config, reasons, origin>>
    BY <1>18, Zenon DEF Submit, Refuse
  <2>2. \/ GoTo(r, "done")
        \/ GoTo(r, "recalling")
        \/ GoTo(r, "routing")
    BY <1>18, Zenon DEF Submit, Refuse
  <2>3. origin[r] = "none"
    BY <2>1 DEF OriginInv
  <2>4. CASE GoTo(r, "routing")
    BY <1>1, <2>1, <2>3, <2>4, Moves
  <2> QED
    BY <1>2, <2>1, <2>2, <2>4
<1> QED
  BY <1>7, <1>8, <1>9, <1>10, <1>11, <1>12, <1>13, <1>14, <1>15, <1>16, <1>17, <1>18 DEF Serve

LEMMA OriginStep == OriginInv /\ [Next]_vars => OriginInv'
<1> SUFFICES ASSUME OriginInv, [Next]_vars PROVE OriginInv'
  OBVIOUS
<1>1. CASE UNCHANGED <<config, stage, plan, reasons, origin>>
  BY <1>1 DEF OriginInv, Known
<1>2. CASE Probe \/ (\E c \in Calls : Admit(c) \/ Return(c)) \/ (\E d \in Deployments : ThreadEnds(d))
           \/ UNCHANGED vars
  BY <1>1, <1>2 DEF Probe, Admit, Return, ThreadEnds, vars, requestVars
<1> QED
  BY <1>2, ServeOrigin DEF Next

\* Popular items are never passed off as search results: whenever an answer
\* carries them, the router chose them, or the timeout, the failure or the
\* empty result they stand for is recorded, on every path through the handler.
THEOREM SubstitutesAreExplained == Spec => []SubstituteExplained
<1>1. Init => OriginInv
  BY DEF Init, OriginInv, Stages
<1>2. OriginInv => SubstituteExplained
  BY DEF OriginInv, SubstituteExplained, Known, Substitutions
<1> QED
  BY <1>1, <1>2, OriginStep, PTL DEF Spec
-----------------------------------------------------------------------------
(* Lists: ordering, cutting, picking and sorting.                          *)

\* Order the elements of a finite set by how many are ahead of each: every
\* place is taken, and an element ahead of another gets an earlier one.
LEMMA PlaceOfEach ==
  ASSUME NEW S, IsFiniteSet(S), NEW ahead \in [S -> SUBSET S],
         \A x \in S : x \notin ahead[x],
         \A x, y \in S : x # y => x \in ahead[y] \/ y \in ahead[x],
         \A x, y \in S : x \in ahead[y] => ahead[x] \subseteq ahead[y]
  PROVE  /\ \A x \in S : Cardinality(ahead[x]) \in 0 .. Cardinality(S) - 1
         /\ \A x, y \in S : x \in ahead[y] => Cardinality(ahead[x]) < Cardinality(ahead[y])
         /\ \A n \in 1 .. Cardinality(S) : \E x \in S : Cardinality(ahead[x]) = n - 1
<1>1. Cardinality(S) \in Nat
  BY FS_CardinalityType
<1>2. ASSUME NEW x \in S
      PROVE  /\ IsFiniteSet(ahead[x]) /\ Cardinality(ahead[x]) \in Nat
             /\ Cardinality(ahead[x]) < Cardinality(S)
  <2>1. IsFiniteSet(ahead[x]) /\ Cardinality(ahead[x]) <= Cardinality(S)
    BY FS_Subset
  <2>2. Cardinality(ahead[x]) \in Nat
    BY <2>1, FS_CardinalityType
  <2>3. Cardinality(ahead[x]) # Cardinality(S)
    BY FS_Subset
  <2> QED
    BY <1>1, <2>1, <2>2, <2>3
<1>3. ASSUME NEW x \in S, NEW y \in S, x \in ahead[y]
      PROVE  Cardinality(ahead[x]) < Cardinality(ahead[y])
  <2>1. ahead[x] \in SUBSET ahead[y] /\ ahead[x] # ahead[y]
    BY <1>3
  <2>2. /\ Cardinality(ahead[x]) <= Cardinality(ahead[y])
        /\ Cardinality(ahead[x]) # Cardinality(ahead[y])
    BY <1>2, <2>1, FS_Subset
  <2> QED
    BY <1>2, <2>2
<1> DEFINE T == 0 .. Cardinality(S) - 1
           count == [x \in S |-> Cardinality(ahead[x])]
<1>4. IsFiniteSet(T) /\ Cardinality(T) = Cardinality(S)
  BY <1>1, FS_Interval
<1>5. count \in [S -> T]
  BY <1>1, <1>2
<1>6. \A x, y \in S : count[x] = count[y] => x = y
  BY <1>2, <1>3
<1> HIDE DEF T, count
<1>7. count \in Injection(S, T)
  BY <1>5, <1>6 DEF Injection, IsInjective
<1>8. count \in Surjection(S, T)
  BY <1>4, <1>7, FS_Injection
<1>9. \A t \in T : \E x \in S : count[x] = t
  BY <1>8 DEF Surjection
<1>10. \A n \in 1 .. Cardinality(S) : \E x \in S : Cardinality(ahead[x]) = n - 1
  BY <1>1, <1>9 DEF T, count
<1> QED
  BY <1>1, <1>2, <1>3, <1>10

\* The list of the elements by their places.
LEMMA PlaceIsOrder ==
  ASSUME NEW S, IsFiniteSet(S), NEW ahead \in [S -> SUBSET S],
         \A x \in S : x \notin ahead[x],
         \A x, y \in S : x # y => x \in ahead[y] \/ y \in ahead[x],
         \A x, y \in S : x \in ahead[y] => ahead[x] \subseteq ahead[y],
         NEW placed \in [1 .. Cardinality(S) -> S],
         \A n \in DOMAIN placed : Cardinality(ahead[placed[n]]) = n - 1
  PROVE  /\ \A m, n \in DOMAIN placed : m < n => placed[m] \in ahead[placed[n]]
         /\ \A m, n \in DOMAIN placed : placed[m] = placed[n] => m = n
         /\ \A x \in S : \E n \in DOMAIN placed : placed[n] = x
<1> DEFINE N == Cardinality(S)
           count == [x \in S |-> Cardinality(ahead[x])]
<1>1. N \in Nat /\ DOMAIN placed = 1 .. N
  BY FS_CardinalityType
<1>2. /\ \A x \in S : count[x] \in 0 .. N - 1
      /\ \A x, y \in S : x \in ahead[y] => count[x] < count[y]
  BY PlaceOfEach
<1>3. \A n \in 1 .. N : placed[n] \in S /\ count[placed[n]] = n - 1
  OBVIOUS
<1> HIDE DEF N, count
<1>4. \A x, y \in S : count[x] = count[y] => x = y
  BY <1>1, <1>2
<1>5. ASSUME NEW m \in 1 .. N, NEW n \in 1 .. N, m < n PROVE placed[m] \in ahead[placed[n]]
  <2>1. count[placed[m]] = m - 1 /\ count[placed[n]] = n - 1 /\ placed[m] \in S /\ placed[n] \in S
    BY <1>3
  <2>2. placed[m] # placed[n] /\ ~(count[placed[n]] < count[placed[m]])
    BY <1>1, <1>5, <2>1
  <2> QED
    BY <1>2, <2>1, <2>2
<1>6. ASSUME NEW m \in 1 .. N, NEW n \in 1 .. N, placed[m] = placed[n] PROVE m = n
  <2>1. m - 1 = n - 1
    BY <1>3, <1>6
  <2> QED
    BY <1>1, <2>1
<1>7. ASSUME NEW x \in S PROVE \E n \in 1 .. N : placed[n] = x
  <2> DEFINE n == count[x] + 1
  <2>1. n \in 1 .. N /\ count[x] = n - 1
    BY <1>1, <1>2
  <2> QED
    BY <1>3, <1>4, <2>1
<1> QED
  BY <1>1, <1>5, <1>6, <1>7

-----------------------------------------------------------------------------
\* The first n elements.
LEMMA Cut ==
  ASSUME NEW T, NEW s \in Seq(T), NEW n \in Nat
  PROVE  /\ AtMost(s, n) \in Seq(T)
         /\ DOMAIN AtMost(s, n) \subseteq DOMAIN s
         /\ \A i \in DOMAIN AtMost(s, n) : AtMost(s, n)[i] = s[i]
         /\ Len(AtMost(s, n)) <= n
<1>1. CASE Len(s) <= n
  BY <1>1 DEF AtMost
<1>2. CASE ~(Len(s) <= n)
  <2>1. AtMost(s, n) = SubSeq(s, 1, n) /\ Len(s) \in Nat /\ n < Len(s)
    BY <1>2 DEF AtMost
  <2>2. /\ AtMost(s, n) \in Seq(T) /\ DOMAIN AtMost(s, n) = 1 .. n
        /\ \A i \in 1 .. n : AtMost(s, n)[i] = s[i]
    BY <2>1
  <2> QED
    BY <2>1, <2>2
<1> QED
  BY <1>1, <1>2

\* Some elements of a list, in its order.
LEMMA Picking ==
  ASSUME NEW T, NEW s \in Seq(T), NEW places \in SUBSET DOMAIN s
  PROVE  \E from \in [DOMAIN Picked(s, places) -> places] :
            /\ Picked(s, places) \in Seq(T)
            /\ \A n \in DOMAIN Picked(s, places) : Picked(s, places)[n] = s[from[n]]
            /\ \A m, n \in DOMAIN Picked(s, places) : m < n => from[m] < from[n]
<1> DEFINE ahead == [i \in places |-> {j \in places : j < i}]
           from == [n \in 1 .. Cardinality(places) |-> CHOOSE i \in places : Cardinality(ahead[i]) = n - 1]
           order == InOrder(places, <)
<1>1. DOMAIN s = 1 .. Len(s) /\ Len(s) \in Nat /\ \A i \in places : i \in Nat
  OBVIOUS
<1>2. IsFiniteSet(places)
  <2>1. IsFiniteSet(1 .. Len(s))
    BY <1>1, FS_Interval
  <2> QED
    BY <1>1, <2>1, FS_Subset
<1>3. ahead \in [places -> SUBSET places]
  OBVIOUS
<1>4. /\ \A x \in places : x \notin ahead[x]
      /\ \A x, y \in places : x # y => x \in ahead[y] \/ y \in ahead[x]
      /\ \A x, y \in places : x \in ahead[y] => ahead[x] \subseteq ahead[y]
  BY <1>1
<1>5. order = from
  <2>1. order = [n \in 1 .. Cardinality(places) |->
                   CHOOSE i \in places : Cardinality({j \in places : j < i}) = n - 1]
    BY DEF InOrder
  <2>2. \A i \in places : ahead[i] = {j \in places : j < i}
    OBVIOUS
  <2>3. \A n \in 1 .. Cardinality(places) :
           (CHOOSE i \in places : Cardinality({j \in places : j < i}) = n - 1) =
           (CHOOSE i \in places : Cardinality(ahead[i]) = n - 1)
    BY <2>2
  <2> QED
    BY <2>1, <2>3
<1>6. Picked(s, places) = [n \in DOMAIN order |-> s[order[n]]]
  BY DEF Picked
<1>7. from = [n \in 1 .. Cardinality(places) |-> CHOOSE i \in places : Cardinality(ahead[i]) = n - 1]
  OBVIOUS
<1> HIDE DEF ahead, from, order
<1>8. /\ Cardinality(places) \in Nat /\ from \in [1 .. Cardinality(places) -> places]
      /\ \A m, n \in DOMAIN from : m < n => from[m] \in ahead[from[n]]
  <2>1. Cardinality(places) \in Nat
    BY <1>2, FS_CardinalityType
  <2>2. \A n \in 1 .. Cardinality(places) : \E i \in places : Cardinality(ahead[i]) = n - 1
    BY <1>2, <1>3, <1>4, PlaceOfEach
  <2>3. /\ from \in [1 .. Cardinality(places) -> places]
        /\ \A n \in 1 .. Cardinality(places) : Cardinality(ahead[from[n]]) = n - 1
    BY <1>7, <2>2
  <2> QED
    BY <1>2, <1>3, <1>4, <2>1, <2>3, PlaceIsOrder
<1>9. /\ DOMAIN Picked(s, places) = 1 .. Cardinality(places) /\ DOMAIN from = 1 .. Cardinality(places)
      /\ \A n \in 1 .. Cardinality(places) : Picked(s, places)[n] = s[from[n]]
  BY <1>5, <1>6, <1>8
<1>10. Picked(s, places) \in Seq(T)
  <2>1. \A n \in 1 .. Cardinality(places) : s[from[n]] \in T
    BY <1>8
  <2>2. Picked(s, places) = [n \in 1 .. Cardinality(places) |-> s[from[n]]]
    BY <1>5, <1>6, <1>8
  <2> QED
    BY <1>8, <2>1, <2>2
<1>11. \A m, n \in 1 .. Cardinality(places) : m < n => from[m] < from[n]
  BY <1>8, <1>9 DEF ahead
<1> QED
  BY <1>8, <1>9, <1>10, <1>11

\* A list that the reranker or the boost has sorted by score.
ByScore(s) ==
    [n \in DOMAIN s |-> s[CHOOSE i \in DOMAIN s :
        Cardinality({j \in DOMAIN s : s[j].score > s[i].score
                                      \/ (~(s[i].score > s[j].score) /\ j < i)}) = n - 1]]

\* t is s sorted by score, the element at place n of t from place from[n] of s.
Sorts(from, s, t) ==
    /\ from \in [DOMAIN s -> DOMAIN s] /\ DOMAIN t = DOMAIN s
    /\ \A n \in DOMAIN s : t[n] = s[from[n]]
    /\ \A m, n \in DOMAIN s : m < n => s[from[m]].score >= s[from[n]].score
    /\ \A m, n \in DOMAIN s : from[m] = from[n] => m = n

\* The list that the sort gives is the old one, each element once, by descending score.
LEMMA Sorting ==
  ASSUME NEW T, NEW s \in Seq(T), \A i \in DOMAIN s : s[i].score \in Int
  PROVE  ByScore(s) \in Seq(T) /\ \E from : Sorts(from, s, ByScore(s))
<1> DEFINE D == DOMAIN s
           ahead == [i \in D |-> {j \in D : s[j].score > s[i].score
                                            \/ (~(s[i].score > s[j].score) /\ j < i)}]
           from == [n \in 1 .. Cardinality(D) |-> CHOOSE i \in D : Cardinality(ahead[i]) = n - 1]
<1>1. D = 1 .. Len(s) /\ Len(s) \in Nat /\ \A i \in D : i \in Nat
  OBVIOUS
<1>2. IsFiniteSet(D) /\ Cardinality(D) = Len(s)
  BY <1>1, FS_Interval
<1>3. ahead \in [D -> SUBSET D]
  OBVIOUS
<1>4. /\ \A x \in D : x \notin ahead[x]
      /\ \A x, y \in D : x # y => x \in ahead[y] \/ y \in ahead[x]
      /\ \A x, y \in D : x \in ahead[y] => ahead[x] \subseteq ahead[y]
  BY <1>1
<1>5. ByScore(s) = [n \in D |-> s[from[n]]]
  <2> DEFINE first(n) == CHOOSE i \in D : Cardinality({j \in D : s[j].score > s[i].score
                                           \/ (~(s[i].score > s[j].score) /\ j < i)}) = n - 1
  <2>1. \A i \in D : ahead[i] = {j \in D : s[j].score > s[i].score
                                           \/ (~(s[i].score > s[j].score) /\ j < i)}
    OBVIOUS
  <2>2. \A n \in D : first(n) = CHOOSE i \in D : Cardinality(ahead[i]) = n - 1
    BY <2>1
  <2>3. \A n \in D : from[n] = CHOOSE i \in D : Cardinality(ahead[i]) = n - 1
    BY <1>1, <1>2
  <2>4. ByScore(s) = [n \in D |-> s[first(n)]]
    BY DEF ByScore
  <2>5. \A n \in D : first(n) = from[n]
    BY <2>2, <2>3
  <2> HIDE DEF first, from
  <2> QED
    BY <2>4, <2>5
<1>6. from = [n \in 1 .. Cardinality(D) |-> CHOOSE i \in D : Cardinality(ahead[i]) = n - 1]
  OBVIOUS
<1> HIDE DEF D, ahead, from
<1>7. /\ from \in [D -> D]
      /\ \A m, n \in D : m < n => from[m] \in ahead[from[n]]
      /\ \A m, n \in D : from[m] = from[n] => m = n
  <2>1. \A n \in 1 .. Cardinality(D) : \E i \in D : Cardinality(ahead[i]) = n - 1
    BY <1>2, <1>3, <1>4, PlaceOfEach
  <2>2. /\ from \in [1 .. Cardinality(D) -> D]
        /\ \A n \in DOMAIN from : Cardinality(ahead[from[n]]) = n - 1
    BY <1>6, <2>1
  <2>3. /\ \A m, n \in DOMAIN from : m < n => from[m] \in ahead[from[n]]
        /\ \A m, n \in DOMAIN from : from[m] = from[n] => m = n
    BY <1>2, <1>3, <1>4, <2>2, PlaceIsOrder
  <2>4. DOMAIN from = D /\ from \in [D -> D]
    BY <1>1, <1>2, <2>2
  <2> QED
    BY <2>3, <2>4
<1>8. ASSUME NEW m \in D, NEW n \in D, m < n PROVE s[from[m]].score >= s[from[n]].score
  <2>1. from[m] \in D /\ from[n] \in D /\ from[m] \in ahead[from[n]]
    BY <1>7, <1>8
  <2>2. s[from[m]].score > s[from[n]].score \/ ~(s[from[n]].score > s[from[m]].score)
    BY <2>1 DEF ahead
  <2>3. s[from[m]].score \in Int /\ s[from[n]].score \in Int
    BY <2>1 DEF D
  <2> QED
    BY <2>2, <2>3
<1>9. ByScore(s) \in Seq(T)
  <2>1. \A n \in D : s[from[n]] \in T
    BY <1>7 DEF D
  <2> QED
    BY <1>1, <1>5, <2>1
<1> QED
  BY <1>5, <1>7, <1>8, <1>9 DEF D, Sorts
-----------------------------------------------------------------------------
(* Recalls, and what enrichment and the contract make of a list.           *)

\* No article twice; by descending score.
Distinct(list) == \A i, j \in DOMAIN list : i # j => list[i].id.article # list[j].id.article
Ordered(list) == \A i, j \in DOMAIN list : i < j => list[i].score >= list[j].score
IsRecall(list) == list \in Seq(Candidate) /\ Distinct(list) /\ Ordered(list)

\* An id names an article of the catalogue; padding changes its spelling alone.
LEMMA Spellings ==
  /\ \A id \in ItemIds : /\ id.article \in DOMAIN Meta /\ Canonical(id) \in ItemIds
                         /\ Canonical(id).article = id.article
                         /\ id = Id(id.article, id.spelling)
  /\ \A c \in Candidate : c.id \in ItemIds /\ c.score \in Int /\ c.id = Id(c.id.article, "stored")
<1>1. ASSUME NEW id \in ItemIds
      PROVE  /\ id.article \in DOMAIN Meta /\ Canonical(id) \in ItemIds
             /\ Canonical(id).article = id.article
             /\ id = Id(id.article, id.spelling)
  BY DEF ItemIds, Id, Canonical
<1>2. ASSUME NEW c \in Candidate
      PROVE  c.id \in ItemIds /\ c.score \in Int /\ c.id = Id(c.id.article, "stored")
  BY DEF Candidate, ItemIds, Id
<1> QED
  BY <1>1, <1>2

\* A part of a recall, in its order, is a recall.
LEMMA PartOfRecall ==
  ASSUME NEW s, IsRecall(s), NEW t \in Seq(Candidate), NEW from \in [DOMAIN t -> DOMAIN s],
         \A n \in DOMAIN t : t[n] = s[from[n]],
         \A m, n \in DOMAIN t : m < n => from[m] < from[n]
  PROVE  IsRecall(t)
<1>1. /\ \A i \in DOMAIN t : i \in Nat
      /\ \A i \in DOMAIN s : i \in Nat
  BY DEF IsRecall
<1>2. \A i, j \in DOMAIN t : i # j => from[i] # from[j]
  BY <1>1
<1>3. Distinct(t)
  BY <1>2 DEF IsRecall, Distinct
<1>4. Ordered(t)
  BY DEF IsRecall, Ordered
<1> QED
  BY <1>3, <1>4 DEF IsRecall

\* A recall that is cut is a recall, and what a collection answers is one,
\* filtered by it or not.
LEMMA CutRecall ==
  ASSUME NEW s, IsRecall(s), NEW n \in Nat PROVE IsRecall(AtMost(s, n))
<1>1. s \in Seq(Candidate)
  BY DEF IsRecall
<1>2. /\ AtMost(s, n) \in Seq(Candidate) /\ DOMAIN AtMost(s, n) \subseteq DOMAIN s
      /\ \A i \in DOMAIN AtMost(s, n) : AtMost(s, n)[i] = s[i]
  BY <1>1, Cut
<1> DEFINE from == [i \in DOMAIN AtMost(s, n) |-> i]
<1>3. /\ from \in [DOMAIN AtMost(s, n) -> DOMAIN s]
      /\ \A i \in DOMAIN AtMost(s, n) : AtMost(s, n)[i] = s[from[i]]
      /\ \A i, j \in DOMAIN AtMost(s, n) : i < j => from[i] < from[j]
  BY <1>2
<1> HIDE DEF from
<1> QED
  BY <1>2, <1>3, PartOfRecall

LEMMA RankingIsRecall ==
  ASSUME NEW s \in Sources, NEW ranking \in Recalls[s] PROVE IsRecall(ranking)
<1>1. /\ ranking \in Seq(Candidate)
      /\ \A i, j \in DOMAIN ranking : i < j =>
            ranking[i].score >= ranking[j].score /\ ranking[i].id # ranking[j].id
  BY RecallAssumption
<1>2. \A i \in DOMAIN ranking : i \in Nat /\ ranking[i].id = Id(ranking[i].id.article, "stored")
  BY <1>1, Spellings
<1>3. ASSUME NEW i \in DOMAIN ranking, NEW j \in DOMAIN ranking, i # j
      PROVE  ranking[i].id.article # ranking[j].id.article
  <2>1. ranking[i].id # ranking[j].id
    BY <1>1, <1>2, <1>3
  <2> QED
    BY <1>2, <2>1
<1> QED
  BY <1>1, <1>3 DEF IsRecall, Distinct, Ordered

LEMMA SearchAnswerIsRecall ==
  ASSUME NEW ranking \in Recalls["text"], NEW filters
  PROVE  IsRecall(SearchAnswer(ranking, filters))
<1>1. IsRecall(ranking)
  BY RankingIsRecall DEF Sources
<1> DEFINE admitted == {i \in DOMAIN ranking : Matches(Meta[ranking[i].id.article], filters)}
<1>2. IsRecall(Picked(ranking, admitted))
  <2>1. ranking \in Seq(Candidate) /\ admitted \in SUBSET DOMAIN ranking
    BY <1>1 DEF IsRecall
  <2> HIDE DEF admitted
  <2>2. PICK from \in [DOMAIN Picked(ranking, admitted) -> admitted] :
            /\ Picked(ranking, admitted) \in Seq(Candidate)
            /\ \A n \in DOMAIN Picked(ranking, admitted) : Picked(ranking, admitted)[n] = ranking[from[n]]
            /\ \A m, n \in DOMAIN Picked(ranking, admitted) : m < n => from[m] < from[n]
    BY <2>1, Picking
  <2>3. from \in [DOMAIN Picked(ranking, admitted) -> DOMAIN ranking]
    BY <2>1, <2>2
  <2> QED
    BY <1>1, <2>2, <2>3, PartOfRecall
<1>3. RecallK \in Nat
  BY PipelineAssumption
<1>4. SearchAnswer(ranking, filters) =
         AtMost(IF config.filterable THEN Picked(ranking, admitted) ELSE ranking, RecallK)
  BY DEF SearchAnswer
<1> QED
  BY <1>1, <1>2, <1>3, <1>4, CutRecall

-----------------------------------------------------------------------------
\* What enrich_and_filter keeps: items of candidates, in their order, that pass.
IsEnriched(from, c, filters, list) ==
    /\ from \in [DOMAIN list -> DOMAIN c] /\ list \in Seq(Item)
    /\ \A i \in DOMAIN list :
          /\ list[i].id = Canonical(c[from[i]].id) /\ list[i].score = c[from[i]].score
          /\ list[i].factor = NoBoost
          /\ Passes(Meta[list[i].id.article], filters)
    /\ \A i, j \in DOMAIN list : i < j => from[i] < from[j]

LEMMA Enriching ==
  ASSUME NEW T, NEW c \in Seq(T), \A i \in DOMAIN c : c[i].id \in ItemIds /\ c[i].score \in Int,
         NEW unread, NEW filters, NEW n \in Nat,
         NEW list, list = EnrichAndFilter(c, Meta, unread, filters, n)
  PROVE  \E from : IsEnriched(from, c, filters, list)
<1> DEFINE Kept(x) == /\ x.id.article \notin unread
                      /\ Meta[x.id.article] # Absent
                      /\ Passes(Meta[x.id.article], filters)
           places == {i \in DOMAIN c : Kept(c[i])}
           part == Picked(c, places)
           item(x) == [id |-> Canonical(x.id), score |-> x.score, meta |-> Meta[x.id.article],
                       sources |-> {}, factor |-> NoBoost]
           items == [i \in DOMAIN part |-> item(part[i])]
<1>1. list = AtMost(items, n)
  BY DEF EnrichAndFilter
<1>2. \A i \in places : i \in DOMAIN c /\ Passes(Meta[c[i].id.article], filters)
  OBVIOUS
<1>3. places \in SUBSET DOMAIN c
  OBVIOUS
<1> HIDE DEF places
<1>4. PICK from \in [DOMAIN part -> places] :
            /\ part \in Seq(T)
            /\ \A m \in DOMAIN part : part[m] = c[from[m]]
            /\ \A l, m \in DOMAIN part : l < m => from[l] < from[m]
  BY <1>3, Picking
<1>5. ASSUME NEW x, x.id \in ItemIds, x.score \in Int PROVE item(x) \in Item
  <2>1. Canonical(x.id) \in ItemIds /\ Meta[x.id.article] \in {Meta[a] : a \in DOMAIN Meta}
    BY <1>5, Spellings
  <2> QED
    BY <1>5, <2>1 DEF Item, NoBoost
<1> HIDE DEF part
<1>6. \A i \in DOMAIN part : part[i].id \in ItemIds /\ part[i].score \in Int
  BY <1>3, <1>4
<1>7. items \in Seq(Item) /\ DOMAIN items = DOMAIN part
  <2>1. DOMAIN part = 1 .. Len(part) /\ Len(part) \in Nat
    BY <1>4
  <2>2. \A i \in DOMAIN part : item(part[i]) \in Item
    BY <1>5, <1>6
  <2> HIDE DEF item
  <2> QED
    BY <2>1, <2>2
<1>8. ASSUME NEW i \in DOMAIN part
      PROVE  /\ items[i].id = Canonical(c[from[i]].id) /\ items[i].score = c[from[i]].score
             /\ items[i].factor = NoBoost
             /\ Passes(Meta[items[i].id.article], filters)
  <2>1. part[i] = c[from[i]] /\ from[i] \in places
    BY <1>4
  <2>2. Canonical(c[from[i]].id).article = c[from[i]].id.article
    BY <1>2, <2>1, Spellings
  <2> QED
    BY <1>2, <2>1, <2>2
<1> HIDE DEF items
<1>9. /\ list \in Seq(Item) /\ DOMAIN list \subseteq DOMAIN part
      /\ \A i \in DOMAIN list : list[i] = items[i]
  <2>1. items \in Seq(Item) /\ n \in Nat
    BY <1>7
  <2>2. /\ AtMost(items, n) \in Seq(Item) /\ DOMAIN AtMost(items, n) \subseteq DOMAIN items
        /\ \A i \in DOMAIN AtMost(items, n) : AtMost(items, n)[i] = items[i]
    BY <2>1, Cut
  <2> QED
    BY <1>1, <1>7, <2>2
<1> DEFINE of == [i \in DOMAIN list |-> from[i]]
<1>10. of \in [DOMAIN list -> DOMAIN c]
  BY <1>3, <1>4, <1>9
<1>11. \A i, j \in DOMAIN list : i < j => of[i] < of[j]
  BY <1>4, <1>9
<1>12. \A i \in DOMAIN list :
                  /\ list[i].id = Canonical(c[of[i]].id) /\ list[i].score = c[of[i]].score
                  /\ list[i].factor = NoBoost
                  /\ Passes(Meta[list[i].id.article], filters)
  BY <1>8, <1>9
<1> HIDE DEF of
<1>13. IsEnriched(of, c, filters, list)
  BY <1>9, <1>10, <1>11, <1>12 DEF IsEnriched
<1> QED
  BY <1>13

\* A list made item by item.
LEMMA EachItem ==
  ASSUME NEW list \in Seq(Item), NEW made, DOMAIN made = DOMAIN list, made = [i \in DOMAIN made |-> made[i]],
         \A i \in DOMAIN list : made[i] \in Item
  PROVE  made \in Seq(Item)
<1>1. DOMAIN list = 1 .. Len(list) /\ Len(list) \in Nat
  OBVIOUS
<1> QED
  BY <1>1

\* The annotation changes the sources alone.
LEMMA Annotating ==
  ASSUME NEW list \in Seq(Item), NEW c, \A i \in DOMAIN c : c[i].sources \subseteq Sources
  PROVE  /\ Annotated(list, c) \in Seq(Item) /\ DOMAIN Annotated(list, c) = DOMAIN list
         /\ \A i \in DOMAIN list :
               /\ Annotated(list, c)[i].id = list[i].id /\ Annotated(list, c)[i].score = list[i].score
               /\ Annotated(list, c)[i].factor = list[i].factor
               /\ Annotated(list, c)[i].sources = UNION {x.sources : x \in {y \in Elements(c) : y.id = list[i].id}}
<1> DEFINE from(i) == UNION {x.sources : x \in {y \in Elements(c) : y.id = list[i].id}}
           made == [i \in DOMAIN list |-> [list[i] EXCEPT !.sources = from(i)]]
<1>1. Annotated(list, c) = made
  BY DEF Annotated
<1>2. \A i \in DOMAIN list : list[i] \in Item
  OBVIOUS
<1>3. ASSUME NEW i \in DOMAIN list PROVE from(i) \in SUBSET Sources
  BY DEF Elements
<1> HIDE DEF from
<1>4. ASSUME NEW i \in DOMAIN list
      PROVE  /\ made[i] \in Item /\ made[i].id = list[i].id /\ made[i].score = list[i].score
             /\ made[i].factor = list[i].factor /\ made[i].sources = from(i)
  BY <1>2, <1>3 DEF Item
<1>5. DOMAIN made = DOMAIN list /\ made = [i \in DOMAIN made |-> made[i]]
  OBVIOUS
<1> HIDE DEF made
<1>6. made \in Seq(Item)
  BY <1>4, <1>5, EachItem
<1> QED
  BY <1>1, <1>4, <1>5, <1>6 DEF from

\* The contract pads the ids of the first K items.
LEMMA Contracting ==
  ASSUME NEW list \in Seq(Item)
  PROVE  /\ Contract(list) \in Seq(Item) /\ DOMAIN Contract(list) \subseteq DOMAIN list
         /\ \A i \in DOMAIN Contract(list) :
               /\ Contract(list)[i].id = Canonical(list[i].id) /\ Contract(list)[i].score = list[i].score
               /\ Contract(list)[i].factor = list[i].factor
               /\ Contract(list)[i].sources = list[i].sources
<1> DEFINE made == [i \in DOMAIN list |-> [list[i] EXCEPT !.id = Canonical(list[i].id)]]
<1>1. Contract(list) = AtMost(made, K) /\ K \in Nat
  BY PipelineAssumption DEF Contract
<1>2. \A i \in DOMAIN list : list[i] \in Item
  OBVIOUS
<1>3. ASSUME NEW i \in DOMAIN list
      PROVE  /\ made[i] \in Item /\ made[i].id = Canonical(list[i].id) /\ made[i].score = list[i].score
             /\ made[i].factor = list[i].factor /\ made[i].sources = list[i].sources
  <2>1. Canonical(list[i].id) \in ItemIds
    BY <1>2, Spellings DEF Item
  <2> QED
    BY <1>2, <2>1 DEF Item
<1>4. DOMAIN made = DOMAIN list /\ made = [i \in DOMAIN made |-> made[i]]
  OBVIOUS
<1> HIDE DEF made
<1>5. made \in Seq(Item)
  BY <1>3, <1>4, EachItem
<1>6. /\ AtMost(made, K) \in Seq(Item) /\ DOMAIN AtMost(made, K) \subseteq DOMAIN made
      /\ \A i \in DOMAIN AtMost(made, K) : AtMost(made, K)[i] = made[i]
  BY <1>1, <1>5, Cut
<1> QED
  BY <1>1, <1>3, <1>4, <1>6
-----------------------------------------------------------------------------
(* The rerank and the boost.                                               *)

\* The numbers of items are positive; a score of the reranker is any number.
LEMMA Numbers == K \in Nat \ {0} /\ RecallK \in Nat \ {0} /\ MaxDocs \in Nat \ {0} /\ \A x \in Scores : x \in Int
BY PipelineAssumption

\* t holds items of s, each once, with their scores and factors perhaps changed.
Reorders(from, s, t) ==
    /\ from \in [DOMAIN t -> DOMAIN s]
    /\ \A i \in DOMAIN t : t[i].id = s[from[i]].id /\ t[i].sources = s[from[i]].sources
    /\ \A i, j \in DOMAIN t : from[i] = from[j] => i = j

\* An item with another score or factor is an item.
LEMMA NewScore ==
  ASSUME NEW x \in Item, NEW score \in Int, NEW factor \in Nat
  PROVE  /\ [x EXCEPT !.score = score] \in Item
         /\ [x EXCEPT !.factor = factor, !.score = score] \in Item
BY DEF Item

\* The rerank gives each item a score and sorts.
LEMMA Reranking ==
  ASSUME NEW list \in Seq(Item), NEW scores \in [DOMAIN list -> Scores],
         NEW sorted, sorted = Reranked(list, scores)
  PROVE  /\ sorted \in Seq(Item) /\ Ordered(sorted)
         /\ \E from : Reorders(from, list, sorted)
<1> DEFINE scored == [i \in DOMAIN list |-> [list[i] EXCEPT !.score = scores[i]]]
<1>1. sorted = ByScore(scored)
  BY DEF Reranked, Sorted, ByScore
<1>2. \A i \in DOMAIN list : list[i] \in Item /\ scores[i] \in Int
  BY Numbers
<1>3. ASSUME NEW i \in DOMAIN list
      PROVE  /\ scored[i] \in Item /\ scored[i].id = list[i].id /\ scored[i].sources = list[i].sources
             /\ scored[i].factor = list[i].factor /\ scored[i].score \in Int
  <2>1. scores[i] \in Int /\ list[i] \in Item
    BY <1>2
  <2>2. scored[i] = [list[i] EXCEPT !.score = scores[i]]
    OBVIOUS
  <2>3. scored[i] \in Item
    BY <2>1, <2>2, NewScore
  <2> QED
    BY <1>2, <2>2, <2>3 DEF Item
<1>4. DOMAIN scored = DOMAIN list /\ scored = [i \in DOMAIN scored |-> scored[i]]
  OBVIOUS
<1> HIDE DEF scored
<1>5. scored \in Seq(Item)
  BY <1>3, <1>4, EachItem
<1>6. \A i \in DOMAIN scored : scored[i].score \in Int
  BY <1>3, <1>4
<1>7. PICK from : ByScore(scored) \in Seq(Item) /\ Sorts(from, scored, ByScore(scored))
  BY <1>5, <1>6, Sorting
<1>8. Ordered(sorted)
  BY <1>1, <1>7 DEF Ordered, Sorts
<1>9. Reorders(from, list, sorted)
  BY <1>1, <1>3, <1>4, <1>7 DEF Sorts, Reorders
<1> QED
  BY <1>1, <1>7, <1>8, <1>9

\* The boost of an item is not negative.
LEMMA FactorIsNat ==
  ASSUME NEW article, NEW colour, NEW snapshot PROVE BoostFactor(article, colour, snapshot) \in Nat
<1>1. \A w \in {"1h", "24h", "7d"} : WindowBoost[w] \in Nat
  BY DEF WindowBoost
<1>2. Hotness(article, snapshot) \in Nat
  BY <1>1 DEF Hotness
<1> DEFINE behaviour == IF article \in snapshot.clicked THEN ExactClick
                        ELSE IF colour \in snapshot.liked THEN CategoryAffinity ELSE 10
<1>3. behaviour \in {15, 12, 10}
  BY DEF ExactClick, CategoryAffinity
<1> HIDE DEF behaviour
<1>4. behaviour * Hotness(article, snapshot) \in Nat
  BY <1>2, <1>3
<1>5. BoostFactor(article, colour, snapshot) =
         IF behaviour * Hotness(article, snapshot) > MaxBoost THEN MaxBoost
         ELSE behaviour * Hotness(article, snapshot)
  BY DEF BoostFactor, behaviour
<1> QED
  BY <1>4, <1>5 DEF MaxBoost

\* The boost multiplies each score and sorts again.
LEMMA Boosting ==
  ASSUME NEW list \in Seq(Item), NEW snapshot,
         NEW sorted, sorted = ApplyBoost(list, snapshot)
  PROVE  /\ sorted \in Seq(Item) /\ Ordered(sorted)
         /\ \E from : Reorders(from, list, sorted)
<1> DEFINE f(i) == BoostFactor(list[i].id.article, list[i].meta.colour, snapshot)
           boosted == [i \in DOMAIN list |-> [list[i] EXCEPT !.factor = f(i), !.score = @ * f(i)]]
<1>1. sorted = ByScore(boosted)
  BY DEF ApplyBoost, Sorted, ByScore
<1>2. \A i \in DOMAIN list : list[i] \in Item /\ list[i].score \in Int /\ f(i) \in Nat
  <2>1. \A i \in DOMAIN list : f(i) \in Nat
    BY FactorIsNat
  <2> HIDE DEF f
  <2>2. \A i \in DOMAIN list : list[i] \in Item
    OBVIOUS
  <2> QED
    BY <2>1, <2>2 DEF Item
<1> HIDE DEF f
<1>3. ASSUME NEW i \in DOMAIN list
      PROVE  /\ boosted[i] \in Item /\ boosted[i].id = list[i].id /\ boosted[i].sources = list[i].sources
             /\ boosted[i].score \in Int
  <2>1. PICK product \in Int : product = list[i].score * f(i)
    BY <1>2
  <2>2. boosted[i] = [list[i] EXCEPT !.factor = f(i), !.score = product]
    BY <2>1
  <2>3. boosted[i] \in Item
    <3>1. list[i] \in Item /\ f(i) \in Nat /\ product \in Int
      BY <1>2, <2>1
    <3>2. [list[i] EXCEPT !.factor = f(i), !.score = product] \in Item
      BY <3>1, NewScore
    <3> QED
      BY <2>2, <3>2
  <2>4. boosted[i].score = product
    BY <1>2, <2>2 DEF Item
  <2> QED
    BY <1>2, <2>1, <2>2, <2>3, <2>4 DEF Item
<1>4. DOMAIN boosted = DOMAIN list /\ boosted = [i \in DOMAIN boosted |-> boosted[i]]
  OBVIOUS
<1> HIDE DEF boosted
<1>5. boosted \in Seq(Item)
  BY <1>3, <1>4, EachItem
<1>6. \A i \in DOMAIN boosted : boosted[i].score \in Int
  BY <1>3, <1>4
<1>7. PICK from : ByScore(boosted) \in Seq(Item) /\ Sorts(from, boosted, ByScore(boosted))
  BY <1>5, <1>6, Sorting
<1>8. Ordered(sorted)
  BY <1>1, <1>7 DEF Ordered, Sorts
<1>9. Reorders(from, list, sorted)
  BY <1>1, <1>3, <1>4, <1>7 DEF Sorts, Reorders
<1> QED
  BY <1>1, <1>3, <1>4, <1>7, <1>8, <1>9 DEF Sorts

-----------------------------------------------------------------------------
\* The two fusions.

\* What fuse_with_normalized_scores lists of the recalls.
LEMMA RecallIsFinite ==
  ASSUME NEW s, IsRecall(s), NEW f, DOMAIN f = DOMAIN s, f = [i \in DOMAIN f |-> f[i]]
  PROVE  IsFiniteSet({f[i] : i \in DOMAIN s})
<1>1. DOMAIN s = 1 .. Len(s) /\ Len(s) \in Nat
  BY DEF IsRecall
<1>2. IsFiniteSet(DOMAIN s)
  <2>1. 1 \in Int /\ Len(s) \in Int
    BY <1>1
  <2>2. IsFiniteSet(1 .. Len(s))
    BY <2>1, FS_Interval
  <2> QED
    BY <1>1, <2>2
<1>3. f \in Surjection(DOMAIN s, {f[i] : i \in DOMAIN s})
  BY DEF Surjection
<1> QED
  BY <1>2, <1>3, FS_Surjection

\* The place of an id in a recall that holds it.
LEMMA RankIs ==
  ASSUME NEW s, NEW id \in Ids(s) PROVE RankOf(s, id) \in DOMAIN s /\ s[RankOf(s, id)].id = id
<1>1. \E i \in DOMAIN s : s[i].id = id
  BY DEF Ids, Elements
<1> QED
  BY <1>1 DEF RankOf

\* A score, scaled between the least and the largest of its recall.
LEMMA ScaledIsNat ==
  ASSUME NEW scores \in SUBSET Int, NEW lo \in scores, NEW hi \in scores,
         \A x \in scores : lo <= x /\ x <= hi, NEW v \in scores
  PROVE  MinMax(scores, v) \in Nat
<1> DEFINE least == CHOOSE x \in scores : \A y \in scores : x <= y
           most == CHOOSE x \in scores : \A y \in scores : x >= y
<1>1. least \in scores /\ \A y \in scores : least <= y
  BY lo \in scores, \A y \in scores : lo <= y
<1>2. most \in scores /\ \A y \in scores : most >= y
  <2>1. \A y \in scores : hi >= y
    OBVIOUS
  <2> QED
    BY <2>1
<1>3. MinMax(scores, v) = IF most = least THEN SpanUnit ELSE ((v - least) * SpanUnit) \div (most - least)
  BY DEF MinMax
<1> HIDE DEF least, most
<1>4. v - least \in Nat /\ (most # least => most - least \in Nat \ {0})
  BY <1>1, <1>2
<1>5. (v - least) * SpanUnit \in Nat /\ SpanUnit \in Nat
  BY <1>4 DEF SpanUnit
<1>6. \A a \in Nat, b \in Nat \ {0} : a \div b \in Nat
  OBVIOUS
<1> QED
  BY <1>3, <1>4, <1>5, <1>6
-----------------------------------------------------------------------------
(* The fusion of a hybrid search.                                          *)

\* The recalls that found the article with a canonical id.
FoundBy(id, recalls) == {s \in Sources : \E c \in Elements(recalls[s]) : Canonical(c.id) = id}

\* A list that fuse_with_normalized_scores may have made of the recalls.
Fused == [id : ItemIds, sources : SUBSET Sources, score : Nat]
IsFused(list, recalls) ==
    /\ list \in Seq(Fused) /\ Distinct(list) /\ Ordered(list)
    /\ \A i \in DOMAIN list : /\ list[i].id = Canonical(list[i].id)
                              /\ list[i].sources = FoundBy(list[i].id, recalls)

\* The scores of a recall are between its last and its first.
LEMMA ScaledRecall ==
  ASSUME NEW s, IsRecall(s), NEW scores, scores = {s[i].score : i \in DOMAIN s}, NEW v \in scores
  PROVE  MinMax(scores, v) \in Nat
<1>1. DOMAIN s = 1 .. Len(s) /\ Len(s) \in Nat /\ \A i \in DOMAIN s : s[i].score \in Int
  BY Spellings DEF IsRecall
<1>2. 1 \in DOMAIN s /\ Len(s) \in DOMAIN s
  BY <1>1
<1>3. \A i \in DOMAIN s : s[Len(s)].score <= s[i].score /\ s[i].score <= s[1].score
  BY <1>1, <1>2 DEF IsRecall, Ordered
<1>4. scores \in SUBSET Int /\ s[1].score \in scores /\ s[Len(s)].score \in scores
  BY <1>1, <1>2
<1>5. \A x \in scores : s[Len(s)].score <= x /\ x <= s[1].score
  BY <1>3
<1> QED
  BY <1>4, <1>5, ScaledIsNat

\* Every list of the elements of a finite set has each of them once.
LEMMA Arranging ==
  ASSUME NEW S, IsFiniteSet(S), NEW s \in Arrangements(S)
  PROVE  s \in Seq(S) /\ \A i, j \in DOMAIN s : s[i] = s[j] => i = j
<1> DEFINE N == Cardinality(S)
<1>1. N \in Nat
  BY FS_CardinalityType
<1>2. s \in [1 .. N -> S] /\ {s[i] : i \in DOMAIN s} = S
  BY DEF Arrangements, Elements
<1> HIDE DEF N
<1>3. s \in Surjection(1 .. N, S)
  <2>1. ASSUME NEW x \in S PROVE \E i \in 1 .. N : s[i] = x
    BY <1>2
  <2> QED
    BY <1>2, <2>1 DEF Surjection
<1>4. IsFiniteSet(1 .. N) /\ Cardinality(1 .. N) = N
  <2>1. 1 \in Int /\ N \in Int
    BY <1>1
  <2>2. IsFiniteSet(1 .. N) /\ Cardinality(1 .. N) = IF 1 > N THEN 0 ELSE N - 1 + 1
    BY <2>1, FS_Interval
  <2> QED
    BY <1>1, <2>2
<1>5. s \in Injection(1 .. N, S)
  BY <1>3, <1>4, FS_Surjection DEF N
<1>6. \A i, j \in DOMAIN s : s[i] = s[j] => i = j
  BY <1>5 DEF Injection, IsInjective
<1> QED
  BY <1>1, <1>2, <1>6

\* Every list of fuse_with_normalized_scores has each article once, by
\* descending score, with the recalls that found it.
LEMMA Fusing ==
  ASSUME NEW recalls, \A s \in Sources : IsRecall(recalls[s]),
         NEW weights \in [Sources -> Nat], NEW limit \in Nat, NEW list \in Fuse(recalls, weights, limit)
  PROVE  IsFused(list, recalls)
<1> DEFINE canon(s) == [i \in DOMAIN recalls[s] |->
                           [id |-> Canonical(recalls[s][i].id), score |-> recalls[s][i].score]]
           scores(s) == {c.score : c \in Elements(canon(s))}
           In(id) == {s \in Sources : id \in Ids(canon(s))}
           Share(s, id) == IF s \in In(id)
                           THEN weights[s] * MinMax(scores(s), ScoreOf(canon(s), id))
                           ELSE 0
           all == Ids(canon("text")) \cup Ids(canon("image"))
           entry(id) == [id |-> id, sources |-> In(id), score |-> Share("text", id) + Share("image", id)]
           entries == {entry(id) : id \in all}
<1>1. PICK row \in Arrangements(entries) : list = AtMost(ByScore(row), limit)
  BY DEF Fuse, Sorted, ByScore
<1>2. Sources = {"text", "image"}
  BY DEF Sources
<1>3. ASSUME NEW s \in Sources
      PROVE  /\ DOMAIN canon(s) = DOMAIN recalls[s]
             /\ \A i \in DOMAIN recalls[s] : /\ canon(s)[i].id = Canonical(recalls[s][i].id)
                                             /\ canon(s)[i].score = recalls[s][i].score
             /\ recalls[s] \in Seq(Candidate)
             /\ scores(s) = {recalls[s][i].score : i \in DOMAIN recalls[s]}
             /\ Ids(canon(s)) = {Canonical(recalls[s][i].id) : i \in DOMAIN recalls[s]}
  <2>1. /\ DOMAIN canon(s) = DOMAIN recalls[s]
        /\ \A i \in DOMAIN recalls[s] : /\ canon(s)[i].id = Canonical(recalls[s][i].id)
                                        /\ canon(s)[i].score = recalls[s][i].score
    OBVIOUS
  <2>2. recalls[s] \in Seq(Candidate)
    BY DEF IsRecall
  <2>3. Elements(canon(s)) = {canon(s)[i] : i \in DOMAIN recalls[s]}
    BY <2>1 DEF Elements
  <2> HIDE DEF canon
  <2>4. scores(s) = {recalls[s][i].score : i \in DOMAIN recalls[s]}
    BY <2>1, <2>3
  <2>5. Ids(canon(s)) = {Canonical(recalls[s][i].id) : i \in DOMAIN recalls[s]}
    BY <2>1, <2>3 DEF Ids
  <2> QED
    BY <2>1, <2>2, <2>4, <2>5
<1>4. ASSUME NEW s \in Sources, NEW id \in Ids(canon(s))
      PROVE  MinMax(scores(s), ScoreOf(canon(s), id)) \in Nat
  <2>1. RankOf(canon(s), id) \in DOMAIN canon(s)
    BY RankIs
  <2>2. ScoreOf(canon(s), id) \in scores(s)
    BY <2>1 DEF ScoreOf, Elements
  <2>3. scores(s) = {recalls[s][i].score : i \in DOMAIN recalls[s]} /\ IsRecall(recalls[s])
    BY <1>3
  <2> HIDE DEF scores, canon
  <2> QED
    BY <2>2, <2>3, ScaledRecall
<1>5. ASSUME NEW s \in Sources, NEW id \in Ids(canon(s)) PROVE id \in ItemIds /\ Canonical(id) = id
  <2>1. PICK i \in DOMAIN recalls[s] : id = Canonical(recalls[s][i].id)
    BY <1>3
  <2>2. recalls[s][i].id \in ItemIds
    BY <1>3, Spellings
  <2> QED
    BY <2>1, <2>2, Spellings DEF Canonical, Id
<1>6. ASSUME NEW id PROVE In(id) = FoundBy(id, recalls)
  BY <1>3 DEF FoundBy, Elements
<1>7. ASSUME NEW s \in Sources PROVE IsFiniteSet(Ids(canon(s)))
  <2> DEFINE f == [i \in DOMAIN recalls[s] |-> Canonical(recalls[s][i].id)]
  <2>1. DOMAIN f = DOMAIN recalls[s] /\ f = [i \in DOMAIN f |-> f[i]]
    OBVIOUS
  <2>2. {Canonical(recalls[s][i].id) : i \in DOMAIN recalls[s]} = {f[i] : i \in DOMAIN recalls[s]}
    OBVIOUS
  <2>3. Ids(canon(s)) = {f[i] : i \in DOMAIN recalls[s]}
    BY <1>3, <2>2
  <2> HIDE DEF f
  <2> QED
    BY <2>1, <2>3, RecallIsFinite
<1>8. IsFiniteSet(all)
  BY <1>2, <1>7, FS_Union
<1>9. ASSUME NEW s \in Sources, NEW id PROVE Share(s, id) \in Nat
  <2>1. CASE s \in In(id)
    <3>1. id \in Ids(canon(s)) /\ weights[s] \in Nat
      BY <2>1
    <3>2. MinMax(scores(s), ScoreOf(canon(s), id)) \in Nat
      BY <1>4, <3>1
    <3> HIDE DEF canon, scores
    <3>3. weights[s] * MinMax(scores(s), ScoreOf(canon(s), id)) \in Nat
      BY <3>1, <3>2
    <3> QED
      BY <2>1, <3>3
  <2>2. CASE s \notin In(id)
    BY <2>2
  <2> QED
    BY <2>1, <2>2
<1> HIDE DEF Share
<1>10. ASSUME NEW id \in all PROVE entry(id) \in Fused /\ Canonical(id) = id
  <2>1. id \in ItemIds /\ Canonical(id) = id
    BY <1>2, <1>5
  <2>2. Share("text", id) + Share("image", id) \in Nat
    BY <1>2, <1>9
  <2>3. In(id) \in SUBSET Sources
    OBVIOUS
  <2> HIDE DEF In
  <2> QED
    BY <2>1, <2>2, <2>3 DEF Fused
<1>11. /\ \A x \in entries : x \in Fused /\ Canonical(x.id) = x.id /\ x.sources = FoundBy(x.id, recalls)
       /\ \A x, y \in entries : x.id = y.id => x = y
  <2>1. ASSUME NEW id \in all
        PROVE  entry(id) \in Fused /\ entry(id).id = id /\ Canonical(id) = id
               /\ entry(id).sources = FoundBy(id, recalls)
    BY <1>6, <1>10
  <2> HIDE DEF all, entry
  <2> QED
    BY <2>1
<1>12. IsFiniteSet(entries)
  <2> DEFINE f == [id \in all |-> entry(id)]
  <2> HIDE DEF all, entry
  <2>1. f \in Surjection(all, entries)
    BY DEF Surjection
  <2> QED
    BY <1>8, <2>1, FS_Surjection
<1> HIDE DEF entries
<1>13. row \in Seq(entries) /\ \A i, j \in DOMAIN row : row[i] = row[j] => i = j
  BY <1>1, <1>12, Arranging
<1>14. row \in Seq(Fused) /\ \A i \in DOMAIN row : row[i].score \in Int /\ row[i] \in entries
  <2>1. Len(row) \in Nat /\ row \in [1 .. Len(row) -> entries]
    BY <1>13
  <2>2. row \in [1 .. Len(row) -> Fused] /\ \A i \in DOMAIN row : row[i] \in entries /\ row[i] \in Fused
    BY <1>11, <2>1
  <2>3. row \in Seq(Fused)
    BY <2>1, <2>2
  <2> QED
    BY <2>1, <2>2, <2>3 DEF Fused
<1>15. PICK from : ByScore(row) \in Seq(Fused) /\ Sorts(from, row, ByScore(row))
  BY <1>14, Sorting
<1>16. /\ list \in Seq(Fused) /\ DOMAIN list \subseteq DOMAIN ByScore(row)
       /\ \A i \in DOMAIN list : list[i] = ByScore(row)[i]
  BY <1>1, <1>15, Cut
<1>17. \A i \in DOMAIN list : i \in DOMAIN row /\ list[i] = row[from[i]] /\ from[i] \in DOMAIN row /\ list[i] \in entries
  BY <1>14, <1>15, <1>16 DEF Sorts
<1>18. Ordered(list)
  BY <1>15, <1>17 DEF Ordered, Sorts
<1>19. Distinct(list)
  <2>1. ASSUME NEW i \in DOMAIN list, NEW j \in DOMAIN list, i # j
        PROVE  list[i].id.article # list[j].id.article
    <3>1. from[i] # from[j]
      BY <1>15, <1>17, <2>1 DEF Sorts
    <3>2. list[i] # list[j]
      BY <1>13, <1>17, <3>1
    <3>3. list[i].id # list[j].id
      BY <1>11, <1>17, <3>2
    <3>4. list[i].id = Canonical(list[i].id) /\ list[j].id = Canonical(list[j].id)
      BY <1>11, <1>17
    <3> QED
      BY <3>3, <3>4 DEF Canonical
  <2> QED
    BY <2>1 DEF Distinct
<1> QED
  BY <1>11, <1>16, <1>17, <1>18, <1>19 DEF IsFused
-----------------------------------------------------------------------------
(* The merge of a multimodal search.                                       *)

\* The order of merge_ranked_candidates.
Before(x, y) ==
    \/ x.score > y.score
    \/ x.score = y.score /\ x.best < y.best
    \/ x.score = y.score /\ x.best = y.best /\ x.id.article > y.id.article
BestFirst(S) ==
    [n \in 1 .. Cardinality(S) |-> CHOOSE x \in S : Cardinality({y \in S : Before(y, x)}) = n - 1]

\* A finite set of entries, put in that order.
LEMMA Ordering ==
  ASSUME NEW S, IsFiniteSet(S),
         \A x \in S : x.score \in Int /\ x.best \in Int /\ x.id.article \in Int,
         \A x, y \in S : x.id.article = y.id.article => x = y
  PROVE  /\ BestFirst(S) \in Seq(S)
         /\ \A m, n \in DOMAIN BestFirst(S) : m < n => Before(BestFirst(S)[m], BestFirst(S)[n])
         /\ \A m, n \in DOMAIN BestFirst(S) : BestFirst(S)[m] = BestFirst(S)[n] => m = n
<1> DEFINE ahead == [x \in S |-> {y \in S : Before(y, x)}]
           first(n) == CHOOSE x \in S : Cardinality({y \in S : Before(y, x)}) = n - 1
<1>1. Cardinality(S) \in Nat
  BY FS_CardinalityType
<1>2. ahead \in [S -> SUBSET S]
  OBVIOUS
<1>3. /\ \A x \in S : x \notin ahead[x]
      /\ \A x, y \in S : x # y => x \in ahead[y] \/ y \in ahead[x]
  BY DEF Before
<1>4. \A x, y \in S : x \in ahead[y] => ahead[x] \subseteq ahead[y]
  <2>1. ASSUME NEW x \in S, NEW y \in S, NEW z \in S, Before(x, y), Before(z, x) PROVE Before(z, y)
    <3>1. /\ x.score \in Int /\ y.score \in Int /\ z.score \in Int
          /\ x.best \in Int /\ y.best \in Int /\ z.best \in Int
          /\ x.id.article \in Int /\ y.id.article \in Int /\ z.id.article \in Int
      OBVIOUS
    <3> QED
      BY <2>1, <3>1 DEF Before
  <2> QED
    BY <2>1
<1>5. \A x \in S : ahead[x] = {y \in S : Before(y, x)}
  OBVIOUS
<1> HIDE DEF ahead
<1>6. \A n \in 1 .. Cardinality(S) : \E x \in S : Cardinality(ahead[x]) = n - 1
  BY <1>2, <1>3, <1>4, PlaceOfEach
<1>7. ASSUME NEW n \in 1 .. Cardinality(S)
      PROVE  first(n) \in S /\ Cardinality(ahead[first(n)]) = n - 1
  <2>1. first(n) = CHOOSE x \in S : Cardinality(ahead[x]) = n - 1
    BY <1>5
  <2>2. \E x \in S : Cardinality(ahead[x]) = n - 1
    BY <1>6
  <2> HIDE DEF first
  <2> QED
    BY <2>1, <2>2
<1>8. BestFirst(S) = [n \in 1 .. Cardinality(S) |-> first(n)]
  BY DEF BestFirst
<1> HIDE DEF first
<1>9. /\ BestFirst(S) \in [1 .. Cardinality(S) -> S]
      /\ \A n \in DOMAIN BestFirst(S) : Cardinality(ahead[BestFirst(S)[n]]) = n - 1
  BY <1>7, <1>8
<1>10. /\ \A m, n \in DOMAIN BestFirst(S) : m < n => BestFirst(S)[m] \in ahead[BestFirst(S)[n]]
       /\ \A m, n \in DOMAIN BestFirst(S) : BestFirst(S)[m] = BestFirst(S)[n] => m = n
  BY <1>2, <1>3, <1>4, <1>9, PlaceIsOrder
<1>11. \A m, n \in DOMAIN BestFirst(S) : m < n => Before(BestFirst(S)[m], BestFirst(S)[n])
  BY <1>5, <1>9, <1>10
<1> QED
  BY <1>1, <1>9, <1>10, <1>11

\* What merge_ranked_candidates knows of an id: its share of each recall that
\* counts, and its best rank.
Counting(id, recalls, weights) ==
    {s \in {t \in Sources : weights[t] > 0} : id \in Ids(recalls[s])}
ShareOf(s, id, recalls, weights) ==
    IF s \in Counting(id, recalls, weights)
    THEN (weights[s] * RankUnit) \div (60 + RankOf(recalls[s], id)) ELSE 0
EntryOf(id, recalls, weights) ==
    [id |-> id, sources |-> Counting(id, recalls, weights),
     best |-> CHOOSE n \in {RankOf(recalls[s], id) : s \in Counting(id, recalls, weights)} :
                  \A s \in Counting(id, recalls, weights) : n <= RankOf(recalls[s], id),
     score |-> ShareOf("text", id, recalls, weights) + ShareOf("image", id, recalls, weights)]

\* A list that is in the order of merge_ranked_candidates.
Merged == [id : ItemIds, sources : SUBSET Sources, best : Nat, score : Nat]
IsMerged(list, recalls, weights) ==
    /\ list \in Seq(Merged) /\ Distinct(list)
    /\ \A i \in DOMAIN list : /\ list[i] = EntryOf(list[i].id, recalls, weights)
                              /\ Counting(list[i].id, recalls, weights) # {}
    /\ \A i, j \in DOMAIN list : i < j => Before(list[i], list[j])

\* A share is a quotient of naturals.
LEMMA ShareIsNat ==
  ASSUME NEW recalls, \A s \in Sources : IsRecall(recalls[s]), NEW weights \in [Sources -> Nat],
         NEW s \in Sources, NEW id
  PROVE  /\ s \in Counting(id, recalls, weights) => RankOf(recalls[s], id) \in Nat \ {0}
         /\ ShareOf(s, id, recalls, weights) \in Nat
<1>1. CASE s \in Counting(id, recalls, weights)
  <2>1. RankOf(recalls[s], id) \in DOMAIN recalls[s] /\ recalls[s] \in Seq(Candidate)
    BY <1>1, RankIs DEF Counting, IsRecall
  <2>2. PICK rank \in Nat \ {0} : rank = RankOf(recalls[s], id)
    BY <2>1
  <2>3. PICK w \in Nat : w = weights[s]
    OBVIOUS
  <2>4. w * RankUnit \in Nat /\ 60 + rank \in Nat \ {0}
    BY DEF RankUnit
  <2>5. \A a \in Nat, b \in Nat \ {0} : a \div b \in Nat
    OBVIOUS
  <2>6. (w * RankUnit) \div (60 + rank) \in Nat
    BY <2>4, <2>5
  <2> QED
    BY <1>1, <2>2, <2>3, <2>6 DEF ShareOf
<1>2. CASE s \notin Counting(id, recalls, weights)
  BY <1>2 DEF ShareOf
<1> QED
  BY <1>1, <1>2

\* The best rank of an id is the least one.
LEMMA EntryIsMerged ==
  ASSUME NEW recalls, \A s \in Sources : IsRecall(recalls[s]), NEW weights \in [Sources -> Nat],
         NEW id \in ItemIds, Counting(id, recalls, weights) # {},
         NEW x, x = EntryOf(id, recalls, weights)
  PROVE  /\ x \in Merged /\ x.id = id
         /\ \E s \in Counting(id, recalls, weights) : x.best = RankOf(recalls[s], id)
         /\ \A s \in Counting(id, recalls, weights) : x.best <= RankOf(recalls[s], id)
<1> DEFINE C == Counting(id, recalls, weights)
           rank(s) == RankOf(recalls[s], id)
<1>1. C \subseteq {"text", "image"} /\ Sources = {"text", "image"}
  BY DEF Counting, Sources
<1>2. \A s \in C : rank(s) \in Nat
  BY <1>1, ShareIsNat
<1> HIDE DEF C, rank
<1>3. \E n \in {rank(s) : s \in C} : \A s \in C : n <= rank(s)
  <2>1. PICK s \in C : TRUE
    BY DEF C
  <2>2. CASE C = {s}
    BY <1>2, <2>2
  <2>3. CASE C # {s}
    <3>1. PICK t \in C : t # s
      BY <2>3
    <3>2. C = {s, t}
      BY <1>1, <3>1
    <3>3. rank(s) <= rank(t) \/ rank(t) <= rank(s)
      BY <1>2
    <3> QED
      BY <1>2, <3>2, <3>3
  <2> QED
    BY <2>2, <2>3
<1> DEFINE best == CHOOSE n \in {rank(s) : s \in C} : \A s \in C : n <= rank(s)
<1>4. best \in {rank(s) : s \in C} /\ \A s \in C : best <= rank(s)
  BY <1>3
<1>5. x = [id |-> id, sources |-> C, best |-> best,
           score |-> ShareOf("text", id, recalls, weights) + ShareOf("image", id, recalls, weights)]
  BY DEF EntryOf, C, rank
<1> HIDE DEF best
<1>6. ShareOf("text", id, recalls, weights) + ShareOf("image", id, recalls, weights) \in Nat
  BY <1>1, ShareIsNat
<1>7. x \in Merged
  BY <1>1, <1>2, <1>4, <1>5, <1>6 DEF Merged
<1> QED
  BY <1>4, <1>5, <1>7 DEF C, rank

\* The list of merge_ranked_candidates is in its order.
LEMMA Merging ==
  ASSUME NEW recalls, \A s \in Sources : IsRecall(recalls[s]),
         NEW weights \in [Sources -> Nat], NEW limit \in Nat,
         NEW list, list = MergeRanked(recalls, weights, limit)
  PROVE  IsMerged(list, recalls, weights)
<1> DEFINE all == UNION {Ids(recalls[s]) : s \in {t \in Sources : weights[t] > 0}}
           entries == {EntryOf(id, recalls, weights) : id \in all}
<1>1. list = AtMost(BestFirst(entries), limit)
  BY DEF MergeRanked, InOrder, BestFirst, Before, EntryOf, ShareOf, Counting
<1>2. Sources = {"text", "image"}
  BY DEF Sources
<1>3. ASSUME NEW id \in all
      PROVE  id \in ItemIds /\ id = Id(id.article, "stored") /\ Counting(id, recalls, weights) # {}
  <2>1. PICK s \in Sources : weights[s] > 0 /\ id \in Ids(recalls[s])
    OBVIOUS
  <2>2. RankOf(recalls[s], id) \in DOMAIN recalls[s] /\ recalls[s][RankOf(recalls[s], id)].id = id
    BY <2>1, RankIs
  <2>3. recalls[s] \in Seq(Candidate)
    BY DEF IsRecall
  <2>4. recalls[s][RankOf(recalls[s], id)] \in Candidate
    BY <2>2, <2>3
  <2> QED
    BY <2>1, <2>2, <2>4, Spellings DEF Counting
<1>4. ASSUME NEW s \in Sources PROVE IsFiniteSet(Ids(recalls[s]))
  <2> DEFINE f == [i \in DOMAIN recalls[s] |-> recalls[s][i].id]
  <2>1. DOMAIN f = DOMAIN recalls[s] /\ f = [i \in DOMAIN f |-> f[i]]
    OBVIOUS
  <2>2. Ids(recalls[s]) = {f[i] : i \in DOMAIN recalls[s]}
    BY DEF Ids, Elements
  <2> HIDE DEF f
  <2> QED
    BY <2>1, <2>2, RecallIsFinite
<1>5. IsFiniteSet(all)
  <2>1. IsFiniteSet(Ids(recalls["text"]) \cup Ids(recalls["image"]))
    BY <1>2, <1>4, FS_Union
  <2>2. all \in SUBSET (Ids(recalls["text"]) \cup Ids(recalls["image"]))
    BY <1>2
  <2> QED
    BY <2>1, <2>2, FS_Subset
<1> HIDE DEF all
<1>6. ASSUME NEW id \in all
      PROVE  /\ EntryOf(id, recalls, weights) \in Merged
             /\ EntryOf(id, recalls, weights).id = id
  BY <1>3, EntryIsMerged
<1>7. IsFiniteSet(entries)
  <2> DEFINE f == [id \in all |-> EntryOf(id, recalls, weights)]
  <2>1. f \in Surjection(all, entries)
    BY DEF Surjection
  <2> QED
    BY <1>5, <2>1, FS_Surjection
<1>8. /\ \A x \in entries : /\ x \in Merged /\ x.id \in all
                            /\ x = EntryOf(x.id, recalls, weights)
                            /\ x.id = Id(x.id.article, "stored")
      /\ \A x, y \in entries : x.id = y.id => x = y
  BY <1>3, <1>6
<1> HIDE DEF entries
<1>9. \A x \in entries : x.score \in Int /\ x.best \in Int /\ x.id.article \in Int
  <2>1. \A id \in ItemIds : id.article \in Int
    BY Spellings, RecallAssumption
  <2> QED
    BY <1>8, <2>1 DEF Merged
<1>10. \A x, y \in entries : x.id.article = y.id.article => x = y
  BY <1>8
<1>11. /\ BestFirst(entries) \in Seq(entries)
       /\ \A m, n \in DOMAIN BestFirst(entries) : m < n => Before(BestFirst(entries)[m], BestFirst(entries)[n])
       /\ \A m, n \in DOMAIN BestFirst(entries) : BestFirst(entries)[m] = BestFirst(entries)[n] => m = n
  BY <1>7, <1>9, <1>10, Ordering
<1>12. /\ list \in Seq(entries) /\ DOMAIN list \subseteq DOMAIN BestFirst(entries)
       /\ \A i \in DOMAIN list : list[i] = BestFirst(entries)[i]
  <2>1. BestFirst(entries) \in Seq(entries) /\ limit \in Nat
    BY <1>11
  <2>2. /\ AtMost(BestFirst(entries), limit) \in Seq(entries)
        /\ DOMAIN AtMost(BestFirst(entries), limit) \subseteq DOMAIN BestFirst(entries)
        /\ \A i \in DOMAIN AtMost(BestFirst(entries), limit) :
              AtMost(BestFirst(entries), limit)[i] = BestFirst(entries)[i]
    BY <2>1, Cut
  <2> QED
    BY <1>1, <2>2
<1>13. \A i \in DOMAIN list : list[i] \in entries
  BY <1>12
<1>14. list \in Seq(Merged)
  <2>1. Len(list) \in Nat /\ list \in [1 .. Len(list) -> entries]
    BY <1>12
  <2>2. list \in [1 .. Len(list) -> Merged]
    BY <1>8, <2>1
  <2> QED
    BY <2>1, <2>2
<1>15. Distinct(list)
  BY <1>10, <1>11, <1>12, <1>13 DEF Distinct
<1>16. \A i, j \in DOMAIN list : i < j => Before(list[i], list[j])
  BY <1>11, <1>12
<1> QED
  BY <1>3, <1>8, <1>13, <1>14, <1>15, <1>16 DEF IsMerged

-----------------------------------------------------------------------------
(* What a request has, at each stage.                                      *)

\* The stages before a list is under work.
Early == {"idle", "routing", "embedding", "retrieving", "recalling", "enriching"}

\* The stages that a kind of request goes through.
Staged(a, st) ==
    /\ st \in {"routing", "popular", "emptied", "embedding", "retrieving", "generating"} => a.kind = "text"
    /\ st = "recalling" => a.kind # "text"
    /\ st = "describing" => a.kind = "image"

MergeWeights(a) == Weights(Given(a.weights.text, 5), Given(a.weights.image, 5))

\* What was found are recalls, and the merged list is a merge of them.
Recalled(a, st, f, m) ==
    /\ \A s \in Sources : IsRecall(f[s]) /\ (a.kind = "multimodal" => Len(f[s]) <= RecallK)
    /\ \/ m = <<>>
       \/ /\ a.kind # "text" /\ st \notin {"idle", "recalling"}
          /\ IF a.kind = "multimodal" THEN IsMerged(m, f, MergeWeights(a)) ELSE IsFused(m, f)

\* A list that may answer a search with plan p for what was found.
Good(a, p, f, list) ==
    /\ list \in Seq(Item) /\ Distinct(list)
    /\ a.kind = "text" => \A i \in DOMAIN list : Passes(Meta[list[i].id.article], p.filters)
    /\ a.kind \in {"text", "hybrid"} => Ordered(list)
    /\ a.kind = "hybrid" => \A i \in DOMAIN list : /\ list[i].id = Canonical(list[i].id)
                                                   /\ list[i].sources = FoundBy(list[i].id, f)

\* The list under work.
Listed(a, st, p, f, list, from) ==
    /\ list \in Seq(Item) /\ Distinct(list)
    /\ st \in Early => from = "none" /\ list = <<>>
    /\ IF from = "popularity" THEN a.kind = "text" ELSE Good(a, p, f, list)
    /\ st \in {"reranking", "snapshot"} => Good(a, p, f, list)

\* A recall that is recorded as failed found nothing, and has ended.
Excused(a, st, f, why, quiet) ==
    a.kind = "hybrid" => \A s \in Sources : ReasonOf(s) \in why =>
        f[s] = <<>> /\ st # "idle" /\ (st = "recalling" => s \in quiet)

\* The legs of r that are not under way.
Quiet(r) == {s \in Sources : at[Leg(r, s)] = "none"}

RequestInv(r) ==
    /\ Staged(ask[r], stage[r])
    /\ Recalled(ask[r], stage[r], found[r], merged[r])
    /\ Listed(ask[r], stage[r], plan[r], found[r], results[r], origin[r])
    /\ Excused(ask[r], stage[r], found[r], reasons[r], Quiet(r))

-----------------------------------------------------------------------------
(* Lists that answer.                                                      *)

\* A list whose items are those of another, each once.
LEMMA ReorderedIsGood ==
  ASSUME NEW a, NEW p, NEW f, NEW list, Good(a, p, f, list), NEW other \in Seq(Item),
         NEW from, Reorders(from, list, other),
         Ordered(other)
  PROVE  Good(a, p, f, other)
<1>1. Distinct(other)
  <2>1. ASSUME NEW i \in DOMAIN other, NEW j \in DOMAIN other, i # j
        PROVE  other[i].id.article # other[j].id.article
    <3>1. from[i] \in DOMAIN list /\ from[j] \in DOMAIN list /\ from[i] # from[j]
      BY <2>1 DEF Reorders
    <3>2. list[from[i]].id.article # list[from[j]].id.article
      BY <3>1 DEF Good, Distinct
    <3> QED
      BY <3>2 DEF Reorders
  <2> QED
    BY <2>1 DEF Distinct
<1>2. a.kind = "text" => \A i \in DOMAIN other : Passes(Meta[other[i].id.article], p.filters)
  BY DEF Good, Reorders
<1>3. a.kind = "hybrid" => \A i \in DOMAIN other : /\ other[i].id = Canonical(other[i].id)
                                                   /\ other[i].sources = FoundBy(other[i].id, f)
  BY DEF Good, Reorders
<1> QED
  BY <1>1, <1>2, <1>3 DEF Good

\* The first items of a list, padded or not.
LEMMA FirstAreDistinct ==
  ASSUME NEW list \in Seq(Item), Distinct(list)
  PROVE  /\ AtMost(list, K) \in Seq(Item) /\ Distinct(AtMost(list, K))
         /\ Contract(list) \in Seq(Item) /\ Distinct(Contract(list))
<1>1. /\ AtMost(list, K) \in Seq(Item) /\ DOMAIN AtMost(list, K) \subseteq DOMAIN list
      /\ \A i \in DOMAIN AtMost(list, K) : AtMost(list, K)[i] = list[i]
  BY Numbers, Cut
<1>2. /\ Contract(list) \in Seq(Item) /\ DOMAIN Contract(list) \subseteq DOMAIN list
      /\ \A i \in DOMAIN Contract(list) : Contract(list)[i].id = Canonical(list[i].id)
  BY Contracting
<1>3. \A i \in DOMAIN list : Canonical(list[i].id).article = list[i].id.article
  <2>1. \A i \in DOMAIN list : list[i] \in Item
    OBVIOUS
  <2>2. \A i \in DOMAIN list : list[i].id \in ItemIds
    BY <2>1 DEF Item
  <2> QED
    BY <2>2, Spellings
<1> QED
  BY <1>1, <1>2, <1>3 DEF Distinct

\* What is good stays good when it is cut, padded or not.
LEMMA FirstAreGood ==
  ASSUME NEW a, NEW p, NEW f, NEW list, Good(a, p, f, list)
  PROVE  Good(a, p, f, AtMost(list, K)) /\ Good(a, p, f, Contract(list))
<1>0. list \in Seq(Item) /\ Distinct(list)
  BY DEF Good
<1>1. /\ DOMAIN AtMost(list, K) \subseteq DOMAIN list
      /\ \A i \in DOMAIN AtMost(list, K) : AtMost(list, K)[i] = list[i]
  BY <1>0, Numbers, Cut
<1>2. /\ DOMAIN Contract(list) \subseteq DOMAIN list
      /\ \A i \in DOMAIN Contract(list) :
               /\ Contract(list)[i].id = Canonical(list[i].id) /\ Contract(list)[i].score = list[i].score
               /\ Contract(list)[i].factor = list[i].factor
               /\ Contract(list)[i].sources = list[i].sources
  BY <1>0, Contracting
<1>3. \A i \in DOMAIN list : Canonical(list[i].id).article = list[i].id.article
  <2>1. \A i \in DOMAIN list : list[i] \in Item
    BY <1>0
  <2>2. \A i \in DOMAIN list : list[i].id \in ItemIds
    BY <2>1 DEF Item
  <2> QED
    BY <2>2, Spellings
<1>4. Good(a, p, f, AtMost(list, K))
  <2>1. AtMost(list, K) \in Seq(Item) /\ Distinct(AtMost(list, K))
    BY <1>0, FirstAreDistinct
  <2>2. a.kind = "text" =>
           \A i \in DOMAIN AtMost(list, K) : Passes(Meta[AtMost(list, K)[i].id.article], p.filters)
    BY <1>1 DEF Good
  <2>3. a.kind \in {"text", "hybrid"} => Ordered(AtMost(list, K))
    BY <1>1 DEF Good, Ordered
  <2>4. a.kind = "hybrid" =>
           \A i \in DOMAIN AtMost(list, K) : /\ AtMost(list, K)[i].id = Canonical(AtMost(list, K)[i].id)
                                             /\ AtMost(list, K)[i].sources = FoundBy(AtMost(list, K)[i].id, f)
    BY <1>1 DEF Good
  <2> QED
    BY <2>1, <2>2, <2>3, <2>4 DEF Good
<1>5. Good(a, p, f, Contract(list))
  <2>1. Contract(list) \in Seq(Item) /\ Distinct(Contract(list))
    BY <1>0, FirstAreDistinct
  <2>2. a.kind = "text" =>
           \A i \in DOMAIN Contract(list) : Passes(Meta[Contract(list)[i].id.article], p.filters)
    BY <1>2, <1>3 DEF Good
  <2>3. a.kind \in {"text", "hybrid"} => Ordered(Contract(list))
    BY <1>2 DEF Good, Ordered
  <2>4. a.kind = "hybrid" =>
           \A i \in DOMAIN Contract(list) : /\ Contract(list)[i].id = Canonical(Contract(list)[i].id)
                                            /\ Contract(list)[i].sources = FoundBy(Contract(list)[i].id, f)
    BY <1>2 DEF Good
  <2> QED
    BY <2>1, <2>2, <2>3, <2>4 DEF Good
<1> QED
  BY <1>4, <1>5

\* A rerank keeps a list good.
LEMMA RerankedIsGood ==
  ASSUME NEW a, NEW p, NEW f, NEW list, Good(a, p, f, list),
         NEW scores \in [DOMAIN list -> Scores]
  PROVE  Good(a, p, f, Reranked(list, scores))
<1>0. list \in Seq(Item)
  BY DEF Good
<1> DEFINE sorted == Reranked(list, scores)
<1>1. sorted \in Seq(Item) /\ Ordered(sorted) /\ \E from : Reorders(from, list, sorted)
  BY <1>0, Reranking
<1> HIDE DEF sorted
<1>2. Good(a, p, f, sorted)
  BY <1>1, ReorderedIsGood
<1> QED
  BY <1>2 DEF sorted

\* A boost keeps a list good.
LEMMA BoostedIsGood ==
  ASSUME NEW a, NEW p, NEW f, NEW list, Good(a, p, f, list), NEW snapshot
  PROVE  Good(a, p, f, ApplyBoost(list, snapshot))
<1>0. list \in Seq(Item)
  BY DEF Good
<1> DEFINE sorted == ApplyBoost(list, snapshot)
<1>1. sorted \in Seq(Item) /\ Ordered(sorted) /\ \E from : Reorders(from, list, sorted)
  BY <1>0, Boosting
<1> HIDE DEF sorted
<1>2. Good(a, p, f, sorted)
  BY <1>1, ReorderedIsGood
<1> QED
  BY <1>2 DEF sorted

\* The enriched list of a text search.
LEMMA EnrichedTextIsGood ==
  ASSUME NEW a, a.kind = "text", NEW p, NEW f, IsRecall(f["text"]), NEW unread, NEW n \in Nat,
         NEW list, list = EnrichAndFilter(f["text"], Meta, unread, p.filters, n)
  PROVE  Good(a, p, f, list)
<1> DEFINE c == f["text"]
<1>1. c \in Seq(Candidate) /\ Distinct(c) /\ Ordered(c)
  BY DEF IsRecall
<1>2. \A i \in DOMAIN c : c[i].id \in ItemIds /\ c[i].score \in Int
  BY <1>1, Spellings
<1>b. list = EnrichAndFilter(c, Meta, unread, p.filters, n)
  OBVIOUS
<1> HIDE DEF c
<1>a. PICK from : IsEnriched(from, c, p.filters, list)
  BY <1>1, <1>2, <1>b, Enriching
<1>3. /\ from \in [DOMAIN list -> DOMAIN c] /\ list \in Seq(Item)
      /\ \A i \in DOMAIN list :
            /\ list[i].id = Canonical(c[from[i]].id) /\ list[i].score = c[from[i]].score
            /\ list[i].factor = NoBoost
            /\ Passes(Meta[list[i].id.article], p.filters)
      /\ \A i, j \in DOMAIN list : i < j => from[i] < from[j]
  BY <1>a DEF IsEnriched
<1>4. (\A i \in DOMAIN list : i \in Nat) /\ (\A i \in DOMAIN c : i \in Nat)
  BY <1>1, <1>3
<1>5. \A i \in DOMAIN list : list[i].id.article = c[from[i]].id.article
  BY <1>2, <1>3, Spellings
<1>6. Distinct(list)
  <2>1. \A i, j \in DOMAIN list : i # j => from[i] # from[j]
    BY <1>3, <1>4
  <2> QED
    BY <1>1, <1>3, <1>5, <2>1 DEF Distinct
<1>7. Ordered(list)
  BY <1>1, <1>3 DEF Ordered
<1> QED
  BY <1>3, <1>6, <1>7 DEF Good

\* The enriched list of a merge.
LEMMA EnrichedMergeIsGood ==
  ASSUME NEW a, a.kind # "text", NEW p, NEW f, NEW m,
         m = <<>> \/ IF a.kind = "multimodal" THEN IsMerged(m, f, MergeWeights(a)) ELSE IsFused(m, f),
         NEW unread, NEW n \in Nat,
         NEW list, list = Annotated(EnrichAndFilter(m, Meta, unread, Unfiltered, n), m)
  PROVE  Good(a, p, f, list)
<1>1. /\ \E T : m \in Seq(T)
      /\ \A i \in DOMAIN m : m[i].id \in ItemIds /\ m[i].score \in Nat /\ m[i].sources \subseteq Sources
      /\ Distinct(m)
      /\ a.kind = "hybrid" => /\ Ordered(m)
                              /\ \A i \in DOMAIN m : /\ m[i].id = Canonical(m[i].id)
                                                     /\ m[i].sources = FoundBy(m[i].id, f)
  <2>1. CASE m = <<>>
    <3>1. m \in Seq({}) /\ DOMAIN m = {}
      BY <2>1
    <3> QED
      BY <3>1 DEF Distinct, Ordered
  <2>2. CASE a.kind = "multimodal" /\ IsMerged(m, f, MergeWeights(a))
    <3>1. m \in Seq(Merged) /\ Distinct(m)
      BY <2>2 DEF IsMerged
    <3>2. \A i \in DOMAIN m : m[i] \in Merged
      BY <3>1
    <3> QED
      BY <2>2, <3>1, <3>2 DEF Merged
  <2>3. CASE IsFused(m, f)
    <3>1. m \in Seq(Fused) /\ Distinct(m) /\ Ordered(m)
          /\ \A i \in DOMAIN m : m[i].id = Canonical(m[i].id) /\ m[i].sources = FoundBy(m[i].id, f)
      BY <2>3 DEF IsFused
    <3>2. \A i \in DOMAIN m : m[i] \in Fused
      BY <3>1
    <3> QED
      BY <3>1, <3>2 DEF Fused
  <2> QED
    BY <2>1, <2>2, <2>3
<1>2. PICK T : m \in Seq(T)
  BY <1>1
<1> DEFINE clean == EnrichAndFilter(m, Meta, unread, Unfiltered, n)
<1>a. PICK from : IsEnriched(from, m, Unfiltered, clean)
  BY <1>1, <1>2, Enriching
<1> HIDE DEF clean
<1>3. /\ from \in [DOMAIN clean -> DOMAIN m] /\ clean \in Seq(Item)
      /\ \A i \in DOMAIN clean :
            /\ clean[i].id = Canonical(m[from[i]].id) /\ clean[i].score = m[from[i]].score
            /\ clean[i].factor = NoBoost
      /\ \A i, j \in DOMAIN clean : i < j => from[i] < from[j]
  BY <1>a DEF IsEnriched
<1>4. /\ list \in Seq(Item) /\ DOMAIN list = DOMAIN clean
      /\ \A i \in DOMAIN clean :
            /\ list[i].id = clean[i].id /\ list[i].score = clean[i].score /\ list[i].factor = clean[i].factor
            /\ list[i].sources = UNION {x.sources : x \in {y \in Elements(m) : y.id = clean[i].id}}
  BY <1>1, <1>3, Annotating DEF clean
<1>5. (\A i \in DOMAIN list : i \in Nat) /\ (\A i \in DOMAIN m : i \in Nat)
  BY <1>2, <1>4
<1>6. \A i \in DOMAIN list : /\ list[i].id.article = m[from[i]].id.article
                             /\ Canonical(list[i].id) = list[i].id
  <2>1. \A id \in ItemIds : Canonical(id).article = id.article /\ Canonical(Canonical(id)) = Canonical(id)
    BY Spellings DEF Canonical
  <2> QED
    BY <1>1, <1>3, <1>4, <2>1
<1>7. Distinct(list)
  <2>1. ASSUME NEW i \in DOMAIN list, NEW j \in DOMAIN list, i # j PROVE from[i] # from[j]
    <3>1. i \in Nat /\ j \in Nat /\ from[i] \in Nat /\ from[j] \in Nat
      BY <1>3, <1>4, <1>5
    <3>2. i < j \/ j < i
      BY <3>1, <2>1
    <3> QED
      BY <1>3, <1>4, <3>1, <3>2
  <2> QED
    BY <1>1, <1>3, <1>4, <1>6, <2>1 DEF Distinct
<1>9. ASSUME a.kind = "hybrid"
      PROVE  Ordered(list) /\ \A i \in DOMAIN list : list[i].sources = FoundBy(list[i].id, f)
  <2>1. Ordered(list)
    BY <1>1, <1>3, <1>4, <1>9 DEF Ordered
  <2>2. ASSUME NEW i \in DOMAIN list PROVE list[i].sources = FoundBy(list[i].id, f)
    <3>1. m[from[i]].id = list[i].id /\ m[from[i]].sources = FoundBy(list[i].id, f) /\ from[i] \in DOMAIN m
      BY <1>1, <1>3, <1>4, <1>9
    <3>2. {y \in Elements(m) : y.id = clean[i].id} = {m[from[i]]}
      <4>1. \A j \in DOMAIN m : m[j].id = list[i].id => j = from[i]
        BY <1>1, <3>1 DEF Distinct
      <4> QED
        BY <1>4, <3>1, <4>1 DEF Elements
    <3>3. list[i].sources = UNION {x.sources : x \in {m[from[i]]}}
      BY <1>4, <3>2
    <3> QED
      BY <3>1, <3>3
  <2> QED
    BY <2>1, <2>2
<1> QED
  BY <1>4, <1>6, <1>7, <1>9 DEF Good

-----------------------------------------------------------------------------
(* A step of one request leaves the others alone.                          *)

\* A turn of r touches the calls of r alone.
LEMMA TurnOfOne ==
  ASSUME PoolTypeOK, NEW r \in Requests, NEW S \in SUBSET Legs(r), NEW places,
         NEW to, DOMAIN to \subseteq Legs(r), Turn(S, places, to)
  PROVE  /\ \A q \in Requests : q # r => Quiet(q)' = Quiet(q)
         /\ \A s \in Sources : s \in Quiet(r)' <=> /\ Leg(r, s) \notin DOMAIN to
                                                   /\ Leg(r, s) \in S \/ s \in Quiet(r)
<1>1. at' = [c \in Calls |-> IF c \in DOMAIN to
                             THEN IF model[to[c]] = "missing" THEN "failed" ELSE "waiting"
                             ELSE IF c \in S THEN "none" ELSE at[c]]
  BY DEF Turn
<1>2. \A q \in Requests, s \in Sources : Leg(q, s) \in Calls
  BY LegIsCall
<1>3. \A q \in Requests, s \in Sources : q # r => Leg(q, s) \notin Legs(r)
  BY DEF Leg, Legs
<1>4. \A c \in Calls : at'[c] = "none" <=> c \notin DOMAIN to /\ (c \in S \/ at[c] = "none")
  BY <1>1
<1> QED
  BY <1>2, <1>3, <1>4 DEF Quiet

\* Serving r makes such a turn, or none.
TurnOf(r) == \E S \in SUBSET Legs(r) : \E places, to : DOMAIN to \subseteq Legs(r) /\ Turn(S, places, to)

\* The turns the handlers make.
LEMMA TurnsAre ==
  ASSUME NEW r \in Requests, NEW s \in Sources, NEW S \in {{}, {Leg(r, s)}, Legs(r)}, NEW places,
         NEW to, to = NoCall \/ \E d : to = OneCall(Leg(r, s), d), Turn(S, places, to)
  PROVE  TurnOf(r)
<1>1. S \in SUBSET Legs(r)
  BY DEF Legs
<1>2. DOMAIN to \subseteq Legs(r)
  BY DEF Legs, NoCall, OneCall
<1> QED
  BY <1>1, <1>2 DEF TurnOf

LEMMA ServeTurns ==
  ASSUME NEW r \in Requests, Serve(r) PROVE TurnOf(r) \/ UNCHANGED poolVars
<1> DEFINE text == Leg(r, "text")
           image == Leg(r, "image")
<1>1. "text" \in Sources /\ "image" \in Sources
  BY DEF Sources
<1>2. \A list : Explaining(r, list) \in {NoCall, OneCall(text, "generation")}
  BY DEF Explaining
<1> HIDE DEF text, image
<1>3. ASSUME NEW S \in {{}, {text}}, NEW places, NEW to,
             to = NoCall \/ \E d : to = OneCall(text, d), Turn(S, places, to)
      PROVE  TurnOf(r)
  BY <1>1, <1>3, TurnsAre DEF text
<1>4. CASE Route(r)
  <2>1. PICK d : Turn({text}, "kept", OneCall(text, d))
    BY <1>4, Zenon DEF Route, text
  <2> QED
    BY <1>3, <2>1
<1>5. CASE Embed(r)
  <2>1. PICK places, d : Turn({text}, places, OneCall(text, d))
    BY <1>5, Zenon DEF Embed, text
  <2> QED
    BY <1>3, <2>1
<1>6. CASE Retrieve(r) \/ RerankMerged(r) \/ Explain(r) \/ Popular(r)
  <2>1. PICK places, to : (to = NoCall \/ to = OneCall(text, "popularity")) /\ Turn({text}, places, to)
    <3>1. CASE Retrieve(r)
      <4>1. PICK o, places : Turn({text}, places, IF o = "answered" THEN NoCall ELSE OneCall(text, "popularity"))
        BY <3>1, Zenon DEF Retrieve, text
      <4> QED
        BY <4>1, Zenon
    <3>2. CASE RerankMerged(r) \/ Explain(r) \/ Popular(r)
      BY <3>2, Zenon DEF RerankMerged, Explain, Popular, text
    <3> QED
      BY <1>6, <3>1, <3>2
  <2> QED
    BY <1>3, <2>1
<1>7. CASE EnrichRaises(r) \/ BoostFused(r) \/ Describe(r)
  <2>1. Turn({}, "kept", OneCall(text, "popularity")) \/ UNCHANGED poolVars
    BY <1>7, Zenon DEF EnrichRaises, BoostFused, Describe, text
  <2> QED
    BY <1>3, <2>1
<1>8. CASE Emptied(r) \/ BoostText(r)
  <2>1. PICK S \in {{}, {text}} : \E list : Turn(S, "kept", Explaining(r, list))
    <3>1. CASE Emptied(r)
      <4>1. PICK list : Turn({text}, "kept", Explaining(r, list))
        BY <3>1, Zenon DEF Emptied, text
      <4> QED
        BY <4>1
    <3>2. CASE BoostText(r)
      BY <3>2, Zenon DEF BoostText
    <3> QED
      BY <1>8, <3>1, <3>2
  <2> QED
    BY <1>2, <1>3, <2>1
<1>9. CASE Enrich(r)
  <2>1. PICK list, to : /\ Turn({}, "kept", to)
                        /\ to \in {NoCall, OneCall(text, "reranker"), OneCall(text, "popularity"), Explaining(r, list)}
    BY <1>9, Zenon DEF Enrich, text
  <2> QED
    BY <1>2, <1>3, <2>1
<1>10. CASE RerankText(r)
  <2>1. PICK places, list, to : Turn({text}, places, to) /\ to \in {NoCall, Explaining(r, list)}
    BY <1>10, Zenon DEF RerankText, text
  <2> QED
    BY <1>2, <1>3, <2>1
<1>11. CASE RecallSearch(r)
  <2>1. Turn({text}, "kept", OneCall(text, "retrieval"))
    BY <1>11 DEF RecallSearch, text
  <2> QED
    BY <1>3, <2>1
<1>12. ASSUME NEW s \in Sources, LegEnds(r, s) PROVE TurnOf(r)
  <2>1. PICK places : Turn({Leg(r, s)}, places, NoCall)
    BY <1>12 DEF LegEnds
  <2> QED
    BY <2>1, TurnsAre
<1>13. CASE ImageRecall(r)
  <2>1. Turn({Leg(r, "image")}, "kept", NoCall)
    BY <1>13 DEF ImageRecall
  <2> QED
    BY <1>1, <2>1, TurnsAre
<1> QED
  BY <1>4, <1>5, <1>6, <1>7, <1>8, <1>9, <1>10, <1>11, <1>12, <1>13 DEF Serve

LEMMA SubmitTurns ==
  ASSUME NEW r \in Requests, Submit(r) \/ ClientLeaves(r) PROVE TurnOf(r) \/ UNCHANGED poolVars
<1>1. CASE Turn({}, "kept", OneCall(Leg(r, "image"), "vision"))
  BY <1>1, TurnsAre DEF Sources
<1>2. CASE Turn({}, "kept", [c \in Legs(r) |-> IF c = Leg(r, "image") THEN "vision" ELSE "embedding"])
  <2> DEFINE to == [c \in Legs(r) |-> IF c = Leg(r, "image") THEN "vision" ELSE "embedding"]
  <2>1. DOMAIN to \subseteq Legs(r) /\ {} \in SUBSET Legs(r)
    OBVIOUS
  <2> HIDE DEF to
  <2>2. Turn({}, "kept", to)
    BY <1>2 DEF to
  <2> QED
    BY <2>1, <2>2 DEF TurnOf
<1>3. CASE ClientLeaves(r)
  <2>1. Turn(Legs(r), "freed", NoCall)
    BY <1>3 DEF ClientLeaves
  <2> QED
    BY <2>1, TurnsAre DEF Sources
<1>4. CASE Turn({}, "kept", OneCall(Leg(r, "text"), "router"))
  BY <1>4, TurnsAre DEF Sources
<1>5. CASE Submit(r)
  BY <1>1, <1>2, <1>4, <1>5, Zenon DEF Submit
<1> QED
  BY <1>3, <1>5
-----------------------------------------------------------------------------
(* The inductive invariant of the answers.                                 *)

\* At every stage: what was found are recalls, what was merged is a merge of
\* them, what is listed may answer, and a recorded failure found nothing.
AnswerInv ==
    /\ PoolTypeOK /\ OriginInv
    /\ ask \in [Requests -> Asks]
    /\ found = [r \in Requests |-> [s \in Sources |-> found[r][s]]]
    /\ merged = [r \in Requests |-> merged[r]]
    /\ results = [r \in Requests |-> results[r]]
    /\ \A r \in Requests : RequestInv(r)

\* A step of request r, to stage s with plan p, recalls f, merged list m, list
\* under work, its origin and reasons.
LEMMA Advancing ==
  ASSUME AnswerInv, PoolTypeOK', OriginInv', NEW r \in Requests, TurnOf(r) \/ UNCHANGED poolVars,
         ask' = ask,
         NEW s, stage' = [stage EXCEPT ![r] = s],
         NEW p, plan' = [plan EXCEPT ![r] = p],
         NEW f, found' = [found EXCEPT ![r] = f], f = [t \in Sources |-> f[t]],
         NEW m, merged' = [merged EXCEPT ![r] = m],
         NEW list, results' = [results EXCEPT ![r] = list],
         NEW from, origin' = [origin EXCEPT ![r] = from],
         NEW why, reasons' = [reasons EXCEPT ![r] = why],
         Staged(ask[r], s), Recalled(ask[r], s, f, m), Listed(ask[r], s, p, f, list, from),
         \A quiet : quiet = Quiet(r)' => Excused(ask[r], s, f, why, quiet)
  PROVE  AnswerInv'
<1>1. /\ \A q \in Requests : q # r => Quiet(q)' = Quiet(q)
      /\ Quiet(r)' = Quiet(r)'
  <2>1. CASE TurnOf(r)
    BY <2>1, TurnOfOne DEF TurnOf, AnswerInv
  <2>2. CASE UNCHANGED poolVars
    BY <2>2 DEF poolVars, Quiet
  <2> QED
    BY <2>1, <2>2
<1>2. /\ stage' = [q \in Requests |-> stage'[q]] /\ stage'[r] = s
      /\ \A q \in Requests : q # r => stage'[q] = stage[q]
  BY DEF AnswerInv, OriginInv
<1>3. plan'[r] = p /\ \A q \in Requests : q # r => plan'[q] = plan[q]
  BY DEF AnswerInv, OriginInv
<1>4. /\ found' = [q \in Requests |-> found'[q]] /\ found'[r] = f
      /\ \A q \in Requests : q # r => found'[q] = found[q]
  BY DEF AnswerInv
<1>5. /\ merged' = [q \in Requests |-> merged'[q]] /\ merged'[r] = m
      /\ \A q \in Requests : q # r => merged'[q] = merged[q]
  BY DEF AnswerInv
<1>6. /\ results' = [q \in Requests |-> results'[q]] /\ results'[r] = list
      /\ \A q \in Requests : q # r => results'[q] = results[q]
  BY DEF AnswerInv
<1>7. origin'[r] = from /\ \A q \in Requests : q # r => origin'[q] = origin[q]
  BY DEF AnswerInv, OriginInv
<1>8. reasons'[r] = why /\ \A q \in Requests : q # r => reasons'[q] = reasons[q]
  BY DEF AnswerInv, OriginInv
<1>9. found' = [q \in Requests |-> [t \in Sources |-> found'[q][t]]]
  <2>1. \A q \in Requests : found[q] = [t \in Sources |-> found[q][t]]
    BY DEF AnswerInv
  <2>2. \A q \in Requests : found'[q] = [t \in Sources |-> found'[q][t]]
    BY <1>4, <2>1
  <2> QED
    BY <1>4, <2>2
<1>10. ASSUME NEW q \in Requests PROVE RequestInv(q)'
  <2>1. CASE q = r
    <3>1. Excused(ask[r], s, f, why, Quiet(r)')
      OBVIOUS
    <3> QED
      BY <1>2, <1>3, <1>4, <1>5, <1>6, <1>7, <1>8, <2>1, <3>1 DEF RequestInv
  <2>2. CASE q # r
    <3>1. RequestInv(q)
      BY DEF AnswerInv
    <3>2. Quiet(q)' = Quiet(q)
      BY <1>1, <2>2
    <3> QED
      BY <1>2, <1>3, <1>4, <1>5, <1>6, <1>7, <1>8, <2>2, <3>1, <3>2 DEF RequestInv
  <2> QED
    BY <2>1, <2>2
<1> QED
  BY <1>5, <1>6, <1>9, <1>10 DEF AnswerInv

\* What the invariant says of one request.
LEMMA WhatIs ==
  ASSUME AnswerInv, NEW r \in Requests
  PROVE  /\ RequestInv(r)
         /\ stage = [stage EXCEPT ![r] = stage[r]] /\ plan = [plan EXCEPT ![r] = plan[r]]
         /\ found = [found EXCEPT ![r] = found[r]] /\ merged = [merged EXCEPT ![r] = merged[r]]
         /\ results = [results EXCEPT ![r] = results[r]] /\ origin = [origin EXCEPT ![r] = origin[r]]
         /\ reasons = [reasons EXCEPT ![r] = reasons[r] \cup {}]
         /\ found[r] = [t \in Sources |-> found[r][t]]
         /\ ask[r] \in Asks
BY DEF AnswerInv, OriginInv

\* A step that works on no list.
LEMMA Moving ==
  ASSUME AnswerInv, PoolTypeOK', OriginInv', NEW r \in Requests, TurnOf(r) \/ UNCHANGED poolVars,
         UNCHANGED <<ask, plan, found, merged, results, origin>>,
         NEW s, GoTo(r, s), s \notin {"idle", "reranking", "snapshot"}, Staged(ask[r], s),
         s = "recalling" => stage[r] = "idle", s \in Early => stage[r] \in Early,
         NEW why, Record(r, why) \/ (UNCHANGED reasons /\ why = {}),
         \A t \in Sources : ReasonOf(t) \notin why
  PROVE  AnswerInv'
<1>1. RequestInv(r)
  BY WhatIs
<1>2. stage' = [stage EXCEPT ![r] = s]
  BY DEF GoTo
<1>3. reasons' = [reasons EXCEPT ![r] = reasons[r] \cup why]
  BY WhatIs DEF Record
<1>4. Recalled(ask[r], s, found[r], merged[r])
  BY <1>1 DEF RequestInv, Recalled
<1>5. Listed(ask[r], s, plan[r], found[r], results[r], origin[r])
  BY <1>1 DEF RequestInv, Listed
<1>6. ASSUME NEW quiet PROVE Excused(ask[r], s, found[r], reasons[r] \cup why, quiet)
  BY <1>1 DEF RequestInv, Excused
<1> QED
  BY <1>2, <1>3, <1>4, <1>5, <1>6, WhatIs, Advancing

\* A step that leaves a list for the next stage.
LEMMA Continuing ==
  ASSUME AnswerInv, PoolTypeOK', OriginInv', NEW r \in Requests, TurnOf(r) \/ UNCHANGED poolVars,
         UNCHANGED <<ask, plan, found, merged>>,
         NEW s \in {"emptied", "reranking", "snapshot"}, NEW list, Continue(r, s, list),
         s = "emptied" => ask[r].kind = "text",
         Good(ask[r], plan[r], found[r], list), stage[r] \notin {"idle", "recalling"},
         NEW why, Record(r, why) \/ (UNCHANGED reasons /\ why = {}),
         \A t \in Sources : ReasonOf(t) \notin why
  PROVE  AnswerInv'
<1>1. RequestInv(r)
  BY WhatIs
<1>2. /\ stage' = [stage EXCEPT ![r] = s] /\ results' = [results EXCEPT ![r] = list]
      /\ origin' = [origin EXCEPT ![r] = origin[r]]
  BY WhatIs DEF GoTo, Continue
<1>3. reasons' = [reasons EXCEPT ![r] = reasons[r] \cup why]
  BY WhatIs DEF Record
<1>4. Recalled(ask[r], s, found[r], merged[r]) /\ Staged(ask[r], s)
  BY <1>1 DEF RequestInv, Recalled, Staged
<1>5. Listed(ask[r], s, plan[r], found[r], list, origin[r])
  <2>1. s \notin Early
    BY DEF Early
  <2>2. list \in Seq(Item) /\ Distinct(list)
    BY DEF Good
  <2> QED
    BY <1>1, <2>1, <2>2 DEF RequestInv, Listed
<1>6. ASSUME NEW quiet PROVE Excused(ask[r], s, found[r], reasons[r] \cup why, quiet)
  BY <1>1 DEF RequestInv, Excused
<1> QED
  BY <1>2, <1>3, <1>4, <1>5, <1>6, WhatIs, Advancing

\* A step that answers, or has its list explained.
LEMMA Answering ==
  ASSUME AnswerInv, PoolTypeOK', OriginInv', NEW r \in Requests, TurnOf(r) \/ UNCHANGED poolVars,
         UNCHANGED <<ask, plan, found, merged>>,
         NEW list \in Seq(Item), NEW from,
         (Generate(r, list, from) /\ ask[r].kind = "text") \/ Respond(r, list, from),
         Distinct(list), IF from = "popularity" THEN ask[r].kind = "text" ELSE Good(ask[r], plan[r], found[r], list),
         stage[r] \notin {"idle", "recalling"},
         NEW why, Record(r, why) \/ (UNCHANGED reasons /\ why = {}),
         ask[r].kind = "hybrid" => \A t \in Sources : ReasonOf(t) \notin why
  PROVE  AnswerInv'
<1>1. RequestInv(r)
  BY WhatIs
<1>2. PICK s \in {"generating", "done"}, given \in {AtMost(list, K), Contract(list)} :
            /\ stage' = [stage EXCEPT ![r] = s] /\ results' = [results EXCEPT ![r] = given]
            /\ origin' = [origin EXCEPT ![r] = from]
            /\ s = "generating" => ask[r].kind = "text"
  BY DEF Generate, Respond, GoTo
<1>3. reasons' = [reasons EXCEPT ![r] = reasons[r] \cup why]
  BY WhatIs DEF Record
<1>4. Recalled(ask[r], s, found[r], merged[r]) /\ Staged(ask[r], s)
  BY <1>1, <1>2 DEF RequestInv, Recalled, Staged
<1>5. Listed(ask[r], s, plan[r], found[r], given, from)
  <2>1. s \notin Early \cup {"reranking", "snapshot"}
    BY <1>2 DEF Early
  <2>2. given \in Seq(Item) /\ Distinct(given)
    BY <1>2, FirstAreDistinct
  <2>3. from # "popularity" => Good(ask[r], plan[r], found[r], given)
    BY <1>2, FirstAreGood
  <2> QED
    BY <2>1, <2>2, <2>3 DEF Listed
<1>6. ASSUME NEW quiet PROVE Excused(ask[r], s, found[r], reasons[r] \cup why, quiet)
  BY <1>1, <1>2 DEF RequestInv, Excused
<1> QED
  BY <1>2, <1>3, <1>4, <1>5, <1>6, WhatIs, Advancing
-----------------------------------------------------------------------------
(* The steps of a text search.                                             *)

\* An empty list may answer anything.
LEMMA NothingIsGood ==
  ASSUME NEW a, NEW p, NEW f PROVE Good(a, p, f, <<>>)
BY DEF Good, Distinct, Ordered

\* A recall that is lost leads to popular items, which any text search may
\* answer; a sentence changes no list.
LEMMA TextSteps ==
  ASSUME AnswerInv, PoolTypeOK', OriginInv', NEW r \in Requests, TurnOf(r) \/ UNCHANGED poolVars,
         Embed(r) \/ Popular(r) \/ Emptied(r) \/ EnrichRaises(r) \/ Explain(r)
  PROVE  AnswerInv'
<1>1. RequestInv(r) /\ Kind(r) = ask[r].kind
  BY WhatIs DEF Kind
<1>2. \A t \in Sources : ReasonOf(t) \in {"text_recall_failed", "image_recall_failed"}
  BY DEF ReasonOf
<1>n. UNCHANGED reasons => Record(r, {})
  BY WhatIs DEF Record
<1>3. ASSUME NEW o, Substitute(r, o), stage[r] \notin {"idle", "recalling"}, ask[r].kind = "text",
             UNCHANGED <<ask, plan, found, merged, results, origin>>
      PROVE  AnswerInv'
  <2>1. PICK why \in {{"inference_timeout"}, {"inference_unavailable"}} : Record(r, why) /\ GoTo(r, "popular")
    BY <1>3 DEF Substitute
  <2>2. Staged(ask[r], "popular")
    BY <1>3 DEF Staged
  <2>3. "popular" \notin Early \cup {"idle", "reranking", "snapshot", "recalling"}
    BY DEF Early
  <2>4. \A t \in Sources : ReasonOf(t) \notin why
    BY <1>2, <2>1
  <2> QED
    BY <1>3, <2>1, <2>2, <2>3, <2>4, Moving
<1>4. CASE Embed(r)
  <2>1. stage[r] = "embedding" /\ UNCHANGED <<ask, plan, found, merged, results, origin>>
    BY <1>4 DEF Embed
  <2>2. (\E o : Substitute(r, o)) \/ (GoTo(r, "retrieving") /\ UNCHANGED reasons)
    BY <1>4, Zenon DEF Embed
  <2>3. ask[r].kind = "text"
    BY <1>1, <2>1 DEF RequestInv, Staged
  <2>4. CASE GoTo(r, "retrieving") /\ UNCHANGED reasons
    <3>1. Staged(ask[r], "retrieving")
      BY <2>3 DEF Staged
    <3>2. stage[r] \in Early
      BY <2>1 DEF Early
    <3> QED
      BY <1>n, <2>1, <2>4, <3>1, <3>2, Moving
  <2> QED
    BY <1>3, <2>1, <2>2, <2>3, <2>4
<1>5. CASE Popular(r) \/ Emptied(r)
  <2>1. /\ stage[r] \in {"popular", "emptied"} /\ UNCHANGED <<ask, plan, found, merged, reasons>>
        /\ \E o : \E list \in PopularAnswers(o) :
              Generate(r, list, "popularity") \/ Respond(r, list, "popularity")
    BY <1>5, Zenon DEF Popular, Emptied
  <2>2. ask[r].kind = "text"
    BY <1>1, <2>1 DEF RequestInv, Staged
  <2>o. PICK o : \E list \in PopularAnswers(o) :
            Generate(r, list, "popularity") \/ Respond(r, list, "popularity")
    BY <2>1
  <2>3. PICK list \in PopularAnswers(o) : Generate(r, list, "popularity") \/ Respond(r, list, "popularity")
    BY <2>o
  <2>4. list \in Seq(Item) /\ Distinct(list)
    <3>1. CASE list = <<>>
      BY <3>1 DEF Distinct
    <3>2. CASE list \in PopularLists
      BY <3>2, PopularAssumption DEF Distinct
    <3> QED
      BY <3>1, <3>2 DEF PopularAnswers
  <2> QED
    BY <1>n, <2>1, <2>2, <2>3, <2>4, Answering
<1>6. CASE EnrichRaises(r)
  <2>1. stage[r] = "enriching" /\ UNCHANGED <<ask, plan, found, merged, results, origin>>
    BY <1>6 DEF EnrichRaises
  <2>2. \/ Kind(r) = "text" /\ Substitute(r, "failed")
        \/ GoTo(r, "done") /\ UNCHANGED reasons
    BY <1>6, Zenon DEF EnrichRaises
  <2>3. CASE GoTo(r, "done") /\ UNCHANGED reasons
    <3>1. Staged(ask[r], "done") /\ "done" \notin Early
      BY DEF Staged, Early
    <3> QED
      BY <1>n, <2>1, <2>3, <3>1, Moving
  <2> QED
    BY <1>1, <1>3, <2>1, <2>2, <2>3
<1>7. CASE Explain(r)
  <2>1. /\ stage[r] = "generating" /\ UNCHANGED <<ask, plan, found, merged, reasons>>
        /\ Respond(r, results[r], origin[r])
    BY <1>7 DEF Explain
  <2>2. /\ results[r] \in Seq(Item) /\ Distinct(results[r])
        /\ IF origin[r] = "popularity" THEN ask[r].kind = "text"
           ELSE Good(ask[r], plan[r], found[r], results[r])
    BY <1>1 DEF RequestInv, Listed
  <2> QED
    BY <2>1, <2>2, Answering
<1> QED
  BY <1>4, <1>5, <1>6, <1>7

\* The router sets the plan before there is a list.
LEMMA RouteStep ==
  ASSUME AnswerInv, PoolTypeOK', OriginInv', NEW r \in Requests, TurnOf(r) \/ UNCHANGED poolVars, Route(r)
  PROVE  AnswerInv'
<1>1. RequestInv(r)
  BY WhatIs
<1>2. stage[r] = "routing" /\ UNCHANGED <<ask, reasons, found, merged, results, origin>>
  BY DEF Route
<1>3. PICK p, s : plan' = [plan EXCEPT ![r] = p] /\ GoTo(r, s) /\ s \in {"popular", "embedding"}
  BY DEF Route
<1>4. /\ ask[r].kind = "text" /\ origin[r] = "none" /\ results[r] = <<>>
      /\ Staged(ask[r], s)
  BY <1>1, <1>2, <1>3 DEF RequestInv, Staged, Listed, Early
<1>5. /\ Recalled(ask[r], s, found[r], merged[r])
      /\ Listed(ask[r], s, p, found[r], results[r], origin[r])
  BY <1>1, <1>3, <1>4, NothingIsGood DEF RequestInv, Recalled, Listed
<1>6. ASSUME NEW quiet PROVE Excused(ask[r], s, found[r], reasons[r] \cup {}, quiet)
  BY <1>4 DEF Excused
<1>7. stage' = [stage EXCEPT ![r] = s]
  BY <1>3 DEF GoTo
<1> QED
  BY <1>2, <1>3, <1>4, <1>5, <1>6, <1>7, WhatIs, Advancing

\* What retrieval answers is a recall, and nothing is listed yet.
LEMMA RetrieveStep ==
  ASSUME AnswerInv, PoolTypeOK', OriginInv', NEW r \in Requests, TurnOf(r) \/ UNCHANGED poolVars, Retrieve(r)
  PROVE  AnswerInv'
<1>1. RequestInv(r)
  BY WhatIs
<1>2. stage[r] = "retrieving" /\ UNCHANGED <<ask, plan, merged, results, origin>>
  BY DEF Retrieve
<1>3. ask[r].kind = "text" /\ merged[r] = <<>> /\ origin[r] = "none" /\ results[r] = <<>>
  BY <1>1, <1>2 DEF RequestInv, Staged, Recalled, Listed, Early
<1>4. \/ /\ \E ranking \in Recalls["text"] :
               found' = [found EXCEPT ![r]["text"] = SearchAnswer(ranking, plan[r].filters)]
         /\ GoTo(r, "enriching") /\ UNCHANGED reasons
      \/ \E o : Substitute(r, o) /\ UNCHANGED found
  BY Zenon DEF Retrieve
<1>5. CASE \E o : Substitute(r, o) /\ UNCHANGED found
  <2>1. PICK why \in {{"inference_timeout"}, {"inference_unavailable"}} : Record(r, why) /\ GoTo(r, "popular")
    BY <1>5 DEF Substitute
  <2>2. Staged(ask[r], "popular") /\ "popular" \notin Early \cup {"idle", "reranking", "snapshot", "recalling"}
    BY <1>3 DEF Staged, Early
  <2>3. \A t \in Sources : ReasonOf(t) \notin why
    BY <2>1 DEF ReasonOf
  <2> QED
    BY <1>2, <1>5, <2>1, <2>2, <2>3, Moving
<1>6. ASSUME NEW ranking \in Recalls["text"], GoTo(r, "enriching"), UNCHANGED reasons,
             found' = [found EXCEPT ![r]["text"] = SearchAnswer(ranking, plan[r].filters)]
      PROVE  AnswerInv'
  <2> DEFINE answer == SearchAnswer(ranking, plan[r].filters)
             f == [found[r] EXCEPT !["text"] = answer]
  <2>1. IsRecall(answer)
    BY <1>6, SearchAnswerIsRecall
  <2> HIDE DEF answer
  <2>2. found' = [found EXCEPT ![r] = f] /\ f = [t \in Sources |-> f[t]]
    BY <1>6, WhatIs DEF answer, Sources
  <2>3. \A t \in Sources : IsRecall(f[t])
    BY <1>1, <2>1, WhatIs DEF RequestInv, Recalled
  <2> HIDE DEF f
  <2>4. Staged(ask[r], "enriching") /\ Recalled(ask[r], "enriching", f, merged[r])
    BY <1>3, <2>3 DEF Staged, Recalled
  <2>5. Listed(ask[r], "enriching", plan[r], f, results[r], origin[r])
    BY <1>1, <1>3, NothingIsGood DEF RequestInv, Listed
  <2>6. ASSUME NEW quiet PROVE Excused(ask[r], "enriching", f, reasons[r] \cup {}, quiet)
    BY <1>3 DEF Excused
  <2>7. stage' = [stage EXCEPT ![r] = "enriching"]
    BY <1>6 DEF GoTo
  <2> QED
    BY <1>2, <1>6, <2>2, <2>4, <2>5, <2>6, <2>7, WhatIs, Advancing
<1> QED
  BY <1>4, <1>5, <1>6

\* Enrichment makes a good list of the recall or of the merge.
LEMMA EnrichStep ==
  ASSUME AnswerInv, PoolTypeOK', OriginInv', NEW r \in Requests, TurnOf(r) \/ UNCHANGED poolVars, Enrich(r)
  PROVE  AnswerInv'
<1>1. RequestInv(r) /\ Kind(r) = ask[r].kind
  BY WhatIs DEF Kind
<1>2. stage[r] = "enriching" /\ UNCHANGED <<ask, plan, found, merged>>
  BY DEF Enrich
<1>3. PICK unread :
         LET list == Enriched(r, unread)
             next == AfterEnrichment(r, list)
         IN  /\ Record(r, IF next = "emptied" THEN {"empty_results_allowed"} ELSE {})
             /\ IF next # "answer" THEN Continue(r, next, list)
                ELSE IF Kind(r) = "text" THEN Generate(r, list, "search")
                ELSE Respond(r, list, "search")
  BY DEF Enrich
<1> DEFINE list == Enriched(r, unread)
           next == AfterEnrichment(r, list)
           why == IF next = "emptied" THEN {"empty_results_allowed"} ELSE {}
<1>4. /\ Record(r, why)
      /\ IF next # "answer" THEN Continue(r, next, list)
         ELSE \/ Generate(r, list, "search") /\ Kind(r) = "text"
              \/ Respond(r, list, "search")
  BY <1>3
<1>5. /\ next \in {"emptied", "reranking", "snapshot", "answer"}
      /\ next = "emptied" => Kind(r) = "text"
      /\ next = "snapshot" => Kind(r) = "hybrid"
  BY DEF AfterEnrichment
<1>6. \A t \in Sources : ReasonOf(t) \notin why
  BY DEF ReasonOf
<1> HIDE DEF next, why
<1>7. Good(ask[r], plan[r], found[r], list)
  <2>1. MaxDocs \in Nat /\ RecallK \in Nat
    BY Numbers
  <2>2. CASE ask[r].kind = "text"
    <3>1. IsRecall(found[r]["text"])
      BY <1>1 DEF RequestInv, Recalled, Sources
    <3>2. list = EnrichAndFilter(found[r]["text"], Meta, unread, plan[r].filters, MaxDocs)
      BY <1>1, <2>2 DEF Enriched
    <3> QED
      BY <2>1, <2>2, <3>1, <3>2, EnrichedTextIsGood
  <2>3. CASE ask[r].kind # "text"
    <3>1. \/ merged[r] = <<>>
          \/ IF ask[r].kind = "multimodal" THEN IsMerged(merged[r], found[r], MergeWeights(ask[r]))
             ELSE IsFused(merged[r], found[r])
      BY <1>1 DEF RequestInv, Recalled
    <3>2. PICK n \in Nat : list = Annotated(EnrichAndFilter(merged[r], Meta, unread, Unfiltered, n), merged[r])
      BY <1>1, <2>1, <2>3 DEF Enriched
    <3> HIDE DEF list
    <3> QED
      BY <2>3, <3>1, <3>2, EnrichedMergeIsGood
  <2> QED
    BY <2>2, <2>3
<1> HIDE DEF list
<1>8. CASE next = "answer"
  <2>1. list \in Seq(Item) /\ Distinct(list)
    BY <1>7 DEF Good
  <2> QED
    BY <1>1, <1>2, <1>4, <1>6, <1>7, <1>8, <2>1, Answering
<1>9. CASE next # "answer"
  <2>1. Continue(r, next, list) /\ next \in {"emptied", "reranking", "snapshot"}
    BY <1>4, <1>5, <1>9
  <2> QED
    BY <1>1, <1>2, <1>4, <1>5, <1>6, <1>7, <2>1, Continuing
<1> QED
  BY <1>8, <1>9

\* The list that was reranked, or the old one, is good.
LEMMA RerankStep ==
  ASSUME AnswerInv, PoolTypeOK', OriginInv', NEW r \in Requests, TurnOf(r) \/ UNCHANGED poolVars,
         RerankText(r) \/ RerankMerged(r)
  PROVE  AnswerInv'
<1>1. RequestInv(r) /\ Kind(r) = ask[r].kind
  BY WhatIs DEF Kind
<1>2. stage[r] = "reranking" /\ UNCHANGED <<ask, plan, found, merged>>
  BY DEF RerankText, RerankMerged
<1>3. Good(ask[r], plan[r], found[r], results[r])
  BY <1>1, <1>2 DEF RequestInv, Listed
<1>4. ASSUME NEW scores \in [DOMAIN results[r] -> Scores]
      PROVE  Good(ask[r], plan[r], found[r], Reranked(results[r], scores))
  BY <1>3, RerankedIsGood
<1>5. ASSUME NEW list \in {results[r]} \cup {Reranked(results[r], scores) : scores \in [DOMAIN results[r] -> Scores]}
      PROVE  Good(ask[r], plan[r], found[r], list) /\ list \in Seq(Item) /\ Distinct(list)
  <2>1. Good(ask[r], plan[r], found[r], list)
    BY <1>3, <1>4
  <2> QED
    BY <2>1 DEF Good
<1>6. CASE RerankMerged(r)
  <2>1. Kind(r) = "multimodal"
    BY <1>6 DEF RerankMerged
  <2>2. PICK o \in Outcomes, scores \in [DOMAIN results[r] -> Scores] :
            /\ \E why : Record(r, why)
            /\ Respond(r, IF o = "answered" THEN Reranked(results[r], scores) ELSE results[r], "search")
    BY <1>6, Zenon DEF RerankMerged
  <2>3. PICK list \in {results[r]} \cup {Reranked(results[r], t) : t \in [DOMAIN results[r] -> Scores]} :
            Respond(r, list, "search")
    BY <2>2
  <2>4. PICK why : Record(r, why)
    BY <2>2
  <2>5. Good(ask[r], plan[r], found[r], list) /\ list \in Seq(Item) /\ Distinct(list)
    BY <1>5
  <2>6. ask[r].kind = "multimodal"
    BY <1>1, <2>1
  <2> QED
    BY <1>2, <2>3, <2>4, <2>5, <2>6, Answering
<1>7. CASE RerankText(r)
  <2>1. Kind(r) = "text" /\ UNCHANGED reasons
    BY <1>7 DEF RerankText
  <2>2. Record(r, {})
    BY <2>1, WhatIs DEF Record
  <2>3. \/ \E scores \in [DOMAIN results[r] -> Scores] : Continue(r, "snapshot", Reranked(results[r], scores))
        \/ \E list \in {results[r]} \cup {Reranked(results[r], t) : t \in [DOMAIN results[r] -> Scores]} :
              Generate(r, list, "search")
    <3>1. PICK o \in Outcomes, scores \in [DOMAIN results[r] -> Scores] :
            LET list == IF o = "answered" THEN Reranked(results[r], scores) ELSE results[r]
            IN  \/ o = "answered" /\ Continue(r, "snapshot", list)
                \/ Generate(r, list, "search")
      BY <1>7, Zenon DEF RerankText
    <3> QED
      BY <3>1
  <2>4. ASSUME NEW scores \in [DOMAIN results[r] -> Scores], Continue(r, "snapshot", Reranked(results[r], scores))
        PROVE  AnswerInv'
    BY <1>2, <1>4, <2>2, <2>4, Continuing
  <2>5. ASSUME NEW list \in {results[r]} \cup {Reranked(results[r], t) : t \in [DOMAIN results[r] -> Scores]},
               Generate(r, list, "search")
        PROVE  AnswerInv'
    <3>1. Good(ask[r], plan[r], found[r], list) /\ list \in Seq(Item) /\ Distinct(list)
      BY <1>5
    <3> QED
      BY <1>1, <1>2, <2>1, <2>2, <2>5, <3>1, Answering
  <2> QED
    BY <2>3, <2>4, <2>5
<1> QED
  BY <1>6, <1>7

\* The list that was boosted, or the old one, is good.
LEMMA BoostStep ==
  ASSUME AnswerInv, PoolTypeOK', OriginInv', NEW r \in Requests, TurnOf(r) \/ UNCHANGED poolVars,
         BoostText(r) \/ BoostFused(r)
  PROVE  AnswerInv'
<1>1. RequestInv(r) /\ Kind(r) = ask[r].kind
  BY WhatIs DEF Kind
<1>2. stage[r] = "snapshot" /\ UNCHANGED <<ask, plan, found, merged>>
  BY DEF BoostText, BoostFused
<1>3. Good(ask[r], plan[r], found[r], results[r])
  BY <1>1, <1>2 DEF RequestInv, Listed
<1>4. ASSUME NEW list \in {Boosted(r, s) : s \in Loaded} \cup {results[r]}
      PROVE  Good(ask[r], plan[r], found[r], list) /\ list \in Seq(Item) /\ Distinct(list)
  <2>1. \A s : Good(ask[r], plan[r], found[r], ApplyBoost(results[r], s))
    BY <1>3, BoostedIsGood
  <2>2. Good(ask[r], plan[r], found[r], list)
    BY <1>3, <2>1 DEF Boosted
  <2> QED
    BY <2>2 DEF Good
<1>5. PICK list, why :
         /\ list \in {Boosted(r, s) : s \in Loaded} \cup {results[r]}
         /\ (Generate(r, list, "search") /\ Kind(r) = "text") \/ Respond(r, list, "search")
         /\ Record(r, why) /\ (Kind(r) = "hybrid" => why = {})
  <2>1. CASE BoostText(r)
    <3>1. Kind(r) = "text"
      BY <2>1 DEF BoostText
    <3>2. PICK list \in {Boosted(r, s) : s \in Loaded} \cup {results[r]} :
             Generate(r, list, "search") /\ \E why : Record(r, why)
      BY <2>1, Zenon DEF BoostText
    <3> QED
      BY <3>1, <3>2
  <2>2. CASE BoostFused(r)
    <3>1. UNCHANGED reasons
      BY <2>2 DEF BoostFused
    <3>2. Record(r, {})
      BY <3>1, WhatIs DEF Record
    <3>3. PICK list \in {Boosted(r, s) : s \in Loaded} \cup {results[r]} : Respond(r, list, "search")
      BY <2>2, Zenon DEF BoostFused
    <3> QED
      BY <3>2, <3>3
  <2> QED
    BY <2>1, <2>2
<1>6. Good(ask[r], plan[r], found[r], list) /\ list \in Seq(Item) /\ Distinct(list)
  BY <1>4, <1>5
<1>7. ask[r].kind = "hybrid" => \A t \in Sources : ReasonOf(t) \notin why
  BY <1>1, <1>5
<1> QED
  BY <1>1, <1>2, <1>5, <1>6, <1>7, Answering
-----------------------------------------------------------------------------
(* The legs of the other searches.                                         *)

\* The weights of a merge are naturals, whatever the request asks.
LEMMA WeightsAreNat ==
  ASSUME NEW text \in Int, NEW image \in Int PROVE Weights(text, image) \in [Sources -> Nat]
BY DEF Weights, Positive

\* What a request's legs come to once the last has ended.
LEMMA Combining ==
  ASSUME NEW r \in Requests, ask[r] \in Asks, Kind(r) # "text", Kind(r) # "image",
         NEW f, \A s \in Sources : IsRecall(f[s]), NEW list \in Combined(r, f)
  PROVE  IF Kind(r) = "multimodal" THEN IsMerged(list, f, MergeWeights(ask[r])) ELSE IsFused(list, f)
<1>1. ask[r].weights.text \in Int /\ ask[r].weights.image \in Int
  BY PipelineAssumption
<1>3. CASE Kind(r) = "multimodal"
  <2>1. list = MergeRanked(f, MergeWeights(ask[r]), MaxDocs)
    BY <1>3 DEF Combined, MergeWeights
  <2>2. MergeWeights(ask[r]) \in [Sources -> Nat]
    <3>1. Given(ask[r].weights.text, 5) \in Int /\ Given(ask[r].weights.image, 5) \in Int
      BY <1>1 DEF Given
    <3> QED
      BY <3>1, WeightsAreNat DEF MergeWeights
  <2>3. MaxDocs \in Nat
    BY Numbers
  <2> QED
    BY <1>3, <2>1, <2>2, <2>3, Merging
<1>4. CASE Kind(r) # "multimodal"
  <2> DEFINE weights == Weights(Given(ask[r].weights.text, 4), Given(ask[r].weights.image, 5))
  <2>1. list \in Fuse(f, weights, RecallK)
    BY <1>4 DEF Combined
  <2>2. weights \in [Sources -> Nat]
    <3>1. Given(ask[r].weights.text, 4) \in Int /\ Given(ask[r].weights.image, 5) \in Int
      BY <1>1 DEF Given
    <3> QED
      BY <3>1, WeightsAreNat
  <2>3. RecallK \in Nat
    BY Numbers
  <2> HIDE DEF weights
  <2> QED
    BY <1>4, <2>1, <2>2, <2>3, Fusing
<1> QED
  BY <1>3, <1>4

\* An image search lists what its one recall found.
LEMMA ImageSteps ==
  ASSUME AnswerInv, PoolTypeOK', OriginInv', NEW r \in Requests, TurnOf(r) \/ UNCHANGED poolVars,
         ImageRecall(r) \/ Describe(r)
  PROVE  AnswerInv'
<1>1. RequestInv(r) /\ Kind(r) = ask[r].kind
  BY WhatIs DEF Kind
<1>2. UNCHANGED reasons => Record(r, {})
  BY WhatIs DEF Record
<1>3. CASE ImageRecall(r)
  <2>1. stage[r] = "recalling" /\ Kind(r) = "image" /\ UNCHANGED <<ask, plan, reasons, merged, results, origin>>
    BY <1>3 DEF ImageRecall
  <2>2. \/ GoTo(r, "done") /\ UNCHANGED found
        \/ /\ GoTo(r, "describing")
           /\ \E ranking \in Recalls["image"] : found' = [found EXCEPT ![r]["image"] = AtMost(ranking, K)]
    BY <1>3, Zenon DEF ImageRecall
  <2>3. CASE GoTo(r, "done") /\ UNCHANGED found
    <3>1. Staged(ask[r], "done") /\ "done" \notin Early
      BY DEF Staged, Early
    <3> QED
      BY <1>2, <2>1, <2>3, <3>1, Moving
  <2>4. ASSUME NEW ranking \in Recalls["image"], GoTo(r, "describing"),
               found' = [found EXCEPT ![r]["image"] = AtMost(ranking, K)]
        PROVE  AnswerInv'
    <3> DEFINE answer == AtMost(ranking, K)
               f == [found[r] EXCEPT !["image"] = answer]
    <3>1. IsRecall(answer)
      BY Numbers, RankingIsRecall, CutRecall DEF Sources
    <3> HIDE DEF answer
    <3>2. found' = [found EXCEPT ![r] = f] /\ f = [t \in Sources |-> f[t]]
      BY <2>4, WhatIs DEF answer, Sources
    <3>3. \A t \in Sources : IsRecall(f[t])
      BY <1>1, <3>1, WhatIs DEF RequestInv, Recalled
    <3> HIDE DEF f
    <3>4. merged[r] = <<>> /\ origin[r] = "none" /\ results[r] = <<>>
      BY <1>1, <2>1 DEF RequestInv, Recalled, Listed, Early
    <3>5. Staged(ask[r], "describing") /\ Recalled(ask[r], "describing", f, merged[r])
      BY <1>1, <2>1, <3>3, <3>4 DEF Staged, Recalled
    <3>6. Listed(ask[r], "describing", plan[r], f, results[r], origin[r])
      BY <1>1, <3>4, NothingIsGood DEF RequestInv, Listed
    <3>7. ASSUME NEW quiet PROVE Excused(ask[r], "describing", f, reasons[r] \cup {}, quiet)
      BY <1>1, <2>1 DEF Excused
    <3>8. stage' = [stage EXCEPT ![r] = "describing"]
      BY <2>4 DEF GoTo
    <3> QED
      BY <2>1, <3>2, <3>5, <3>6, <3>7, <3>8, WhatIs, Advancing
  <2> QED
    BY <2>2, <2>3, <2>4
<1>4. CASE Describe(r)
  <2>1. stage[r] = "describing" /\ UNCHANGED <<ask, plan, found, merged, reasons>>
    BY <1>4 DEF Describe
  <2>2. ask[r].kind = "image"
    BY <1>1, <2>1 DEF RequestInv, Staged
  <2> DEFINE recall == found[r]["image"]
  <2>3. PICK unread :
          LET item(c) == [id |-> Canonical(c.id), score |-> c.score, sources |-> {}, factor |-> NoBoost,
                          meta |-> IF c.id.article \in unread THEN Absent ELSE Meta[c.id.article]]
          IN  Respond(r, [i \in DOMAIN recall |-> item(recall[i])], "search")
    BY <1>4 DEF Describe
  <2> DEFINE item(c) == [id |-> Canonical(c.id), score |-> c.score, sources |-> {}, factor |-> NoBoost,
                         meta |-> IF c.id.article \in unread THEN Absent ELSE Meta[c.id.article]]
             list == [i \in DOMAIN recall |-> item(recall[i])]
  <2>4. Respond(r, list, "search")
    BY <2>3
  <2>5. recall \in Seq(Candidate) /\ Distinct(recall)
    BY <1>1 DEF RequestInv, Recalled, IsRecall, Sources
  <2> HIDE DEF recall
  <2>6. ASSUME NEW i \in DOMAIN recall
        PROVE  item(recall[i]) \in Item /\ item(recall[i]).id.article = recall[i].id.article
    <3>1. recall[i] \in Candidate
      BY <2>5
    <3>2. recall[i].id \in ItemIds /\ recall[i].score \in Int
      BY <3>1, Spellings
    <3>3. /\ recall[i].id.article \in DOMAIN Meta /\ Canonical(recall[i].id) \in ItemIds
          /\ Canonical(recall[i].id).article = recall[i].id.article
      BY <3>2, Spellings
    <3> QED
      BY <3>2, <3>3 DEF Item, NoBoost
  <2>7. list \in Seq(Item) /\ DOMAIN list = DOMAIN recall
    <3>1. DOMAIN recall = 1 .. Len(recall) /\ Len(recall) \in Nat
      BY <2>5
    <3> HIDE DEF item
    <3> QED
      BY <2>6, <3>1
  <2>8. Distinct(list)
    BY <2>5, <2>6 DEF Distinct
  <2> HIDE DEF list
  <2>9. Good(ask[r], plan[r], found[r], list)
    BY <2>2, <2>7, <2>8 DEF Good
  <2>10. ask[r].kind # "hybrid"
    BY <2>2
  <2> QED
    BY <1>2, <2>1, <2>4, <2>7, <2>8, <2>9, <2>10, Answering
<1> QED
  BY <1>3, <1>4

\* The text leg goes on from the embedding to the collection.
LEMMA RecallSearchStep ==
  ASSUME AnswerInv, PoolTypeOK', OriginInv', NEW r \in Requests, RecallSearch(r)
  PROVE  AnswerInv'
<1>1. /\ stage[r] = "recalling" /\ at[Leg(r, "text")] = "answered" /\ UNCHANGED requestVars
      /\ Turn({Leg(r, "text")}, "kept", OneCall(Leg(r, "text"), "retrieval"))
  BY DEF RecallSearch
<1>2. UNCHANGED <<ask, stage, plan, reasons, found, merged, results, origin>>
  BY <1>1 DEF requestVars
<1>3. \A q \in Requests : Quiet(q)' = Quiet(q)
  <2> DEFINE to == OneCall(Leg(r, "text"), "retrieval")
             S == {Leg(r, "text")}
  <2>1. DOMAIN to = {Leg(r, "text")} /\ S \in SUBSET Legs(r) /\ DOMAIN to \in SUBSET Legs(r)
    BY DEF OneCall, Legs, Sources
  <2>2. Turn(S, "kept", to)
    BY <1>1
  <2> HIDE DEF to
  <2>3. /\ \A q \in Requests : q # r => Quiet(q)' = Quiet(q)
        /\ \A s \in Sources : s \in Quiet(r)' <=>
              Leg(r, s) \notin DOMAIN to /\ (Leg(r, s) \in S \/ s \in Quiet(r))
    BY <2>1, <2>2, TurnOfOne DEF AnswerInv
  <2>4. "text" \notin Quiet(r)
    BY <1>1 DEF Quiet
  <2>5. \A s \in Sources : Leg(r, s) = Leg(r, "text") <=> s = "text"
    BY DEF Leg
  <2>6. \A s \in Sources : s \in Quiet(r)' <=> s \in Quiet(r)
    BY <2>1, <2>3, <2>4, <2>5
  <2>7. Quiet(r)' = Quiet(r)
    <3>1. Quiet(r)' \subseteq Sources /\ Quiet(r) \subseteq Sources
      BY DEF Quiet
    <3> QED
      BY <2>6, <3>1
  <2> QED
    BY <2>3, <2>7
<1>4. ASSUME NEW q \in Requests PROVE RequestInv(q)'
  <2>1. RequestInv(q) /\ Quiet(q)' = Quiet(q)
    BY <1>3 DEF AnswerInv
  <2> QED
    BY <1>2, <2>1 DEF RequestInv
<1> QED
  BY <1>2, <1>4 DEF AnswerInv

\* A leg ends: it has found a recall, or nothing and a reason says so.  The legs
\* end in any order and each once; the last makes the merge.
LEMMA LegStep ==
  ASSUME AnswerInv, PoolTypeOK', OriginInv', NEW r \in Requests, NEW s \in Sources, LegEnds(r, s)
  PROVE  AnswerInv'
<1> DEFINE c == Leg(r, s)
<1>1. RequestInv(r) /\ Kind(r) = ask[r].kind
  BY WhatIs DEF Kind
<1>2. /\ stage[r] = "recalling" /\ Kind(r) # "image" /\ UNCHANGED <<ask, plan, results, origin>>
  BY DEF LegEnds
<1>3. Kind(r) # "text" /\ merged[r] = <<>> /\ origin[r] = "none" /\ results[r] = <<>>
  BY <1>1, <1>2 DEF RequestInv, Staged, Recalled, Listed, Early
<1>4. PICK o \in Outcomes, places \in Places, ranking \in Recalls[s] :
         LET ok == IF s = "text" THEN o = "answered" ELSE ImageFound(r, o)
             now == [found[r] EXCEPT ![s] = IF ok THEN AtMost(ranking, RecallK) ELSE <<>>]
         IN  /\ Outcome(c, o)
             /\ Turn({c}, places, NoCall)
             /\ found' = [found EXCEPT ![r] = now]
             /\ Record(r, IF ok THEN {} ELSE {ReasonOf(s)})
             /\ \/ UNCHANGED <<stage, merged>>
                \/ GoTo(r, "done") /\ UNCHANGED merged
                \/ /\ GoTo(r, "enriching")
                   /\ \E list \in Combined(r, now) : merged' = [merged EXCEPT ![r] = list]
  BY Zenon DEF LegEnds
<1> DEFINE ok == IF s = "text" THEN o = "answered" ELSE ImageFound(r, o)
           answer == IF ok THEN AtMost(ranking, RecallK) ELSE <<>>
           now == [found[r] EXCEPT ![s] = answer]
           why == IF ok THEN {} ELSE {ReasonOf(s)}
<1>5. /\ found' = [found EXCEPT ![r] = now] /\ Record(r, why)
      /\ \/ UNCHANGED <<stage, merged>>
         \/ GoTo(r, "done") /\ UNCHANGED merged
         \/ /\ GoTo(r, "enriching")
            /\ \E list \in Combined(r, now) : merged' = [merged EXCEPT ![r] = list]
  BY <1>4
<1>6. IsRecall(answer) /\ Len(answer) <= RecallK
  <2>1. IsRecall(<<>>) /\ Len(<<>>) <= RecallK
    BY Numbers DEF IsRecall, Distinct, Ordered
  <2>2. IsRecall(AtMost(ranking, RecallK)) /\ Len(AtMost(ranking, RecallK)) <= RecallK
    <3>1. IsRecall(ranking) /\ RecallK \in Nat
      BY Numbers, RankingIsRecall
    <3> QED
      BY <3>1, Cut, CutRecall DEF IsRecall
  <2> QED
    BY <2>1, <2>2
<1>7. why \in SUBSET {ReasonOf(s)} /\ (why # {} => answer = <<>>)
  OBVIOUS
<1> HIDE DEF ok, answer, why
<1>8. /\ now = [t \in Sources |-> now[t]] /\ now[s] = answer
      /\ \A t \in Sources : t # s => now[t] = found[r][t]
  BY WhatIs
<1> HIDE DEF now
<1>9. \A t \in Sources : IsRecall(now[t]) /\ (ask[r].kind = "multimodal" => Len(now[t]) <= RecallK)
  BY <1>1, <1>6, <1>8 DEF RequestInv, Recalled
\* The reasons recorded are those of the legs that ended without an answer.
<1>10. s \notin Quiet(r)
  BY <1>4 DEF Outcome, Outcomes, Quiet
<1>11. \A t \in Sources : t \in Quiet(r)' <=> t = s \/ t \in Quiet(r)
  <2>1. DOMAIN NoCall = {} /\ {c} \in SUBSET Legs(r)
    BY DEF NoCall, Legs
  <2>2. Turn({c}, places, NoCall)
    BY <1>4
  <2>3. \A t \in Sources : t \in Quiet(r)' <=> (Leg(r, t) \in {c} \/ t \in Quiet(r))
    BY <2>1, <2>2, TurnOfOne DEF AnswerInv
  <2>4. \A t \in Sources : Leg(r, t) = c <=> t = s
    BY DEF Leg
  <2> QED
    BY <2>3, <2>4
<1>12. \A t, u \in Sources : ReasonOf(t) = ReasonOf(u) => t = u
  BY DEF ReasonOf, Sources
<1>13. ASSUME NEW st \in {"recalling", "done", "enriching"}
       PROVE  \A quiet : quiet = Quiet(r)' => Excused(ask[r], st, now, reasons[r] \cup why, quiet)
  <2> SUFFICES ASSUME NEW quiet, quiet = Quiet(r)', ask[r].kind = "hybrid",
                      NEW t \in Sources, ReasonOf(t) \in reasons[r] \cup why
               PROVE  now[t] = <<>> /\ st # "idle" /\ (st = "recalling" => t \in quiet)
    BY DEF Excused
  <2>1. ReasonOf(t) \in reasons[r] => found[r][t] = <<>> /\ t \in Quiet(r)
    BY <1>1, <1>2 DEF RequestInv, Excused
  <2>2. CASE t = s
    BY <1>7, <1>8, <1>10, <1>11, <2>1, <2>2
  <2>3. CASE t # s
    BY <1>7, <1>8, <1>11, <1>12, <2>1, <2>3
  <2> QED
    BY <2>2, <2>3
<1>14. ASSUME NEW st \in {"recalling", "done", "enriching"}
       PROVE  /\ Staged(ask[r], st)
              /\ Listed(ask[r], st, plan[r], now, results[r], origin[r])
  BY <1>1, <1>3, NothingIsGood DEF RequestInv, Staged, Listed
<1>15. TurnOf(r)
  BY <1>4, TurnsAre
<1>16. reasons' = [reasons EXCEPT ![r] = reasons[r] \cup why]
  BY <1>5 DEF Record
<1>17. ASSUME NEW st \in {"recalling", "done"}, GoTo(r, st) \/ (UNCHANGED stage /\ st = stage[r]), UNCHANGED merged
       PROVE  AnswerInv'
  <2>1. stage' = [stage EXCEPT ![r] = st] /\ merged' = [merged EXCEPT ![r] = merged[r]]
    BY <1>17, WhatIs DEF GoTo
  <2>2. Recalled(ask[r], st, now, merged[r])
    BY <1>3, <1>9 DEF Recalled
  <2>3. /\ Staged(ask[r], st) /\ Listed(ask[r], st, plan[r], now, results[r], origin[r])
        /\ \A quiet : quiet = Quiet(r)' => Excused(ask[r], st, now, reasons[r] \cup why, quiet)
    BY <1>13, <1>14
  <2>4. plan' = [plan EXCEPT ![r] = plan[r]] /\ results' = [results EXCEPT ![r] = results[r]]
        /\ origin' = [origin EXCEPT ![r] = origin[r]]
    BY <1>2, WhatIs
  <2> QED
    BY <1>2, <1>5, <1>8, <1>15, <1>16, <2>1, <2>2, <2>3, <2>4, Advancing
<1>18. ASSUME GoTo(r, "enriching"), NEW list \in Combined(r, now), merged' = [merged EXCEPT ![r] = list]
       PROVE  AnswerInv'
  <2>1. stage' = [stage EXCEPT ![r] = "enriching"]
    BY <1>18 DEF GoTo
  <2>2. IF ask[r].kind = "multimodal" THEN IsMerged(list, now, MergeWeights(ask[r])) ELSE IsFused(list, now)
    BY <1>1, <1>2, <1>3, <1>9, WhatIs, Combining
  <2>3. Recalled(ask[r], "enriching", now, list)
    BY <1>1, <1>3, <1>9, <2>2 DEF Recalled
  <2> QED
    BY <1>2, <1>5, <1>8, <1>13, <1>14, <1>15, <1>16, <1>18, <2>1, <2>3, WhatIs, Advancing
<1> QED
  BY <1>2, <1>5, <1>17, <1>18

\* A request arrives, or its client leaves.
LEMMA ArrivalStep ==
  ASSUME AnswerInv, PoolTypeOK', OriginInv', NEW r \in Requests, TurnOf(r) \/ UNCHANGED poolVars,
         Submit(r) \/ ClientLeaves(r)
  PROVE  AnswerInv'
<1>1. UNCHANGED <<ask, plan, found, merged, results, origin, reasons>>
  <2>1. CASE Submit(r)
    BY <2>1, Zenon DEF Submit, Refuse
  <2>2. CASE ClientLeaves(r)
    BY <2>2 DEF ClientLeaves
  <2> QED
    BY <2>1, <2>2
<1>2. Record(r, {})
  BY <1>1, WhatIs DEF Record
<1>3. \/ GoTo(r, "gone") \/ GoTo(r, "done")
      \/ /\ stage[r] = "idle"
         /\ \/ GoTo(r, "routing") /\ Kind(r) = "text"
            \/ GoTo(r, "recalling") /\ Kind(r) # "text"
  <2>1. CASE Submit(r)
    <3>1. stage[r] = "idle" /\ (\/ GoTo(r, "done")
                                \/ GoTo(r, "routing") /\ Kind(r) = "text"
                                \/ GoTo(r, "recalling") /\ Kind(r) \in {"image", "multimodal", "hybrid"})
      BY <2>1 DEF Submit, Refuse
    <3> QED
      BY <3>1
  <2>2. CASE ClientLeaves(r)
    BY <2>2 DEF ClientLeaves
  <2> QED
    BY <2>1, <2>2
<1>4. PICK s : /\ GoTo(r, s) /\ s \notin {"idle", "reranking", "snapshot"}
               /\ Staged(ask[r], s)
               /\ s = "recalling" => stage[r] = "idle"
               /\ s \in Early => stage[r] \in Early
  BY <1>3 DEF Staged, Early, Kind
<1> QED
  BY <1>1, <1>2, <1>4, Moving

\* Every step of any request, deployment or thread keeps the invariant.
LEMMA AnswerStep == AnswerInv /\ [Next]_vars => AnswerInv'
<1> SUFFICES ASSUME AnswerInv, [Next]_vars PROVE AnswerInv'
  OBVIOUS
<1>1. PoolTypeOK' /\ OriginInv'
  BY StepIsPoolStep, PoolStep, OriginStep DEF AnswerInv
<1>2. ASSUME NEW r \in Requests, Serve(r) PROVE AnswerInv'
  <2>1. TurnOf(r) \/ UNCHANGED poolVars
    BY <1>2, ServeTurns
  <2> QED
    BY <1>1, <1>2, <2>1, TextSteps, RouteStep, RetrieveStep, EnrichStep, RerankStep, BoostStep, ImageSteps,
       RecallSearchStep, LegStep DEF Serve
<1>3. ASSUME NEW r \in Requests, Submit(r) \/ ClientLeaves(r) PROVE AnswerInv'
  <2>1. TurnOf(r) \/ UNCHANGED poolVars
    BY <1>3, SubmitTurns
  <2> QED
    BY <1>1, <1>3, <2>1, ArrivalStep
<1>4. ASSUME UNCHANGED requestVars, \A q \in Requests : Quiet(q)' = Quiet(q) PROVE AnswerInv'
  <2>1. UNCHANGED <<ask, stage, plan, reasons, found, merged, results, origin>>
    BY <1>4 DEF requestVars
  <2>2. ASSUME NEW q \in Requests PROVE RequestInv(q)'
    <3>1. RequestInv(q) /\ Quiet(q)' = Quiet(q)
      BY <1>4 DEF AnswerInv
    <3> QED
      BY <2>1, <3>1 DEF RequestInv
  <2> QED
    BY <1>1, <2>1, <2>2 DEF AnswerInv
<1>5. ASSUME NEW c \in Calls, Admit(c) \/ Return(c) PROVE AnswerInv'
  <2>1. at' = [at EXCEPT ![c] = at'[c]] /\ at[c] # "none" /\ at'[c] # "none"
    BY <1>5 DEF Admit, Return, Enter, Finish, AnswerInv, PoolTypeOK
  <2>2. \A q \in Requests, s \in Sources : at'[Leg(q, s)] = "none" <=> at[Leg(q, s)] = "none"
    BY <2>1, LegIsCall DEF AnswerInv, PoolTypeOK
  <2>3. \A q \in Requests : Quiet(q)' = Quiet(q)
    BY <2>2 DEF Quiet
  <2> QED
    BY <1>4, <1>5, <2>3 DEF Admit, Return
<1>6. ASSUME UNCHANGED <<requestVars, at>> PROVE AnswerInv'
  BY <1>4, <1>6 DEF Quiet
<1>7. CASE Probe \/ (\E d \in Deployments : ThreadEnds(d)) \/ UNCHANGED vars
  BY <1>6, <1>7 DEF Probe, ThreadEnds, LateEnd, vars, poolVars
<1> QED
  BY <1>2, <1>3, <1>5, <1>7 DEF Next
-----------------------------------------------------------------------------
(* The answers.                                                            *)

LEMMA AnswerStart == Init => AnswerInv
<1> SUFFICES ASSUME Init PROVE AnswerInv
  OBVIOUS
<1>1. PoolTypeOK
  BY PoolStart DEF Init
<1>2. OriginInv
  BY DEF Init, OriginInv, Stages
<1>3. /\ ask \in [Requests -> Asks]
      /\ found = [r \in Requests |-> [s \in Sources |-> found[r][s]]]
      /\ merged = [r \in Requests |-> merged[r]] /\ results = [r \in Requests |-> results[r]]
  BY DEF Init, NothingFound
<1>4. ASSUME NEW r \in Requests PROVE RequestInv(r)
  <2>1. /\ stage[r] = "idle" /\ merged[r] = <<>> /\ results[r] = <<>> /\ origin[r] = "none"
        /\ reasons[r] = {} /\ \A s \in Sources : found[r][s] = <<>>
    BY DEF Init, NothingFound
  <2>2. Recalled(ask[r], stage[r], found[r], merged[r])
    <3>1. IsRecall(<<>>) /\ Len(<<>>) <= RecallK
      BY Numbers DEF IsRecall, Distinct, Ordered
    <3> QED
      BY <2>1, <3>1 DEF Recalled
  <2>3. Listed(ask[r], stage[r], plan[r], found[r], results[r], origin[r])
    <3>1. <<>> \in Seq(Item) /\ Distinct(<<>>)
      BY DEF Distinct
    <3> QED
      BY <2>1, <3>1, NothingIsGood DEF Listed
  <2> QED
    BY <2>1, <2>2, <2>3 DEF RequestInv, Staged, Excused
<1> QED
  BY <1>1, <1>2, <1>3, <1>4 DEF AnswerInv

LEMMA AnswersKeepInv == Spec => []AnswerInv
BY AnswerStart, AnswerStep, PTL DEF Spec

\* An answer never lists an article twice, although two recalls may find it and
\* spell its id in two ways: for any rankings of the two collections, any order
\* in which their legs end or fail, and whatever the reranker and the boost do.
THEOREM AnswersAreDistinct == Spec => []NoDuplicates
<1>1. AnswerInv => NoDuplicates
  BY DEF AnswerInv, RequestInv, Listed, Distinct, NoDuplicates
<1> QED
  BY <1>1, AnswersKeepInv, PTL

\* Every item of a text search that was answered from the collection has the
\* colour the router found and, if its price is known, one below the limit,
\* although the collection may not filter, retrieval may have searched again
\* unfiltered, and rerank, boost and contract follow.  An item whose hash holds
\* no price passes: the comparison that would drop it raises, and is skipped.
THEOREM AnswersPassFilters == Spec => []FiltersHonoured
<1>1. ASSUME AnswerInv, NEW r \in Requests, Kind(r) = "text", origin[r] = "search",
             NEW i \in DOMAIN results[r]
      PROVE  Passes(Meta[results[r][i].id.article], plan[r].filters)
  BY <1>1 DEF AnswerInv, RequestInv, Listed, Good, Kind
<1>2. ASSUME NEW meta, NEW filters, Passes(meta, filters)
      PROVE  /\ filters.colour # "" => meta.colour = filters.colour
             /\ filters.priceBelow # 0 /\ meta.price # Unpriced => meta.price < filters.priceBelow
  BY <1>2 DEF Passes, Matches
<1>3. AnswerInv => FiltersHonoured
  BY <1>1, <1>2 DEF FiltersHonoured
<1> QED
  BY <1>3, AnswersKeepInv, PTL

\* The sources of an item of a hybrid answer are exactly the recalls that found
\* its article, under either spelling of its id, and none is called failed by
\* the answer: not when one leg times out while the other answers.
THEOREM SourcesAreTrue == Spec => []SourcesTrue
<1>1. ASSUME AnswerInv, NEW r \in Requests, Answered(r), Kind(r) = "hybrid", NEW i \in DOMAIN results[r]
      PROVE  /\ results[r][i].sources = FoundBy(results[r][i].id, found[r])
             /\ \A s \in results[r][i].sources : ReasonOf(s) \notin reasons[r]
  <2>1. RequestInv(r) /\ ask[r].kind = "hybrid"
    BY <1>1 DEF AnswerInv, Kind
  <2>2. Good(ask[r], plan[r], found[r], results[r])
    BY <2>1 DEF RequestInv, Listed
  <2>3. results[r][i].sources = FoundBy(results[r][i].id, found[r])
    BY <2>1, <2>2 DEF Good
  <2>4. \A s \in results[r][i].sources : s \in Sources /\ found[r][s] # <<>>
    BY <2>3 DEF FoundBy, Elements
  <2>5. \A s \in Sources : ReasonOf(s) \in reasons[r] => found[r][s] = <<>>
    BY <2>1 DEF RequestInv, Excused
  <2> QED
    BY <2>3, <2>4, <2>5
<1>2. AnswerInv => SourcesTrue
  BY <1>1 DEF SourcesTrue, FoundBy
<1> QED
  BY <1>2, AnswersKeepInv, PTL

\* Whatever the user clicked and however the windows stand, personalization puts
\* an item behind one of a smaller rerank score only for the other's larger boost
\* or, below zero, where a larger boost takes an item down, for its own: for any
\* logits of the reranker, the padding of those it does not give included.
THEOREM BoostKeepsOrder == Spec => []BoostMonotone
<1>1. ASSUME NEW x \in Int, NEW y \in Int, NEW p \in Nat, NEW q \in Nat, x >= y,
             IF y >= 0 THEN q >= p ELSE q <= p
      PROVE  y * p <= x * q
  <2>1. y * p <= y * q
    <3>1. CASE y >= 0
      BY <1>1, <3>1
    <3>2. CASE y < 0
      BY <1>1, <3>2
    <3> QED
      BY <3>1, <3>2
  <2>2. y * q <= x * q
    BY <1>1
  <2> QED
    BY <2>1, <2>2
<1>2. ASSUME AnswerInv, NEW r \in Requests, Answered(r), Kind(r) \in {"text", "hybrid"}, origin[r] = "search",
             NEW i \in DOMAIN results[r], NEW j \in DOMAIN results[r], i < j,
             IF results[r][j].score >= 0 THEN results[r][j].factor >= results[r][i].factor
                                         ELSE results[r][j].factor <= results[r][i].factor
      PROVE  results[r][j].score * results[r][i].factor <= results[r][i].score * results[r][j].factor
  <2>1. Good(ask[r], plan[r], found[r], results[r]) /\ ask[r].kind \in {"text", "hybrid"}
    BY <1>2 DEF AnswerInv, RequestInv, Listed, Kind
  <2>2. results[r][i] \in Item /\ results[r][j] \in Item
    BY <1>2, <2>1 DEF Good
  <2>3. /\ results[r][i].score \in Int /\ results[r][j].score \in Int
        /\ results[r][i].factor \in Nat /\ results[r][j].factor \in Nat
    BY <2>2 DEF Item
  <2>4. results[r][i].score >= results[r][j].score
    BY <1>2, <2>1 DEF Good, Ordered
  <2> QED
    BY <1>1, <1>2, <2>3, <2>4
<1>3. AnswerInv => BoostMonotone
  BY <1>2 DEF BoostMonotone
<1> QED
  BY <1>3, AnswersKeepInv, PTL
-----------------------------------------------------------------------------
(* The order of a merge.                                                   *)

\* A larger divisor gives a smaller quotient, if its square is not too large.
LEMMA QuotientFalls ==
  ASSUME NEW a \in Nat, NEW p \in Nat, NEW q \in Nat, 0 < p, p < q, q * q <= a
  PROVE  a \div q < a \div p
<1> DEFINE v == a \div q
           u == a \div p
<1>1. v \in Nat /\ u \in Nat /\ v * q <= a /\ a < (v + 1) * q /\ a < (u + 1) * p
  OBVIOUS
<1> HIDE DEF v, u
<1>2. q <= v
  <2>1. q * q < (v + 1) * q
    BY <1>1
  <2>2. ASSUME v + 1 <= q PROVE (v + 1) * q <= q * q
    BY <1>1, <2>2
  <2> QED
    BY <1>1, <2>1, <2>2
<1>3. (v + 1) * p <= a
  <2>1. v * p <= v * (q - 1)
    BY <1>1
  <2>2. (v + 1) * p = v * p + p /\ v * (q - 1) = v * q - v
    BY <1>1
  <2>3. PICK x \in Nat, y \in Nat, z \in Nat : x = v * p /\ y = v * q /\ z = (v + 1) * p
    BY <1>1
  <2> QED
    BY <1>1, <1>2, <2>1, <2>2, <2>3
<1>4. v + 1 <= u
  <2>1. (v + 1) * p < (u + 1) * p
    BY <1>1, <1>3
  <2>2. ASSUME u + 1 <= v + 1 PROVE (u + 1) * p <= (v + 1) * p
    BY <1>1, <2>2
  <2> QED
    BY <1>1, <2>1, <2>2
<1> QED
  BY <1>1, <1>4 DEF u, v

\* Of the two shares of a recall that counts, the better ranked has the larger.
LEMMA SharesFall ==
  ASSUME NEW weight \in Nat, weight > 0, NEW m \in Nat \ {0}, NEW n \in Nat, m < n, n <= 428
  PROVE  (weight * RankUnit) \div (60 + n) < (weight * RankUnit) \div (60 + m)
<1>1. RankUnit \in Nat /\ RankUnit >= 488 * 488
  BY DEF RankUnit
<1>2. PICK a \in Nat : a = weight * RankUnit
  BY <1>1
<1>3. a >= RankUnit
  BY <1>1, <1>2
<1>4. (60 + n) * (60 + n) <= 488 * 488
  BY DEF RankUnit
<1> QED
  BY <1>1, <1>2, <1>3, <1>4, QuotientFalls

\* A recall that counts gives its candidates a share.
LEMMA ShareIsPositive ==
  ASSUME NEW weight \in Nat, weight > 0, NEW m \in Nat \ {0}, m <= 428
  PROVE  (weight * RankUnit) \div (60 + m) > 0
<1>1. RankUnit \in Nat /\ RankUnit >= 488
  BY DEF RankUnit
<1>2. PICK a \in Nat : a = weight * RankUnit
  BY <1>1
<1>3. a >= RankUnit
  BY <1>1, <1>2
<1> QED
  BY <1>1, <1>2, <1>3

\* The rank of an id in a recall, or what stands for it.
PlaceIn(recall, id) == IF id \in Ids(recall) THEN RankOf(recall, id) ELSE RecallK + 1

\* The better candidate is ahead.
LEMMA BetterIsAhead ==
  ASSUME RecallK <= 428, NEW recalls, \A s \in Sources : IsRecall(recalls[s]) /\ Len(recalls[s]) <= RecallK,
         NEW weights \in [Sources -> Nat], NEW list, IsMerged(list, recalls, weights),
         NEW i \in DOMAIN list, NEW j \in DOMAIN list, i # j,
         \A s \in Sources : PlaceIn(recalls[s], list[i].id) <= PlaceIn(recalls[s], list[j].id)
  PROVE  i < j
<1> DEFINE x == list[i].id
           y == list[j].id
           Share(s, id) == ShareOf(s, id, recalls, weights)
<1>1. /\ i \in Nat /\ j \in Nat /\ x # y
      /\ list[i].score = Share("text", x) + Share("image", x)
      /\ list[j].score = Share("text", y) + Share("image", y)
      /\ Counting(y, recalls, weights) # {}
  BY DEF IsMerged, Distinct, EntryOf
<1>2. \A s \in Sources : Share(s, x) \in Nat /\ Share(s, y) \in Nat
  BY ShareIsNat
<1>3. ASSUME NEW s \in Sources
      PROVE  /\ s \in Counting(y, recalls, weights) => Share(s, y) < Share(s, x)
             /\ s \notin Counting(y, recalls, weights) => Share(s, y) = 0
  <2>1. s \notin Counting(y, recalls, weights) => Share(s, y) = 0
    BY DEF ShareOf
  <2>2. ASSUME s \in Counting(y, recalls, weights) PROVE Share(s, y) < Share(s, x)
    <3>1. weights[s] \in Nat /\ weights[s] > 0 /\ y \in Ids(recalls[s])
      BY <2>2 DEF Counting
    <3>2. /\ RankOf(recalls[s], y) \in DOMAIN recalls[s] /\ recalls[s][RankOf(recalls[s], y)].id = y
          /\ DOMAIN recalls[s] = 1 .. Len(recalls[s]) /\ Len(recalls[s]) \in Nat
      BY <3>1, RankIs DEF IsRecall
    <3>3. RankOf(recalls[s], y) \in Nat /\ RankOf(recalls[s], y) <= RecallK
      BY <3>2, Numbers
    <3>4. x \in Ids(recalls[s]) /\ RankOf(recalls[s], x) <= RankOf(recalls[s], y)
      BY <3>1, <3>3, Numbers DEF PlaceIn
    <3>5. /\ RankOf(recalls[s], x) \in Nat \ {0} /\ recalls[s][RankOf(recalls[s], x)].id = x
      BY <3>2, <3>4, RankIs
    <3>6. RankOf(recalls[s], x) < RankOf(recalls[s], y)
      BY <1>1, <3>2, <3>3, <3>4, <3>5
    <3>7. s \in Counting(x, recalls, weights)
      BY <3>1, <3>4 DEF Counting
    <3>8. RankOf(recalls[s], y) <= 428
      BY <3>3, Numbers
    <3>9. (weights[s] * RankUnit) \div (60 + RankOf(recalls[s], y)) <
             (weights[s] * RankUnit) \div (60 + RankOf(recalls[s], x))
      BY <3>1, <3>3, <3>5, <3>6, <3>8, SharesFall
    <3> QED
      BY <2>2, <3>7, <3>9 DEF ShareOf
  <2> QED
    BY <2>1, <2>2
<1> HIDE DEF Share, x, y
<1>4. list[j].score < list[i].score
  <2>1. "text" \in Sources /\ "image" \in Sources /\ \A s \in Sources : s = "text" \/ s = "image"
    BY DEF Sources
  <2>2. Share("text", y) <= Share("text", x) /\ Share("image", y) <= Share("image", x)
    BY <1>2, <1>3, <2>1
  <2>3. Share("text", y) < Share("text", x) \/ Share("image", y) < Share("image", x)
    BY <1>1, <1>3, <2>1 DEF Counting
  <2>4. /\ Share("text", x) \in Nat /\ Share("image", x) \in Nat
        /\ Share("text", y) \in Nat /\ Share("image", y) \in Nat
    BY <1>2, <2>1
  <2> QED
    BY <1>1, <2>2, <2>3, <2>4
<1>5. ASSUME j < i PROVE FALSE
  <2>1. Before(list[j], list[i])
    BY <1>5 DEF IsMerged
  <2>2. list[i].score \in Nat /\ list[j].score \in Nat
    BY <1>1, <1>2 DEF Sources
  <2> QED
    BY <1>4, <2>1, <2>2 DEF Before
<1> QED
  BY <1>1, <1>5

\* Of two candidates of a multimodal search, the one that is ranked at least as
\* high by each recall, and higher by one, comes first, for any weights the
\* request asks.  RecallK is at most 150 for such a search (k <= 50,
\* ingress.py:108 and 1584); beyond 428 the integer quotients of the model could
\* not tell two ranks apart.
THEOREM MergesRespectRecalls ==
  ASSUME RecallK <= 428 PROVE Spec => []MergeRespectsRecalls
<1>1. ASSUME AnswerInv PROVE MergeRespectsRecalls
  <2> SUFFICES ASSUME NEW r \in Requests, Kind(r) = "multimodal",
                      NEW i \in DOMAIN merged[r], NEW j \in DOMAIN merged[r]
               PROVE  LET Place(n, s) == IF merged[r][n].id \in Ids(found[r][s])
                                         THEN RankOf(found[r][s], merged[r][n].id) ELSE RecallK + 1
                      IN  /\ \A s \in Sources : Place(i, s) <= Place(j, s)
                          /\ \E s \in Sources : Place(i, s) < Place(j, s)
                          => i < j
    BY DEF MergeRespectsRecalls
  <2> DEFINE Place(n, s) == IF merged[r][n].id \in Ids(found[r][s])
                            THEN RankOf(found[r][s], merged[r][n].id) ELSE RecallK + 1
  <2> SUFFICES ASSUME \A s \in Sources : Place(i, s) <= Place(j, s),
                      \E s \in Sources : Place(i, s) < Place(j, s)
               PROVE  i < j
    OBVIOUS
  <2>1. ask[r] \in Asks /\ RequestInv(r) /\ ask[r].kind = "multimodal"
    BY <1>1, WhatIs DEF Kind
  <2>2. merged[r] # <<>>
    OBVIOUS
  <2>3. /\ \A s \in Sources : IsRecall(found[r][s]) /\ Len(found[r][s]) <= RecallK
        /\ IsMerged(merged[r], found[r], MergeWeights(ask[r]))
    BY <2>1, <2>2 DEF RequestInv, Recalled
  <2>4. MergeWeights(ask[r]) \in [Sources -> Nat]
    <3>1. ask[r].weights.text \in Int /\ ask[r].weights.image \in Int
      BY <2>1, PipelineAssumption
    <3>2. Given(ask[r].weights.text, 5) \in Int /\ Given(ask[r].weights.image, 5) \in Int
      BY <3>1 DEF Given
    <3> QED
      BY <3>2, WeightsAreNat DEF MergeWeights
  <2>5. i # j
    <3>1. \A s \in Sources : Place(i, s) \in Int
      <4>1. ASSUME NEW s \in Sources PROVE Place(i, s) \in Int
        <5>1. merged[r][i].id \in Ids(found[r][s]) => RankOf(found[r][s], merged[r][i].id) \in Int
          BY <2>3, RankIs DEF IsRecall
        <5> QED
          BY <5>1, Numbers
      <4> QED
        BY <4>1
    <3> QED
      BY <3>1
  <2>6. \A s \in Sources : PlaceIn(found[r][s], merged[r][i].id) <= PlaceIn(found[r][s], merged[r][j].id)
    BY DEF PlaceIn
  <2> HIDE DEF Place
  <2> QED
    BY <2>3, <2>4, <2>5, <2>6, BetterIsAhead
<1> QED
  BY <1>1, AnswersKeepInv, PTL
-----------------------------------------------------------------------------
(* Types.                                                                  *)

\* What the other invariants leave of the type invariant.
RestTypeOK ==
    /\ config \in Configs
    /\ reasons \in [Requests -> SUBSET Reasons]
    /\ reason \in [Requests -> {"none", "llm", "template", "fallback"}]
    /\ status \in [Requests -> {0, 200, 400, 422, 500, 503}]

\* What a step may write there.
LEMMA ServeWrites ==
  ASSUME NEW r \in Requests, Serve(r) \/ Submit(r) \/ ClientLeaves(r)
  PROVE  /\ config' = config
         /\ reasons' = reasons \/ \E why \in SUBSET Reasons : Record(r, why)
         /\ \/ reason' = reason
            \/ \E x \in {"llm", "template", "fallback"} : reason' = [reason EXCEPT ![r] = x]
         /\ \/ status' = status
            \/ \E code \in {200, 400, 422, 500, 503} : status' = [status EXCEPT ![r] = code]
<1>1. ASSUME NEW list, NEW from, Generate(r, list, from) \/ Respond(r, list, from)
      PROVE  status' = status \/ status' = [status EXCEPT ![r] = 200]
  BY <1>1 DEF Generate, Respond
<1>2. ASSUME NEW o, Substitute(r, o) PROVE \E why \in SUBSET Reasons : Record(r, why)
  BY <1>2 DEF Substitute, Reasons
<1>3. {} \in SUBSET Reasons
  OBVIOUS
<1>4. CASE Route(r) \/ RecallSearch(r) \/ ClientLeaves(r) \/ Popular(r) \/ Emptied(r) \/ Describe(r) \/ BoostFused(r)
  <2>1. config' = config /\ reasons' = reasons /\ reason' = reason
    BY <1>4 DEF Route, RecallSearch, ClientLeaves, Popular, Emptied, Describe, BoostFused, requestVars
  <2>2. status' = status \/ \E list, from : Generate(r, list, from) \/ Respond(r, list, from)
    BY <1>4, Zenon DEF Route, RecallSearch, ClientLeaves, Popular, Emptied, Describe, BoostFused, requestVars
  <2> QED
    BY <1>1, <2>1, <2>2
<1>5. CASE Embed(r) \/ Retrieve(r)
  <2>1. config' = config /\ status' = status /\ reason' = reason
    BY <1>5 DEF Embed, Retrieve
  <2>2. reasons' = reasons \/ \E o : Substitute(r, o)
    BY <1>5, Zenon DEF Embed, Retrieve
  <2> QED
    BY <1>2, <2>1, <2>2
<1>6. CASE Enrich(r)
  <2>1. config' = config /\ reason' = reason
    BY <1>6 DEF Enrich
  <2>2. Record(r, {"empty_results_allowed"}) \/ Record(r, {})
    BY <1>6 DEF Enrich
  <2>3. status' = status \/ \E list, from : Generate(r, list, from) \/ Respond(r, list, from)
    BY <1>6, Zenon DEF Enrich, Continue
  <2> QED
    BY <1>1, <1>3, <2>1, <2>2, <2>3 DEF Reasons
<1>7. CASE EnrichRaises(r)
  <2>1. config' = config /\ reason' = reason
    BY <1>7 DEF EnrichRaises
  <2>2. \/ Substitute(r, "failed") /\ status' = status
        \/ status' = [status EXCEPT ![r] = 500] /\ reasons' = reasons
    BY <1>7 DEF EnrichRaises
  <2> QED
    BY <1>2, <2>1, <2>2
<1>8. CASE RerankText(r)
  <2>1. config' = config /\ reason' = reason /\ reasons' = reasons
    BY <1>8 DEF RerankText
  <2>2. status' = status \/ \E list, from : Generate(r, list, from) \/ Respond(r, list, from)
    BY <1>8, Zenon DEF RerankText, Continue
  <2> QED
    BY <1>1, <2>1, <2>2
<1>9. CASE RerankMerged(r)
  <2>1. config' = config /\ reason' = reason
    BY <1>9 DEF RerankMerged
  <2>2. PICK o \in Outcomes : /\ \E list, from : Respond(r, list, from)
                              /\ Record(r, CASE o = "answered" -> {}
                                             [] o = "failed" -> {"rerank_failed"}
                                             [] o = "timeout" -> {"rerank_timeout"})
    BY <1>9, Zenon DEF RerankMerged
  <2>3. PICK why \in {{}, {"rerank_failed"}, {"rerank_timeout"}} : Record(r, why)
    BY <2>2 DEF Outcomes
  <2>4. why \in SUBSET Reasons
    BY <2>3 DEF Reasons
  <2> QED
    BY <1>1, <2>1, <2>2, <2>3, <2>4
<1>10. CASE BoostText(r)
  <2>1. config' = config /\ reason' = reason
    BY <1>10 DEF BoostText
  <2>2. PICK why : /\ \E list, from : Generate(r, list, from)
                   /\ Record(r, why)
                   /\ \/ why \in {{"redis_timeout"}, {"personalization_unavailable"}}
                      \/ \E s \in Loaded : why = s.degraded
    BY <1>10 DEF BoostText
  <2>3. \A s \in Loaded : s.degraded \in SUBSET Reasons
    BY PipelineAssumption DEF Loaded, Reasons
  <2>4. why \in SUBSET Reasons
    BY <2>2, <2>3 DEF Reasons
  <2> QED
    BY <1>1, <2>1, <2>2, <2>4
<1>11. CASE Explain(r)
  <2>1. config' = config /\ reasons' = reasons /\ Respond(r, results[r], origin[r])
    BY <1>11 DEF Explain
  <2>2. \E x \in {"llm", "template", "fallback"} : reason' = [reason EXCEPT ![r] = x]
    BY <1>11 DEF Explain, Sentences
  <2>3. status' = status \/ status' = [status EXCEPT ![r] = 200]
    BY <1>1, <2>1
  <2>4. \/ status' = status
        \/ \E code \in {200, 400, 422, 500, 503} : status' = [status EXCEPT ![r] = code]
    BY <2>3
  <2>5. config' = config /\ reasons' = reasons
    BY <2>1
  <2> QED
    BY <2>2, <2>4, <2>5, Zenon
<1>12. ASSUME NEW s \in Sources, LegEnds(r, s)
       PROVE  /\ config' = config /\ reason' = reason
              /\ \E why \in SUBSET Reasons : Record(r, why)
              /\ status' = status \/ status' = [status EXCEPT ![r] = 500]
  <2>1. config' = config /\ reason' = reason
    BY <1>12 DEF LegEnds
  <2>2. Record(r, {}) \/ Record(r, {ReasonOf(s)})
    BY <1>12, Zenon DEF LegEnds
  <2>3. status' = status \/ status' = [status EXCEPT ![r] = 500]
    BY <1>12, Zenon DEF LegEnds
  <2>4. {} \in SUBSET Reasons /\ {ReasonOf(s)} \in SUBSET Reasons
    BY DEF ReasonOf, Reasons
  <2>5. \E why \in SUBSET Reasons : Record(r, why)
    BY <2>2, <2>4
  <2> QED
    BY <2>1, <2>3, <2>5
<1>13. CASE ImageRecall(r)
  <2>1. config' = config /\ reason' = reason /\ reasons' = reasons
    BY <1>13 DEF ImageRecall
  <2>2. status' = status \/ status' = [status EXCEPT ![r] = 500]
    BY <1>13, Zenon DEF ImageRecall
  <2> QED
    BY <2>1, <2>2
<1>14. CASE Submit(r)
  <2>1. config' = config /\ reason' = reason /\ reasons' = reasons
    BY <1>14, Zenon DEF Submit, Refuse
  <2>2. status' = status \/ \E code \in {400, 422, 503} : status' = [status EXCEPT ![r] = code]
    BY <1>14 DEF Submit, Refuse
  <2> QED
    BY <2>1, <2>2
<1> QED
  BY <1>4, <1>5, <1>6, <1>7, <1>8, <1>9, <1>10, <1>11, <1>12, <1>13, <1>14 DEF Serve

LEMMA RestStep == RestTypeOK /\ [Next]_vars => RestTypeOK'
<1> SUFFICES ASSUME RestTypeOK, [Next]_vars PROVE RestTypeOK'
  OBVIOUS
<1>1. ASSUME NEW r \in Requests, Serve(r) \/ Submit(r) \/ ClientLeaves(r) PROVE RestTypeOK'
  <2>1. config' \in Configs
    BY <1>1, ServeWrites DEF RestTypeOK
  <2>2. reasons' \in [Requests -> SUBSET Reasons]
    <3>1. reasons' = reasons \/ \E why \in SUBSET Reasons : Record(r, why)
      BY <1>1, ServeWrites
    <3> QED
      BY <3>1 DEF Record, RestTypeOK
  <2>3. reason' \in [Requests -> {"none", "llm", "template", "fallback"}]
    <3>1. \/ reason' = reason
          \/ \E x \in {"llm", "template", "fallback"} : reason' = [reason EXCEPT ![r] = x]
      BY <1>1, ServeWrites
    <3> QED
      BY <3>1 DEF RestTypeOK
  <2>4. status' \in [Requests -> {0, 200, 400, 422, 500, 503}]
    <3>1. \/ status' = status
          \/ \E code \in {200, 400, 422, 500, 503} : status' = [status EXCEPT ![r] = code]
      BY <1>1, ServeWrites
    <3> QED
      BY <3>1 DEF RestTypeOK
  <2> QED
    BY <2>1, <2>2, <2>3, <2>4 DEF RestTypeOK
<1>2. CASE UNCHANGED <<config, reasons, reason, status>>
  BY <1>2 DEF RestTypeOK
<1>3. CASE Probe \/ (\E c \in Calls : Admit(c) \/ Return(c)) \/ (\E d \in Deployments : ThreadEnds(d))
           \/ UNCHANGED vars
  BY <1>2, <1>3 DEF Probe, Admit, Return, ThreadEnds, vars, requestVars
<1> QED
  BY <1>1, <1>3 DEF Next

\* Types: every list that was found or answered has ids of the catalogue, with
\* integer scores, sources among the two recalls and factors not negative; and
\* every reason that is recorded is one the API names.
THEOREM PipelineTypeCorrect == Spec => []PipelineTypeOK
<1>1. Init => RestTypeOK
  BY DEF Init, RestTypeOK
<1>2. Init => ReaderInv
  BY DEF Init, ReaderInv, ReaderSound, Modes
<1>3. ASSUME RestTypeOK, ReaderInv, AnswerInv PROVE PipelineTypeOK
  <2>1. found \in [Requests -> [Sources -> Seq(Candidate)]]
    <3>1. \A r \in Requests, s \in Sources : found[r][s] \in Seq(Candidate)
      BY <1>3 DEF AnswerInv, RequestInv, Recalled, IsRecall
    <3>2. ASSUME NEW r \in Requests PROVE found[r] \in [Sources -> Seq(Candidate)]
      <4>1. found[r] = [s \in Sources |-> found[r][s]]
        BY <1>3, WhatIs
      <4> QED
        BY <3>1, <4>1
    <3>3. found = [r \in Requests |-> found[r]]
      BY <1>3 DEF AnswerInv
    <3> QED
      BY <3>2, <3>3
  <2>2. results \in [Requests -> Seq(Item)]
    <3>1. \A r \in Requests : results[r] \in Seq(Item)
      BY <1>3 DEF AnswerInv, RequestInv, Listed
    <3>2. results = [r \in Requests |-> results[r]]
      BY <1>3 DEF AnswerInv
    <3> QED
      BY <3>1, <3>2
  <2> QED
    BY <1>3, <2>1, <2>2 DEF PipelineTypeOK, RestTypeOK, ReaderInv, AnswerInv, OriginInv
<1> QED
  BY <1>1, <1>2, <1>3, RestStep, ReaderStep, AnswersKeepInv, PTL DEF Spec
-----------------------------------------------------------------------------
(* Every search goes on, unless a call without a deadline keeps it.         *)

\* The stages that a kind of search goes through.
KindsKeep ==
    \A r \in Requests :
        /\ stage[r] = "recalling" /\ Kind(r) = "image" => at[Leg(r, "text")] = "none"
        /\ stage[r] = "reranking" => Kind(r) \in {"text", "multimodal"}
        /\ stage[r] = "snapshot" => Kind(r) \in {"text", "hybrid"}

\* The guards of Serve(r).
CanServe(r) ==
    \/ stage[r] \in {"enriching", "describing"}
    \/ stage[r] = "snapshot" /\ Kind(r) \in {"text", "hybrid"}
    \/ /\ stage[r] \in DOMAIN Deployed
       /\ stage[r] = "reranking" => Kind(r) \in {"text", "multimodal"}
       /\ \E o \in Outcomes : Outcome(Leg(r, "text"), o)
    \/ stage[r] = "recalling" /\ Kind(r) = "image" /\ \E o \in Outcomes : Outcome(Leg(r, "image"), o)
    \/ /\ stage[r] = "recalling" /\ Kind(r) # "image"
       /\ \E s \in Sources, o \in Outcomes : Outcome(Leg(r, s), o)

EveryoneGoesOn ==
    \A r \in Requests : stage[r] \notin {"idle", "done", "gone"} => CanServe(r) \/ HeldUp(r)

-----------------------------------------------------------------------------
(* No search goes round in a circle.                                       *)

StageNo == [idle |-> 0, routing |-> 1, embedding |-> 2, retrieving |-> 3, recalling |-> 2,
            enriching |-> 6, emptied |-> 7, reranking |-> 7, describing |-> 7, snapshot |-> 8,
            generating |-> 9, popular |-> 9, done |-> 10, gone |-> 10]

\* How far the two legs of a recall have come.
LegNo(r) ==
    (IF at[Leg(r, "image")] = "none" THEN 1 ELSE 0)
    + (IF at[Leg(r, "text")] = "none" THEN 2 ELSE IF callee[Leg(r, "text")] = "retrieval" THEN 1 ELSE 0)
Progress(r) == StageNo[stage[r]] + (IF stage[r] = "recalling" THEN LegNo(r) ELSE 0)

\* No step takes a request back, and each of its own takes it on.
SearchesAdvance ==
    \A r \in Requests :
        /\ Progress(r) \in 0 .. 10 /\ Progress(r)' >= Progress(r)
        /\ Submit(r) \/ Serve(r) \/ ClientLeaves(r) => Progress(r)' > Progress(r)

AwaitInv ==
    /\ PoolTypeOK
    /\ stage \in [Requests -> Stages]
    /\ CallsAreAwaited
    /\ KindsKeep

LEMMA DeployedIs ==
  /\ DOMAIN Deployed = {"routing", "popular", "emptied", "embedding", "retrieving", "reranking", "generating"}
  /\ Deployed["routing"] = "router"
  /\ Deployed["popular"] = "popularity" /\ Deployed["emptied"] = "popularity"
  /\ Deployed["embedding"] = "embedding" /\ Deployed["retrieving"] = "retrieval"
  /\ Deployed["reranking"] = "reranker" /\ Deployed["generating"] = "generation"
BY DEF Deployed

\* What a turn of r does to the calls.
LEMMA TurnLegs ==
  ASSUME NEW r \in Requests, NEW S \in SUBSET Legs(r), NEW places, NEW to,
         DOMAIN to \subseteq Legs(r), Turn(S, places, to)
  PROVE  /\ \A q \in Requests \ {r}, s \in Sources :
               at'[Leg(q, s)] = at[Leg(q, s)] /\ callee'[Leg(q, s)] = callee[Leg(q, s)]
         /\ \A s \in Sources :
               IF Leg(r, s) \in DOMAIN to
               THEN at'[Leg(r, s)] # "none" /\ callee'[Leg(r, s)] = to[Leg(r, s)]
               ELSE /\ at'[Leg(r, s)] = IF Leg(r, s) \in S THEN "none" ELSE at[Leg(r, s)]
                    /\ callee'[Leg(r, s)] = callee[Leg(r, s)]
<1>1. /\ callee' = [c \in Calls |-> IF c \in DOMAIN to THEN to[c] ELSE callee[c]]
      /\ at' = [c \in Calls |-> IF c \in DOMAIN to
                                THEN IF model[to[c]] = "missing" THEN "failed" ELSE "waiting"
                                ELSE IF c \in S THEN "none" ELSE at[c]]
  BY DEF Turn
<1>2. \A q \in Requests, s \in Sources : Leg(q, s) \in Calls
  BY LegIsCall
<1>3. \A q \in Requests, s \in Sources : q # r => Leg(q, s) \notin Legs(r)
  BY DEF Leg, Legs
<1> QED
  BY <1>1, <1>2, <1>3

\* The calls of the other requests are left alone.
Alone(r) ==
    \A q \in Requests \ {r}, s \in Sources :
        at'[Leg(q, s)] = at[Leg(q, s)] /\ callee'[Leg(q, s)] = callee[Leg(q, s)]

\* r has no call under way, or only one, to d.
Silent(r) == at'[Leg(r, "text")] = "none" /\ at'[Leg(r, "image")] = "none"
Rings(r, d) ==
    at'[Leg(r, "text")] # "none" /\ callee'[Leg(r, "text")] = d /\ at'[Leg(r, "image")] = "none"

\* The turns of a handler that awaits one call at most.
LEMMA TurnToNone ==
  ASSUME NEW r \in Requests, NEW S \in {{}, {Leg(r, "text")}}, NEW places, Turn(S, places, NoCall),
         at[Leg(r, "image")] = "none", S = {} => at[Leg(r, "text")] = "none"
  PROVE  Alone(r) /\ Silent(r)
<1>1. S \in SUBSET Legs(r) /\ DOMAIN NoCall = {} /\ "text" \in Sources /\ "image" \in Sources
  BY DEF Legs, NoCall, Sources
<1> DEFINE to == NoCall
<1>2. DOMAIN to \subseteq Legs(r) /\ Turn(S, places, to) /\ DOMAIN to = {}
  BY <1>1
<1> HIDE DEF to
<1>3. /\ \A q \in Requests \ {r}, s \in Sources :
            at'[Leg(q, s)] = at[Leg(q, s)] /\ callee'[Leg(q, s)] = callee[Leg(q, s)]
      /\ \A s \in Sources :
            IF Leg(r, s) \in DOMAIN to
            THEN at'[Leg(r, s)] # "none" /\ callee'[Leg(r, s)] = to[Leg(r, s)]
            ELSE /\ at'[Leg(r, s)] = IF Leg(r, s) \in S THEN "none" ELSE at[Leg(r, s)]
                 /\ callee'[Leg(r, s)] = callee[Leg(r, s)]
  BY <1>1, <1>2, TurnLegs
<1>4. /\ \A q \in Requests \ {r}, s \in Sources :
            at'[Leg(q, s)] = at[Leg(q, s)] /\ callee'[Leg(q, s)] = callee[Leg(q, s)]
      /\ \A s \in Sources : at'[Leg(r, s)] = IF Leg(r, s) \in S THEN "none" ELSE at[Leg(r, s)]
  BY <1>2, <1>3
<1>5. S = {} \/ Leg(r, "text") \in S
  OBVIOUS
<1> QED
  BY <1>1, <1>4, <1>5 DEF Alone, Silent

LEMMA TurnToOne ==
  ASSUME NEW r \in Requests, NEW S \in {{}, {Leg(r, "text")}}, NEW places, NEW d,
         Turn(S, places, OneCall(Leg(r, "text"), d)), at[Leg(r, "image")] = "none"
  PROVE  Alone(r) /\ Rings(r, d)
<1> DEFINE to == OneCall(Leg(r, "text"), d)
<1>1. /\ S \in SUBSET Legs(r) /\ DOMAIN to = {Leg(r, "text")} /\ to[Leg(r, "text")] = d
      /\ "text" \in Sources /\ "image" \in Sources /\ Leg(r, "image") # Leg(r, "text")
  BY DEF Legs, OneCall, Sources, Leg
<1>2. DOMAIN to \subseteq Legs(r)
  BY <1>1 DEF Legs
<1>3. Turn(S, places, to)
  OBVIOUS
<1> HIDE DEF to
<1>4. /\ \A q \in Requests \ {r}, s \in Sources :
            at'[Leg(q, s)] = at[Leg(q, s)] /\ callee'[Leg(q, s)] = callee[Leg(q, s)]
      /\ \A s \in Sources :
            IF Leg(r, s) \in DOMAIN to
            THEN at'[Leg(r, s)] # "none" /\ callee'[Leg(r, s)] = to[Leg(r, s)]
            ELSE /\ at'[Leg(r, s)] = IF Leg(r, s) \in S THEN "none" ELSE at[Leg(r, s)]
                 /\ callee'[Leg(r, s)] = callee[Leg(r, s)]
  BY <1>1, <1>2, <1>3, TurnLegs
<1>5. at'[Leg(r, "image")] = "none"
  BY <1>1, <1>4
<1> QED
  BY <1>1, <1>4, <1>5 DEF Alone, Rings

\* Request r goes to stage n, further on, and awaits what n awaits.
GoesTo(r, n) ==
    /\ ask' = ask /\ stage' = [stage EXCEPT ![r] = n] /\ n \in Stages \ {"recalling"} /\ Alone(r)
    /\ IF n \in DOMAIN Deployed THEN Rings(r, Deployed[n]) ELSE Silent(r)
    /\ n = "reranking" => Kind(r) \in {"text", "multimodal"}
    /\ n = "snapshot" => Kind(r) \in {"text", "hybrid"}
    /\ StageNo[n] > Progress(r)

LEMMA StageNoIs ==
  /\ StageNo["idle"] = 0 /\ StageNo["routing"] = 1 /\ StageNo["embedding"] = 2
  /\ StageNo["retrieving"] = 3 /\ StageNo["recalling"] = 2 /\ StageNo["enriching"] = 6
  /\ StageNo["emptied"] = 7 /\ StageNo["reranking"] = 7 /\ StageNo["describing"] = 7
  /\ StageNo["snapshot"] = 8 /\ StageNo["generating"] = 9 /\ StageNo["popular"] = 9
  /\ StageNo["done"] = 10 /\ StageNo["gone"] = 10
BY DEF StageNo

LEMMA ProgressIs ==
  ASSUME AwaitInv, NEW r \in Requests
  PROVE  /\ stage[r] # "recalling" => Progress(r) = StageNo[stage[r]]
         /\ stage[r] = "recalling" => Progress(r) \in 2 .. 4
         /\ Progress(r) \in 0 .. 10
<1>1. stage[r] \in Stages /\ LegNo(r) \in 0 .. 3
      /\ (stage[r] = "recalling" => \E s \in Sources : at[Leg(r, s)] # "none")
  BY DEF AwaitInv, CallsAreAwaited, LegNo
<1>2. stage[r] = "recalling" => LegNo(r) \in 0 .. 2
  BY <1>1 DEF LegNo, Sources
<1>3. stage[r] # "recalling" => Progress(r) = StageNo[stage[r]]
  <2>1. \A n \in Stages : StageNo[n] \in 0 .. 10
    BY StageNoIs DEF Stages
  <2> QED
    BY <1>1, <2>1 DEF Progress
<1>4. stage[r] = "recalling" => Progress(r) \in 2 .. 4
  BY <1>2, StageNoIs DEF Progress
<1>5. \A n \in Stages : StageNo[n] \in 0 .. 10
  BY StageNoIs DEF Stages
<1> QED
  BY <1>1, <1>3, <1>4, <1>5

\* A request that recalls has no call of the other stages, and so on: what it
\* may await.
LEMMA AwaitsOnly ==
  ASSUME AwaitInv, NEW r \in Requests
  PROVE  /\ stage[r] # "recalling" => at[Leg(r, "image")] = "none"
         /\ stage[r] \notin DOMAIN Deployed \cup {"recalling"} => at[Leg(r, "text")] = "none"
BY DEF AwaitInv, CallsAreAwaited

\* Further on by the stages alone.
LEMMA Further ==
  ASSUME AwaitInv, NEW r \in Requests, NEW n \in Stages \ {"recalling"},
         ask' = ask, GoTo(r, n), stage[r] # "recalling", StageNo[n] > StageNo[stage[r]],
         n = "reranking" => Kind(r) \in {"text", "multimodal"},
         n = "snapshot" => Kind(r) \in {"text", "hybrid"},
         NEW S \in {{}, {Leg(r, "text")}}, NEW places,
         S = {} => stage[r] \notin DOMAIN Deployed,
         \/ n \in DOMAIN Deployed /\ Turn(S, places, OneCall(Leg(r, "text"), Deployed[n]))
         \/ n \notin DOMAIN Deployed /\ Turn(S, places, NoCall)
         \/ n \notin DOMAIN Deployed /\ S = {} /\ UNCHANGED poolVars
  PROVE  GoesTo(r, n)
<1>1. at[Leg(r, "image")] = "none" /\ (S = {} => at[Leg(r, "text")] = "none")
  BY AwaitsOnly
<1>2. Alone(r) /\ (IF n \in DOMAIN Deployed THEN Rings(r, Deployed[n]) ELSE Silent(r))
  <2>1. CASE n \in DOMAIN Deployed /\ Turn(S, places, OneCall(Leg(r, "text"), Deployed[n]))
    BY <1>1, <2>1, TurnToOne
  <2>2. CASE n \notin DOMAIN Deployed /\ Turn(S, places, NoCall)
    BY <1>1, <2>2, TurnToNone
  <2>3. CASE n \notin DOMAIN Deployed /\ S = {} /\ UNCHANGED poolVars
    BY <1>1, <2>3 DEF poolVars, Alone, Silent
  <2> QED
    BY <2>1, <2>2, <2>3
<1>3. StageNo[n] > Progress(r)
  BY ProgressIs
<1> QED
  BY <1>2, <1>3 DEF GoesTo, GoTo

\* A text search's list is explained or answered: the stage and the call.
LEMMA Generating ==
  ASSUME AwaitInv, NEW r \in Requests, ask' = ask, stage[r] # "recalling", StageNo[stage[r]] < 9,
         NEW list, NEW from, Generate(r, list, from),
         NEW S \in {{}, {Leg(r, "text")}}, NEW places, S = {} => stage[r] \notin DOMAIN Deployed,
         Turn(S, places, Explaining(r, list))
  PROVE  \E n : GoesTo(r, n)
<1>1. CASE Explained(r, AtMost(list, K))
  <2>1. GoTo(r, "generating") /\ Turn(S, places, OneCall(Leg(r, "text"), Deployed["generating"]))
    BY <1>1, DeployedIs DEF Generate, Explaining
  <2>2. GoesTo(r, "generating")
    <3>1. "generating" \in Stages \ {"recalling"} /\ "generating" \in DOMAIN Deployed
      BY DeployedIs DEF Stages
    <3>2. StageNo["generating"] > StageNo[stage[r]]
      BY StageNoIs DEF AwaitInv, Stages
    <3> QED
      BY <2>1, <3>1, <3>2, Further
  <2> QED
    BY <2>2
<1>2. CASE ~Explained(r, AtMost(list, K))
  <2>1. GoTo(r, "done") /\ Turn(S, places, NoCall)
    BY <1>2 DEF Generate, Explaining, Respond
  <2>2. GoesTo(r, "done")
    <3>1. "done" \in Stages \ {"recalling"} /\ "done" \notin DOMAIN Deployed
      BY DeployedIs DEF Stages
    <3>2. StageNo["done"] > StageNo[stage[r]]
      BY StageNoIs DEF AwaitInv, Stages
    <3> QED
      BY <2>1, <3>1, <3>2, Further
  <2> QED
    BY <2>2
<1> QED
  BY <1>1, <1>2

\* All steps of a request, but those of the legs of a recall.
LEMMA TextGoes ==
  ASSUME AwaitInv, NEW r \in Requests,
         \/ Route(r) \/ Embed(r) \/ Retrieve(r) \/ Popular(r) \/ Emptied(r) \/ Enrich(r)
         \/ EnrichRaises(r) \/ RerankText(r) \/ RerankMerged(r) \/ BoostText(r) \/ BoostFused(r)
         \/ Explain(r) \/ Describe(r)
  PROVE  \E n : GoesTo(r, n)
<1> DEFINE text == Leg(r, "text")
<1>0. \A n \in Stages : n # "recalling" =>
          n \in {"idle", "routing", "popular", "emptied", "embedding", "retrieving", "enriching",
                 "describing", "reranking", "snapshot", "generating", "done", "gone"}
  BY DEF Stages
<1>1. ASSUME NEW n \in Stages \ {"recalling"}, ask' = ask, GoTo(r, n), stage[r] # "recalling",
             StageNo[n] > StageNo[stage[r]],
             n \notin {"reranking", "snapshot"}, stage[r] \notin DOMAIN Deployed, n \notin DOMAIN Deployed,
             UNCHANGED poolVars
      PROVE  \E m : GoesTo(r, m)
  <2>1. GoesTo(r, n)
    BY <1>1, Further
  <2> QED
    BY <2>1
<1>2. CASE Route(r)
  <2>1. PICK n \in {"popular", "embedding"} :
            GoTo(r, n) /\ Turn({text}, "kept", OneCall(text, Deployed[n]))
    <3>1. PICK o \in Outcomes :
              LET p == Routed(r, o)
                  popular == p.intent = "BROWSE" \/ (p.flow = "base" /\ config.base = "popularity")
              IN  /\ GoTo(r, IF popular THEN "popular" ELSE "embedding")
                  /\ Turn({text}, "kept", OneCall(text, IF popular THEN "popularity" ELSE "embedding"))
      BY <1>2, Zenon DEF Route
    <3> QED
      BY <3>1, DeployedIs
  <2>2. ask' = ask /\ stage[r] = "routing"
    BY <1>2, Zenon DEF Route
  <2>3. /\ n \in Stages \ {"recalling"} /\ n \in DOMAIN Deployed
        /\ StageNo[n] > StageNo[stage[r]] /\ stage[r] # "recalling" /\ n \notin {"reranking", "snapshot"}
    BY <2>2, StageNoIs, DeployedIs DEF Stages
  <2>4. GoesTo(r, n)
    BY <2>1, <2>2, <2>3, Further
  <2> QED
    BY <2>4
<1>3. CASE Embed(r)
  <2>1. PICK n \in {"retrieving", "popular"} : \E places :
            GoTo(r, n) /\ Turn({text}, places, OneCall(text, Deployed[n]))
    <3>1. PICK o \in Outcomes, places \in Places :
              IF o = "answered"
              THEN GoTo(r, "retrieving") /\ Turn({text}, places, OneCall(text, "retrieval"))
              ELSE Substitute(r, o) /\ Turn({text}, places, OneCall(text, "popularity"))
      BY <1>3, Zenon DEF Embed
    <3> QED
      BY <3>1, DeployedIs DEF Substitute
  <2>2. ask' = ask /\ stage[r] = "embedding"
    BY <1>3, Zenon DEF Embed
  <2>3. /\ n \in Stages \ {"recalling"} /\ n \in DOMAIN Deployed
        /\ StageNo[n] > StageNo[stage[r]] /\ stage[r] # "recalling" /\ n \notin {"reranking", "snapshot"}
    BY <2>2, StageNoIs, DeployedIs DEF Stages
  <2>4. GoesTo(r, n)
    BY <2>1, <2>2, <2>3, Further
  <2> QED
    BY <2>4
<1>4. CASE Retrieve(r)
  <2>1. PICK places : \/ GoTo(r, "enriching") /\ Turn({text}, places, NoCall)
                      \/ GoTo(r, "popular") /\ Turn({text}, places, OneCall(text, Deployed["popular"]))
    <3>1. PICK o \in Outcomes, places \in Places :
              /\ Turn({text}, places, IF o = "answered" THEN NoCall ELSE OneCall(text, "popularity"))
              /\ IF o = "answered" THEN GoTo(r, "enriching") ELSE Substitute(r, o)
      BY <1>4, Zenon DEF Retrieve
    <3> QED
      BY <3>1, DeployedIs DEF Substitute
  <2>2. ask' = ask /\ stage[r] = "retrieving"
    BY <1>4, Zenon DEF Retrieve
  <2>3. CASE GoTo(r, "enriching") /\ Turn({text}, places, NoCall)
    <3>1. GoesTo(r, "enriching")
      BY <2>2, <2>3, Further, StageNoIs, DeployedIs DEF Stages
    <3> QED
      BY <3>1
  <2>4. CASE GoTo(r, "popular") /\ Turn({text}, places, OneCall(text, Deployed["popular"]))
    <3>1. GoesTo(r, "popular")
      BY <2>2, <2>4, Further, StageNoIs, DeployedIs DEF Stages
    <3> QED
      BY <3>1
  <2> QED
    BY <2>1, <2>3, <2>4
<1>5. CASE RerankMerged(r) \/ Explain(r) \/ Popular(r)
  <2>1. PICK places : Turn({text}, places, NoCall)
    BY <1>5, Zenon DEF RerankMerged, Explain, Popular
  <2>2. ask' = ask /\ stage[r] \in {"reranking", "generating", "popular"}
    BY <1>5, Zenon DEF RerankMerged, Explain, Popular
  <2>3. GoTo(r, "done")
    BY <1>5, Zenon DEF RerankMerged, Explain, Popular, Respond
  <2>4. GoesTo(r, "done")
    BY <2>1, <2>2, <2>3, Further, StageNoIs, DeployedIs DEF Stages
  <2> QED
    BY <2>4
<1>6. CASE BoostFused(r) \/ Describe(r)
  <2>1. /\ ask' = ask /\ stage[r] \in {"snapshot", "describing"} /\ UNCHANGED poolVars
        /\ GoTo(r, "done")
    BY <1>6 DEF BoostFused, Describe, Respond
  <2> QED
    BY <1>1, <2>1, StageNoIs, DeployedIs DEF Stages
<1>7. CASE EnrichRaises(r)
  <2>1. /\ ask' = ask /\ stage[r] = "enriching"
        /\ \/ GoTo(r, "popular") /\ Turn({}, "kept", OneCall(text, Deployed["popular"]))
           \/ GoTo(r, "done") /\ UNCHANGED poolVars
    BY <1>7, DeployedIs DEF EnrichRaises, Substitute
  <2>2. CASE GoTo(r, "popular") /\ Turn({}, "kept", OneCall(text, Deployed["popular"]))
    <3>1. /\ "popular" \in Stages \ {"recalling"} /\ "popular" \in DOMAIN Deployed
          /\ StageNo["popular"] > StageNo[stage[r]]
          /\ stage[r] # "recalling" /\ stage[r] \notin DOMAIN Deployed
      BY <2>1, StageNoIs, DeployedIs DEF Stages
    <3>2. GoesTo(r, "popular")
      BY <2>1, <2>2, <3>1, Further
    <3> QED
      BY <3>2
  <2>3. CASE GoTo(r, "done") /\ UNCHANGED poolVars
    BY <1>1, <2>1, <2>3, StageNoIs, DeployedIs DEF Stages
  <2> QED
    BY <2>1, <2>2, <2>3
<1>10. CASE Emptied(r)
  <2>1. PICK list : Generate(r, list, "popularity") /\ Turn({text}, "kept", Explaining(r, list))
    BY <1>10, Zenon DEF Emptied
  <2>2. ask' = ask /\ stage[r] = "emptied"
    BY <1>10, Zenon DEF Emptied
  <2>3. stage[r] # "recalling" /\ StageNo[stage[r]] < 9
    BY <2>2, StageNoIs
  <2> QED
    BY <2>1, <2>2, <2>3, Generating
<1>11. CASE BoostText(r)
  <2>1. PICK list : Generate(r, list, "search") /\ Turn({}, "kept", Explaining(r, list))
    BY <1>11, Zenon DEF BoostText
  <2>2. ask' = ask /\ stage[r] = "snapshot"
    BY <1>11 DEF BoostText
  <2>3. stage[r] # "recalling" /\ StageNo[stage[r]] < 9 /\ stage[r] \notin DOMAIN Deployed
    BY <2>2, StageNoIs, DeployedIs
  <2> QED
    BY <2>1, <2>2, <2>3, Generating
<1>8. CASE RerankText(r)
  <2>1. ask' = ask /\ stage[r] = "reranking" /\ Kind(r) = "text"
    BY <1>8 DEF RerankText
  <2>2. PICK places, list : \/ GoTo(r, "snapshot") /\ Turn({text}, places, NoCall)
                            \/ Generate(r, list, "search") /\ Turn({text}, places, Explaining(r, list))
    BY <1>8, Zenon DEF RerankText, Continue
  <2>3. CASE GoTo(r, "snapshot") /\ Turn({text}, places, NoCall)
    <3>1. GoesTo(r, "snapshot")
      BY <2>1, <2>3, Further, StageNoIs, DeployedIs DEF Stages
    <3> QED
      BY <3>1
  <2>4. CASE Generate(r, list, "search") /\ Turn({text}, places, Explaining(r, list))
    <3>1. stage[r] # "recalling" /\ StageNo[stage[r]] < 9
      BY <2>1, StageNoIs
    <3> QED
      BY <2>1, <2>4, <3>1, Generating
  <2> QED
    BY <2>2, <2>3, <2>4
<1>9. CASE Enrich(r)
  <2>1. /\ ask' = ask /\ stage[r] = "enriching" /\ stage[r] \notin DOMAIN Deployed
        /\ stage[r] # "recalling" /\ StageNo[stage[r]] < 9
    BY <1>9, StageNoIs, DeployedIs DEF Enrich
  <2>2. PICK list :
          LET next == AfterEnrichment(r, list)
          IN  /\ IF next # "answer" THEN Continue(r, next, list)
                 ELSE IF Kind(r) = "text" THEN Generate(r, list, "search")
                 ELSE Respond(r, list, "search")
              /\ Turn({}, "kept", IF next = "reranking" THEN OneCall(text, "reranker")
                                  ELSE IF next = "emptied" THEN OneCall(text, "popularity")
                                  ELSE IF next = "answer" /\ Kind(r) = "text" THEN Explaining(r, list)
                                  ELSE NoCall)
    BY <1>9, Zenon DEF Enrich
  <2>3. /\ AfterEnrichment(r, list) \in {"emptied", "reranking", "snapshot", "answer"}
        /\ AfterEnrichment(r, list) = "reranking" => Kind(r) \in {"text", "multimodal"}
        /\ AfterEnrichment(r, list) = "snapshot" => Kind(r) = "hybrid"
    BY DEF AfterEnrichment
  <2>4. CASE AfterEnrichment(r, list) = "answer" /\ Kind(r) = "text"
    <3>1. Generate(r, list, "search") /\ Turn({}, "kept", Explaining(r, list))
      BY <2>2, <2>4
    <3> QED
      BY <2>1, <3>1, Generating
  <2>5. CASE AfterEnrichment(r, list) = "answer" /\ Kind(r) # "text"
    <3>1. GoTo(r, "done") /\ Turn({}, "kept", NoCall)
      BY <2>2, <2>5 DEF Respond
    <3>2. "done" \in Stages \ {"recalling"} /\ "done" \notin DOMAIN Deployed /\ StageNo["done"] > StageNo[stage[r]]
      BY <2>1, StageNoIs, DeployedIs DEF Stages
    <3>3. GoesTo(r, "done")
      BY <2>1, <3>1, <3>2, Further
    <3> QED
      BY <3>3
  <2>6. CASE AfterEnrichment(r, list) = "reranking"
    <3>1. GoTo(r, "reranking") /\ Turn({}, "kept", OneCall(text, Deployed["reranking"]))
      BY <2>2, <2>6, DeployedIs DEF Continue
    <3>2. /\ "reranking" \in Stages \ {"recalling"} /\ "reranking" \in DOMAIN Deployed
          /\ StageNo["reranking"] > StageNo[stage[r]] /\ Kind(r) \in {"text", "multimodal"}
      BY <2>1, <2>3, <2>6, StageNoIs, DeployedIs DEF Stages
    <3>3. GoesTo(r, "reranking")
      BY <2>1, <3>1, <3>2, Further
    <3> QED
      BY <3>3
  <2>7. CASE AfterEnrichment(r, list) = "snapshot"
    <3>1. GoTo(r, "snapshot") /\ Turn({}, "kept", NoCall)
      BY <2>2, <2>7 DEF Continue
    <3>2. /\ "snapshot" \in Stages \ {"recalling"} /\ "snapshot" \notin DOMAIN Deployed
          /\ StageNo["snapshot"] > StageNo[stage[r]] /\ Kind(r) \in {"text", "hybrid"}
      BY <2>1, <2>3, <2>7, StageNoIs, DeployedIs DEF Stages
    <3>3. GoesTo(r, "snapshot")
      BY <2>1, <3>1, <3>2, Further
    <3> QED
      BY <3>3
  <2>8. CASE AfterEnrichment(r, list) = "emptied"
    <3>1. GoTo(r, "emptied") /\ Turn({}, "kept", OneCall(text, Deployed["emptied"]))
      BY <2>2, <2>8, DeployedIs DEF Continue
    <3>2. /\ "emptied" \in Stages \ {"recalling"} /\ "emptied" \in DOMAIN Deployed
          /\ StageNo["emptied"] > StageNo[stage[r]]
      BY <2>1, StageNoIs, DeployedIs DEF Stages
    <3>3. GoesTo(r, "emptied")
      BY <2>1, <3>1, <3>2, Further
    <3> QED
      BY <3>3
  <2> QED
    BY <2>3, <2>4, <2>5, <2>6, <2>7, <2>8
<1> QED
  BY <1>2, <1>3, <1>4, <1>5, <1>6, <1>7, <1>8, <1>9, <1>10, <1>11

\* Request r begins to recall, or one of its legs goes on.
RecallsOn(r) ==
    /\ ask' = ask /\ stage[r] \in {"idle", "recalling"} /\ stage' = [stage EXCEPT ![r] = "recalling"]
    /\ Alone(r)
    /\ at'[Leg(r, "image")] # "none" \/ at'[Leg(r, "text")] # "none"
    /\ at'[Leg(r, "image")] # "none" => callee'[Leg(r, "image")] = "vision"
    /\ at'[Leg(r, "text")] # "none" =>
          callee'[Leg(r, "text")] \in {"embedding", "retrieval"} /\ Kind(r) # "image"
    /\ Progress(r)' > Progress(r)

\* A leg that ends, or a client that leaves.
LEMMA LegsEnd ==
  ASSUME NEW r \in Requests, NEW S \in SUBSET Legs(r), NEW places, Turn(S, places, NoCall)
  PROVE  /\ Alone(r)
         /\ \A s \in Sources : /\ at'[Leg(r, s)] = IF Leg(r, s) \in S THEN "none" ELSE at[Leg(r, s)]
                               /\ callee'[Leg(r, s)] = callee[Leg(r, s)]
<1> DEFINE to == NoCall
<1>1. DOMAIN to \subseteq Legs(r) /\ Turn(S, places, to) /\ S \in SUBSET Legs(r)
  BY DEF NoCall
<1>2. DOMAIN to = {}
  BY DEF NoCall
<1> HIDE DEF to
<1>3. /\ \A q \in Requests \ {r}, s \in Sources :
            at'[Leg(q, s)] = at[Leg(q, s)] /\ callee'[Leg(q, s)] = callee[Leg(q, s)]
      /\ \A s \in Sources :
            IF Leg(r, s) \in DOMAIN to
            THEN at'[Leg(r, s)] # "none" /\ callee'[Leg(r, s)] = to[Leg(r, s)]
            ELSE /\ at'[Leg(r, s)] = IF Leg(r, s) \in S THEN "none" ELSE at[Leg(r, s)]
                 /\ callee'[Leg(r, s)] = callee[Leg(r, s)]
  BY <1>1, TurnLegs
<1> QED
  BY <1>2, <1>3 DEF Alone

LEMMA TwoLegs ==
  ASSUME NEW r
  PROVE  /\ Leg(r, "text") # Leg(r, "image") /\ Legs(r) = {Leg(r, "text"), Leg(r, "image")}
         /\ "text" \in Sources /\ "image" \in Sources
BY DEF Leg, Legs, Sources

\* The collection is searched after the embedding.
LEMMA SearchGoes ==
  ASSUME AwaitInv, NEW r \in Requests, RecallSearch(r) PROVE RecallsOn(r)
<1> DEFINE text == Leg(r, "text")
           image == Leg(r, "image")
           to == OneCall(text, "retrieval")
           S == {text}
<1>1. /\ stage[r] = "recalling" /\ callee[text] = "embedding" /\ at[text] = "answered"
      /\ Turn(S, "kept", to) /\ stage' = stage /\ ask' = ask
  BY DEF RecallSearch, requestVars
<1>2. /\ DOMAIN to = {text} /\ to[text] = "retrieval" /\ DOMAIN to \subseteq Legs(r) /\ S \in SUBSET Legs(r)
      /\ text # image /\ image \notin S
  BY TwoLegs DEF OneCall
<1> HIDE DEF to, S
<1>3. /\ \A q \in Requests \ {r}, s \in Sources :
            at'[Leg(q, s)] = at[Leg(q, s)] /\ callee'[Leg(q, s)] = callee[Leg(q, s)]
      /\ \A s \in Sources :
            IF Leg(r, s) \in DOMAIN to
            THEN at'[Leg(r, s)] # "none" /\ callee'[Leg(r, s)] = to[Leg(r, s)]
            ELSE /\ at'[Leg(r, s)] = IF Leg(r, s) \in S THEN "none" ELSE at[Leg(r, s)]
                 /\ callee'[Leg(r, s)] = callee[Leg(r, s)]
  BY <1>1, <1>2, TurnLegs
<1>4. /\ Alone(r) /\ at'[text] # "none" /\ callee'[text] = "retrieval"
      /\ at'[image] = at[image] /\ callee'[image] = callee[image]
  BY <1>2, <1>3, TwoLegs DEF Alone
<1>5. stage' = [stage EXCEPT ![r] = "recalling"] /\ stage'[r] = "recalling"
  BY <1>1 DEF AwaitInv
<1>6. LegNo(r) = (IF at[image] = "none" THEN 1 ELSE 0) /\ LegNo(r)' = (IF at[image] = "none" THEN 1 ELSE 0) + 1
  BY <1>1, <1>4 DEF LegNo
<1>7. Progress(r)' > Progress(r)
  BY <1>1, <1>5, <1>6, StageNoIs DEF Progress
<1>8. /\ at[image] # "none" => callee[image] = "vision"
      /\ Kind(r) # "image"
  BY <1>1 DEF AwaitInv, CallsAreAwaited, KindsKeep
<1> QED
  BY <1>1, <1>4, <1>5, <1>7, <1>8 DEF RecallsOn

\* A leg ends: the other goes on, or the recall is over.
LEMMA LegGoes ==
  ASSUME AwaitInv, NEW r \in Requests, NEW s \in Sources, LegEnds(r, s)
  PROVE  RecallsOn(r) \/ \E n : GoesTo(r, n)
<1> DEFINE c == Leg(r, s)
<1>1. stage[r] = "recalling" /\ Kind(r) # "image" /\ ask' = ask
  BY DEF LegEnds
<1>2. PICK o \in Outcomes, places \in Places : Outcome(c, o) /\ Turn({c}, places, NoCall)
  BY Zenon DEF LegEnds
<1>3. \/ Pending(r) # {s} /\ stage' = stage
      \/ Pending(r) = {s} /\ (GoTo(r, "done") \/ GoTo(r, "enriching"))
  BY Zenon DEF LegEnds
<1>4. at[c] # "none"
  BY <1>2 DEF Outcome, Outcomes
<1>5. {c} \in SUBSET Legs(r)
  BY DEF Legs
<1>6. /\ Alone(r)
      /\ \A t \in Sources : /\ at'[Leg(r, t)] = IF Leg(r, t) \in {c} THEN "none" ELSE at[Leg(r, t)]
                            /\ callee'[Leg(r, t)] = callee[Leg(r, t)]
  BY <1>2, <1>5, LegsEnd
<1>7. \A t \in Sources : Leg(r, t) = c <=> t = s
  BY DEF Leg
<1>8. Progress(r) \in 2 .. 4
  BY <1>1, ProgressIs
<1>9. CASE Pending(r) # {s} /\ stage' = stage
  <2>1. PICK t \in Sources : t # s /\ at[Leg(r, t)] # "none"
    BY <1>4, <1>9 DEF Pending
  <2>2. at'[c] = "none" /\ at'[Leg(r, t)] = at[Leg(r, t)]
    BY <1>6, <1>7, <2>1
  <2>3. LegNo(r)' > LegNo(r)
    <3>1. CASE s = "text"
      <4>1. t = "image"
        BY <2>1, <3>1 DEF Sources
      <4> QED
        BY <1>4, <2>1, <2>2, <3>1, <4>1 DEF LegNo
    <3>2. CASE s = "image"
      <4>1. t = "text" /\ callee'[Leg(r, "text")] = callee[Leg(r, "text")]
        BY <1>6, <2>1, <3>2 DEF Sources
      <4> QED
        BY <1>4, <2>1, <2>2, <3>2, <4>1 DEF LegNo
    <3> QED
      BY <3>1, <3>2 DEF Sources
  <2>4. Progress(r)' > Progress(r)
    <3>1. LegNo(r) \in 0 .. 3 /\ LegNo(r)' \in 0 .. 3
      BY DEF LegNo
    <3> QED
      BY <1>1, <1>9, <2>3, <3>1, StageNoIs DEF Progress
  <2>5. stage' = [stage EXCEPT ![r] = "recalling"]
    BY <1>1, <1>9 DEF AwaitInv
  <2>6. \A u \in Sources : /\ at'[Leg(r, u)] # "none" => at[Leg(r, u)] # "none"
                           /\ callee'[Leg(r, u)] = callee[Leg(r, u)]
    BY <1>6
  <2>7. /\ at[Leg(r, "image")] # "none" => callee[Leg(r, "image")] = "vision"
        /\ at[Leg(r, "text")] # "none" => callee[Leg(r, "text")] \in {"embedding", "retrieval"}
    BY <1>1, DeployedIs DEF AwaitInv, CallsAreAwaited
  <2>8. at'[Leg(r, "image")] # "none" \/ at'[Leg(r, "text")] # "none"
    BY <2>1, <2>2 DEF Sources
  <2> QED
    BY <1>1, <1>6, <2>4, <2>5, <2>6, <2>7, <2>8, TwoLegs DEF RecallsOn
<1>10. CASE Pending(r) = {s} /\ (GoTo(r, "done") \/ GoTo(r, "enriching"))
  <2>1. Silent(r)
    <3>1. \A t \in Sources : at'[Leg(r, t)] = "none"
      BY <1>6, <1>10 DEF Pending
    <3> QED
      BY <3>1, TwoLegs DEF Silent
  <2>2. PICK n \in {"done", "enriching"} : GoTo(r, n)
    BY <1>10
  <2>3. n \in Stages \ {"recalling"} /\ n \notin DOMAIN Deployed /\ StageNo[n] > Progress(r)
        /\ n # "reranking" /\ n # "snapshot"
    BY <1>8, <2>2, StageNoIs, DeployedIs DEF Stages
  <2>4. GoesTo(r, n)
    BY <1>1, <1>6, <2>1, <2>2, <2>3 DEF GoesTo, GoTo
  <2> QED
    BY <2>4
<1> QED
  BY <1>3, <1>9, <1>10

LEMMA ImageGoes ==
  ASSUME AwaitInv, NEW r \in Requests, ImageRecall(r) PROVE \E n : GoesTo(r, n)
<1>1. /\ stage[r] = "recalling" /\ Kind(r) = "image" /\ ask' = ask
      /\ Turn({Leg(r, "image")}, "kept", NoCall) /\ (GoTo(r, "describing") \/ GoTo(r, "done"))
  BY Zenon DEF ImageRecall
<1>2. {Leg(r, "image")} \in SUBSET Legs(r)
  BY TwoLegs
<1>3. /\ Alone(r)
      /\ \A t \in Sources : at'[Leg(r, t)] = IF Leg(r, t) \in {Leg(r, "image")} THEN "none" ELSE at[Leg(r, t)]
  BY <1>1, <1>2, LegsEnd
<1>4. at[Leg(r, "text")] = "none"
  BY <1>1 DEF AwaitInv, KindsKeep
<1>5. Silent(r)
  BY <1>3, <1>4, TwoLegs DEF Silent
<1>6. PICK n \in {"describing", "done"} : GoTo(r, n)
  BY <1>1
<1>7. n \in Stages \ {"recalling"} /\ n \notin DOMAIN Deployed /\ StageNo[n] > Progress(r)
      /\ n # "reranking" /\ n # "snapshot"
  BY <1>1, <1>6, ProgressIs, StageNoIs, DeployedIs DEF Stages
<1>8. GoesTo(r, n)
  BY <1>1, <1>3, <1>5, <1>6, <1>7 DEF GoesTo, GoTo
<1> QED
  BY <1>8

LEMMA LeavingGoes ==
  ASSUME AwaitInv, NEW r \in Requests, ClientLeaves(r) PROVE GoesTo(r, "gone")
<1>1. /\ stage[r] \notin {"idle", "done", "gone"} /\ GoTo(r, "gone") /\ Turn(Legs(r), "freed", NoCall)
      /\ ask' = ask
  BY DEF ClientLeaves
<1>2. /\ Alone(r)
      /\ \A t \in Sources : at'[Leg(r, t)] = IF Leg(r, t) \in Legs(r) THEN "none" ELSE at[Leg(r, t)]
  BY <1>1, LegsEnd
<1>3. Silent(r)
  BY <1>2, TwoLegs DEF Silent
<1>4. "gone" \in Stages \ {"recalling"} /\ "gone" \notin DOMAIN Deployed
  BY DeployedIs DEF Stages
<1>5. StageNo["gone"] > Progress(r)
  <2>1. CASE stage[r] = "recalling"
    BY <2>1, ProgressIs, StageNoIs
  <2>2. CASE stage[r] # "recalling"
    <3>1. StageNo[stage[r]] \in 0 .. 9
      BY <1>1, <2>2, StageNoIs DEF AwaitInv, Stages
    <3> QED
      BY <2>2, <3>1, ProgressIs, StageNoIs
  <2> QED
    BY <2>1, <2>2
<1> QED
  BY <1>1, <1>2, <1>3, <1>4, <1>5 DEF GoesTo, GoTo

LEMMA SubmitGoes ==
  ASSUME AwaitInv, NEW r \in Requests, Submit(r) PROVE RecallsOn(r) \/ \E n : GoesTo(r, n)
<1> DEFINE text == Leg(r, "text")
           image == Leg(r, "image")
           one == OneCall(image, "vision")
           both == [c \in Legs(r) |-> IF c = image THEN "vision" ELSE "embedding"]
<1>1. stage[r] = "idle" /\ ask' = ask
  BY Zenon DEF Submit, Refuse
<1>2. \/ GoTo(r, "done") /\ UNCHANGED poolVars
      \/ GoTo(r, "routing") /\ Turn({}, "kept", OneCall(text, Deployed["routing"]))
      \/ GoTo(r, "recalling") /\ Turn({}, "kept", one)
      \/ Kind(r) # "image" /\ GoTo(r, "recalling") /\ Turn({}, "kept", both)
  BY DeployedIs DEF Submit, Refuse
<1>3. at[text] = "none" /\ at[image] = "none" /\ Progress(r) = 0
  BY <1>1, AwaitsOnly, ProgressIs, StageNoIs, DeployedIs
<1>4. ASSUME NEW n \in {"done"}, GoTo(r, n), UNCHANGED poolVars
      PROVE  \E m : GoesTo(r, m)
  <2>1. Alone(r) /\ Silent(r)
    BY <1>3, <1>4 DEF poolVars, Alone, Silent
  <2>2. n \in Stages \ {"recalling"} /\ n \notin DOMAIN Deployed /\ StageNo[n] > Progress(r)
        /\ n # "reranking" /\ n # "snapshot"
    BY <1>3, <1>4, StageNoIs, DeployedIs DEF Stages
  <2>3. GoesTo(r, n)
    BY <1>1, <1>4, <2>1, <2>2 DEF GoesTo, GoTo
  <2> QED
    BY <2>3
<1>5. ASSUME GoTo(r, "recalling"), NEW to,
             to = one \/ (Kind(r) # "image" /\ to = both), Turn({}, "kept", to)
      PROVE  RecallsOn(r)
  <2>1. /\ DOMAIN to \subseteq Legs(r) /\ image \in DOMAIN to /\ to[image] = "vision"
        /\ text \in DOMAIN to => to[text] = "embedding" /\ Kind(r) # "image"
        /\ text \in Legs(r) /\ {} \in SUBSET Legs(r)
    <3>1. CASE to = one
      BY <3>1, TwoLegs DEF OneCall
    <3>2. CASE Kind(r) # "image" /\ to = both
      BY <3>2, TwoLegs
    <3> QED
      BY <1>5, <3>1, <3>2
  <2>2. Turn({}, "kept", to)
    BY <1>5
  <2> HIDE DEF one, both
  <2>3. /\ \A q \in Requests \ {r}, s \in Sources :
              at'[Leg(q, s)] = at[Leg(q, s)] /\ callee'[Leg(q, s)] = callee[Leg(q, s)]
        /\ \A s \in Sources :
              IF Leg(r, s) \in DOMAIN to
              THEN at'[Leg(r, s)] # "none" /\ callee'[Leg(r, s)] = to[Leg(r, s)]
              ELSE /\ at'[Leg(r, s)] = IF Leg(r, s) \in {} THEN "none" ELSE at[Leg(r, s)]
                   /\ callee'[Leg(r, s)] = callee[Leg(r, s)]
    BY <2>1, <2>2, TurnLegs
  <2>4. /\ Alone(r) /\ at'[image] # "none" /\ callee'[image] = "vision"
        /\ at'[text] # "none" => callee'[text] = "embedding" /\ Kind(r) # "image"
    BY <1>3, <2>1, <2>3, TwoLegs DEF Alone
  <2>5. Progress(r)' > Progress(r)
    <3>1. stage'[r] = "recalling"
      BY <1>5 DEF GoTo, AwaitInv
    <3>2. LegNo(r)' \in 0 .. 3
      BY DEF LegNo
    <3> QED
      BY <1>3, <3>1, <3>2, StageNoIs DEF Progress
  <2> QED
    BY <1>1, <1>5, <2>4, <2>5 DEF RecallsOn, GoTo
<1>6. ASSUME Turn({}, "kept", one), GoTo(r, "recalling") PROVE RecallsOn(r)
  BY <1>5, <1>6
<1>7. ASSUME Kind(r) # "image", Turn({}, "kept", both), GoTo(r, "recalling") PROVE RecallsOn(r)
  BY <1>5, <1>7
<1>8. ASSUME GoTo(r, "routing"), Turn({}, "kept", OneCall(text, Deployed["routing"]))
      PROVE  \E m : GoesTo(r, m)
  <2>1. /\ "routing" \in Stages \ {"recalling"} /\ "routing" \in DOMAIN Deployed
        /\ StageNo["routing"] > StageNo[stage[r]] /\ stage[r] \notin DOMAIN Deployed /\ stage[r] # "recalling"
    BY <1>1, StageNoIs, DeployedIs DEF Stages
  <2>2. GoesTo(r, "routing")
    BY <1>1, <1>8, <2>1, Further
  <2> QED
    BY <2>2
<1> HIDE DEF one, both
<1> QED
  BY <1>2, <1>4, <1>6, <1>7, <1>8

\* Whatever a request does, it goes on and keeps the invariant.
LEMMA OwnSteps ==
  ASSUME AwaitInv, NEW r \in Requests, Submit(r) \/ Serve(r) \/ ClientLeaves(r)
  PROVE  RecallsOn(r) \/ \E n : GoesTo(r, n)
BY TextGoes, SearchGoes, LegGoes, ImageGoes, LeavingGoes, SubmitGoes, Zenon DEF Serve

\* The legs of a request, its stage and kind, determine how far it is and what
\* it awaits.
LEMMA OthersStay ==
  ASSUME AwaitInv, NEW q \in Requests, ask' = ask, stage'[q] = stage[q],
         \A s \in Sources : at'[Leg(q, s)] = at[Leg(q, s)] /\ callee'[Leg(q, s)] = callee[Leg(q, s)]
  PROVE  Progress(q)' = Progress(q)
BY TwoLegs DEF Progress, LegNo

LEMMA OwnStepsKeep ==
  ASSUME AwaitInv, PoolTypeOK', NEW r \in Requests, RecallsOn(r) \/ \E n : GoesTo(r, n)
  PROVE  /\ AwaitInv' /\ Progress(r)' > Progress(r)
         /\ \A q \in Requests \ {r} : Progress(q)' = Progress(q)
<1>1. PICK n \in Stages :
          /\ ask' = ask /\ stage' = [stage EXCEPT ![r] = n] /\ Alone(r)
          /\ (RecallsOn(r) /\ n = "recalling") \/ (GoesTo(r, n) /\ n # "recalling")
  <2>1. CASE RecallsOn(r)
    <3>1. "recalling" \in Stages
      BY DEF Stages
    <3>2. ask' = ask /\ stage' = [stage EXCEPT ![r] = "recalling"] /\ Alone(r)
      BY <2>1 DEF RecallsOn
    <3> QED
      BY <2>1, <3>1, <3>2
  <2>2. ASSUME NEW n, GoesTo(r, n)
        PROVE  n \in Stages /\ n # "recalling" /\ ask' = ask /\ stage' = [stage EXCEPT ![r] = n] /\ Alone(r)
    BY <2>2 DEF GoesTo
  <2>3. CASE \E n : GoesTo(r, n)
    BY <2>2, <2>3
  <2> QED
    BY <2>1, <2>3
<1>2. stage' \in [Requests -> Stages] /\ stage'[r] = n /\ \A q \in Requests \ {r} : stage'[q] = stage[q]
  BY <1>1 DEF AwaitInv
<1>3. \A q \in Requests \ {r} : Progress(q)' = Progress(q)
  BY <1>1, <1>2, OthersStay DEF Alone
<1>4. Progress(r)' > Progress(r)
  <2>1. CASE RecallsOn(r)
    BY <2>1 DEF RecallsOn
  <2>2. CASE GoesTo(r, n) /\ n # "recalling"
    <3>1. StageNo[n] > Progress(r) /\ StageNo[n] \in Nat
      BY <2>2, StageNoIs DEF GoesTo, Stages
    <3>2. Progress(r)' = StageNo[n] + 0
      BY <1>2, <2>2 DEF Progress
    <3> QED
      BY <3>1, <3>2
  <2> QED
    BY <1>1, <2>1, <2>2
<1>5. CallsAreAwaited' /\ KindsKeep'
  <2> SUFFICES ASSUME NEW q \in Requests
               PROVE  /\ at'[Leg(q, "text")] # "none" =>
                            \/ /\ stage'[q] \in DOMAIN Deployed
                               /\ callee'[Leg(q, "text")] = Deployed[stage'[q]]
                            \/ /\ stage'[q] = "recalling"
                               /\ callee'[Leg(q, "text")] \in {"embedding", "retrieval"}
                      /\ at'[Leg(q, "image")] # "none" =>
                            stage'[q] = "recalling" /\ callee'[Leg(q, "image")] = "vision"
                      /\ stage'[q] \in DOMAIN Deployed => at'[Leg(q, "text")] # "none"
                      /\ stage'[q] = "recalling" =>
                            at'[Leg(q, "text")] # "none" \/ at'[Leg(q, "image")] # "none"
                      /\ stage'[q] = "recalling" /\ ask'[q].kind = "image" => at'[Leg(q, "text")] = "none"
                      /\ stage'[q] = "reranking" => ask'[q].kind \in {"text", "multimodal"}
                      /\ stage'[q] = "snapshot" => ask'[q].kind \in {"text", "hybrid"}
    BY TwoLegs DEF CallsAreAwaited, KindsKeep, Kind
  <2>1. CASE q # r
    <3>1. /\ stage'[q] = stage[q] /\ ask'[q] = ask[q]
          /\ at'[Leg(q, "text")] = at[Leg(q, "text")] /\ at'[Leg(q, "image")] = at[Leg(q, "image")]
          /\ callee'[Leg(q, "text")] = callee[Leg(q, "text")]
          /\ callee'[Leg(q, "image")] = callee[Leg(q, "image")]
      BY <1>1, <1>2, <2>1, TwoLegs DEF Alone
    <3>2. stage[q] = "recalling" => at[Leg(q, "text")] # "none" \/ at[Leg(q, "image")] # "none"
      BY DEF AwaitInv, CallsAreAwaited, Sources
    <3> QED
      BY <3>1, <3>2 DEF AwaitInv, CallsAreAwaited, KindsKeep, Kind
  <2>2. CASE q = r /\ RecallsOn(r) /\ n = "recalling"
    BY <1>1, <1>2, <2>2, DeployedIs DEF RecallsOn, Kind
  <2>3. CASE q = r /\ GoesTo(r, n) /\ n # "recalling"
    BY <1>1, <1>2, <2>3 DEF GoesTo, Kind, Silent, Rings
  <2> QED
    BY <1>1, <2>1, <2>2, <2>3
<1> QED
  BY <1>2, <1>3, <1>4, <1>5 DEF AwaitInv

\* What the deployments do to a call neither begins nor ends it.
LEMMA PoolsKeep ==
  ASSUME AwaitInv, PoolTypeOK', UNCHANGED <<ask, stage, callee>>,
         \A r \in Requests, s \in Sources : at'[Leg(r, s)] = "none" <=> at[Leg(r, s)] = "none"
  PROVE  AwaitInv' /\ \A r \in Requests : Progress(r)' = Progress(r)
<1>1. ASSUME NEW r \in Requests PROVE Progress(r)' = Progress(r)
  BY TwoLegs DEF Progress, LegNo
<1>2. CallsAreAwaited'
  BY TwoLegs DEF AwaitInv, CallsAreAwaited
<1>3. KindsKeep'
  BY TwoLegs DEF AwaitInv, KindsKeep, Kind
<1> QED
  BY <1>1, <1>2, <1>3 DEF AwaitInv

LEMMA AwaitStep ==
  ASSUME AwaitInv, PoolTypeOK', [Next]_vars
  PROVE  /\ AwaitInv'
         /\ \/ \A q \in Requests : Progress(q)' = Progress(q)
            \/ \E r \in Requests : /\ Progress(r)' > Progress(r)
                                   /\ \A q \in Requests \ {r} : Progress(q)' = Progress(q)
<1>1. ASSUME NEW r \in Requests, Submit(r) \/ Serve(r) \/ ClientLeaves(r)
      PROVE  /\ AwaitInv' /\ Progress(r)' > Progress(r)
             /\ \A q \in Requests \ {r} : Progress(q)' = Progress(q)
  BY <1>1, OwnSteps, OwnStepsKeep
<1>2. ASSUME NEW c \in Calls, Admit(c) \/ Return(c)
      PROVE  /\ UNCHANGED <<ask, stage, callee>>
             /\ \A d \in Calls : at'[d] = "none" <=> at[d] = "none"
  <2>1. UNCHANGED <<ask, stage, callee>>
    BY <1>2 DEF Admit, Return, Enter, Finish, requestVars
  <2>2. PICK x \in {"working", "answered", "failed"} : at' = [at EXCEPT ![c] = x] /\ at[c] \in {"waiting", "working"}
    BY <1>2 DEF Admit, Return, Enter, Finish
  <2> QED
    BY <2>1, <2>2 DEF AwaitInv, PoolTypeOK
<1>3. CASE Probe \/ (\E d \in Deployments : ThreadEnds(d)) \/ UNCHANGED vars
  <2>1. UNCHANGED <<ask, stage, callee, at>>
    BY <1>3 DEF Probe, ThreadEnds, LateEnd, vars, requestVars, poolVars
  <2> QED
    BY <2>1, PoolsKeep
<1>4. ASSUME NEW c \in Calls, Admit(c) \/ Return(c)
      PROVE  AwaitInv' /\ \A q \in Requests : Progress(q)' = Progress(q)
  BY <1>2, <1>4, PoolsKeep, LegIsCall
<1> QED
  BY <1>1, <1>3, <1>4 DEF Next

LEMMA AwaitStart == Init => AwaitInv
<1> SUFFICES ASSUME Init PROVE AwaitInv
  OBVIOUS
<1>1. /\ stage = [r \in Requests |-> "idle"] /\ PoolTypeOK
      /\ \A r \in Requests, s \in Sources : at[Leg(r, s)] = "none"
  BY PoolStart, LegIsCall DEF Init, PoolInit
<1>2. stage \in [Requests -> Stages]
  BY <1>1 DEF Stages
<1>3. CallsAreAwaited /\ KindsKeep
  BY <1>1, TwoLegs, DeployedIs DEF CallsAreAwaited, KindsKeep
<1> QED
  BY <1>1, <1>2, <1>3 DEF AwaitInv

LEMMA AwaitInvariance == Spec => []AwaitInv
<1>1. AwaitInv /\ PoolTypeOK' /\ [Next]_vars => AwaitInv'
  BY AwaitStep
<1>2. PoolSpec => []PoolTypeOK
  BY PoolTypes
<1> QED
  BY <1>1, <1>2, AwaitStart, PipelineImplementsPool, PTL DEF Spec

\* A handler that answers, refuses, falls back to popular items or is cancelled
\* leaves no call behind, and who awaits a call has made it, to whom it should:
\* with parallel legs, calls that follow each other in one leg, timeouts and
\* cancelled clients (_run_embed, _run_retrieval, recall_text, recall_image).
THEOREM CallsHaveAwaiters == Spec => []CallsAreAwaited
<1>1. AwaitInv => CallsAreAwaited
  BY DEF AwaitInv
<1> QED
  BY <1>1, AwaitInvariance, PTL

\* Nothing but a call of the router, of popularity or of vision, which no deadline
\* guards, can keep a handler waiting: whatever the other deployments do, and
\* whatever became of the request before, it has a step.
THEOREM HandlersGoOn == Spec => []EveryoneGoesOn
<1>1. ASSUME AwaitInv PROVE EveryoneGoesOn
  <2> SUFFICES ASSUME NEW r \in Requests, stage[r] \notin {"idle", "done", "gone"}
               PROVE  CanServe(r) \/ HeldUp(r)
    BY DEF EveryoneGoesOn
  <2>1. stage[r] \in Stages /\ \A s \in Sources : at[Leg(r, s)] \in CallStates
    BY <1>1, LegIsCall DEF AwaitInv, PoolTypeOK
  <2>2. ASSUME NEW s \in Sources, at[Leg(r, s)] # "none"
        PROVE  HeldUp(r) \/ \E o \in Outcomes : Outcome(Leg(r, s), o)
    <3>1. CASE at[Leg(r, s)] \in {"answered", "failed"}
      BY <3>1 DEF Outcome, Outcomes
    <3>2. CASE at[Leg(r, s)] \in {"waiting", "working"} /\ callee[Leg(r, s)] \in WithDeadline
      BY <3>2 DEF Outcome, Outcomes
    <3>3. CASE at[Leg(r, s)] \in {"waiting", "working"} /\ callee[Leg(r, s)] \notin WithDeadline
      <4>1. callee[Leg(r, s)] \in {"router", "popularity", "vision"}
        BY <1>1, <3>3, LegIsCall DEF AwaitInv, PoolTypeOK, Deployments, WithDeadline
      <4> QED
        BY <3>3, <4>1 DEF HeldUp
    <3> QED
      BY <2>1, <2>2, <3>1, <3>2, <3>3 DEF CallStates
  <2>3. CASE stage[r] \in DOMAIN Deployed
    <3>1. at[Leg(r, "text")] # "none"
      BY <1>1, <2>3 DEF AwaitInv, CallsAreAwaited
    <3>2. HeldUp(r) \/ \E o \in Outcomes : Outcome(Leg(r, "text"), o)
      BY <2>2, <3>1, TwoLegs
    <3>3. stage[r] = "reranking" => Kind(r) \in {"text", "multimodal"}
      BY <1>1 DEF AwaitInv, KindsKeep
    <3> QED
      BY <2>3, <3>2, <3>3 DEF CanServe
  <2>4. CASE stage[r] = "recalling"
    <3>1. PICK s \in Sources : at[Leg(r, s)] # "none"
      BY <1>1, <2>4 DEF AwaitInv, CallsAreAwaited
    <3>2. Kind(r) = "image" => s = "image"
      BY <1>1, <2>4, <3>1 DEF AwaitInv, KindsKeep, Sources
    <3>3. HeldUp(r) \/ \E o \in Outcomes : Outcome(Leg(r, s), o)
      BY <2>2, <3>1
    <3> QED
      BY <2>4, <3>2, <3>3 DEF CanServe
  <2>5. CASE stage[r] \notin DOMAIN Deployed /\ stage[r] # "recalling"
    <3>1. stage[r] = "snapshot" => Kind(r) \in {"text", "hybrid"}
      BY <1>1 DEF AwaitInv, KindsKeep
    <3> QED
      BY <2>1, <2>5, <3>1, DeployedIs DEF CanServe, Stages
  <2> QED
    BY <2>3, <2>4, <2>5
<1> QED
  BY <1>1, AwaitInvariance, PTL

ProgressTyped == \A r \in Requests : Progress(r) \in 0 .. 10

LEMMA ProgressInRange == AwaitInv => ProgressTyped
BY ProgressIs DEF ProgressTyped

\* The substitutes, merges and parallel legs do not go round in a circle: ten
\* steps end every search, and with HandlersGoOn this is what
\* EveryRequestAnswered needs besides fairness.
THEOREM SearchesOnlyAdvance == Spec => [][SearchesAdvance]_vars
<1>1. AwaitInv /\ AwaitInv' /\ [Next]_vars => [SearchesAdvance]_vars
  <2> SUFFICES ASSUME AwaitInv, AwaitInv', [Next]_vars PROVE SearchesAdvance
    OBVIOUS
  <2>1. ProgressTyped /\ ProgressTyped'
    BY ProgressInRange, PTL
  <2>2. \A r \in Requests : Progress(r) \in 0 .. 10 /\ Progress(r)' \in 0 .. 10
    BY <2>1 DEF ProgressTyped
  <2>3. PoolTypeOK'
    BY DEF AwaitInv
  <2>4. \A r \in Requests : Progress(r)' >= Progress(r)
    <3>1. CASE \A q \in Requests : Progress(q)' = Progress(q)
      BY <2>2, <3>1
    <3>2. CASE \E r \in Requests : /\ Progress(r)' > Progress(r)
                                   /\ \A q \in Requests \ {r} : Progress(q)' = Progress(q)
      BY <2>2, <3>2
    <3> QED
      BY <2>3, <3>1, <3>2, AwaitStep
  <2>5. \A r \in Requests : Submit(r) \/ Serve(r) \/ ClientLeaves(r) => Progress(r)' > Progress(r)
    BY <2>3, OwnSteps, OwnStepsKeep
  <2> QED
    BY <2>2, <2>4, <2>5 DEF SearchesAdvance
<1> QED
  BY <1>1, AwaitInvariance, PTL DEF Spec
=============================================================================
