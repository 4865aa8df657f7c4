------------------------- MODULE CatalogueJobsProofs -------------------------
(***************************************************************************)
(* Theorems about CatalogueJobs, for any articles, sizes of embeddings and *)
(* batches.                                                                *)
(***************************************************************************)
EXTENDS CatalogueJobs, TLAPS

\* A script is between the file and the end of a load.
Loading == job.at \in {"redis", "popularity", "zadd", "milvus", "check", "create", "index", "insert"}

\* What a load has read: the file does not change under it, its vectors have
\* the size it was told to expect if it is for images, and the one for texts
\* has put the metadata of its rows in Redis before it turns to Milvus.
LoadInv ==
    /\ chain = "text" /\ Loading => job.want = ExpectedDim
    /\ chain = "image" /\ Loading => parquet.kind = "whole" /\ parquet.dim = job.want
    /\ chain = "text" /\ ~skipped /\ Loading /\ job.at # "redis" => job.rows \subseteq meta

\* How far the collection is.
FillInv ==
    /\ job.at = "create" => collection = None
    /\ job.at \in {"index", "insert"} =>
          /\ collection \in Collections
          /\ collection.of = job.rows /\ collection.rows \subseteq job.rows
    /\ done => ~Loading /\ CompleteMeansWhole

JobsInv == JobsTypeOK /\ LoadInv /\ FillInv /\ FoundItemsHaveMetadata

LEMMA NoneIsNone == None \notin Collections /\ None \notin Artefacts /\ Torn \notin Artefacts
BY DEF None, Torn, Collections, Artefacts

LEMMA NewCollection ==
  ASSUME NEW of \in SUBSET Articles, NEW dim \in Dims
  PROVE  LET c == Collection({}, of, dim, "bare")
         IN  c \in Collections /\ c.rows = {} /\ c.of = of /\ c.dim = dim
BY DEF Collection, Collections

LEMMA CollectionLoaded ==
  ASSUME NEW c \in Collections, NEW s \in {"indexed", "loaded"}
  PROVE  LET d == [c EXCEPT !.state = s]
         IN  d \in Collections /\ d.rows = c.rows /\ d.of = c.of /\ d.dim = c.dim /\ d.state = s
BY DEF Collections

LEMMA CollectionGrown ==
  ASSUME NEW c \in Collections, NEW batch \in SUBSET Articles
  PROVE  LET d == [c EXCEPT !.rows = @ \cup batch]
         IN  d \in Collections /\ d.rows = c.rows \cup batch /\ d.of = c.of /\ d.dim = c.dim
BY DEF Collections

LEMMA JobMoved ==
  ASSUME NEW j \in Jobs, NEW place \in Places
  PROVE  LET k == [j EXCEPT !.at = place]
         IN  k \in Jobs /\ k.at = place /\ k.rows = j.rows /\ k.dim = j.dim
             /\ k.want = j.want /\ k.flags = j.flags
BY DEF Jobs

LEMMA IdleJob == Idle \in Jobs /\ Idle.at = "idle"
BY JobsAssumption DEF Idle, Jobs, Places

LEMMA NewJob ==
  ASSUME NEW place \in Places, NEW rows \in SUBSET Articles, NEW dim \in Dims, NEW want \in Dims,
         NEW flags \in SUBSET Flags
  PROVE  [at |-> place, rows |-> rows, dim |-> dim, want |-> want, flags |-> flags] \in Jobs
BY DEF Jobs

LEMMA JobsInit == Init => JobsInv
BY IdleJob DEF Init, JobsInv, JobsTypeOK, LoadInv, FillInv, Loading, FoundItemsHaveMetadata, Idle

LEMMA JobsStep == JobsInv /\ [Next]_vars => JobsInv'
<1> SUFFICES ASSUME JobsInv, [Next]_vars PROVE JobsInv'
  OBVIOUS
<1> USE NoneIsNone DEF JobsInv, JobsTypeOK, LoadInv, FillInv, Loading, FoundItemsHaveMetadata,
                       CompleteMeansWhole
<1>1. ASSUME Generate PROVE JobsInv'
  <2>1. PICK rows \in SUBSET Embeddable \ {{}}, dim \in Dims : Start("write", rows, dim, dim, {})
    BY <1>1 DEF Generate
  <2>2. job' \in Jobs /\ job'.at = "write"
    BY <2>1, NewJob, JobsAssumption DEF Start, Embeddable, Places
  <2> QED
    BY <1>1, <2>1, <2>2 DEF Generate, Start, At, file, redis, history
<1>2. ASSUME OpenParquet PROVE JobsInv'
  <2>1. job' \in Jobs /\ job'.at = "writing" /\ job.at = "write"
    BY <1>2, JobMoved DEF OpenParquet, At, Goto, Places
  <2> QED
    BY <1>2, <2>1 DEF OpenParquet, redis, history
<1>3. ASSUME WriteParquet PROVE JobsInv'
  <2>1. parquet' \in Artefacts /\ job.at = "writing" /\ job' = Idle
    BY <1>3 DEF WriteParquet, At, End, Artefact, Artefacts, Jobs
  <2> QED
    BY <1>3, <2>1, IdleJob DEF WriteParquet, redis, history
<1>4. ASSUME OpenTopItems PROVE JobsInv'
  <2>1. job' \in Jobs /\ job'.at = "ranking" /\ job.at = "idle"
    BY <1>4, NewJob, JobsAssumption DEF OpenTopItems, Start, At, Places
  <2> QED
    BY <1>4, <2>1 DEF OpenTopItems, redis, history
<1>5. ASSUME WriteTopItems PROVE JobsInv'
  BY <1>5, IdleJob DEF WriteTopItems, At, End, redis, history
<1>6. ASSUME LoadTexts PROVE JobsInv'
  <2>1. PICK flags \in SUBSET Flags :
          /\ Start(IF "skip-redis" \in flags THEN "milvus" ELSE "redis",
                   parquet.rows, parquet.dim, ExpectedDim, flags)
          /\ skipped' = (skipped \/ "skip-redis" \in flags)
    BY <1>6 DEF LoadTexts
  <2>2. parquet \in Artefacts
    BY <1>6 DEF LoadTexts, None, Torn
  <2>3. parquet.rows \in SUBSET Articles /\ parquet.dim \in Dims
    BY <2>2 DEF Artefacts
  <2>4. /\ job' \in Jobs /\ job'.want = ExpectedDim /\ job.at = "idle"
        /\ job'.at = IF "skip-redis" \in flags THEN "milvus" ELSE "redis"
    BY <2>1, <2>3, NewJob, JobsAssumption DEF Start, At, Places
  <2> QED
    BY <1>6, <2>1, <2>4 DEF LoadTexts, file, redis
<1>7. ASSUME LoadRedis PROVE JobsInv'
  <2>1. job.at = "redis" /\ job' = [job EXCEPT !.at = "popularity"]
    BY <1>7 DEF LoadRedis, At, Goto
  <2>2. job' \in Jobs /\ job'.at = "popularity" /\ job'.want = job.want /\ job'.rows = job.rows
    BY <2>1, JobMoved DEF Places
  <2>3. job.rows \in SUBSET Articles
    BY DEF Jobs
  <2> QED
    BY <1>7, <2>1, <2>2, <2>3 DEF LoadRedis, file, history
<1>8. ASSUME NEW place \in Places, job' = [job EXCEPT !.at = place],
             Loading, job.at # "redis",
             place \in {"zadd", "milvus", "check"},
             UNCHANGED <<file, meta, collection, service, history>>, popular' \in BOOLEAN
      PROVE  JobsInv'
  <2>1. /\ job' \in Jobs /\ job'.at = place
        /\ job'.want = job.want /\ job'.rows = job.rows
    BY <1>8, JobMoved
  <2> QED
    BY <1>8, <2>1 DEF file, history
<1>9. ASSUME End, UNCHANGED <<file, meta, collection, history>>, popular' \in BOOLEAN,
             service' \in {"down", "ready", "disabled"}, done => popular' = popular
      PROVE  JobsInv'
  BY <1>9, IdleJob DEF End, file, history
<1>10. ASSUME ChoosePopularity \/ FillPopularity \/ TurnToMilvus PROVE JobsInv'
  <2>1. Loading /\ job.at # "redis" /\ ~done
    BY <1>10 DEF ChoosePopularity, FillPopularity, TurnToMilvus, At
  <2>2. {"zadd", "milvus", "check"} \subseteq Places
    BY DEF Places
  <2>3. UNCHANGED <<file, meta, collection, service, history>> /\ popular' \in BOOLEAN
    BY <1>10 DEF ChoosePopularity, FillPopularity, TurnToMilvus, redis
  <2>4. End \/ \E place \in {"zadd", "milvus", "check"} : job' = [job EXCEPT !.at = place]
    BY <1>10 DEF ChoosePopularity, FillPopularity, TurnToMilvus, Goto
  <2> QED
    BY <2>1, <2>2, <2>3, <2>4, <1>8, <1>9
<1>11. ASSUME LoadImages PROVE JobsInv'
  <2>1. PICK want \in Dims, flags \in SUBSET {"drop-existing"} :
          parquet.dim = want /\ Start("check", parquet.rows, parquet.dim, want, flags)
    BY <1>11 DEF LoadImages
  <2>2. parquet \in Artefacts /\ flags \in SUBSET Flags
    BY <1>11 DEF LoadImages, None, Torn, Flags
  <2>3. parquet.rows \in SUBSET Articles /\ parquet.dim \in Dims
    BY <2>2 DEF Artefacts
  <2>4. job' \in Jobs /\ job'.want = want /\ job.at = "idle" /\ job'.at = "check"
    BY <2>1, <2>2, <2>3, NewJob DEF Start, At, Places
  <2> QED
    BY <1>11, <2>1, <2>4 DEF LoadImages, file, redis
<1>12. ASSUME CheckCollection PROVE JobsInv'
  <2>1. /\ job.at = "check" /\ UNCHANGED <<file, redis, service, history>>
        /\ \/ Goto("create") /\ collection' = None
           \/ End /\ collection' = collection
    BY <1>12 DEF CheckCollection, At
  <2>2. CASE End /\ collection' = collection
    BY <1>9, <2>1, <2>2 DEF redis
  <2>3. CASE Goto("create") /\ collection' = None
    <3>1. /\ job' \in Jobs /\ job'.at = "create"
          /\ job'.want = job.want /\ job'.rows = job.rows
      BY <2>3, JobMoved DEF Goto, Places
    <3> QED
      BY <2>1, <2>3, <3>1 DEF file, redis, history
  <2> QED
    BY <2>1, <2>2, <2>3
<1>13. ASSUME Create PROVE JobsInv'
  <2>1. job.at = "create" /\ UNCHANGED <<file, redis, service, history>>
    BY <1>13 DEF Create, At
  <2>2. CASE End /\ collection' = collection
    BY <1>9, <2>1, <2>2 DEF redis
  <2>3. CASE job.dim = job.want /\ Goto("index")
             /\ collection' = Collection({}, job.rows, job.dim, "bare")
    <3>1. /\ job' \in Jobs /\ job'.at = "index"
          /\ job'.want = job.want /\ job'.rows = job.rows
      BY <2>3, JobMoved DEF Goto, Places
    <3>2. /\ collection' \in Collections /\ collection'.rows = {}
          /\ collection'.of = job.rows /\ collection'.dim = job.dim
      <4>1. job.rows \in SUBSET Articles /\ job.dim \in Dims
        BY DEF Jobs
      <4> QED
        BY <2>3, <4>1, NewCollection
    <3> QED
      BY <2>1, <2>3, <3>1, <3>2 DEF file, redis, history
  <2> QED
    BY <1>13, <2>2, <2>3 DEF Create
<1>14. ASSUME CreateIndex PROVE JobsInv'
  <2>1. job.at = "index" /\ UNCHANGED <<file, redis, service, history>> /\ Goto("insert")
    BY <1>14 DEF CreateIndex, At
  <2>2. /\ job' \in Jobs /\ job'.at = "insert"
        /\ job'.want = job.want /\ job'.rows = job.rows
    BY <2>1, JobMoved DEF Goto, Places
  <2>3. /\ collection' \in Collections /\ collection'.rows = collection.rows
        /\ collection'.of = collection.of /\ collection'.dim = collection.dim
    BY <1>14, <2>1, CollectionLoaded DEF CreateIndex
  <2> QED
    BY <2>1, <2>2, <2>3 DEF file, redis, history
<1>15. ASSUME Insert PROVE JobsInv'
  <2>1. job.at = "insert" /\ UNCHANGED <<file, redis, service, job, history>>
    BY <1>15 DEF Insert, At
  <2>2. PICK batch \in SUBSET (job.rows \ collection.rows) :
          collection' = [collection EXCEPT !.rows = @ \cup batch]
    BY <1>15 DEF Insert
  <2>3. job.rows \in SUBSET Articles
    BY DEF Jobs
  <2>4. /\ collection' \in Collections /\ collection'.rows = collection.rows \cup batch
        /\ collection'.of = collection.of /\ collection'.dim = collection.dim
    BY <2>1, <2>2, <2>3, CollectionGrown
  <2> QED
    BY <2>1, <2>2, <2>4 DEF file, redis, history
<1>16. ASSUME Complete PROVE JobsInv'
  <2>1. /\ job.at = "insert" /\ job' = Idle /\ job.rows \subseteq collection.rows
        /\ UNCHANGED <<file, redis, service, skipped>>
        /\ collection' = [collection EXCEPT !.state = "loaded"]
        /\ done' \in BOOLEAN /\ (done' => (chain = "text" => popular))
    BY <1>16, ZenonT(30) DEF Complete, Finished, At, End
  <2>2. /\ collection' \in Collections /\ collection'.rows = collection.rows
        /\ collection'.of = collection.of /\ collection'.dim = collection.dim
        /\ collection'.state = "loaded"
    BY <2>1, CollectionLoaded
  <2>3. (done' => ~Loading' /\ CompleteMeansWhole')
    <3>1. ~Loading'
      BY <2>1, IdleJob
    <3>2. collection' # None /\ collection'.rows = collection'.of /\ collection'.state = "loaded"
      <4>1. collection # None /\ collection.of = job.rows /\ collection.rows \subseteq job.rows
        BY <2>1
      <4>2. collection.rows = job.rows
        BY <4>1, <2>1, Zenon
      <4>3. collection' # None
        BY <2>2
      <4> QED
        BY <2>2, <4>1, <4>2, <4>3, Zenon
    <3>3. chain' = chain /\ popular' = popular
      BY <2>1 DEF file, redis
    <3>4. done' => (chain' = "text" => popular')
      BY <2>1, <3>3, Zenon
    <3> HIDE DEF Loading
    <3> QED
      BY <3>1, <3>2, <3>4, Zenon
  <2>4. JobsTypeOK' /\ LoadInv' /\ FoundItemsHaveMetadata'
    BY <2>1, <2>2, IdleJob DEF file, redis
  <2>5. FillInv'
    BY <2>1, <2>3, IdleJob
  <2> QED
    BY <2>4, <2>5
<1>17. ASSUME ServiceStarts PROVE JobsInv'
  <2>1. UNCHANGED <<file, redis, job, history>> /\ service' \in {"ready", "disabled"}
    BY <1>17 DEF ServiceStarts
  <2>2. CASE UNCHANGED collection
    BY <2>1, <2>2 DEF file, redis, history
  <2>3. CASE collection # None /\ collection' = [collection EXCEPT !.state = "loaded"]
    <3>1. /\ collection' \in Collections /\ collection'.rows = collection.rows
          /\ collection'.of = collection.of /\ collection'.dim = collection.dim
          /\ collection'.state = "loaded"
      BY <2>3, CollectionLoaded
    <3> QED
      BY <2>1, <2>3, <3>1 DEF file, redis, history
  <2> QED
    BY <1>17, <2>2, <2>3 DEF ServiceStarts
<1>18. ASSUME ServiceStops \/ UNCHANGED vars PROVE JobsInv'
  BY <1>18 DEF ServiceStops, vars, file, redis, history
<1>19. ASSUME Stop PROVE JobsInv'
  BY <1>19, <1>9 DEF Stop, redis
<1> QED
  BY <1>1, <1>2, <1>3, <1>4, <1>5, <1>6, <1>7, <1>10, <1>11, <1>12, <1>13, <1>14, <1>15,
     <1>16, <1>17, <1>18, <1>19 DEF Next

\* The inductive invariant of the scripts: what a load has read and done before
\* it fills the collection, and how far it has filled it.
LEMMA JobsInvariance == Spec => []JobsInv
BY JobsInit, JobsStep, PTL DEF Spec

\* Every variable keeps its type, and the vectors of the texts always have the
\* size of the queries, whatever model has written the file.
THEOREM JobsTypeCorrect == Spec => []JobsTypeOK
BY JobsInvariance, PTL DEF JobsInv

\* Whatever is interrupted and run again, an article that a search finds has
\* its metadata in Redis.
THEOREM FoundMeansShown == Spec => []FoundItemsHaveMetadata
BY JobsInvariance, PTL DEF JobsInv

\* A load that ended has left the whole artefact, for any size of the batches.
THEOREM CompleteLoads == Spec => []CompleteMeansWhole
<1>1. JobsInv => CompleteMeansWhole
  BY DEF JobsInv, FillInv, CompleteMeansWhole
<1> QED
  BY <1>1, JobsInvariance, PTL

\* Images are dropped only by a run whose artefact has passed validation.
THEOREM DropsAreForValidFiles == Spec => ImagesDroppedForValid
<1> DEFINE A == chain = "image" /\ collection # None /\ collection' = None
                   => parquet.kind = "whole" /\ parquet.dim = job.want
<1>1. ASSUME JobsInv, [Next]_vars PROVE [A]_vars
  <2> SUFFICES ASSUME chain = "image", collection # None, collection' = None, Next
               PROVE  parquet.kind = "whole" /\ parquet.dim = job.want
    BY <1>1
  <2>1. collection \in Collections
    BY <1>1 DEF JobsInv, JobsTypeOK
  <2>2. \A s \in {"indexed", "loaded"} : [collection EXCEPT !.state = s] # None
    BY <2>1, CollectionLoaded, NoneIsNone
  <2>3. \A rows, dim : Collection({}, rows, dim, "bare") # None
    BY DEF Collection, None
  <2>4. CASE CheckCollection
    BY <1>1, <2>4 DEF CheckCollection, At, JobsInv, LoadInv, Loading
  <2>5. CASE Insert
    <3>1. PICK batch \in SUBSET (job.rows \ collection.rows) :
            collection' = [collection EXCEPT !.rows = @ \cup batch]
      BY <2>5 DEF Insert
    <3>2. job.rows \in SUBSET Articles
      BY <1>1 DEF JobsInv, JobsTypeOK, Jobs
    <3> QED
      BY <2>1, <3>1, <3>2, CollectionGrown, NoneIsNone
  <2>6. CASE Create \/ CreateIndex \/ Complete \/ ServiceStarts
    BY <2>2, <2>3, <2>6 DEF Create, CreateIndex, Complete, Finished, ServiceStarts
  <2>7. CASE Generate \/ OpenParquet \/ WriteParquet \/ OpenTopItems \/ WriteTopItems
             \/ LoadTexts \/ LoadRedis \/ ChoosePopularity \/ FillPopularity \/ TurnToMilvus
             \/ LoadImages \/ ServiceStops \/ Stop
    BY <2>7 DEF Generate, OpenParquet, WriteParquet, OpenTopItems, WriteTopItems, LoadTexts,
         LoadRedis, ChoosePopularity, FillPopularity, TurnToMilvus, LoadImages, ServiceStops, Stop
  <2> QED
    BY <2>4, <2>5, <2>6, <2>7 DEF Next
<1>2. JobsInv /\ [Next]_vars => [A]_vars
  BY <1>1
<1> QED
  BY <1>2, JobsInvariance, PTL DEF Spec, ImagesDroppedForValid
=============================================================================
