--------------------------- MODULE CatalogueJobs ---------------------------
(***************************************************************************)
(* The scripts that fill the stores the services read (data-pipeline).     *)
(*                                                                         *)
(* There are two chains, for the texts and for the images of the articles. *)
(* In each a script embeds the articles into an artefact, a parquet file,  *)
(* and another one loads it into a collection of Milvus, the one for texts *)
(* after Redis.  (No program reads the sidecar that describes a parquet    *)
(* file but to warn; it is left out.)                                      *)
(* The chains share neither a file nor a collection, so this is the module *)
(* of either of them: chain says which, and keeps its value.               *)
(*                                                                         *)
(* Somebody runs the scripts by hand, with flags, one at a time.  Any of   *)
(* them may stop between two steps, by a crash or by an exception; a run   *)
(* that fails before it has written anything is no step.  The retrieval    *)
(* deployment may start at any time and loads the texts that it finds.     *)
(***************************************************************************)
EXTENDS Integers, FiniteSets

CONSTANTS
    Articles,
    Pictured,       \* the articles with an image that can be read
    Dims,           \* sizes of embeddings, which depend on the model
    ExpectedDim,    \* EXPECTED_EMBEDDING_DIM of bootstrap_data.py
    BatchSize       \* rows of one insert

ASSUME JobsAssumption ==
    /\ Pictured \subseteq Articles
    /\ ExpectedDim \in Dims
    /\ BatchSize \in Nat \ {0}

None == [kind |-> "none"]
Torn == [kind |-> "torn"]
Artefact(rows, dim) == [kind |-> "whole", rows |-> rows, dim |-> dim]

\* of: the rows of the artefact it is loaded from (history).
Collection(rows, of, dim, state) ==
    [kind |-> "collection", rows |-> rows, of |-> of, dim |-> dim, state |-> state]

VARIABLES
    chain,      \* text or image
    parquet,    \* None, Torn or an artefact
    top,        \* top_items.parquet: none, torn or whole
    meta,       \* the articles with item:<id>:meta in Redis
    popular,    \* global:popular has members
    collection, \* None or a collection
    service,    \* the retrieval deployment: down, ready or disabled
    job,        \* the script that runs, and where it is
    done,       \* history: the last load ended, having skipped nothing
    skipped     \* history: a load has skipped Redis

file == <<chain, parquet, top>>
redis == <<meta, popular>>
history == <<done, skipped>>
vars == <<file, redis, collection, service, job, history>>

Idle == [at |-> "idle", rows |-> {}, dim |-> ExpectedDim, want |-> ExpectedDim, flags |-> {}]
Flags == {"drop-existing", "skip-redis", "skip-milvus"}

Init ==
    /\ chain \in {"text", "image"}
    /\ parquet = None /\ top = "none"
    /\ meta = {} /\ popular = FALSE
    /\ collection = None
    /\ service = "down"
    /\ job = Idle
    /\ done = FALSE /\ skipped = FALSE

At(place) == job.at = place
Goto(place) == job' = [job EXCEPT !.at = place]
End == job' = Idle
Given(flag) == flag \in job.flags

\* dim is the size of the rows, want the size that the run was told to expect.
Start(place, rows, dim, want, flags) ==
    /\ At("idle")
    /\ job' = [at |-> place, rows |-> rows, dim |-> dim, want |-> want, flags |-> flags]

-----------------------------------------------------------------------------
(* generate_embeddings.py and generate_image_embeddings.py.                *)

\* Articles that are embedded: what the input holds, up to --limit, without
\* those that have no readable image.
Embeddable == IF chain = "text" THEN Articles ELSE Pictured

\* An output that is there is replaced under --overwrite only, which the
\* caller may always give.  The rows are embedded, and their size compared
\* with --expected-dim, before anything is written.
Generate ==
    /\ \E rows \in SUBSET Embeddable \ {{}}, dim \in Dims : Start("write", rows, dim, dim, {})
    /\ UNCHANGED <<file, redis, collection, service, history>>

\* to_parquet writes the file in place; then the sidecar is written.
OpenParquet ==
    /\ At("write") /\ Goto("writing")
    /\ parquet' = Torn
    /\ UNCHANGED <<chain, top, redis, collection, service, history>>

WriteParquet ==
    /\ At("writing") /\ End
    /\ parquet' = Artefact(job.rows, job.dim)
    /\ UNCHANGED <<chain, top, redis, collection, service, history>>

\* generate_top_items.py counts the purchases, validates the ranking and writes
\* it in place.
OpenTopItems ==
    /\ chain = "text" /\ Start("ranking", {}, ExpectedDim, ExpectedDim, {})
    /\ top' = "torn"
    /\ UNCHANGED <<chain, parquet, redis, collection, service, history>>

WriteTopItems ==
    /\ At("ranking") /\ End
    /\ top' = "whole"
    /\ UNCHANGED <<chain, parquet, redis, collection, service, history>>

-----------------------------------------------------------------------------
(* bootstrap_data.py: Redis.                                               *)

\* main reads the artefact, if it can, and exports the metadata to a file.
LoadTexts ==
    /\ chain = "text" /\ parquet.kind = "whole"
    /\ \E flags \in SUBSET Flags :
          /\ Start(IF "skip-redis" \in flags THEN "milvus" ELSE "redis",
                   parquet.rows, parquet.dim, ExpectedDim, flags)
          /\ skipped' = (skipped \/ "skip-redis" \in flags)
    /\ done' = FALSE
    /\ UNCHANGED <<file, redis, collection, service>>

\* Mutant: Milvus first.
MilvusFirst ==
    /\ At("redis") /\ Goto("milvus")
    /\ UNCHANGED <<file, redis, collection, service, history>>

\* load_redis_data: a pipeline, which is a transaction.
LoadRedis ==
    /\ At("redis") /\ Goto("popularity")
    /\ meta' = meta \cup job.rows
    /\ UNCHANGED <<file, popular, collection, service, history>>

\* Only now, with the metadata loaded, the source of the popularity is looked
\* for: the file, if there is one, which may not be readable; or the
\* transactions; or none and that is allowed, or the script exits.
\* load_popularity deletes the old key before it adds the new one.
ChoosePopularity ==
    /\ At("popularity")
    /\ \/ top = "torn" /\ popular' = popular /\ End
       \/ top = "whole" /\ popular' = FALSE /\ Goto("zadd")
       \/ top = "none" /\ \/ popular' = FALSE /\ Goto("zadd")
                          \/ popular' = popular /\ Goto("milvus")
                          \/ popular' = popular /\ End
    /\ UNCHANGED <<file, meta, collection, service, history>>

FillPopularity ==
    /\ At("zadd") /\ Goto("milvus")
    /\ popular' = TRUE
    /\ UNCHANGED <<file, meta, collection, service, history>>

\* The last decision of main.
TurnToMilvus ==
    /\ At("milvus")
    /\ IF Given("skip-milvus") THEN End ELSE Goto("check")
    /\ UNCHANGED <<file, redis, collection, service, history>>

-----------------------------------------------------------------------------
(* bootstrap_image_collection.py and the Milvus part of bootstrap_data.py. *)

\* Mutant: the size is checked when the collection is created, as for texts.
ValidatesLater ==
    /\ chain = "image" /\ parquet.kind = "whole"
    /\ \E want \in Dims, flags \in SUBSET {"drop-existing"} :
          Start("check", parquet.rows, parquet.dim, want, flags)
    /\ done' = FALSE
    /\ UNCHANGED <<file, redis, collection, service, skipped>>

\* main validates the artefact, with the size it was told to expect, before it
\* asks Milvus for the collection; it refuses the name of the other one.
LoadImages ==
    /\ chain = "image" /\ parquet.kind = "whole"
    /\ \E want \in Dims, flags \in SUBSET {"drop-existing"} :
          /\ parquet.dim = want
          /\ Start("check", parquet.rows, parquet.dim, want, flags)
    /\ done' = FALSE
    /\ UNCHANGED <<file, redis, collection, service, skipped>>

\* has_collection: the script exits, or drops what is there.
CheckCollection ==
    /\ At("check")
    /\ \/ /\ collection = None /\ Goto("create")
          /\ UNCHANGED collection
       \/ /\ collection # None /\ Given("drop-existing") /\ Goto("create")
          /\ collection' = None
       \/ /\ collection # None /\ ~Given("drop-existing") /\ End
          /\ UNCHANGED collection
    /\ UNCHANGED <<file, redis, service, history>>

\* Mutant: a collection takes the size of whatever is in the artefact.
TrustsSize ==
    /\ At("create") /\ Goto("index")
    /\ collection' = Collection({}, job.rows, job.dim, "bare")
    /\ UNCHANGED <<file, redis, service, history>>

\* Only then, when the old collection is gone, the size of the texts'
\* embeddings is checked.
Create ==
    /\ At("create")
    /\ \/ /\ job.dim # job.want /\ End
          /\ UNCHANGED collection
       \/ /\ job.dim = job.want /\ Goto("index")
          /\ collection' = Collection({}, job.rows, job.dim, "bare")
    /\ UNCHANGED <<file, redis, service, history>>

\* The collection of images is loaded as soon as it has its index, before its
\* rows come, the one of texts when they are there.
CreateIndex ==
    /\ At("index") /\ Goto("insert")
    /\ collection' = [collection EXCEPT !.state = IF chain = "image" THEN "loaded" ELSE "indexed"]
    /\ UNCHANGED <<file, redis, service, history>>

\* One batch: BatchSize rows, the last one may have less.
Insert ==
    /\ At("insert")
    /\ \E batch \in SUBSET (job.rows \ collection.rows) :
          /\ batch # {}
          /\ \/ Cardinality(batch) = BatchSize
             \/ Cardinality(batch) < BatchSize /\ batch = job.rows \ collection.rows
          /\ collection' = [collection EXCEPT !.rows = @ \cup batch]
    /\ UNCHANGED <<file, redis, service, job, history>>

\* load(), or flush() of the images; the verification only prints.
Finished ==
    /\ End
    /\ collection' = [collection EXCEPT !.state = "loaded"]
    /\ done' = (chain = "text" => ~Given("skip-redis") /\ popular)
    /\ UNCHANGED <<file, redis, service, skipped>>

\* Mutant: a last batch that is not full is left out.
SkipsRemainder ==
    /\ At("insert")
    /\ Cardinality(job.rows \ collection.rows) < BatchSize
    /\ Finished

Complete ==
    /\ At("insert")
    /\ job.rows \subseteq collection.rows
    /\ Finished

-----------------------------------------------------------------------------
\* RetrievalDeployment.__init__ loads the texts' collection, however far it is
\* filled; without one that can be loaded it stays disabled.
ServiceStarts ==
    /\ chain = "text" /\ service = "down"
    /\ IF collection # None /\ collection.state # "bare"
       THEN service' = "ready" /\ collection' = [collection EXCEPT !.state = "loaded"]
       ELSE service' = "disabled" /\ UNCHANGED collection
    /\ UNCHANGED <<file, redis, job, history>>

ServiceStops ==
    /\ service # "down" /\ service' = "down"
    /\ UNCHANGED <<file, redis, collection, job, history>>

\* A script ends in the middle.
Stop ==
    /\ ~At("idle") /\ End
    /\ UNCHANGED <<file, redis, collection, service, history>>

Next ==
    \/ Generate \/ OpenParquet \/ WriteParquet \/ OpenTopItems \/ WriteTopItems
    \/ LoadTexts \/ LoadRedis \/ ChoosePopularity \/ FillPopularity \/ TurnToMilvus
    \/ LoadImages
    \/ CheckCollection \/ Create \/ CreateIndex \/ Insert \/ Complete
    \/ ServiceStarts \/ ServiceStops \/ Stop

Spec == Init /\ [][Next]_vars

-----------------------------------------------------------------------------
Places == {"idle", "write", "writing", "ranking", "redis", "popularity", "zadd", "milvus",
           "check", "create", "index", "insert"}
Jobs == [at : Places, rows : SUBSET Articles, dim : Dims, want : Dims, flags : SUBSET Flags]
Artefacts == [kind : {"whole"}, rows : SUBSET Articles, dim : Dims]
Collections == [kind : {"collection"}, rows : SUBSET Articles, of : SUBSET Articles,
                dim : Dims, state : {"bare", "indexed", "loaded"}]

\* The file, the stores and the script are well typed, and the vectors of the
\* texts have the size that the service's queries have.
JobsTypeOK ==
    /\ chain \in {"text", "image"}
    /\ parquet \in {None, Torn} \cup Artefacts
    /\ top \in {"none", "torn", "whole"}
    /\ meta \in SUBSET Articles
    /\ popular \in BOOLEAN
    /\ collection \in {None} \cup Collections
    /\ service \in {"down", "ready", "disabled"}
    /\ job \in Jobs
    /\ done \in BOOLEAN
    /\ skipped \in BOOLEAN
    /\ chain = "text" /\ collection # None => collection.dim = ExpectedDim

\* Whatever is found in the collection of the texts has its metadata in Redis,
\* after any crashes, unless somebody told a load to skip Redis: a search does
\* not answer with items that the gateway cannot show.
FoundItemsHaveMetadata ==
    chain = "text" /\ collection # None /\ ~skipped => collection.rows \subseteq meta

\* After a load that ran to its end everything the artefact held is found, and
\* for the texts the fallback has popular items, until the next load begins.
CompleteMeansWhole ==
    done => /\ collection # None
            /\ collection.rows = collection.of
            /\ collection.state = "loaded"
            /\ chain = "text" => popular

\* The images' collection is dropped only for an artefact of the size that the
\* run expects: a run that is going to be refused leaves the images searchable.
ImagesDroppedForValid ==
    [][chain = "image" /\ collection # None /\ collection' = None
          => parquet.kind = "whole" /\ parquet.dim = job.want]_vars
=============================================================================
