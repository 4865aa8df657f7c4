-------------------------- MODULE MCCatalogueJobs --------------------------
(* An instance of CatalogueJobs: three articles, with and without images,  *)
(* two sizes of embeddings, inserts of at most two rows.                   *)
EXTENDS CatalogueJobs, TLC

MCArticles == {"a1", "a2", "a3"}
MCPictured == {"a1", "a2"}
=============================================================================
