---------------------------- MODULE ServingPool ----------------------------
(***************************************************************************)
(* The deployments behind the ingress: router, popularity, embedding,      *)
(* retrieval, reranker, generation, vision (deployments/*.py).             *)
(*                                                                         *)
(* A call waits until its deployment has room (Ray Serve's                 *)
(* max_ongoing_requests, and a semaphore inside retrieval and generation), *)
(* then works in a thread of its own (asyncio.to_thread; the router, which *)
(* has no await to be cancelled at, in the event loop of its replica).  A  *)
(* caller that gives up does not stop the work.  Either Ray lets the call  *)
(* finish, and it keeps its place until then; or it is cancelled, which    *)
(* frees the place at once while the thread goes on.                       *)
(***************************************************************************)
EXTENDS Integers, FiniteSets

CONSTANTS
    Calls,      \* who may have a call under way
    Cap,        \* [Deployments -> Nat]: max_ongoing_requests, or the semaphore
    Starts      \* how the deployments' constructors may have ended

Deployments == {"router", "popularity", "embedding", "retrieval", "reranker", "generation", "vision"}

\* What a constructor may leave.  Embedding and retrieval stay up without a
\* model or a collection, for good, and refuse every call; the reranker falls
\* back to its stub and generation to its template; vision starts or the
\* replica does not.  Router and popularity have nothing to load.
EmbeddingLoads == {"loaded", "missing"}
RetrievalLoads == {"loaded", "missing"}
RerankerLoads == {"loaded", "substitute"}
GenerationLoads == {"loaded", "substitute"}
VisionLoads == {"loaded"}
PlainLoads == {"loaded"}
Loads == [d \in Deployments |-> CASE d = "embedding" -> EmbeddingLoads
                                  [] d = "retrieval" -> RetrievalLoads
                                  [] d = "reranker" -> RerankerLoads
                                  [] d = "generation" -> GenerationLoads
                                  [] d = "vision" -> VisionLoads
                                  [] d \in {"router", "popularity"} -> PlainLoads]

ASSUME PoolAssumption ==
    /\ Cap \in [Deployments -> Nat \ {0}]
    /\ IsFiniteSet(Calls)
    /\ \A start \in Starts, d \in Deployments : start[d] \in Loads[d]

VARIABLES
    model,      \* [Deployments -> what the constructor left]
    callee,     \* [Calls -> Deployments]: whom the last call went to
    at,         \* [Calls -> CallStates]
    kept,       \* [Deployments -> Nat]: calls given up that keep their place
    loose       \* [Deployments -> Nat]: threads of cancelled calls

poolVars == <<model, callee, at, kept, loose>>

CallStates == {"none", "waiting", "working", "answered", "failed"}

PoolTypeOK ==
    /\ model \in Starts
    /\ callee \in [Calls -> Deployments]
    /\ at \in [Calls -> CallStates]
    /\ kept \in [Deployments -> Nat]
    /\ loose \in [Deployments -> Nat]

PoolInit ==
    /\ model \in Starts
    /\ callee = [c \in Calls |-> "embedding"]
    /\ at = [c \in Calls |-> "none"]
    /\ kept = [d \in Deployments |-> 0]
    /\ loose = [d \in Deployments |-> 0]

Working(d) == {c \in Calls : at[c] = "working" /\ callee[c] = d}

\* The places that are taken.
Taken(d) == Cardinality(Working(d)) + kept[d]

\* The threads that run.
Threads(d) == Cardinality(Working(d)) + kept[d] + loose[d]

-----------------------------------------------------------------------------

NoCall == <<>>
OneCall(c, d) == [x \in {c} |-> d]

\* One step of a caller.  The calls in S are over for it: their result is
\* taken, or they are given up (asyncio.wait_for, or the caller's own
\* cancellation), and of one that works the thread goes on, with its place
\* ("kept") or without.  Then the calls in DOMAIN to are made, to the
\* deployments they are mapped to, and refused when that is not ready.
Turn(S, places, to) ==
    LET late(d) == Cardinality(S \cap Working(d))
    IN  /\ callee' = [c \in Calls |-> IF c \in DOMAIN to THEN to[c] ELSE callee[c]]
        /\ at' = [c \in Calls |-> IF c \in DOMAIN to
                                  THEN IF model[to[c]] = "missing" THEN "failed" ELSE "waiting"
                                  ELSE IF c \in S THEN "none" ELSE at[c]]
        /\ IF places = "kept"
           THEN /\ kept' = [d \in Deployments |-> kept[d] + late(d)]
                /\ UNCHANGED loose
           ELSE /\ loose' = [d \in Deployments |-> loose[d] + late(d)]
                /\ UNCHANGED kept
        /\ UNCHANGED model

\* Serve passes the call on, and the semaphore lets it through.
Enter(c) ==
    /\ at[c] = "waiting"
    /\ Taken(callee[c]) < Cap[callee[c]]
    /\ at' = [at EXCEPT ![c] = "working"]
    /\ UNCHANGED <<model, callee, kept, loose>>

\* The work ends: the call returns, or it raises or answers with an error
\* (vision).
Finish(c) ==
    /\ at[c] = "working"
    /\ \E result \in {"answered", "failed"} : at' = [at EXCEPT ![c] = result]
    /\ UNCHANGED <<model, callee, kept, loose>>

\* Mutant: a place is given back twice.
EndsTwice(d) ==
    /\ \/ kept[d] > 0 /\ kept' = [kept EXCEPT ![d] = @ - 1] /\ loose' = [loose EXCEPT ![d] = @ - 1]
       \/ loose[d] > 0 /\ loose' = [loose EXCEPT ![d] = @ - 1] /\ UNCHANGED kept
    /\ UNCHANGED <<model, callee, at>>

\* A thread ends whose caller is gone.
LateEnd(d) ==
    /\ \/ kept[d] > 0 /\ kept' = [kept EXCEPT ![d] = @ - 1] /\ UNCHANGED loose
       \/ loose[d] > 0 /\ loose' = [loose EXCEPT ![d] = @ - 1] /\ UNCHANGED kept
    /\ UNCHANGED <<model, callee, at>>

\* What may happen to the pools, whoever the callers are.
PoolNext ==
    \/ \E S \in SUBSET Calls, places \in {"kept", "freed"}, D \in SUBSET Calls :
          \E to \in [D -> Deployments] : Turn(S, places, to)
    \/ \E c \in Calls : Enter(c) \/ Finish(c)
    \/ \E d \in Deployments : LateEnd(d)

PoolSpec == PoolInit /\ [][PoolNext]_poolVars

-----------------------------------------------------------------------------
(* A statement of the code's comments, which the model does not keep.      *)

\* "Concurrency protection (prevent OOM under load)" (generation.py:97) and
\* "keep a single embedding actor replica and bound concurrent work per
\* replica" (embedding.py:25): no more threads run a model than the limit says.
WorkWithinCap == \A d \in Deployments : Threads(d) <= Cap[d]
=============================================================================
