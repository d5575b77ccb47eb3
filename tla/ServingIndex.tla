---------------------------- MODULE ServingIndex ----------------------------
(***************************************************************************)
(* The serving corpus of the RAG layer and the three projections that      *)
(* follow it: the lexical rows (rag/lexical_projection.py), the vectors    *)
(* with their index states (rag/indexing.py, rag/pgvector_store.py) and    *)
(* the answer cache (rag/answer_cache_store.py), held together by one row  *)
(* with two generations (rag/serving_generation.py).                       *)
(*                                                                         *)
(* Ingestion, approval, narrowing and revocation change the corpus in one  *)
(* transaction each.  Ingestion also decides whether and how widely a      *)
(* trusted row that cites the source is served, and never touches that     *)
(* row's vector.  A reindex job reads, calls the embedding provider        *)
(* without any lock and writes in a second transaction; a request reads    *)
(* the generations once and answers many steps later.  The deferred        *)
(* triggers of migration e2b3c4d5f6a7 are part of the schema.              *)
(*                                                                         *)
(* A document's text never changes under its id (a re-parse makes new      *)
(* chunks), so its version is its permission level and its provenance, and *)
(* a hash or an HMAC over it is the part of the version it covers.  Every  *)
(* query matches every document.                                           *)
(***************************************************************************)
EXTENDS Integers, FiniteSets

CONSTANTS
    Chunks,         \* document chunks
    Knowledge,      \* trusted knowledge rows
    MaxLevel,       \* levels are 0..MaxLevel, stricter is greater
    Provenances,    \* approval provenances of a document
    Jobs,           \* reindex sessions
    Requests,       \* RAG requests
    MaxCorpus,      \* bound: corpus generations
    MaxVector,      \* bound: vector index generations
    MaxEntries,     \* bound: answers in the cache
    Null

Docs == Chunks \cup Knowledge
Levels == 0..MaxLevel
Versions == [level : Levels, prov : Provenances \cup {Null}]
Lanes == {"v1", "v2"}
Backends == {"keyword", "pgvector"}

LexicalRows == [version : Versions, corpus : 0..MaxCorpus]
VectorRows == [lane : Lanes, version : Versions, level : Levels]
StateRows == [lane : Lanes, level : Levels, prov : Provenances \cup {Null},
              vector : 0..MaxVector]

ASSUME ServingAssumption ==
    /\ Chunks \cap Knowledge = {}
    /\ MaxLevel \in Nat
    /\ Provenances # {}
    /\ MaxCorpus \in Nat
    /\ MaxVector \in Nat
    /\ MaxEntries \in Nat
    /\ Null \notin Versions \cup Provenances \cup Levels
    /\ Null \notin LexicalRows \cup VectorRows \cup StateRows

VARIABLES
    canonical,      \* the documents build_rag_v2_index_documents yields
    trusted,        \* what approves a knowledge row; Null when nothing does
    gone,           \* document ids that were withdrawn; none comes back
    generation,     \* rag_serving_corpus_generations
    lexical,        \* rag_lexical_serving_projections
    vectors,        \* rag_vector_documents: lane, metadata version, permission
    states,         \* vector_index_states: lane, hashed level, provenance, generation
    job,            \* what a reindex session carries across the provider call
    request,        \* what a request carries from its admission on
    cache           \* rag_answer_cache_entries

serving == <<canonical, trusted, gone, generation, lexical, vectors, states>>
vars == <<canonical, trusted, gone, generation, lexical, vectors, states, job,
          request, cache>>

NoJob == [phase |-> "idle", lane |-> "v1", version |-> <<>>, changed |-> {},
          corpus |-> 0, vector |-> 0]
NoRequest == [phase |-> "idle", backend |-> "keyword", corpus |-> 0,
              vector |-> 0, effective |-> "keyword", seen |-> {},
              from |-> {}, hit |-> "none"]

Init ==
    /\ canonical = [d \in Docs |-> Null]
    /\ trusted = [k \in Knowledge |-> Null]
    /\ gone = {}
    /\ generation = [corpus |-> 0, vector |-> 0]
    /\ lexical = [d \in Docs |-> Null]
    /\ vectors = [d \in Docs |-> Null]
    /\ states = [d \in Docs |-> Null]
    /\ job = [j \in Jobs |-> NoJob]
    /\ request = [r \in Requests |-> NoRequest]
    /\ cache = {}

-----------------------------------------------------------------------------
(* The corpus, its generations and the lexical projection. *)

Live == {d \in Docs : canonical[d] # Null}

FreshChunks == {c \in Chunks : canonical[c] = Null /\ c \notin gone}

FreshKnowledge == {k \in Knowledge : trusted[k] = Null /\ k \notin gone}

TrustedRows == {k \in Knowledge : trusted[k] # Null}

(* vector_serving_tombstones: a revocation leaves one, a re-parse does not. *)
Tombstoned == gone \cap Knowledge

Tracked(d) == states[d] # Null /\ states[d].lane = "v2"

TrackedRows == [d \in {e \in Docs : Tracked(e)} |-> states[d]]

(* Mutant of TriggerAllows: the trigger is missing. *)
NoTrigger == TRUE

(* rag_require_vector_generation_mutation: checked when a transaction that
   wrote a tracked state row commits. *)
TriggerAllows ==
    TrackedRows' # TrackedRows => generation'.vector # generation.vector

(* Mutant of Advance: the generation moves, the lexical rows stay. *)
AdvanceOnly(corpus, vectorMoves) ==
    /\ generation.corpus < MaxCorpus
    /\ vectorMoves => generation.vector < MaxVector
    /\ generation' = [corpus |-> generation.corpus + 1,
                      vector |-> generation.vector + IF vectorMoves THEN 1 ELSE 0]
    /\ canonical' = corpus
    /\ UNCHANGED lexical

(* advance_corpus_generation and refresh_rag_lexical_projections: the corpus
   changes, its generation moves, the lexical rows are replaced. *)
Advance(corpus, vectorMoves) ==
    /\ generation.corpus < MaxCorpus
    /\ vectorMoves => generation.vector < MaxVector
    /\ generation' = [corpus |-> generation.corpus + 1,
                      vector |-> generation.vector + IF vectorMoves THEN 1 ELSE 0]
    /\ canonical' = corpus
    /\ lexical' = [d \in Docs |->
                     IF corpus[d] = Null THEN Null
                     ELSE [version |-> corpus[d], corpus |-> generation.corpus + 1]]

(* The before_commit listener of an approval or a revocation: the corpus
   generation moves only when the corpus differs. *)
Settle(corpus, vectorMoves) ==
    \/ corpus # canonical /\ Advance(corpus, vectorMoves)
    \/ /\ corpus = canonical
       /\ vectorMoves => generation.vector < MaxVector
       /\ generation' = IF vectorMoves THEN [generation EXCEPT !.vector = @ + 1]
                        ELSE generation
       /\ UNCHANGED <<canonical, lexical>>

Without(rows, D) == [d \in Docs |-> IF d \in D THEN Null ELSE rows[d]]

(* _apply_vector_mutations: a vector row changed and a state is tracked. *)
VectorsMove(D) ==
    /\ \E d \in D : vectors[d] # Null
    /\ \E d \in D : Tracked(d)

(* narrow_permissions raises on a row that is narrower already. *)
NotBroader(D, level) == \A d \in D : vectors[d] # Null => vectors[d].level <= level

(* Whether a trusted row is served, and how widely. *)
Served(prov, reach) == IF reach = Null THEN Null ELSE [level |-> reach, prov |-> prov]

(* The envelope of a trusted row reads its sources as they are: ingesting one
   may make a citing row ineligible, eligible again, narrower or wider. *)
Reassessed(corpus, reach) ==
    [d \in Docs |-> IF d \notin Knowledge THEN corpus[d]
                    ELSE IF trusted[d] = Null THEN Null
                    ELSE Served(trusted[d], reach[d])]

(* A parsed source: new chunks, which carry no approval, come and the chunks
   of its last parse go.  Nothing comes of a source without a known permission. *)
ReplaceChunks(old, new, level, reach) ==
    /\ old \subseteq Live \cap Chunks
    /\ new \subseteq FreshChunks
    /\ Advance(Reassessed([d \in Docs |->
                   IF d \in new THEN [level |-> level, prov |-> Null]
                   ELSE IF d \in old THEN Null ELSE canonical[d]], reach),
               VectorsMove(old))
    /\ gone' = gone \cup old
    /\ vectors' = Without(vectors, old)
    /\ states' = Without(states, old)
    /\ TriggerAllows
    /\ UNCHANGED <<trusted, job, request, cache>>

(* Only the permission of a source changed: its chunks narrow, or stay.  A
   vector keeps its metadata, its permission column narrows; a legacy state
   takes the hash of the narrowed document, a tracked one does not. *)
Narrow(D, level, reach) ==
    /\ D \subseteq Live \cap Chunks
    /\ \A d \in D : level > canonical[d].level
    /\ NotBroader(D, level)
    /\ Advance(Reassessed([d \in Docs |->
                   IF d \in D THEN [canonical[d] EXCEPT !.level = level]
                   ELSE canonical[d]], reach),
               VectorsMove(D))
    /\ vectors' = [d \in Docs |->
                     IF d \in D /\ vectors[d] # Null
                     THEN [vectors[d] EXCEPT !.level = level] ELSE vectors[d]]
    /\ states' = [d \in Docs |->
                    IF d \in D /\ states[d] # Null /\ ~Tracked(d)
                    THEN [states[d] EXCEPT !.level = level] ELSE states[d]]
    /\ UNCHANGED <<trusted, gone, job, request, cache>>

Approve(k, level, prov) ==
    /\ k \in FreshKnowledge
    /\ Settle([canonical EXCEPT ![k] = Served(prov, level)], FALSE)
    /\ trusted' = [trusted EXCEPT ![k] = prov]
    /\ UNCHANGED <<gone, vectors, states, job, request, cache>>

(* An approval joins a row, or one of several is revoked: what approves the
   row changes and, with it, whether and how widely it is served. *)
Reaffirm(k, prov, reach) ==
    /\ k \in TrustedRows
    /\ prov # trusted[k]
    /\ Settle([canonical EXCEPT ![k] = Served(prov, reach)], FALSE)
    /\ trusted' = [trusted EXCEPT ![k] = prov]
    /\ UNCHANGED <<gone, vectors, states, job, request, cache>>

(* Reconciliation brings row, link and vector to the permission of a source.
   The envelope had it already: only the link's own permission, a part of
   the provenance, can change the version.  A legacy state takes the new hash
   when it held the old one. *)
NarrowTrusted(k, level, prov) ==
    /\ k \in TrustedRows
    /\ k \in Live => level <= canonical[k].level
    /\ NotBroader({k}, level)
    /\ Settle(IF k \in Live THEN [canonical EXCEPT ![k].prov = prov] ELSE canonical,
              VectorsMove({k}))
    /\ trusted' = [trusted EXCEPT ![k] = prov]
    /\ vectors' = IF vectors[k] = Null THEN vectors
                  ELSE [vectors EXCEPT ![k].level = level]
    /\ \/ UNCHANGED states
       \/ /\ k \in Live /\ states[k] # Null /\ ~Tracked(k)
          /\ states' = [states EXCEPT ![k].level = canonical[k].level]
    /\ UNCHANGED <<gone, job, request, cache>>

(* Mutant of Revoke: the index state stays behind. *)
RevokeKeepsState(k) ==
    /\ k \in TrustedRows
    /\ Settle([canonical EXCEPT ![k] = Null], TRUE)
    /\ trusted' = [trusted EXCEPT ![k] = Null]
    /\ gone' = gone \cup {k}
    /\ vectors' = Without(vectors, {k})
    /\ UNCHANGED <<states, job, request, cache>>

(* The last approval of a row is revoked, served or not: the tombstone always
   moves the index. *)
Revoke(k) ==
    /\ k \in TrustedRows
    /\ Settle([canonical EXCEPT ![k] = Null], TRUE)
    /\ trusted' = [trusted EXCEPT ![k] = Null]
    /\ gone' = gone \cup {k}
    /\ vectors' = Without(vectors, {k})
    /\ states' = Without(states, {k})
    /\ UNCHANGED <<job, request, cache>>

-----------------------------------------------------------------------------
(* Reindex sessions: read, call the provider without a lock, write. *)

Skippable(lane, d) ==
    states[d] # Null /\ states[d].lane = lane /\ states[d].level = canonical[d].level

(* What a session plans and what it must embed.  The legacy session sees only
   what the older approval rule serves and has nothing to do with the rest. *)
ListDocuments(j, lane, D) ==
    /\ job[j].phase = "idle"
    /\ D # {}
    /\ lane = "v2" => D = Live
    /\ lane = "v1" => \A d \in D : ~Skippable("v1", d)
    /\ job' = [job EXCEPT ![j] =
                 [NoJob EXCEPT !.phase = IF lane = "v1" THEN "embedding" ELSE "listed",
                               !.lane = lane,
                               !.version = [d \in D |-> canonical[d]],
                               !.changed = {d \in D : ~Skippable(lane, d)}]]
    /\ UNCHANGED <<serving, request, cache>>

AsListed(j) ==
    \A d \in DOMAIN job[j].version : canonical[d] = job[j].version[d]

(* _capture_rag_v2_pre_provider_snapshot *)
CaptureSnapshot(j) ==
    /\ job[j].phase = "listed"
    /\ AsListed(j)
    /\ job' = [job EXCEPT ![j].phase = "embedding",
                          ![j].corpus = generation.corpus,
                          ![j].vector = generation.vector]
    /\ UNCHANGED <<serving, request, cache>>

(* Rows are written from the canonical document read under the locks. *)
VectorRow(j, d) ==
    [lane |-> job[j].lane, version |-> canonical[d], level |-> canonical[d].level]

StateRow(j, d, vector) ==
    [lane |-> job[j].lane, level |-> canonical[d].level,
     prov |-> canonical[d].prov, vector |-> vector]

(* A legacy session keeps what is still canonical and at most narrowed. *)
StillEligible(j) ==
    {d \in job[j].changed :
        /\ canonical[d] # Null
        /\ d \notin Tombstoned
        /\ canonical[d].level >= job[j].version[d].level}

PersistV1(j) ==
    /\ job[j].phase = "embedding"
    /\ job[j].lane = "v1"
    /\ vectors' = [d \in Docs |-> IF d \in StillEligible(j) THEN VectorRow(j, d)
                                  ELSE vectors[d]]
    /\ states' = [d \in Docs |-> IF d \in StillEligible(j) THEN StateRow(j, d, 0)
                                 ELSE states[d]]
    /\ job' = [job EXCEPT ![j] = NoJob]
    /\ UNCHANGED <<canonical, trusted, gone, generation, lexical, request, cache>>
    /\ TriggerAllows

(* The rows a session only refreshes: the state, never the vector. *)
Refreshed(j) == DOMAIN job[j].version \ job[j].changed

SnapshotHolds(j) ==
    /\ generation = [corpus |-> job[j].corpus, vector |-> job[j].vector]
    /\ AsListed(j)
    /\ DOMAIN job[j].version \cap Tombstoned = {}
    /\ \A d \in Refreshed(j) : Skippable("v2", d) /\ vectors[d] # Null

(* _persist_locked_pgvector_batch with the snapshot of the session. *)
PersistV2(j) ==
    /\ job[j].phase = "embedding"
    /\ job[j].lane = "v2"
    /\ SnapshotHolds(j)
    /\ LET moves == job[j].changed # {}
           next == generation.vector + 1
       IN /\ moves => generation.vector < MaxVector
          /\ generation' = IF moves THEN [generation EXCEPT !.vector = next]
                           ELSE generation
          /\ vectors' = [d \in Docs |-> IF d \in job[j].changed THEN VectorRow(j, d)
                                        ELSE vectors[d]]
          /\ states' = [d \in Docs |->
                          CASE d \in job[j].changed -> StateRow(j, d, next)
                            [] d \in Refreshed(j) -> StateRow(j, d, states[d].vector)
                            [] OTHER -> states[d]]
    /\ job' = [job EXCEPT ![j] = NoJob]
    /\ UNCHANGED <<canonical, trusted, gone, lexical, request, cache>>
    /\ TriggerAllows

(* The snapshot drifted, the provider failed or the commit was refused. *)
AbandonJob(j) ==
    /\ job[j].phase # "idle"
    /\ job' = [job EXCEPT ![j] = NoJob]
    /\ UNCHANGED <<serving, request, cache>>

-----------------------------------------------------------------------------
(* Requests: admission, retrieval, answer, publication. *)

(* current_rag_lexical_projections *)
LexicalHit(d) ==
    /\ lexical[d] # Null
    /\ lexical[d].corpus = generation.corpus
    /\ lexical[d].version = canonical[d]

(* Mutant of VectorHit: the document is joined, its metadata not compared. *)
HitByIdentity(d) ==
    /\ lexical[d] # Null
    /\ lexical[d].corpus = generation.corpus
    /\ vectors[d] # Null
    /\ vectors[d].lane = "v2"
    /\ d \notin Tombstoned

(* _rag_v2_search_sql: the metadata of the vector matches the lexical row;
   its live-eligibility clause, which reads the same rows once more, is left
   out. *)
VectorHit(d) ==
    /\ lexical[d] # Null
    /\ lexical[d].corpus = generation.corpus
    /\ vectors[d] # Null
    /\ vectors[d].lane = "v2"
    /\ vectors[d].version = lexical[d].version
    /\ d \notin Tombstoned

Results(backend) ==
    {<<d, lexical[d].version>> : d \in
        {e \in Docs : IF backend = "pgvector" THEN VectorHit(e) ELSE LexicalHit(e)}}

(* _expected_state_matches *)
StateMatches(d) ==
    /\ Tracked(d)
    /\ states[d].level = canonical[d].level
    /\ states[d].prov = canonical[d].prov
    /\ states[d].vector <= generation.vector

(* RagV2ServingIndexReadinessService.inspect *)
Ready ==
    /\ \A d \in Live : StateMatches(d) /\ vectors[d] # Null /\ d \notin Tombstoned
    /\ \A d \in Docs : Tracked(d) => d \in Live

(* The index generation binds a request only on the vector backend. *)
SameGenerations(r) ==
    /\ generation.corpus = request[r].corpus
    /\ request[r].backend = "pgvector" => generation.vector = request[r].vector

Admit(r, backend) ==
    /\ request[r].phase = "idle"
    /\ backend = "pgvector" => Ready
    /\ request' = [request EXCEPT ![r] =
                     [NoRequest EXCEPT !.phase = "admitted", !.backend = backend,
                                       !.corpus = generation.corpus,
                                       !.vector = IF backend = "pgvector"
                                                  THEN generation.vector ELSE 0]]
    /\ UNCHANGED <<serving, job, cache>>

(* The query embedding is sent while readiness is what it was. *)
EmbedQuery(r) ==
    /\ request[r].phase = "admitted"
    /\ request[r].backend = "pgvector"
    /\ Ready
    /\ SameGenerations(r)
    /\ request' = [request EXCEPT ![r].phase = "embedded"]
    /\ UNCHANGED <<serving, job, cache>>

(* PgVectorEvidenceRetriever.invoke falls back to the lexical rows when the
   generations moved, the index is not ready or the store fails. *)
RetrieveFrom(r, backend) ==
    /\ request[r].phase = IF request[r].backend = "pgvector" THEN "embedded"
                          ELSE "admitted"
    /\ backend = "pgvector" =>
         request[r].backend = "pgvector" /\ Ready /\ SameGenerations(r)
    /\ Results(backend) # {}
    /\ request' = [request EXCEPT ![r].phase = "retrieved",
                                  ![r].effective = backend,
                                  ![r].seen = Results(backend)]
    /\ UNCHANGED <<serving, job, cache>>

(* Mutant of CacheKey: the key leaves the evidence and its corpus out. *)
KeyWithoutEvidence(r) ==
    <<request[r].backend, request[r].effective, 0, request[r].vector, {}>>

CacheKey(r) ==
    <<request[r].backend, request[r].effective, request[r].corpus,
      request[r].vector, request[r].seen>>

(* Before the answer is sent every evidence row must still be current. *)
GenerateAnswer(r) ==
    /\ request[r].phase = "retrieved"
    /\ request[r].seen \subseteq Results("keyword")
    /\ request' = [request EXCEPT ![r].phase = "answered",
                                  ![r].from = request[r].seen]
    /\ UNCHANGED <<serving, job, cache>>

TakeFromCache(r) ==
    /\ request[r].phase = "retrieved"
    /\ \E entry \in cache :
         /\ entry.key = CacheKey(r)
         /\ ~entry.expired
         /\ request' = [request EXCEPT ![r].phase = "answered",
                                       ![r].from = entry.from, ![r].hit = "valid"]
    /\ UNCHANGED <<serving, job, cache>>

(* The drift test of the final transaction. *)
Undrifted(r) ==
    /\ SameGenerations(r)
    /\ request[r].effective = "pgvector" => Ready
    /\ request[r].seen = Results(request[r].effective)

(* RagFinalizationService._finalize with a supported outcome. *)
Publish(r) ==
    /\ request[r].phase = "answered"
    /\ request[r].hit # "expired"
    /\ Undrifted(r)
    /\ request' = [request EXCEPT ![r].phase = "published"]
    /\ UNCHANGED <<serving, job, cache>>

(* The answer is stored after its publication committed; only an expired
   entry is replaced. *)
StoreAnswer(r) ==
    /\ request[r].phase = "published"
    /\ request[r].hit = "none"
    /\ \A entry \in cache : entry.key = CacheKey(r) => entry.expired
    /\ cache' = {entry \in cache : entry.key # CacheKey(r)}
                  \cup {[key |-> CacheKey(r), from |-> request[r].from,
                         expired |-> FALSE]}
    /\ Cardinality(cache') <= MaxEntries
    /\ request' = [request EXCEPT ![r] = NoRequest]
    /\ UNCHANGED <<serving, job>>

(* Nothing, or nothing but a refusal, is published; or the request is done. *)
EndRequest(r) ==
    /\ request[r].phase # "idle"
    /\ request' = [request EXCEPT ![r] = NoRequest]
    /\ UNCHANGED <<serving, job, cache>>

(* An entry lives ten minutes, in the store and in the hands of a request. *)
Expire(entry) ==
    /\ ~entry.expired
    /\ cache' = (cache \ {entry}) \cup {[entry EXCEPT !.expired = TRUE]}
    /\ request' = [r \in Requests |->
                     IF request[r].hit = "valid" /\ CacheKey(r) = entry.key
                     THEN [request[r] EXCEPT !.hit = "expired"] ELSE request[r]]
    /\ UNCHANGED <<serving, job>>

CleanUp(entry) ==
    /\ entry.expired
    /\ cache' = cache \ {entry}
    /\ UNCHANGED <<serving, job, request>>

-----------------------------------------------------------------------------
Reaches == Levels \cup {Null}

Ingest ==
    \E level \in Levels, reach \in [Knowledge -> Reaches] :
        \/ \E old, new \in SUBSET Chunks : ReplaceChunks(old, new, level, reach)
        \/ \E D \in SUBSET Chunks : Narrow(D, level, reach)

Trust ==
    \E k \in Knowledge :
        \/ Revoke(k)
        \/ \E prov \in Provenances, level \in Levels :
              Approve(k, level, prov) \/ NarrowTrusted(k, level, prov)
        \/ \E prov \in Provenances, reach \in Reaches : Reaffirm(k, prov, reach)

Corpus == Ingest \/ Trust

Reindex ==
    \E j \in Jobs :
        \/ \E lane \in Lanes, D \in SUBSET Live : ListDocuments(j, lane, D)
        \/ CaptureSnapshot(j)
        \/ PersistV1(j)
        \/ PersistV2(j)
        \/ AbandonJob(j)

Serve ==
    \/ \E r \in Requests :
         \/ \E backend \in Backends : Admit(r, backend) \/ RetrieveFrom(r, backend)
         \/ EmbedQuery(r)
         \/ GenerateAnswer(r)
         \/ TakeFromCache(r)
         \/ Publish(r)
         \/ StoreAnswer(r)
         \/ EndRequest(r)
    \/ \E entry \in cache : Expire(entry) \/ CleanUp(entry)

Next == Corpus \/ Reindex \/ Serve

Spec == Init /\ [][Next]_vars

-----------------------------------------------------------------------------
Evidence == Docs \X Versions

Keys == Backends \X Backends \X (0..MaxCorpus) \X (0..MaxVector) \X SUBSET Evidence

Plans == UNION {[D -> Versions] : D \in SUBSET Docs}

JobRecords ==
    [phase : {"idle", "listed", "embedding"}, lane : Lanes, version : Plans,
     changed : SUBSET Docs, corpus : 0..MaxCorpus, vector : 0..MaxVector]

RequestRecords ==
    [phase : {"idle", "admitted", "embedded", "retrieved", "answered", "published"},
     backend : Backends, corpus : 0..MaxCorpus, vector : 0..MaxVector,
     effective : Backends, seen : SUBSET Evidence, from : SUBSET Evidence,
     hit : {"none", "valid", "expired"}]

(* Type correctness; and a tracked index state has its vector, whatever
   ingestion, revocation and the two kinds of reindex wrote. *)
TypeOK ==
    /\ canonical \in [Docs -> Versions \cup {Null}]
    /\ trusted \in [Knowledge -> Provenances \cup {Null}]
    /\ gone \subseteq Docs
    /\ generation \in [corpus : 0..MaxCorpus, vector : 0..MaxVector]
    /\ lexical \in [Docs -> LexicalRows \cup {Null}]
    /\ vectors \in [Docs -> VectorRows \cup {Null}]
    /\ states \in [Docs -> StateRows \cup {Null}]
    /\ \A d \in Docs : Tracked(d) => vectors[d] # Null
    /\ job \in [Jobs -> JobRecords]
    /\ request \in [Requests -> RequestRecords]
    /\ cache \subseteq [key : Keys, from : SUBSET Evidence, expired : BOOLEAN]

(* advance_corpus_generation (serving_generation.py:210) refreshes the lexical
   rows with the generation: keyword retrieval finds every canonical document,
   as it is, whatever changed the corpus. *)
LexicalIsCanonical ==
    \A d \in Docs : canonical[d] # Null <=> LexicalHit(d)

(* A reindex writes after a provider call without locks (indexing.py:661) and
   ingestion leaves the vectors of citing knowledge alone (service.py:282-341).
   No vector outlives its chunk or its trusted row, a chunk's is never visible
   more widely than the chunk, and vector search finds no document, knowledge
   that a source has made ineligible or narrower included, that is not
   canonical or that its vector shows more widely. *)
VectorsAreServable ==
    \A d \in Docs : vectors[d] # Null =>
        /\ d \in Knowledge => trusted[d] # Null
        /\ d \in Chunks \/ VectorHit(d) =>
              canonical[d] # Null /\ vectors[d].level >= canonical[d].level

(* A request compares generations, not rows, to know that what it retrieved is
   what retrieval would return now (pgvector_retriever.py:94-125): neither
   backend's results change while both generations stay. *)
SearchMovesGenerations ==
    [][generation' = generation
          => \A backend \in Backends : Results(backend)' = Results(backend)]_vars

(* An answer is published, fresh or from the cache, only when every document
   it was made from is canonical in that version at that moment
   (rag_finalization.py:1429-1438, answer_cache_store.py:129). *)
AnswersAreCurrent ==
    [][\A r \in Requests :
          request'[r].phase = "published" /\ request[r].phase # "published" =>
              \A e \in request'[r].from : canonical[e[1]] = e[2]]_vars

=============================================================================
