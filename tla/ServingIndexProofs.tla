-------------------------- MODULE ServingIndexProofs --------------------------
(* Theorems about ServingIndex, for any chunks, knowledge, levels, jobs,     *)
(* requests and bounds.                                                      *)
EXTENDS ServingIndex, TLAPS

-----------------------------------------------------------------------------
(* The inductive invariant. *)

LexicalOf(corpus, n) ==
    [d \in Docs |-> IF corpus[d] = Null THEN Null
                    ELSE [version |-> corpus[d], corpus |-> n]]

LexInv == lexical = LexicalOf(canonical, generation.corpus)

VectorOK(d) ==
    vectors[d] # Null =>
        /\ d \in Chunks => canonical[d] # Null /\ vectors[d].level >= canonical[d].level
        /\ d \in Knowledge => trusted[d] # Null
        /\ vectors[d].level >= vectors[d].version.level
        /\ vectors[d].lane = "v2" => Tracked(d)

VectorInv == \A d \in Docs : VectorOK(d)

(* Only a trusted row is served; it need not be. *)
TrustInv == \A k \in Knowledge : canonical[k] # Null => trusted[k] # Null

JobInv ==
    \A j \in Jobs : job[j].phase # "idle" => job[j].changed \subseteq DOMAIN job[j].version

RequestInv ==
    /\ \A r \in Requests :
          request[r].phase \in {"answered", "published"} => request[r].from = request[r].seen
    /\ \A entry \in cache : entry.from = entry.key[5]

Approvals == [Knowledge -> Provenances \cup {Null}]
Corpora == [Docs -> Versions \cup {Null}]
LexicalTables == [Docs -> LexicalRows \cup {Null}]
VectorTables == [Docs -> VectorRows \cup {Null}]
StateTables == [Docs -> StateRows \cup {Null}]
Generations == [corpus : 0..MaxCorpus, vector : 0..MaxVector]
Entries == [key : Keys, from : SUBSET Evidence, expired : BOOLEAN]

TrackedHaveVectors == \A d \in Docs : Tracked(d) => vectors[d] # Null

TypeParts ==
    /\ canonical \in Corpora
    /\ trusted \in Approvals
    /\ gone \subseteq Docs
    /\ generation \in Generations
    /\ lexical \in LexicalTables
    /\ vectors \in VectorTables
    /\ states \in StateTables
    /\ TrackedHaveVectors
    /\ job \in [Jobs -> JobRecords]
    /\ request \in [Requests -> RequestRecords]
    /\ cache \subseteq Entries

LEMMA TypeIsParts == TypeOK <=> TypeParts
BY DEF TypeOK, TypeParts, Approvals, Corpora, LexicalTables, VectorTables, StateTables,
       Generations, Entries, TrackedHaveVectors

LEMMA TypeIsPartsNext == TypeOK' <=> TypeParts'
BY DEF TypeOK, TypeParts, Approvals, Corpora, LexicalTables, VectorTables, StateTables,
       Generations, Entries, TrackedHaveVectors

(* What the corpus, the jobs and the requests each keep. *)
CorpusInv == /\ canonical \in Corpora
             /\ trusted \in Approvals
             /\ gone \subseteq Docs
             /\ generation \in Generations
             /\ lexical \in LexicalTables
             /\ vectors \in VectorTables
             /\ states \in StateTables
             /\ TrackedHaveVectors
             /\ LexInv
             /\ TrustInv
             /\ VectorInv

JobsInv == job \in [Jobs -> JobRecords] /\ JobInv

ServeInv == /\ request \in [Requests -> RequestRecords]
            /\ cache \subseteq Entries
            /\ RequestInv

IInv == CorpusInv /\ JobsInv /\ ServeInv

LEMMA EmptyPlan == <<>> \in Plans
<1>1. <<>> \in [{} -> Versions]
  OBVIOUS
<1> QED BY <1>1 DEF Plans

LEMMA InitInv == Init => IInv
<1> SUFFICES ASSUME Init PROVE IInv
  OBVIOUS
<1>1. CorpusInv
  BY ServingAssumption DEF Init, CorpusInv, Approvals, TrustInv, Docs, Corpora, LexicalTables, VectorTables,
     StateTables, Generations, TrackedHaveVectors, Tracked, LexInv, LexicalOf,
     VectorInv, VectorOK
<1>2. JobsInv
  <2>1. NoJob \in JobRecords
    BY EmptyPlan, ServingAssumption DEF NoJob, JobRecords, Lanes
  <2> QED BY <2>1 DEF Init, JobsInv, JobInv, NoJob
<1>3. ServeInv
  <2>1. NoRequest \in RequestRecords
    BY ServingAssumption DEF NoRequest, RequestRecords, Backends
  <2> QED BY <2>1 DEF Init, ServeInv, RequestInv, NoRequest
<1> QED BY <1>1, <1>2, <1>3 DEF IInv

-----------------------------------------------------------------------------
(* The corpus. *)

LEMMA VersionFields ==
    ASSUME NEW corpus \in Corpora, NEW d \in Docs, corpus[d] # Null
    PROVE  corpus[d] \in Versions /\ corpus[d].level \in Levels
           /\ corpus[d].prov \in Provenances \cup {Null}
BY DEF Corpora, Versions

LEMMA AdvanceKeeps ==
    ASSUME CorpusInv, NEW corpus \in Corpora, NEW m \in BOOLEAN, Advance(corpus, m)
    PROVE  /\ canonical' \in Corpora
           /\ generation' \in Generations
           /\ lexical' \in LexicalTables
           /\ LexInv'
           /\ canonical' = corpus
           /\ generation' # generation
<1>1. canonical' = corpus
  BY DEF Advance
<1>2. /\ generation.corpus \in 0..MaxCorpus /\ generation.vector \in 0..MaxVector
      /\ generation.corpus + 1 \in 1..MaxCorpus
      /\ m => generation.vector + 1 \in 0..MaxVector
  BY ServingAssumption DEF Advance, CorpusInv, Generations
<1>3. generation' \in Generations /\ generation'.corpus = generation.corpus + 1
  BY <1>2, ServingAssumption DEF Advance, Generations
<1>4. lexical' = LexicalOf(corpus, generation.corpus + 1)
  BY DEF Advance, LexicalOf
<1>5. \A d \in Docs : corpus[d] # Null => corpus[d] \in Versions
  BY DEF Corpora
<1>6. lexical' \in LexicalTables
  BY <1>2, <1>4, <1>5 DEF LexicalOf, LexicalTables, LexicalRows
<1>7. generation' # generation
  BY <1>2, <1>3
<1> QED BY <1>1, <1>3, <1>4, <1>6, <1>7 DEF LexInv

LEMMA SettleKeeps ==
    ASSUME CorpusInv, NEW corpus \in Corpora, NEW m \in BOOLEAN, Settle(corpus, m)
    PROVE  /\ canonical' \in Corpora
           /\ generation' \in Generations
           /\ lexical' \in LexicalTables
           /\ LexInv'
           /\ canonical' = corpus
           /\ m \/ corpus # canonical => generation' # generation
           /\ generation' = generation => UNCHANGED <<canonical, lexical>>
<1>1. CASE Advance(corpus, m)
  BY <1>1, AdvanceKeeps
<1>2. CASE /\ corpus = canonical
           /\ m => generation.vector < MaxVector
           /\ generation' = IF m THEN [generation EXCEPT !.vector = @ + 1] ELSE generation
           /\ UNCHANGED <<canonical, lexical>>
  <2>1. generation \in Generations
    BY DEF CorpusInv
  <2>2. generation' \in Generations /\ generation'.corpus = generation.corpus
        /\ (m => generation' # generation)
    <3>1. CASE m
      <4>1. generation.vector \in 0..MaxVector /\ generation.vector + 1 \in 0..MaxVector
            /\ generation.vector + 1 # generation.vector
        BY <1>2, <2>1, <3>1, ServingAssumption DEF Generations
      <4>2. generation' = [generation EXCEPT !.vector = generation.vector + 1]
        BY <1>2, <3>1
      <4>3. generation'.vector = generation.vector + 1
        BY <2>1, <4>2 DEF Generations
      <4> QED BY <2>1, <4>1, <4>2, <4>3 DEF Generations
    <3>2. CASE ~m
      BY <1>2, <2>1, <3>2
    <3> QED BY <3>1, <3>2
  <2> QED BY <1>2, <2>2 DEF CorpusInv, LexInv
<1> QED BY <1>1, <1>2 DEF Settle

LEMMA ServedTyped ==
    ASSUME NEW prov \in Provenances, NEW reach \in Reaches
    PROVE  Served(prov, reach) \in Versions \cup {Null}
BY DEF Served, Reaches, Versions

(* Ingestion decides about trusted rows, and about no chunk but its own. *)
LEMMA ReassessedKeeps ==
    ASSUME CorpusInv, NEW corpus \in Corpora, NEW reach \in [Knowledge -> Reaches]
    PROVE  /\ Reassessed(corpus, reach) \in Corpora
           /\ \A c \in Chunks : Reassessed(corpus, reach)[c] = corpus[c]
           /\ \A k \in Knowledge : Reassessed(corpus, reach)[k] # Null => trusted[k] # Null
<1>1. \A d \in Docs : Reassessed(corpus, reach)[d] \in Versions \cup {Null}
  <2> SUFFICES ASSUME NEW d \in Docs
               PROVE  Reassessed(corpus, reach)[d] \in Versions \cup {Null}
    OBVIOUS
  <2>1. CASE d \in Knowledge /\ trusted[d] # Null
    <3>1. trusted[d] \in Provenances /\ reach[d] \in Reaches
      BY <2>1 DEF CorpusInv, Approvals
    <3> QED BY <2>1, <3>1, ServedTyped DEF Reassessed
  <2>2. CASE ~(d \in Knowledge /\ trusted[d] # Null)
    BY <2>2 DEF Reassessed, Corpora
  <2> QED BY <2>1, <2>2
<1>2. \A c \in Chunks : Reassessed(corpus, reach)[c] = corpus[c]
  BY ServingAssumption DEF Reassessed, Docs
<1>3. \A k \in Knowledge : Reassessed(corpus, reach)[k] # Null => trusted[k] # Null
  BY DEF Reassessed, Docs
<1> QED BY <1>1, <1>2, <1>3 DEF Corpora, Reassessed

(* Rows that are deleted together leave the rest as it was. *)
LEMMA WithoutKeeps ==
    ASSUME CorpusInv, NEW D \in SUBSET Docs,
           vectors' = Without(vectors, D), states' = Without(states, D)
    PROVE  /\ vectors' \in VectorTables
           /\ states' \in StateTables
           /\ TrackedHaveVectors'
BY ServingAssumption DEF CorpusInv, Without, VectorTables, StateTables, TrackedHaveVectors, Tracked

LEMMA WithoutVectors ==
    ASSUME CorpusInv, NEW D \in SUBSET Docs,
           vectors' = Without(vectors, D), states' = Without(states, D),
           \A c \in Chunks \ D : canonical[c] # Null => canonical'[c] = canonical[c],
           \A k \in Knowledge \ D : trusted'[k] = trusted[k]
    PROVE  VectorInv'
BY ServingAssumption DEF CorpusInv, Without, VectorInv, VectorOK, Tracked

LEMMA MovesIsBoolean == \A D \in SUBSET Docs : VectorsMove(D) \in BOOLEAN
BY DEF VectorsMove

LEMMA ReplaceKeeps ==
    ASSUME CorpusInv, NEW old \in SUBSET Chunks, NEW new \in SUBSET Chunks,
           NEW level \in Levels, NEW reach \in [Knowledge -> Reaches],
           ReplaceChunks(old, new, level, reach)
    PROVE  CorpusInv' /\ generation' # generation
<1> DEFINE parsed == [d \in Docs |-> IF d \in new THEN [level |-> level, prov |-> Null]
                                     ELSE IF d \in old THEN Null ELSE canonical[d]]
           corpus == Reassessed(parsed, reach)
<1>1. parsed \in Corpora
  BY DEF CorpusInv, Corpora, Versions
<1>2. Advance(corpus, VectorsMove(old)) /\ old \in SUBSET Docs
  BY DEF ReplaceChunks, Docs
<1>3. VectorsMove(old) \in BOOLEAN
  BY <1>2, MovesIsBoolean
<1>4. \A c \in Chunks \ old : canonical[c] # Null => parsed[c] = canonical[c]
  BY DEF ReplaceChunks, FreshChunks, Docs
<1> HIDE DEF parsed
<1>5. /\ corpus \in Corpora /\ \A c \in Chunks : corpus[c] = parsed[c]
      /\ \A k \in Knowledge : corpus[k] # Null => trusted[k] # Null
  BY <1>1, ReassessedKeeps
<1> HIDE DEF corpus
<1>6. /\ canonical' \in Corpora /\ generation' \in Generations
      /\ lexical' \in LexicalTables /\ LexInv' /\ canonical' = corpus
      /\ generation' # generation
  BY <1>2, <1>3, <1>5, AdvanceKeeps
<1>7. vectors' = Without(vectors, old) /\ states' = Without(states, old)
      /\ gone' \subseteq Docs /\ trusted' = trusted
  BY <1>2 DEF ReplaceChunks, CorpusInv
<1>8. TrustInv' /\ trusted' \in Approvals
  BY <1>5, <1>6, <1>7 DEF TrustInv, CorpusInv
<1>9. VectorInv'
  BY <1>2, <1>4, <1>5, <1>6, <1>7, WithoutVectors
<1>10. vectors' \in VectorTables /\ states' \in StateTables /\ TrackedHaveVectors'
  BY <1>2, <1>7, WithoutKeeps
<1> QED BY <1>6, <1>7, <1>8, <1>9, <1>10 DEF CorpusInv

LEMMA KnowledgeRow ==
    ASSUME CorpusInv, NEW k \in Knowledge, NEW v \in Versions \cup {Null}
    PROVE  /\ k \in Docs /\ k \notin Chunks
           /\ [canonical EXCEPT ![k] = v] \in Corpora
           /\ [canonical EXCEPT ![k] = v][k] = v
           /\ \A d \in Docs \ {k} : [canonical EXCEPT ![k] = v][d] = canonical[d]
           /\ \A c \in Chunks : [canonical EXCEPT ![k] = v][c] = canonical[c]
BY ServingAssumption DEF CorpusInv, Corpora, Docs

LEMMA RevokeKeeps ==
    ASSUME CorpusInv, NEW k \in Knowledge, Revoke(k)
    PROVE  CorpusInv' /\ generation' # generation
<1> DEFINE corpus == [canonical EXCEPT ![k] = Null]
<1>1. /\ corpus \in Corpora /\ {k} \in SUBSET Docs /\ corpus[k] = Null
      /\ \A d \in Docs \ {k} : corpus[d] = canonical[d]
      /\ \A c \in Chunks : corpus[c] = canonical[c]
  BY KnowledgeRow
<1>2. Settle(corpus, TRUE)
  BY DEF Revoke
<1> HIDE DEF corpus
<1>4. /\ canonical' \in Corpora /\ generation' \in Generations
      /\ lexical' \in LexicalTables /\ LexInv' /\ canonical' = corpus
      /\ generation' # generation
  BY <1>1, <1>2, SettleKeeps
<1>6. vectors' = Without(vectors, {k}) /\ states' = Without(states, {k})
      /\ gone' \subseteq Docs
  BY <1>1 DEF Revoke, CorpusInv
<1>a. trusted' \in Approvals /\ \A e \in Knowledge \ {k} : trusted'[e] = trusted[e]
  BY DEF Revoke, CorpusInv, Approvals
<1>b. TrustInv'
  BY <1>1, <1>4, <1>a DEF TrustInv, CorpusInv, Docs
<1>7. VectorInv'
  BY <1>1, <1>4, <1>6, <1>a, WithoutVectors
<1>8. vectors' \in VectorTables /\ states' \in StateTables /\ TrackedHaveVectors'
  BY <1>1, <1>6, WithoutKeeps
<1> QED BY <1>4, <1>6, <1>7, <1>8, <1>a, <1>b DEF CorpusInv

(* An approval that joins a row: no chunk, no vector, no state moves. *)
LEMMA JoinKeeps ==
    ASSUME CorpusInv, NEW k \in Knowledge, NEW prov \in Provenances,
           NEW v \in Versions \cup {Null},
           Settle([canonical EXCEPT ![k] = v], FALSE),
           trusted' = [trusted EXCEPT ![k] = prov],
           UNCHANGED <<gone, vectors, states>>
    PROVE  /\ CorpusInv'
           /\ generation' = generation => UNCHANGED <<canonical, lexical>>
<1> DEFINE corpus == [canonical EXCEPT ![k] = v]
<1>1. /\ corpus \in Corpora
      /\ \A d \in Docs \ {k} : corpus[d] = canonical[d]
      /\ \A c \in Chunks : corpus[c] = canonical[c]
  BY KnowledgeRow
<1>2. Settle(corpus, FALSE)
  OBVIOUS
<1> HIDE DEF corpus
<1>3. /\ canonical' \in Corpora /\ generation' \in Generations
      /\ lexical' \in LexicalTables /\ LexInv' /\ canonical' = corpus
      /\ generation' = generation => UNCHANGED <<canonical, lexical>>
  BY <1>1, <1>2, SettleKeeps
<1>4. /\ trusted' \in Approvals /\ trusted'[k] # Null
      /\ \A e \in Knowledge \ {k} : trusted'[e] = trusted[e]
  BY ServingAssumption DEF CorpusInv, Approvals
<1>5. TrustInv'
  BY <1>1, <1>3, <1>4 DEF TrustInv, CorpusInv, Docs
<1>6. /\ vectors' \in VectorTables /\ states' \in StateTables /\ TrackedHaveVectors'
      /\ \A d \in Docs : Tracked(d)' <=> Tracked(d)
  BY DEF CorpusInv, TrackedHaveVectors, Tracked
<1>7. VectorInv'
  BY <1>1, <1>3, <1>4, <1>6 DEF VectorInv, VectorOK, CorpusInv
<1> QED BY <1>3, <1>4, <1>5, <1>6, <1>7 DEF CorpusInv

LEMMA ApproveKeeps ==
    ASSUME CorpusInv, NEW k \in Knowledge, NEW level \in Levels,
           NEW prov \in Provenances, Approve(k, level, prov)
    PROVE  /\ CorpusInv'
           /\ generation' = generation => UNCHANGED <<canonical, lexical>>
<1>1. Served(prov, level) \in Versions \cup {Null}
  BY ServedTyped DEF Reaches
<1> QED BY <1>1, JoinKeeps DEF Approve

LEMMA ReaffirmKeeps ==
    ASSUME CorpusInv, NEW k \in Knowledge, NEW prov \in Provenances,
           NEW reach \in Reaches, Reaffirm(k, prov, reach)
    PROVE  /\ CorpusInv'
           /\ generation' = generation => UNCHANGED <<canonical, lexical>>
<1>1. Served(prov, reach) \in Versions \cup {Null}
  BY ServedTyped
<1> QED BY <1>1, JoinKeeps DEF Reaffirm

(* Vectors whose permission column narrows. *)
LEMMA NarrowedVectors ==
    ASSUME CorpusInv, NEW D \in SUBSET Docs, NEW level \in Levels, NotBroader(D, level),
           vectors' = [d \in Docs |->
                         IF d \in D /\ vectors[d] # Null
                         THEN [vectors[d] EXCEPT !.level = level] ELSE vectors[d]]
    PROVE  /\ vectors' \in VectorTables
           /\ \A d \in Docs : vectors'[d] = Null <=> vectors[d] = Null
           /\ \A d \in Docs : vectors[d] # Null =>
                /\ vectors'[d].lane = vectors[d].lane
                /\ vectors'[d].version = vectors[d].version
                /\ vectors'[d].level = IF d \in D THEN level ELSE vectors[d].level
                /\ vectors'[d].level >= vectors'[d].version.level
<1>1. \A v \in VectorRows : v # Null
  BY ServingAssumption
<1>2. \A d \in Docs : vectors[d] # Null => vectors[d] \in VectorRows
  BY DEF CorpusInv, VectorTables
<1>3. \A d \in Docs : d \in D /\ vectors[d] # Null =>
         /\ [vectors[d] EXCEPT !.level = level] \in VectorRows
         /\ [vectors[d] EXCEPT !.level = level].level = level
         /\ [vectors[d] EXCEPT !.level = level].lane = vectors[d].lane
         /\ [vectors[d] EXCEPT !.level = level].version = vectors[d].version
  BY <1>2 DEF VectorRows
<1>4. /\ \A d \in Docs : vectors'[d] = Null <=> vectors[d] = Null
      /\ \A d \in Docs : vectors[d] # Null =>
           /\ vectors'[d] \in VectorRows
           /\ vectors'[d].lane = vectors[d].lane
           /\ vectors'[d].version = vectors[d].version
           /\ vectors'[d].level = IF d \in D THEN level ELSE vectors[d].level
  BY <1>1, <1>2, <1>3
<1>5. vectors' \in VectorTables
  BY <1>4 DEF VectorTables
<1>6. ASSUME NEW d \in Docs, vectors[d] # Null
      PROVE  vectors'[d].level >= vectors'[d].version.level
  <2>1. vectors[d].level >= vectors[d].version.level
    BY <1>6 DEF CorpusInv, VectorInv, VectorOK
  <2>2. vectors[d].level \in Int /\ vectors[d].version.level \in Int /\ level \in Int
    BY <1>2, <1>6, ServingAssumption DEF VectorRows, Versions, Levels
  <2>3. d \in D => vectors[d].level <= level
    BY <1>6 DEF NotBroader
  <2> QED BY <1>4, <1>6, <2>1, <2>2, <2>3
<1> QED BY <1>4, <1>5, <1>6

LEMMA NarrowKeeps ==
    ASSUME CorpusInv, NEW D \in SUBSET Chunks, NEW level \in Levels,
           NEW reach \in [Knowledge -> Reaches], Narrow(D, level, reach)
    PROVE  CorpusInv' /\ generation' # generation
<1> DEFINE narrowed == [d \in Docs |-> IF d \in D THEN [canonical[d] EXCEPT !.level = level]
                                       ELSE canonical[d]]
           corpus == Reassessed(narrowed, reach)
<1>0. D \in SUBSET Docs /\ \A d \in D : canonical[d] # Null
  BY DEF Narrow, Live, Docs
<1>a. \A d \in D : /\ [canonical[d] EXCEPT !.level = level] \in Versions
                   /\ [canonical[d] EXCEPT !.level = level].level = level
  BY <1>0, VersionFields DEF CorpusInv, Versions
<1>1. narrowed \in Corpora
  BY <1>a DEF CorpusInv, Corpora
<1>b. \A v \in Versions \cup StateRows : v # Null
  BY ServingAssumption
<1>c. /\ \A d \in D : narrowed[d] # Null /\ narrowed[d].level = level
      /\ \A d \in Docs \ D : narrowed[d] = canonical[d]
  BY <1>0, <1>a, <1>b
<1>2. Advance(corpus, VectorsMove(D))
  BY DEF Narrow
<1>3. VectorsMove(D) \in BOOLEAN
  BY <1>0, MovesIsBoolean
<1> HIDE DEF narrowed
<1>5. /\ corpus \in Corpora /\ \A c \in Chunks : corpus[c] = narrowed[c]
      /\ \A k \in Knowledge : corpus[k] # Null => trusted[k] # Null
  BY <1>1, ReassessedKeeps
<1> HIDE DEF corpus
<1>6. /\ canonical' \in Corpora /\ generation' \in Generations
      /\ lexical' \in LexicalTables /\ LexInv' /\ canonical' = corpus
      /\ generation' # generation
  BY <1>2, <1>3, <1>5, AdvanceKeeps
<1>7. gone' = gone /\ trusted' = trusted
  BY DEF Narrow
<1>8. TrustInv' /\ trusted' \in Approvals /\ gone' \subseteq Docs
  BY <1>5, <1>6, <1>7 DEF TrustInv, CorpusInv
<1>9. /\ vectors' \in VectorTables
      /\ \A d \in Docs : vectors'[d] = Null <=> vectors[d] = Null
      /\ \A d \in Docs : vectors[d] # Null =>
           /\ vectors'[d].lane = vectors[d].lane
           /\ vectors'[d].level = IF d \in D THEN level ELSE vectors[d].level
           /\ vectors'[d].level >= vectors'[d].version.level
  BY <1>0, NarrowedVectors DEF Narrow
<1>10. /\ states' \in StateTables
       /\ \A d \in Docs : Tracked(d)' <=> Tracked(d)
  <2>1. states' = [d \in Docs |-> IF d \in D /\ states[d] # Null /\ ~Tracked(d)
                                  THEN [states[d] EXCEPT !.level = level] ELSE states[d]]
    BY DEF Narrow
  <2>2. \A d \in Docs : states[d] # Null => states[d] \in StateRows
    BY DEF CorpusInv, StateTables
  <2>3. \A d \in Docs : states[d] # Null =>
           /\ [states[d] EXCEPT !.level = level] \in StateRows
           /\ [states[d] EXCEPT !.level = level].lane = states[d].lane
    BY <2>2 DEF StateRows
  <2>4. \A d \in Docs : /\ states'[d] \in StateRows \cup {Null}
                        /\ states'[d] = Null <=> states[d] = Null
                        /\ states[d] # Null => states'[d].lane = states[d].lane
    BY <1>b, <2>1, <2>2, <2>3
  <2> QED BY <2>1, <2>4 DEF StateTables, Tracked
<1>11. TrackedHaveVectors'
  BY <1>9, <1>10 DEF TrackedHaveVectors, CorpusInv
<1>12. level >= level
  BY ServingAssumption DEF Levels
<1>13. VectorInv'
  <2> SUFFICES ASSUME NEW d \in Docs, vectors'[d] # Null PROVE VectorOK(d)'
    BY DEF VectorInv, VectorOK
  <2>1. vectors[d] # Null /\ VectorOK(d)
    BY <1>9 DEF CorpusInv, VectorInv
  <2>2. CASE d \in D
    <3>1. d \in Chunks /\ d \notin Knowledge
      BY <2>2, ServingAssumption
    <3>2. canonical'[d] # Null /\ canonical'[d].level = level
      BY <1>c, <1>5, <1>6, <2>2, <3>1
    <3> QED BY <1>9, <1>10, <1>12, <2>1, <2>2, <3>1, <3>2 DEF VectorOK
  <2>3. CASE d \notin D
    <3>1. d \in Chunks => canonical'[d] = canonical[d]
      BY <1>c, <1>5, <1>6, <2>3
    <3> QED BY <1>7, <1>9, <1>10, <2>1, <2>3, <3>1 DEF VectorOK
  <2> QED BY <2>2, <2>3
<1> QED BY <1>6, <1>8, <1>9, <1>10, <1>11, <1>13 DEF CorpusInv

(* What vector search reads of the vectors. *)
SameVectors ==
    \A d \in Docs : /\ vectors'[d] = Null <=> vectors[d] = Null
                    /\ vectors[d] # Null => /\ vectors'[d].lane = vectors[d].lane
                                            /\ vectors'[d].version = vectors[d].version

LEMMA NarrowTrustedKeeps ==
    ASSUME CorpusInv, NEW k \in Knowledge, NEW level \in Levels,
           NEW prov \in Provenances, NarrowTrusted(k, level, prov)
    PROVE  /\ CorpusInv'
           /\ SameVectors
           /\ generation' = generation => UNCHANGED <<canonical, lexical>>
<1> DEFINE corpus == IF k \in Live THEN [canonical EXCEPT ![k].prov = prov] ELSE canonical
<1>0. k \in Docs /\ k \notin Chunks /\ trusted[k] # Null
  BY ServingAssumption DEF NarrowTrusted, TrustedRows, Docs
<1>1. /\ corpus \in Corpora
      /\ \A d \in Docs \ {k} : corpus[d] = canonical[d]
      /\ \A c \in Chunks : corpus[c] = canonical[c]
  <2>1. CASE k \in Live
    <3>1. canonical[k] \in Versions
      BY <2>1, VersionFields DEF CorpusInv, Live
    <3>2. [canonical[k] EXCEPT !.prov = prov] \in Versions
      BY <3>1 DEF Versions
    <3> DEFINE v == [canonical[k] EXCEPT !.prov = prov]
    <3>3. corpus = [canonical EXCEPT ![k] = v]
      BY <2>1
    <3>4. v \in Versions
      BY <3>2
    <3> HIDE DEF corpus, v
    <3>5. v \in Versions \cup {Null}
      BY <3>4
    <3>6. /\ [canonical EXCEPT ![k] = v] \in Corpora
          /\ \A d \in Docs \ {k} : [canonical EXCEPT ![k] = v][d] = canonical[d]
          /\ \A c \in Chunks : [canonical EXCEPT ![k] = v][c] = canonical[c]
      BY <3>5, KnowledgeRow
    <3> QED BY <3>3, <3>6
  <2>2. CASE k \notin Live
    BY <2>2 DEF CorpusInv
  <2> QED BY <2>1, <2>2
<1>2. Settle(corpus, VectorsMove({k})) /\ VectorsMove({k}) \in BOOLEAN
  BY <1>0, MovesIsBoolean DEF NarrowTrusted
<1> HIDE DEF corpus
<1>3. /\ canonical' \in Corpora /\ generation' \in Generations
      /\ lexical' \in LexicalTables /\ LexInv' /\ canonical' = corpus
      /\ generation' = generation => UNCHANGED <<canonical, lexical>>
  BY <1>1, <1>2, SettleKeeps
<1>4. /\ trusted' \in Approvals /\ trusted'[k] # Null
      /\ \A e \in Knowledge \ {k} : trusted'[e] = trusted[e]
      /\ gone' \subseteq Docs
  BY ServingAssumption DEF NarrowTrusted, CorpusInv, Approvals
<1>5. TrustInv'
  BY <1>1, <1>3, <1>4 DEF TrustInv, CorpusInv, Docs
<1>6. vectors' = [d \in Docs |->
                    IF d \in {k} /\ vectors[d] # Null
                    THEN [vectors[d] EXCEPT !.level = level] ELSE vectors[d]]
  BY <1>0 DEF NarrowTrusted, CorpusInv, VectorTables
<1>7. {k} \in SUBSET Docs /\ NotBroader({k}, level)
  BY <1>0 DEF NarrowTrusted
<1>8. /\ vectors' \in VectorTables
      /\ \A d \in Docs : vectors'[d] = Null <=> vectors[d] = Null
      /\ \A d \in Docs : vectors[d] # Null =>
           /\ vectors'[d].lane = vectors[d].lane
           /\ vectors'[d].version = vectors[d].version
           /\ vectors'[d].level = IF d \in {k} THEN level ELSE vectors[d].level
           /\ vectors'[d].level >= vectors'[d].version.level
  BY <1>6, <1>7, NarrowedVectors
<1>9. /\ states' \in StateTables
      /\ \A d \in Docs : Tracked(d)' <=> Tracked(d)
  <2>1. CASE UNCHANGED states
    BY <2>1 DEF CorpusInv, Tracked
  <2>2. CASE /\ k \in Live /\ states[k] # Null /\ ~Tracked(k)
             /\ states' = [states EXCEPT ![k].level = canonical[k].level]
    <3>1. states[k] \in StateRows /\ canonical[k].level \in Levels
      BY <1>0, <2>2, VersionFields DEF CorpusInv, StateTables, Live
    <3> DEFINE r == [states[k] EXCEPT !.level = canonical[k].level]
    <3>2. r \in StateRows /\ r.lane = states[k].lane
      BY <3>1 DEF StateRows
    <3>3. states' = [states EXCEPT ![k] = r]
      BY <2>2
    <3> HIDE DEF r
    <3> QED BY <1>0, <2>2, <3>2, <3>3 DEF CorpusInv, StateTables, Tracked
  <2> QED BY <2>1, <2>2 DEF NarrowTrusted
<1>10. TrackedHaveVectors'
  BY <1>8, <1>9 DEF TrackedHaveVectors, CorpusInv
<1>11. VectorInv'
  <2> SUFFICES ASSUME NEW d \in Docs, vectors'[d] # Null PROVE VectorOK(d)'
    BY DEF VectorInv, VectorOK
  <2>1. vectors[d] # Null /\ VectorOK(d)
    BY <1>8 DEF CorpusInv, VectorInv
  <2>2. d \in Chunks => d # k /\ canonical'[d] = canonical[d]
    BY <1>0, <1>1, <1>3
  <2>3. d \in Knowledge => trusted'[d] # Null
    BY <1>4, <2>1 DEF VectorOK
  <2> QED BY <1>8, <1>9, <2>1, <2>2, <2>3 DEF VectorOK
<1> QED BY <1>3, <1>4, <1>5, <1>8, <1>9, <1>10, <1>11 DEF CorpusInv, SameVectors

-----------------------------------------------------------------------------
(* Reindex sessions. *)

LEMMA Override ==
    ASSUME NEW D, NEW S, NEW f, NEW t \in [Docs -> S \cup {Null}],
           \A d \in D : f[d] \in S
    PROVE  [d \in Docs |-> IF d \in D THEN f[d] ELSE t[d]] \in [Docs -> S \cup {Null}]
OBVIOUS

LEMMA JobFields ==
    ASSUME JobsInv, NEW j \in Jobs
    PROVE  /\ job[j].lane \in Lanes
           /\ job[j].version \in Plans
           /\ job[j].changed \in SUBSET Docs
           /\ DOMAIN job[j].version \in SUBSET Docs
           /\ \A d \in DOMAIN job[j].version : job[j].version[d] \in Versions
           /\ job[j].phase # "idle" => job[j].changed \subseteq DOMAIN job[j].version
<1>1. job[j] \in JobRecords
  BY DEF JobsInv
<1>2. job[j].version \in Plans
  BY <1>1 DEF JobRecords
<1>3. PICK D \in SUBSET Docs : job[j].version \in [D -> Versions]
  BY <1>2 DEF Plans
<1>4. /\ DOMAIN job[j].version \in SUBSET Docs
      /\ \A d \in DOMAIN job[j].version : job[j].version[d] \in Versions
  BY <1>3
<1> QED BY <1>1, <1>2, <1>4 DEF JobRecords, JobsInv, JobInv

LEMMA RowsTyped ==
    ASSUME CorpusInv, NEW j \in Jobs, job[j].lane \in Lanes,
           NEW d \in Docs, canonical[d] # Null
    PROVE  /\ VectorRow(j, d) \in VectorRows
           /\ VectorRow(j, d).level = canonical[d].level
           /\ VectorRow(j, d).lane = job[j].lane
           /\ VectorRow(j, d).version = canonical[d]
           /\ canonical[d].level >= canonical[d].level
           /\ \A n \in 0..MaxVector : /\ StateRow(j, d, n) \in StateRows
                                      /\ StateRow(j, d, n).lane = job[j].lane
<1>1. /\ canonical[d] \in Versions /\ canonical[d].level \in Levels
      /\ canonical[d].prov \in Provenances \cup {Null}
  BY VersionFields DEF CorpusInv
<1>2. canonical[d].level >= canonical[d].level
  BY <1>1, ServingAssumption DEF Levels
<1> QED BY <1>1, <1>2 DEF VectorRow, VectorRows, StateRow, StateRows

LEMMA PersistV1Keeps ==
    ASSUME CorpusInv, JobsInv, NEW j \in Jobs, PersistV1(j)
    PROVE  /\ vectors' \in VectorTables
           /\ states' \in StateTables
           /\ TrackedHaveVectors'
           /\ VectorInv'
<1> DEFINE D == StillEligible(j)
           f == [d \in D |-> VectorRow(j, d)]
           g == [d \in D |-> StateRow(j, d, 0)]
<1>1. job[j].lane \in Lanes /\ D \in SUBSET Docs /\ \A d \in D : canonical[d] # Null
  BY JobFields DEF StillEligible
<1>2. 0 \in 0..MaxVector
  BY ServingAssumption
<1>3. f \in [D -> VectorRows] /\ g \in [D -> StateRows]
  BY <1>1, <1>2, RowsTyped
<1>4. /\ vectors' = [d \in Docs |-> IF d \in D THEN f[d] ELSE vectors[d]]
      /\ states' = [d \in Docs |-> IF d \in D THEN g[d] ELSE states[d]]
      /\ UNCHANGED <<canonical, trusted>> /\ job[j].lane = "v1"
  BY DEF PersistV1
<1>5. /\ vectors' \in VectorTables
      /\ \A d \in Docs : vectors'[d] = IF d \in D THEN f[d] ELSE vectors[d]
  <2> HIDE DEF f, D
  <2> QED BY <1>1, <1>3, <1>4, Override DEF CorpusInv, VectorTables
<1>6. /\ states' \in StateTables
      /\ \A d \in Docs : states'[d] = IF d \in D THEN g[d] ELSE states[d]
  <2> HIDE DEF g, D
  <2> QED BY <1>1, <1>3, <1>4, Override DEF CorpusInv, StateTables
<1>7. \A d \in D : /\ vectors'[d] # Null /\ vectors'[d].level >= canonical'[d].level
                    /\ canonical'[d] # Null /\ vectors'[d].lane = "v1"
                    /\ vectors'[d].level >= vectors'[d].version.level
  BY <1>1, <1>3, <1>4, <1>5, RowsTyped, ServingAssumption
<1>a. \A d \in D : d \in Knowledge => trusted'[d] # Null
  BY <1>1, <1>4 DEF CorpusInv, TrustInv
<1>8. \A d \in Docs \ D : /\ vectors'[d] = vectors[d] /\ states'[d] = states[d]
                         /\ canonical'[d] = canonical[d] /\ trusted' = trusted
  BY <1>4, <1>5, <1>6
<1>9. \A d \in Docs \ D : Tracked(d)' <=> Tracked(d)
  BY <1>8 DEF Tracked
<1> HIDE DEF D, f, g
<1>10. TrackedHaveVectors'
  BY <1>7, <1>8, <1>9 DEF TrackedHaveVectors, CorpusInv
<1>11. VectorInv'
  <2>1. \A d \in D : VectorOK(d)'
    BY <1>7, <1>a DEF VectorOK
  <2>2. \A d \in Docs \ D : VectorOK(d)'
    BY <1>8, <1>9 DEF VectorOK, CorpusInv, VectorInv
  <2> QED BY <2>1, <2>2 DEF VectorInv
<1> QED BY <1>5, <1>6, <1>10, <1>11

(* What the write of a session with a snapshot does to the rows. *)
LEMMA PersistV2Rows ==
    ASSUME CorpusInv, JobsInv, NEW j \in Jobs, PersistV2(j)
    PROVE  /\ job[j].lane = "v2" /\ job[j].changed \in SUBSET Docs
           /\ \A d \in job[j].changed \cup Refreshed(j) : d \in Docs /\ canonical[d] # Null
           /\ vectors' = [d \in Docs |-> IF d \in job[j].changed THEN VectorRow(j, d)
                                         ELSE vectors[d]]
           /\ generation' \in Generations /\ generation'.corpus = generation.corpus
           /\ job[j].changed # {} => generation' # generation
           /\ \A d \in Refreshed(j) : d \notin job[j].changed /\ Tracked(d)
           /\ states' \in StateTables
           /\ \A d \in Docs :
                 IF d \in job[j].changed \cup Refreshed(j)
                 THEN states'[d] # Null /\ states'[d].lane = "v2"
                 ELSE states'[d] = states[d]
<1>1. /\ job[j].phase = "embedding" /\ job[j].lane = "v2" /\ SnapshotHolds(j)
      /\ canonical' = canonical
  BY DEF PersistV2
<1>2. /\ job[j].changed \in SUBSET Docs
      /\ job[j].changed \subseteq DOMAIN job[j].version
      /\ DOMAIN job[j].version \in SUBSET Docs
      /\ \A d \in DOMAIN job[j].version : job[j].version[d] \in Versions
  BY <1>1, JobFields
<1>3. \A d \in DOMAIN job[j].version : canonical[d] \in Versions /\ canonical[d] # Null
  BY <1>1, <1>2, ServingAssumption DEF SnapshotHolds, AsListed
<1>4. \A d \in job[j].changed \cup Refreshed(j) : d \in Docs /\ canonical[d] # Null
  BY <1>2, <1>3 DEF Refreshed
<1> DEFINE next == generation.vector + 1
           moves == job[j].changed # {}
<1>5. /\ moves => generation.vector < MaxVector
      /\ generation' = IF moves THEN [generation EXCEPT !.vector = next] ELSE generation
      /\ vectors' = [d \in Docs |-> IF d \in job[j].changed THEN VectorRow(j, d)
                                         ELSE vectors[d]]
      /\ states' = [d \in Docs |->
                      CASE d \in job[j].changed -> StateRow(j, d, next)
                        [] d \in Refreshed(j) -> StateRow(j, d, states[d].vector)
                        [] OTHER -> states[d]]
  BY DEF PersistV2
<1>6. generation \in Generations /\ generation.vector \in 0..MaxVector
  BY DEF CorpusInv, Generations
<1>7. moves => next \in 0..MaxVector
  BY <1>5, <1>6, ServingAssumption
<1>8. /\ generation' \in Generations /\ generation'.corpus = generation.corpus
      /\ moves => generation' # generation
  <2>1. CASE moves
    <3>1. generation' = [generation EXCEPT !.vector = next]
      BY <1>5, <2>1
    <3>2. next # generation.vector /\ next \in 0..MaxVector
      BY <1>6, <1>7, <2>1
    <3> HIDE DEF next
    <3>3. generation'.vector = next /\ generation'.corpus = generation.corpus
          /\ generation' \in Generations
      BY <3>1, <3>2, <1>6 DEF Generations
    <3> QED BY <3>2, <3>3
  <2>2. CASE ~moves
    BY <1>5, <1>6, <2>2
  <2> QED BY <2>1, <2>2
<1>9. \A d \in Refreshed(j) : d \notin job[j].changed /\ Tracked(d)
  BY <1>1 DEF SnapshotHolds, Skippable, Tracked, Refreshed
<1>10. \A d \in job[j].changed :
          StateRow(j, d, next) \in StateRows /\ StateRow(j, d, next).lane = "v2"
  BY <1>1, <1>4, <1>7, RowsTyped DEF Lanes
<1>11. \A d \in Refreshed(j) : states[d].vector \in 0..MaxVector
  BY <1>4, <1>9 DEF Tracked, CorpusInv, StateTables, StateRows
<1>12. \A d \in Refreshed(j) :
          /\ StateRow(j, d, states[d].vector) \in StateRows
          /\ StateRow(j, d, states[d].vector).lane = "v2"
  BY <1>1, <1>4, <1>11, RowsTyped DEF Lanes
<1> HIDE DEF next, moves
<1>13. \A d \in Docs :
          /\ d \in job[j].changed => states'[d] = StateRow(j, d, next)
          /\ d \in Refreshed(j) => states'[d] = StateRow(j, d, states[d].vector)
          /\ d \notin job[j].changed \cup Refreshed(j) => states'[d] = states[d]
  BY <1>5, <1>9
<1>14. \A r \in StateRows : r # Null
  BY ServingAssumption
<1>15. \A d \in Docs :
          IF d \in job[j].changed \cup Refreshed(j)
          THEN states'[d] \in StateRows /\ states'[d] # Null /\ states'[d].lane = "v2"
          ELSE states'[d] = states[d]
  BY <1>10, <1>12, <1>13, <1>14
<1>16. states' \in StateTables
  <2>1. \A d \in Docs : states'[d] \in StateRows \cup {Null}
    BY <1>15 DEF CorpusInv, StateTables
  <2>2. states' = [d \in Docs |-> states'[d]]
    BY <1>5
  <2> QED BY <2>1, <2>2 DEF StateTables
<1>17. moves <=> job[j].changed # {}
  BY DEF moves
<1> QED BY <1>1, <1>2, <1>4, <1>5, <1>8, <1>9, <1>15, <1>16, <1>17

LEMMA PersistV2Keeps ==
    ASSUME CorpusInv, JobsInv, NEW j \in Jobs, PersistV2(j)
    PROVE  /\ vectors' \in VectorTables
           /\ states' \in StateTables
           /\ TrackedHaveVectors'
           /\ VectorInv'
           /\ generation' \in Generations
           /\ generation'.corpus = generation.corpus
           /\ vectors' # vectors => generation' # generation
<1> DEFINE C == job[j].changed
           f == [d \in C |-> VectorRow(j, d)]
<1>1. /\ job[j].lane = "v2" /\ C \in SUBSET Docs
      /\ \A d \in C : canonical[d] # Null
      /\ vectors' = [d \in Docs |-> IF d \in C THEN f[d] ELSE vectors[d]]
      /\ \A d \in Refreshed(j) : d \notin C /\ Tracked(d)
      /\ \A d \in Docs : IF d \in C \cup Refreshed(j)
                         THEN states'[d] # Null /\ states'[d].lane = "v2"
                         ELSE states'[d] = states[d]
  BY PersistV2Rows
<1>2. /\ states' \in StateTables /\ generation' \in Generations
      /\ generation'.corpus = generation.corpus
      /\ C # {} => generation' # generation
  BY PersistV2Rows
<1>3. canonical' = canonical /\ trusted' = trusted
  BY DEF PersistV2
<1>4. \A d \in C : /\ f[d] \in VectorRows /\ f[d].level = canonical[d].level
                   /\ f[d].version = canonical[d]
                   /\ canonical[d].level >= canonical[d].level
                   /\ d \in Knowledge => trusted[d] # Null
  BY <1>1, RowsTyped DEF Lanes, CorpusInv, TrustInv
<1>5. /\ vectors' \in VectorTables
      /\ \A d \in Docs : vectors'[d] = IF d \in C THEN f[d] ELSE vectors[d]
  <2>1. f \in [C -> VectorRows]
    BY <1>4
  <2> HIDE DEF f, C
  <2> QED BY <1>1, <2>1, Override DEF CorpusInv, VectorTables
<1>6. C = {} => vectors' = vectors
  BY <1>5 DEF CorpusInv, VectorTables
<1>7. \A r \in VectorRows : r # Null
  BY ServingAssumption
<1> HIDE DEF C, f
<1>8. \A d \in C : VectorOK(d)' /\ vectors'[d] # Null
  BY <1>1, <1>3, <1>4, <1>5, <1>7 DEF VectorOK, Tracked
<1>9. \A d \in Docs \ C :
          /\ vectors'[d] = vectors[d] /\ canonical'[d] = canonical[d]
          /\ Tracked(d)' <=> Tracked(d)
  BY <1>1, <1>3, <1>5 DEF Tracked
<1>10. \A d \in Docs \ C : VectorOK(d)'
  BY <1>3, <1>9 DEF VectorOK, CorpusInv, VectorInv
<1>11. VectorInv'
  BY <1>8, <1>10 DEF VectorInv
<1>12. TrackedHaveVectors'
  BY <1>8, <1>9 DEF TrackedHaveVectors, CorpusInv
<1>13. vectors' # vectors => generation' # generation
  BY <1>2, <1>6 DEF C
<1>14. generation' \in Generations /\ generation'.corpus = generation.corpus
  BY <1>2
<1>15. vectors' \in VectorTables /\ states' \in StateTables
  BY <1>2, <1>5
<1> QED BY <1>11, <1>12, <1>13, <1>14, <1>15

LEMMA NoJobTyped == NoJob \in JobRecords
BY EmptyPlan, ServingAssumption DEF NoJob, JobRecords, Lanes

LEMMA JobStepKeepsJobs ==
    ASSUME CorpusInv, JobsInv, Reindex
    PROVE  JobsInv'
<1>1. CASE \E j \in Jobs : job' = [job EXCEPT ![j] = NoJob]
  <2>1. NoJob \in JobRecords /\ NoJob.phase = "idle"
    BY NoJobTyped DEF NoJob
  <2> QED BY <1>1, <2>1 DEF JobsInv, JobInv
<1>2. ASSUME NEW j \in Jobs, CaptureSnapshot(j)
      PROVE  JobsInv'
  <2>1. generation.corpus \in 0..MaxCorpus /\ generation.vector \in 0..MaxVector
    BY DEF CorpusInv, Generations
  <2>2. job[j] \in JobRecords
    BY DEF JobsInv
  <2> DEFINE r == [job[j] EXCEPT !.phase = "embedding", !.corpus = generation.corpus,
                                 !.vector = generation.vector]
  <2>3. /\ r \in JobRecords /\ r.changed = job[j].changed
        /\ r.version = job[j].version
    BY <2>1, <2>2 DEF JobRecords
  <2>4. job' = [job EXCEPT ![j] = r] /\ job[j].phase # "idle"
    BY <1>2 DEF CaptureSnapshot
  <2> HIDE DEF r
  <2> QED BY <2>3, <2>4 DEF JobsInv, JobInv
<1>3. ASSUME NEW j \in Jobs, NEW lane \in Lanes, NEW D \in SUBSET Live,
             ListDocuments(j, lane, D)
      PROVE  JobsInv'
  <2> DEFINE v == [d \in D |-> canonical[d]]
             s == {d \in D : ~Skippable(lane, d)}
             p == IF lane = "v1" THEN "embedding" ELSE "listed"
             r == [NoJob EXCEPT !.phase = p, !.lane = lane, !.version = v, !.changed = s]
  <2>1. D \in SUBSET Docs
    BY DEF Live
  <2>2. v \in [D -> Versions]
    BY VersionFields DEF CorpusInv, Live
  <2>3. v \in Plans /\ s \in SUBSET Docs /\ s \subseteq DOMAIN v
    BY <2>1, <2>2 DEF Plans
  <2>4. job' = [job EXCEPT ![j] = r]
    BY <1>3 DEF ListDocuments
  <2>5. p \in {"listed", "embedding"}
    OBVIOUS
  <2> HIDE DEF v, s, p
  <2>7. r \in JobRecords /\ r.changed = s /\ r.version = v
    BY <2>3, <2>5, NoJobTyped DEF JobRecords
  <2> HIDE DEF r
  <2> QED BY <2>3, <2>4, <2>7 DEF JobsInv, JobInv
<1> QED BY <1>1, <1>2, <1>3 DEF Reindex, PersistV1, PersistV2, AbandonJob

-----------------------------------------------------------------------------
(* Every step of the corpus and of the jobs. *)

LEMMA CorpusStep ==
    ASSUME CorpusInv, Corpus
    PROVE  /\ CorpusInv'
           /\ generation' = generation => SameVectors /\ UNCHANGED <<canonical, gone, lexical>>
<1>1. ASSUME NEW level \in Levels, NEW reach \in [Knowledge -> Reaches],
             \/ \E old, new \in SUBSET Chunks : ReplaceChunks(old, new, level, reach)
             \/ \E D \in SUBSET Chunks : Narrow(D, level, reach)
      PROVE  CorpusInv' /\ generation' # generation
  BY <1>1, ReplaceKeeps, NarrowKeeps
<1>2. ASSUME NEW k \in Knowledge, Revoke(k)
      PROVE  CorpusInv' /\ generation' # generation
  BY <1>2, RevokeKeeps
<1>3. ASSUME NEW k \in Knowledge, NEW prov \in Provenances, NEW level \in Levels,
             Approve(k, level, prov)
      PROVE  /\ CorpusInv'
             /\ generation' = generation => SameVectors /\ UNCHANGED <<canonical, gone, lexical>>
  <2>1. UNCHANGED <<vectors, gone>>
    BY <1>3 DEF Approve
  <2> QED BY <1>3, <2>1, ApproveKeeps DEF SameVectors
<1>4. ASSUME NEW k \in Knowledge, NEW prov \in Provenances, NEW reach \in Reaches,
             Reaffirm(k, prov, reach)
      PROVE  /\ CorpusInv'
             /\ generation' = generation => SameVectors /\ UNCHANGED <<canonical, gone, lexical>>
  <2>1. UNCHANGED <<vectors, gone>>
    BY <1>4 DEF Reaffirm
  <2> QED BY <1>4, <2>1, ReaffirmKeeps DEF SameVectors
<1>5. ASSUME NEW k \in Knowledge, NEW prov \in Provenances, NEW level \in Levels,
             NarrowTrusted(k, level, prov)
      PROVE  /\ CorpusInv'
             /\ generation' = generation => SameVectors /\ UNCHANGED <<canonical, gone, lexical>>
  <2>1. gone' = gone
    BY <1>5 DEF NarrowTrusted
  <2> QED BY <1>5, <2>1, NarrowTrustedKeeps
<1>6. CASE Ingest
  BY <1>1, <1>6 DEF Ingest
<1>7. CASE Trust
  BY <1>2, <1>3, <1>4, <1>5, <1>7 DEF Trust
<1> QED BY <1>6, <1>7 DEF Corpus

LEMMA QuietCorpus ==
    ASSUME CorpusInv, UNCHANGED serving
    PROVE  CorpusInv'
BY DEF serving, CorpusInv, TrackedHaveVectors, Tracked, LexInv, TrustInv, VectorInv, VectorOK

LEMMA ReindexStep ==
    ASSUME CorpusInv, JobsInv, Reindex
    PROVE  CorpusInv'
<1>1. ASSUME NEW j \in Jobs, PersistV1(j) PROVE CorpusInv'
  <2>1. UNCHANGED <<canonical, trusted, gone, generation, lexical>>
    BY <1>1 DEF PersistV1
  <2>2. /\ vectors' \in VectorTables /\ states' \in StateTables
        /\ TrackedHaveVectors' /\ VectorInv'
    BY <1>1, PersistV1Keeps
  <2> QED BY <2>1, <2>2 DEF CorpusInv, LexInv, TrustInv
<1>2. ASSUME NEW j \in Jobs, PersistV2(j) PROVE CorpusInv'
  <2>1. UNCHANGED <<canonical, trusted, gone, lexical>>
    BY <1>2 DEF PersistV2
  <2>2. /\ vectors' \in VectorTables /\ states' \in StateTables
        /\ TrackedHaveVectors' /\ VectorInv'
        /\ generation' \in Generations /\ generation'.corpus = generation.corpus
    BY <1>2, PersistV2Keeps
  <2> QED BY <2>1, <2>2 DEF CorpusInv, LexInv, TrustInv
<1>3. CASE UNCHANGED serving
  BY <1>3, QuietCorpus
<1> QED BY <1>1, <1>2, <1>3 DEF Reindex, ListDocuments, CaptureSnapshot, AbandonJob

-----------------------------------------------------------------------------
(* Requests and the cache. *)

(* What retrieval finds is canonical in the version it returns. *)
LEMMA ResultsAreCanonical ==
    ASSUME CorpusInv, NEW backend \in Backends
    PROVE  /\ Results(backend) \in SUBSET Evidence
           /\ \A e \in Results(backend) : canonical[e[1]] = e[2]
<1>1. \A d \in Docs : lexical[d] # Null =>
          lexical[d].version \in Versions /\ lexical[d].version = canonical[d]
  BY VersionFields DEF CorpusInv, LexInv, LexicalOf
<1>2. \A e \in Results(backend) : \E d \in Docs :
          lexical[d] # Null /\ e = <<d, lexical[d].version>>
  BY DEF Results, LexicalHit, VectorHit
<1> QED BY <1>1, <1>2 DEF Evidence

LEMMA NoRequestTyped == NoRequest \in RequestRecords
BY ServingAssumption DEF NoRequest, RequestRecords, Backends

LEMMA RequestFields ==
    ASSUME ServeInv, NEW r \in Requests
    PROVE  /\ request[r] \in RequestRecords
           /\ request[r].backend \in Backends /\ request[r].effective \in Backends
           /\ request[r].corpus \in 0..MaxCorpus /\ request[r].vector \in 0..MaxVector
           /\ request[r].seen \in SUBSET Evidence /\ request[r].from \in SUBSET Evidence
           /\ CacheKey(r) \in Keys /\ CacheKey(r)[5] = request[r].seen
<1>1. request[r] \in RequestRecords
  BY DEF ServeInv
<1>2. /\ request[r].backend \in Backends /\ request[r].effective \in Backends
      /\ request[r].corpus \in 0..MaxCorpus /\ request[r].vector \in 0..MaxVector
      /\ request[r].seen \in SUBSET Evidence /\ request[r].from \in SUBSET Evidence
  BY <1>1 DEF RequestRecords
<1> QED BY <1>1, <1>2 DEF CacheKey, Keys

(* One request becomes another record; the cache stays. *)
LEMMA RequestBecomes ==
    ASSUME ServeInv, NEW r \in Requests, NEW q \in RequestRecords,
           request' = [request EXCEPT ![r] = q], cache' = cache,
           q.phase \in {"answered", "published"} => q.from = q.seen
    PROVE  ServeInv'
BY DEF ServeInv, RequestInv

LEMMA AdmitKeeps ==
    ASSUME CorpusInv, ServeInv, NEW r \in Requests, NEW backend \in Backends,
           Admit(r, backend)
    PROVE  ServeInv'
<1> DEFINE n == IF backend = "pgvector" THEN generation.vector ELSE 0
           q == [NoRequest EXCEPT !.phase = "admitted", !.backend = backend,
                                  !.corpus = generation.corpus, !.vector = n]
<1>1. generation.corpus \in 0..MaxCorpus /\ n \in 0..MaxVector
  BY ServingAssumption DEF CorpusInv, Generations
<1>2. request' = [request EXCEPT ![r] = q] /\ cache' = cache
  BY DEF Admit
<1> HIDE DEF n
<1>3. q \in RequestRecords /\ q.phase = "admitted"
  BY <1>1, NoRequestTyped DEF RequestRecords
<1> HIDE DEF q
<1> QED BY <1>2, <1>3, RequestBecomes

LEMMA MoveKeeps ==
    ASSUME CorpusInv, ServeInv, NEW r \in Requests,
           \/ EmbedQuery(r)
           \/ \E backend \in Backends : RetrieveFrom(r, backend)
           \/ GenerateAnswer(r)
           \/ Publish(r)
           \/ EndRequest(r)
    PROVE  ServeInv'
<1>1. CASE EmbedQuery(r)
  <2> DEFINE q == [request[r] EXCEPT !.phase = "embedded"]
  <2>1. request' = [request EXCEPT ![r] = q] /\ cache' = cache
    BY <1>1 DEF EmbedQuery
  <2>2. q \in RequestRecords /\ q.phase = "embedded"
    BY RequestFields DEF RequestRecords
  <2> HIDE DEF q
  <2> QED BY <2>1, <2>2, RequestBecomes
<1>2. ASSUME NEW backend \in Backends, RetrieveFrom(r, backend)
      PROVE  ServeInv'
  <2> DEFINE s == Results(backend)
             q == [request[r] EXCEPT !.phase = "retrieved", !.effective = backend,
                                     !.seen = s]
  <2>1. request' = [request EXCEPT ![r] = q] /\ cache' = cache
    BY <1>2 DEF RetrieveFrom
  <2>2. s \in SUBSET Evidence
    BY ResultsAreCanonical
  <2> HIDE DEF s
  <2>3. q \in RequestRecords /\ q.phase = "retrieved"
    BY <2>2, RequestFields DEF RequestRecords
  <2> HIDE DEF q
  <2> QED BY <2>1, <2>3, RequestBecomes
<1>3. CASE GenerateAnswer(r)
  <2> DEFINE q == [request[r] EXCEPT !.phase = "answered", !.from = request[r].seen]
  <2>1. request' = [request EXCEPT ![r] = q] /\ cache' = cache
    BY <1>3 DEF GenerateAnswer
  <2>2. q \in RequestRecords /\ q.from = q.seen
    BY RequestFields DEF RequestRecords
  <2> HIDE DEF q
  <2> QED BY <2>1, <2>2, RequestBecomes
<1>4. CASE Publish(r)
  <2> DEFINE q == [request[r] EXCEPT !.phase = "published"]
  <2>1. request' = [request EXCEPT ![r] = q] /\ cache' = cache
    BY <1>4 DEF Publish
  <2>2. request[r].from = request[r].seen
    BY <1>4 DEF Publish, ServeInv, RequestInv
  <2>3. q \in RequestRecords /\ q.from = q.seen
    BY <2>2, RequestFields DEF RequestRecords
  <2> HIDE DEF q
  <2> QED BY <2>1, <2>3, RequestBecomes
<1>5. CASE EndRequest(r)
  <2>1. request' = [request EXCEPT ![r] = NoRequest] /\ cache' = cache
    BY <1>5 DEF EndRequest
  <2>2. NoRequest.phase = "idle"
    BY DEF NoRequest
  <2> QED BY <2>1, <2>2, NoRequestTyped, RequestBecomes
<1> QED BY <1>1, <1>2, <1>3, <1>4, <1>5

LEMMA TakeKeeps ==
    ASSUME ServeInv, NEW r \in Requests, TakeFromCache(r)
    PROVE  ServeInv'
<1>1. PICK entry \in cache :
         /\ entry.key = CacheKey(r)
         /\ request' = [request EXCEPT ![r].phase = "answered",
                                       ![r].from = entry.from, ![r].hit = "valid"]
  BY DEF TakeFromCache
<1> DEFINE q == [request[r] EXCEPT !.phase = "answered", !.from = entry.from,
                                   !.hit = "valid"]
<1>2. entry \in Entries /\ entry.from = entry.key[5]
  BY DEF ServeInv, RequestInv
<1>3. entry.from = request[r].seen
  BY <1>1, <1>2, RequestFields
<1>4. request' = [request EXCEPT ![r] = q] /\ cache' = cache
  BY <1>1 DEF TakeFromCache
<1>5. q \in RequestRecords /\ q.from = q.seen
  BY <1>3, RequestFields DEF RequestRecords
<1> HIDE DEF q
<1> QED BY <1>4, <1>5, RequestBecomes

LEMMA StoreKeeps ==
    ASSUME ServeInv, NEW r \in Requests, StoreAnswer(r)
    PROVE  ServeInv'
<1> DEFINE e == [key |-> CacheKey(r), from |-> request[r].from, expired |-> FALSE]
<1>1. request' = [request EXCEPT ![r] = NoRequest]
      /\ request[r].phase = "published" /\ cache' \subseteq cache \cup {e}
  BY DEF StoreAnswer
<1>2. request[r].from = request[r].seen
  BY <1>1 DEF ServeInv, RequestInv
<1>3. e \in Entries /\ e.from = e.key[5]
  BY <1>2, RequestFields DEF Entries
<1> HIDE DEF e
<1>4. NoRequest.phase = "idle"
  BY DEF NoRequest
<1> QED BY <1>1, <1>3, <1>4, NoRequestTyped DEF ServeInv, RequestInv

LEMMA ExpireKeeps ==
    ASSUME ServeInv, NEW entry \in cache, Expire(entry) \/ CleanUp(entry)
    PROVE  ServeInv'
<1>1. CASE CleanUp(entry)
  BY <1>1 DEF CleanUp, ServeInv, RequestInv
<1>2. CASE Expire(entry)
  <2> DEFINE e == [entry EXCEPT !.expired = TRUE]
  <2>1. cache' = (cache \ {entry}) \cup {e}
    BY <1>2 DEF Expire
  <2>2. entry \in Entries /\ entry.from = entry.key[5]
    BY DEF ServeInv, RequestInv
  <2>3. e \in Entries /\ e.from = e.key[5]
    BY <2>2 DEF Entries
  <2> HIDE DEF e
  <2>4. request' = [r \in Requests |->
                      IF request[r].hit = "valid" /\ CacheKey(r) = entry.key
                      THEN [request[r] EXCEPT !.hit = "expired"] ELSE request[r]]
    BY <1>2 DEF Expire
  <2>5. \A r \in Requests :
           LET q == [request[r] EXCEPT !.hit = "expired"]
           IN  /\ q \in RequestRecords /\ q.phase = request[r].phase
               /\ q.from = request[r].from /\ q.seen = request[r].seen
    BY RequestFields DEF RequestRecords
  <2>6. \A r \in Requests : /\ request'[r] \in RequestRecords
                            /\ request'[r].phase = request[r].phase
                            /\ request'[r].from = request[r].from
                            /\ request'[r].seen = request[r].seen
    BY <2>4, <2>5, RequestFields
  <2>7. request' \in [Requests -> RequestRecords]
    BY <2>4, <2>6
  <2>8. \A r \in Requests : request[r].phase \in {"answered", "published"} =>
           request[r].from = request[r].seen
    BY DEF ServeInv, RequestInv
  <2>9. \A c \in cache : c \in Entries /\ c.from = c.key[5]
    BY DEF ServeInv, RequestInv
  <2> QED BY <2>1, <2>3, <2>6, <2>7, <2>8, <2>9 DEF ServeInv, RequestInv
<1> QED BY <1>1, <1>2

LEMMA ServeStep ==
    ASSUME CorpusInv, ServeInv, Serve
    PROVE  ServeInv'
<1>1. ASSUME NEW entry \in cache, Expire(entry) \/ CleanUp(entry) PROVE ServeInv'
  BY <1>1, ExpireKeeps
<1>2. ASSUME NEW r \in Requests, NEW backend \in Backends, Admit(r, backend)
      PROVE  ServeInv'
  BY <1>2, AdmitKeeps
<1>3. ASSUME NEW r \in Requests,
             \/ EmbedQuery(r)
             \/ \E backend \in Backends : RetrieveFrom(r, backend)
             \/ GenerateAnswer(r)
             \/ Publish(r)
             \/ EndRequest(r)
      PROVE  ServeInv'
  BY <1>3, MoveKeeps
<1>4. ASSUME NEW r \in Requests, TakeFromCache(r) PROVE ServeInv'
  BY <1>4, TakeKeeps
<1>5. ASSUME NEW r \in Requests, StoreAnswer(r) PROVE ServeInv'
  BY <1>5, StoreKeeps
<1> QED BY <1>1, <1>2, <1>3, <1>4, <1>5 DEF Serve

LEMMA ServeLeavesCorpus == Serve => UNCHANGED <<serving, job>>
BY DEF Serve, Admit, EmbedQuery, RetrieveFrom, GenerateAnswer, TakeFromCache, Publish,
       StoreAnswer, EndRequest, Expire, CleanUp

LEMMA OthersLeaveRequests ==
    /\ Corpus => UNCHANGED <<job, request, cache>>
    /\ Reindex => UNCHANGED <<request, cache>>
BY DEF Corpus, Ingest, Trust, ReplaceChunks, Approve, Narrow, NarrowTrusted, Revoke,
       Reaffirm, Reindex,
       ListDocuments, CaptureSnapshot, PersistV1, PersistV2, AbandonJob

LEMMA StepInv == IInv /\ [Next]_vars => IInv'
<1> SUFFICES ASSUME IInv, [Next]_vars PROVE IInv'
  OBVIOUS
<1>1. CorpusInv /\ JobsInv /\ ServeInv
  BY DEF IInv
<1>2. CASE Corpus
  <2>1. UNCHANGED <<job, request, cache>>
    BY <1>2, OthersLeaveRequests
  <2>2. CorpusInv'
    BY <1>1, <1>2, CorpusStep
  <2> QED BY <1>1, <2>1, <2>2 DEF IInv, JobsInv, JobInv, ServeInv, RequestInv
<1>3. CASE Reindex
  <2>1. UNCHANGED <<request, cache>>
    BY <1>3, OthersLeaveRequests
  <2>2. CorpusInv' /\ JobsInv'
    BY <1>1, <1>3, ReindexStep, JobStepKeepsJobs
  <2> QED BY <1>1, <2>1, <2>2 DEF IInv, ServeInv, RequestInv
<1>4. CASE Serve
  <2>1. UNCHANGED <<serving, job>>
    BY <1>4, ServeLeavesCorpus
  <2>2. CorpusInv' /\ ServeInv'
    BY <1>1, <1>4, <2>1, QuietCorpus, ServeStep
  <2> QED BY <1>1, <2>1, <2>2 DEF IInv, JobsInv, JobInv
<1>5. CASE UNCHANGED vars
  <2>1. UNCHANGED <<serving, job, request, cache>>
    BY <1>5 DEF vars, serving
  <2>2. CorpusInv'
    BY <1>1, <2>1, QuietCorpus
  <2> QED BY <1>1, <2>1, <2>2 DEF IInv, JobsInv, JobInv, ServeInv, RequestInv
<1> QED BY <1>2, <1>3, <1>4, <1>5 DEF Next

LEMMA AlwaysInv == Spec => []IInv
BY InitInv, StepInv, PTL DEF Spec

(* Every row, job, request and cache entry keeps its type, and a tracked     *)
(* index state never loses its vector, whatever ingestion, revocation and    *)
(* the two lanes of reindexing write (TypeOK).                               *)
THEOREM TypeCorrect == Spec => []TypeOK
<1>1. IInv => TypeOK
  BY TypeIsParts DEF IInv, CorpusInv, JobsInv, ServeInv, TypeParts
<1> QED BY <1>1, AlwaysInv, PTL

(* Keyword retrieval finds exactly the canonical documents, as they are      *)
(* (refresh_rag_lexical_projections runs with every new generation).         *)
THEOREM KeywordRetrievalIsExact == Spec => []LexicalIsCanonical
<1>1. IInv => LexicalIsCanonical
  <2> SUFFICES ASSUME CorpusInv, NEW d \in Docs
               PROVE  canonical[d] # Null <=> LexicalHit(d)
    BY DEF IInv, LexicalIsCanonical
  <2>1. lexical[d] = IF canonical[d] = Null THEN Null
                     ELSE [version |-> canonical[d], corpus |-> generation.corpus]
    BY DEF CorpusInv, LexInv, LexicalOf
  <2>2. CASE canonical[d] = Null
    BY <2>1, <2>2 DEF LexicalHit
  <2>3. CASE canonical[d] # Null
    <3>1. lexical[d] = [version |-> canonical[d], corpus |-> generation.corpus]
      BY <2>1, <2>3
    <3>2. lexical[d] \in LexicalRows
      <4>1. canonical[d] \in Versions
        BY <2>3, VersionFields DEF CorpusInv
      <4>2. generation.corpus \in 0..MaxCorpus
        BY DEF CorpusInv, Generations
      <4> QED BY <3>1, <4>1, <4>2 DEF LexicalRows
    <3>3. lexical[d] # Null
      BY <3>2, ServingAssumption
    <3> QED BY <2>3, <3>1, <3>3 DEF LexicalHit
  <2> QED BY <2>2, <2>3
<1> QED BY <1>1, AlwaysInv, PTL

(* No vector outlives its chunk or its trusted row; a chunk's vector is never  *)
(* visible more widely than the chunk, although a session writes after a      *)
(* provider call without locks (indexing.py:661); and vector search returns   *)
(* no document that is not canonical or that its vector shows more widely,    *)
(* although ingestion makes citing knowledge ineligible or narrower without   *)
(* touching its vector (ingestion/service.py:282-341).                        *)
THEOREM VectorsFollowTheCorpus == Spec => []VectorsAreServable
<1>1. IInv => VectorsAreServable
  <2> SUFFICES ASSUME CorpusInv, NEW d \in Docs, vectors[d] # Null
               PROVE  /\ d \in Knowledge => trusted[d] # Null
                      /\ d \in Chunks \/ VectorHit(d) =>
                           canonical[d] # Null /\ vectors[d].level >= canonical[d].level
    BY DEF IInv, VectorsAreServable
  <2>1. VectorOK(d)
    BY DEF CorpusInv, VectorInv
  <2>2. ASSUME VectorHit(d)
        PROVE  canonical[d] # Null /\ vectors[d].level >= canonical[d].level
    <3>1. lexical[d] # Null /\ vectors[d].version = lexical[d].version
      BY <2>2 DEF VectorHit
    <3>2. lexical[d] = IF canonical[d] = Null THEN Null
                       ELSE [version |-> canonical[d], corpus |-> generation.corpus]
      BY DEF CorpusInv, LexInv, LexicalOf
    <3>3. canonical[d] # Null /\ lexical[d].version = canonical[d]
      BY <3>1, <3>2
    <3> QED BY <2>1, <3>1, <3>3 DEF VectorOK
  <2> QED BY <2>1, <2>2 DEF VectorOK
<1> QED BY <1>1, AlwaysInv, PTL

(* An answer is published only from documents that are canonical, in the     *)
(* version the answer was made from, at that moment - fresh or cached        *)
(* (rag_finalization.py:1429-1438, answer_cache_store.py:129).               *)
THEOREM PublishedAnswersAreCurrent == Spec => AnswersAreCurrent
<1> DEFINE A == \A r \in Requests :
                  request'[r].phase = "published" /\ request[r].phase # "published" =>
                      \A e \in request'[r].from : canonical[e[1]] = e[2]
<1>1. IInv /\ [Next]_vars => [A]_vars
  <2> SUFFICES ASSUME IInv, Next, NEW r \in Requests,
                      request'[r].phase = "published", request[r].phase # "published",
                      NEW e \in request'[r].from
               PROVE  canonical[e[1]] = e[2]
    OBVIOUS
  <2>0. CorpusInv /\ ServeInv
    BY DEF IInv
  <2>1. request' # request
    OBVIOUS
  <2>2. Serve
    BY <2>1, OthersLeaveRequests DEF Next
  <2>3. \A s \in Requests : request[s] \in RequestRecords
    BY <2>0, RequestFields
  <2>4. Publish(r)
    <3>1. request \in [Requests -> RequestRecords]
      BY <2>0 DEF ServeInv
    <3>a. ASSUME NEW s \in Requests, NEW q, q.phase # "published",
                 request' = [request EXCEPT ![s] = q]
          PROVE  FALSE
      BY <3>1, <3>a
    <3>2. ASSUME NEW s \in Requests, NEW backend \in Backends, Admit(s, backend)
          PROVE  FALSE
      <4> DEFINE n == IF backend = "pgvector" THEN generation.vector ELSE 0
                 q == [NoRequest EXCEPT !.phase = "admitted", !.backend = backend,
                                        !.corpus = generation.corpus, !.vector = n]
      <4>1. request' = [request EXCEPT ![s] = q]
        BY <3>2 DEF Admit
      <4> HIDE DEF n
      <4>2. q.phase # "published"
        BY NoRequestTyped DEF RequestRecords
      <4> HIDE DEF q
      <4> QED BY <3>a, <4>1, <4>2
    <3>b. ASSUME NEW s \in Requests, NEW backend \in Backends, RetrieveFrom(s, backend)
          PROVE  FALSE
      <4> DEFINE q == [request[s] EXCEPT !.phase = "retrieved", !.effective = backend,
                                         !.seen = Results(backend)]
      <4>1. request' = [request EXCEPT ![s] = q]
        BY <3>b DEF RetrieveFrom
      <4>2. q.phase # "published"
        BY <2>3 DEF RequestRecords
      <4> HIDE DEF q
      <4> QED BY <3>a, <4>1, <4>2
    <3>3. ASSUME NEW s \in Requests, EmbedQuery(s) \/ GenerateAnswer(s)
          PROVE  FALSE
      BY <3>1, <3>3, <2>3 DEF EmbedQuery, GenerateAnswer, RequestRecords
    <3>c. ASSUME NEW s \in Requests, EndRequest(s)
          PROVE  FALSE
      BY <3>a, <3>c DEF EndRequest, NoRequest
    <3>4. ASSUME NEW s \in Requests, TakeFromCache(s)
          PROVE  FALSE
      BY <3>1, <3>4, <2>3 DEF TakeFromCache, RequestRecords
    <3>5. ASSUME NEW s \in Requests, StoreAnswer(s)
          PROVE  FALSE
      BY <3>1, <3>5, <2>3 DEF StoreAnswer, NoRequest
    <3>6. ASSUME NEW entry \in cache, Expire(entry) \/ CleanUp(entry)
          PROVE  FALSE
      BY <3>1, <3>6, <2>3 DEF Expire, CleanUp, RequestRecords
    <3>7. PICK s \in Requests : Publish(s)
      BY <2>2, <3>2, <3>b, <3>c, <3>3, <3>4, <3>5, <3>6 DEF Serve
    <3>8. s = r
      BY <3>1, <3>7, <2>3 DEF Publish, RequestRecords
    <3> QED BY <3>7, <3>8
  <2>5. request'[r].from = request[r].from
    BY <2>0, <2>3, <2>4 DEF Publish, RequestRecords, ServeInv
  <2>6. request[r].from = request[r].seen
    BY <2>0, <2>4 DEF Publish, ServeInv, RequestInv
  <2>7. request[r].seen = Results(request[r].effective)
    BY <2>4 DEF Publish, Undrifted
  <2> QED BY <2>0, <2>5, <2>6, <2>7, RequestFields, ResultsAreCanonical
<1> QED BY <1>1, AlwaysInv, PTL DEF Spec, AnswersAreCurrent

-----------------------------------------------------------------------------
(* The generations stand for what retrieval returns. *)

LEMMA SameHits ==
    ASSUME lexical' = lexical,
           \A d \in Docs : LexicalHit(d)' <=> LexicalHit(d),
           \A d \in Docs : VectorHit(d)' <=> VectorHit(d)
    PROVE  \A backend \in Backends : Results(backend)' = Results(backend)
BY DEF Results

LEMMA SameRows ==
    ASSUME UNCHANGED <<canonical, gone, generation, lexical, vectors>>
    PROVE  \A backend \in Backends : Results(backend)' = Results(backend)
<1>1. \A d \in Docs : LexicalHit(d)' <=> LexicalHit(d)
  BY DEF LexicalHit
<1>2. \A d \in Docs : VectorHit(d)' <=> VectorHit(d)
  BY DEF VectorHit, Tombstoned
<1> QED BY <1>1, <1>2, SameHits

(* A legacy session cannot take the vector of a tracked row: the trigger     *)
(* would refuse the commit.                                                  *)
LEMMA LegacyLeavesHits ==
    ASSUME CorpusInv, JobsInv, NEW j \in Jobs, PersistV1(j)
    PROVE  \A d \in Docs : VectorHit(d)' <=> VectorHit(d)
<1>0. /\ UNCHANGED <<canonical, gone, generation, lexical>>
      /\ job[j].lane = "v1"
      /\ vectors' = [d \in Docs |-> IF d \in StillEligible(j) THEN VectorRow(j, d)
                                    ELSE vectors[d]]
      /\ states' = [d \in Docs |-> IF d \in StillEligible(j) THEN StateRow(j, d, 0)
                                   ELSE states[d]]
      /\ TriggerAllows
  BY DEF PersistV1
<1>1. TrackedRows' = TrackedRows
  BY <1>0 DEF TriggerAllows
<1>2. \A d \in Docs : Tracked(d)' <=> Tracked(d)
  <2>1. DOMAIN TrackedRows = {d \in Docs : Tracked(d)}
    BY DEF TrackedRows
  <2>2. DOMAIN TrackedRows' = {d \in Docs : Tracked(d)'}
    BY DEF TrackedRows
  <2> QED BY <1>1, <2>1, <2>2
<1> SUFFICES ASSUME NEW d \in Docs PROVE VectorHit(d)' <=> VectorHit(d)
  OBVIOUS
<1>3. CASE d \in StillEligible(j)
  <2>1. canonical[d] # Null
    BY <1>3 DEF StillEligible
  <2>2. /\ VectorRow(j, d).lane = "v1" /\ 0 \in 0..MaxVector
        /\ StateRow(j, d, 0).lane = "v1"
    BY <1>0, <2>1, RowsTyped, ServingAssumption DEF Lanes
  <2>3. ~VectorHit(d)'
    BY <1>0, <1>3, <2>2 DEF VectorHit
  <2>4. ~Tracked(d)'
    BY <1>0, <1>3, <2>2 DEF Tracked
  <2>5. ~VectorHit(d)
    BY <1>2, <2>4 DEF VectorHit, CorpusInv, VectorInv, VectorOK
  <2> QED BY <2>3, <2>5
<1>4. CASE d \notin StillEligible(j)
  <2>1. vectors'[d] = vectors[d]
    BY <1>0, <1>4
  <2> QED BY <1>0, <2>1 DEF VectorHit, Tombstoned
<1> QED BY <1>3, <1>4

LEMMA ReindexMoves ==
    ASSUME CorpusInv, JobsInv, Reindex, generation' = generation
    PROVE  \A backend \in Backends : Results(backend)' = Results(backend)
<1>1. ASSUME NEW j \in Jobs, PersistV1(j)
      PROVE  \A backend \in Backends : Results(backend)' = Results(backend)
  <2>1. UNCHANGED <<canonical, gone, generation, lexical>>
    BY <1>1 DEF PersistV1
  <2>2. \A d \in Docs : LexicalHit(d)' <=> LexicalHit(d)
    BY <2>1 DEF LexicalHit
  <2> QED BY <1>1, <2>1, <2>2, LegacyLeavesHits, SameHits
<1>2. ASSUME NEW j \in Jobs, PersistV2(j)
      PROVE  \A backend \in Backends : Results(backend)' = Results(backend)
  <2>1. vectors' = vectors
    BY <1>2, PersistV2Keeps
  <2>2. UNCHANGED <<canonical, gone, lexical>>
    BY <1>2 DEF PersistV2
  <2> QED BY <2>1, <2>2, SameRows
<1>3. CASE UNCHANGED serving
  BY <1>3, SameRows DEF serving
<1> QED BY <1>1, <1>2, <1>3 DEF Reindex, ListDocuments, CaptureSnapshot, AbandonJob

(* While both generations stay, retrieval on either backend returns the same *)
(* rows in the same version: comparing generations is enough to know that    *)
(* what was retrieved is still what would be (pgvector_retriever.py:94-125). *)
THEOREM GenerationsStandForResults == Spec => SearchMovesGenerations
<1>1. IInv /\ [Next]_vars =>
        [generation' = generation
            => \A backend \in Backends : Results(backend)' = Results(backend)]_vars
  <2> SUFFICES ASSUME IInv, Next, generation' = generation
               PROVE  \A backend \in Backends : Results(backend)' = Results(backend)
    OBVIOUS
  <2>0. CorpusInv /\ JobsInv
    BY DEF IInv
  <2>1. CASE Corpus
    <3>1. SameVectors /\ UNCHANGED <<canonical, gone, generation, lexical>>
      BY <2>0, <2>1, CorpusStep
    <3>2. \A d \in Docs : LexicalHit(d)' <=> LexicalHit(d)
      BY <3>1 DEF LexicalHit
    <3>3. \A d \in Docs : VectorHit(d)' <=> VectorHit(d)
      BY <3>1 DEF VectorHit, Tombstoned, SameVectors
    <3> QED BY <3>1, <3>2, <3>3, SameHits
  <2>2. CASE Serve
    BY <2>2, ServeLeavesCorpus, SameRows DEF serving
  <2>3. CASE Reindex
    BY <2>0, <2>3, ReindexMoves
  <2> QED BY <2>1, <2>2, <2>3 DEF Next
<1> QED BY <1>1, AlwaysInv, PTL DEF Spec, SearchMovesGenerations

=============================================================================
