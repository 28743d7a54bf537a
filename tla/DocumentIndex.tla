---------------------------- MODULE DocumentIndex ----------------------------
(***************************************************************************)
(* The documents of a knowledge base: uploading and indexing them and      *)
(* searching them (application/ai/rag.go, vectorstore.go, reranker.go,     *)
(* embedding.go, the document handlers of handler/ai.go).                  *)
(*                                                                         *)
(* An upload stores the document as processing and leaves the rest to a    *)
(* goroutine, which a crash ends for good.  A search looks into the cache, *)
(* then for vectors and words, and falls back to the texts themselves.     *)
(*                                                                         *)
(* One knowledge base and one topK, which are parts of every key.  A result *)
(* is the document it is from; scores and ranks are left out, so that a     *)
(* limit leaves some of what it is given.                                  *)
(***************************************************************************)
EXTENDS Chunking, FiniteSets

CONSTANTS
    DocIds,      \* documents that may be uploaded
    Contents,    \* texts: sequences of paragraphs
    Words,       \* the words that are searched for
    Queries,     \* sets of words
    Searches,    \* searches that may run at one time
    Hash,        \* Hash[q]: the key of a query, the same for two that collide
    Postgres,    \* BOOLEAN values: whether this process has PostgreSQL with pgvector
    Ranking,     \* "heuristic" and "api", which needs a key and a model
    None,        \* no entry
    MaxCrashes   \* bound: crashes

Chunks(c) == ChunkText(c)

\* A character takes at least one byte (UTF-8).
ASSUME IndexAssumption ==
    /\ Contents \subseteq Seq(Paragraphs(Words))
    /\ \A c \in Contents : \A p \in DOMAIN c : c[p].runes <= c[p].bytes
    /\ Queries \subseteq SUBSET Words
    /\ Postgres \subseteq BOOLEAN
    /\ Ranking \subseteq {"heuristic", "api"}
    /\ MaxCrashes \in Nat

VARIABLES
    up,        \* the process runs
    pg,        \* pgDB and the vector store on it are there
    ranking,   \* the reranker that the configuration selects
    docs,      \* rows of knowledge_documents, Absent when not created
    counted,   \* documents that document_count counts
    stored,    \* stored[d]: numbers of the chunks that knowledge_chunks holds
    vectors,   \* vectors[d]: <<k, e>>, chunk k has the embedding of text e
    job,       \* job[d]: the goroutine that indexes d
    cache,     \* Redis: cache[h], an answer or None
    search,    \* search[s]
    crashes,   \* crashes so far, for MaxCrashes
    lost,      \* auxiliary: lost[d], chunks whose insert failed
    orphans    \* auxiliary: documents left as processing

vars == <<up, pg, ranking, docs, counted, stored, vectors, job, cache, search, crashes,
          lost, orphans>>

index == <<docs, counted, stored, vectors, job, lost, orphans>>

environment == <<up, pg, ranking, crashes>>

Absent == [status |-> "absent"]

Idle == [pc |-> "idle"]

Document == [status : {"processing", "ready", "failed"}, content : Contents, count : Nat]

Keys == {Hash[q] : q \in Queries}

\* count: the document is created.  load: it is counted or not.  store: chunk
\* next is to be stored; made lists the chunks that were.  fail: its status was
\* not stored.
Job ==
    {Idle}
    \cup [pc : {"count", "load", "embed", "finish", "fail"}]
    \cup [pc : {"store", "vectors"}, embedded : BOOLEAN, next : Nat, made : Seq(Nat)]

\* sure is auxiliary: what any search from its beginning on should find.
Search ==
    {Idle}
    \cup [pc : {"vector", "bm25", "tfidf", "rank", "cache", "done"}, query : Queries,
          found : SUBSET DocIds, sure : SUBSET DocIds]

\* Type invariant.
TypeOK ==
    /\ up \in BOOLEAN
    /\ pg \in Postgres
    /\ ranking \in Ranking
    /\ docs \in [DocIds -> Document \cup {Absent}]
    /\ counted \subseteq DocIds
    /\ stored \in [DocIds -> SUBSET Nat]
    /\ vectors \in [DocIds -> SUBSET (Nat \X Nat)]
    /\ job \in [DocIds -> Job]
    /\ cache \in [Keys -> (SUBSET DocIds) \cup {None}]
    /\ search \in [Searches -> Search]
    /\ crashes \in Nat
    /\ lost \in [DocIds -> SUBSET Nat]
    /\ orphans \subseteq DocIds

Init ==
    /\ up = TRUE
    /\ pg \in Postgres
    /\ ranking \in Ranking
    /\ docs = [d \in DocIds |-> Absent]
    /\ counted = {}
    /\ stored = [d \in DocIds |-> {}]
    /\ vectors = [d \in DocIds |-> {}]
    /\ job = [d \in DocIds |-> Idle]
    /\ cache = [h \in Keys |-> None]
    /\ search = [s \in Searches |-> Idle]
    /\ crashes = 0
    /\ lost = [d \in DocIds |-> {}]
    /\ orphans = {}

-----------------------------------------------------------------------------
(***************************************************************************)
(* Uploading and indexing.                                                 *)
(***************************************************************************)

At(d, j) == job' = [job EXCEPT ![d] = j]

Total(d) == Len(Chunks(docs[d].content))

\* The row, as UploadDocument and UploadDocumentFile create it.
Upload(d) ==
    /\ docs[d] = Absent
    /\ \E c \in Contents :
          docs' = [docs EXCEPT ![d] = [status |-> "processing", content |-> c, count |-> 0]]
    /\ At(d, [pc |-> "count"])
    /\ UNCHANGED <<counted, stored, vectors, lost, orphans>>

\* document_count is raised by a statement of its own; its error is not looked at.
Count(d) ==
    /\ job[d].pc = "count"
    /\ counted' \in {counted, counted \cup {d}}
    /\ At(d, [pc |-> "load"])
    /\ UNCHANGED <<docs, stored, vectors, lost, orphans>>

\* The goroutine reads the document.  One without chunks is ready at once; for
\* another what was stored of it is deleted first.
Load(d) ==
    /\ job[d].pc = "load"
    /\ IF Total(d) = 0
       THEN /\ At(d, [pc |-> "finish"])
            /\ UNCHANGED <<stored, vectors>>
       ELSE /\ At(d, [pc |-> "embed"])
            /\ stored' = IF pg THEN [stored EXCEPT ![d] = {}] ELSE stored
            /\ vectors' = IF pg THEN [vectors EXCEPT ![d] = {}] ELSE vectors
    /\ UNCHANGED <<docs, counted, lost, orphans>>

\* The document cannot be read: the goroutine ends.
LoadFails(d) ==
    /\ job[d].pc = "load"
    /\ At(d, Idle)
    /\ orphans' = orphans \cup {d}
    /\ UNCHANGED <<docs, counted, stored, vectors, lost>>

\* All chunks are embedded by one call, where there is a store for vectors.
Embed(d) ==
    /\ job[d].pc = "embed"
    /\ \E ok \in {FALSE, pg} :
          At(d, [pc |-> "store", embedded |-> ok, next |-> 1, made |-> <<>>])
    /\ UNCHANGED <<docs, counted, stored, vectors, lost, orphans>>

\* Seeded fault: the chunks are inserted in any order.
StoreUnordered(d) ==
    LET j == job[d] IN
    /\ j.pc = "store"
    /\ j.next <= Total(d)
    /\ \E k \in (1..Total(d)) \ stored[d] :
          /\ stored' = [stored EXCEPT ![d] = @ \cup {k}]
          /\ At(d, [j EXCEPT !.next = @ + 1, !.made = Append(@, k)])
    /\ UNCHANGED <<docs, counted, vectors, lost, orphans>>

\* The next chunk is inserted.
Store(d) ==
    LET j == job[d] IN
    /\ j.pc = "store"
    /\ j.next <= Total(d)
    /\ stored' = [stored EXCEPT ![d] = @ \cup {j.next}]
    /\ At(d, [j EXCEPT !.next = @ + 1, !.made = Append(@, j.next)])
    /\ UNCHANGED <<docs, counted, vectors, lost, orphans>>

\* A chunk that cannot be inserted is passed over.
StoreFails(d) ==
    LET j == job[d] IN
    /\ j.pc = "store"
    /\ j.next <= Total(d)
    /\ lost' = [lost EXCEPT ![d] = @ \cup {j.next}]
    /\ At(d, [j EXCEPT !.next = @ + 1])
    /\ UNCHANGED <<docs, counted, stored, vectors, orphans>>

StoreEnds(d) ==
    LET j == job[d] IN
    /\ j.pc = "store"
    /\ j.next > Total(d)
    /\ At(d, IF j.embedded THEN [j EXCEPT !.pc = "vectors"] ELSE [pc |-> "finish"])
    /\ UNCHANGED <<docs, counted, stored, vectors, lost, orphans>>

\* The n-th chunk that was stored gets the n-th embedding.
Pairs(made) == {<<made[i], i>> : i \in DOMAIN made}

\* UpsertVectors: in one statement or, when that fails, row by row, so that any of
\* the vectors may be missing; so may an embedding in the answer of the API.
Vectors(d) ==
    /\ job[d].pc = "vectors"
    /\ \E written \in SUBSET Pairs(job[d].made) :
          vectors' = [vectors EXCEPT ![d] = written]
    /\ At(d, [pc |-> "finish"])
    /\ UNCHANGED <<docs, counted, stored, lost, orphans>>

\* The document is ready, with the number of its chunks.
Finish(d) ==
    /\ job[d].pc = "finish"
    /\ docs' = [docs EXCEPT ![d].status = "ready", ![d].count = Total(d)]
    /\ At(d, Idle)
    /\ UNCHANGED <<counted, stored, vectors, lost, orphans>>

\* Seeded fault: the error of the last write is only logged.
FinishFailsSilent(d) ==
    /\ job[d].pc = "finish"
    /\ At(d, Idle)
    /\ UNCHANGED <<docs, counted, stored, vectors, lost, orphans>>

\* The document cannot be stored as ready; IndexDocument returns the error.
FinishFails(d) ==
    /\ job[d].pc = "finish"
    /\ At(d, [pc |-> "fail"])
    /\ UNCHANGED <<docs, counted, stored, vectors, lost, orphans>>

\* The handler's goroutine stores the failure and what IndexDocument left in the
\* document.
Fail(d) ==
    /\ job[d].pc = "fail"
    /\ docs' = [docs EXCEPT ![d].status = "failed", ![d].count = Total(d)]
    /\ At(d, Idle)
    /\ UNCHANGED <<counted, stored, vectors, lost, orphans>>

\* Nor is that stored.
FailLost(d) ==
    /\ job[d].pc = "fail"
    /\ At(d, Idle)
    /\ orphans' = orphans \cup {d}
    /\ UNCHANGED <<docs, counted, stored, vectors, lost>>

-----------------------------------------------------------------------------
(***************************************************************************)
(* Searching.                                                              *)
(***************************************************************************)

To(s, x) == search' = [search EXCEPT ![s] = x]

Ready == {d \in DocIds : docs[d] # Absent /\ docs[d].status = "ready"}

Paras(content) == {content[p] : p \in DOMAIN content}

TextWords(content) == UNION {para.words : para \in Paras(content)}

\* The words of a chunk; those of a paragraph that was cut count for each piece.
ChunkWords(content, k) ==
    UNION {content[piece.para].words :
              piece \in {Chunks(content)[k][i] : i \in DOMAIN Chunks(content)[k]}}

\* Documents with a vector: the nearest are found however far away they are.
WithVector == {d \in Ready : vectors[d] # {}}

\* buildTSQuery joins the words by "and".
WithAllWords(q) ==
    {d \in Ready : q # {} /\ \E k \in stored[d] : q \subseteq ChunkWords(docs[d].content, k)}

\* calculateScore is above zero as soon as one word occurs.
WithSomeWord(q) == {d \in Ready : q \cap TextWords(docs[d].content) # {}}

\* What a limit may leave of some documents.
Limited(found) == (SUBSET found) \ {{}}

Searching(s, pc, found) == To(s, [search[s] EXCEPT !.pc = pc, !.found = found])

\* A search whose key is cached is answered at once.
Hit(s, q) ==
    /\ search[s] = Idle
    /\ cache[Hash[q]] # None
    /\ To(s, [pc |-> "done", query |-> q, found |-> cache[Hash[q]], sure |-> WithSomeWord(q)])
    /\ UNCHANGED cache

\* Nothing is cached, or Redis does not answer.
Miss(s, q) ==
    /\ search[s] = Idle
    /\ To(s, [pc |-> IF pg THEN "vector" ELSE "tfidf", query |-> q, found |-> {},
              sure |-> WithSomeWord(q)])
    /\ UNCHANGED cache

\* RRFusion keeps what either search has found.
RRFusion(nearest, matching) == nearest \cup matching

\* vectorSearch: embedding the query or the statement may fail.  The statements of
\* both searches join knowledge_documents in PostgreSQL, a copy of the table that
\* AutoMigrate keeps in MySQL; where there is none, they fail.
VectorSearch(s) ==
    /\ search[s].pc = "vector"
    /\ \E found \in {{}} \cup Limited(WithVector) : Searching(s, "bm25", found)
    /\ UNCHANGED cache

\* bm25Search, whose failure is silent; the texts are searched when neither found
\* anything.
Bm25Search(s) ==
    /\ search[s].pc = "bm25"
    /\ \E more \in {{}} \cup Limited(WithAllWords(search[s].query)) :
          LET found == RRFusion(search[s].found, more) IN
          Searching(s, IF found = {} THEN "tfidf" ELSE "rank", found)
    /\ UNCHANGED cache

\* Seeded fault: that nothing was found is cached too.
TfidfSearchCached(s) ==
    LET all == WithSomeWord(search[s].query) IN
    /\ search[s].pc = "tfidf"
    /\ IF all = {}
       THEN Searching(s, "cache", {})
       ELSE \E found \in Limited(all) : Searching(s, "rank", found)
    /\ UNCHANGED cache

\* The texts of the documents that are ready; that nothing was found is not cached.
TfidfSearch(s) ==
    LET all == WithSomeWord(search[s].query) IN
    /\ search[s].pc = "tfidf"
    /\ IF all = {}
       THEN Searching(s, "done", {})
       ELSE \E found \in Limited(all) : Searching(s, "rank", found)
    /\ UNCHANGED cache

\* The database does not answer, and the caller gets an error.
TfidfFails(s) ==
    /\ search[s].pc = "tfidf"
    /\ To(s, Idle)
    /\ UNCHANGED cache

\* The reranker, or the heuristic in its place, orders what was found, and topK of
\* it are the answer.
Rank(s) ==
    /\ search[s].pc = "rank"
    /\ \E found \in Limited(search[s].found) : Searching(s, "cache", found)
    /\ UNCHANGED cache

\* The API may rank none of them: Search then reads the first of no results and
\* panics, which ends the request.
RankPanics(s) ==
    /\ search[s].pc = "rank"
    /\ ranking = "api"
    /\ To(s, Idle)
    /\ UNCHANGED cache

\* setCache; its failure is only logged.
SetCache(s) ==
    LET h == Hash[search[s].query] IN
    /\ search[s].pc = "cache"
    /\ cache' \in {cache, [cache EXCEPT ![h] = search[s].found]}
    /\ Searching(s, "done", search[s].found)

Return(s) ==
    /\ search[s].pc = "done"
    /\ To(s, Idle)
    /\ UNCHANGED cache

\* After an hour, or when Redis drops it.
Expire(h) ==
    /\ cache[h] # None
    /\ cache' = [cache EXCEPT ![h] = None]
    /\ UNCHANGED search

-----------------------------------------------------------------------------
(***************************************************************************)
(* The process.                                                            *)
(***************************************************************************)

\* The goroutines and the searches are gone; what is stored stays.
Crash ==
    /\ up
    /\ crashes < MaxCrashes
    /\ up' = FALSE
    /\ crashes' = crashes + 1
    /\ job' = [d \in DocIds |-> Idle]
    /\ search' = [s \in Searches |-> Idle]
    /\ orphans' = orphans \cup {d \in DocIds : job[d] # Idle}
    /\ UNCHANGED <<pg, ranking, docs, counted, stored, vectors, cache, lost>>

Restart ==
    /\ ~up
    /\ up' = TRUE
    /\ UNCHANGED <<pg, ranking, crashes, index, cache, search>>

Indexing(d) ==
    /\ up
    /\ \/ Count(d)
       \/ Load(d)
       \/ LoadFails(d)
       \/ Embed(d)
       \/ Store(d)
       \/ StoreFails(d)
       \/ StoreEnds(d)
       \/ Vectors(d)
       \/ Finish(d)
       \/ FinishFails(d)
       \/ Fail(d)
       \/ FailLost(d)
    /\ UNCHANGED <<environment, cache, search>>

Uploading(d) == up /\ Upload(d) /\ UNCHANGED <<environment, cache, search>>

Asking(s) ==
    /\ up
    /\ \/ \E q \in Queries : Hit(s, q) \/ Miss(s, q)
       \/ VectorSearch(s)
       \/ Bm25Search(s)
       \/ TfidfSearch(s)
       \/ TfidfFails(s)
       \/ Rank(s)
       \/ RankPanics(s)
       \/ SetCache(s)
       \/ Return(s)
    /\ UNCHANGED <<environment, index>>

Expiring(h) == Expire(h) /\ UNCHANGED <<environment, index>>

Next ==
    \/ \E d \in DocIds : Uploading(d) \/ Indexing(d)
    \/ \E s \in Searches : Asking(s)
    \/ \E h \in Keys : Expiring(h)
    \/ Crash
    \/ Restart

Spec == Init /\ [][Next]_vars

-----------------------------------------------------------------------------
(***************************************************************************)
(* Properties.                                                             *)
(***************************************************************************)

\* A vector belongs to its own chunk as long as no chunk before it failed to be
\* stored (IndexDocument): the embeddings are counted by the chunks that were
\* stored, so that one failure shifts all that follow, and nothing else may.
VectorsMatch ==
    \A d \in DocIds : \A v \in vectors[d] :
        /\ v[1] \in stored[d]
        /\ v[1] = v[2] \/ \E k \in lost[d] : k < v[1]

\* A document that is ready is in the index as a whole: every character of it is
\* in a chunk that is stored or whose insert failed, no chunk has more than ChunkSize
\* characters, except that one of several paragraphs may have one more (against the
\* comment on ChunkSize, rag.go:483), and chunk_count is the number of chunks.
ReadyIsWhole ==
    \A d \in Ready :
        LET text == docs[d].content
            there == stored[d] \cup lost[d] IN
        /\ there = 1..docs[d].count
        /\ \A p \in DOMAIN text : \A x \in 1..text[p].runes :
              \E k \in there : Holds(Chunks(text)[k], p, x)
        /\ \A k \in there : Length(Chunks(text)[k]) <= MostChars(Chunks(text)[k])

\* A search that a document should answer is never answered with nothing: whatever
\* fails, is cached or is indexed meanwhile, an empty answer means that no document
\* that was ready when the search began has a word of the query (Search,
\* setCache).
NeverBlank ==
    \A s \in Searches :
        search[s].pc = "done" /\ search[s].found = {} => search[s].sure = {}

\* A document is being processed exactly while a goroutine has it, or for ever when
\* that goroutine crashed or could neither read the document nor store how it ended.
ProcessingIsOwned ==
    \A d \in DocIds :
        /\ (docs[d] # Absent /\ docs[d].status = "processing")
              <=> (job[d] # Idle \/ d \in orphans)
        /\ job[d] # Idle => d \notin orphans

=============================================================================
