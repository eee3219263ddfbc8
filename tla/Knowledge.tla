------------------------------ MODULE Knowledge ------------------------------
(* The knowledge base: knowledge_schema.py migrates knowledge.db when it is     *)
(* opened, ingest.py imports a file line by line, search.py and hybrid.py       *)
(* search it, knowledge_turn.py answers from it.  Every statement commits on    *)
(* its own, so a process that dies leaves what it has written.                  *)
EXTENDS Naturals, Sequences, SequencesExt, FiniteSetsExt

CONSTANTS
    KnowledgeFile,     \* the lines imported that have a body, with whether their title
                       \* is more than blanks; or BrokenLine
    BrokenLine,        \* a line that is no JSON
    Memories,          \* the memories of the companion database, with their bodies
    OldChunks,         \* the bodies a database of version 1 holds
    final_limit,       \* how many fused hits are shown
    MaxHits,           \* bound: hits of one list (knowledge_limit, memory_limit)
    MaxChunks,         \* bound: rows of knowledge_chunks
    MaxSearches,       \* bound: rows of knowledge_search_log
    MaxKnowledgeDeaths \* bound: how often the process dies

VARIABLES
    schema_version,    \* the row of meta; 0 when there is none
    vector_columns,    \* whether the columns of version 2 are there
    knowledge_documents, \* how many
    knowledge_chunks,  \* the rows in id order: body, title, whether it has a vector
    knowledge_at,      \* what the process is doing
    import_line,       \* the line it imports
    search_log,        \* how many rows
    question,          \* "none", "asked" or "answered": the last knowledge answer
    retrieved,         \* the last hybrid retrieval: its hits and the fused list
    knowledge_deaths

\* The constants are limits and sequences of lines and bodies; an old database fits in.
ASSUME KnowledgeAssumption ==
    /\ {final_limit, MaxHits, MaxChunks, MaxSearches, MaxKnowledgeDeaths} \subseteq Nat
    /\ Memories \in Seq(Range(Memories))
    /\ OldChunks \in Seq(Range(OldChunks)) /\ Len(OldChunks) <= MaxChunks
    /\ KnowledgeFile \in Seq(Range(KnowledgeFile))
    /\ \A line \in Range(KnowledgeFile) \ {BrokenLine} : line.title \in BOOLEAN

versionVars == <<schema_version, vector_columns>>
tableVars == <<knowledge_documents, knowledge_chunks>>
searchVars == <<search_log, question, retrieved>>
knowledgeVars == <<versionVars, tableVars, searchVars, knowledge_at, import_line, knowledge_deaths>>

NothingRetrieved == [hits |-> <<>>, fused |-> <<>>]
Chunk1(body) == [body |-> body, title |-> TRUE, vector |-> FALSE]

\* A new file, or one that version 1 left.
KnowledgeInit ==
    /\ \/ schema_version = 0 /\ knowledge_chunks = <<>>
       \/ schema_version = 1 /\ knowledge_chunks = [i \in DOMAIN OldChunks |-> Chunk1(OldChunks[i])]
    /\ vector_columns = FALSE
    /\ knowledge_documents = Len(knowledge_chunks)
    /\ knowledge_at = "closed" /\ import_line = 0
    /\ search_log = 0 /\ question = "none" /\ retrieved = NothingRetrieved
    /\ knowledge_deaths = 0

-----------------------------------------------------------------------------
(* Opening: migrate_knowledge_db                                               *)

\* A database of this version is left as it is; _init_v1 creates only what is missing.
OpenKnowledge ==
    /\ knowledge_at = "closed"
    /\ knowledge_at' = IF schema_version = 2 THEN "ready" ELSE "columns"
    /\ UNCHANGED <<versionVars, tableVars, searchVars, import_line, knowledge_deaths>>

\* _migrate_v2 adds the columns that are missing ...
AddVectorColumns ==
    /\ knowledge_at = "columns"
    /\ vector_columns' = TRUE
    /\ knowledge_at' = "fill"
    /\ UNCHANGED <<schema_version, tableVars, searchVars, import_line, knowledge_deaths>>

Unfilled == {i \in DOMAIN knowledge_chunks : ~knowledge_chunks[i].vector}

\* ... and fills one row after the other; ...
FillVector ==
    /\ knowledge_at = "fill" /\ Unfilled # {}
    /\ knowledge_chunks' = [knowledge_chunks EXCEPT ![Min(Unfilled)].vector = TRUE]
    /\ UNCHANGED <<versionVars, knowledge_documents, searchVars, knowledge_at, import_line,
                   knowledge_deaths>>

\* ... the version is written at the end.
WriteVersion ==
    /\ knowledge_at = "fill" /\ Unfilled = {}
    /\ schema_version' = 2
    /\ knowledge_at' = "ready"
    /\ UNCHANGED <<vector_columns, tableVars, searchVars, import_line, knowledge_deaths>>

-----------------------------------------------------------------------------
(* Import                                                                      *)

ingest_jsonl_file ==
    /\ knowledge_at = "ready"
    /\ knowledge_at' = "line" /\ import_line' = 1
    /\ UNCHANGED <<versionVars, tableVars, searchVars, knowledge_deaths>>

\* A broken line ends the import; the rows before it stay.
EndImport ==
    /\ knowledge_at = "line"
    /\ import_line > Len(KnowledgeFile) \/ KnowledgeFile[import_line] = BrokenLine
    /\ knowledge_at' = "ready" /\ import_line' = 0
    /\ UNCHANGED <<versionVars, tableVars, searchVars, knowledge_deaths>>

InsertDocument ==
    /\ knowledge_at = "line"
    /\ import_line <= Len(KnowledgeFile) /\ KnowledgeFile[import_line] # BrokenLine
    /\ Len(knowledge_chunks) < MaxChunks
    /\ knowledge_documents' = knowledge_documents + 1
    /\ knowledge_at' = "chunk"
    /\ UNCHANGED <<versionVars, knowledge_chunks, searchVars, import_line, knowledge_deaths>>

\* Mutant: the vector is left to the next migration.
ingest_chunk_NoVector(line) == [body |-> line.body, title |-> line.title, vector |-> FALSE]
ingest_chunk(line) == [body |-> line.body, title |-> line.title, vector |-> TRUE]

InsertKnowledgeChunk ==
    /\ knowledge_at = "chunk"
    /\ knowledge_chunks' = Append(knowledge_chunks, ingest_chunk(KnowledgeFile[import_line]))
    /\ knowledge_at' = "line" /\ import_line' = import_line + 1
    /\ UNCHANGED <<versionVars, knowledge_documents, searchVars, knowledge_deaths>>

-----------------------------------------------------------------------------
(* Search                                                                      *)

\* What a query finds, and in which order, is open: distinct rows, at most MaxHits.
Found(ids) == {q \in BoundedSeq(ids, MaxHits) : IsInjective(q)}

\* search_knowledge: full text, or the substring when that finds nothing.
search_knowledge == Found(DOMAIN knowledge_chunks)

\* search_knowledge_semantic sees the rows that have a vector.
search_knowledge_semantic == Found(DOMAIN knowledge_chunks \ Unfilled)

_adapt_knowledge_hits(ids) ==
    [r \in DOMAIN ids |->
        [source_type |-> "knowledge", source_id |-> ids[r], snippet |-> knowledge_chunks[ids[r]].body,
         title |-> knowledge_chunks[ids[r]].title, metadata |-> 5, rank |-> r]]

_adapt_memory_hits(ids) ==
    [r \in DOMAIN ids |->
        [source_type |-> "memory", source_id |-> ids[r], snippet |-> Memories[ids[r]],
         title |-> FALSE, metadata |-> 4, rank |-> r]]

\* 1 / (_RRF_K + rank) in units of 1 / (61 * 62 * 63), exact for the ranks up to 3.
Weight(rank) == (61 * 62 * 63) \div (60 + rank)

_primary_dedupe_key(hit) == <<hit.source_type, hit.source_id>>

_prefer_hit(hit, current) ==
    IF hit.title # current.title THEN hit.title
    ELSE IF hit.metadata # current.metadata THEN hit.metadata > current.metadata
    ELSE hit.rank < current.rank

\* The entry kept under a key has its score written into its metadata.
Merged(hit, current) ==
    IF _prefer_hit(hit, current) THEN [hit EXCEPT !.metadata = @ + 1]
    ELSE [current EXCEPT !.rank = IF hit.rank < @ THEN hit.rank ELSE @]

\* Mutant: a hit is only merged with one of the same source.
KeyOf_Source(acc, hit) == _primary_dedupe_key(hit)
\* A hit whose content is known goes under the key of that content.
KeyOf(acc, hit) ==
    IF hit.snippet \in DOMAIN acc.content_keys THEN acc.content_keys[hit.snippet]
    ELSE _primary_dedupe_key(hit)

With(f, k, v) == [x \in DOMAIN f \cup {k} |-> IF x = k THEN v ELSE f[x]]

FuseHit(acc, hit) ==
    LET key == KeyOf(acc, hit)
        known == key \in DOMAIN acc.by_key
    IN  [content_keys |-> With(acc.content_keys, hit.snippet, key),
         fused_scores |-> With(acc.fused_scores, key,
                               Weight(hit.rank) + IF known THEN acc.fused_scores[key] ELSE 0),
         by_key |-> With(acc.by_key, key, IF known THEN Merged(hit, acc.by_key[key])
                                          ELSE [hit EXCEPT !.metadata = @ + 1])]

NoHits == [content_keys |-> <<>>, fused_scores |-> <<>>, by_key |-> <<>>]

\* The sort: score, rank, source type ("knowledge" < "memory"), source id.
Precedes(acc, j, k) ==
    LET a == acc.by_key[j]
        b == acc.by_key[k]
    IN  \/ acc.fused_scores[j] > acc.fused_scores[k]
        \/ /\ acc.fused_scores[j] = acc.fused_scores[k]
           /\ \/ a.rank < b.rank
              \/ a.rank = b.rank /\ a.source_type = "knowledge" /\ b.source_type = "memory"
              \/ a.rank = b.rank /\ a.source_type = b.source_type /\ a.source_id < b.source_id

\* The hits are merged one after the other: what the first k of them give.
Fusing(hits) ==
    LET acc[k \in 0..Len(hits)] == IF k = 0 THEN NoHits ELSE FuseHit(acc[k - 1], hits[k])
    IN  acc

\* In order: the i-th key is the one that i - 1 others precede.
Ranked(acc) ==
    LET keys == DOMAIN acc.by_key
    IN  [i \in 1..Cardinality(keys) |->
            CHOOSE k \in keys : Cardinality({j \in keys : Precedes(acc, j, k)}) = i - 1]

_rrf_fuse(hits) ==
    LET acc == Fusing(hits)[Len(hits)]
        keys == Ranked(acc)
    IN  [i \in 1..Min({Len(keys), final_limit}) |-> acc.by_key[keys[i]]]

\* Two searches, each with its row in the log, and the recall of the memories.
hybrid_retrieve ==
    /\ knowledge_at = "ready" /\ search_log + 2 <= MaxSearches
    /\ \E lexical \in search_knowledge, semantic \in search_knowledge_semantic,
          memory \in Found(DOMAIN Memories) :
          LET hits == _adapt_knowledge_hits(lexical) \o _adapt_knowledge_hits(semantic)
                         \o _adapt_memory_hits(memory)
          IN  retrieved' = [hits |-> hits, fused |-> _rrf_fuse(hits)]
    /\ search_log' = search_log + 2
    /\ UNCHANGED <<versionVars, tableVars, question, knowledge_at, import_line, knowledge_deaths>>

\* /search-knowledge, when the safety check lets the query pass; with answer_after_search
\* the question becomes a message ...
run_knowledge_search(answer_after_search) ==
    /\ knowledge_at = "ready" /\ search_log < MaxSearches
    /\ search_log' = search_log + 1
    /\ IF answer_after_search THEN question' = "asked" /\ knowledge_at' = "answer"
       ELSE UNCHANGED <<question, knowledge_at>>
    /\ UNCHANGED <<versionVars, tableVars, retrieved, import_line, knowledge_deaths>>

\* ... and the reply, or the one that says it failed, another.
AppendAnswer ==
    /\ knowledge_at = "answer"
    /\ question' = "answered" /\ knowledge_at' = "ready"
    /\ UNCHANGED <<versionVars, tableVars, search_log, retrieved, import_line, knowledge_deaths>>

KnowledgeDies ==
    /\ knowledge_at # "closed" /\ knowledge_deaths < MaxKnowledgeDeaths
    /\ knowledge_at' = "closed" /\ import_line' = 0
    /\ knowledge_deaths' = knowledge_deaths + 1
    /\ retrieved' = NothingRetrieved
    /\ UNCHANGED <<versionVars, tableVars, search_log, question>>

KnowledgeNext ==
    \/ OpenKnowledge \/ AddVectorColumns \/ FillVector \/ WriteVersion
    \/ ingest_jsonl_file \/ EndImport \/ InsertDocument \/ InsertKnowledgeChunk
    \/ hybrid_retrieve \/ AppendAnswer \/ KnowledgeDies
    \/ \E answer \in BOOLEAN : run_knowledge_search(answer)

KnowledgeSpec == KnowledgeInit /\ [][KnowledgeNext]_knowledgeVars

-----------------------------------------------------------------------------
KnowledgeTypeOK ==
    /\ schema_version \in 0..2 /\ vector_columns \in BOOLEAN
    /\ knowledge_at \in {"closed", "columns", "fill", "ready", "line", "chunk", "answer"}
    /\ Len(knowledge_chunks) <= MaxChunks /\ import_line \in 0..Len(KnowledgeFile) + 1
    /\ search_log \in 0..MaxSearches /\ question \in {"none", "asked", "answered"}

\* Whatever died during a migration or an import, a database that is open has the columns
\* and a vector for every row: the semantic search misses none.
VectorsAreComplete ==
    knowledge_at \notin {"closed", "columns", "fill"} => vector_columns /\ Unfilled = {}

\* The weight that each prefix of the hits gives the content s.
Weights(hits, s) ==
    LET sum[k \in 0..Len(hits)] ==
            IF k = 0 THEN 0
            ELSE sum[k - 1] + IF hits[k].snippet = s THEN Weight(hits[k].rank) ELSE 0
    IN  sum

\* A fused list says nothing twice, names no source twice, and holds the contents with the
\* greatest weight over all the places they were found at, heaviest first.  Which of equals
\* comes first may depend on the order of merging: a titled hit that replaces another does
\* not take over its better rank.
FusedIsFair ==
    LET fused == retrieved.fused
        hits == retrieved.hits
        Contents(q) == {q[i].snippet : i \in DOMAIN q}
        Total(s) == Weights(hits, s)[Len(hits)]
    IN  /\ \A i, j \in DOMAIN fused : i < j =>
              /\ fused[i].snippet # fused[j].snippet
              /\ _primary_dedupe_key(fused[i]) # _primary_dedupe_key(fused[j])
              /\ Total(fused[i].snippet) >= Total(fused[j].snippet)
        /\ \A s \in Contents(hits) \ Contents(fused) :
              Len(fused) = final_limit /\ \A i \in DOMAIN fused : Total(fused[i].snippet) >= Total(s)

\* What was imported is found, once, and best first, after every crash
\* (knowledge_schema._migrate_v2, ingest.ingest_chunk, hybrid._rrf_fuse).
KnowledgeIsFound == VectorsAreComplete /\ FusedIsFair
=============================================================================
