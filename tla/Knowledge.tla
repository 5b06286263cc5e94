------------------------------ MODULE Knowledge --------------------------------
(***************************************************************************)
(* The knowledge base: the tables knowledge_sources and knowledge_chunks   *)
(* and the operations that fill and empty them: the admin's upload and     *)
(* delete (api/routers/knowledge.py over                                   *)
(* core/services/knowledge_ingestion_service.py), reindex_source, and      *)
(* index_document of adapters/knowledge/pgvector_adapter.py.               *)
(*                                                                         *)
(* Every repository call is one SERIALIZABLE transaction                   *)
(* (adapters/storage/db.py), so it is one step; the embeddings between two *)
(* of them are calls to Vertex AI and the point where requests interleave. *)
(* A text is abstracted to the documents and positions of its chunks.      *)
(***************************************************************************)
EXTENDS Naturals, FiniteSets

CONSTANTS
    Labels,       \* source_label / source_key values
    Docs,         \* documents that may be uploaded
    MaxUploads,   \* bound: requests, numbered in the order they arrive
    ChunkCount,   \* how many chunks the chunker makes of a document
    KnowledgeFaults \* which calls may raise: "embed", "db"

ASSUME KnowledgeConstants ==
    /\ ChunkCount \in [Docs -> Nat]
    /\ MaxUploads \in Nat /\ Labels # {}
    /\ KnowledgeFaults \subseteq {"embed", "db"}

VARIABLES
    source,   \* knowledge_sources by source_key: its row, or absent
    chunks,   \* the rows of knowledge_chunks
    req,      \* what each request is doing
    overlapped, \* history: labels on which two requests were at work at once
    broken    \* history: labels whose last upload stopped after its upsert

knowledgeVars == <<source, chunks, req, overlapped, broken>>

-----------------------------------------------------------------------------
Requests == 1..MaxUploads
Piece == [doc : Docs, ix : Nat]
Chunk == [owner : Requests, batch : Requests, piece : Piece]
Absent == [present |-> FALSE]

\* A row is named after the request that inserted it; content_hash is a
\* hash of the text, hence of the pieces it is made of.
SourceRow == [present : {TRUE}, id : Requests, content_hash : SUBSET Piece]

Kinds == {"upload", "delete", "reindex", "index"}
Steps == {"idle", "list", "upsert", "embed", "replace", "index", "delete", "done", "failed"}

Request == [kind : Kinds, label : Labels, pieces : SUBSET Piece, id : Requests, step : Steps]

\* DocumentChunker: the pieces of a document, none for an empty one.
ExtractChunks(d) == {[doc |-> d, ix |-> i] : i \in 1..ChunkCount[d]}

ChunksOf(id) == {c \in chunks : c.owner = id}
PiecesOf(id) == {c.piece : c \in ChunksOf(id)}

\* What query and search_similar join: the chunks of the label's row.
Searchable(l) == IF source[l].present THEN ChunksOf(source[l].id) ELSE {}

AtWork(r) == req[r].step \notin {"idle", "done", "failed"}
Busy(l) == \E r \in Requests : AtWork(r) /\ req[r].label = l

\* Requests past their upsert: a failure leaves the new hash to old chunks.
Committed(r) == req[r].step \in {"embed", "replace"} /\ req[r].kind # "index"

Goto(r, s) == req' = [req EXCEPT ![r] = [req[r] EXCEPT !.step = s]]

KnowledgeInit ==
    /\ source = [l \in Labels |-> Absent]
    /\ chunks = {}
    /\ req = [r \in Requests |-> [kind |-> "upload", label |-> CHOOSE l \in Labels : TRUE,
                                   pieces |-> {}, id |-> r, step |-> "idle"]]
    /\ overlapped = {}
    /\ broken = {}

-----------------------------------------------------------------------------
(* The operations.                                                         *)

FirstStep(kind, pieces) ==
    CASE kind = "delete" -> "delete"
      [] kind = "reindex" -> "list"
      [] kind = "upload" -> IF pieces = {} THEN "done" ELSE "upsert"
      [] kind = "index" -> IF pieces = {} THEN "done" ELSE "embed"

\* A request arrives.  An upload and index_document chunk their document
\* first and end there when it gives no chunk; the checks of the router
\* (extension, size, blank label) refuse before that and change nothing.
Begin(r, kind, l, d) ==
    /\ req[r].step = "idle" /\ \A q \in Requests : q < r => req[q].step # "idle"
    /\ LET pieces == IF kind \in {"upload", "index"} THEN ExtractChunks(d) ELSE {}
       IN req' = [req EXCEPT ![r] = [kind |-> kind, label |-> l, pieces |-> pieces, id |-> r,
                                     step |-> FirstStep(kind, pieces)]]
    /\ overlapped' = IF Busy(l) THEN overlapped \union {l} ELSE overlapped
    /\ UNCHANGED <<source, chunks, broken>>

\* list_chunks_by_source, the first call of reindex_source.
ListChunks(r) ==
    /\ req[r].step = "list"
    /\ LET pieces == {c.piece : c \in Searchable(req[r].label)}
       IN req' = [req EXCEPT ![r] = [req[r] EXCEPT !.pieces = pieces,
                                                  !.step = IF pieces = {} THEN "done" ELSE "upsert"]]
    /\ UNCHANGED <<source, chunks, overlapped, broken>>

\* The row a request writes: its label's, or a new one.
RowId(r) == IF source[req[r].label].present THEN source[req[r].label].id ELSE r

WriteRow(r, hash) ==
    source' = [source EXCEPT ![req[r].label] = [present |-> TRUE, id |-> RowId(r), content_hash |-> hash]]

\* Mutant: a row that is there keeps its hash.
UpsertSourceKeepsHash(r) ==
    /\ req[r].step = "upsert"
    /\ LET row == source[req[r].label]
       IN WriteRow(r, IF row.present THEN row.content_hash ELSE req[r].pieces)
    /\ req' = [req EXCEPT ![r] = [req[r] EXCEPT !.id = RowId(r), !.step = "embed"]]
    /\ UNCHANGED <<chunks, overlapped, broken>>

\* upsert_source: the row of the key is inserted or takes the new hash.
UpsertSource(r) ==
    /\ req[r].step = "upsert"
    /\ WriteRow(r, req[r].pieces)
    /\ req' = [req EXCEPT ![r] = [req[r] EXCEPT !.id = RowId(r), !.step = "embed"]]
    /\ UNCHANGED <<chunks, overlapped, broken>>

\* One embedding per chunk, none kept when one of them raises.
Embed(r) ==
    /\ req[r].step = "embed"
    /\ Goto(r, IF req[r].kind = "index" THEN "index" ELSE "replace")
    /\ UNCHANGED <<source, chunks, overlapped, broken>>

NewChunks(r, id) == {[owner |-> id, batch |-> r, piece |-> p] : p \in req[r].pieces}

\* Mutant: the old chunks stay.
ReplaceChunksAppends(r) ==
    /\ req[r].step = "replace"
    /\ \E l \in Labels : source[l].present /\ source[l].id = req[r].id
    /\ chunks' = chunks \union NewChunks(r, req[r].id)
    /\ broken' = broken \ {req[r].label}
    /\ Goto(r, "done")
    /\ UNCHANGED <<source, overlapped>>

\* replace_chunks: DELETE and INSERT in one transaction; the foreign key of
\* the chunks refuses it when the source row is gone.
ReplaceChunks(r) ==
    /\ req[r].step = "replace"
    /\ \E l \in Labels : source[l].present /\ source[l].id = req[r].id
    /\ chunks' = (chunks \ ChunksOf(req[r].id)) \union NewChunks(r, req[r].id)
    /\ broken' = broken \ {req[r].label}
    /\ Goto(r, "done")
    /\ UNCHANGED <<source, overlapped>>

\* index_document writes the row and the chunks in one transaction.
IndexDocument(r) ==
    /\ req[r].step = "index"
    /\ WriteRow(r, req[r].pieces)
    /\ chunks' = (chunks \ ChunksOf(RowId(r))) \union NewChunks(r, RowId(r))
    /\ broken' = broken \ {req[r].label}
    /\ Goto(r, "done")
    /\ UNCHANGED overlapped

\* delete_source: the chunks go with the row, ON DELETE CASCADE.
DeleteSource(r) ==
    /\ req[r].step = "delete"
    /\ LET l == req[r].label
       IN /\ chunks' = chunks \ Searchable(l)
          /\ source' = [source EXCEPT ![l] = Absent]
          /\ broken' = broken \ {l}
    /\ Goto(r, "done")
    /\ UNCHANGED overlapped

\* A call raises (an embedding, a transaction that cannot be serialized, the
\* foreign key above) or the process stops: the request goes no further.
Raise(r) ==
    /\ \/ req[r].step = "embed" /\ "embed" \in KnowledgeFaults
       \/ req[r].step \in {"list", "upsert", "replace", "index", "delete"} /\ "db" \in KnowledgeFaults
       \/ /\ req[r].step = "replace"
          /\ \A l \in Labels : source[l].present => source[l].id # req[r].id
    /\ Goto(r, "failed")
    /\ broken' = IF Committed(r) THEN broken \union {req[r].label} ELSE broken
    /\ UNCHANGED <<source, chunks, overlapped>>

KnowledgeNext ==
    \E r \in Requests :
        \/ \E kind \in Kinds, l \in Labels, d \in Docs : Begin(r, kind, l, d)
        \/ ListChunks(r)
        \/ UpsertSource(r)
        \/ Embed(r)
        \/ ReplaceChunks(r)
        \/ IndexDocument(r)
        \/ DeleteSource(r)
        \/ Raise(r)

KnowledgeSpec == KnowledgeInit /\ [][KnowledgeNext]_knowledgeVars

-----------------------------------------------------------------------------
(* Properties.                                                             *)

\* The tables hold rows and the requests are where the code may be.
KnowledgeTypeOK ==
    /\ source \in [Labels -> SourceRow \union {Absent}]
    /\ chunks \subseteq Chunk
    /\ req \in [Requests -> Request]
    /\ overlapped \subseteq Labels
    /\ broken \subseteq Labels

\* Whatever requests overlap or fail, what a source offers to a search is the
\* whole text of a single upload and never a mixture of two, and no chunk
\* outlives its source row (replace_chunks, delete_source, the foreign key).
SourceIsOneUpload ==
    /\ \A c \in chunks :
          /\ \E l \in Labels : source[l].present /\ source[l].id = c.owner
          /\ PiecesOf(c.owner) = req[c.batch].pieces
    /\ \A c1, c2 \in chunks : c1.owner = c2.owner => c1.batch = c2.batch

\* Where requests for a label never overlapped and the last one did not stop
\* after its upsert, the chunks are those of the text the row's hash is of:
\* ingest_file and reindex_source write the hash and the chunks separately.
SerialSourceIsCurrent ==
    \A l \in Labels \ (overlapped \union broken) :
        (source[l].present /\ ~Busy(l)) => {c.piece : c \in Searchable(l)} = source[l].content_hash
=============================================================================
