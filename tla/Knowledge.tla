----------------------------- MODULE Knowledge -----------------------------
(***************************************************************************)
(* The knowledge base: documents that are pasted or uploaded, split,       *)
(* embedded and stored chunk by chunk, deleted with their chunks, and      *)
(* searched by meaning and by words at once.  Every database statement and *)
(* every call of the AI provider is a step of its own.                     *)
(***************************************************************************)
EXTENDS Chunking, SequencesExt, FiniteSetsExt, AIProvider

CONSTANTS
    Uploads,        \* the submissions of the knowledge page
    UploadOrg,      \* the organisation of each
    DocumentLimit,  \* the page's MAX_CHARS
    DefaultLimit,   \* passages a search returns unless told otherwise
    OverFetch,      \* how many times as many each side fetches
    K,              \* the damping constant of the rank fusion
    Faults          \* do statements and calls fail, and processes die?

VARIABLES
    content,    \* the document of each submission
    uploads,    \* its local state
    documents,  \* the documents stored, by the submission that made them
    chunks,     \* the chunks stored: [doc, position]
    interrupted \* the submissions that broke off after storing their document

knowledgeVars == <<content, uploads, documents, chunks, interrupted>>

Chunk == [doc : Uploads, position : Nat]
UploadOf == [pc : {"new", "provider", "embed", "create", "insert", "added",
                   "refused", "failed"}, next : Nat]

KnowledgeTypeOK ==
    /\ uploads \in [Uploads -> UploadOf]
    /\ documents \subseteq Uploads /\ interrupted \subseteq Uploads
    /\ chunks \subseteq Chunk

KnowledgeInit(submitted, pages) ==
    /\ content \in [submitted -> pages]
    /\ uploads = [u \in Uploads |-> [pc |-> "new", next |-> 0]]
    /\ documents = {} /\ chunks = {} /\ interrupted = {}

Texts(u) == Chunked[content[u]]
UploadGoes(u, pc) == uploads' = [uploads EXCEPT ![u].pc = pc]
NothingStored == UNCHANGED <<content, documents, chunks, interrupted>>

Blank(document) == \A p \in DOMAIN document : document[p] = 0
LengthOf(document) == FoldLeft(LAMBDA n, m : n + m, 0, document)

\* addKnowledgeDocumentAction refuses a document that is blank or too long.
SubmitDocument(u) ==
    /\ u \in DOMAIN content /\ uploads[u].pc = "new"
    /\ IF Blank(content[u]) \/ LengthOf(content[u]) > DocumentLimit
       THEN UploadGoes(u, "refused") ELSE UploadGoes(u, "provider")
    /\ NothingStored

FindProvider(u) ==
    /\ uploads[u].pc = "provider"
    /\ \/ HasProvider(UploadOrg[u]) /\ UploadGoes(u, "embed")
       \/ ~HasProvider(UploadOrg[u]) /\ UploadGoes(u, "failed")
    /\ NothingStored

\* embed: all chunks in one call, which fails as a whole.
EmbedChunks(u) ==
    /\ uploads[u].pc = "embed"
    /\ \/ UploadGoes(u, "create")
       \/ Faults /\ UploadGoes(u, "failed")
    /\ NothingStored

CreateDocument(u) ==
    /\ uploads[u].pc = "create"
    /\ \/ UploadGoes(u, "insert") /\ documents' = documents \cup {u}
       \/ Faults /\ UploadGoes(u, "failed") /\ UNCHANGED documents
    /\ UNCHANGED <<content, chunks, interrupted>>

Position_first(u) == 0
Position(u) == uploads[u].next

\* insertChunks: one INSERT after the other, each refused when the document
\* is gone.
InsertChunk(u) ==
    /\ uploads[u].pc = "insert" /\ uploads[u].next < Len(Texts(u))
    /\ u \in documents
    /\ chunks' = chunks \cup {[doc |-> u, position |-> Position(u)]}
    /\ uploads' = [uploads EXCEPT ![u].next = @ + 1]
    /\ UNCHANGED <<content, documents, interrupted>>

BreakOff(u) ==
    /\ uploads[u].pc = "insert" /\ uploads[u].next < Len(Texts(u))
    /\ Faults \/ u \notin documents
    /\ UploadGoes(u, "failed") /\ interrupted' = interrupted \cup {u}
    /\ UNCHANGED <<content, documents, chunks>>

ReportAdded(u) ==
    /\ uploads[u].pc = "insert" /\ uploads[u].next = Len(Texts(u))
    /\ UploadGoes(u, "added") /\ NothingStored

Without_documentOnly(u) == chunks
Without(u) == {c \in chunks : c.doc # u}

\* deleteDocument, with its chunks.
DeleteDocument(u) ==
    /\ u \in documents
    /\ documents' = documents \ {u} /\ chunks' = Without(u)
    /\ UNCHANGED <<content, uploads, interrupted>>

UploadSteps(u) ==
    \/ SubmitDocument(u) \/ FindProvider(u) \/ EmbedChunks(u) \/ CreateDocument(u)
    \/ InsertChunk(u) \/ BreakOff(u) \/ ReportAdded(u)

----------------------------------------------------------------------------
(* Search.                                                                  *)

\* Every query is scoped by organisation.
Searchable_anyones(o) == chunks
Searchable(o) == {c \in chunks : UploadOrg[c.doc] = o}

SmallerOf(m, n) == IF m < n THEN m ELSE n

\* searchByEmbedding ranks all chunks, and returns the nearest ones.
Nearest(o, n) ==
    UNION {SetToSeqs(best) :
              best \in kSubset(SmallerOf(n, Cardinality(Searchable(o))), Searchable(o))}

\* searchByText ranks those that match the query, which may be any.
Matching(o, n) ==
    UNION {SetToSeqs(best) :
              best \in {best \in SUBSET Searchable(o) : Cardinality(best) <= n}}

RankIn(list, c) == CHOOSE k \in DOMAIN list : list[k] = c
Has(list, c) == c \in {list[k] : k \in DOMAIN list}

\* 1 / (K + rank) in each list, added up: as <<numerator, denominator>>.
Score_best(lists, c) ==
    <<1, IF Has(lists[1], c) THEN K + RankIn(lists[1], c) ELSE K + RankIn(lists[2], c)>>
Score(lists, c) ==
    LET d(i) == K + RankIn(lists[i], c)
    IN IF ~Has(lists[2], c) THEN <<1, d(1)>>
       ELSE IF ~Has(lists[1], c) THEN <<1, d(2)>>
       ELSE <<d(1) + d(2), d(1) * d(2)>>

\* Ties stay in the order in which the chunks were first met.
MetBefore(lists, c, e) ==
    IF Has(lists[1], c) /\ Has(lists[1], e) THEN RankIn(lists[1], c) < RankIn(lists[1], e)
    ELSE IF Has(lists[1], c) \/ Has(lists[1], e) THEN Has(lists[1], c)
    ELSE RankIn(lists[2], c) < RankIn(lists[2], e)

Ahead(lists, c, e) ==
    LET s == Score(lists, c)
        t == Score(lists, e)
    IN \/ s[1] * t[2] > t[1] * s[2]
       \/ s[1] * t[2] = t[1] * s[2] /\ MetBefore(lists, c, e)

Found(lists) == UNION {{list[k] : k \in DOMAIN list} : list \in {lists[1], lists[2]}}

\* Sorted: before a chunk come those that are ahead of it.
Before(lists, c) == {e \in Found(lists) : e # c /\ Ahead(lists, e, c)}

Fuse(lists, limit) ==
    [k \in 1 .. SmallerOf(limit, Cardinality(Found(lists))) |->
        CHOOSE c \in Found(lists) : Cardinality(Before(lists, c)) = k - 1]

----------------------------------------------------------------------------
(* Properties.                                                              *)

Whole(u) == {c.position : c \in {c \in chunks : c.doc = u}} = 0 .. Len(Texts(u)) - 1

\* addDocument: "a provider failure leaves nothing half-written".  A document
\* that is listed has all its chunks unless they are just being written or the
\* writing broke off, and one that was reported as added has them.
DocumentsWhole ==
    \A u \in documents :
        \/ Whole(u)
        \/ uploads[u].pc = "insert" \/ u \in interrupted

\* "A chunk has no meaning without its document": no search can find a passage
\* of a document that was deleted, however the deletion falls between writes.
NoOrphanChunks == \A c \in chunks : c.doc \in documents

\* "A policy sentence that straddles a boundary would otherwise be retrievable
\* from neither side": every stretch of a paragraph that is at most one longer
\* than the overlap is in one piece in some chunk of a document that was added.
Findable ==
    \A u \in documents : uploads[u].pc = "added" =>
        \A text \in PassagesOf(content[u]) :
            \E c \in chunks : c.doc = u /\ Carries(Texts(u)[c.position + 1], text)

\* "Never emit an oversized chunk": beyond MaxChars there is only the overlap.
ChunkBounded ==
    \A c \in chunks :
        Len(Texts(c.doc)[c.position + 1]) <= MaxChars + OverlapChars + Len(Gap)

\* Documents and chunks come and go together.
DocumentsSound == DocumentsWhole /\ NoOrphanChunks

\* No text is lost between chunks, and no chunk is too long.
ChunksSound == Findable /\ ChunkBounded
=============================================================================
