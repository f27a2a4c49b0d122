---------------------------- MODULE HarnessProofs ----------------------------
(***************************************************************************)
(* What holds of every agent's programme, of the reply pipelines, of the   *)
(* knowledge base and of the settings of the AI provider, whatever the     *)
(* model answers, the look-ups find and the pages do in between.           *)
(***************************************************************************)
EXTENDS Harness, FiniteSetTheorems, SequenceTheorems, WellFoundedInduction, TLAPS

-----------------------------------------------------------------------------
(* The settings of the AI provider.                                         *)

\* A submission about to write has a secret that somebody submitted or that was
\* stored; when its own was blank and nobody overtook it, the one that is stored.
SettingsInv ==
    /\ DOMAIN provider = Orgs /\ DOMAIN saves = Saves /\ ProviderTypeOK
    /\ \A s \in Saves : saves[s].pc = "write" =>
          /\ saves[s].secret \in Secrets \cup {Connected[Form[s].org].secret}
          /\ Form[s].secret = "" /\ s \notin overtaken
                => saves[s].secret = StoredSecret(Form[s].org)

LEMMA SecretsStored ==
    ASSUME ProviderTypeOK, NEW o \in Orgs
    PROVE  StoredSecret(o) \in Secrets \cup {Connected[o].secret}
BY DEF ProviderTypeOK, StoredSecret, Secrets

LEMMA SettingsStart ==
    ASSUME ProviderInit
    PROVE  SettingsInv
<1>1. provider = Connected /\ DOMAIN saves = Saves /\ overtaken = {}
  BY DEF ProviderInit
<1>2. \A s \in Saves : saves[s].pc = "new"
  BY DEF ProviderInit, Unread
<1>3. DOMAIN provider = Orgs
  BY <1>1, ProviderAssumption
<1>4. ProviderTypeOK
  BY <1>1, <1>2 DEF ProviderTypeOK
<1> QED
  BY <1>1, <1>2, <1>3, <1>4 DEF SettingsInv

LEMMA ReadSecretKeeps ==
    ASSUME SettingsInv, NEW s \in Saves, ReadSecret(s)
    PROVE  SettingsInv'
<1> DEFINE save == [pc |-> "write", secret |-> KeptSecret(s)]
           o == Form[s].org
<1>1. /\ saves' = [saves EXCEPT ![s] = save] /\ UNCHANGED <<provider, overtaken>>
  BY DEF ReadSecret
<1>2. save.pc = "write" /\ save.secret = KeptSecret(s)
  OBVIOUS
<1> HIDE DEF save
<1>3. /\ DOMAIN saves' = Saves /\ saves'[s] = save
      /\ \A t \in Saves \ {s} : saves'[t] = saves[t]
  BY <1>1 DEF SettingsInv
<1>4. \A p : StoredSecret(p)' = StoredSecret(p)
  BY <1>1 DEF StoredSecret
<1>5. o \in Orgs
  BY ProviderAssumption
<1>6. /\ KeptSecret(s) \in Secrets \cup {Connected[o].secret}
      /\ Form[s].secret = "" => KeptSecret(s) = StoredSecret(o)
  BY <1>5, SecretsStored DEF KeptSecret, Secrets, SettingsInv
<1>7. ProviderTypeOK'
  BY <1>1, <1>2, <1>3 DEF SettingsInv, ProviderTypeOK
<1>8. ASSUME NEW t \in Saves, saves'[t].pc = "write"
      PROVE  /\ saves'[t].secret \in Secrets \cup {Connected[Form[t].org].secret}
             /\ Form[t].secret = "" /\ t \notin overtaken
                   => saves'[t].secret = StoredSecret(Form[t].org)
  BY <1>2, <1>3, <1>6, <1>8 DEF SettingsInv
<1> QED
  BY <1>1, <1>3, <1>4, <1>7, <1>8 DEF SettingsInv

LEMMA StoreProviderKeeps ==
    ASSUME SettingsInv, NEW s \in Saves, StoreProvider(s)
    PROVE  SettingsInv'
<1> DEFINE save == [Unread EXCEPT !.pc = "over"]
           o == Form[s].org
           row == [url |-> Form[s].url, secret |-> saves[s].secret]
<1>1. /\ saves' = [saves EXCEPT ![s] = save] /\ provider' = [provider EXCEPT ![o] = row]
      /\ overtaken' = overtaken \cup (Between(o) \ {s}) /\ saves[s].pc = "write"
  BY DEF StoreProvider
<1>2. save.pc = "over" /\ row.secret = saves[s].secret
  BY DEF Unread
<1> HIDE DEF save, row
<1>3. /\ DOMAIN saves' = Saves /\ saves'[s] = save
      /\ \A t \in Saves \ {s} : saves'[t] = saves[t]
  BY <1>1 DEF SettingsInv
<1>4. o \in Orgs
  BY ProviderAssumption
<1>5. /\ DOMAIN provider' = Orgs /\ provider'[o] = row
      /\ \A p \in Orgs \ {o} : provider'[p] = provider[p]
  BY <1>1, <1>4 DEF SettingsInv
<1>6. saves[s].secret \in Secrets \cup {Connected[o].secret}
  BY <1>1 DEF SettingsInv
<1>7. ProviderTypeOK'
  BY <1>1, <1>2, <1>3, <1>5, <1>6 DEF SettingsInv, ProviderTypeOK, Between
<1>8. ASSUME NEW t \in Saves, saves'[t].pc = "write"
      PROVE  /\ saves'[t].secret \in Secrets \cup {Connected[Form[t].org].secret}
             /\ Form[t].secret = "" /\ t \notin overtaken'
                   => saves'[t].secret = StoredSecret(Form[t].org)'
  <2>1. t # s /\ saves'[t] = saves[t] /\ saves[t].pc = "write"
    BY <1>2, <1>3, <1>8
  <2>2. t \notin overtaken' => Form[t].org # o /\ t \notin overtaken
    BY <1>1, <2>1 DEF Between
  <2>3. Form[t].org \in Orgs
    BY ProviderAssumption
  <2>4. Form[t].org # o => StoredSecret(Form[t].org)' = StoredSecret(Form[t].org)
    BY <1>5, <2>3 DEF StoredSecret
  <2> QED  BY <2>1, <2>2, <2>4 DEF SettingsInv
<1> QED
  BY <1>3, <1>5, <1>7, <1>8 DEF SettingsInv

LEMMA DisconnectProviderKeeps ==
    ASSUME SettingsInv, NEW o \in Orgs, DisconnectProvider(o)
    PROVE  SettingsInv'
<1>1. /\ provider' = [provider EXCEPT ![o] = None] /\ overtaken' = overtaken \cup Between(o)
      /\ UNCHANGED saves
  BY DEF DisconnectProvider
<1>2. /\ DOMAIN provider' = Orgs /\ provider'[o] = None
      /\ \A p \in Orgs \ {o} : provider'[p] = provider[p]
  BY <1>1 DEF SettingsInv
<1>3. ProviderTypeOK'
  BY <1>1, <1>2 DEF SettingsInv, ProviderTypeOK, Between
<1>4. ASSUME NEW t \in Saves, saves[t].pc = "write", t \notin overtaken'
      PROVE  StoredSecret(Form[t].org)' = StoredSecret(Form[t].org) /\ t \notin overtaken
  <2>1. Form[t].org # o /\ t \notin overtaken
    BY <1>1, <1>4 DEF Between
  <2>2. Form[t].org \in Orgs
    BY ProviderAssumption
  <2> QED  BY <1>2, <2>1, <2>2 DEF StoredSecret
<1> QED
  BY <1>1, <1>2, <1>3, <1>4 DEF SettingsInv

LEMMA SettingsStill == SettingsInv /\ UNCHANGED providerVars => SettingsInv'
BY DEF SettingsInv, providerVars, ProviderTypeOK, StoredSecret

-----------------------------------------------------------------------------
(* Documents and their chunks.                                              *)

\* A document has the chunks its upload has inserted; the upload goes on, has
\* reported it as added with the last chunk stored, or broke off.
DocumentFits(u) ==
    /\ {c.position : c \in {c \in chunks : c.doc = u}} = 0 .. uploads[u].next - 1
    /\ uploads[u].pc \in {"insert", "added", "failed"}
    /\ uploads[u].pc = "added" => uploads[u].next = Len(Texts(u))
    /\ uploads[u].pc = "failed" => u \in interrupted

DocumentsInv ==
    /\ KnowledgeTypeOK
    /\ \A c \in chunks : c.doc \in documents
    /\ \A u \in documents : DocumentFits(u)
    /\ \A u \in Uploads : uploads[u].pc \in {"new", "provider", "embed", "create"}
          => uploads[u].next = 0

LEMMA DocumentsStart ==
    ASSUME NEW submitted, NEW pages, KnowledgeInit(submitted, pages)
    PROVE  DocumentsInv
BY DEF KnowledgeInit, DocumentsInv, KnowledgeTypeOK, UploadOf

LEMMA UploadOnly ==
    ASSUME DocumentsInv, NEW u \in Uploads, NEW pc, UploadGoes(u, pc),
           UNCHANGED <<content, documents, chunks>>, interrupted' \subseteq Uploads,
           interrupted \subseteq interrupted',
           pc \in {"provider", "embed", "create", "added", "refused", "failed"},
           pc \in {"provider", "embed", "create"}
              => uploads[u].pc \in {"new", "provider", "embed", "create"},
           u \in documents => /\ pc \in {"added", "failed"}
                              /\ pc = "added" => uploads[u].next = Len(Texts(u))
                              /\ pc = "failed" => u \in interrupted'
    PROVE  DocumentsInv'
<1>1. /\ uploads \in [Uploads -> UploadOf] /\ documents \subseteq Uploads
      /\ chunks \subseteq Chunk
  BY DEF DocumentsInv, KnowledgeTypeOK
<1> DEFINE upload == [uploads[u] EXCEPT !.pc = pc]
<1>2. upload \in UploadOf /\ upload.pc = pc /\ upload.next = uploads[u].next
  BY <1>1 DEF UploadOf
<1>3. /\ uploads' \in [Uploads -> UploadOf] /\ uploads'[u] = upload
      /\ \A v \in Uploads \ {u} : uploads'[v] = uploads[v]
  BY <1>1, <1>2 DEF UploadGoes
<1> HIDE DEF upload
<1>4. \A v : Texts(v)' = Texts(v)
  BY DEF Texts
<1>5. ASSUME NEW v \in documents'  PROVE DocumentFits(v)'
  <2>1. v \in documents /\ v \in Uploads /\ DocumentFits(v)
    BY <1>1, <1>5 DEF DocumentsInv
  <2>2. uploads'[v].next = uploads[v].next
    BY <1>2, <1>3, <2>1
  <2>3. v # u => uploads'[v].pc = uploads[v].pc
    BY <1>3, <2>1
  <2>4. v = u => uploads'[v].pc = pc
    BY <1>2, <1>3
  <2> QED  BY <1>4, <2>1, <2>2, <2>3, <2>4 DEF DocumentFits
<1> QED
  BY <1>1, <1>2, <1>3, <1>5 DEF DocumentsInv, KnowledgeTypeOK

LEMMA InsertChunkKeeps ==
    ASSUME DocumentsInv, NEW u \in Uploads, InsertChunk(u)
    PROVE  DocumentsInv'
<1> DEFINE n == uploads[u].next
           upload == [uploads[u] EXCEPT !.next = n + 1]
           chunk == [doc |-> u, position |-> n]
<1>1. /\ uploads[u].pc = "insert" /\ u \in documents /\ chunks' = chunks \cup {chunk}
      /\ uploads' = [uploads EXCEPT ![u] = upload]
      /\ UNCHANGED <<content, documents, interrupted>>
  BY DEF InsertChunk, Position
<1>2. /\ uploads \in [Uploads -> UploadOf] /\ documents \subseteq Uploads
      /\ chunks \subseteq Chunk /\ n \in Nat
  BY DEF DocumentsInv, KnowledgeTypeOK, UploadOf
<1>3. upload \in UploadOf /\ upload.pc = "insert" /\ upload.next = n + 1
  BY <1>1, <1>2 DEF UploadOf
<1>4. chunk \in Chunk /\ chunk.doc = u /\ chunk.position = n
  BY <1>2 DEF Chunk
<1> HIDE DEF upload, chunk, n
<1>5. /\ uploads' \in [Uploads -> UploadOf] /\ uploads'[u] = upload
      /\ \A v \in Uploads \ {u} : uploads'[v] = uploads[v]
  BY <1>1, <1>2, <1>3
<1>6. \A v : Texts(v)' = Texts(v)
  BY <1>1 DEF Texts
<1>7. DocumentFits(u)'
  <2>1. {c.position : c \in {c \in chunks : c.doc = u}} = 0 .. n - 1
    BY <1>1 DEF DocumentsInv, DocumentFits, n
  <2>2. {c.position : c \in {c \in chunks' : c.doc = u}}
           = {c.position : c \in {c \in chunks : c.doc = u}} \cup {n}
    BY <1>1, <1>4
  <2>3. 0 .. (n + 1) - 1 = (0 .. n - 1) \cup {n}
    BY <1>2
  <2> QED  BY <1>3, <1>5, <2>1, <2>2, <2>3 DEF DocumentFits
<1>8. ASSUME NEW v \in documents' \ {u}  PROVE DocumentFits(v)'
  <2>1. v \in documents /\ v \in Uploads /\ DocumentFits(v) /\ uploads'[v] = uploads[v]
    BY <1>1, <1>2, <1>5, <1>8 DEF DocumentsInv
  <2>2. {c \in chunks' : c.doc = v} = {c \in chunks : c.doc = v}
    BY <1>1, <1>4, <1>8
  <2> QED  BY <1>1, <1>6, <2>1, <2>2 DEF DocumentFits
<1> QED
  BY <1>1, <1>2, <1>3, <1>4, <1>5, <1>7, <1>8 DEF DocumentsInv, KnowledgeTypeOK

LEMMA CreateDocumentKeeps ==
    ASSUME DocumentsInv, NEW u \in Uploads, uploads[u].pc = "create", UploadGoes(u, "insert"),
           documents' = documents \cup {u}, UNCHANGED <<content, chunks, interrupted>>
    PROVE  DocumentsInv'
<1> DEFINE upload == [uploads[u] EXCEPT !.pc = "insert"]
<1>1. /\ uploads \in [Uploads -> UploadOf] /\ documents \subseteq Uploads
      /\ chunks \subseteq Chunk /\ uploads[u].next = 0 /\ u \notin documents
  BY DEF DocumentsInv, KnowledgeTypeOK, DocumentFits
<1>2. upload \in UploadOf /\ upload.pc = "insert" /\ upload.next = 0
  BY <1>1 DEF UploadOf
<1>3. /\ uploads' \in [Uploads -> UploadOf] /\ uploads'[u] = upload
      /\ \A v \in Uploads \ {u} : uploads'[v] = uploads[v]
  BY <1>1, <1>2 DEF UploadGoes
<1> HIDE DEF upload
<1>4. \A v : Texts(v)' = Texts(v)
  BY DEF Texts
<1>5. DocumentFits(u)'
  <2>1. {c \in chunks : c.doc = u} = {}
    BY <1>1 DEF DocumentsInv
  <2>2. 0 .. 0 - 1 = {}
    OBVIOUS
  <2> QED  BY <1>2, <1>3, <2>1, <2>2 DEF DocumentFits
<1>6. ASSUME NEW v \in documents  PROVE DocumentFits(v)'
  <2>1. v \in Uploads /\ DocumentFits(v) /\ uploads'[v] = uploads[v]
    BY <1>1, <1>3 DEF DocumentsInv
  <2> QED  BY <1>4, <2>1 DEF DocumentFits
<1> QED
  BY <1>1, <1>2, <1>3, <1>5, <1>6 DEF DocumentsInv, KnowledgeTypeOK

LEMMA DeleteDocumentKeeps ==
    ASSUME DocumentsInv, NEW u \in Uploads, DeleteDocument(u)
    PROVE  DocumentsInv'
<1>1. /\ documents' = documents \ {u} /\ chunks' = {c \in chunks : c.doc # u}
      /\ UNCHANGED <<content, uploads, interrupted>>
  BY DEF DeleteDocument, Without
<1>2. ASSUME NEW v \in documents'  PROVE DocumentFits(v)'
  <2>1. v \in documents /\ DocumentFits(v) /\ v # u
    BY <1>1, <1>2 DEF DocumentsInv
  <2>2. {c \in chunks' : c.doc = v} = {c \in chunks : c.doc = v}
    BY <1>1, <2>1
  <2> QED  BY <1>1, <2>1, <2>2 DEF DocumentFits, Texts
<1> QED
  BY <1>1, <1>2 DEF DocumentsInv, KnowledgeTypeOK

LEMMA PagesKeep ==
    ASSUME DocumentsInv, NEW u \in Uploads, UploadSteps(u) \/ DeleteDocument(u)
    PROVE  DocumentsInv'
<1>1. uploads[u].pc \in {"new", "provider", "embed", "create"} => u \notin documents
  BY DEF DocumentsInv, DocumentFits
<1>2. interrupted \subseteq Uploads
  BY DEF DocumentsInv, KnowledgeTypeOK
<1>3. CASE SubmitDocument(u)
  BY <1>1, <1>2, <1>3, UploadOnly DEF SubmitDocument, NothingStored
<1>4. CASE FindProvider(u)
  BY <1>1, <1>2, <1>4, UploadOnly DEF FindProvider, NothingStored
<1>5. CASE EmbedChunks(u)
  BY <1>1, <1>2, <1>5, UploadOnly DEF EmbedChunks, NothingStored
<1>6. CASE CreateDocument(u)
  BY <1>1, <1>2, <1>6, UploadOnly, CreateDocumentKeeps DEF CreateDocument
<1>7. CASE BreakOff(u)
  <2>1. /\ UploadGoes(u, "failed") /\ interrupted' = interrupted \cup {u}
        /\ UNCHANGED <<content, documents, chunks>>
    BY <1>7 DEF BreakOff
  <2> QED  BY <1>2, <2>1, UploadOnly
<1>8. CASE ReportAdded(u)
  BY <1>2, <1>8, UploadOnly DEF ReportAdded, NothingStored
<1> QED
  BY <1>3, <1>4, <1>5, <1>6, <1>7, <1>8, InsertChunkKeeps, DeleteDocumentKeeps DEF UploadSteps

LEMMA DocumentsStill == DocumentsInv /\ UNCHANGED knowledgeVars => DocumentsInv'
BY DEF DocumentsInv, knowledgeVars, KnowledgeTypeOK, DocumentFits, Texts

-----------------------------------------------------------------------------
(* The chunks of a document.  Counting is by the least number for which a   *)
(* claim would fail.                                                        *)

\* A set of natural numbers that is not empty has a least one.
LEMMA LeastNumber ==
    ASSUME NEW T, T \subseteq Nat, T # {}
    PROVE  \E x \in T : \A y \in T : x <= y
<1> DEFINE R == OpToRel(<, Nat)
<1>1. IsWellFoundedOn(R, Nat)
  BY NatLessThanWellFounded
<1> HIDE DEF R
<1>2. PICK x \in T : \A y \in T : <<y, x>> \notin R
  BY <1>1, WFMin
<1>3. \A x1, y \in Nat : <<y, x1>> \notin R => x1 <= y
  BY DEF R, OpToRel
<1>4. \A y \in T : x <= y
  BY <1>2, <1>3
<1> QED  BY <1>4

\* The positions of a text, and the texts that may be a chunk before the overlap
\* is put in front of it.
Positions == Nat \X Nat
Piece == {text \in Seq(Positions) : Len(text) <= MaxChars}

\* The limits, each a number, as the steps below use them.
LEMMA Limits ==
    /\ TargetChars \in Nat /\ OverlapChars \in Nat /\ MaxChars \in Nat /\ Stride \in Nat
    /\ 0 < TargetChars /\ 0 < OverlapChars /\ OverlapChars < MaxChars
    /\ TargetChars <= MaxChars
    /\ 0 < Stride /\ Stride = MaxChars - OverlapChars
BY ChunkingAssumption DEF Stride

LEMMA StretchCarried ==
    ASSUME NEW text \in Seq(Positions), NEW i \in 1 .. Len(text), NEW j \in i .. Len(text)
    PROVE  /\ SubSeq(text, i, j) \in Seq(Positions) /\ Len(SubSeq(text, i, j)) = j - i + 1
           /\ Carries(text, SubSeq(text, i, j))
<1>1. \A k \in i .. j : text[k] \in Positions
  BY ElementOfSeq
<1>2. /\ SubSeq(text, i, j) \in Seq(Positions)
      /\ Len(SubSeq(text, i, j)) = j - i + 1
  BY <1>1, SubSeqProperties
<1>3. /\ i - 1 \in 0 .. Len(text) - (j - i + 1)
      /\ (i - 1) + 1 = i /\ (i - 1) + (j - i + 1) = j
  BY LenProperties
<1> QED
  BY <1>2, <1>3 DEF Carries

LEMMA PassageIs ==
    ASSUME NEW text \in Seq(Positions), NEW passage \in Passages(text)
    PROVE  /\ passage \in Seq(Positions) /\ passage # <<>>
           /\ \E i \in 1 .. Len(text) : \E j \in i .. Len(text) :
                 j - i <= OverlapChars /\ passage = SubSeq(text, i, j)
<1>1. PICK i, j \in 1 .. Len(text) : j - i \in 0 .. OverlapChars /\ passage = SubSeq(text, i, j)
  BY DEF Passages
<1>2. j \in i .. Len(text) /\ j - i <= OverlapChars /\ j - i + 1 > 0
  BY <1>1, LenProperties, Limits
<1>3. passage \in Seq(Positions) /\ Len(passage) = j - i + 1
  BY <1>1, <1>2, StretchCarried
<1> QED
  BY <1>1, <1>2, <1>3

\* What a text carries, a longer text carries that goes on after it, or that
\* ends with it.
LEMMA CarriedOn ==
    ASSUME NEW text \in Seq(Positions), NEW other \in Seq(Positions),
           NEW passage \in Seq(Positions), passage # <<>>, Carries(text, passage)
    PROVE  Carries(text \o other, passage) /\ Carries(other \o text, passage)
<1>1. PICK i \in 0 .. Len(text) - Len(passage) :
          SubSeq(text, i + 1, i + Len(passage)) = passage
  BY DEF Carries
<1>2. /\ Len(passage) \in Nat /\ Len(passage) > 0
      /\ Len(text) \in Nat /\ Len(other) \in Nat
      /\ Len(text \o other) = Len(text) + Len(other)
      /\ Len(other \o text) = Len(other) + Len(text)
  BY EmptySeq, LenProperties, ConcatProperties
<1> DEFINE n == Len(passage)
           m == Len(other)
<1>3. i + 1 \in 1 .. Len(text) /\ i + n \in 1 .. Len(text)
  BY <1>2
<1>4. Carries(text \o other, passage)
  <2>1. SubSeq(text \o other, i + 1, i + n) = passage
    BY <1>1, <1>3, SubSeqOfConcat1
  <2>2. i \in 0 .. Len(text \o other) - n
    BY <1>2
  <2> QED  BY <2>1, <2>2 DEF Carries
<1>5. Carries(other \o text, passage)
  <2>1. /\ m + i + 1 \in m + 1 .. m + Len(text) /\ m + i + n \in m + 1 .. m + Len(text)
        /\ m + i + 1 - m = i + 1 /\ m + i + n - m = i + n
    BY <1>2, <1>3
  <2>2. SubSeq(other \o text, m + i + 1, m + i + n)
           = SubSeq(text, m + i + 1 - m, m + i + n - m)
    BY <2>1, SubSeqOfConcat2
  <2>3. SubSeq(other \o text, m + i + 1, m + i + n) = passage
    BY <1>1, <2>1, <2>2
  <2>4. m + i \in 0 .. Len(other \o text) - n
    BY <1>2
  <2> QED  BY <2>3, <2>4 DEF Carries
<1> QED  BY <1>4, <1>5

\* The cuts of a text that is too long, counted from 0: the last piece is the
\* first that reaches the end.
LEMMA Cuts ==
    ASSUME NEW n \in Nat, n > MaxChars, NEW more, more = (n - MaxChars + Stride - 1) \div Stride
    PROVE  /\ more \in Nat /\ more >= 1
           /\ more * Stride + MaxChars >= n /\ more * Stride + OverlapChars < n
<1> DEFINE a == n - MaxChars + Stride - 1
<1>1. a \in Nat /\ a >= Stride
  BY Limits
<1>2. more \in Int /\ Stride * more <= a /\ a < Stride * more + Stride
  BY <1>1, Limits
<1> QED  BY <1>1, <1>2, Limits

\* hardSplit: the pieces of a text that is too long are short enough, and no cut
\* takes a passage apart.
LEMMA HardSplitKeeps ==
    ASSUME NEW text \in Seq(Positions), Len(text) > MaxChars
    PROVE  /\ HardSplit(text) \in Seq(Piece)
           /\ \A passage \in Passages(text) :
                 \E k \in DOMAIN HardSplit(text) : Carries(HardSplit(text)[k], passage)
<1> DEFINE n == Len(text)
           more == (n - MaxChars + Stride - 1) \div Stride
           from(k) == (k - 1) * Stride + 1
           to(k) == IF k = more + 1 THEN n ELSE (k - 1) * Stride + MaxChars
           piece(k) == SubSeq(text, from(k), to(k))
<1>1. n \in Nat
  BY LenProperties
<1>2. /\ more \in Nat /\ more >= 1
      /\ more * Stride + MaxChars >= n /\ more * Stride + OverlapChars < n
  BY <1>1, Cuts
<1>3. HardSplit(text) = [k \in 1 .. more + 1 |-> piece(k)]
  BY DEF HardSplit
<1> HIDE DEF more
\* A piece begins and ends inside the text.
<1>4. ASSUME NEW k \in 1 .. more + 1
      PROVE  /\ from(k) \in 1 .. n /\ to(k) \in from(k) .. n
             /\ to(k) - from(k) + 1 <= MaxChars
  <2>1. CASE k = more + 1
    <3>1. (k - 1) * Stride = more * Stride
      BY <2>1, <1>2
    <3>2. more * Stride \in Nat
      BY <1>2, Limits
    <3> QED  BY <1>1, <1>2, <2>1, <3>1, <3>2, Limits
  <2>2. CASE k <= more
    <3>1. (k - 1) * Stride \in Nat /\ more * Stride \in Nat
      BY <1>2, Limits
    <3>2. (k - 1) * Stride + Stride <= more * Stride
      BY <1>2, <2>2, Limits
    <3>3. (k - 1) * Stride + MaxChars < n
      BY <1>1, <1>2, <3>1, <3>2, Limits
    <3> QED  BY <1>1, <1>2, <2>2, <3>1, <3>3, Limits
  <2> QED  BY <1>2, <2>1, <2>2
<1> HIDE DEF from, to
<1>5. ASSUME NEW k \in 1 .. more + 1
      PROVE  /\ piece(k) \in Piece /\ Len(piece(k)) = to(k) - from(k) + 1
  BY <1>4, StretchCarried DEF Piece
<1>6. HardSplit(text) \in Seq(Piece) /\ DOMAIN HardSplit(text) = 1 .. more + 1
  BY <1>2, <1>3, <1>5
\* A stretch between the ends of a piece is carried by the piece.
<1>7. ASSUME NEW k \in 1 .. more + 1, NEW i \in 1 .. n, NEW j \in i .. n,
             from(k) <= i, j <= to(k)
      PROVE  Carries(HardSplit(text)[k], SubSeq(text, i, j))
  <2> DEFINE i1 == i - from(k) + 1
             j1 == j - from(k) + 1
  <2>1. /\ i1 \in 1 .. to(k) - from(k) + 1 /\ j1 \in i1 .. to(k) - from(k) + 1
        /\ from(k) + i1 - 1 = i /\ from(k) + j1 - 1 = j
    BY <1>1, <1>4, <1>7
  <2>2. SubSeq(piece(k), i1, j1) = SubSeq(text, i, j)
    <3>1. \A f, g \in 1 .. n : \A a, b \in 1 .. g - f + 1 :
              SubSeq(SubSeq(text, f, g), a, b) = SubSeq(text, f + a - 1, f + b - 1)
      BY SubSeqOfSubSeq
    <3>2. /\ from(k) \in 1 .. n /\ to(k) \in 1 .. n
          /\ i1 \in 1 .. to(k) - from(k) + 1 /\ j1 \in 1 .. to(k) - from(k) + 1
      <4>1. from(k) \in 1 .. n /\ to(k) \in from(k) .. n
        BY <1>4
      <4>2. from(k) \in Int /\ to(k) \in Int /\ n \in Nat
        BY <1>1, <4>1
      <4> HIDE DEF n, i1, j1
      <4> QED  BY <2>1, <4>1, <4>2
    <3> HIDE DEF n, i1, j1
    <3>3. SubSeq(piece(k), i1, j1) = SubSeq(text, from(k) + i1 - 1, from(k) + j1 - 1)
      BY <3>1, <3>2
    <3> QED  BY <2>1, <3>3
  <2>3. Carries(piece(k), SubSeq(piece(k), i1, j1))
    BY <1>5, <2>1, StretchCarried DEF Piece
  <2> QED  BY <1>3, <2>2, <2>3
<1>8. ASSUME NEW passage \in Passages(text)
      PROVE  \E k \in 1 .. more + 1 : Carries(HardSplit(text)[k], passage)
  <2>1. PICK i \in 1 .. n : \E j \in i .. n :
            j - i <= OverlapChars /\ passage = SubSeq(text, i, j)
    BY <1>8, PassageIs
  <2>2. PICK j \in i .. n : j - i <= OverlapChars /\ passage = SubSeq(text, i, j)
    BY <2>1
  \* The last piece before the passage begins.
  <2>3. CASE i > more * Stride
    <3>1. from(more + 1) <= i /\ j <= to(more + 1)
      BY <1>1, <1>2, <2>3, Limits DEF from, to
    <3> QED  BY <1>2, <1>7, <2>2, <3>1
  <2>4. CASE i <= more * Stride
    <3> DEFINE reached == {k \in Nat : i <= k * Stride}
    <3>1. PICK k \in reached : \A m \in reached : k <= m
      BY <1>2, <2>4, LeastNumber
    <3>2. k \in 1 .. more
      <4>1. k <= more
        BY <1>2, <2>4, <3>1
      <4>2. k # 0
        BY <3>1, Limits
      <4> QED  BY <3>1, <4>1, <4>2, <1>2
    <3>3. (k - 1) * Stride < i
      <4>1. k - 1 \in Nat /\ k - 1 \notin reached
        BY <3>1, <3>2
      <4> QED  BY <4>1, <1>1, Limits
    <3>4. (k - 1) * Stride + Stride = k * Stride
      BY <3>2, Limits
    <3>5. (k - 1) * Stride \in Int /\ k * Stride \in Int
      BY <3>2, Limits
    <3>6. from(k) <= i
      BY <3>3, <3>5, <1>1 DEF from
    <3>7. j <= to(k)
      <4>1. j <= i + OverlapChars
        BY <1>1, <2>2, Limits
      <4>2. i + OverlapChars <= (k - 1) * Stride + MaxChars
        BY <1>1, <3>1, <3>4, <3>5, Limits
      <4>3. to(k) = (k - 1) * Stride + MaxChars
        BY <3>2, <1>2 DEF to
      <4> QED  BY <4>1, <4>2, <4>3, <3>5, <1>1, Limits
    <3> QED  BY <1>2, <1>7, <2>2, <3>2, <3>6, <3>7
  <2> QED  BY <1>1, <1>2, <2>3, <2>4, Limits
<1> QED  BY <1>6, <1>8

Unfilled == [chunks |-> <<>>, current |-> <<>>]

\* One paragraph after the other: the recursion is well defined.
LEMMA FilledStepwise ==
    ASSUME NEW document, Len(document) \in Nat
    PROVE  /\ Filled(document)[0] = Unfilled
           /\ \A p \in 1 .. Len(document) :
                 Filled(document)[p] = Take(Filled(document)[p - 1], document, p)
<1> DEFINE step(f, p) == IF p = 0 THEN Unfilled ELSE Take(f[p - 1], document, p)
           Fills(f, n) == f = [p \in 0 .. n |-> step(f, p)]
           missing == {n \in Nat : ~ \E f : Fills(f, n)}
\* A least number of paragraphs that cannot be taken would follow one that can.
<1>1. missing = {}
  <2> SUFFICES ASSUME missing # {} PROVE FALSE
    OBVIOUS
  <2>1. PICK n \in missing : \A m \in missing : n <= m
    BY LeastNumber
  <2>2. ASSUME n = 0  PROVE FALSE
    <3> DEFINE f == [p \in 0 .. 0 |-> Unfilled]
    <3>1. f = [p \in 0 .. 0 |-> step(f, p)]
      OBVIOUS
    <3> QED  BY <2>1, <2>2, <3>1
  <2>3. n \in Nat /\ n - 1 \in Nat /\ n - 1 \notin missing
    <3>1. n \in Nat /\ missing \subseteq Nat
      BY <2>1
    <3> HIDE DEF missing
    <3>2. n - 1 \in Nat /\ n # 0
      BY <2>2, <3>1
    <3> QED  BY <2>1, <3>1, <3>2
  <2>4. PICK f : Fills(f, n - 1)
    BY <2>3
  <2> DEFINE g == [p \in 0 .. n |-> IF p = n THEN step(f, n) ELSE f[p]]
  <2>5. ASSUME NEW p \in 0 .. n  PROVE g[p] = step(g, p)
    <3>1. CASE p = 0
      BY <2>2, <2>3, <2>4, <3>1
    <3>2. CASE p # 0
      <4>1. p - 1 \in 0 .. n - 1 /\ p - 1 # n /\ p - 1 \in 0 .. n
        BY <2>3, <3>2
      <4>2. g[p - 1] = f[p - 1]
        BY <4>1
      <4>3. g[p] = step(f, p)
        <5>1. CASE p = n
          BY <5>1
        <5>2. CASE p # n
          <6>1. p \in 0 .. n - 1
            BY <2>3, <5>2
          <6> QED  BY <2>4, <5>2, <6>1
        <5> QED  BY <5>1, <5>2
      <4> QED  BY <3>2, <4>2, <4>3
    <3> QED  BY <3>1, <3>2
  <2>6. g = [p \in 0 .. n |-> step(g, p)]
    <3> HIDE DEF step
    <3> QED  BY <2>5
  <2> QED  BY <2>1, <2>6
<1>2. PICK f : Fills(f, Len(document))
  BY <1>1
<1>3. Fills(Filled(document), Len(document))
  <2>1. Filled(document) = CHOOSE h : Fills(h, Len(document))
    BY DEF Filled, Unfilled
  <2> HIDE DEF Fills
  <2> QED  BY <1>2, <2>1
<1>4. ASSUME NEW p \in 0 .. Len(document)
      PROVE  Filled(document)[p] = step(Filled(document), p)
  BY <1>3
<1> QED  BY <1>4

\* A document half split: the chunks and the one being filled, none too long.
Splits == [chunks : Seq(Piece), current : Piece]

\* Some chunk, or the one being filled, carries the passage.
CarriedIn(split, passage) ==
    \/ Carries(split.current, passage)
    \/ \E k \in DOMAIN split.chunks : Carries(split.chunks[k], passage)

LEMMA EmptyCarriesNothing ==
    ASSUME NEW passage \in Seq(Positions), passage # <<>>
    PROVE  ~ Carries(<<>>, passage)
<1>1. Len(passage) \in Nat /\ Len(passage) > 0 /\ Len(<<>>) = 0
  BY EmptySeq, LenProperties
<1> QED  BY <1>1 DEF Carries

LEMMA FlushKeeps ==
    ASSUME NEW split \in Splits
    PROVE  /\ Flush(split) \in Seq(Piece)
           /\ \A passage \in Seq(Positions) : passage # <<>> /\ CarriedIn(split, passage) =>
                 \E k \in DOMAIN Flush(split) : Carries(Flush(split)[k], passage)
<1>1. split.chunks \in Seq(Piece) /\ split.current \in Piece
  BY DEF Splits
<1>2. CASE split.current = <<>>
  <2>1. Flush(split) = split.chunks
    BY <1>2 DEF Flush
  <2> QED  BY <1>1, <1>2, <2>1, EmptyCarriesNothing DEF CarriedIn
<1>3. CASE split.current # <<>>
  <2> DEFINE n == Len(split.chunks)
  <2>1. Flush(split) = Append(split.chunks, split.current)
    BY <1>3 DEF Flush
  <2>2. /\ Flush(split) \in Seq(Piece) /\ Len(Flush(split)) = n + 1 /\ n \in Nat
        /\ \A k \in 1 .. n : Flush(split)[k] = split.chunks[k]
        /\ Flush(split)[n + 1] = split.current
    BY <1>1, <2>1, AppendProperties, LenProperties
  <2>3. DOMAIN Flush(split) = 1 .. n + 1 /\ DOMAIN split.chunks = 1 .. n
    BY <1>1, <2>2, LenProperties
  <2> QED  BY <2>2, <2>3 DEF CarriedIn
<1> QED  BY <1>2, <1>3

\* The chunks before, and those put after them, go on carrying what they carry.
LEMMA ChunksAppended ==
    ASSUME NEW before \in Seq(Piece), NEW more \in Seq(Piece)
    PROVE  /\ before \o more \in Seq(Piece)
           /\ \A k \in DOMAIN before : \E m \in DOMAIN (before \o more) :
                 (before \o more)[m] = before[k]
           /\ \A k \in DOMAIN more : \E m \in DOMAIN (before \o more) :
                 (before \o more)[m] = more[k]
<1> DEFINE n == Len(before)
<1>1. /\ before \o more \in Seq(Piece) /\ n \in Nat /\ Len(more) \in Nat
      /\ DOMAIN (before \o more) = 1 .. n + Len(more)
      /\ DOMAIN before = 1 .. n /\ DOMAIN more = 1 .. Len(more)
      /\ \A i \in 1 .. n + Len(more) :
            (before \o more)[i] = IF i <= n THEN before[i] ELSE more[i - n]
  BY ConcatProperties, LenProperties
<1>2. ASSUME NEW k \in DOMAIN before
      PROVE  k \in DOMAIN (before \o more) /\ (before \o more)[k] = before[k]
  BY <1>1
<1>3. ASSUME NEW k \in DOMAIN more
      PROVE  n + k \in DOMAIN (before \o more) /\ (before \o more)[n + k] = more[k]
  <2>1. n + k \in 1 .. n + Len(more) /\ ~(n + k <= n) /\ n + k - n = k
    BY <1>1
  <2> QED  BY <1>1, <2>1
<1> QED  BY <1>1, <1>2, <1>3

LEMMA GapTyped == Gap \in Seq(Positions) /\ Len(Gap) = 2
BY DEF Gap, Positions

\* A text that is put after the chunk being filled is carried by it whole, and
\* so is what the chunk carried before.
LEMMA JoinedKeeps ==
    ASSUME NEW current \in Seq(Positions), NEW text \in Seq(Positions)
    PROVE  /\ Joined(current, text) \in Seq(Positions)
           /\ \A passage \in Seq(Positions) :
                 passage # <<>> /\ (Carries(current, passage) \/ Carries(text, passage))
                 => Carries(Joined(current, text), passage)
<1>1. CASE current = <<>>
  BY <1>1, EmptyCarriesNothing DEF Joined
<1>2. CASE current # <<>>
  <2>1. Joined(current, text) = current \o Gap \o text
    BY <1>2 DEF Joined
  <2>2. current \o Gap \in Seq(Positions) /\ current \o Gap \o text \in Seq(Positions)
    BY GapTyped, ConcatProperties
  <2> QED  BY <2>1, <2>2, GapTyped, CarriedOn
<1> QED  BY <1>1, <1>2

\* One paragraph: nothing is lost that was there, the paragraph is in, and no
\* chunk gets too long.
LEMMA PlaceKeeps ==
    ASSUME NEW split \in Splits, NEW text \in Seq(Positions)
    PROVE  /\ Place(split, text) \in Splits
           /\ \A passage \in Seq(Positions) : passage # <<>> /\ CarriedIn(split, passage) =>
                 CarriedIn(Place(split, text), passage)
           /\ \A passage \in Passages(text) : CarriedIn(Place(split, text), passage)
<1>1. split.chunks \in Seq(Piece) /\ split.current \in Piece /\ split.current \in Seq(Positions)
  BY DEF Splits, Piece
<1>2. Flush(split) \in Seq(Piece) /\ <<>> \in Piece
  BY FlushKeeps, EmptySeq, Limits DEF Piece
<1>3. \A passage \in Passages(text) :
          passage \in Seq(Positions) /\ passage # <<>> /\ Carries(text, passage)
  <2> SUFFICES ASSUME NEW passage \in Passages(text)
               PROVE  passage \in Seq(Positions) /\ passage # <<>> /\ Carries(text, passage)
    OBVIOUS
  <2>1. PICK i \in 1 .. Len(text) : \E j \in i .. Len(text) : passage = SubSeq(text, i, j)
    BY PassageIs
  <2>2. PICK j \in i .. Len(text) : passage = SubSeq(text, i, j)
    BY <2>1
  <2> QED  BY <2>2, PassageIs, StretchCarried
<1>4. CASE Len(text) > MaxChars
  <2> DEFINE after == [chunks |-> Flush(split) \o HardSplit(text), current |-> <<>>]
  <2>1. Place(split, text) = after
    BY <1>4 DEF Place
  <2>2. after.chunks = Flush(split) \o HardSplit(text) /\ after.current = <<>>
    OBVIOUS
  <2>3. HardSplit(text) \in Seq(Piece)
    BY <1>4, HardSplitKeeps
  <2>4. after.chunks \in Seq(Piece)
    BY <1>2, <2>2, <2>3, ChunksAppended
  <2>5. after \in Splits
    BY <1>2, <2>2, <2>4 DEF Splits
  <2> HIDE DEF after
  <2>6. ASSUME NEW passage \in Seq(Positions), passage # <<>>, CarriedIn(split, passage)
        PROVE  CarriedIn(after, passage)
    <3>1. PICK k \in DOMAIN Flush(split) : Carries(Flush(split)[k], passage)
      BY <2>6, FlushKeeps
    <3>2. PICK m \in DOMAIN after.chunks : after.chunks[m] = Flush(split)[k]
      BY <1>2, <2>2, <2>3, ChunksAppended
    <3> QED  BY <3>1, <3>2 DEF CarriedIn
  <2>7. ASSUME NEW passage \in Passages(text)
        PROVE  CarriedIn(after, passage)
    <3>1. PICK k \in DOMAIN HardSplit(text) : Carries(HardSplit(text)[k], passage)
      BY <1>4, HardSplitKeeps
    <3>2. PICK m \in DOMAIN after.chunks : after.chunks[m] = HardSplit(text)[k]
      BY <1>2, <2>2, <2>3, ChunksAppended
    <3> QED  BY <3>1, <3>2 DEF CarriedIn
  <2> QED  BY <2>1, <2>5, <2>6, <2>7
<1>5. CASE ~(Len(text) > MaxChars) /\ Fits(Joined(split.current, text))
  <2> DEFINE joined == Joined(split.current, text)
             after == [split EXCEPT !.current = joined]
  <2>1. Place(split, text) = after
    BY <1>5 DEF Place
  <2>2. joined \in Seq(Positions)
    BY <1>1, JoinedKeeps
  <2>3. joined \in Piece
    BY <1>5, <2>2, LenProperties, Limits DEF Piece, Fits
  <2> HIDE DEF joined
  <2>4. after.chunks = split.chunks /\ after.current = joined /\ after \in Splits
    BY <1>1, <2>3 DEF Splits
  <2> HIDE DEF after
  <2>5. ASSUME NEW passage \in Seq(Positions), passage # <<>>, CarriedIn(split, passage)
        PROVE  CarriedIn(after, passage)
    BY <1>1, <2>4, <2>5, JoinedKeeps DEF CarriedIn, joined
  <2>6. ASSUME NEW passage \in Passages(text)
        PROVE  CarriedIn(after, passage)
    BY <1>1, <1>3, <2>4, JoinedKeeps DEF CarriedIn, joined
  <2> QED  BY <2>1, <2>4, <2>5, <2>6
<1>6. CASE ~(Len(text) > MaxChars) /\ ~Fits(Joined(split.current, text))
  <2> DEFINE after == [chunks |-> Flush(split), current |-> text]
  <2>1. Place(split, text) = after
    BY <1>6 DEF Place
  <2>2. text \in Piece
    BY <1>6, LenProperties, Limits DEF Piece
  <2>3. after.chunks = Flush(split) /\ after.current = text /\ after \in Splits
    BY <1>2, <2>2 DEF Splits
  <2> HIDE DEF after
  <2>4. ASSUME NEW passage \in Seq(Positions), passage # <<>>, CarriedIn(split, passage)
        PROVE  CarriedIn(after, passage)
    BY <2>3, <2>4, FlushKeeps DEF CarriedIn
  <2>5. ASSUME NEW passage \in Passages(text)
        PROVE  CarriedIn(after, passage)
    BY <1>3, <2>3 DEF CarriedIn
  <2> QED  BY <2>1, <2>3, <2>4, <2>5
<1> QED  BY <1>4, <1>5, <1>6

LEMMA ParagraphTyped ==
    ASSUME NEW document \in Seq(Nat), NEW p \in 1 .. Len(document)
    PROVE  Paragraph(document, p) \in Seq(Positions) /\ Len(Paragraph(document, p)) = document[p]
<1>1. document[p] \in Nat /\ p \in Nat
  BY ElementOfSeq, LenProperties
<1>2. PICK n \in Nat : n = document[p]
  BY <1>1
<1>3. Paragraph(document, p) = [k \in 1 .. n |-> <<p, k>>]
  BY <1>2 DEF Paragraph
<1>4. \A k \in 1 .. n : <<p, k>> \in Positions
  BY <1>1 DEF Positions
<1> DEFINE text == [k \in 1 .. n |-> <<p, k>>]
<1>5. text \in [1 .. n -> Positions] /\ DOMAIN text = 1 .. n
  BY <1>4
<1> HIDE DEF text
<1>6. text \in Seq(Positions)
  BY <1>5, SeqDef
<1>7. Len(text) = n
  BY <1>5, <1>6, LenProperties
<1> QED  BY <1>2, <1>3, <1>6, <1>7 DEF text

LEMMA FilledKeeps ==
    ASSUME NEW document \in Seq(Nat), NEW n \in 0 .. Len(document)
    PROVE  /\ Filled(document)[n] \in Splits
           /\ \A p \in 1 .. n : \A passage \in Passages(Paragraph(document, p)) :
                 CarriedIn(Filled(document)[n], passage)
<1> DEFINE Kept(m) == /\ Filled(document)[m] \in Splits
                      /\ \A p \in 1 .. m : \A passage \in Passages(Paragraph(document, p)) :
                            CarriedIn(Filled(document)[m], passage)
           lost == {m \in 0 .. Len(document) : ~ Kept(m)}
<1>1. /\ Filled(document)[0] = Unfilled
      /\ \A p \in 1 .. Len(document) :
            Filled(document)[p] = Take(Filled(document)[p - 1], document, p)
  BY FilledStepwise, LenProperties
<1> SUFFICES ASSUME lost # {} PROVE FALSE
  OBVIOUS
<1>2. PICK m \in lost : \A l \in lost : m <= l
  <2>1. lost \subseteq Nat
    BY LenProperties
  <2> QED  BY <2>1, LeastNumber
<1>3. m # 0
  <2>1. Unfilled \in Splits
    BY EmptySeq, Limits DEF Unfilled, Splits, Piece
  <2> QED  BY <1>1, <1>2, <2>1
<1>4. m \in 1 .. Len(document) /\ m - 1 \in 0 .. Len(document) /\ Kept(m - 1)
  <2>1. m \in 1 .. Len(document) /\ m - 1 \in 0 .. Len(document) /\ m - 1 \notin lost
    BY <1>2, <1>3, LenProperties
  <2> QED  BY <2>1
<1> DEFINE split == Filled(document)[m - 1]
           text == Paragraph(document, m)
<1>5. Filled(document)[m] = Take(split, document, m) /\ split \in Splits
  BY <1>1, <1>4
<1>6. text \in Seq(Positions) /\ Len(text) = document[m]
  BY <1>4, ParagraphTyped
<1>7. \A p \in 1 .. m - 1 : \A passage \in Passages(Paragraph(document, p)) :
          passage \in Seq(Positions) /\ passage # <<>> /\ CarriedIn(split, passage)
  <2> SUFFICES ASSUME NEW p \in 1 .. m - 1, NEW passage \in Passages(Paragraph(document, p))
               PROVE  passage \in Seq(Positions) /\ passage # <<>> /\ CarriedIn(split, passage)
    OBVIOUS
  <2>1. p \in 1 .. Len(document)
    BY <1>4, LenProperties
  <2>2. Paragraph(document, p) \in Seq(Positions)
    BY <2>1, ParagraphTyped
  <2>3. passage \in Seq(Positions) /\ passage # <<>>
    BY <2>2, PassageIs
  <2> QED  BY <1>4, <2>3
<1>8. \A p \in 1 .. m : p = m \/ p \in 1 .. m - 1
  BY <1>4
<1> HIDE DEF split, text
<1>9. CASE document[m] = 0
  <2>1. Passages(text) = {}
    BY <1>6, <1>9 DEF Passages
  <2>2. Filled(document)[m] = split
    BY <1>5, <1>9 DEF Take
  <2> QED  BY <1>2, <1>5, <1>7, <1>8, <2>1, <2>2 DEF text
<1>10. CASE document[m] # 0
  <2>1. Filled(document)[m] = Place(split, text)
    BY <1>5, <1>10 DEF Take, text
  <2>2. \A passage \in Passages(text) : CarriedIn(Place(split, text), passage)
    BY <1>5, <1>6, PlaceKeeps
  <2>3. Place(split, text) \in Splits
    BY <1>5, <1>6, PlaceKeeps
  <2>4. \A passage \in Seq(Positions) : passage # <<>> /\ CarriedIn(split, passage) =>
            CarriedIn(Place(split, text), passage)
    BY <1>5, <1>6, PlaceKeeps
  <2> QED  BY <1>2, <1>7, <1>8, <2>1, <2>2, <2>3, <2>4 DEF text
<1> QED  BY <1>9, <1>10

\* chunkDocument: every passage of a document that is short enough is in one
\* piece in some chunk, and a chunk is at most the overlap and a blank line
\* longer than the ceiling.
LEMMA ChunkDocumentKeeps ==
    ASSUME NEW document \in Seq(Nat)
    PROVE  /\ Len(ChunkDocument(document)) \in Nat
           /\ DOMAIN ChunkDocument(document) = 1 .. Len(ChunkDocument(document))
           /\ \A k \in DOMAIN ChunkDocument(document) :
                 Len(ChunkDocument(document)[k]) <= MaxChars + OverlapChars + Len(Gap)
           /\ \A passage \in PassagesOf(document) : \E k \in DOMAIN ChunkDocument(document) :
                 Carries(ChunkDocument(document)[k], passage)
<1> DEFINE pieces == Split(document)
           prefix(k) == TailOf(pieces[k - 1]) \o Gap
           chunk(k) == IF k = 1 THEN pieces[k] ELSE prefix(k) \o pieces[k]
<1>1. Len(document) \in 0 .. Len(document) /\ DOMAIN document = 1 .. Len(document)
  BY LenProperties
<1>2. Filled(document)[Len(document)] \in Splits
  BY <1>1, FilledKeeps
<1>3. pieces \in Seq(Piece)
  BY <1>2, FlushKeeps DEF Split
<1>4. ASSUME NEW passage \in PassagesOf(document)
      PROVE  /\ passage \in Seq(Positions) /\ passage # <<>>
             /\ \E k \in DOMAIN pieces : Carries(pieces[k], passage)
  <2>1. PICK p \in 1 .. Len(document) : passage \in Passages(Paragraph(document, p))
    BY <1>1, <1>4 DEF PassagesOf
  <2>2. passage \in Seq(Positions) /\ passage # <<>>
    BY <2>1, ParagraphTyped, PassageIs
  <2>3. CarriedIn(Filled(document)[Len(document)], passage)
    BY <1>1, <2>1, FilledKeeps
  <2> QED  BY <1>2, <2>2, <2>3, FlushKeeps DEF Split
<1> HIDE DEF pieces
<1>5. ChunkDocument(document) = [k \in DOMAIN pieces |-> chunk(k)]
  BY DEF ChunkDocument, pieces
<1>6. /\ DOMAIN pieces = 1 .. Len(pieces) /\ Len(pieces) \in Nat
      /\ \A k \in 1 .. Len(pieces) : pieces[k] \in Seq(Positions) /\ Len(pieces[k]) <= MaxChars
  BY <1>3, LenProperties, ElementOfSeq DEF Piece
<1>7. Len(ChunkDocument(document)) = Len(pieces)
  BY <1>5, <1>6
<1>8. ASSUME NEW text \in Seq(Positions)
      PROVE  TailOf(text) \in Seq(Positions) /\ Len(TailOf(text)) <= OverlapChars
  <2>1. CASE Len(text) <= OverlapChars
    BY <2>1 DEF TailOf
  <2>2. CASE ~(Len(text) <= OverlapChars)
    <3>1. /\ Len(text) - OverlapChars + 1 \in 1 .. Len(text)
          /\ Len(text) \in Len(text) - OverlapChars + 1 .. Len(text)
          /\ Len(text) - (Len(text) - OverlapChars + 1) + 1 = OverlapChars
      BY <2>2, LenProperties, Limits
    <3>2. /\ LastChars(text) \in Seq(Positions)
          /\ Len(LastChars(text)) = Len(text) - (Len(text) - OverlapChars + 1) + 1
      BY <3>1, StretchCarried DEF LastChars
    <3>3. TailOf(text) = LastChars(text)
      BY <2>2 DEF TailOf
    <3> QED  BY <3>1, <3>2, <3>3, Limits
  <2> QED  BY <2>1, <2>2
<1>9. ASSUME NEW k \in 2 .. Len(pieces)
      PROVE  /\ prefix(k) \in Seq(Positions) /\ prefix(k) \o pieces[k] \in Seq(Positions)
             /\ Len(prefix(k) \o pieces[k]) <= MaxChars + OverlapChars + Len(Gap)
  <2>1. k - 1 \in 1 .. Len(pieces) /\ k \in 1 .. Len(pieces)
    BY <1>6
  <2>2. TailOf(pieces[k - 1]) \in Seq(Positions) /\ Len(TailOf(pieces[k - 1])) <= OverlapChars
    BY <1>6, <1>8, <2>1
  <2>3. /\ prefix(k) \in Seq(Positions)
        /\ Len(prefix(k)) = Len(TailOf(pieces[k - 1])) + Len(Gap)
    BY <2>2, GapTyped, ConcatProperties
  <2>4. /\ prefix(k) \o pieces[k] \in Seq(Positions)
        /\ Len(prefix(k) \o pieces[k]) = Len(prefix(k)) + Len(pieces[k])
    BY <1>6, <2>1, <2>3, ConcatProperties
  <2>5. Len(pieces[k]) <= MaxChars /\ Len(pieces[k]) \in Nat /\ Len(TailOf(pieces[k - 1])) \in Nat
    BY <1>6, <2>1, <2>2, LenProperties
  <2> HIDE DEF prefix
  <2> DEFINE tail == Len(TailOf(pieces[k - 1]))
             own == Len(pieces[k])
             all == Len(prefix(k) \o pieces[k])
  <2>6. tail \in Nat /\ tail <= OverlapChars /\ own \in Nat /\ own <= MaxChars
    BY <2>2, <2>5
  <2>7. all = tail + 2 + own
    BY <2>3, <2>4, GapTyped
  <2> HIDE DEF tail, own
  <2>8. all <= MaxChars + OverlapChars + Len(Gap)
    BY <2>6, <2>7, GapTyped, Limits
  <2> QED  BY <2>3, <2>4, <2>8
<1> HIDE DEF prefix
<1>10. ASSUME NEW k \in DOMAIN pieces
       PROVE  /\ Len(chunk(k)) <= MaxChars + OverlapChars + Len(Gap)
              /\ \A passage \in Seq(Positions) : passage # <<>> /\ Carries(pieces[k], passage)
                    => Carries(chunk(k), passage)
  <2>1. CASE k = 1
    BY <1>6, <2>1, LenProperties, GapTyped, Limits
  <2>2. CASE k # 1
    <3>1. k \in 2 .. Len(pieces) /\ pieces[k] \in Seq(Positions)
      BY <1>6, <2>2
    <3>2. \A passage \in Seq(Positions) : passage # <<>> /\ Carries(pieces[k], passage)
              => Carries(prefix(k) \o pieces[k], passage)
      BY <1>9, <3>1, CarriedOn
    <3> QED  BY <1>9, <2>2, <3>1, <3>2
  <2> QED  BY <2>1, <2>2
<1> HIDE DEF chunk
<1> QED  BY <1>4, <1>5, <1>6, <1>7, <1>10

\* Texts there is a submission of, and chunks of nothing else.
TextsInv ==
    /\ \A u \in DOMAIN content : u \in Uploads /\ content[u] \in Documents
    /\ \A u \in Uploads : uploads[u].pc # "new" => u \in DOMAIN content
    /\ \A u \in DOMAIN content : uploads[u].next <= Len(Texts(u))

LEMMA TextsKnown ==
    ASSUME TextsInv, NEW u \in DOMAIN content
    PROVE  /\ Len(Texts(u)) \in Nat /\ DOMAIN Texts(u) = 1 .. Len(Texts(u))
           /\ \A k \in DOMAIN Texts(u) :
                 Len(Texts(u)[k]) <= MaxChars + OverlapChars + Len(Gap)
           /\ \A passage \in PassagesOf(content[u]) : \E k \in DOMAIN Texts(u) :
                 Carries(Texts(u)[k], passage)
<1>1. content[u] \in Documents /\ content[u] \in Seq(Nat)
  BY ChunkingAssumption DEF TextsInv
<1>2. Texts(u) = ChunkDocument(content[u])
  BY <1>1 DEF Texts, Chunked
<1> QED
  BY <1>1, <1>2, ChunkDocumentKeeps

LEMMA TextsStart ==
    ASSUME NEW submitted \in SUBSET Uploads, NEW pages \in SUBSET Documents,
           KnowledgeInit(submitted, pages)
    PROVE  TextsInv
<1>1. /\ content \in [submitted -> pages]
      /\ \A u \in Uploads : uploads[u].pc = "new" /\ uploads[u].next = 0
  BY DEF KnowledgeInit
<1>2. ASSUME NEW u \in DOMAIN content  PROVE Len(Texts(u)) \in Nat
  <2>1. content[u] \in Documents /\ content[u] \in Seq(Nat)
    BY <1>1, <1>2, ChunkingAssumption
  <2>2. Texts(u) = ChunkDocument(content[u])
    BY <2>1 DEF Texts, Chunked
  <2> QED  BY <2>1, <2>2, ChunkDocumentKeeps
<1>3. \A u \in DOMAIN content : u \in Uploads /\ content[u] \in Documents
  BY <1>1
<1> QED
  BY <1>1, <1>2, <1>3 DEF TextsInv

LEMMA PagesKeepTexts ==
    ASSUME TextsInv, KnowledgeTypeOK, NEW u \in Uploads, UploadSteps(u) \/ DeleteDocument(u)
    PROVE  TextsInv'
<1>1. DOMAIN uploads = Uploads /\ uploads[u].next \in Nat
  BY DEF KnowledgeTypeOK, UploadOf
<1>2. content' = content /\ \A v : Texts(v)' = Texts(v)
  BY DEF UploadSteps, SubmitDocument, FindProvider, EmbedChunks, CreateDocument, InsertChunk,
         BreakOff, ReportAdded, DeleteDocument, NothingStored, Texts
<1>3. ASSUME NEW pc, UploadGoes(u, pc)
      PROVE  /\ \A v \in Uploads \ {u} : uploads'[v] = uploads[v]
             /\ uploads'[u].next = uploads[u].next
  <2> DEFINE upload == [uploads[u] EXCEPT !.pc = pc]
  <2>1. uploads' = [uploads EXCEPT ![u] = upload]
    BY <1>3 DEF UploadGoes
  <2>2. upload.next = uploads[u].next
    BY DEF KnowledgeTypeOK, UploadOf
  <2> HIDE DEF upload
  <2> QED  BY <1>1, <2>1, <2>2
<1>4. CASE SubmitDocument(u)
  <2>1. u \in DOMAIN content
    BY <1>4 DEF SubmitDocument
  <2>2. PICK pc : UploadGoes(u, pc)
    BY <1>4 DEF SubmitDocument
  <2> QED  BY <1>2, <1>3, <2>1, <2>2 DEF TextsInv
<1>5. CASE FindProvider(u) \/ EmbedChunks(u) \/ CreateDocument(u) \/ BreakOff(u) \/ ReportAdded(u)
  <2>1. uploads[u].pc # "new"
    BY <1>5 DEF FindProvider, EmbedChunks, CreateDocument, BreakOff, ReportAdded
  <2>2. PICK pc : UploadGoes(u, pc)
    BY <1>5 DEF FindProvider, EmbedChunks, CreateDocument, BreakOff, ReportAdded
  <2> QED  BY <1>2, <1>3, <2>1, <2>2 DEF TextsInv
<1>6. CASE InsertChunk(u)
  <2> DEFINE upload == [uploads[u] EXCEPT !.next = uploads[u].next + 1]
  <2>1. /\ uploads[u].pc = "insert" /\ uploads[u].next < Len(Texts(u))
        /\ uploads' = [uploads EXCEPT ![u] = upload]
    BY <1>6 DEF InsertChunk
  <2>2. upload.next = uploads[u].next + 1
    BY DEF KnowledgeTypeOK, UploadOf
  <2> HIDE DEF upload
  <2>3. /\ uploads'[u].next = uploads[u].next + 1
        /\ \A v \in Uploads \ {u} : uploads'[v] = uploads[v]
    BY <1>1, <2>1, <2>2
  <2>4. u \in DOMAIN content
    BY <2>1 DEF TextsInv
  <2>5. uploads'[u].next <= Len(Texts(u))
    BY <1>1, <2>1, <2>3, <2>4, TextsKnown
  <2> QED  BY <1>2, <2>3, <2>4, <2>5 DEF TextsInv
<1>7. CASE DeleteDocument(u)
  BY <1>2, <1>7 DEF DeleteDocument, TextsInv
<1> QED
  BY <1>4, <1>5, <1>6, <1>7 DEF UploadSteps

LEMMA TextsStill == TextsInv /\ UNCHANGED knowledgeVars => TextsInv'
BY DEF TextsInv, knowledgeVars, Texts

-----------------------------------------------------------------------------
(* Runs, and how an action moves one.                                       *)

Pcs == {"new", "step", "embed", "search", "extract", "customer",
        "product", "fields", "draft", "propose", "over"}
Statuses == {"NONE", "RUNNING", "COMPLETED", "FAILED", "WAITING_FOR_APPROVAL"}
Whys == {"", "pipeline", "model", "lookup", "compute", "retrieve", "guardrail",
         "price", "address", "action"}

Shape(q) ==
    /\ DOMAIN q = {"pc", "todo", "store", "lists", "asked", "status", "why"}
    /\ q.pc \in Pcs
    /\ q.status \in Statuses
    /\ q.why \in Whys

\* The run of j, alone, is here with this much to do and this in its variables.
Moved(j, pc, todo, store) ==
    /\ DOMAIN runs' = Jobs /\ \A i \in Jobs \ {j} : runs'[i] = runs[i]
    /\ Shape(runs'[j])
    /\ runs'[j].pc = pc /\ runs'[j].todo = todo /\ runs'[j].store = store

LEMMA BecomesMoves ==
    ASSUME DOMAIN runs = Jobs, NEW j \in Jobs, NEW run, Shape(run), Becomes(j, run)
    PROVE  Moved(j, run.pc, run.todo, run.store)
BY DEF Becomes, Moved

LEMMA SettlesMoves ==
    ASSUME DOMAIN runs = Jobs, NEW j \in Jobs, Shape(runs[j]), NEW status, NEW why,
           status \in Statuses,
           why \in Whys,
           Settles(j, status, why)
    PROVE  Moved(j, "over", <<>>, runs[j].store)
<1> DEFINE run == [runs[j] EXCEPT !.pc = "over", !.status = status, !.why = why, !.todo = <<>>]
<1>1. Shape(run) /\ run.pc = "over" /\ run.todo = <<>> /\ run.store = runs[j].store
  BY DEF Shape, Pcs
<1>2. Becomes(j, run)
  BY DEF Settles
<1> HIDE DEF run
<1> QED  BY <1>1, <1>2, BecomesMoves

LEMMA FailsMoves ==
    ASSUME DOMAIN runs = Jobs, NEW j \in Jobs, Shape(runs[j]), NEW why,
           why \in Whys,
           Fails(j, why)
    PROVE  Moved(j, "over", <<>>, runs[j].store)
<1>1. Settles(j, "FAILED", why)
  BY DEF Fails
<1>2. "FAILED" \in Statuses
  BY DEF Statuses
<1> QED  BY <1>1, <1>2, SettlesMoves

LEMMA GoesMoves ==
    ASSUME DOMAIN runs = Jobs, NEW j \in Jobs, Shape(runs[j]), NEW pc,
           pc \in Pcs, Goes(j, pc)
    PROVE  Moved(j, pc, runs[j].todo, runs[j].store)
<1> DEFINE run == [runs[j] EXCEPT !.pc = pc]
<1>1. Shape(run) /\ run.pc = pc /\ run.todo = runs[j].todo /\ run.store = runs[j].store
  BY DEF Shape
<1>2. Becomes(j, run)
  BY DEF Goes
<1> HIDE DEF run
<1> QED  BY <1>1, <1>2, BecomesMoves

LEMMA StoresMoves ==
    ASSUME DOMAIN runs = Jobs, NEW j \in Jobs, Shape(runs[j]), NEW values, Stores(j, values)
    PROVE  Moved(j, "step", Tail(runs[j].todo), With(runs[j].store, values))
<1> DEFINE w == With(runs[j].store, values)
           run == [runs[j] EXCEPT !.pc = "step", !.todo = Tail(@), !.store = With(@, values),
                                  !.lists = <<NoLists, NoLists>>, !.asked = {}]
<1>1. Becomes(j, run)
  BY DEF Stores
<1>2. "store" \in DOMAIN runs[j]
  BY DEF Shape
<1>3. run = [runs[j] EXCEPT !.pc = "step", !.todo = Tail(runs[j].todo), !.store = w,
                            !.lists = <<NoLists, NoLists>>, !.asked = {}]
  OBVIOUS
<1> HIDE DEF run, w
<1>4. Shape(run) /\ run.pc = "step" /\ run.todo = Tail(runs[j].todo) /\ run.store = w
  BY <1>3 DEF Shape, Pcs
<1> QED  BY <1>1, <1>4, BecomesMoves DEF w

LEMMA ReadsMoves ==
    ASSUME DOMAIN runs = Jobs, NEW j \in Jobs, Shape(runs[j]), NEW pc, NEW values,
           pc \in Pcs, Reads(j, pc, values)
    PROVE  Moved(j, pc, runs[j].todo, With(runs[j].store, values))
<1> DEFINE w == With(runs[j].store, values)
           run == [runs[j] EXCEPT !.pc = pc, !.store = With(@, values)]
<1>1. Becomes(j, run)
  BY DEF Reads
<1>2. run = [runs[j] EXCEPT !.pc = pc, !.store = w]
  OBVIOUS
<1> HIDE DEF run, w
<1>3. Shape(run) /\ run.pc = pc /\ run.todo = runs[j].todo /\ run.store = w
  BY <1>2 DEF Shape
<1> QED  BY <1>1, <1>3, BecomesMoves DEF w

LEMMA FetchMoves ==
    ASSUME DOMAIN runs = Jobs, NEW j \in Jobs, Shape(runs[j]), NEW side, NEW list,
           Fetch(j, side, list)
    PROVE  Moved(j, runs[j].pc, runs[j].todo, runs[j].store)
<1> DEFINE lists == [runs[j].lists EXCEPT ![side] = list]
           asked == runs[j].asked \cup {side}
           run == [runs[j] EXCEPT !.lists[side] = list, !.asked = @ \cup {side}]
<1>1. Becomes(j, run)
  BY DEF Fetch
<1>2. run = [runs[j] EXCEPT !.lists = lists, !.asked = asked]
  OBVIOUS
<1> HIDE DEF run, lists, asked
<1>3. /\ Shape(run) /\ run.pc = runs[j].pc /\ run.todo = runs[j].todo
      /\ run.store = runs[j].store
  BY <1>2 DEF Shape
<1> QED  BY <1>1, <1>3, BecomesMoves

-----------------------------------------------------------------------------
(* What a run of each kind of agent is and has done.                        *)

\* A run that has acted is over, has acted once, and with a tool it was granted.
ActFits(j) ==
    acts[j] # <<>> =>
        /\ runs[j].pc = "over"
        /\ Len(acts[j]) = 1 /\ acts[j] = <<acts[j][1]>>
        /\ acts[j][1].tool \in Granted[j]

\* Once there is an address it is the sender's, and no fact is stored over it;
\* a text that is to be proposed says nothing forbidden, the quote's aside.
ReplyFits(j) ==
    /\ runs[j].pc \notin {"step", "embed", "search"}
    /\ runs[j].pc = "fields" => runs[j].todo \in Seq(Range(Fields[j]))
    /\ runs[j].pc \in {"customer", "product", "fields", "draft", "propose"}
          /\ ~Is("none", Sender[j]) =>
             /\ "email" \in DOMAIN runs[j].store
             /\ runs[j].store["email"] = Sender[j]
    /\ runs[j].pc = "propose" /\ ~IsQuote(j) =>
          /\ runs[j].store["body"] \in Drafts
          /\ ~Says(runs[j].store["body"].text, NeverSay[j])
    /\ acts[j] # <<>> =>
          /\ ~Is("none", Sender[j]) => acts[j][1].args["to"] = Sender[j]
          /\ ~IsQuote(j) => /\ acts[j][1].args["body"] \in Drafts
                            /\ ~Says(acts[j][1].args["body"].text, NeverSay[j])

StepsOf(j) == {Programme[j][k] : k \in DOMAIN Programme[j]} \cup Leaves(Programme[j])

RequiredPresent(j) ==
    \A step \in Leaves(Programme[j]) :
        step.kind = "lookup" /\ step.required /\ step.as \in DOMAIN runs[j].store
        => IsPresent(runs[j].store[step.as])

\* The branches on `exists` with an act with this tool in their first arm.
ArmOf(j, tool) ==
    {k \in DOMAIN Programme[j] :
        /\ Programme[j][k].kind = "branch" /\ Programme[j][k].when.operator = "exists"
        /\ \E i \in DOMAIN Programme[j][k].then :
              Programme[j][k].then[i].kind = "act" /\ Programme[j][k].then[i].tool = tool}

IsThere(j, k) ==
    Resolve(Programme[j][k].when.left, runs[j].store) \notin {Nothing, Empty, [list |-> <<>>]}

\* The act of such an arm is only ever next, right after its branch found the
\* value there.
ArmsReady(j) ==
    /\ \A m \in DOMAIN runs[j].todo : runs[j].todo[m].kind = "act" =>
          \A k \in ArmOf(j, runs[j].todo[m].tool) : m = 1 /\ IsThere(j, k)
    /\ acts[j] # <<>> => \A k \in ArmOf(j, acts[j][1].tool) : IsThere(j, k)

StepsFit(j) ==
    /\ runs[j].pc \in {"new", "step", "embed", "search", "over"}
    /\ runs[j].todo \in Seq(StepsOf(j))
    /\ runs[j].pc \in {"embed", "search"} =>
          runs[j].todo # <<>> /\ Head(runs[j].todo).kind = "retrieve"
    /\ Plain(Programme[j]) => RequiredPresent(j) /\ ArmsReady(j)

RunFits(j) ==
    /\ Shape(runs[j]) /\ ActFits(j)
    /\ Pipeline[j] = "steps" => StepsFit(j)
    /\ Pipeline[j] # "steps" => ReplyFits(j)

RunsInv ==
    /\ cast \in Casts
    /\ DOMAIN runs = Jobs /\ DOMAIN acts = Jobs
    /\ \A j \in Jobs : RunFits(j)

LEMMA RunsStart == Init => RunsInv
<1> SUFFICES ASSUME Init PROVE RunsInv
  OBVIOUS
<1>1. DOMAIN runs = Jobs /\ DOMAIN acts = Jobs /\ cast \in Casts
  BY DEF Init
<1>2. ASSUME NEW j \in Jobs  PROVE RunFits(j)
  <2>1. runs[j] = NewRun /\ acts[j] = <<>>
    BY DEF Init
  <2> DEFINE nothing == [n \in {} |-> Nothing]
             lists == <<NoLists, NoLists>>
  <2>2. DOMAIN nothing = {}
    OBVIOUS
  <2>3. NewRun = [pc |-> "new", todo |-> <<>>, store |-> nothing, lists |-> lists,
                  asked |-> {}, status |-> "NONE", why |-> ""]
    BY Zenon DEF NewRun
  <2> HIDE DEF nothing, lists
  <2>5. runs[j].pc = "new" /\ runs[j].todo = <<>> /\ runs[j].store = nothing /\ Shape(runs[j])
    <3>1. /\ NewRun.pc = "new" /\ NewRun.todo = <<>> /\ NewRun.store = nothing
          /\ NewRun.status = "NONE" /\ NewRun.why = ""
          /\ DOMAIN NewRun = {"pc", "todo", "store", "lists", "asked", "status", "why"}
      BY <2>3
    <3>2. "new" \in Pcs /\ "NONE" \in Statuses /\ "" \in Whys
      BY DEF Pcs, Statuses, Whys
    <3> QED  BY <2>1, <3>1, <3>2 DEF Shape
  <2>6. DOMAIN runs[j].store = {} /\ DOMAIN runs[j].todo = {}
    BY <2>2, <2>5
  <2>4. RequiredPresent(j) /\ ArmsReady(j)
    BY <2>1, <2>6 DEF RequiredPresent, ArmsReady
  <2> QED  BY <2>1, <2>4, <2>5 DEF RunFits, ActFits, StepsFit, ReplyFits
<1> QED
  BY <1>1, <1>2 DEF RunsInv

\* A run that does not move stays as it is.
LEMMA RunStays ==
    ASSUME NEW i, RunFits(i), runs'[i] = runs[i], acts'[i] = acts[i]
    PROVE  RunFits(i)'
BY DEF RunFits, ActFits, StepsFit, ReplyFits, RequiredPresent, ArmsReady, IsThere

\* Ending a run without acting.
LEMMA EndKeeps ==
    ASSUME NEW j \in Jobs, RunFits(j), acts[j] = <<>>, acts'[j] = <<>>,
           Moved(j, "over", <<>>, runs[j].store)
    PROVE  RunFits(j)'
<1>1. /\ runs'[j].pc = "over" /\ runs'[j].todo = <<>> /\ runs'[j].store = runs[j].store
      /\ Shape(runs'[j])
  BY DEF Moved
<1>2. DOMAIN runs'[j].todo = {} /\ runs'[j].todo \in Seq(StepsOf(j))
  BY <1>1
<1>3. StepsFit(j) => StepsFit(j)'
  BY <1>1, <1>2 DEF StepsFit, RequiredPresent, ArmsReady
<1>4. ReplyFits(j) => ReplyFits(j)'
  BY <1>1 DEF ReplyFits
<1> QED
  BY <1>1, <1>3, <1>4 DEF RunFits, ActFits

-----------------------------------------------------------------------------
(* Starting a run, and proposing its action.                                *)

LEMMA ProgrammesWellFormed ==
    ASSUME NEW j \in Jobs
    PROVE  /\ WellFormed(Programme[j])
           /\ Pipeline[j] # "steps" => Programme[j] = <<>>
           /\ IsSequence(Fields[j])
           /\ \A k \in DOMAIN Fields[j] : Fields[j][k].fact # "email"
<1>1. WellFormed(Programme[j])
  BY HarnessAssumption
<1>2. Pipeline[j] # "steps" => Programme[j] = <<>>
  BY HarnessAssumption
<1>3. IsSequence(Fields[j]) /\ \A k \in DOMAIN Fields[j] : Fields[j][k].fact # "email"
  BY HarnessAssumption
<1> QED  BY <1>1, <1>2, <1>3

\* In a plain programme, the act of an arm on `exists` is nowhere else.
LEMMA PlainArms ==
    ASSUME NEW j \in Jobs, Plain(Programme[j]), NEW tool, NEW k \in ArmOf(j, tool),
           NEW m \in DOMAIN Programme[j]
    PROVE  /\ ~(Programme[j][m].kind = "act" /\ Programme[j][m].tool = tool)
           /\ Programme[j][m].kind = "branch" =>
                 /\ \A n \in DOMAIN Programme[j][m].then :
                       Programme[j][m].then[n].kind = "act"
                          /\ Programme[j][m].then[n].tool = tool => m = k /\ n = 1
                 /\ \A n \in DOMAIN Programme[j][m].otherwise :
                       ~(Programme[j][m].otherwise[n].kind = "act"
                          /\ Programme[j][m].otherwise[n].tool = tool)
<1>1. PICK i \in DOMAIN Programme[j][k].then :
          Programme[j][k].then[i].kind = "act" /\ Programme[j][k].then[i].tool = tool
  BY DEF ArmOf
<1>2. /\ k \in DOMAIN Programme[j] /\ Programme[j][k].kind = "branch"
      /\ Programme[j][k].when.operator = "exists"
  BY DEF ArmOf
<1> QED  BY <1>1, <1>2 DEF Plain

LEMMA StartKeeps ==
    ASSUME RunsInv, NEW j \in cast.jobs, j \in Jobs, StartRun(j)
    PROVE  RunFits(j)' /\ DOMAIN runs' = Jobs /\ \A i \in Jobs \ {j} : runs'[i] = runs[i]
<1>1. /\ DOMAIN runs = Jobs /\ RunFits(j) /\ Shape(runs[j]) /\ runs[j].pc = "new"
      /\ acts' = acts /\ acts[j] = <<>>
  BY DEF RunsInv, RunFits, ActFits, StartRun, At, NoAct
<1> DEFINE run == [runs[j] EXCEPT
               !.status = "RUNNING", !.todo = Programme[j], !.store = Known(j),
               !.pc = IF Pipeline[j] = "steps" THEN "step" ELSE "extract"]
<1>2. CASE \E status \in {"NONE", "FAILED"}, why \in {"", "pipeline"} : Settles(j, status, why)
  <2>1. PICK status \in Statuses, why \in Whys : Settles(j, status, why)
    BY <1>2 DEF Statuses, Whys
  <2>2. Moved(j, "over", <<>>, runs[j].store)
    BY <1>1, <2>1, SettlesMoves
  <2> QED  BY <1>1, <2>2, EndKeeps DEF Moved
<1>3. CASE Becomes(j, run)
  <2>1. /\ Shape(run) /\ run.todo = Programme[j] /\ run.store = Known(j)
        /\ run.pc = IF Pipeline[j] = "steps" THEN "step" ELSE "extract"
    BY <1>1 DEF Shape, Pcs, Statuses
  <2> HIDE DEF run
  <2>2. Moved(j, run.pc, run.todo, run.store)
    BY <1>1, <1>3, <2>1, BecomesMoves
  <2>3. /\ runs'[j].todo = Programme[j] /\ runs'[j].store = Known(j) /\ Shape(runs'[j])
        /\ runs'[j].pc = IF Pipeline[j] = "steps" THEN "step" ELSE "extract"
    BY <2>1, <2>2 DEF Moved
  <2>4. ASSUME Pipeline[j] = "steps"  PROVE StepsFit(j)'
    <3>1. Programme[j] \in Seq(StepsOf(j))
      <4>1. Programme[j] \in Seq(Range(Programme[j]))
        BY ProgrammesWellFormed DEF WellFormed, IsSequence
      <4>2. Range(Programme[j]) \subseteq StepsOf(j)
        BY DEF StepsOf, Range
      <4> QED  BY <4>1, <4>2
    <3>2. ASSUME Plain(Programme[j])  PROVE RequiredPresent(j)'
      <4>1. DOMAIN Known(j) = {"input", "senderEmail", "organisationName"}
        BY DEF Known
      <4> QED  BY <2>3, <3>2, <4>1 DEF RequiredPresent, Plain
    <3>3. ASSUME Plain(Programme[j])  PROVE ArmsReady(j)'
      BY <1>1, <2>3, <3>3, PlainArms DEF ArmsReady
    <3> QED  BY <2>3, <2>4, <3>1, <3>2, <3>3 DEF StepsFit
  <2>5. ASSUME Pipeline[j] # "steps"  PROVE ReplyFits(j)'
    BY <1>1, <2>3, <2>5 DEF ReplyFits
  <2> QED  BY <1>1, <2>2, <2>3, <2>4, <2>5 DEF RunFits, ActFits, Moved
<1> QED
  BY <1>2, <1>3 DEF StartRun, Fails

\* Proposing: the run is over, with the action as its only one or without any.
LEMMA ProposeMoves ==
    ASSUME RunsInv, NEW j \in Jobs, NEW tool, NEW args, Propose(j, tool, args),
           acts[j] = <<>>
    PROVE  /\ Moved(j, "over", <<>>, runs[j].store)
           /\ DOMAIN acts' = Jobs /\ \A i \in Jobs \ {j} : acts'[i] = acts[i]
           /\ \/ acts'[j] = <<>>
              \/ acts'[j] = <<[tool |-> tool, args |-> args]>> /\ tool \in Granted[j]
<1> DEFINE act == [tool |-> tool, args |-> args]
           more == [acts EXCEPT ![j] = Append(@, act)]
<1>1. DOMAIN runs = Jobs /\ DOMAIN acts = Jobs /\ Shape(runs[j])
  BY DEF RunsInv, RunFits
<1>2. acts' = acts \/ (acts' = more /\ tool \in Granted[j])
  BY DEF Propose, MayUse, NoAct
<1>3. /\ DOMAIN more = Jobs /\ \A i \in Jobs \ {j} : more[i] = acts[i]
      /\ more[j] = <<act>>
  <2>1. more = [acts EXCEPT ![j] = Append(acts[j], act)]
    OBVIOUS
  <2>2. Append(acts[j], act) = <<act>>
    OBVIOUS
  <2> QED  BY <1>1, <2>1, <2>2
<1>4. PICK status \in Statuses, why \in Whys : Settles(j, status, why)
  BY DEF Propose, Fails, Statuses, Whys
<1>5. Moved(j, "over", <<>>, runs[j].store)
  BY <1>1, <1>4, SettlesMoves
<1> HIDE DEF act, more
<1> QED  BY <1>1, <1>2, <1>3, <1>5 DEF act

\* The same for the whole invariant of a run.
LEMMA ProposeKeeps ==
    ASSUME RunsInv, NEW j \in Jobs, NEW tool, NEW args, Propose(j, tool, args),
           acts[j] = <<>>,
           Pipeline[j] = "steps" /\ Plain(Programme[j]) =>
               \A k \in ArmOf(j, tool) : IsThere(j, k),
           Pipeline[j] # "steps" =>
               /\ ~Is("none", Sender[j]) => args["to"] = Sender[j]
               /\ ~IsQuote(j) => /\ args["body"] \in Drafts
                                 /\ ~Says(args["body"].text, NeverSay[j])
    PROVE  /\ RunFits(j)' /\ DOMAIN runs' = Jobs /\ DOMAIN acts' = Jobs
           /\ \A i \in Jobs \ {j} : runs'[i] = runs[i] /\ acts'[i] = acts[i]
<1> DEFINE act == [tool |-> tool, args |-> args]
<1>1. /\ Moved(j, "over", <<>>, runs[j].store) /\ RunFits(j)
      /\ DOMAIN acts' = Jobs /\ \A i \in Jobs \ {j} : acts'[i] = acts[i]
      /\ acts'[j] = <<>> \/ (acts'[j] = <<act>> /\ tool \in Granted[j])
  BY ProposeMoves DEF RunsInv
<1>2. act.tool = tool /\ act.args = args
  OBVIOUS
<1> HIDE DEF act
<1>3. CASE acts'[j] = <<>>
  BY <1>1, <1>3, EndKeeps DEF Moved
<1>4. CASE acts'[j] = <<act>> /\ tool \in Granted[j]
  <2>1. acts'[j][1] = act /\ Len(acts'[j]) = 1
    BY <1>4
  <2>2. /\ Shape(runs'[j]) /\ runs'[j].pc = "over" /\ runs'[j].todo = <<>>
        /\ runs'[j].store = runs[j].store
    BY <1>1 DEF Moved
  <2>3. ActFits(j)'
    BY <1>2, <1>4, <2>1, <2>2 DEF ActFits
  <2>4. ASSUME Pipeline[j] = "steps"  PROVE StepsFit(j)'
    <3>1. StepsFit(j)
      BY <1>1, <2>4 DEF RunFits
    <3>2. DOMAIN runs'[j].todo = {} /\ runs'[j].todo \in Seq(StepsOf(j))
      BY <2>2
    <3>3. Plain(Programme[j]) => ArmsReady(j)'
      BY <1>2, <2>1, <2>2, <2>4, <3>2 DEF ArmsReady, IsThere
    <3> QED  BY <2>2, <3>1, <3>2, <3>3 DEF StepsFit, RequiredPresent
  <2>5. ASSUME Pipeline[j] # "steps"  PROVE ReplyFits(j)'
    BY <1>2, <2>1, <2>2, <2>5 DEF ReplyFits
  <2> QED  BY <1>1, <2>2, <2>3, <2>4, <2>5 DEF RunFits, Moved
<1> QED
  BY <1>1, <1>3, <1>4

-----------------------------------------------------------------------------
(* The step engine.                                                         *)

LEMMA NextStep ==
    ASSUME NEW j \in Jobs, StepsFit(j), runs[j].todo # <<>>
    PROVE  /\ Head(runs[j].todo) = runs[j].todo[1] /\ Head(runs[j].todo) \in StepsOf(j)
           /\ 1 \in DOMAIN runs[j].todo
           /\ Tail(runs[j].todo) \in Seq(StepsOf(j))
           /\ \A m \in DOMAIN Tail(runs[j].todo) :
                 /\ m + 1 \in DOMAIN runs[j].todo /\ m + 1 # 1
                 /\ Tail(runs[j].todo)[m] = runs[j].todo[m + 1]
BY DEF StepsFit

LEMMA LeafStep ==
    ASSUME NEW j \in Jobs, NEW step \in StepsOf(j)
    PROVE  IF step.kind = "branch" THEN \E k \in DOMAIN Programme[j] : step = Programme[j][k]
           ELSE step \in Leaves(Programme[j])
<1>1. CASE step \in Leaves(Programme[j])
  BY <1>1, ProgrammesWellFormed DEF WellFormed
<1>2. CASE \E k \in DOMAIN Programme[j] : step = Programme[j][k]
  <2>1. PICK k \in DOMAIN Programme[j] : step = Programme[j][k]
    BY <1>2
  <2>2. step.kind # "branch" => step \in Leaves(Programme[j])
    BY <2>1 DEF Leaves
  <2> QED  BY <2>1, <2>2
<1> QED
  BY <1>1, <1>2 DEF StepsOf

LEMMA StepDone ==
    ASSUME NEW j \in Jobs, RunFits(j), Pipeline[j] = "steps", acts[j] = <<>>, acts'[j] = <<>>,
           runs[j].todo # <<>>, Head(runs[j].todo).kind # "branch", NEW values,
           Moved(j, "step", Tail(runs[j].todo), With(runs[j].store, values)),
           DOMAIN values = NamesOf(Head(runs[j].todo)),
           Head(runs[j].todo).kind = "lookup" /\ Head(runs[j].todo).required =>
               DOMAIN values = {Head(runs[j].todo).as}
               /\ IsPresent(values[Head(runs[j].todo).as])
    PROVE  RunFits(j)'
<1> DEFINE next == Head(runs[j].todo)
<1>1. StepsFit(j)
  BY DEF RunFits
<1>2. /\ runs'[j].pc = "step" /\ runs'[j].todo = Tail(runs[j].todo) /\ Shape(runs'[j])
      /\ runs'[j].store = With(runs[j].store, values)
  BY DEF Moved
<1>3. next \in Leaves(Programme[j])
  BY <1>1, NextStep, LeafStep
<1>7. /\ DOMAIN runs'[j].store = DOMAIN runs[j].store \cup DOMAIN values
      /\ \A n \in DOMAIN values : runs'[j].store[n] = values[n]
      /\ \A n \in DOMAIN runs[j].store \ DOMAIN values : runs'[j].store[n] = runs[j].store[n]
  <2>1. PICK old : old = runs[j].store
    OBVIOUS
  <2>2. runs'[j].store = With(old, values)
    BY <1>2, <2>1
  <2>3. PICK new : new = runs'[j].store
    OBVIOUS
  <2>4. new = With(old, values)
    BY <2>2, <2>3
  <2>5. /\ DOMAIN new = DOMAIN old \cup DOMAIN values
        /\ \A n \in DOMAIN values : new[n] = values[n]
        /\ \A n \in DOMAIN old \ DOMAIN values : new[n] = old[n]
    BY <2>4 DEF With
  <2> QED  BY <2>1, <2>3, <2>5
<1> HIDE DEF next
<1>4. ASSUME Plain(Programme[j]), RequiredPresent(j)  PROVE RequiredPresent(j)'
  <2> SUFFICES ASSUME NEW step \in Leaves(Programme[j]), step.kind = "lookup", step.required,
                      step.as \in DOMAIN runs'[j].store
               PROVE  IsPresent(runs'[j].store[step.as])
    BY DEF RequiredPresent
  <2>1. CASE step.as \in DOMAIN values
    <3>1. next.kind = "lookup" /\ next.required
      BY <1>3, <1>4, <2>1 DEF Plain, next
    <3>2. step.as = next.as
      BY <2>1, <3>1 DEF next
    <3>3. runs'[j].store[step.as] = values[step.as]
      BY <1>7, <2>1
    <3> QED  BY <3>1, <3>2, <3>3 DEF next
  <2>2. CASE step.as \notin DOMAIN values
    <3>1. /\ step.as \in DOMAIN runs[j].store
          /\ runs'[j].store[step.as] = runs[j].store[step.as]
      BY <1>7, <2>2
    <3> QED  BY <1>4, <3>1 DEF RequiredPresent
  <2> QED  BY <2>1, <2>2
<1>5. ASSUME ArmsReady(j)  PROVE ArmsReady(j)'
  <2>1. ASSUME NEW m \in DOMAIN Tail(runs[j].todo), Tail(runs[j].todo)[m].kind = "act"
        PROVE  ArmOf(j, Tail(runs[j].todo)[m].tool) = {}
    <3>1. /\ m + 1 \in DOMAIN runs[j].todo /\ m + 1 # 1
          /\ Tail(runs[j].todo)[m] = runs[j].todo[m + 1]
      BY <1>1, NextStep
    <3>2. \A k \in ArmOf(j, runs[j].todo[m + 1].tool) : m + 1 = 1
      BY <1>5, <2>1, <3>1 DEF ArmsReady
    <3> QED  BY <3>1, <3>2
  <2> QED  BY <1>2, <2>1 DEF ArmsReady
<1>6. StepsFit(j)'
  BY <1>1, <1>2, <1>4, <1>5, NextStep DEF StepsFit
<1> QED
  BY <1>2, <1>6 DEF RunFits, ActFits

\* Going on to embed the query, or fetching a list.
LEMMA RetrieveGoesOn ==
    ASSUME NEW j \in Jobs, RunFits(j), Pipeline[j] = "steps", acts[j] = <<>>, acts'[j] = <<>>,
           runs[j].todo # <<>>, Head(runs[j].todo).kind = "retrieve",
           NEW pc \in {"embed", "search"}, Moved(j, pc, runs[j].todo, runs[j].store)
    PROVE  RunFits(j)'
<1>1. /\ runs'[j].pc = pc /\ runs'[j].todo = runs[j].todo /\ Shape(runs'[j])
      /\ runs'[j].store = runs[j].store
  BY DEF Moved
<1>2. StepsFit(j)
  BY DEF RunFits
<1>3. StepsFit(j)'
  BY <1>1, <1>2 DEF StepsFit, RequiredPresent, ArmsReady, IsThere
<1> QED
  BY <1>1, <1>3 DEF RunFits, ActFits

LEMMA NamesByKind ==
    ASSUME NEW step
    PROVE  /\ step.kind = "extract" => NamesOf(step) = step.fields
           /\ step.kind = "act" => NamesOf(step) = {}
           /\ step.kind \notin {"extract", "act"} => NamesOf(step) = {step.as}
BY DEF NamesOf

LEMMA FoundIsPresent ==
    ASSUME NEW j, NEW tool, NEW type \in DOMAIN Stored, NEW key,
           NEW found \in LookUp(j, tool, type, key), found # Refused, ~Missing(found)
    PROVE  IsPresent(found)
<1>1. CASE found = Nothing
  BY <1>1 DEF Missing, Nothing, Is
<1>2. CASE found \in Stored[type]
  <2>1. DOMAIN found = {"record"}
    BY <1>2, HarnessAssumption
  <2> QED  BY <2>1 DEF IsPresent, Is
<1>3. CASE \E list : found = [list |-> list]
  <2>1. PICK list : found = [list |-> list]
    BY <1>3
  <2>2. DOMAIN found = {"list"}
    BY <2>1
  <2> QED  BY <2>2 DEF IsPresent, Is, Missing
<1> QED
  BY <1>1, <1>2, <1>3 DEF LookUp

\* A step engine's action leaves a run that fits.
LEMMA StepComes ==
    ASSUME RunsInv, NEW j \in Jobs, runs[j].pc \in {"step", "embed", "search"}
    PROVE  /\ DOMAIN runs = Jobs /\ DOMAIN acts = Jobs /\ RunFits(j) /\ Shape(runs[j])
           /\ Pipeline[j] = "steps" /\ StepsFit(j) /\ acts[j] = <<>>
BY DEF RunsInv, RunFits, ActFits, ReplyFits

LEMMA ExtractKeeps ==
    ASSUME RunsInv, NEW j \in Jobs, ExtractStep(j)
    PROVE  RunFits(j)' /\ (\E pc, todo, store : Moved(j, pc, todo, store))
<1>1. /\ runs[j].pc = "step" /\ runs[j].todo # <<>> /\ Head(runs[j].todo).kind = "extract"
      /\ acts' = acts
  BY DEF ExtractStep, Comes, At, NoAct
<1>2. /\ DOMAIN runs = Jobs /\ RunFits(j) /\ Shape(runs[j])
      /\ Pipeline[j] = "steps" /\ acts[j] = <<>>
  BY <1>1, StepComes
<1>3. CASE Fails(j, "model")
  <2>1. "model" \in Whys
    BY DEF Whys
  <2>2. Moved(j, "over", <<>>, runs[j].store)
    BY <1>2, <1>3, <2>1, FailsMoves
  <2> QED  BY <1>1, <1>2, <2>2, EndKeeps
<1>4. ASSUME NEW answer \in Extractions(Step(j).fields), Stores(j, answer)
      PROVE  RunFits(j)' /\ (\E pc, todo, store : Moved(j, pc, todo, store))
  <2>1. Moved(j, "step", Tail(runs[j].todo), With(runs[j].store, answer))
    BY <1>2, <1>4, StoresMoves
  <2>2. DOMAIN answer = NamesOf(Head(runs[j].todo))
    BY <1>1, <1>4, NamesByKind DEF Extractions, Step
  <2> QED  BY <1>1, <1>2, <2>1, <2>2, StepDone
<1> QED
  BY <1>3, <1>4 DEF ExtractStep

LEMMA LookupKeeps ==
    ASSUME RunsInv, NEW j \in Jobs, LookupStep(j)
    PROVE  RunFits(j)' /\ (\E pc, todo, store : Moved(j, pc, todo, store))
<1> DEFINE next == Head(runs[j].todo)
           tool == IF next.search THEN "search_records" ELSE "find_record"
           key == Resolve(next.key, runs[j].store)
<1>1. /\ runs[j].pc = "step" /\ runs[j].todo # <<>> /\ next.kind = "lookup"
      /\ acts' = acts
  BY DEF LookupStep, Comes, At, NoAct
<1>2. /\ DOMAIN runs = Jobs /\ RunFits(j) /\ Shape(runs[j])
      /\ Pipeline[j] = "steps" /\ acts[j] = <<>> /\ StepsFit(j)
  BY <1>1, StepComes
<1>3. PICK found \in LookUp(j, tool, next.type, key) :
          IF found = Refused \/ (next.required /\ Missing(found))
          THEN Fails(j, "lookup") ELSE Stores(j, Named(next.as, found))
  BY DEF LookupStep, Step
<1>4. next.type \in DOMAIN Stored
  <2>1. next \in Leaves(Programme[j])
    BY <1>1, <1>2, NextStep, LeafStep
  <2> QED  BY <1>1, <2>1, ProgrammesWellFormed DEF WellFormed
<1> HIDE DEF next, tool
<1>5. CASE Fails(j, "lookup")
  <2>1. "lookup" \in Whys
    BY DEF Whys
  <2>2. Moved(j, "over", <<>>, runs[j].store)
    BY <1>2, <1>5, <2>1, FailsMoves
  <2> QED  BY <1>1, <1>2, <2>2, EndKeeps
<1>6. CASE /\ found # Refused /\ (next.required => ~Missing(found))
           /\ Stores(j, Named(next.as, found))
  <2> DEFINE values == Named(next.as, found)
  <2>1. /\ DOMAIN values = {next.as} /\ values[next.as] = found
    BY DEF Named
  <2> HIDE DEF values
  <2>2. \A k : found \in LookUp(j, tool, next.type, k) /\ found # Refused /\ ~Missing(found)
                 => IsPresent(found)
    BY <1>4, FoundIsPresent
  <2>3. next.required => IsPresent(found)
    BY <1>3, <1>6, <2>2
  <2>4. Moved(j, "step", Tail(runs[j].todo), With(runs[j].store, values))
    BY <1>2, <1>6, StoresMoves DEF values
  <2>5. DOMAIN values = NamesOf(next)
    BY <1>1, <2>1, NamesByKind
  <2> QED  BY <1>1, <1>2, <2>1, <2>3, <2>4, <2>5, StepDone DEF next
<1> QED
  BY <1>3, <1>5, <1>6

\* A step that stores one value under its name, and is no look-up.
LEMMA OneValueKeeps ==
    ASSUME RunsInv, NEW j \in Jobs, runs[j].pc \in {"step", "embed", "search"},
           runs[j].todo # <<>>, Head(runs[j].todo).kind \in {"compute", "retrieve", "compose"},
           NEW value, Stores(j, Named(Head(runs[j].todo).as, value)), acts' = acts
    PROVE  RunFits(j)' /\ (\E pc, todo, store : Moved(j, pc, todo, store))
<1> DEFINE next == Head(runs[j].todo)
           values == Named(next.as, value)
<1>1. /\ DOMAIN runs = Jobs /\ RunFits(j) /\ Shape(runs[j])
      /\ Pipeline[j] = "steps" /\ acts[j] = <<>>
  BY StepComes
<1>2. DOMAIN values = {next.as}
  BY DEF Named
<1>3. DOMAIN values = NamesOf(next)
  BY <1>2, NamesByKind
<1>4. Stores(j, values)
  OBVIOUS
<1> HIDE DEF values
<1>5. Moved(j, "step", Tail(runs[j].todo), With(runs[j].store, values))
  BY <1>1, <1>4, StoresMoves
<1> QED
  BY <1>1, <1>3, <1>5, StepDone

\* A step that fails, without having acted.
LEMMA FailKeeps ==
    ASSUME RunsInv, NEW j \in Jobs, acts[j] = <<>>, acts' = acts, NEW why \in Whys,
           Fails(j, why)
    PROVE  RunFits(j)' /\ (\E pc, todo, store : Moved(j, pc, todo, store))
<1>1. DOMAIN runs = Jobs /\ RunFits(j) /\ Shape(runs[j])
  BY DEF RunsInv, RunFits
<1>2. Moved(j, "over", <<>>, runs[j].store)
  BY <1>1, FailsMoves
<1> QED
  BY <1>1, <1>2, EndKeeps

LEMMA ComputeKeeps ==
    ASSUME RunsInv, NEW j \in Jobs, ComputeStep(j)
    PROVE  RunFits(j)' /\ (\E pc, todo, store : Moved(j, pc, todo, store))
<1>1. /\ runs[j].pc = "step" /\ runs[j].todo # <<>> /\ Head(runs[j].todo).kind = "compute"
      /\ acts' = acts /\ acts[j] = <<>>
  BY StepComes DEF ComputeStep, Comes, At, NoAct
<1>2. "compute" \in Whys
  BY DEF Whys
<1>3. \/ Fails(j, "compute")
      \/ \E value : Stores(j, Named(Head(runs[j].todo).as, value))
  BY DEF ComputeStep, Step
<1> QED
  BY <1>1, <1>2, <1>3, FailKeeps, OneValueKeeps

LEMMA ComposeKeeps ==
    ASSUME RunsInv, NEW j \in Jobs, ComposeStep(j)
    PROVE  RunFits(j)' /\ (\E pc, todo, store : Moved(j, pc, todo, store))
<1>1. /\ runs[j].pc = "step" /\ runs[j].todo # <<>> /\ Head(runs[j].todo).kind = "compose"
      /\ acts' = acts /\ acts[j] = <<>>
  BY StepComes DEF ComposeStep, Comes, At, NoAct
<1>2. "model" \in Whys /\ "guardrail" \in Whys
  BY DEF Whys
<1>3. \/ Fails(j, "model") \/ Fails(j, "guardrail")
      \/ \E value : Stores(j, Named(Head(runs[j].todo).as, value))
  BY DEF ComposeStep, Step
<1> QED
  BY <1>1, <1>2, <1>3, FailKeeps, OneValueKeeps

LEMMA RetrieveKeeps ==
    ASSUME RunsInv, NEW j \in Jobs,
           \/ RetrieveStep(j) \/ EmbedQuery(j) \/ FetchNearest(j) \/ FetchMatching(j)
           \/ FuseLists(j)
    PROVE  RunFits(j)' /\ (\E pc, todo, store : Moved(j, pc, todo, store))
<1>1. runs[j].pc \in {"step", "embed", "search"} /\ acts' = acts
  BY DEF RetrieveStep, EmbedQuery, FetchNearest, FetchMatching, FuseLists, Comes, At, NoAct
<1>2. /\ DOMAIN runs = Jobs /\ RunFits(j) /\ Shape(runs[j])
      /\ Pipeline[j] = "steps" /\ acts[j] = <<>> /\ StepsFit(j)
  BY <1>1, StepComes
<1>3. /\ runs[j].todo # <<>> /\ Head(runs[j].todo).kind = "retrieve"
  BY <1>2 DEF RetrieveStep, EmbedQuery, FetchNearest, FetchMatching, FuseLists, Comes, At, StepsFit
<1>4. \/ Fails(j, "retrieve") \/ Goes(j, "embed") \/ Goes(j, "search")
      \/ runs[j].pc = "search" /\ \E side, list : Fetch(j, side, list)
      \/ \E value : Stores(j, Named(Head(runs[j].todo).as, value))
  BY DEF RetrieveStep, EmbedQuery, FetchNearest, FetchMatching, FuseLists, Step, At
<1>5. "retrieve" \in Whys /\ "embed" \in Pcs /\ "search" \in Pcs
  BY DEF Whys, Pcs
<1>6. ASSUME NEW pc \in {"embed", "search"}, Moved(j, pc, runs[j].todo, runs[j].store)
      PROVE  RunFits(j)' /\ (\E p, todo, store : Moved(j, p, todo, store))
  BY <1>1, <1>2, <1>3, <1>6, RetrieveGoesOn
<1>7. CASE \E pc \in {"embed", "search"} : Goes(j, pc)
  BY <1>2, <1>5, <1>6, <1>7, GoesMoves
<1>8. CASE runs[j].pc = "search" /\ \E side, list : Fetch(j, side, list)
  BY <1>2, <1>6, <1>8, FetchMoves
<1> QED
  BY <1>1, <1>2, <1>3, <1>4, <1>5, <1>7, <1>8, FailKeeps, OneValueKeeps

LEMMA ActKeeps ==
    ASSUME RunsInv, NEW j \in Jobs, ActStep(j)
    PROVE  /\ RunFits(j)' /\ DOMAIN runs' = Jobs /\ DOMAIN acts' = Jobs
           /\ \A i \in Jobs \ {j} : runs'[i] = runs[i] /\ acts'[i] = acts[i]
<1>1. /\ runs[j].pc = "step" /\ runs[j].todo # <<>> /\ Head(runs[j].todo).kind = "act"
      /\ Propose(j, Head(runs[j].todo).tool, ArgsOf(j))
  BY DEF ActStep, Comes, At, Step
<1>2. Pipeline[j] = "steps" /\ acts[j] = <<>> /\ StepsFit(j)
  BY <1>1, StepComes
<1>3. PICK tool : tool = Head(runs[j].todo).tool
  OBVIOUS
<1>4. PICK args : args = ArgsOf(j)
  OBVIOUS
<1>5. Plain(Programme[j]) => \A k \in ArmOf(j, tool) : IsThere(j, k)
  BY <1>1, <1>2, <1>3, NextStep DEF StepsFit, ArmsReady
<1>6. Propose(j, tool, args)
  BY <1>1, <1>3, <1>4
<1> QED
  BY <1>2, <1>5, <1>6, ProposeKeeps

LEMMA FinishKeeps ==
    ASSUME RunsInv, NEW j \in Jobs, FinishSteps(j)
    PROVE  RunFits(j)' /\ (\E pc, todo, store : Moved(j, pc, todo, store))
<1>1. runs[j].pc = "step" /\ Settles(j, "COMPLETED", "") /\ acts' = acts
  BY DEF FinishSteps, At, NoAct
<1>2. DOMAIN runs = Jobs /\ RunFits(j) /\ Shape(runs[j]) /\ acts[j] = <<>>
  BY <1>1, StepComes
<1>3. "COMPLETED" \in Statuses /\ "" \in Whys
  BY DEF Statuses, Whys
<1>4. Moved(j, "over", <<>>, runs[j].store)
  BY <1>1, <1>2, <1>3, SettlesMoves
<1> QED
  BY <1>1, <1>2, <1>4, EndKeeps

\* The arm that a branch takes: the act of an arm on `exists` is its first step,
\* and the value is there.
LEMMA BranchKeeps ==
    ASSUME RunsInv, NEW j \in Jobs, BranchStep(j)
    PROVE  RunFits(j)' /\ (\E pc, todo, store : Moved(j, pc, todo, store))
<1> DEFINE next == Head(runs[j].todo)
           arm == IF Holds(next.when, runs[j].store) THEN next.then ELSE next.otherwise
           rest == Tail(runs[j].todo)
           todo == arm \o rest
           run == [runs[j] EXCEPT !.todo = todo]
<1>1. /\ runs[j].pc = "step" /\ runs[j].todo # <<>> /\ next.kind = "branch" /\ acts' = acts
  BY DEF BranchStep, Comes, At, NoAct
<1>2. /\ DOMAIN runs = Jobs /\ RunFits(j) /\ Shape(runs[j])
      /\ Pipeline[j] = "steps" /\ acts[j] = <<>> /\ StepsFit(j)
  BY <1>1, StepComes
<1>3. Becomes(j, run)
  <2>1. "todo" \in DOMAIN runs[j]
    BY <1>2 DEF Shape
  <2>2. Becomes(j, [runs[j] EXCEPT !.todo = arm \o Tail(@)])
    BY DEF BranchStep, Step
  <2>3. [runs[j] EXCEPT !.todo = arm \o Tail(@)] = run
    OBVIOUS
  <2> QED  BY <2>2, <2>3
<1>4. PICK m \in DOMAIN Programme[j] : next = Programme[j][m]
  BY <1>1, <1>2, NextStep, LeafStep
<1>5. arm \in Seq(StepsOf(j)) /\ arm \in {next.then, next.otherwise}
  <2>1. next.then \in Seq(Range(next.then)) /\ next.otherwise \in Seq(Range(next.otherwise))
    BY <1>1, <1>4, ProgrammesWellFormed DEF WellFormed, IsSequence
  <2>2. Range(next.then) \subseteq StepsOf(j) /\ Range(next.otherwise) \subseteq StepsOf(j)
    BY <1>1, <1>4 DEF StepsOf, Leaves, Range
  <2> QED  BY <2>1, <2>2
<1>6. rest \in Seq(StepsOf(j))
  BY <1>1, <1>2, NextStep
<1>7. /\ todo \in Seq(StepsOf(j))
      /\ \A n \in DOMAIN todo :
            \/ n \in DOMAIN arm /\ todo[n] = arm[n]
            \/ n - Len(arm) \in DOMAIN rest /\ todo[n] = rest[n - Len(arm)]
  <2> HIDE DEF arm, rest
  <2> QED  BY <1>5, <1>6
<1>8. Shape(run) /\ run.pc = "step" /\ run.todo = todo /\ run.store = runs[j].store
  <2> HIDE DEF todo
  <2> QED  BY <1>1, <1>2 DEF Shape, Pcs
<1> HIDE DEF run, todo
<1>9. Moved(j, run.pc, run.todo, run.store)
  BY <1>2, <1>3, <1>8, BecomesMoves
<1>10. /\ runs'[j].pc = "step" /\ runs'[j].todo = todo /\ runs'[j].store = runs[j].store
       /\ Shape(runs'[j])
  BY <1>8, <1>9 DEF Moved
<1>11. ASSUME Plain(Programme[j]), ArmsReady(j)  PROVE ArmsReady(j)'
  <2> SUFFICES ASSUME NEW n \in DOMAIN todo, todo[n].kind = "act",
                      NEW k \in ArmOf(j, todo[n].tool)
               PROVE  n = 1 /\ IsThere(j, k)
    BY <1>1, <1>2, <1>10 DEF ArmsReady, IsThere
  <2>1. CASE n - Len(arm) \in DOMAIN rest /\ todo[n] = rest[n - Len(arm)]
    <3>1. PICK p : p = n - Len(arm)
      OBVIOUS
    <3>2. /\ p + 1 \in DOMAIN runs[j].todo /\ p + 1 # 1
          /\ rest[p] = runs[j].todo[p + 1]
      BY <1>1, <1>2, <2>1, <3>1, NextStep
    <3>3. ArmOf(j, runs[j].todo[p + 1].tool) = {}
      BY <1>11, <2>1, <3>1, <3>2 DEF ArmsReady
    <3> QED  BY <2>1, <3>1, <3>2, <3>3
  <2>2. CASE n \in DOMAIN arm /\ todo[n] = arm[n]
    <3>1. PICK tool : tool = todo[n].tool
      OBVIOUS
    <3>2. PICK b : b = arm
      OBVIOUS
    <3>3. /\ n \in DOMAIN b /\ b[n].kind = "act" /\ b[n].tool = tool
          /\ b = Programme[j][m].then \/ b = Programme[j][m].otherwise
          /\ Programme[j][m].kind = "branch" /\ k \in ArmOf(j, tool)
      BY <1>1, <1>4, <1>5, <2>2, <3>1, <3>2
    <3>4. /\ \A i \in DOMAIN Programme[j][m].then :
                Programme[j][m].then[i].kind = "act"
                   /\ Programme[j][m].then[i].tool = tool => m = k /\ i = 1
          /\ \A i \in DOMAIN Programme[j][m].otherwise :
                ~(Programme[j][m].otherwise[i].kind = "act"
                   /\ Programme[j][m].otherwise[i].tool = tool)
      BY <1>11, <3>3, PlainArms
    <3>5. m = k /\ n = 1 /\ b = next.then /\ b # next.otherwise
      BY <1>4, <3>3, <3>4
    <3>6. Holds(next.when, runs[j].store)
      BY <3>2, <3>5
    <3>7. next.when.operator = "exists" /\ next = Programme[j][k]
      BY <1>4, <3>3, <3>5 DEF ArmOf
    <3>8. PICK v : v = Resolve(next.when.left, runs[j].store)
      OBVIOUS
    <3>9. IsPresent(v)
      BY <3>6, <3>7, <3>8 DEF Holds
    <3>10. v \notin {Nothing, Empty, [list |-> <<>>]}
      BY <3>9 DEF IsPresent, Is, Nothing, Empty
    <3> QED  BY <3>5, <3>7, <3>8, <3>10 DEF IsThere
  <2> QED  BY <1>7, <2>1, <2>2
<1>12. StepsFit(j)'
  BY <1>2, <1>7, <1>10, <1>11 DEF StepsFit, RequiredPresent
<1> QED
  BY <1>1, <1>2, <1>9, <1>10, <1>12 DEF RunFits, ActFits

LEMMA StepEngineKeeps ==
    ASSUME RunsInv, NEW j \in Jobs, StepEngine(j)
    PROVE  /\ RunFits(j)' /\ DOMAIN runs' = Jobs /\ DOMAIN acts' = Jobs
           /\ \A i \in Jobs \ {j} : runs'[i] = runs[i] /\ acts'[i] = acts[i]
<1>1. CASE ActStep(j)
  BY <1>1, ActKeeps
<1>2. CASE StepEngine(j) /\ ~ActStep(j)
  <2>1. acts' = acts
    BY <1>2 DEF StepEngine, ExtractStep, LookupStep, ComputeStep, RetrieveStep, EmbedQuery,
                FetchNearest, FetchMatching, FuseLists, ComposeStep, BranchStep, FinishSteps,
                NoAct
  <2>2. RunFits(j)' /\ (\E pc, todo, store : Moved(j, pc, todo, store))
    BY <1>2, ExtractKeeps, LookupKeeps, ComputeKeeps, RetrieveKeeps, ComposeKeeps, BranchKeeps,
       FinishKeeps DEF StepEngine
  <2>3. DOMAIN runs' = Jobs /\ \A i \in Jobs \ {j} : runs'[i] = runs[i]
    BY <2>2 DEF Moved
  <2> QED  BY <2>1, <2>2, <2>3 DEF RunsInv
<1> QED
  BY <1>1, <1>2

-----------------------------------------------------------------------------
(* The reply pipelines.                                                     *)

LEMMA ReplyComes ==
    ASSUME RunsInv, NEW j \in Jobs,
           runs[j].pc \in {"extract", "customer", "product", "fields", "draft", "propose"}
    PROVE  /\ DOMAIN runs = Jobs /\ DOMAIN acts = Jobs /\ RunFits(j) /\ Shape(runs[j])
           /\ Pipeline[j] # "steps" /\ ReplyFits(j) /\ acts[j] = <<>>
BY DEF RunsInv, RunFits, ActFits, StepsFit

\* Reading on: the address stays what it is, or becomes the sender's, and a text
\* that is to be proposed says nothing forbidden.
LEMMA ReadsOn ==
    ASSUME RunsInv, NEW j \in Jobs,
           runs[j].pc \in {"extract", "customer", "product", "fields", "draft", "propose"},
           NEW pc \in {"customer", "product", "fields", "draft", "propose"}, NEW values,
           NEW todo, acts' = acts,
           Moved(j, pc, todo, With(runs[j].store, values)),
           ~Is("none", Sender[j]) /\ (runs[j].pc = "extract" \/ "email" \in DOMAIN values) =>
               "email" \in DOMAIN values /\ values["email"] = Sender[j],
           pc = "fields" => todo \in Seq(Range(Fields[j])),
           pc = "propose" /\ ~IsQuote(j) =>
               /\ "body" \in DOMAIN values /\ values["body"] \in Drafts
               /\ ~Says(values["body"].text, NeverSay[j])
    PROVE  RunFits(j)'
<1>1. /\ RunFits(j) /\ Pipeline[j] # "steps" /\ ReplyFits(j) /\ acts[j] = <<>>
  BY ReplyComes
<1>2. /\ runs'[j].pc = pc /\ runs'[j].todo = todo /\ Shape(runs'[j])
      /\ runs'[j].store = With(runs[j].store, values)
  BY DEF Moved
<1>3. PICK old, new : old = runs[j].store /\ new = runs'[j].store
  OBVIOUS
<1>4. /\ DOMAIN new = DOMAIN old \cup DOMAIN values
      /\ \A n \in DOMAIN values : new[n] = values[n]
      /\ \A n \in DOMAIN old \ DOMAIN values : new[n] = old[n]
  <2>1. new = With(old, values)
    BY <1>2, <1>3
  <2> QED  BY <2>1 DEF With
<1>5. ~Is("none", Sender[j]) => "email" \in DOMAIN new /\ new["email"] = Sender[j]
  <2> SUFFICES ASSUME ~Is("none", Sender[j])
               PROVE  "email" \in DOMAIN new /\ new["email"] = Sender[j]
    OBVIOUS
  <2>1. CASE "email" \in DOMAIN values
    BY <1>4, <2>1
  <2>2. CASE "email" \notin DOMAIN values
    <3>1. runs[j].pc \in {"customer", "product", "fields", "draft", "propose"}
      BY <2>2
    <3>2. "email" \in DOMAIN old /\ old["email"] = Sender[j]
      BY <1>1, <1>3, <3>1 DEF ReplyFits
    <3> QED  BY <1>4, <2>2, <3>2
  <2> QED  BY <2>1, <2>2
<1>6. pc = "propose" /\ ~IsQuote(j) => new["body"] \in Drafts /\ ~Says(new["body"].text, NeverSay[j])
  BY <1>4
<1>7. ReplyFits(j)'
  BY <1>1, <1>2, <1>3, <1>5, <1>6 DEF ReplyFits
<1> QED
  BY <1>1, <1>2, <1>7 DEF RunFits, ActFits

\* The same when nothing is read.
LEMMA GoesOn ==
    ASSUME RunsInv, NEW j \in Jobs,
           runs[j].pc \in {"customer", "product", "fields", "draft", "propose"},
           NEW pc \in {"customer", "product", "fields", "draft"},
           NEW todo, acts' = acts, Moved(j, pc, todo, runs[j].store),
           pc = "fields" => todo \in Seq(Range(Fields[j]))
    PROVE  RunFits(j)'
<1>1. /\ RunFits(j) /\ Pipeline[j] # "steps" /\ ReplyFits(j) /\ acts[j] = <<>>
  BY ReplyComes
<1>2. /\ runs'[j].pc = pc /\ runs'[j].todo = todo /\ Shape(runs'[j])
      /\ runs'[j].store = runs[j].store
  BY DEF Moved
<1>3. ReplyFits(j)'
  BY <1>1, <1>2 DEF ReplyFits
<1> QED
  BY <1>1, <1>2, <1>3 DEF RunFits, ActFits

LEMMA SenderFirst ==
    ASSUME NEW j, NEW extracted, ~Is("none", Sender[j])
    PROVE  FirstOfAddresses(j, extracted) = Sender[j]
BY DEF FirstOfAddresses

LEMMA QuoteKeeps ==
    ASSUME RunsInv, NEW j \in Jobs,
           QuoteExtract(j) \/ QuoteCustomer(j) \/ QuoteProduct(j) \/ QuoteDraft(j)
    PROVE  RunFits(j)' /\ (\E pc, todo, store : Moved(j, pc, todo, store))
<1>1. /\ runs[j].pc \in {"extract", "customer", "product", "draft"} /\ acts' = acts
  BY DEF QuoteExtract, QuoteCustomer, QuoteProduct, QuoteDraft, At, NoAct
<1>2. /\ DOMAIN runs = Jobs /\ RunFits(j) /\ Shape(runs[j])
      /\ Pipeline[j] # "steps" /\ ReplyFits(j) /\ acts[j] = <<>>
  BY <1>1, ReplyComes
<1>3. /\ {"model", "lookup", "price", "address"} \subseteq Whys
      /\ {"customer", "product", "draft", "propose"} \subseteq Pcs
  BY DEF Whys, Pcs
<1>4. CASE \E why \in {"model", "lookup", "price", "address"} : Fails(j, why)
  BY <1>1, <1>2, <1>3, <1>4, FailKeeps
<1>5. ASSUME NEW answer, NEW email, runs[j].pc = "extract", email = FirstOfAddresses(j, answer["customerEmail"]),
             Reads(j, "customer", With(answer, Named("email", email)))
      PROVE  RunFits(j)' /\ (\E pc, todo, store : Moved(j, pc, todo, store))
  <2> DEFINE values == With(answer, Named("email", email))
  <2>1. "email" \in DOMAIN values /\ values["email"] = email
    BY DEF With, Named
  <2> HIDE DEF values
  <2>2. Moved(j, "customer", runs[j].todo, With(runs[j].store, values))
    BY <1>2, <1>3, <1>5, ReadsMoves DEF values
  <2>3. ~Is("none", Sender[j]) => values["email"] = Sender[j]
    BY <1>5, <2>1, SenderFirst
  <2>4. RunFits(j)'
    BY <1>1, <1>5, <2>1, <2>2, <2>3, ReadsOn
  <2> QED  BY <2>2, <2>4
<1>6. ASSUME NEW pc \in {"product", "draft", "propose"}, NEW values, Reads(j, pc, values),
             IsQuote(j) \/ pc # "propose", runs[j].pc # "extract", "email" \notin DOMAIN values
      PROVE  RunFits(j)' /\ (\E p, todo, store : Moved(j, p, todo, store))
  <2>1. Moved(j, pc, runs[j].todo, With(runs[j].store, values))
    BY <1>2, <1>3, <1>6, ReadsMoves
  <2>2. RunFits(j)'
    BY <1>1, <1>6, <2>1, ReadsOn
  <2> QED  BY <2>1, <2>2
<1>7. CASE QuoteExtract(j)
  <2>1. \/ Fails(j, "model")
        \/ \E answer : Reads(j, "customer", With(answer, Named("email",
                                 FirstOfAddresses(j, answer["customerEmail"]))))
    BY <1>7 DEF QuoteExtract
  <2> QED  BY <1>4, <1>5, <1>7, <2>1 DEF QuoteExtract, At
<1>8. CASE QuoteCustomer(j)
  <2>1. Goes(j, "product") \/ \E found : Reads(j, "product", Named("customer", found))
    BY <1>8 DEF QuoteCustomer
  <2>2. runs[j].pc = "customer"
    BY <1>8 DEF QuoteCustomer, At
  <2>3. CASE Goes(j, "product")
    <3>1. Moved(j, "product", runs[j].todo, runs[j].store)
      BY <1>2, <1>3, <2>3, GoesMoves
    <3>2. RunFits(j)'
      BY <1>1, <2>2, <3>1, GoesOn
    <3> QED  BY <3>1, <3>2
  <2>4. ASSUME NEW found, Reads(j, "product", Named("customer", found))
        PROVE  RunFits(j)' /\ (\E p, todo, store : Moved(j, p, todo, store))
    <3>1. "email" \notin DOMAIN Named("customer", found)
      BY DEF Named
    <3> QED  BY <1>6, <2>2, <2>4, <3>1
  <2> QED  BY <2>1, <2>3, <2>4
<1>9. CASE QuoteProduct(j)
  <2>1. runs[j].pc = "product"
    BY <1>9 DEF QuoteProduct, At
  <2>2. \/ \E why \in {"lookup", "price", "address"} : Fails(j, why)
        \/ \E item, total : Reads(j, "draft", [n \in {"item", "total"} |->
                                                  IF n = "item" THEN item ELSE total])
    BY <1>9 DEF QuoteProduct
  <2>3. ASSUME NEW item, NEW total,
               Reads(j, "draft", [n \in {"item", "total"} |-> IF n = "item" THEN item ELSE total])
        PROVE  RunFits(j)' /\ (\E p, todo, store : Moved(j, p, todo, store))
    <3> DEFINE values == [n \in {"item", "total"} |-> IF n = "item" THEN item ELSE total]
    <3>1. "email" \notin DOMAIN values /\ Reads(j, "draft", values)
      BY <2>3
    <3> HIDE DEF values
    <3> QED  BY <1>6, <2>1, <3>1
  <2> QED  BY <1>4, <2>2, <2>3
<1>10. CASE QuoteDraft(j)
  <2>1. runs[j].pc = "draft" /\ IsQuote(j)
    BY <1>10 DEF QuoteDraft, At
  <2>2. Fails(j, "model") \/ \E draft : Reads(j, "propose", Named("body", draft))
    BY <1>10 DEF QuoteDraft
  <2>3. \A draft : "email" \notin DOMAIN Named("body", draft)
    BY DEF Named
  <2> QED  BY <1>4, <1>6, <2>1, <2>2, <2>3
<1> QED
  BY <1>7, <1>8, <1>9, <1>10

LEMMA AcknowledgeExtractKeeps ==
    ASSUME RunsInv, NEW j \in Jobs, AcknowledgeExtract(j)
    PROVE  RunFits(j)' /\ (\E pc, todo, store : Moved(j, pc, todo, store))
<1>1. runs[j].pc = "extract" /\ acts' = acts
  BY DEF AcknowledgeExtract, At, NoAct
<1>2. /\ DOMAIN runs = Jobs /\ RunFits(j) /\ Shape(runs[j])
      /\ Pipeline[j] # "steps" /\ acts[j] = <<>>
  BY <1>1, ReplyComes
<1>3. "model" \in Whys /\ "address" \in Whys /\ "customer" \in Pcs
  BY DEF Whys, Pcs
<1>4. \/ Fails(j, "model") \/ Fails(j, "address")
      \/ \E answer, email : /\ email = FirstOfAddresses(j, answer["customerEmail"])
                            /\ Reads(j, "customer", With(answer, Named("email", email)))
  BY DEF AcknowledgeExtract
<1>5. ASSUME NEW answer, NEW email, email = FirstOfAddresses(j, answer["customerEmail"]),
             Reads(j, "customer", With(answer, Named("email", email)))
      PROVE  RunFits(j)' /\ (\E pc, todo, store : Moved(j, pc, todo, store))
  <2> DEFINE values == With(answer, Named("email", email))
  <2>1. "email" \in DOMAIN values /\ values["email"] = email
    BY DEF With, Named
  <2> HIDE DEF values
  <2>2. Moved(j, "customer", runs[j].todo, With(runs[j].store, values))
    BY <1>2, <1>3, <1>5, ReadsMoves DEF values
  <2>3. ~Is("none", Sender[j]) => values["email"] = Sender[j]
    BY <1>5, <2>1, SenderFirst
  <2>4. RunFits(j)'
    BY <1>1, <2>1, <2>2, <2>3, ReadsOn
  <2> QED  BY <2>2, <2>4
<1> QED
  BY <1>1, <1>2, <1>3, <1>4, <1>5, FailKeeps

LEMMA AcknowledgeCustomerKeeps ==
    ASSUME RunsInv, NEW j \in Jobs, AcknowledgeCustomer(j)
    PROVE  RunFits(j)' /\ (\E pc, todo, store : Moved(j, pc, todo, store))
<1>1. runs[j].pc = "customer" /\ acts' = acts
  BY DEF AcknowledgeCustomer, At, NoAct
<1>2. /\ DOMAIN runs = Jobs /\ RunFits(j) /\ Shape(runs[j])
      /\ Pipeline[j] # "steps" /\ acts[j] = <<>>
  BY <1>1, ReplyComes
<1> DEFINE todo == IF "search_records" \in Granted[j] THEN Fields[j] ELSE <<>>
           run(values) == [runs[j] EXCEPT !.pc = "fields", !.store = With(@, values), !.todo = todo]
<1>3. todo \in Seq(Range(Fields[j]))
  <2>1. PICK S : S = Range(Fields[j])
    OBVIOUS
  <2>2. Fields[j] \in Seq(S)
    BY <2>1, ProgrammesWellFormed DEF IsSequence
  <2>3. <<>> \in Seq(S)
    OBVIOUS
  <2> QED  BY <2>1, <2>2, <2>3
<1>4. PICK values : Becomes(j, run(values)) /\ "email" \notin DOMAIN values
  <2>1. \/ Becomes(j, run([n \in {} |-> Nothing]))
        \/ \E found : Becomes(j, run(Named("customer", found)))
    BY DEF AcknowledgeCustomer
  <2>2. "email" \notin DOMAIN [n \in {} |-> Nothing]
    OBVIOUS
  <2>3. \A found : "email" \notin DOMAIN Named("customer", found)
    BY DEF Named
  <2> HIDE DEF run
  <2> QED  BY <2>1, <2>2, <2>3
<1> HIDE DEF todo
<1>5. Shape(run(values)) /\ Becomes(j, run(values)) /\ run(values).pc = "fields"
      /\ run(values).todo = todo /\ run(values).store = With(runs[j].store, values)
  <2> DEFINE w == With(runs[j].store, values)
             new == [runs[j] EXCEPT !.pc = "fields", !.store = w, !.todo = todo]
  <2>1. run(values) = new
    OBVIOUS
  <2> HIDE DEF w
  <2>2. Shape(new) /\ new.pc = "fields" /\ new.todo = todo /\ new.store = w
    BY <1>2 DEF Shape, Pcs
  <2> QED  BY <1>4, <2>1, <2>2 DEF w
<1>6. Moved(j, "fields", todo, With(runs[j].store, values))
  <2>1. PICK r : r = run(values)
    OBVIOUS
  <2>2. Moved(j, r.pc, r.todo, r.store)
    BY <1>2, <1>5, <2>1, BecomesMoves
  <2> QED  BY <1>5, <2>1, <2>2
<1>7. RunFits(j)'
  BY <1>1, <1>3, <1>4, <1>6, ReadsOn
<1> QED
  BY <1>6, <1>7

LEMMA AcknowledgeFieldKeeps ==
    ASSUME RunsInv, NEW j \in Jobs, AcknowledgeField(j)
    PROVE  RunFits(j)' /\ (\E pc, todo, store : Moved(j, pc, todo, store))
<1> DEFINE field == Head(runs[j].todo)
           rest == Tail(runs[j].todo)
<1>1. runs[j].pc = "fields" /\ runs[j].todo # <<>> /\ acts' = acts
  BY DEF AcknowledgeField, At, NoAct
<1>2. /\ DOMAIN runs = Jobs /\ RunFits(j) /\ Shape(runs[j])
      /\ Pipeline[j] # "steps" /\ acts[j] = <<>> /\ ReplyFits(j)
  BY <1>1, ReplyComes
<1>3. rest \in Seq(Range(Fields[j])) /\ field.fact # "email"
  <2>1. PICK S : S = Range(Fields[j])
    OBVIOUS
  <2>4. runs[j].todo \in Seq(S) /\ runs[j].todo # <<>>
    BY <1>1, <1>2, <2>1 DEF ReplyFits
  <2>5. rest \in Seq(S) /\ field \in S
    BY <2>4
  <2>2. rest \in Seq(Range(Fields[j])) /\ field \in Range(Fields[j])
    BY <2>1, <2>5
  <2>3. PICK k \in DOMAIN Fields[j] : field = Fields[j][k]
    BY <2>2 DEF Range
  <2> QED  BY <2>2, <2>3, ProgrammesWellFormed
<1> HIDE DEF rest
<1>4. \/ Becomes(j, [runs[j] EXCEPT !.todo = rest])
      \/ \E head : Becomes(j, [[runs[j] EXCEPT !.store = With(@, Named(field.fact, head))]
                                  EXCEPT !.todo = rest])
  <2>1. "todo" \in DOMAIN runs[j] /\ "store" \in DOMAIN runs[j]
    BY <1>2 DEF Shape
  <2>2. ASSUME NEW run, DOMAIN run = DOMAIN runs[j], run.todo = runs[j].todo
        PROVE  [run EXCEPT !.todo = Tail(@)] = [run EXCEPT !.todo = rest]
    BY <2>2 DEF rest
  <2> DEFINE done(run) == Becomes(j, [run EXCEPT !.todo = Tail(@)])
             more(head) == [runs[j] EXCEPT !.store = With(@, Named(field.fact, head))]
  <2>3. done(runs[j]) \/ \E head : done(more(head))
    BY DEF AcknowledgeField
  <2>4. \A head : DOMAIN more(head) = DOMAIN runs[j] /\ more(head).todo = runs[j].todo
    BY <2>1
  <2> HIDE DEF more
  <2> QED  BY <2>2, <2>3, <2>4 DEF more
<1>5. CASE Becomes(j, [runs[j] EXCEPT !.todo = rest])
  <2> DEFINE run == [runs[j] EXCEPT !.todo = rest]
  <2>1. Shape(run) /\ run.pc = "fields" /\ run.todo = rest /\ run.store = runs[j].store
    BY <1>1, <1>2 DEF Shape
  <2> HIDE DEF run
  <2>2. Moved(j, "fields", rest, runs[j].store)
    BY <1>2, <1>5, <2>1, BecomesMoves DEF run
  <2>3. RunFits(j)'
    BY <1>1, <1>3, <2>2, GoesOn
  <2> QED  BY <2>2, <2>3
<1>6. ASSUME NEW head, Becomes(j, [[runs[j] EXCEPT !.store = With(@, Named(field.fact, head))]
                                      EXCEPT !.todo = rest])
      PROVE  RunFits(j)' /\ (\E pc, todo, store : Moved(j, pc, todo, store))
  <2> DEFINE values == Named(field.fact, head)
             w == With(runs[j].store, values)
             run == [[runs[j] EXCEPT !.store = w] EXCEPT !.todo = rest]
  <2>1. Becomes(j, run)
    BY <1>6
  <2>2. "email" \notin DOMAIN values
    BY <1>3 DEF Named
  <2> HIDE DEF w
  <2>3. Shape(run) /\ run.pc = "fields" /\ run.todo = rest /\ run.store = w
    BY <1>1, <1>2 DEF Shape
  <2> HIDE DEF run, values
  <2>4. Moved(j, "fields", rest, With(runs[j].store, values))
    BY <1>2, <2>1, <2>3, BecomesMoves DEF w
  <2>5. RunFits(j)'
    BY <1>1, <1>3, <2>2, <2>4, ReadsOn
  <2> QED  BY <2>4, <2>5
<1> QED
  BY <1>4, <1>5, <1>6

LEMMA AcknowledgeDraftKeeps ==
    ASSUME RunsInv, NEW j \in Jobs, AcknowledgeDraft(j)
    PROVE  RunFits(j)' /\ (\E pc, todo, store : Moved(j, pc, todo, store))
<1>1. runs[j].pc = "fields" /\ acts' = acts
  BY DEF AcknowledgeDraft, At, NoAct
<1>2. /\ DOMAIN runs = Jobs /\ RunFits(j) /\ Shape(runs[j])
      /\ Pipeline[j] # "steps" /\ acts[j] = <<>>
  BY <1>1, ReplyComes
<1>3. "model" \in Whys /\ "guardrail" \in Whys /\ "propose" \in Pcs
  BY DEF Whys, Pcs
<1>4. \/ Fails(j, "model") \/ Fails(j, "guardrail")
      \/ \E draft \in Drafts : /\ ~Says(draft.text, NeverSay[j])
                               /\ Reads(j, "propose", Named("body", draft))
  BY DEF AcknowledgeDraft
<1>5. ASSUME NEW draft \in Drafts, ~Says(draft.text, NeverSay[j]),
             Reads(j, "propose", Named("body", draft))
      PROVE  RunFits(j)' /\ (\E pc, todo, store : Moved(j, pc, todo, store))
  <2> DEFINE values == Named("body", draft)
  <2>1. DOMAIN values = {"body"} /\ values["body"] = draft
    BY DEF Named
  <2> HIDE DEF values
  <2>2. Moved(j, "propose", runs[j].todo, With(runs[j].store, values))
    BY <1>2, <1>3, <1>5, ReadsMoves DEF values
  <2>3. RunFits(j)'
    BY <1>1, <1>5, <2>1, <2>2, ReadsOn
  <2> QED  BY <2>2, <2>3
<1> QED
  BY <1>1, <1>2, <1>3, <1>4, <1>5, FailKeeps

LEMMA ProposeReplyKeeps ==
    ASSUME RunsInv, NEW j \in Jobs, ProposeReply(j)
    PROVE  /\ RunFits(j)' /\ DOMAIN runs' = Jobs /\ DOMAIN acts' = Jobs
           /\ \A i \in Jobs \ {j} : runs'[i] = runs[i] /\ acts'[i] = acts[i]
<1>1. runs[j].pc = "propose"
  BY DEF ProposeReply, At
<1>2. Pipeline[j] # "steps" /\ acts[j] = <<>> /\ ReplyFits(j)
  BY <1>1, ReplyComes
<1>3. PICK store : store = runs[j].store
  OBVIOUS
<1> DEFINE args == [a \in {"to", "body"} |-> IF a = "to" THEN store["email"] ELSE store["body"]]
<1>4. Propose(j, ActionTool[j], args)
  BY <1>3 DEF ProposeReply, Read
<1>5. args["to"] = store["email"] /\ args["body"] = store["body"]
  OBVIOUS
<1> HIDE DEF args
<1>6. /\ ~Is("none", Sender[j]) => args["to"] = Sender[j]
      /\ ~IsQuote(j) => /\ args["body"] \in Drafts
                        /\ ~Says(args["body"].text, NeverSay[j])
  BY <1>1, <1>2, <1>3, <1>5 DEF ReplyFits
<1> QED
  BY <1>2, <1>4, <1>6, ProposeKeeps

LEMMA RepliesKeep ==
    ASSUME RunsInv, NEW j \in Jobs, ReplyPipelines(j)
    PROVE  /\ RunFits(j)' /\ DOMAIN runs' = Jobs /\ DOMAIN acts' = Jobs
           /\ \A i \in Jobs \ {j} : runs'[i] = runs[i] /\ acts'[i] = acts[i]
<1>1. CASE ProposeReply(j)
  BY <1>1, ProposeReplyKeeps
<1>2. CASE ReplyPipelines(j) /\ ~ProposeReply(j)
  <2>1. acts' = acts
    BY <1>2 DEF ReplyPipelines, QuoteExtract, QuoteCustomer, QuoteProduct, QuoteDraft,
                AcknowledgeExtract, AcknowledgeCustomer, AcknowledgeField, AcknowledgeDraft, NoAct
  <2>2. RunFits(j)' /\ (\E pc, todo, store : Moved(j, pc, todo, store))
    BY <1>2, QuoteKeeps, AcknowledgeExtractKeeps, AcknowledgeCustomerKeeps,
       AcknowledgeFieldKeeps, AcknowledgeDraftKeeps DEF ReplyPipelines
  <2>3. DOMAIN runs' = Jobs /\ \A i \in Jobs \ {j} : runs'[i] = runs[i]
    BY <2>2 DEF Moved
  <2> QED  BY <2>1, <2>2, <2>3 DEF RunsInv
<1> QED
  BY <1>1, <1>2

-----------------------------------------------------------------------------
(* The theorems.                                                            *)

HarnessInv == RunsInv /\ SettingsInv /\ DocumentsInv

LEMMA CastsWithin ==
    ASSUME cast \in Casts
    PROVE  /\ cast.jobs \subseteq Jobs /\ cast.saves \subseteq Saves
           /\ cast.disconnects \subseteq Orgs
           /\ cast.uploads \subseteq Uploads /\ cast.deletes \subseteq Uploads
BY HarnessAssumption

LEMMA HarnessStart == Init => HarnessInv
BY RunsStart, SettingsStart, DocumentsStart DEF Init, HarnessInv

LEMMA RunsMove ==
    ASSUME RunsInv, NEW j \in cast.jobs, j \in Jobs, RunSteps(j), UNCHANGED cast
    PROVE  RunsInv'
<1>1. /\ RunFits(j)' /\ DOMAIN runs' = Jobs /\ DOMAIN acts' = Jobs
      /\ \A i \in Jobs \ {j} : runs'[i] = runs[i] /\ acts'[i] = acts[i]
  <2>1. CASE StartRun(j)
    <3>1. acts' = acts
      BY <2>1 DEF StartRun, NoAct
    <3> QED  BY <2>1, <3>1, StartKeeps DEF RunsInv
  <2> QED  BY <2>1, StepEngineKeeps, RepliesKeep DEF RunSteps
<1>2. ASSUME NEW i \in Jobs \ {j}  PROVE RunFits(i)'
  BY <1>1, <1>2, RunStays DEF RunsInv
<1> QED
  BY <1>1, <1>2 DEF RunsInv

LEMMA RunsStill == RunsInv /\ UNCHANGED <<cast, runs, acts>> => RunsInv'
BY RunStays DEF RunsInv

LEMMA HarnessStep == HarnessInv /\ [Next]_vars => HarnessInv'
<1> SUFFICES ASSUME HarnessInv, [Next]_vars PROVE HarnessInv'
  OBVIOUS
<1>1. RunsInv /\ SettingsInv /\ DocumentsInv /\ cast \in Casts
  BY DEF HarnessInv, RunsInv
<1>2. ASSUME NEW j \in cast.jobs, RunSteps(j), UNCHANGED <<providerVars, knowledgeVars, cast>>
      PROVE  HarnessInv'
  <2>1. j \in Jobs
    BY <1>1, CastsWithin
  <2> QED  BY <1>1, <1>2, <2>1, RunsMove, SettingsStill, DocumentsStill DEF HarnessInv
<1>3. CASE SettingsSteps /\ UNCHANGED <<knowledgeVars, cast, runs, acts>>
  <2>1. SettingsInv'
    BY <1>1, <1>3, CastsWithin, ReadSecretKeeps, StoreProviderKeeps, DisconnectProviderKeeps
       DEF SettingsSteps, ProviderSteps
  <2> QED  BY <1>1, <1>3, <2>1, RunsStill, DocumentsStill DEF HarnessInv
<1>4. CASE PageSteps /\ UNCHANGED <<providerVars, cast, runs, acts>>
  <2>1. DocumentsInv'
    BY <1>1, <1>4, CastsWithin, PagesKeep DEF PageSteps
  <2> QED  BY <1>1, <1>4, <2>1, RunsStill, SettingsStill DEF HarnessInv
<1>5. CASE UNCHANGED vars
  BY <1>1, <1>5, RunsStill, SettingsStill, DocumentsStill DEF vars, HarnessInv
<1> QED
  BY <1>2, <1>3, <1>4, <1>5 DEF Next

\* What the programmes, the replies, the documents and the settings do, all at
\* once, for every number of runs, pages and submissions.
THEOREM HarnessAlwaysFits == Spec => []HarnessInv
BY HarnessStart, HarnessStep, PTL DEF Spec

\* addDocument and deleteDocument: a listed document has all its chunks, unless
\* they are just being written or the writing broke off, and no chunk is left
\* of a document that is gone.
THEOREM DocumentsAlwaysSound == Spec => []DocumentsSound
<1>1. HarnessInv => DocumentsSound
  <2> SUFFICES ASSUME DocumentsInv PROVE DocumentsSound
    BY DEF HarnessInv
  <2>1. ASSUME NEW u \in documents, uploads[u].pc # "insert", u \notin interrupted
        PROVE  Whole(u)
    BY <2>1 DEF DocumentsInv, DocumentFits, Whole
  <2> QED  BY <2>1 DEF DocumentsSound, DocumentsWhole, NoOrphanChunks, DocumentsInv
<1> QED
  BY <1>1, HarnessAlwaysFits, PTL

\* chunkDocument and insertChunks: whatever the sizes and however the uploads
\* and deletions interleave, a document that was reported as added can be found
\* by every passage of a paragraph that is not longer than the overlap and one,
\* and no chunk is longer than the ceiling with the overlap put in front.
THEOREM ChunksAlwaysSound == Spec => []ChunksSound
<1>1. Init => TextsInv
  <2> SUFFICES ASSUME Init PROVE TextsInv
    OBVIOUS
  <2>1. cast.uploads \subseteq Uploads /\ cast.pages \subseteq Documents
    BY HarnessAssumption DEF Init
  <2> QED  BY <2>1, TextsStart DEF Init
<1>2. HarnessInv /\ TextsInv /\ [Next]_vars => TextsInv'
  <2> SUFFICES ASSUME HarnessInv, TextsInv, [Next]_vars PROVE TextsInv'
    OBVIOUS
  <2>1. KnowledgeTypeOK /\ cast \in Casts
    BY DEF HarnessInv, DocumentsInv, RunsInv
  <2>2. CASE PageSteps
    BY <2>1, <2>2, CastsWithin, PagesKeepTexts DEF PageSteps
  <2>3. CASE UNCHANGED knowledgeVars
    BY <2>3, TextsStill
  <2> QED  BY <2>2, <2>3 DEF Next, vars
<1>3. HarnessInv /\ TextsInv => ChunksSound
  <2> SUFFICES ASSUME HarnessInv, TextsInv PROVE ChunksSound
    OBVIOUS
  <2>1. /\ KnowledgeTypeOK /\ \A c \in chunks : c.doc \in documents
        /\ \A u \in documents : DocumentFits(u) /\ u \in Uploads
    BY DEF HarnessInv, DocumentsInv, KnowledgeTypeOK
  <2>2. ASSUME NEW u \in documents
        PROVE  u \in DOMAIN content /\ uploads[u].next \in Nat
    BY <2>1 DEF DocumentFits, TextsInv, KnowledgeTypeOK, UploadOf
  <2>3. Findable
    <3> SUFFICES ASSUME NEW u \in documents, uploads[u].pc = "added",
                        NEW passage \in PassagesOf(content[u])
                 PROVE  \E c \in chunks : c.doc = u /\ Carries(Texts(u)[c.position + 1], passage)
      BY DEF Findable
    <3>1. PICK k \in 1 .. Len(Texts(u)) : Carries(Texts(u)[k], passage)
      BY <2>2, TextsKnown
    <3>2. k - 1 \in 0 .. uploads[u].next - 1 /\ (k - 1) + 1 = k
      BY <2>1, <2>2, TextsKnown DEF DocumentFits
    <3>3. PICK c \in chunks : c.doc = u /\ c.position = k - 1
      BY <2>1, <3>2 DEF DocumentFits
    <3> QED  BY <3>1, <3>2, <3>3
  <2>4. ChunkBounded
    <3> SUFFICES ASSUME NEW c \in chunks
                 PROVE  Len(Texts(c.doc)[c.position + 1]) <= MaxChars + OverlapChars + Len(Gap)
      BY DEF ChunkBounded
    <3>1. PICK u \in documents : u = c.doc
      BY <2>1
    <3>2. c.position \in 0 .. uploads[u].next - 1
      BY <2>1, <3>1 DEF DocumentFits
    <3>3. u \in DOMAIN content /\ uploads[u].next \in Nat /\ Len(Texts(u)) \in Nat
          /\ uploads[u].next <= Len(Texts(u)) /\ DOMAIN Texts(u) = 1 .. Len(Texts(u))
      BY <2>2, TextsKnown DEF TextsInv
    <3>4. c.position + 1 \in DOMAIN Texts(u)
      BY <3>2, <3>3
    <3> QED  BY <3>1, <3>3, <3>4, TextsKnown
  <2> QED  BY <2>3, <2>4 DEF ChunksSound
<1> QED
  BY <1>1, <1>2, <1>3, HarnessAlwaysFits, PTL DEF Spec

\* setOllamaProvider: a secret field that is left blank keeps what is stored,
\* unless somebody else stored or disconnected in between.
THEOREM SecretAlwaysKept == Spec => SecretKept
<1> DEFINE Kept == \A s \in Saves :
         /\ saves[s].pc = "write" /\ saves'[s].pc = "over"
         /\ Form[s].secret = "" /\ s \notin overtaken
         /\ provider[Form[s].org] # None
         => provider'[Form[s].org].secret = provider[Form[s].org].secret
<1>1. HarnessInv /\ [Next]_vars => [Kept]_providerVars
  <2> SUFFICES ASSUME HarnessInv, [Next]_vars,
                      NEW s \in Saves, saves[s].pc = "write", saves'[s].pc = "over",
                      Form[s].secret = "", s \notin overtaken, provider[Form[s].org] # None
               PROVE  provider'[Form[s].org].secret = provider[Form[s].org].secret
    OBVIOUS
  <2>1. SettingsInv /\ cast \in Casts
    BY DEF HarnessInv, RunsInv
  <2>2. PICK t \in cast.saves : StoreProvider(t) /\ saves' # saves
    <3>1. saves' # saves
      OBVIOUS
    <3>2. SettingsSteps
      BY <3>1 DEF Next, vars, providerVars
    <3>3. ASSUME NEW t \in Saves, ReadSecret(t)  PROVE FALSE
      <4>1. saves' = [saves EXCEPT ![t] = [pc |-> "write", secret |-> KeptSecret(t)]]
        BY <3>3 DEF ReadSecret
      <4> DEFINE save == [pc |-> "write", secret |-> KeptSecret(t)]
      <4>2. save.pc = "write"
        OBVIOUS
      <4> HIDE DEF save
      <4>3. saves'[s] = save \/ saves'[s] = saves[s]
        BY <2>1, <4>1 DEF SettingsInv, save
      <4> QED  BY <4>2, <4>3
    <3> QED  BY <2>1, <3>1, <3>2, <3>3, CastsWithin
             DEF SettingsSteps, ProviderSteps, DisconnectProvider
  <2>3. t = s
    BY <2>1, <2>2 DEF StoreProvider, SettingsInv
  <2>4. Form[s].org \in Orgs
    BY ProviderAssumption
  <2> DEFINE row == [url |-> Form[s].url, secret |-> saves[s].secret]
  <2>5. row.secret = saves[s].secret
    OBVIOUS
  <2>6. provider' = [provider EXCEPT ![Form[s].org] = row]
    BY <2>2, <2>3 DEF StoreProvider
  <2> HIDE DEF row
  <2>7. provider'[Form[s].org] = row
    BY <2>1, <2>4, <2>6 DEF SettingsInv
  <2>8. saves[s].secret = StoredSecret(Form[s].org)
    BY <2>1 DEF SettingsInv
  <2> QED  BY <2>5, <2>7, <2>8 DEF StoredSecret
<1> QED
  BY <1>1, HarnessAlwaysFits, PTL DEF Spec, SecretKept

\* runHarnessPipeline and its engine: an act ends the run and is one that was
\* granted; no run goes past a required look-up that found nothing; and the act
\* in the arm of an `exists` is only proposed with the value there.  Of every
\* programme that stores nothing else under the name of a required look-up and
\* does not act elsewhere with the tool of such an arm.
THEOREM ProgrammesAlwaysFollowed ==
    ASSUME \A j \in Jobs : Plain(Programme[j])
    PROVE  Spec => []ProgrammeFollowed
<1>1. HarnessInv => ProgrammeFollowed
  <2> SUFFICES ASSUME HarnessInv PROVE ProgrammeFollowed
    OBVIOUS
  <2>1. RunsInv /\ SettingsInv /\ DocumentsInv
    BY DEF HarnessInv
  <2>2. ASSUME NEW j \in Jobs
        PROVE  /\ RunFits(j) /\ Shape(runs[j])
               /\ acts[j] # <<>> => /\ At(j, "over") /\ Len(acts[j]) = 1
                                    /\ acts[j][1].tool \in Granted[j]
               /\ \A k \in DOMAIN acts[j] : acts[j] # <<>> /\ k = 1
    <3>1. RunFits(j) /\ Shape(runs[j]) /\ ActFits(j)
      BY <2>1 DEF RunsInv, RunFits
    <3>2. PICK done, act : done = acts[j] /\ act = done[1]
      OBVIOUS
    <3>3. done = <<>> \/ done = <<act>>
      BY <3>1, <3>2 DEF ActFits
    <3>4. \A k \in DOMAIN done : done # <<>> /\ k = 1
      BY <3>3
    <3> QED  BY <3>1, <3>2, <3>4 DEF ActFits, At
  <2>3. TypeOK
    <3>1. ASSUME NEW j \in Jobs
          PROVE  [pc |-> runs[j].pc, status |-> runs[j].status, why |-> runs[j].why] \in Job
      BY <2>2 DEF Shape, Job, Pcs, Statuses, Whys
    <3>2. ASSUME NEW j \in Jobs, NEW k \in DOMAIN acts[j]  PROVE acts[j][k].tool \in Granted[j]
      BY <2>2, <3>2
    <3>3. ProviderTypeOK /\ KnowledgeTypeOK
      BY <2>1 DEF SettingsInv, DocumentsInv
    <3> QED  BY <3>1, <3>2, <3>3 DEF TypeOK
  <2>4. ActIsLast
    BY <2>2 DEF ActIsLast
  <2>5. ASSUME NEW j \in Jobs, Pipeline[j] = "steps"
        PROVE  RequiredPresent(j) /\ ArmsReady(j)
    BY <2>2, <2>5 DEF RunFits, StepsFit
  <2>6. ASSUME NEW j \in Jobs, Pipeline[j] # "steps"
        PROVE  DOMAIN Programme[j] = {} /\ Leaves(Programme[j]) = {}
    <3>1. Programme[j] = <<>>
      BY <2>6, ProgrammesWellFormed
    <3>2. DOMAIN Programme[j] = {}
      BY <3>1
    <3> QED  BY <3>2 DEF Leaves
  <2>7. RequiredFound
    BY <2>5, <2>6 DEF RequiredFound, RequiredPresent
  <2>8. ArmsAgree
    <3> SUFFICES ASSUME NEW j \in Jobs, NEW k \in DOMAIN Programme[j],
                        Programme[j][k].kind = "branch",
                        Programme[j][k].when.operator = "exists",
                        NEW i \in DOMAIN Programme[j][k].then, NEW n \in DOMAIN acts[j],
                        Programme[j][k].then[i].kind = "act",
                        acts[j][n].tool = Programme[j][k].then[i].tool
                 PROVE  IsThere(j, k)
      BY DEF ArmsAgree, IsThere
    <3>1. acts[j] # <<>> /\ n = 1
      BY <2>2
    <3>2. k \in ArmOf(j, acts[j][1].tool)
      BY <3>1 DEF ArmOf
    <3>3. ArmsReady(j)
      BY <2>5, <2>6
    <3> QED  BY <3>1, <3>2, <3>3 DEF ArmsReady
  <2> QED  BY <2>3, <2>4, <2>7, <2>8 DEF ProgrammeFollowed
<1> QED
  BY <1>1, HarnessAlwaysFits, PTL

\* proposeReply of both reply pipelines: whatever address the model extracts or
\* the text mentions, the reply goes to the sender that the trigger knew.
THEOREM ReplyAlwaysToSender == Spec => []ReplyToSender
<1>1. HarnessInv => ReplyToSender
  <2> SUFFICES ASSUME HarnessInv, NEW j \in Jobs, Pipeline[j] # "steps",
                      ~Is("none", Sender[j]), NEW k \in DOMAIN acts[j]
               PROVE  acts[j][k].args["to"] = Sender[j]
    BY DEF ReplyToSender
  <2>1. RunFits(j)
    BY DEF HarnessInv, RunsInv
  <2>2. PICK done, act : done = acts[j] /\ act = done[1]
    OBVIOUS
  <2>3. done = <<>> \/ done = <<act>>
    BY <2>1, <2>2 DEF RunFits, ActFits
  <2>4. done # <<>> /\ done[k] = act
    BY <2>2, <2>3
  <2> QED  BY <2>1, <2>2, <2>4 DEF RunFits, ReplyFits
<1> QED
  BY <1>1, HarnessAlwaysFits, PTL

\* containsForbiddenKeyword looks at every word in lower case, so a text that
\* passes it does not include a keyword anywhere.
LEMMA SaysNothing ==
    ASSUME NEW text, text \in Seq(Range(text)), NEW keywords, ~Says(text, keywords),
           NEW w \in keywords
    PROVE  ~Includes(InLowerCase(text), <<[word |-> w]>>)
<1> DEFINE lower == InLowerCase(text)
           part == <<[word |-> w]>>
<1>1. DOMAIN lower = 1 .. Len(text) /\ Len(text) \in Nat
  BY DEF InLowerCase
<1>2. \A k \in DOMAIN lower : lower[k].word # w
  BY DEF Says
<1> HIDE DEF lower
<1>3. Len(lower) = Len(text) /\ Len(part) = 1 /\ part[1].word = w
  BY <1>1
<1>4. ASSUME NEW i \in 0 .. Len(lower) - Len(part),
             SubSeq(lower, i + 1, i + Len(part)) = part
      PROVE  FALSE
  <2>1. i \in Nat /\ i + 1 \in DOMAIN lower
    BY <1>1, <1>3, <1>4
  <2>2. SubSeq(lower, i + 1, i + 1)[1] = lower[i + 1]
    BY <1>1, <2>1
  <2> QED  BY <1>2, <1>3, <1>4, <2>1, <2>2
<1> QED
  BY <1>4 DEF Includes, lower

\* The acknowledgement never says one of the agent's forbidden words, however
\* the model spells them.
THEOREM AcknowledgementsNeverSay ==
    Spec => [](\A j \in Jobs : Pipeline[j] \notin {"steps", "quote"} => NeverSaidBy(j))
<1> DEFINE Silent == \A j \in Jobs : Pipeline[j] \notin {"steps", "quote"} => NeverSaidBy(j)
<1>1. HarnessInv => Silent
  <2> SUFFICES ASSUME HarnessInv, NEW j \in Jobs, Pipeline[j] \notin {"steps", "quote"},
                      NEW k \in DOMAIN acts[j], NEW w \in NeverSay[j]
               PROVE  ~Includes(InLowerCase(acts[j][k].args["body"].text), <<[word |-> w]>>)
    BY DEF NeverSaidBy
  <2>1. RunFits(j) /\ ~IsQuote(j)
    BY DEF HarnessInv, RunsInv, IsQuote
  <2>2. PICK done, act : done = acts[j] /\ act = done[1]
    OBVIOUS
  <2>3. done = <<>> \/ done = <<act>>
    BY <2>1, <2>2 DEF RunFits, ActFits
  <2>4. done # <<>> /\ done[k] = act
    BY <2>2, <2>3
  <2>5. PICK draft : draft = act.args["body"]
    OBVIOUS
  <2>6. draft \in Drafts /\ ~Says(draft.text, NeverSay[j])
    BY <2>1, <2>2, <2>4, <2>5 DEF RunFits, ReplyFits
  <2>7. draft.text \in Seq(Range(draft.text))
    BY <2>6, HarnessAssumption DEF IsSequence
  <2>8. PICK text : text = draft.text
    OBVIOUS
  <2>9. ~Includes(InLowerCase(text), <<[word |-> w]>>)
    BY <2>6, <2>7, <2>8, SaysNothing
  <2> QED  BY <2>2, <2>4, <2>5, <2>8, <2>9
<1> QED
  BY <1>1, HarnessAlwaysFits, PTL

-----------------------------------------------------------------------------
(* The fusing of two ranked lists: fractions compared, and who comes first. *)

\* Comparing multiples is comparing.
LEMMA Multiplied ==
    ASSUME NEW x \in Nat, NEW y \in Nat, NEW z \in Nat \ {0}
    PROVE  /\ x * z \in Nat /\ y * z \in Nat
           /\ x * z >= y * z <=> x >= y
           /\ x * z > y * z <=> x > y
           /\ x * z = y * z <=> x = y
<1>1. x * z \in Nat /\ y * z \in Nat
  OBVIOUS
<1>2. ASSUME x > y PROVE x * z > y * z
  <2>1. (x - y) * z >= z
    BY <1>2
  <2>2. (x - y) * z = x * z - y * z
    OBVIOUS
  <2> QED  BY <1>1, <2>1, <2>2
<1>3. ASSUME y > x PROVE y * z > x * z
  <2>1. (y - x) * z >= z
    BY <1>3
  <2>2. (y - x) * z = y * z - x * z
    OBVIOUS
  <2> QED  BY <1>1, <2>1, <2>2
<1> QED  BY <1>1, <1>2, <1>3

\* Fractions compare by cross multiplication, and do so transitively.
LEMMA Chained ==
    ASSUME NEW a \in Nat \ {0}, NEW b \in Nat \ {0}, NEW c \in Nat \ {0},
           NEW d \in Nat \ {0}, NEW e \in Nat \ {0}, NEW f \in Nat \ {0},
           a * d >= c * b, c * f >= e * d
    PROVE  /\ a * f >= e * b
           /\ a * f = e * b => a * d = c * b /\ c * f = e * d
<1>1. /\ a * d \in Nat /\ c * b \in Nat /\ c * f \in Nat /\ e * d \in Nat
      /\ a * f \in Nat /\ e * b \in Nat
  OBVIOUS
<1>2. (a * d) * f >= (c * b) * f
  BY <1>1, Multiplied
<1>3. (c * f) * b >= (e * d) * b
  BY <1>1, Multiplied
<1>4. /\ (a * d) * f = (a * f) * d
      /\ (c * b) * f = (c * f) * b
      /\ (e * d) * b = (e * b) * d
  OBVIOUS
<1>5. /\ (a * f) * d \in Nat /\ (c * f) * b \in Nat /\ (e * b) * d \in Nat
      /\ (c * b) * f \in Nat
  BY <1>1
<1>6. a * f >= e * b
  <2>1. (a * f) * d >= (e * b) * d
    BY <1>2, <1>3, <1>4, <1>5
  <2> QED  BY <1>1, <2>1, Multiplied
<1>7. ASSUME a * f = e * b  PROVE a * d = c * b /\ c * f = e * d
  <2>1. (a * f) * d = (e * b) * d
    BY <1>7
  <2>2. (a * d) * f = (c * b) * f /\ (c * f) * b = (e * d) * b
    BY <1>2, <1>3, <1>4, <1>5, <2>1
  <2>3. a * d = c * b
    BY <1>1, <2>2, Multiplied
  <2>4. c * f = e * d
    BY <1>1, <2>2, Multiplied
  <2> QED  BY <2>3, <2>4
<1> QED  BY <1>6, <1>7

\* Of a finite set in which of any two one is ahead of the other, each has a
\* number of its own ahead of it.
LEMMA RankedOnce ==
    ASSUME NEW S, IsFiniteSet(S), NEW ahead \in [S -> SUBSET S],
           \A c \in S : c \notin ahead[c],
           \A c, e \in S : c # e => c \in ahead[e] \/ e \in ahead[c],
           \A c, e \in S : c \in ahead[e] => ahead[c] \subseteq ahead[e]
    PROVE  /\ \A c \in S : Cardinality(ahead[c]) \in 0 .. Cardinality(S) - 1
           /\ \A c, e \in S : c \in ahead[e] => Cardinality(ahead[c]) < Cardinality(ahead[e])
           /\ \A c, e \in S : Cardinality(ahead[c]) = Cardinality(ahead[e]) => c = e
           /\ \A k \in 0 .. Cardinality(S) - 1 : \E c \in S : Cardinality(ahead[c]) = k
<1> DEFINE n == Cardinality(S)
           rank == [c \in S |-> Cardinality(ahead[c])]
<1>1. n \in Nat
  BY FS_CardinalityType
<1>2. ASSUME NEW c \in S
      PROVE  IsFiniteSet(ahead[c]) /\ Cardinality(ahead[c]) \in 0 .. n - 1
  <2>1. ahead[c] \in SUBSET (S \ {c})
    OBVIOUS
  <2>2. IsFiniteSet(S \ {c}) /\ Cardinality(S \ {c}) = n - 1
    BY FS_RemoveElement
  <2>3. IsFiniteSet(ahead[c]) /\ Cardinality(ahead[c]) <= n - 1
    BY <2>1, <2>2, FS_Subset
  <2>4. Cardinality(ahead[c]) \in Nat
    BY <2>3, FS_CardinalityType
  <2> QED  BY <1>1, <2>3, <2>4
<1>3. ASSUME NEW c \in S, NEW e \in S, c \in ahead[e]
      PROVE  Cardinality(ahead[c]) < Cardinality(ahead[e])
  <2>1. ahead[c] \in SUBSET ahead[e] /\ ahead[c] # ahead[e]
    BY <1>3
  <2>2. Cardinality(ahead[c]) <= Cardinality(ahead[e]) /\ Cardinality(ahead[c]) # Cardinality(ahead[e])
    BY <1>2, <2>1, FS_Subset
  <2>3. Cardinality(ahead[c]) \in Nat /\ Cardinality(ahead[e]) \in Nat
    BY <1>1, <1>2
  <2> QED  BY <2>2, <2>3
<1>4. ASSUME NEW c \in S, NEW e \in S, Cardinality(ahead[c]) = Cardinality(ahead[e])
      PROVE  c = e
  <2>1. Cardinality(ahead[c]) \in Nat
    BY <1>1, <1>2
  <2> QED  BY <1>3, <1>4, <2>1
<1>5. ASSUME NEW k \in 0 .. n - 1  PROVE \E c \in S : Cardinality(ahead[c]) = k
  <2>1. rank \in Injection(S, 0 .. n - 1)
    BY <1>2, <1>4 DEF Injection, IsInjective
  <2>2. IsFiniteSet(0 .. n - 1) /\ Cardinality(0 .. n - 1) = n
    BY <1>1, FS_Interval
  <2>3. rank \in Surjection(S, 0 .. n - 1)
    BY <2>1, <2>2, FS_Injection
  <2> QED  BY <2>3 DEF Surjection
<1> QED  BY <1>2, <1>3, <1>4, <1>5

\* A ranked list: no chunk twice, and so many at most.
Ranking(S, n) ==
    {list \in Seq(S) : /\ Len(list) <= n
                       /\ \A i, k \in DOMAIN list : list[i] = list[k] => i = k}

\* Each chunk of a ranking has a rank in it, and no two the same.
LEMMA RankIs ==
    ASSUME NEW S, NEW n \in Nat, NEW list \in Ranking(S, n)
    PROVE  /\ \A c : Has(list, c) => c \in S /\ RankIn(list, c) \in 1 .. n
           /\ \A c, e : Has(list, c) /\ Has(list, e) /\ RankIn(list, c) = RankIn(list, e) => c = e
<1>1. list \in Seq(S) /\ Len(list) <= n /\ Len(list) \in Nat /\ DOMAIN list = 1 .. Len(list)
  BY LenProperties DEF Ranking
<1>2. ASSUME NEW c, Has(list, c)
      PROVE  RankIn(list, c) \in DOMAIN list /\ list[RankIn(list, c)] = c
  BY <1>2 DEF Has, RankIn
<1>3. ASSUME NEW c, Has(list, c)
      PROVE  c \in S /\ RankIn(list, c) \in 1 .. n
  BY <1>1, <1>2, <1>3, ElementOfSeq
<1> QED  BY <1>2, <1>3

\* Two lists, of which the first so many are in, n being within the damping
\* constant and one.
Pairs(lists, S, n) == lists[1] \in Ranking(S, n) /\ lists[2] \in Ranking(S, n)

\* What two rankings have found are chunks of the set they rank.
LEMMA FoundIn ==
    ASSUME NEW lists, NEW S, NEW n \in Nat, Pairs(lists, S, n)
    PROVE  /\ IsFiniteSet(Found(lists)) /\ Found(lists) \subseteq S
           /\ \A c : c \in Found(lists) <=> Has(lists[1], c) \/ Has(lists[2], c)
<1>1. ASSUME NEW list \in Ranking(S, n)
      PROVE  IsFiniteSet({list[k] : k \in DOMAIN list})
  <2>1. Len(list) \in Nat /\ DOMAIN list = 1 .. Len(list)
    BY LenProperties DEF Ranking
  <2>2. IsFiniteSet(1 .. Len(list))
    BY <2>1, FS_Interval
  <2> DEFINE T == {list[k] : k \in DOMAIN list}
             f == [k \in 1 .. Len(list) |-> list[k]]
  <2>3. f \in Surjection(1 .. Len(list), T)
    BY <2>1 DEF Surjection
  <2> QED  BY <2>2, <2>3, FS_Surjection
<1>2. Found(lists) = {lists[1][k] : k \in DOMAIN lists[1]} \cup {lists[2][k] : k \in DOMAIN lists[2]}
  BY DEF Found
<1>3. IsFiniteSet(Found(lists))
  BY <1>1, <1>2, FS_Union DEF Pairs
<1>4. \A c : c \in Found(lists) <=> Has(lists[1], c) \/ Has(lists[2], c)
  BY <1>2 DEF Has
<1>5. Found(lists) \subseteq S
  BY <1>4, RankIs DEF Pairs
<1> QED  BY <1>3, <1>4, <1>5

\* A score is a fraction.
LEMMA ScoreIs ==
    ASSUME NEW lists, NEW S, NEW n \in Nat, Pairs(lists, S, n), K \in Nat,
           NEW c \in Found(lists)
    PROVE  /\ Score(lists, c)[1] \in Nat \ {0} /\ Score(lists, c)[2] \in Nat \ {0}
           /\ Has(lists[1], c) /\ Has(lists[2], c) =>
                 /\ Score(lists, c)[1] = (K + RankIn(lists[1], c)) + (K + RankIn(lists[2], c))
                 /\ Score(lists, c)[2] = (K + RankIn(lists[1], c)) * (K + RankIn(lists[2], c))
           /\ Has(lists[1], c) /\ ~ Has(lists[2], c) =>
                 Score(lists, c)[1] = 1 /\ Score(lists, c)[2] = K + RankIn(lists[1], c)
           /\ ~ Has(lists[1], c) /\ Has(lists[2], c) =>
                 Score(lists, c)[1] = 1 /\ Score(lists, c)[2] = K + RankIn(lists[2], c)
<1>1. Has(lists[1], c) \/ Has(lists[2], c)
  BY FoundIn
<1>2. Has(lists[1], c) => RankIn(lists[1], c) \in 1 .. n
  BY RankIs DEF Pairs
<1>3. Has(lists[2], c) => RankIn(lists[2], c) \in 1 .. n
  BY RankIs DEF Pairs
<1>4. CASE Has(lists[1], c) /\ Has(lists[2], c)
  <2>1. PICK a, b \in 1 .. n : a = RankIn(lists[1], c) /\ b = RankIn(lists[2], c)
    BY <1>2, <1>3, <1>4
  <2>2. Score(lists, c) = <<(K + a) + (K + b), (K + a) * (K + b)>>
    BY <1>4, <2>1 DEF Score
  <2>3. K + a \in Nat \ {0} /\ K + b \in Nat \ {0}
    OBVIOUS
  <2>4. (K + a) * (K + b) \in Nat \ {0}
    BY <2>3
  <2> QED  BY <1>4, <2>1, <2>2, <2>3, <2>4
<1>5. CASE Has(lists[1], c) /\ ~ Has(lists[2], c)
  <2>1. Score(lists, c) = <<1, K + RankIn(lists[1], c)>>
    BY <1>5 DEF Score
  <2> QED  BY <1>2, <1>5, <2>1
<1>6. CASE ~ Has(lists[1], c) /\ Has(lists[2], c)
  <2>1. Score(lists, c) = <<1, K + RankIn(lists[2], c)>>
    BY <1>6 DEF Score
  <2> QED  BY <1>3, <1>6, <2>1
<1> QED  BY <1>1, <1>4, <1>5, <1>6

\* Of any two chunks that were found one is ahead, and being ahead is transitive.
LEMMA AheadOrders ==
    ASSUME NEW lists, NEW S, NEW n \in Nat, Pairs(lists, S, n), K \in Nat
    PROVE  /\ \A c, e \in Found(lists) : c # e => Ahead(lists, c, e) \/ Ahead(lists, e, c)
           /\ \A c, e \in Found(lists) : ~(Ahead(lists, c, e) /\ Ahead(lists, e, c))
           /\ \A c, e, x \in Found(lists) :
                 Ahead(lists, c, e) /\ Ahead(lists, e, x) => Ahead(lists, c, x)
<1> DEFINE A(c) == Has(lists[1], c)
           B(c) == Has(lists[2], c)
           r(c) == RankIn(lists[1], c)
           q(c) == RankIn(lists[2], c)
           u(c) == Score(lists, c)[1]
           v(c) == Score(lists, c)[2]
<1>1. ASSUME NEW c \in Found(lists)
      PROVE  /\ A(c) \/ B(c)
             /\ A(c) => r(c) \in Nat
             /\ B(c) => q(c) \in Nat
             /\ u(c) \in Nat \ {0} /\ v(c) \in Nat \ {0}
  BY FoundIn, RankIs, ScoreIs DEF Pairs
<1>2. ASSUME NEW c \in Found(lists), NEW e \in Found(lists)
      PROVE  /\ A(c) /\ A(e) /\ r(c) = r(e) => c = e
             /\ B(c) /\ B(e) /\ q(c) = q(e) => c = e
  BY RankIs DEF Pairs
<1>3. \A c, e : MetBefore(lists, c, e) <=>
          IF A(c) /\ A(e) THEN r(c) < r(e) ELSE IF A(c) \/ A(e) THEN A(c) ELSE q(c) < q(e)
  BY DEF MetBefore
<1>4. \A c, e : Ahead(lists, c, e) <=>
          \/ u(c) * v(e) > u(e) * v(c)
          \/ u(c) * v(e) = u(e) * v(c) /\ MetBefore(lists, c, e)
  BY DEF Ahead
<1> HIDE DEF A, B, r, q, u, v
<1>5. ASSUME NEW c \in Found(lists), NEW e \in Found(lists)
      PROVE  /\ c # e => MetBefore(lists, c, e) \/ MetBefore(lists, e, c)
             /\ ~(MetBefore(lists, c, e) /\ MetBefore(lists, e, c))
  BY <1>1, <1>2, <1>3
<1>6. ASSUME NEW c \in Found(lists), NEW e \in Found(lists), NEW x \in Found(lists),
             MetBefore(lists, c, e), MetBefore(lists, e, x)
      PROVE  MetBefore(lists, c, x)
  BY <1>1, <1>3, <1>6
<1>7. ASSUME NEW c \in Found(lists), NEW e \in Found(lists)
      PROVE  u(c) * v(e) \in Nat /\ u(e) * v(c) \in Nat
  BY <1>1
<1>8. ASSUME NEW c \in Found(lists), NEW e \in Found(lists), NEW x \in Found(lists),
             Ahead(lists, c, e), Ahead(lists, e, x)
      PROVE  Ahead(lists, c, x)
  <2>1. u(c) * v(e) >= u(e) * v(c) /\ u(e) * v(x) >= u(x) * v(e)
    BY <1>4, <1>7, <1>8
  <2>2. /\ u(c) * v(x) >= u(x) * v(c)
        /\ u(c) * v(x) = u(x) * v(c) => u(c) * v(e) = u(e) * v(c) /\ u(e) * v(x) = u(x) * v(e)
    BY <1>1, <2>1, Chained
  <2> QED  BY <1>4, <1>6, <1>7, <1>8, <2>2
<1> QED  BY <1>4, <1>5, <1>7, <1>8

\* The chunks found stand one behind the other, each behind those ahead of it.
LEMMA FuseRanks ==
    ASSUME NEW lists, NEW S, NEW n \in Nat, Pairs(lists, S, n), K \in Nat,
           NEW limit \in Nat
    PROVE  LET chosen == Fuse(lists, limit)
               length == SmallerOf(limit, Cardinality(Found(lists)))
           IN /\ DOMAIN chosen = 1 .. length /\ length \in Nat
              /\ \A k \in 1 .. length : chosen[k] \in Found(lists)
              /\ \A k \in 1 .. length : \A e \in Found(lists) :
                    e # chosen[k] /\ Ahead(lists, e, chosen[k])
                    => \E i \in 1 .. k - 1 : chosen[i] = e
<1> DEFINE F == Found(lists)
           m == Cardinality(F)
           length == SmallerOf(limit, m)
           chosen == Fuse(lists, limit)
           ahead == [c \in F |-> Before(lists, c)]
<1>1. IsFiniteSet(F) /\ m \in Nat
  BY FoundIn, FS_CardinalityType
<1>2. length \in Nat /\ length <= m
  BY <1>1 DEF SmallerOf
<1>3. /\ \A c \in F : ahead[c] = {e \in F : e # c /\ Ahead(lists, e, c)}
      /\ ahead \in [F -> SUBSET F]
  BY DEF Before
<1> HIDE DEF ahead
<1>4. /\ \A c \in F : Cardinality(ahead[c]) \in 0 .. m - 1
      /\ \A c, e \in F : c \in ahead[e] => Cardinality(ahead[c]) < Cardinality(ahead[e])
      /\ \A c, e \in F : Cardinality(ahead[c]) = Cardinality(ahead[e]) => c = e
      /\ \A k \in 0 .. m - 1 : \E c \in F : Cardinality(ahead[c]) = k
  <2>1. \A c \in F : c \notin ahead[c]
    BY <1>3
  <2>2. \A c, e \in F : c # e => c \in ahead[e] \/ e \in ahead[c]
    BY <1>3, AheadOrders
  <2>3. \A c, e \in F : c \in ahead[e] => ahead[c] \subseteq ahead[e]
    BY <1>3, AheadOrders
  <2> HIDE DEF F
  <2> QED  BY <1>1, <1>3, <2>1, <2>2, <2>3, RankedOnce
<1>5. chosen = [k \in 1 .. length |-> CHOOSE c \in F : Cardinality(Before(lists, c)) = k - 1]
  BY DEF Fuse
<1>6. ASSUME NEW k \in 1 .. length
      PROVE  chosen[k] \in F /\ Cardinality(ahead[chosen[k]]) = k - 1
  <2>1. k - 1 \in 0 .. m - 1
    BY <1>1, <1>2
  <2>2. PICK c \in F : Cardinality(ahead[c]) = k - 1
    BY <1>4, <2>1
  <2>3. \A x \in F : ahead[x] = Before(lists, x)
    BY DEF ahead
  <2>4. chosen[k] = CHOOSE x \in F : Cardinality(Before(lists, x)) = k - 1
    BY <1>5
  <2> HIDE DEF chosen, F
  <2> QED  BY <2>2, <2>3, <2>4
<1>7. ASSUME NEW k \in 1 .. length, NEW e \in F, e # chosen[k], Ahead(lists, e, chosen[k])
      PROVE  \E i \in 1 .. k - 1 : chosen[i] = e
  <2>1. chosen[k] \in F /\ Cardinality(ahead[chosen[k]]) = k - 1
    BY <1>6
  <2>2. e \in ahead[chosen[k]]
    BY <1>3, <1>7, <2>1
  <2> DEFINE i == Cardinality(ahead[e]) + 1
  <2>3. i \in 1 .. k - 1 /\ i \in 1 .. length /\ i - 1 = Cardinality(ahead[e])
    BY <1>1, <1>2, <1>4, <2>1, <2>2
  <2>4. chosen[i] \in F /\ Cardinality(ahead[chosen[i]]) = i - 1
    BY <1>6, <2>3
  <2>5. chosen[i] = e
    BY <1>4, <2>3, <2>4
  <2> QED  BY <2>3, <2>5
<1> HIDE DEF chosen, length
<1> QED  BY <1>2, <1>5, <1>6, <1>7 DEF length, chosen

\* In both lists, at ranks within the damping constant and one, beats first in one.
LEMMA TwiceBeatsOnce ==
    ASSUME NEW k \in Nat, NEW a \in k + 1 .. k + k + 1, NEW b \in k + 1 .. k + k + 1,
           NEW d \in Nat, d >= k + 1
    PROVE  (a + b) * d > a * b
<1> DEFINE t == k + 1
<1>1. /\ a \in Nat \ {0} /\ b \in Nat \ {0} /\ a + b \in Nat \ {0} /\ t \in Nat \ {0}
      /\ t + t > a /\ t + t > b /\ d >= t /\ t + t \in Nat
  OBVIOUS
<1> HIDE DEF t
<1>2. d * (a + b) >= t * (a + b) /\ d * (a + b) \in Nat /\ t * (a + b) \in Nat
  BY <1>1, Multiplied
<1>3. (t + t) * a > b * a /\ (t + t) * a \in Nat /\ b * a \in Nat
  BY <1>1, Multiplied
<1>4. (t + t) * b > a * b /\ (t + t) * b \in Nat /\ a * b \in Nat
  BY <1>1, Multiplied
<1>5. /\ (t + t) * a = t * a + t * a /\ (t + t) * b = t * b + t * b
      /\ t * (a + b) = t * a + t * b /\ b * a = a * b /\ (a + b) * d = d * (a + b)
      /\ t * a \in Nat /\ t * b \in Nat
  BY <1>1
<1> QED  BY <1>2, <1>3, <1>4, <1>5

\* A chunk of both lists, above another in the one that names that: the better score.
LEMMA HigherBeats ==
    ASSUME NEW a \in Nat \ {0}, NEW b \in Nat \ {0}, NEW d \in Nat \ {0}, d > a
    PROVE  (a + b) * d > a * b
<1>1. d * b > a * b /\ d * b \in Nat /\ a * b \in Nat
  BY Multiplied
<1>2. (a + b) * d = a * d + d * b /\ a * d \in Nat
  OBVIOUS
<1> QED  BY <1>1, <1>2

\* Of two chunks of both lists, the one higher in each has the better score.
LEMMA HigherTwiceBeats ==
    ASSUME NEW a \in Nat \ {0}, NEW b \in Nat \ {0}, NEW c \in Nat \ {0}, NEW d \in Nat \ {0},
           c > a, d > b
    PROVE  (a + b) * (c * d) > (c + d) * (a * b)
<1>1. a * c \in Nat \ {0} /\ b * d \in Nat \ {0}
  OBVIOUS
<1>2. d * (a * c) > b * (a * c) /\ d * (a * c) \in Nat /\ b * (a * c) \in Nat
  BY <1>1, Multiplied
<1>3. c * (b * d) > a * (b * d) /\ c * (b * d) \in Nat /\ a * (b * d) \in Nat
  BY <1>1, Multiplied
<1>4. (a + b) * (c * d) = d * (a * c) + c * (b * d)
  OBVIOUS
<1>5. (c + d) * (a * b) = b * (a * c) + a * (b * d)
  OBVIOUS
<1> QED  BY <1>2, <1>3, <1>4, <1>5

\* What both lists name is ahead of what one names, and what is ranked higher
\* in every list that names the other is ahead of it.
LEMMA BetterAhead ==
    ASSUME NEW lists, NEW S, NEW n \in Nat, Pairs(lists, S, n), K \in Nat, n <= K + 1,
           NEW c \in Found(lists), NEW e \in Found(lists),
           \/ /\ Has(lists[1], e) /\ Has(lists[2], e)
              /\ ~(Has(lists[1], c) /\ Has(lists[2], c))
           \/ \A i \in {1, 2} : Has(lists[i], c) =>
                 Has(lists[i], e) /\ RankIn(lists[i], e) < RankIn(lists[i], c)
    PROVE  Ahead(lists, e, c)
<1> DEFINE A(x) == Has(lists[1], x)
           B(x) == Has(lists[2], x)
           r(x) == K + RankIn(lists[1], x)
           q(x) == K + RankIn(lists[2], x)
           u(x) == Score(lists, x)[1]
           v(x) == Score(lists, x)[2]
<1>1. ASSUME NEW x \in Found(lists)
      PROVE  /\ A(x) \/ B(x)
             /\ A(x) => r(x) \in K + 1 .. K + K + 1
             /\ B(x) => q(x) \in K + 1 .. K + K + 1
             /\ A(x) /\ B(x) => u(x) = r(x) + q(x) /\ v(x) = r(x) * q(x)
             /\ A(x) /\ ~ B(x) => u(x) = 1 /\ v(x) = r(x)
             /\ ~ A(x) /\ B(x) => u(x) = 1 /\ v(x) = q(x)
  <2>1. A(x) => RankIn(lists[1], x) \in 1 .. n
    BY RankIs DEF Pairs
  <2>2. B(x) => RankIn(lists[2], x) \in 1 .. n
    BY RankIs DEF Pairs
  <2>3. A(x) \/ B(x)
    BY FoundIn
  <2> QED  BY <2>1, <2>2, <2>3, ScoreIs
<1>2. A(c) /\ A(e) /\ RankIn(lists[1], e) < RankIn(lists[1], c) => r(e) < r(c)
  BY RankIs DEF Pairs
<1>3. B(c) /\ B(e) /\ RankIn(lists[2], e) < RankIn(lists[2], c) => q(e) < q(c)
  BY RankIs DEF Pairs
<1>4. \/ A(e) /\ B(e) /\ ~(A(c) /\ B(c))
      \/ /\ A(c) => A(e) /\ r(e) < r(c)
         /\ B(c) => B(e) /\ q(e) < q(c)
  BY <1>2, <1>3
<1>5. u(e) * v(c) > u(c) * v(e) => Ahead(lists, e, c)
  BY DEF Ahead
<1> HIDE DEF A, B, r, q, u, v
<1>6. CASE A(e) /\ B(e) /\ ~(A(c) /\ B(c))
  <2>1. /\ r(e) \in K + 1 .. K + K + 1 /\ q(e) \in K + 1 .. K + K + 1
        /\ u(e) = r(e) + q(e) /\ v(e) = r(e) * q(e)
        /\ u(c) = 1 /\ v(c) \in K + 1 .. K + K + 1
    BY <1>1, <1>6
  <2>2. (r(e) + q(e)) * v(c) > r(e) * q(e)
    BY <2>1, TwiceBeatsOnce
  <2>3. u(c) * v(e) = r(e) * q(e)
    BY <2>1
  <2> QED  BY <1>5, <2>1, <2>2, <2>3
<1>7. CASE A(c) /\ B(c) /\ A(e) /\ B(e) /\ r(e) < r(c) /\ q(e) < q(c)
  <2>1. /\ r(e) \in Nat \ {0} /\ q(e) \in Nat \ {0} /\ r(c) \in Nat \ {0} /\ q(c) \in Nat \ {0}
        /\ u(e) = r(e) + q(e) /\ v(e) = r(e) * q(e)
        /\ u(c) = r(c) + q(c) /\ v(c) = r(c) * q(c)
    BY <1>1, <1>7
  <2> QED  BY <1>5, <1>7, <2>1, HigherTwiceBeats
<1>8. CASE A(c) /\ ~ B(c) /\ A(e) /\ r(e) < r(c)
  <2>1. /\ r(e) \in Nat \ {0} /\ r(c) \in Nat \ {0} /\ u(c) = 1 /\ v(c) = r(c)
    BY <1>1, <1>8
  <2>2. CASE B(e)
    <3>1. q(e) \in Nat \ {0} /\ u(e) = r(e) + q(e) /\ v(e) = r(e) * q(e)
      BY <1>1, <1>8, <2>2
    <3>2. (r(e) + q(e)) * r(c) > r(e) * q(e)
      BY <1>8, <2>1, <3>1, HigherBeats
    <3> QED  BY <1>5, <2>1, <3>1, <3>2
  <2>3. CASE ~ B(e)
    BY <1>1, <1>5, <1>8, <2>1, <2>3
  <2> QED  BY <2>2, <2>3
<1>9. CASE ~ A(c) /\ B(c) /\ B(e) /\ q(e) < q(c)
  <2>1. /\ q(e) \in Nat \ {0} /\ q(c) \in Nat \ {0} /\ u(c) = 1 /\ v(c) = q(c)
    BY <1>1, <1>9
  <2>2. CASE A(e)
    <3>1. r(e) \in Nat \ {0} /\ u(e) = r(e) + q(e) /\ v(e) = r(e) * q(e)
      BY <1>1, <1>9, <2>2
    <3>2. (q(e) + r(e)) * q(c) > q(e) * r(e)
      BY <1>9, <2>1, <3>1, HigherBeats
    <3>3. q(e) + r(e) = r(e) + q(e) /\ q(e) * r(e) = r(e) * q(e)
      BY <2>1, <3>1
    <3> QED  BY <1>5, <2>1, <3>1, <3>2, <3>3
  <2>3. CASE ~ A(e)
    BY <1>1, <1>5, <1>9, <2>1, <2>3
  <2> QED  BY <2>2, <2>3
<1> QED  BY <1>1, <1>4, <1>6, <1>7, <1>8, <1>9

-----------------------------------------------------------------------------
(* What the two queries of a search have brought, until they are fused.     *)

ChunksOf(o) == {c \in Chunk : UploadOrg[c.doc] = o}

\* searchSemantic ranks chunks of the organisation, each once.
LEMMA NearestRanks ==
    ASSUME chunks \subseteq Chunk, IsFiniteSet(chunks), NEW o, NEW n \in Nat
    PROVE  Nearest(o, n) \subseteq Ranking(ChunksOf(o), n)
<1>1. Searchable(o) \subseteq ChunksOf(o) /\ IsFiniteSet(Searchable(o))
  BY FS_Subset DEF Searchable, ChunksOf
<1>2. ASSUME NEW best \in SUBSET Searchable(o), Cardinality(best) <= n, NEW list \in SetToSeqs(best)
      PROVE  list \in Ranking(ChunksOf(o), n)
  <2>1. Cardinality(best) \in Nat
    BY <1>1, FS_Subset, FS_CardinalityType
  <2>2. list \in [1 .. Cardinality(best) -> best]
    BY <1>2 DEF SetToSeqs
  <2>3. \A i, k \in 1 .. Cardinality(best) : list[i] = list[k] => i = k
    BY <1>2 DEF SetToSeqs
  <2>4. list \in Seq(ChunksOf(o)) /\ Len(list) = Cardinality(best) /\ DOMAIN list = 1 .. Cardinality(best)
    BY <1>1, <2>1, <2>2
  <2> QED  BY <1>2, <2>3, <2>4 DEF Ranking
<1>3. SmallerOf(n, Cardinality(Searchable(o))) <= n
  <2>1. Cardinality(Searchable(o)) \in Nat
    BY <1>1, FS_CardinalityType
  <2> QED  BY <2>1 DEF SmallerOf
<1> QED
  BY <1>2, <1>3 DEF Nearest, kSubset

\* So does searchKeyword.
LEMMA MatchingRanks ==
    ASSUME chunks \subseteq Chunk, IsFiniteSet(chunks), NEW o, NEW n \in Nat
    PROVE  Matching(o, n) \subseteq Ranking(ChunksOf(o), n)
<1>1. Searchable(o) \subseteq ChunksOf(o) /\ IsFiniteSet(Searchable(o))
  BY FS_Subset DEF Searchable, ChunksOf
<1>2. ASSUME NEW best \in SUBSET Searchable(o), Cardinality(best) <= n, NEW list \in SetToSeqs(best)
      PROVE  list \in Ranking(ChunksOf(o), n)
  <2>1. Cardinality(best) \in Nat
    BY <1>1, FS_Subset, FS_CardinalityType
  <2>2. list \in [1 .. Cardinality(best) -> best]
    BY <1>2 DEF SetToSeqs
  <2>3. \A i, k \in 1 .. Cardinality(best) : list[i] = list[k] => i = k
    BY <1>2 DEF SetToSeqs
  <2>4. list \in Seq(ChunksOf(o)) /\ Len(list) = Cardinality(best) /\ DOMAIN list = 1 .. Cardinality(best)
    BY <1>1, <2>1, <2>2
  <2> QED  BY <1>2, <2>3, <2>4 DEF Ranking
<1> QED
  BY <1>2 DEF Matching

\* A run that asks nothing holds what it held or nothing.
Settled(j) ==
    \/ runs'[j].lists = runs[j].lists /\ runs'[j].asked = runs[j].asked
    \/ runs'[j].lists = <<NoLists, NoLists>> /\ runs'[j].asked = {}

\* A run that keeps its lists, or drops them, is settled.
LEMMA BecomesSettled ==
    ASSUME DOMAIN runs = Jobs, NEW j \in Jobs, NEW run, Becomes(j, run),
           \/ run.lists = runs[j].lists /\ run.asked = runs[j].asked
           \/ run.lists = <<NoLists, NoLists>> /\ run.asked = {}
    PROVE  Settled(j)
BY DEF Becomes, Settled

\* The operations on a run bring no new list.
LEMMA OperationsSettled ==
    ASSUME DOMAIN runs = Jobs, NEW j \in Jobs, Shape(runs[j]),
           \/ \E status, why : Settles(j, status, why)
           \/ \E why : Fails(j, why)
           \/ \E pc : Goes(j, pc)
           \/ \E values : Stores(j, values)
           \/ \E pc, values : Reads(j, pc, values)
    PROVE  Settled(j)
<1>0. PICK q : q = runs[j] /\ DOMAIN q = {"pc", "todo", "store", "lists", "asked", "status", "why"}
  BY DEF Shape
<1>1. ASSUME NEW status, NEW why, Settles(j, status, why)  PROVE Settled(j)
  <2> DEFINE run == [q EXCEPT !.pc = "over", !.status = status, !.why = why, !.todo = <<>>]
  <2>1. run.lists = q.lists /\ run.asked = q.asked
    BY <1>0
  <2>2. Becomes(j, run)
    BY <1>0, <1>1 DEF Settles
  <2> HIDE DEF run
  <2> QED  BY <1>0, <2>1, <2>2, BecomesSettled
<1>2. ASSUME NEW why, Fails(j, why)  PROVE Settled(j)
  BY <1>1, <1>2 DEF Fails
<1>3. ASSUME NEW pc, Goes(j, pc)  PROVE Settled(j)
  <2> DEFINE run == [q EXCEPT !.pc = pc]
  <2>1. run.lists = q.lists /\ run.asked = q.asked
    BY <1>0
  <2>2. Becomes(j, run)
    BY <1>0, <1>3 DEF Goes
  <2> HIDE DEF run
  <2> QED  BY <1>0, <2>1, <2>2, BecomesSettled
<1>4. ASSUME NEW values, Stores(j, values)  PROVE Settled(j)
  <2> DEFINE run == [q EXCEPT !.pc = "step", !.todo = Tail(@), !.store = With(@, values),
                              !.lists = <<NoLists, NoLists>>, !.asked = {}]
  <2>1. run.lists = <<NoLists, NoLists>> /\ run.asked = {}
    BY <1>0
  <2>2. Becomes(j, run)
    BY <1>0, <1>4 DEF Stores
  <2> HIDE DEF run
  <2> QED  BY <2>1, <2>2, BecomesSettled
<1>5. ASSUME NEW pc, NEW values, Reads(j, pc, values)  PROVE Settled(j)
  <2> DEFINE run == [q EXCEPT !.pc = pc, !.store = With(@, values)]
  <2>1. run.lists = q.lists /\ run.asked = q.asked
    BY <1>0
  <2>2. Becomes(j, run)
    BY <1>0, <1>5 DEF Reads
  <2> HIDE DEF run
  <2> QED  BY <1>0, <2>1, <2>2, BecomesSettled
<1> QED
  BY <1>1, <1>2, <1>3, <1>4, <1>5

\* Neither does proposing an action.
LEMMA ProposeSettled ==
    ASSUME DOMAIN runs = Jobs, NEW j \in Jobs, Shape(runs[j]), NEW tool, NEW args,
           Propose(j, tool, args)
    PROVE  Settled(j)
BY OperationsSettled DEF Propose

\* Every step but the fetches settles its run.
LEMMA EngineSettled ==
    ASSUME DOMAIN runs = Jobs, NEW j \in Jobs, Shape(runs[j]), StepEngine(j),
           ~FetchNearest(j), ~FetchMatching(j)
    PROVE  Settled(j)
<1>1. CASE ExtractStep(j)
  BY <1>1, OperationsSettled DEF ExtractStep
<1>2. CASE LookupStep(j)
  <2>1. \E values : Fails(j, "lookup") \/ Stores(j, values)
    BY <1>2 DEF LookupStep
  <2> QED  BY <2>1, OperationsSettled
<1>3. CASE ComputeStep(j)
  <2>1. \E values : Fails(j, "compute") \/ Stores(j, values)
    BY <1>3 DEF ComputeStep
  <2> QED  BY <2>1, OperationsSettled
<1>4. CASE RetrieveStep(j) \/ EmbedQuery(j)
  BY <1>4, OperationsSettled DEF RetrieveStep, EmbedQuery
<1>5. CASE FuseLists(j)
  <2>1. \E values : Stores(j, values)
    BY <1>5 DEF FuseLists
  <2> QED  BY <2>1, OperationsSettled
<1>6. CASE ComposeStep(j)
  <2>1. \E values, why : Fails(j, why) \/ Stores(j, values)
    BY <1>6 DEF ComposeStep
  <2> QED  BY <2>1, OperationsSettled
<1>7. CASE ActStep(j)
  BY <1>7, ProposeSettled DEF ActStep
<1>8. CASE BranchStep(j)
  <2>1. PICK todo : Becomes(j, [runs[j] EXCEPT !.todo = todo])
    BY <1>8 DEF BranchStep
  <2> DEFINE run == [runs[j] EXCEPT !.todo = todo]
  <2>2. run.lists = runs[j].lists /\ run.asked = runs[j].asked
    BY DEF Shape
  <2> HIDE DEF run
  <2> QED  BY <2>1, <2>2, BecomesSettled DEF run
<1>9. CASE FinishSteps(j)
  BY <1>9, OperationsSettled DEF FinishSteps
<1> QED
  BY <1>1, <1>2, <1>3, <1>4, <1>5, <1>6, <1>7, <1>8, <1>9 DEF StepEngine

\* Nor starting the run.
LEMMA StartSettled ==
    ASSUME DOMAIN runs = Jobs, NEW j \in Jobs, Shape(runs[j]), StartRun(j)
    PROVE  Settled(j)
<1>1. CASE \E status, why : Settles(j, status, why)
  BY <1>1, OperationsSettled
<1>2. CASE \E why : Fails(j, why)
  BY <1>2, OperationsSettled
<1>3. CASE \E pc : Becomes(j, [runs[j] EXCEPT !.status = "RUNNING", !.todo = Programme[j],
                                              !.store = Known(j), !.pc = pc])
  <2>1. PICK pc : Becomes(j, [runs[j] EXCEPT !.status = "RUNNING", !.todo = Programme[j],
                                             !.store = Known(j), !.pc = pc])
    BY <1>3
  <2> DEFINE run == [runs[j] EXCEPT !.status = "RUNNING", !.todo = Programme[j],
                                    !.store = Known(j), !.pc = pc]
  <2>2. run.lists = runs[j].lists /\ run.asked = runs[j].asked
    BY DEF Shape
  <2> HIDE DEF run
  <2> QED  BY <2>1, <2>2, BecomesSettled DEF run
<1> QED
  BY <1>1, <1>2, <1>3, Zenon DEF StartRun

\* Nor the reply pipelines.
LEMMA RepliesSettled ==
    ASSUME DOMAIN runs = Jobs, NEW j \in Jobs, Shape(runs[j]), ReplyPipelines(j)
    PROVE  Settled(j)
<1>1. CASE QuoteExtract(j)
  <2>1. \E values : Fails(j, "model") \/ Reads(j, "customer", values)
    BY <1>1 DEF QuoteExtract
  <2> QED  BY <2>1, OperationsSettled
<1>2. CASE QuoteCustomer(j)
  <2>1. \E values : Goes(j, "product") \/ Reads(j, "product", values)
    BY <1>2 DEF QuoteCustomer
  <2> QED  BY <2>1, OperationsSettled
<1>3. CASE QuoteProduct(j)
  <2>1. \E values, why : Fails(j, why) \/ Reads(j, "draft", values)
    BY <1>3 DEF QuoteProduct
  <2> QED  BY <2>1, OperationsSettled
<1>4. CASE QuoteDraft(j)
  <2>1. \E values : Fails(j, "model") \/ Reads(j, "propose", values)
    BY <1>4 DEF QuoteDraft
  <2> QED  BY <2>1, OperationsSettled
<1>5. CASE AcknowledgeExtract(j)
  <2>1. \E values, why : Fails(j, why) \/ Reads(j, "customer", values)
    BY <1>5 DEF AcknowledgeExtract
  <2> QED  BY <2>1, OperationsSettled
<1>6. CASE AcknowledgeCustomer(j)
  <2>1. PICK values, todo :
            Becomes(j, [runs[j] EXCEPT !.pc = "fields", !.store = With(@, values), !.todo = todo])
    BY <1>6 DEF AcknowledgeCustomer
  <2> DEFINE run == [runs[j] EXCEPT !.pc = "fields", !.store = With(@, values), !.todo = todo]
  <2>2. run.lists = runs[j].lists /\ run.asked = runs[j].asked
    BY DEF Shape
  <2> HIDE DEF run
  <2> QED  BY <2>1, <2>2, BecomesSettled DEF run
<1>7. CASE AcknowledgeField(j)
  <2>1. PICK store, todo : Becomes(j, [runs[j] EXCEPT !.store = store, !.todo = todo])
                        \/ Becomes(j, [runs[j] EXCEPT !.todo = todo])
    BY <1>7 DEF AcknowledgeField
  <2> DEFINE run == [runs[j] EXCEPT !.store = store, !.todo = todo]
             same == [runs[j] EXCEPT !.todo = todo]
  <2>2. /\ run.lists = runs[j].lists /\ run.asked = runs[j].asked
        /\ same.lists = runs[j].lists /\ same.asked = runs[j].asked
    BY DEF Shape
  <2> HIDE DEF run, same
  <2> QED  BY <2>1, <2>2, BecomesSettled DEF run, same
<1>8. CASE AcknowledgeDraft(j)
  <2>1. \E values, why : Fails(j, why) \/ Reads(j, "propose", values)
    BY <1>8 DEF AcknowledgeDraft
  <2> QED  BY <2>1, OperationsSettled
<1>9. CASE ProposeReply(j)
  BY <1>9, ProposeSettled DEF ProposeReply
<1> QED
  BY <1>1, <1>2, <1>3, <1>4, <1>5, <1>6, <1>7, <1>8, <1>9 DEF ReplyPipelines

\* A run has only asked while it searches, and what it was told ranks chunks of
\* its own organisation, no more than it asked for.
SearchFits(j) ==
    /\ runs[j].asked \subseteq {1, 2}
    /\ DOMAIN runs[j].lists = {1, 2}
    /\ runs[j].asked # {} => runs[j].pc = "search"
    /\ \A i \in runs[j].asked :
          runs[j].lists[i] \in Ranking(ChunksOf(OrgOf[j]), OverFetch * LimitOf(j))

SearchInv == IsFiniteSet(chunks) /\ \A j \in Jobs : SearchFits(j)

\* A query answered adds its ranking, and leaves the other as it was.
LEMMA FetchSearches ==
    ASSUME RunsInv, NEW j \in Jobs, SearchFits(j), runs[j].pc = "search", NEW side \in {1, 2},
           NEW list \in Ranking(ChunksOf(OrgOf[j]), OverFetch * LimitOf(j)), Fetch(j, side, list)
    PROVE  SearchFits(j)'
<1>0. PICK q : q = runs[j] /\ DOMAIN q = {"pc", "todo", "store", "lists", "asked", "status", "why"}
  BY DEF RunsInv, RunFits, Shape
<1> DEFINE lists == [q.lists EXCEPT ![side] = list]
           asked == q.asked \cup {side}
           run == [q EXCEPT !.lists[side] = list, !.asked = @ \cup {side}]
<1>1. Becomes(j, run)
  BY <1>0 DEF Fetch
<1>2. run = [q EXCEPT !.lists = lists, !.asked = asked]
  OBVIOUS
<1>3. /\ DOMAIN lists = {1, 2} /\ lists[side] = list
      /\ \A i \in {1, 2} \ {side} : lists[i] = q.lists[i]
  BY <1>0 DEF SearchFits
<1> HIDE DEF run, lists
<1>4. run.lists = lists /\ run.asked = asked /\ run.pc = q.pc /\ run.todo = q.todo
  BY <1>0, <1>2
<1>5. runs'[j] = run
  BY <1>1 DEF Becomes, RunsInv
<1>6. LimitOf(j)' = LimitOf(j)
  BY <1>0, <1>4, <1>5 DEF LimitOf, Step
<1>7. \A i \in asked : lists[i] \in Ranking(ChunksOf(OrgOf[j]), OverFetch * LimitOf(j))
  BY <1>0, <1>3 DEF SearchFits
<1> QED
  BY <1>0, <1>3, <1>4, <1>5, <1>6, <1>7 DEF SearchFits

\* A run that settles while it is not asking, or by fusing what it was told.
LEMMA SettledSearches ==
    ASSUME NEW j \in Jobs, SearchFits(j), Settled(j),
           runs[j].asked = {} \/ runs'[j].asked = {}
    PROVE  SearchFits(j)' /\ runs'[j].asked = {}
<1>1. DOMAIN <<NoLists, NoLists>> = {1, 2}
  OBVIOUS
<1> QED
  BY <1>1 DEF SearchFits, Settled

\* What a retrieve step asks for: at least one passage, and of each side no more
\* than the damping constant and one.
LEMMA LimitsOfSearch ==
    ASSUME RunsInv, NEW j \in Jobs, runs[j].pc = "search"
    PROVE  /\ LimitOf(j) \in Nat \ {0} /\ OverFetch * LimitOf(j) \in Nat
           /\ OverFetch * LimitOf(j) <= K + 1 /\ K \in Nat
           /\ Pipeline[j] = "steps" /\ Step(j) = Head(runs[j].todo)
<1>1. Pipeline[j] = "steps" /\ StepsFit(j)
  BY StepComes
<1>2. runs[j].todo # <<>> /\ Head(runs[j].todo).kind = "retrieve"
  BY <1>1 DEF StepsFit
<1>3. Step(j) \in Leaves(Programme[j]) /\ Step(j).kind = "retrieve"
  BY <1>1, <1>2, NextStep, LeafStep DEF Step
<1>4. WellFormed(Programme[j])
  BY HarnessAssumption
<1>5. LimitIn(Step(j)) \in Nat \ {0}
  BY <1>3, <1>4 DEF WellFormed
<1>6. OverFetch \in Nat /\ OverFetch * LimitIn(Step(j)) <= K + 1 /\ K \in Nat
  BY <1>3, FusionAssumption
<1> QED
  BY <1>1, <1>5, <1>6 DEF LimitOf, Step

\* While a run searches, it only fetches and fuses.
LEMMA SearchSteps ==
    ASSUME RunsInv, NEW j \in Jobs, runs[j].pc = "search", RunSteps(j)
    PROVE  FetchNearest(j) \/ FetchMatching(j) \/ FuseLists(j)
BY DEF RunSteps, StartRun, StepEngine, ReplyPipelines, ExtractStep, LookupStep, ComputeStep,
       RetrieveStep, EmbedQuery, ComposeStep, ActStep, BranchStep, FinishSteps, Comes, At,
       QuoteExtract, QuoteCustomer, QuoteProduct, QuoteDraft, AcknowledgeExtract,
       AcknowledgeCustomer, AcknowledgeField, AcknowledgeDraft, ProposeReply

\* Whatever the run does, its lists stay rankings of its own chunks.
LEMMA RunSearches ==
    ASSUME RunsInv, KnowledgeTypeOK, SearchInv, NEW j \in Jobs, RunSteps(j)
    PROVE  SearchFits(j)'
<1>1. DOMAIN runs = Jobs /\ Shape(runs[j]) /\ SearchFits(j)
  BY DEF RunsInv, RunFits, SearchInv
<1>2. CASE FetchNearest(j)
  <2>1. runs[j].pc = "search"
    BY <1>2 DEF FetchNearest, At
  <2>2. Nearest(OrgOf[j], OverFetch * LimitOf(j))
            \subseteq Ranking(ChunksOf(OrgOf[j]), OverFetch * LimitOf(j))
    BY <2>1, LimitsOfSearch, NearestRanks DEF KnowledgeTypeOK, SearchInv
  <2>3. PICK list \in Nearest(OrgOf[j], OverFetch * LimitOf(j)) : Fetch(j, 1, list)
    BY <1>2 DEF FetchNearest
  <2> QED  BY <1>1, <2>1, <2>2, <2>3, FetchSearches
<1>3. CASE FetchMatching(j)
  <2>1. runs[j].pc = "search"
    BY <1>3 DEF FetchMatching, At
  <2>2. Matching(OrgOf[j], OverFetch * LimitOf(j))
            \subseteq Ranking(ChunksOf(OrgOf[j]), OverFetch * LimitOf(j))
    BY <2>1, LimitsOfSearch, MatchingRanks DEF KnowledgeTypeOK, SearchInv
  <2>3. PICK list \in Matching(OrgOf[j], OverFetch * LimitOf(j)) : Fetch(j, 2, list)
    BY <1>3 DEF FetchMatching
  <2> QED  BY <1>1, <2>1, <2>2, <2>3, FetchSearches
<1>4. CASE ~FetchNearest(j) /\ ~FetchMatching(j)
  <2>1. Settled(j)
    BY <1>1, <1>4, EngineSettled, StartSettled, RepliesSettled DEF RunSteps
  <2>2. CASE runs[j].asked = {}
    BY <1>1, <2>1, <2>2, SettledSearches
  <2>3. CASE runs[j].asked # {}
    <3>1. FuseLists(j)
      BY <1>1, <1>4, <2>3, SearchSteps DEF SearchFits
    <3>2. PICK values : Stores(j, values)
      BY <3>1 DEF FuseLists
    <3> DEFINE run == [runs[j] EXCEPT !.pc = "step", !.todo = Tail(@), !.store = With(@, values),
                                      !.lists = <<NoLists, NoLists>>, !.asked = {}]
    <3>3. run.asked = {}
      BY <1>1 DEF Shape
    <3>4. Becomes(j, run)
      BY <3>2 DEF Stores
    <3> HIDE DEF run
    <3>5. runs'[j].asked = {}
      BY <1>1, <3>3, <3>4 DEF Becomes
    <3> QED  BY <1>1, <2>1, <3>5, SettledSearches
  <2> QED  BY <2>2, <2>3
<1> QED
  BY <1>2, <1>3, <1>4

\* A page step stores or removes finitely many chunks.
LEMMA ChunksFinite ==
    ASSUME IsFiniteSet(chunks), NEW u, UploadSteps(u) \/ DeleteDocument(u)
    PROVE  IsFiniteSet(chunks')
<1>1. chunks' \subseteq chunks \/ \E c : chunks' = chunks \cup {c}
  BY DEF UploadSteps, DeleteDocument, Without, InsertChunk, SubmitDocument, FindProvider, EmbedChunks,
         CreateDocument, BreakOff, ReportAdded, NothingStored
<1> QED
  BY <1>1, FS_Subset, FS_AddElement

\* Only j's run moves.
LEMMA OnlyOneMoves ==
    ASSUME RunsInv, NEW j \in Jobs, RunSteps(j)
    PROVE  \A i \in Jobs \ {j} : runs'[i] = runs[i]
<1>1. CASE StartRun(j)
  BY <1>1, StartKeeps DEF RunsInv, StartRun, NoAct
<1> QED
  BY <1>1, StepEngineKeeps, RepliesKeep DEF RunSteps

\* Every step keeps what is known of the searches.
LEMMA SearchStep == HarnessInv /\ SearchInv /\ [Next]_vars => SearchInv'
<1> SUFFICES ASSUME HarnessInv, SearchInv, [Next]_vars PROVE SearchInv'
  OBVIOUS
<1>1. RunsInv /\ KnowledgeTypeOK /\ cast \in Casts
  BY DEF HarnessInv, RunsInv, DocumentsInv
<1>2. ASSUME NEW i \in Jobs, runs'[i] = runs[i]  PROVE SearchFits(i)'
  BY <1>2 DEF SearchInv, SearchFits, LimitOf, Step
<1>3. ASSUME NEW j \in cast.jobs, RunSteps(j), UNCHANGED knowledgeVars  PROVE SearchInv'
  <2>1. j \in Jobs
    BY <1>1, CastsWithin
  <2>2. SearchFits(j)'
    BY <1>1, <1>3, <2>1, RunSearches
  <2>3. \A i \in Jobs \ {j} : SearchFits(i)'
    BY <1>1, <1>2, <1>3, <2>1, OnlyOneMoves
  <2> QED  BY <1>3, <2>2, <2>3 DEF SearchInv, knowledgeVars
<1>4. CASE PageSteps /\ UNCHANGED runs
  <2>1. IsFiniteSet(chunks')
    BY <1>4, ChunksFinite DEF PageSteps, SearchInv
  <2> QED  BY <1>2, <1>4, <2>1 DEF SearchInv
<1>5. CASE UNCHANGED <<knowledgeVars, runs>>
  BY <1>2, <1>5 DEF SearchInv, knowledgeVars
<1> QED
  BY <1>3, <1>4, <1>5 DEF Next, vars

\* Nothing has been searched at first.
LEMMA SearchStart == Init => SearchInv
<1> SUFFICES ASSUME Init PROVE SearchInv
  OBVIOUS
<1>1. chunks = {} /\ \A j \in Jobs : runs[j] = NewRun
  BY DEF Init, KnowledgeInit
<1>2. NewRun.asked = {} /\ NewRun.lists = <<NoLists, NoLists>>
  <2> DEFINE nothing == [n \in {} |-> Nothing]
             lists == <<NoLists, NoLists>>
  <2>1. NewRun = [pc |-> "new", todo |-> <<>>, store |-> nothing, lists |-> lists,
                  asked |-> {}, status |-> "NONE", why |-> ""]
    BY Zenon DEF NewRun
  <2> HIDE DEF nothing, lists
  <2>2. NewRun.asked = {} /\ NewRun.lists = lists
    BY <2>1
  <2> QED  BY <2>2 DEF lists
<1>3. DOMAIN <<NoLists, NoLists>> = {1, 2}
  OBVIOUS
<1>4. \A j \in Jobs : SearchFits(j)
  BY <1>1, <1>2, <1>3 DEF SearchFits
<1> QED
  BY <1>1, <1>4, FS_EmptySet DEF SearchInv

\* Functions that agree on one domain are the same.
LEMMA SameFunctions ==
    ASSUME NEW f, NEW g, f = [k \in DOMAIN f |-> f[k]], g = [k \in DOMAIN g |-> g[k]],
           DOMAIN f = DOMAIN g, \A k \in DOMAIN g : f[k] = g[k]
    PROVE  f = g
OBVIOUS

\* What the fusion of a run's two lists is.
LEMMA FusedRanks ==
    ASSUME RunsInv, SearchInv, NEW j \in Jobs, FuseLists(j)
    PROVE  LET lists == runs[j].lists
               chosen == Fuse(lists, LimitOf(j))
               length == SmallerOf(LimitOf(j), Cardinality(Found(lists)))
           IN /\ Pairs(lists, ChunksOf(OrgOf[j]), OverFetch * LimitOf(j))
              /\ DOMAIN chosen = 1 .. length /\ length \in Nat
              /\ \A k \in 1 .. length : chosen[k] \in Found(lists)
              /\ \A k \in 1 .. length : \A e \in Found(lists) :
                    e # chosen[k] /\ Ahead(lists, e, chosen[k])
                    => \E i \in 1 .. k - 1 : chosen[i] = e
<1>1. runs[j].pc = "search" /\ runs[j].asked = {1, 2} /\ SearchFits(j)
  BY DEF FuseLists, At, SearchInv
<1>2. PICK n \in Nat : n = OverFetch * LimitOf(j)
  BY <1>1, LimitsOfSearch
<1>3. Pairs(runs[j].lists, ChunksOf(OrgOf[j]), n)
  BY <1>1, <1>2 DEF SearchFits, Pairs
<1>4. K \in Nat /\ LimitOf(j) \in Nat
  BY <1>1, LimitsOfSearch
<1> QED  BY <1>2, <1>3, <1>4, FuseRanks

\* What the run has under the step's name then.
LEMMA FusedText ==
    ASSUME RunsInv, NEW j \in Jobs, FuseLists(j)
    PROVE  LET chosen == Fuse(runs[j].lists, LimitOf(j))
           IN /\ runs'[j].store = With(runs[j].store, Named(Step(j).as,
                     [text |-> [k \in DOMAIN chosen |-> [passage |-> chosen[k]]]]))
              /\ runs'[j].store[Step(j).as] = [text |-> [k \in DOMAIN chosen |-> [passage |-> chosen[k]]]]
<1> DEFINE chosen == Fuse(runs[j].lists, LimitOf(j))
           value == [text |-> [k \in DOMAIN chosen |-> [passage |-> chosen[k]]]]
           as == Step(j).as
<1>1. DOMAIN runs = Jobs /\ Shape(runs[j])
  BY DEF RunsInv, RunFits
<1>2. Stores(j, Named(as, value))
  BY DEF FuseLists
<1> HIDE DEF value, as
<1>3. runs'[j].store = With(runs[j].store, Named(as, value))
  BY <1>1, <1>2, StoresMoves DEF Moved
<1>4. PICK old : old = runs[j].store
  OBVIOUS
<1>5. With(old, Named(as, value))[as] = value
  BY DEF With, Named
<1> QED
  BY <1>3, <1>4, <1>5 DEF value, as

\* search and its fusion by rank: "a chunk ranked 5th semantically and 5th by
\* keyword can legitimately beat one ranked 1st by only one of them".  What both
\* queries name comes before what one names, and nothing is left out for
\* something ranked below it in both, whatever the rankings, the number of
\* chunks and what other actors store and delete between the two queries; as
\* long as no side fetches more than the damping constant and one.
THEOREM BestFirst == Spec => BothBeatOne
<1> DEFINE A == \A j \in Jobs : runs[j].asked = {1, 2} /\ runs'[j].asked = {} =>
         LET lists == runs[j].lists
             text == runs'[j].store[Head(runs[j].todo).as].text
             chosen == [k \in DOMAIN text |-> text[k].passage]
             inBoth(c) == Has(lists[1], c) /\ Has(lists[2], c)
             above(c, e) == c # e /\ \A i \in {1, 2} : Has(lists[i], e) =>
                 Has(lists[i], c) /\ RankIn(lists[i], c) < RankIn(lists[i], e)
         IN /\ Len(chosen) = SmallerOf(LimitOf(j), Cardinality(Found(lists)))
            /\ \A k \in DOMAIN chosen : \A e \in Found(lists) :
                 (inBoth(e) /\ ~inBoth(chosen[k])) \/ above(e, chosen[k]) =>
                     \E i \in 1 .. k - 1 : chosen[i] = e
<1>1. HarnessInv /\ SearchInv /\ [Next]_vars => [A]_runs
  <2> SUFFICES ASSUME HarnessInv, SearchInv, Next, NEW j \in Jobs,
                      runs[j].asked = {1, 2}, runs'[j].asked = {}
               PROVE  LET lists == runs[j].lists
                          text == runs'[j].store[Head(runs[j].todo).as].text
                          chosen == [k \in DOMAIN text |-> text[k].passage]
                          inBoth(c) == Has(lists[1], c) /\ Has(lists[2], c)
                          above(c, e) == c # e /\ \A i \in {1, 2} : Has(lists[i], e) =>
                              Has(lists[i], c) /\ RankIn(lists[i], c) < RankIn(lists[i], e)
                      IN /\ Len(chosen) = SmallerOf(LimitOf(j), Cardinality(Found(lists)))
                         /\ \A k \in DOMAIN chosen : \A e \in Found(lists) :
                              (inBoth(e) /\ ~inBoth(chosen[k])) \/ above(e, chosen[k]) =>
                                  \E i \in 1 .. k - 1 : chosen[i] = e
    BY DEF vars
  <2>1. RunsInv /\ SearchFits(j) /\ cast \in Casts
    BY DEF HarnessInv, RunsInv, SearchInv
  <2>2. RunSteps(j)
    <3>1. runs' # runs
      BY <2>1 DEF SearchFits
    <3>2. PICK i \in cast.jobs : RunSteps(i)
      BY <3>1 DEF Next
    <3>3. i \in Jobs
      BY <2>1, CastsWithin
    <3>4. i # j => runs'[j] = runs[j]
      BY <2>1, <3>2, <3>3, OnlyOneMoves
    <3>5. {1, 2} # {}
      OBVIOUS
    <3> QED  BY <3>2, <3>4, <3>5
  <2>3. runs[j].pc = "search"
    BY <2>1 DEF SearchFits
  <2>4. FuseLists(j)
    BY <2>1, <2>2, <2>3, SearchSteps DEF FetchNearest, FetchMatching
  <2> DEFINE lists == runs[j].lists
             fused == Fuse(lists, LimitOf(j))
             length == SmallerOf(LimitOf(j), Cardinality(Found(lists)))
             text == runs'[j].store[Head(runs[j].todo).as].text
             chosen == [k \in DOMAIN text |-> text[k].passage]
             S == ChunksOf(OrgOf[j])
             inBoth(c) == Has(lists[1], c) /\ Has(lists[2], c)
             above(c, e) == c # e /\ \A i \in {1, 2} : Has(lists[i], e) =>
                 Has(lists[i], c) /\ RankIn(lists[i], c) < RankIn(lists[i], e)
  <2>5. PICK n \in Nat : n = OverFetch * LimitOf(j)
    BY <2>1, <2>3, LimitsOfSearch
  <2>6. n <= K + 1 /\ K \in Nat
    BY <2>1, <2>3, <2>5, LimitsOfSearch
  <2>7. /\ Pairs(lists, S, n)
        /\ DOMAIN fused = 1 .. length /\ length \in Nat
        /\ \A k \in 1 .. length : fused[k] \in Found(lists)
        /\ \A k \in 1 .. length : \A e \in Found(lists) :
              e # fused[k] /\ Ahead(lists, e, fused[k])
              => \E i \in 1 .. k - 1 : fused[i] = e
    BY <2>1, <2>4, <2>5, FusedRanks
  <2>8. chosen = fused
    <3>1. runs'[j].store[Step(j).as] = [text |-> [k \in DOMAIN fused |-> [passage |-> fused[k]]]]
      BY <2>1, <2>4, FusedText
    <3>2. text = [k \in DOMAIN fused |-> [passage |-> fused[k]]]
      BY <3>1 DEF Step
    <3> HIDE DEF text, fused
    <3>3. DOMAIN chosen = DOMAIN fused /\ \A k \in DOMAIN fused : chosen[k] = fused[k]
      BY <3>2
    <3>4. fused = [k \in DOMAIN fused |-> fused[k]]
      BY DEF fused, Fuse
    <3>5. chosen = [k \in DOMAIN chosen |-> chosen[k]]
      OBVIOUS
    <3> HIDE DEF chosen
    <3> QED  BY <3>3, <3>4, <3>5, SameFunctions
  <2> HIDE DEF chosen, text, fused, length, lists, S
  <2>9. ASSUME NEW k \in 1 .. length, NEW e \in Found(lists),
               (inBoth(e) /\ ~inBoth(fused[k])) \/ above(e, fused[k])
        PROVE  \E i \in 1 .. k - 1 : fused[i] = e
    <3>1. PICK c \in Found(lists) : c = fused[k]
      BY <2>7
    <3>2. e # c
      BY <2>9, <3>1
    <3>3. Ahead(lists, e, c)
      BY <2>6, <2>7, <2>9, <3>1, BetterAhead
    <3> QED  BY <2>7, <3>1, <3>2, <3>3
  <2>10. Len(fused) = length
    BY <2>7 DEF fused, Fuse, length
  <2>11. Len(chosen) = length
    BY <2>8, <2>10
  <2>12. \A k \in DOMAIN chosen : \A e \in Found(lists) :
            (inBoth(e) /\ ~inBoth(chosen[k])) \/ above(e, chosen[k]) =>
                \E i \in 1 .. k - 1 : chosen[i] = e
    <3> HIDE DEF inBoth, above
    <3> QED  BY <2>7, <2>8, <2>9
  <2> QED  BY <2>11, <2>12 DEF length, lists, chosen, text
<1>2. [A]_runs <=> [A]_runs
  OBVIOUS
<1> QED
  BY <1>1, HarnessAlwaysFits, SearchStart, SearchStep, PTL DEF Spec, BothBeatOne

-----------------------------------------------------------------------------
(* Paths, segment by segment.                                               *)

\* Segment by segment: the recursion is well defined.
LEMMA WalkedStepwise ==
    ASSUME NEW store, NEW path, Len(path) \in Nat
    PROVE  /\ Walked(store, path)[0] = [record |-> store]
           /\ \A k \in 1 .. Len(path) :
                 Walked(store, path)[k] = Walk(Walked(store, path)[k - 1], path[k])
<1> DEFINE start == [record |-> store]
           step(f, p) == IF p = 0 THEN start ELSE Walk(f[p - 1], path[p])
           Walks(f, n) == f = [p \in 0 .. n |-> step(f, p)]
           missing == {n \in Nat : ~ \E f : Walks(f, n)}
<1> HIDE DEF start
\* A least number of segments that cannot be walked would follow one that can.
<1>1. missing = {}
  <2> SUFFICES ASSUME missing # {} PROVE FALSE
    OBVIOUS
  <2>1. PICK n \in missing : \A m \in missing : n <= m
    BY LeastNumber
  <2>2. ASSUME n = 0  PROVE FALSE
    <3> DEFINE f == [p \in 0 .. 0 |-> start]
    <3>1. f = [p \in 0 .. 0 |-> step(f, p)]
      OBVIOUS
    <3> QED  BY <2>1, <2>2, <3>1
  <2>3. n \in Nat /\ n - 1 \in Nat /\ n - 1 \notin missing
    <3>1. n \in Nat /\ n # 0
      BY <2>2
    <3>2. n - 1 \in Nat /\ ~(n <= n - 1)
      BY <3>1
    <3> HIDE DEF missing
    <3> QED  BY <2>1, <3>1, <3>2
  <2>4. PICK f : Walks(f, n - 1)
    BY <2>3
  <2> DEFINE g == [p \in 0 .. n |-> IF p = n THEN step(f, n) ELSE f[p]]
  <2>5. ASSUME NEW p \in 0 .. n  PROVE g[p] = step(g, p)
    <3>1. CASE p = 0
      BY <2>2, <2>3, <2>4, <3>1
    <3>2. CASE p # 0
      <4>1. p - 1 \in 0 .. n - 1 /\ p - 1 # n /\ p - 1 \in 0 .. n
        BY <2>3, <3>2
      <4>2. g[p - 1] = f[p - 1]
        BY <4>1
      <4>3. g[p] = step(f, p)
        <5>1. CASE p = n
          BY <5>1
        <5>2. CASE p # n
          <6>1. p \in 0 .. n - 1
            BY <2>3, <5>2
          <6> QED  BY <2>4, <5>2, <6>1
        <5> QED  BY <5>1, <5>2
      <4> QED  BY <3>2, <4>2, <4>3
    <3> QED  BY <3>1, <3>2
  <2>6. g = [p \in 0 .. n |-> step(g, p)]
    <3> HIDE DEF step
    <3> QED  BY <2>5
  <2> QED  BY <2>1, <2>6
<1>2. PICK f : Walks(f, Len(path))
  BY <1>1
<1>3. Walks(Walked(store, path), Len(path))
  <2>1. Walked(store, path) = CHOOSE h : Walks(h, Len(path))
    BY DEF Walked, start
  <2> HIDE DEF Walks
  <2> QED  BY <1>2, <2>1
<1>4. ASSUME NEW p \in 0 .. Len(path)
      PROVE  Walked(store, path)[p] = step(Walked(store, path), p)
  BY <1>3
<1> QED  BY <1>4 DEF start

-----------------------------------------------------------------------------
(* What a step of the engine leaves in the store, and to do.                *)

\* The leaf in hand is done: its values are stored under its names.
LeafDone(j, more) ==
    LET step == Head(runs[j].todo) IN
    /\ runs[j].pc \in {"step", "search"}
    /\ runs[j].todo # <<>> /\ step \in Leaves(Programme[j]) /\ step.kind # "act"
    /\ DOMAIN more = NamesOf(step)
    /\ runs'[j].store = With(runs[j].store, more) /\ runs'[j].todo = Tail(runs[j].todo)
    /\ step.kind = "compute" =>
          /\ more[step.as] = Compute(step.operation, step.operands, runs[j].store)
          /\ more[step.as] # Wrong
    /\ step.kind = "compose" =>
          more[step.as] \in Drafts /\ ~Says(more[step.as].text, NeverSay[j])

\* An arm is taken.
ArmTaken(j) ==
    LET step == Head(runs[j].todo) IN
    /\ runs[j].pc = "step" /\ runs[j].todo # <<>> /\ step.kind = "branch"
    /\ \E k \in DOMAIN Programme[j] : step = Programme[j][k]
    /\ runs'[j].store = runs[j].store
    /\ \E arm \in {step.then, step.otherwise} : runs'[j].todo = arm \o Tail(runs[j].todo)

\* Nothing new is known.
NothingNew(j) ==
    runs'[j].store = runs[j].store /\ runs'[j].todo \in {runs[j].todo, <<>>}

LEMMA NothingNewWhen ==
    ASSUME RunsInv, NEW j \in Jobs,
           \/ \E why \in Whys : Fails(j, why)
           \/ \E pc \in Pcs : Goes(j, pc)
           \/ \E side, list : Fetch(j, side, list)
           \/ Settles(j, "COMPLETED", "")
    PROVE  NothingNew(j)
<1>1. DOMAIN runs = Jobs /\ Shape(runs[j])
  BY DEF RunsInv, RunFits
<1>2. "COMPLETED" \in Statuses /\ "" \in Whys
  BY DEF Statuses, Whys
<1>3. \E pc : Moved(j, pc, <<>>, runs[j].store) \/ Moved(j, pc, runs[j].todo, runs[j].store)
  BY <1>1, <1>2, FailsMoves, GoesMoves, FetchMoves, SettlesMoves
<1> QED  BY <1>3 DEF Moved, NothingNew

\* The leaf that is done, whose values these are.
LEMMA LeafDoneWhen ==
    ASSUME RunsInv, NEW j \in Jobs, runs[j].pc \in {"step", "search"}, runs[j].todo # <<>>,
           Head(runs[j].todo).kind \notin {"branch", "act"},
           NEW more, Stores(j, more), DOMAIN more = NamesOf(Head(runs[j].todo)),
           LET step == Head(runs[j].todo) IN
           /\ step.kind = "compute" =>
                 /\ more[step.as] = Compute(step.operation, step.operands, runs[j].store)
                 /\ more[step.as] # Wrong
           /\ step.kind = "compose" =>
                 more[step.as] \in Drafts /\ ~Says(more[step.as].text, NeverSay[j])
    PROVE  LeafDone(j, more)
<1>1. DOMAIN runs = Jobs /\ Shape(runs[j]) /\ StepsFit(j)
  BY StepComes
<1>2. Moved(j, "step", Tail(runs[j].todo), With(runs[j].store, more))
  BY <1>1, StoresMoves
<1>3. Head(runs[j].todo) \in Leaves(Programme[j])
  BY <1>1, NextStep, LeafStep
<1> QED  BY <1>2, <1>3 DEF LeafDone, Moved

LEMMA NamedIs ==
    ASSUME NEW name, NEW v
    PROVE  DOMAIN Named(name, v) = {name} /\ Named(name, v)[name] = v
BY DEF Named

LEMMA EngineStores ==
    ASSUME RunsInv, NEW j \in Jobs, StepEngine(j)
    PROVE  /\ NothingNew(j) \/ ArmTaken(j) \/ \E more : LeafDone(j, more)
           /\ acts' = acts \/ ActStep(j)
<1> DEFINE next == Head(runs[j].todo)
           Known0 == NothingNew(j) \/ ArmTaken(j) \/ \E more : LeafDone(j, more)
<1>0. {"model", "lookup", "compute", "retrieve", "guardrail"} \subseteq Whys
      /\ {"embed", "search"} \subseteq Pcs
  BY DEF Whys, Pcs
<1>1. CASE ExtractStep(j)
  <2>1. runs[j].pc = "step" /\ runs[j].todo # <<>> /\ next.kind = "extract" /\ acts' = acts
    BY <1>1 DEF ExtractStep, Comes, At, NoAct
  <2>2. Fails(j, "model") \/ \E answer \in Extractions(next.fields) : Stores(j, answer)
    BY <1>1 DEF ExtractStep, Step
  <2>3. ASSUME NEW answer \in Extractions(next.fields), Stores(j, answer)
        PROVE  LeafDone(j, answer)
    <3>1. DOMAIN answer = NamesOf(next)
      BY <2>1, NamesByKind DEF Extractions
    <3> QED  BY <2>1, <2>3, <3>1, LeafDoneWhen
  <2> QED  BY <1>0, <2>1, <2>2, <2>3, NothingNewWhen
<1>2. CASE LookupStep(j)
  <2>1. runs[j].pc = "step" /\ runs[j].todo # <<>> /\ next.kind = "lookup" /\ acts' = acts
    BY <1>2 DEF LookupStep, Comes, At, NoAct
  <2>2. Fails(j, "lookup") \/ \E found : Stores(j, Named(next.as, found))
    BY <1>2 DEF LookupStep, Step
  <2>3. ASSUME NEW found, Stores(j, Named(next.as, found))
        PROVE  LeafDone(j, Named(next.as, found))
    <3>1. DOMAIN Named(next.as, found) = NamesOf(next)
      BY <2>1, NamesByKind, NamedIs
    <3> QED  BY <2>1, <2>3, <3>1, LeafDoneWhen
  <2> QED  BY <1>0, <2>1, <2>2, <2>3, NothingNewWhen
<1>3. CASE ComputeStep(j)
  <2>1. runs[j].pc = "step" /\ runs[j].todo # <<>> /\ next.kind = "compute" /\ acts' = acts
    BY <1>3 DEF ComputeStep, Comes, At, NoAct
  <2>2. PICK v : v = Compute(next.operation, next.operands, runs[j].store)
    OBVIOUS
  <2>3. Fails(j, "compute") \/ (v # Wrong /\ Stores(j, Named(next.as, v)))
    BY <1>3, <2>2 DEF ComputeStep, Step
  <2>4. ASSUME v # Wrong, Stores(j, Named(next.as, v))  PROVE LeafDone(j, Named(next.as, v))
    <3>1. DOMAIN Named(next.as, v) = NamesOf(next) /\ Named(next.as, v)[next.as] = v
      <4>1. next.kind \notin {"extract", "act"}
        BY <2>1
      <4> HIDE DEF next
      <4>2. NamesOf(next) = {next.as}
        BY <4>1, NamesByKind
      <4> QED  BY <4>2, NamedIs
    <3>2. Named(next.as, v)[next.as] = Compute(next.operation, next.operands, runs[j].store)
      BY <2>2, <3>1
    <3>3. runs[j].pc \in {"step", "search"} /\ next.kind \notin {"branch", "act", "compose"}
      BY <2>1
    <3> HIDE DEF next
    <3> QED  BY <2>1, <2>4, <3>1, <3>2, <3>3, LeafDoneWhen DEF next
  <2> QED  BY <1>0, <2>1, <2>3, <2>4, NothingNewWhen
<1>4. CASE RetrieveStep(j) \/ EmbedQuery(j)
  <2>1. acts' = acts /\ (Fails(j, "retrieve") \/ Goes(j, "embed") \/ Goes(j, "search"))
    BY <1>4 DEF RetrieveStep, EmbedQuery, NoAct
  <2> QED  BY <1>0, <2>1, NothingNewWhen
<1>5. CASE FetchNearest(j) \/ FetchMatching(j)
  <2>1. acts' = acts /\ \E side, list : Fetch(j, side, list)
    BY <1>5 DEF FetchNearest, FetchMatching, NoAct
  <2> QED  BY <2>1, NothingNewWhen
<1>6. CASE FuseLists(j)
  <2>1. /\ runs[j].pc = "search" /\ acts' = acts
        /\ \E v : Stores(j, Named(next.as, v))
    BY <1>6 DEF FuseLists, At, NoAct, Step
  <2>2. runs[j].todo # <<>> /\ next.kind = "retrieve"
    BY <2>1, StepComes DEF StepsFit
  <2>3. PICK v : Stores(j, Named(next.as, v))
    BY <2>1
  <2>4. DOMAIN Named(next.as, v) = NamesOf(next)
    BY <2>2, NamesByKind, NamedIs
  <2> QED  BY <2>1, <2>2, <2>3, <2>4, LeafDoneWhen
<1>7. CASE ComposeStep(j)
  <2>1. runs[j].pc = "step" /\ runs[j].todo # <<>> /\ next.kind = "compose" /\ acts' = acts
    BY <1>7 DEF ComposeStep, Comes, At, NoAct
  <2>2. \/ \E why \in {"model", "guardrail"} : Fails(j, why)
        \/ \E draft \in Drafts : ~Says(draft.text, NeverSay[j]) /\ Stores(j, Named(next.as, draft))
    BY <1>7 DEF ComposeStep, Step
  <2>3. ASSUME NEW draft \in Drafts, ~Says(draft.text, NeverSay[j]),
               Stores(j, Named(next.as, draft))
        PROVE  LeafDone(j, Named(next.as, draft))
    <3>1. DOMAIN Named(next.as, draft) = NamesOf(next) /\ Named(next.as, draft)[next.as] = draft
      <4>1. next.kind \notin {"extract", "act"}
        BY <2>1
      <4> HIDE DEF next
      <4>2. NamesOf(next) = {next.as}
        BY <4>1, NamesByKind
      <4> QED  BY <4>2, NamedIs
    <3>2. Named(next.as, draft)[next.as] \in Drafts
          /\ ~Says(Named(next.as, draft)[next.as].text, NeverSay[j])
      BY <2>3, <3>1
    <3>3. runs[j].pc \in {"step", "search"} /\ next.kind \notin {"branch", "act", "compute"}
      BY <2>1
    <3> QED  BY <2>1, <2>3, <3>1, <3>2, <3>3, LeafDoneWhen
  <2> QED  BY <1>0, <2>1, <2>2, <2>3, NothingNewWhen
<1>8. CASE ActStep(j)
  <2>1. runs[j].pc = "step"
    BY <1>8 DEF ActStep, Comes, At
  <2>2. \E tool, args : Propose(j, tool, args)
    BY <1>8 DEF ActStep
  <2>3. Moved(j, "over", <<>>, runs[j].store)
    BY <2>1, <2>2, StepComes, ProposeMoves
  <2> QED  BY <1>8, <2>3 DEF Moved, NothingNew
<1>9. CASE BranchStep(j)
  <2>1. /\ runs[j].pc = "step" /\ runs[j].todo # <<>> /\ next.kind = "branch" /\ acts' = acts
    BY <1>9 DEF BranchStep, Comes, At, NoAct
  <2>2. \E k \in DOMAIN Programme[j] : next = Programme[j][k]
    BY <2>1, StepComes, NextStep, LeafStep
  <2>3. DOMAIN runs = Jobs /\ "todo" \in DOMAIN runs[j] /\ "store" \in DOMAIN runs[j]
    BY <2>1, StepComes DEF Shape
  <2>4. PICK arm \in {next.then, next.otherwise} :
            Becomes(j, [runs[j] EXCEPT !.todo = arm \o Tail(@)])
    BY <1>9 DEF BranchStep, Step
  <2> DEFINE run == [runs[j] EXCEPT !.todo = arm \o Tail(@)]
  <2>5. run.todo = arm \o Tail(runs[j].todo) /\ run.store = runs[j].store
    BY <2>3
  <2> HIDE DEF run
  <2>6. runs'[j] = run
    BY <2>3, <2>4 DEF Becomes, run
  <2>7. ArmTaken(j)
    BY <2>1, <2>2, <2>4, <2>5, <2>6 DEF ArmTaken
  <2> QED  BY <2>1, <2>7
<1>10. CASE FinishSteps(j)
  <2>1. acts' = acts /\ Settles(j, "COMPLETED", "")
    BY <1>10 DEF FinishSteps, NoAct
  <2> QED  BY <2>1, NothingNewWhen
<1> QED
  BY <1>1, <1>2, <1>3, <1>4, <1>5, <1>6, <1>7, <1>8, <1>9, <1>10 DEF StepEngine

\* A run begins with what is known and everything to do, or is over at once.
LEMMA StartStores ==
    ASSUME RunsInv, NEW j \in Jobs, StartRun(j)
    PROVE  /\ acts' = acts /\ runs[j].pc = "new"
           /\ \/ runs'[j].store = runs[j].store /\ runs'[j].pc = "over" /\ runs'[j].todo = <<>>
              \/ /\ runs'[j].store = Known(j) /\ runs'[j].todo = Programme[j]
                 /\ runs'[j].pc = IF Pipeline[j] = "steps" THEN "step" ELSE "extract"
<1>0. DOMAIN runs = Jobs /\ Shape(runs[j]) /\ runs[j].pc = "new" /\ acts' = acts
  BY DEF RunsInv, RunFits, StartRun, At, NoAct
<1>1. CASE \E status \in {"NONE", "FAILED"}, why \in {"", "pipeline"} : Settles(j, status, why)
  <2>1. PICK status \in Statuses, why \in Whys : Settles(j, status, why)
    BY <1>1 DEF Statuses, Whys
  <2>2. Moved(j, "over", <<>>, runs[j].store)
    BY <1>0, <2>1, SettlesMoves
  <2> QED  BY <1>0, <2>2 DEF Moved
<1> DEFINE run == [runs[j] EXCEPT
               !.status = "RUNNING", !.todo = Programme[j], !.store = Known(j),
               !.pc = IF Pipeline[j] = "steps" THEN "step" ELSE "extract"]
<1>2. CASE Becomes(j, run)
  <2>1. /\ run.todo = Programme[j] /\ run.store = Known(j)
        /\ run.pc = IF Pipeline[j] = "steps" THEN "step" ELSE "extract"
    BY <1>0 DEF Shape
  <2> HIDE DEF run
  <2>2. runs'[j] = run
    BY <1>0, <1>2 DEF Becomes
  <2> QED  BY <1>0, <2>1, <2>2
<1> QED
  BY <1>1, <1>2 DEF StartRun, Fails

\* A path of one segment is a name in the store.
LEMMA OneSegment ==
    ASSUME NEW store, NEW name
    PROVE  ResolvePath(store, <<name>>) = IF name \in DOMAIN store THEN store[name] ELSE Nothing
<1> DEFINE path == <<name>>
           start == [record |-> store]
<1>1. Len(path) = 1 /\ path[1] = name /\ Len(path) \in Nat /\ 1 \in 1 .. Len(path)
  OBVIOUS
<1>2. DOMAIN start = {"record"} /\ start.record = store
  OBVIOUS
<1> HIDE DEF path, start
<1>3. Walked(store, path)[0] = start /\ Walked(store, path)[1] = Walk(Walked(store, path)[1 - 1], path[1])
  BY <1>1, WalkedStepwise DEF start
<1>4. ResolvePath(store, path) = Walk(start, name)
  BY <1>1, <1>3 DEF ResolvePath
<1> QED  BY <1>2, <1>4 DEF Walk, Is, path

-----------------------------------------------------------------------------
(* What a guarded programme says.                                           *)

\* The names whose values its actions have as their text.
SaidNames(j) ==
    {Head(act.args["body"].path) :
        act \in {a \in Leaves(Programme[j]) : a.kind = "act" /\ "body" \in DOMAIN a.args}}

Clean(j, v) == v \in Drafts => ~Says(v.text, NeverSay[j])
CleanStore(j, store) == \A n \in SaidNames(j) \cap DOMAIN store : Clean(j, store[n])

\* A draft that is stored under such a name passed the guardrail, and what was
\* said did.
SaysInv ==
    \A j \in Jobs : Pipeline[j] = "steps" /\ Guarded(Programme[j]) =>
        /\ CleanStore(j, runs[j].store)
        /\ \A k \in DOMAIN acts[j] :
              "body" \in DOMAIN acts[j][k].args => Clean(j, acts[j][k].args["body"])

\* What is no text is no draft.
LEMMA DraftsAreTexts ==
    ASSUME NEW j \in Jobs, NEW v, DOMAIN v # {"text"}
    PROVE  Clean(j, v)
BY HarnessAssumption DEF Clean

\* Sums, counts and averages are figures.
LEMMA AggregatesAreFigures ==
    ASSUME NEW operation \in {"sum", "count", "avg"}, NEW operands, NEW store,
           Compute(operation, operands, store) # Wrong
    PROVE  \E n : Compute(operation, operands, store) = Figure(n)
<1> DEFINE values == [k \in DOMAIN operands |-> Resolve(operands[k], store)]
<1>1. CASE operation = "count"
  BY <1>1 DEF Compute
<1>2. CASE operation \in {"sum", "avg"}
  <2>1. Compute(operation, operands, store) = ComputeAggregate(operation, values)
    BY <1>2 DEF Compute
  <2> HIDE DEF values
  <2> QED  BY <1>2, <2>1 DEF ComputeAggregate, OfNothing
<1> QED  BY <1>1, <1>2

\* A leaf stores under such a name only what may be said.
LEMMA LeafSaysClean ==
    ASSUME RunsInv, NEW j \in Jobs, Guarded(Programme[j]), CleanStore(j, runs[j].store),
           NEW more, LeafDone(j, more)
    PROVE  CleanStore(j, runs'[j].store)
<1> DEFINE step == Head(runs[j].todo)
           w == With(runs[j].store, more)
<1>1. /\ step \in Leaves(Programme[j]) /\ DOMAIN more = NamesOf(step) /\ runs'[j].store = w
      /\ step.kind = "compute" =>
            /\ more[step.as] = Compute(step.operation, step.operands, runs[j].store)
            /\ more[step.as] # Wrong
      /\ step.kind = "compose" =>
            more[step.as] \in Drafts /\ ~Says(more[step.as].text, NeverSay[j])
  BY DEF LeafDone
<1>2. /\ DOMAIN w = DOMAIN runs[j].store \cup DOMAIN more
      /\ \A n \in DOMAIN w : w[n] = IF n \in DOMAIN more THEN more[n] ELSE runs[j].store[n]
  BY DEF With
<1> HIDE DEF w, step
<1>3. ASSUME NEW n \in SaidNames(j), n \in DOMAIN more  PROVE Clean(j, more[n])
  <2>1. PICK act \in Leaves(Programme[j]) :
            act.kind = "act" /\ "body" \in DOMAIN act.args /\ n = Head(act.args["body"].path)
    BY <1>3 DEF SaidNames
  <2>2. \/ step.kind = "compose"
        \/ step.kind = "compute" /\ step.operation \in {"sum", "count", "avg"}
    BY <1>1, <1>3, <2>1 DEF Guarded
  <2>3. n = step.as
    BY <1>1, <1>3, <2>2, NamesByKind
  <2>4. CASE step.kind = "compose"
    BY <1>1, <2>3, <2>4 DEF Clean
  <2>5. CASE step.kind = "compute" /\ step.operation \in {"sum", "count", "avg"}
    <3>1. PICK m : more[n] = Figure(m)
      BY <1>1, <2>3, <2>5, AggregatesAreFigures
    <3>2. DOMAIN Figure(m) = {"figure"}
      BY DEF Figure
    <3> QED  BY <3>1, <3>2, DraftsAreTexts
  <2> QED  BY <2>2, <2>4, <2>5
<1> QED
  BY <1>1, <1>2, <1>3 DEF CleanStore

\* What is known from the start is no draft, where it may be said.
LEMMA StartSaysClean ==
    ASSUME NEW j \in Jobs, Guarded(Programme[j])
    PROVE  CleanStore(j, Known(j))
<1>1. /\ DOMAIN Known(j) = {"input", "senderEmail", "organisationName"}
      /\ \A n \in {"input", "organisationName"} : Known(j)[n] = Word(n)
  BY DEF Known
<1> SUFFICES ASSUME NEW n \in SaidNames(j), n \in DOMAIN Known(j)
             PROVE  Clean(j, Known(j)[n])
  BY DEF CleanStore
<1>2. PICK act \in Leaves(Programme[j]) :
          act.kind = "act" /\ "body" \in DOMAIN act.args /\ n = Head(act.args["body"].path)
  BY DEF SaidNames
<1>3. n # "senderEmail" /\ (n \in {"input", "organisationName"} => Word(n) \notin Drafts)
  BY <1>2 DEF Guarded
<1> QED  BY <1>1, <1>3 DEF Clean

\* An action says what is stored under its name.
LEMMA ActSaysClean ==
    ASSUME RunsInv, NEW j \in Jobs, Guarded(Programme[j]), CleanStore(j, runs[j].store),
           ActStep(j), "body" \in DOMAIN ArgsOf(j)
    PROVE  Clean(j, ArgsOf(j)["body"])
<1> DEFINE act == Head(runs[j].todo)
           store == runs[j].store
<1>1. act \in Leaves(Programme[j]) /\ act.kind = "act"
  BY StepComes, NextStep, LeafStep DEF ActStep, Comes, At
<1>2. "body" \in DOMAIN act.args /\ ArgsOf(j)["body"] = Resolve(act.args["body"], store)
  BY DEF ArgsOf, Step
<1>3. PICK name : name = Head(act.args["body"].path)
  OBVIOUS
<1>4. act.args["body"] = [path |-> <<name>>] /\ name \in SaidNames(j)
  BY <1>1, <1>2, <1>3 DEF Guarded, SaidNames
<1>5. ArgsOf(j)["body"] = ResolvePath(store, <<name>>)
  <2> DEFINE operand == [path |-> <<name>>]
  <2>1. "path" \in DOMAIN operand /\ operand.path = <<name>>
    OBVIOUS
  <2> HIDE DEF operand
  <2> QED  BY <1>2, <1>4, <2>1 DEF Resolve, operand
<1>6. ResolvePath(store, <<name>>) = IF name \in DOMAIN store THEN store[name] ELSE Nothing
  BY OneSegment
<1>7. Clean(j, Nothing)
  <2>1. DOMAIN Nothing = {"none"}
    BY DEF Nothing
  <2> QED  BY <2>1, DraftsAreTexts
<1> QED  BY <1>4, <1>5, <1>6, <1>7 DEF CleanStore

\* Of the others' runs and actions nothing changes.
LEMMA OthersStay ==
    ASSUME RunsInv, NEW j \in cast.jobs, j \in Jobs, RunSteps(j)
    PROVE  \A i \in Jobs \ {j} : runs'[i] = runs[i] /\ acts'[i] = acts[i]
<1>1. CASE StartRun(j)
  BY <1>1, StartKeeps, StartStores
<1>2. CASE StepEngine(j)
  BY <1>2, StepEngineKeeps
<1>3. CASE ReplyPipelines(j)
  BY <1>3, RepliesKeep
<1> QED  BY <1>1, <1>2, <1>3 DEF RunSteps

\* A step programme does not run a reply pipeline.
LEMMA ProgrammesStep ==
    ASSUME RunsInv, NEW j \in Jobs, Pipeline[j] = "steps", RunSteps(j)
    PROVE  StartRun(j) \/ StepEngine(j)
<1>1. runs[j].pc \in {"new", "step", "embed", "search", "over"}
  BY DEF RunsInv, RunFits, StepsFit
<1>2. ~ReplyPipelines(j)
  BY <1>1 DEF ReplyPipelines, QuoteExtract, QuoteCustomer, QuoteProduct, QuoteDraft,
              AcknowledgeExtract, AcknowledgeCustomer, AcknowledgeField, AcknowledgeDraft,
              ProposeReply, At
<1> QED  BY <1>2 DEF RunSteps

\* One run's steps keep what it says guarded.
LEMMA SaysKept ==
    ASSUME RunsInv, NEW j \in Jobs, Pipeline[j] = "steps", Guarded(Programme[j]),
           CleanStore(j, runs[j].store), StartRun(j) \/ StepEngine(j),
           \A k \in DOMAIN acts[j] :
               "body" \in DOMAIN acts[j][k].args => Clean(j, acts[j][k].args["body"])
    PROVE  /\ CleanStore(j, runs'[j].store)
           /\ \A k \in DOMAIN acts'[j] :
                 "body" \in DOMAIN acts'[j][k].args => Clean(j, acts'[j][k].args["body"])
<1>1. CleanStore(j, runs'[j].store)
  <2>1. CASE StartRun(j)
    BY <2>1, StartStores, StartSaysClean
  <2>2. CASE StepEngine(j)
    BY <2>2, EngineStores, LeafSaysClean DEF NothingNew, ArmTaken
  <2> QED  BY <2>1, <2>2
<1>2. CASE acts' = acts
  BY <1>1, <1>2
<1>3. CASE ActStep(j)
  <2>1. runs[j].pc = "step" /\ acts[j] = <<>>
    BY <1>3, StepComes DEF ActStep, Comes, At
  <2>2. PICK tool, args : args = ArgsOf(j) /\ Propose(j, tool, args)
    BY <1>3 DEF ActStep
  <2> DEFINE act == [tool |-> tool, args |-> args]
  <2>3. acts'[j] = <<>> \/ acts'[j] = <<act>>
    BY <2>1, <2>2, ProposeMoves
  <2>4. act.args = args
    OBVIOUS
  <2> HIDE DEF act
  <2>5. "body" \in DOMAIN args => Clean(j, args["body"])
    BY <1>3, <2>2, ActSaysClean
  <2>6. ASSUME NEW k \in DOMAIN acts'[j]  PROVE acts'[j][k] = act
    BY <2>3, <2>6
  <2> QED  BY <1>1, <2>4, <2>5, <2>6
<1> QED
  BY <1>2, <1>3, StartStores, EngineStores

\* A run has nothing in its store at first.
LEMMA NewStore == Init => \A j \in Jobs : runs[j].pc = "new" /\ DOMAIN runs[j].store = {}
<1> SUFFICES ASSUME Init, NEW j \in Jobs
             PROVE  runs[j].pc = "new" /\ DOMAIN runs[j].store = {}
  OBVIOUS
<1> DEFINE nothing == [n \in {} |-> Nothing]
           lists == <<NoLists, NoLists>>
<1>1. runs[j] = NewRun
  BY DEF Init
<1>2. NewRun = [pc |-> "new", todo |-> <<>>, store |-> nothing, lists |-> lists,
                asked |-> {}, status |-> "NONE", why |-> ""]
  BY Zenon DEF NewRun
<1>3. DOMAIN nothing = {}
  OBVIOUS
<1> HIDE DEF nothing, lists
<1>4. NewRun.store = nothing /\ NewRun.pc = "new"
  BY <1>2
<1> QED  BY <1>1, <1>3, <1>4

\* Nothing has been said at first.
LEMMA SaysStart == Init => SaysInv
BY NewStore DEF Init, SaysInv, CleanStore

LEMMA SaysStep == HarnessInv /\ SaysInv /\ [Next]_vars => SaysInv'
<1> SUFFICES ASSUME HarnessInv, SaysInv, [Next]_vars PROVE SaysInv'
  OBVIOUS
<1>1. RunsInv /\ cast \in Casts
  BY DEF HarnessInv, RunsInv
<1>2. ASSUME NEW j \in cast.jobs, RunSteps(j)  PROVE SaysInv'
  <2>1. j \in Jobs
    BY <1>1, <1>2, CastsWithin
  <2>2. \A i \in Jobs \ {j} : runs'[i] = runs[i] /\ acts'[i] = acts[i]
    BY <1>1, <1>2, <2>1, OthersStay
  <2> SUFFICES ASSUME NEW i \in Jobs, Pipeline[i] = "steps", Guarded(Programme[i])
               PROVE  /\ CleanStore(i, runs'[i].store)
                      /\ \A k \in DOMAIN acts'[i] :
                            "body" \in DOMAIN acts'[i][k].args => Clean(i, acts'[i][k].args["body"])
    BY DEF SaysInv, CleanStore, Clean, SaidNames
  <2>3. CASE i # j
    BY <2>2, <2>3 DEF SaysInv
  <2>4. CASE i = j
    BY <1>1, <1>2, <2>1, <2>4, ProgrammesStep, SaysKept DEF SaysInv
  <2> QED  BY <2>3, <2>4
<1>3. CASE UNCHANGED <<runs, acts>>
  BY <1>3 DEF SaysInv, CleanStore, Clean, SaidNames
<1> QED
  BY <1>2, <1>3 DEF Next, vars

\* ComposeStep and ActStep: in a programme whose actions say what a compose step
\* wrote, nothing goes out that the agent must never say.
THEOREM ProgrammesNeverSay ==
    Spec => [](\A j \in Jobs :
                  Pipeline[j] = "steps" /\ Guarded(Programme[j]) => NeverSaidBy(j))
<1> DEFINE Silent == \A j \in Jobs :
               Pipeline[j] = "steps" /\ Guarded(Programme[j]) => NeverSaidBy(j)
<1>1. SaysInv => Silent
  <2> SUFFICES ASSUME SaysInv, NEW j \in Jobs, Pipeline[j] = "steps", Guarded(Programme[j]),
                      NEW k \in DOMAIN acts[j], "body" \in DOMAIN acts[j][k].args,
                      acts[j][k].args["body"] \in Drafts, NEW w \in NeverSay[j]
               PROVE  ~Includes(InLowerCase(acts[j][k].args["body"].text), <<[word |-> w]>>)
    BY DEF NeverSaidBy
  <2>1. PICK draft : draft = acts[j][k].args["body"]
    OBVIOUS
  <2>2. draft \in Drafts /\ ~Says(draft.text, NeverSay[j])
    BY <2>1 DEF SaysInv, Clean
  <2>3. PICK text : text = draft.text
    OBVIOUS
  <2>4. text \in Seq(Range(text))
    BY <2>2, <2>3, HarnessAssumption DEF IsSequence
  <2>5. ~Includes(InLowerCase(text), <<[word |-> w]>>)
    BY <2>2, <2>3, <2>4, SaysNothing
  <2> QED  BY <2>1, <2>3, <2>5
<1> QED
  BY <1>1, HarnessAlwaysFits, SaysStart, SaysStep, PTL DEF Spec

\* Whatever the agents' kinds: nothing forbidden leaves and every reply goes to
\* the sender, provided what the step programmes send is what they composed.
THEOREM RepliesAlwaysSafe ==
    ASSUME \A j \in Jobs : Pipeline[j] = "steps" => Guarded(Programme[j])
    PROVE  Spec => []RepliesSafe
<1>1. /\ \A j \in Jobs : Pipeline[j] \notin {"steps", "quote"} => NeverSaidBy(j)
      /\ \A j \in Jobs : Pipeline[j] = "steps" /\ Guarded(Programme[j]) => NeverSaidBy(j)
      => NeverSaid
  BY DEF NeverSaid, IsQuote
<1> QED
  BY <1>1, ProgrammesNeverSay, AcknowledgementsNeverSay, ReplyAlwaysToSender, PTL DEF RepliesSafe

-----------------------------------------------------------------------------
(* What a quote comes to.                                                   *)

\* The total is that of the product and the quantity in the store.
TotalTrue(store) ==
    /\ {"item", "quantity"} \subseteq DOMAIN store
    /\ Is("figure", store["quantity"])
    /\ Price(store["item"]) # Empty =>
          /\ IsNumber(Price(store["item"]))
          /\ store["total"] =
                Figure(QuoteTotal(AsNumber(Price(store["item"])), store["quantity"].figure))

\* A quote has its quantity once it is extracted, and its total with the product.
QuoteFits(j) ==
    /\ runs[j].pc # "fields"
    /\ runs[j].pc \in {"customer", "product"} =>
          /\ "total" \notin DOMAIN runs[j].store
          /\ "quantity" \in DOMAIN runs[j].store
          /\ Is("figure", runs[j].store["quantity"])
    /\ runs[j].pc \in {"new", "extract"} => "total" \notin DOMAIN runs[j].store
    /\ "total" \in DOMAIN runs[j].store => TotalTrue(runs[j].store)

QuotesInv == \A j \in Jobs : IsQuote(j) => QuoteFits(j)

LEMMA WithIs ==
    ASSUME NEW store, NEW more
    PROVE  /\ DOMAIN With(store, more) = DOMAIN store \cup DOMAIN more
           /\ \A n \in DOMAIN store \cup DOMAIN more :
                 With(store, more)[n] = IF n \in DOMAIN more THEN more[n] ELSE store[n]
BY DEF With

\* Where a quote goes on from, with what.
LEMMA QuoteMoves ==
    ASSUME RunsInv, QuotesInv, NEW j \in Jobs, IsQuote(j), ReplyPipelines(j)
    PROVE  \/ \E pc \in Pcs :
                 /\ runs'[j].pc = pc /\ runs'[j].store = runs[j].store
                 /\ pc = "over" \/ (runs[j].pc = "customer" /\ pc = "product")
           \/ \E more : \E pc \in Pcs :
                 /\ runs'[j].pc = pc /\ runs'[j].store = With(runs[j].store, more)
                 /\ \/ /\ runs[j].pc = "extract" /\ pc = "customer"
                       /\ DOMAIN more = {"product", "quantity", "customerEmail", "email"}
                       /\ Is("figure", more["quantity"])
                    \/ runs[j].pc = "customer" /\ pc = "product" /\ DOMAIN more = {"customer"}
                    \/ /\ runs[j].pc = "product" /\ pc = "draft" /\ DOMAIN more = {"item", "total"}
                       /\ HasPrice(more["item"])
                       /\ more["total"] = Figure(QuoteTotal(PriceOf(more["item"]),
                                                            runs[j].store["quantity"].figure))
                    \/ runs[j].pc = "draft" /\ pc = "propose" /\ DOMAIN more = {"body"}
<1>0. /\ DOMAIN runs = Jobs /\ Shape(runs[j]) /\ runs[j].pc # "fields" /\ Pipeline[j] # "steps"
      /\ {"over", "customer", "product", "draft", "propose"} \subseteq Pcs
      /\ {"model", "lookup", "price", "address"} \subseteq Whys
  BY DEF RunsInv, RunFits, QuotesInv, QuoteFits, IsQuote, Pcs, Whys
<1>1. ASSUME NEW why \in Whys, Fails(j, why)
      PROVE  runs'[j].pc = "over" /\ runs'[j].store = runs[j].store
  BY <1>0, <1>1, FailsMoves DEF Moved
<1>2. ASSUME NEW pc \in Pcs, NEW more, Reads(j, pc, more)
      PROVE  runs'[j].pc = pc /\ runs'[j].store = With(runs[j].store, more)
  BY <1>0, <1>2, ReadsMoves DEF Moved
<1>3. CASE QuoteExtract(j)
  <2> DEFINE names == {"product", "quantity", "customerEmail"}
             more(answer) == With(answer, Named("email", FirstOfAddresses(j, answer["customerEmail"])))
  <2>1. /\ runs[j].pc = "extract"
        /\ \/ Fails(j, "model")
           \/ \E answer \in Extractions(names) :
                 Is("figure", answer["quantity"]) /\ Reads(j, "customer", more(answer))
    BY <1>3 DEF QuoteExtract, At
  <2>2. ASSUME NEW answer \in Extractions(names), Is("figure", answer["quantity"])
        PROVE  /\ DOMAIN more(answer) = names \cup {"email"}
               /\ Is("figure", more(answer)["quantity"])
    <3>1. DOMAIN answer = names
      BY DEF Extractions
    <3>2. DOMAIN Named("email", FirstOfAddresses(j, answer["customerEmail"])) = {"email"}
      BY NamedIs
    <3>3. PICK e : e = Named("email", FirstOfAddresses(j, answer["customerEmail"]))
      OBVIOUS
    <3>a. PICK w : w = With(answer, e)
      OBVIOUS
    <3>b. /\ DOMAIN w = DOMAIN answer \cup DOMAIN e
          /\ \A n \in DOMAIN answer \cup DOMAIN e : w[n] = IF n \in DOMAIN e THEN e[n] ELSE answer[n]
      BY <3>a, WithIs
    <3>4. DOMAIN w = names \cup {"email"}
      BY <3>1, <3>2, <3>3, <3>b
    <3>5. "quantity" \in DOMAIN answer \cup DOMAIN e /\ "quantity" \notin DOMAIN e
      BY <3>1, <3>2, <3>3
    <3>6. w["quantity"] = answer["quantity"]
      BY <3>5, <3>b
    <3> QED  BY <2>2, <3>3, <3>4, <3>6, <3>a
  <2>3. CASE Fails(j, "model")
    BY <1>0, <1>1, <2>3
  <2>4. ASSUME NEW answer \in Extractions(names), Is("figure", answer["quantity"]),
               Reads(j, "customer", more(answer))
        PROVE  \E m : \E pc \in Pcs :
                  /\ runs'[j].pc = pc /\ runs'[j].store = With(runs[j].store, m)
                  /\ runs[j].pc = "extract" /\ pc = "customer"
                  /\ DOMAIN m = {"product", "quantity", "customerEmail", "email"}
                  /\ Is("figure", m["quantity"])
    <3>1. PICK m : m = more(answer)
      OBVIOUS
    <3>2. DOMAIN m = {"product", "quantity", "customerEmail", "email"} /\ Is("figure", m["quantity"])
      BY <2>2, <2>4, <3>1
    <3>3. Reads(j, "customer", m)
      BY <2>4, <3>1
    <3> QED  BY <1>0, <1>2, <2>1, <3>2, <3>3
  <2> HIDE DEF more
  <2> QED  BY <2>1, <2>3, <2>4
<1>4. CASE QuoteCustomer(j)
  <2>1. /\ runs[j].pc = "customer"
        /\ Goes(j, "product") \/ \E v : Reads(j, "product", Named("customer", v))
    BY <1>4 DEF QuoteCustomer, At
  <2>2. CASE Goes(j, "product")
    BY <1>0, <2>1, <2>2, GoesMoves DEF Moved
  <2>3. ASSUME NEW v, Reads(j, "product", Named("customer", v))
        PROVE  \E m : \E pc \in Pcs :
                  /\ runs'[j].pc = pc /\ runs'[j].store = With(runs[j].store, m)
                  /\ runs[j].pc = "customer" /\ pc = "product" /\ DOMAIN m = {"customer"}
    <3>1. PICK m : m = Named("customer", v)
      OBVIOUS
    <3>2. DOMAIN m = {"customer"} /\ Reads(j, "product", m)
      BY <2>3, <3>1, NamedIs
    <3> QED  BY <1>0, <1>2, <2>1, <3>2
  <2> QED  BY <2>1, <2>2, <2>3
<1>5. CASE QuoteProduct(j)
  <2> DEFINE more(v) ==
             [n \in {"item", "total"} |->
                 IF n = "item" THEN v
                 ELSE Figure(QuoteTotal(PriceOf(v), Read(j, "quantity").figure))]
  <2>1. /\ runs[j].pc = "product"
        /\ \/ \E why \in {"lookup", "price", "address"} : Fails(j, why)
           \/ \E v : HasPrice(v) /\ Reads(j, "draft", more(v))
    <3>1. PICK found \in LookUp(j, "search_records", "Product", Read(j, "product")) :
             IF found = Refused \/ Missing(found) THEN Fails(j, "lookup")
             ELSE LET product == Head(found.list) IN
                  IF ~HasPrice(product) THEN Fails(j, "price")
                  ELSE IF ~IsPresent(Read(j, "email")) THEN Fails(j, "address")
                  ELSE Reads(j, "draft", more(product))
      BY <1>5 DEF QuoteProduct
    <3>2. runs[j].pc = "product"
      BY <1>5 DEF QuoteProduct, At
    <3> HIDE DEF more
    <3> QED  BY <3>1, <3>2
  <2>2. CASE \E why \in {"lookup", "price", "address"} : Fails(j, why)
    BY <1>0, <1>1, <2>2
  <2>3. ASSUME NEW v, HasPrice(v), Reads(j, "draft", more(v))
        PROVE  \E m : \E pc \in Pcs :
                  /\ runs'[j].pc = pc /\ runs'[j].store = With(runs[j].store, m)
                  /\ runs[j].pc = "product" /\ pc = "draft" /\ DOMAIN m = {"item", "total"}
                  /\ HasPrice(m["item"])
                  /\ m["total"] = Figure(QuoteTotal(PriceOf(m["item"]),
                                                    runs[j].store["quantity"].figure))
    <3>1. PICK m : m = more(v)
      OBVIOUS
    <3>2. /\ DOMAIN m = {"item", "total"} /\ m["item"] = v
          /\ m["total"] = Figure(QuoteTotal(PriceOf(v), runs[j].store["quantity"].figure))
      BY <3>1 DEF Read
    <3>3. Reads(j, "draft", m)
      BY <2>3, <3>1
    <3> QED  BY <1>0, <1>2, <2>1, <2>3, <3>2, <3>3
  <2> HIDE DEF more
  <2> QED  BY <2>1, <2>2, <2>3
<1>6. CASE QuoteDraft(j)
  <2>1. /\ runs[j].pc = "draft"
        /\ Fails(j, "model") \/ \E draft : Reads(j, "propose", Named("body", draft))
    BY <1>6 DEF QuoteDraft, At
  <2>2. CASE Fails(j, "model")
    BY <1>0, <1>1, <2>2
  <2>3. ASSUME NEW v, Reads(j, "propose", Named("body", v))
        PROVE  \E m : \E pc \in Pcs :
                  /\ runs'[j].pc = pc /\ runs'[j].store = With(runs[j].store, m)
                  /\ runs[j].pc = "draft" /\ pc = "propose" /\ DOMAIN m = {"body"}
    <3>1. PICK m : m = Named("body", v)
      OBVIOUS
    <3>2. DOMAIN m = {"body"} /\ Reads(j, "propose", m)
      BY <2>3, <3>1, NamedIs
    <3> QED  BY <1>0, <1>2, <2>1, <3>2
  <2> QED  BY <2>1, <2>2, <2>3
<1>7. CASE ProposeReply(j)
  <2>1. runs[j].pc = "propose" /\ \E tool, args : Propose(j, tool, args)
    BY <1>7 DEF ProposeReply, At
  <2>2. acts[j] = <<>>
    BY <2>1 DEF RunsInv, RunFits, ActFits
  <2>3. Moved(j, "over", <<>>, runs[j].store)
    BY <2>1, <2>2, ProposeMoves
  <2> QED  BY <1>0, <2>3 DEF Moved
<1>8. ~(AcknowledgeExtract(j) \/ AcknowledgeCustomer(j) \/ AcknowledgeField(j) \/ AcknowledgeDraft(j))
  BY <1>0 DEF AcknowledgeExtract, AcknowledgeCustomer, AcknowledgeField, AcknowledgeDraft, At
<1> QED
  BY <1>3, <1>4, <1>5, <1>6, <1>7, <1>8 DEF ReplyPipelines

LEMMA QuotesStep == HarnessInv /\ QuotesInv /\ [Next]_vars => QuotesInv'
<1> SUFFICES ASSUME HarnessInv, QuotesInv, [Next]_vars PROVE QuotesInv'
  OBVIOUS
<1>1. RunsInv /\ cast \in Casts
  BY DEF HarnessInv, RunsInv
<1>2. ASSUME NEW j \in cast.jobs, RunSteps(j)  PROVE QuotesInv'
  <2>1. j \in Jobs
    BY <1>1, <1>2, CastsWithin
  <2>2. \A i \in Jobs \ {j} : runs'[i] = runs[i]
    BY <1>1, <1>2, <2>1, OthersStay
  <2>3. ASSUME NEW i \in Jobs \ {j}, IsQuote(i)  PROVE QuoteFits(i)'
    BY <2>2, <2>3 DEF QuotesInv, QuoteFits
  <2>4. ASSUME IsQuote(j)  PROVE QuoteFits(j)'
    <3>1. ~StepEngine(j)
      <4>1. runs[j].pc \notin {"step", "embed", "search"}
        BY <1>1, <2>1, <2>4 DEF RunsInv, RunFits, ReplyFits, IsQuote
      <4> QED
        BY <4>1 DEF StepEngine, ExtractStep, LookupStep, ComputeStep, RetrieveStep, EmbedQuery,
                    FetchNearest, FetchMatching, FuseLists, ComposeStep, ActStep, BranchStep,
                    FinishSteps, Comes, At
    <3>2. QuoteFits(j)
      BY <2>1, <2>4 DEF QuotesInv
    <3>3. CASE StartRun(j)
      <4>1. DOMAIN Known(j) = {"input", "senderEmail", "organisationName"}
        BY DEF Known
      <4> QED  BY <1>1, <2>1, <2>4, <3>2, <3>3, <4>1, StartStores DEF QuoteFits, IsQuote
    <3>4. CASE ReplyPipelines(j)
      <4>1. CASE \E pc \in Pcs :
                    /\ runs'[j].pc = pc /\ runs'[j].store = runs[j].store
                    /\ pc = "over" \/ (runs[j].pc = "customer" /\ pc = "product")
        BY <3>2, <4>1 DEF QuoteFits
      <4>2. ASSUME NEW more, NEW pc \in Pcs, runs'[j].pc = pc,
                   runs'[j].store = With(runs[j].store, more),
                   \/ /\ runs[j].pc = "extract" /\ pc = "customer"
                      /\ DOMAIN more = {"product", "quantity", "customerEmail", "email"}
                      /\ Is("figure", more["quantity"])
                   \/ runs[j].pc = "customer" /\ pc = "product" /\ DOMAIN more = {"customer"}
                   \/ /\ runs[j].pc = "product" /\ pc = "draft" /\ DOMAIN more = {"item", "total"}
                      /\ HasPrice(more["item"])
                      /\ more["total"] = Figure(QuoteTotal(PriceOf(more["item"]),
                                                           runs[j].store["quantity"].figure))
                   \/ runs[j].pc = "draft" /\ pc = "propose" /\ DOMAIN more = {"body"}
            PROVE  QuoteFits(j)'
        <5>0. PICK s : s = runs[j].store
          OBVIOUS
        <5>w. PICK w : w = With(s, more)
          OBVIOUS
        <5>1. s = runs[j].store /\ w = With(s, more)
          BY <5>0, <5>w
        <5>2. /\ DOMAIN w = DOMAIN s \cup DOMAIN more
              /\ \A n \in DOMAIN s \cup DOMAIN more :
                    w[n] = IF n \in DOMAIN more THEN more[n] ELSE s[n]
          BY <5>w, WithIs
        <5>3. runs'[j].store = w /\ runs'[j].pc = pc
          BY <4>2, <5>1
        <5>4. CASE /\ runs[j].pc = "extract" /\ pc = "customer"
                   /\ DOMAIN more = {"product", "quantity", "customerEmail", "email"}
                   /\ Is("figure", more["quantity"])
          <6>1. "total" \notin DOMAIN w /\ "quantity" \in DOMAIN w /\ w["quantity"] = more["quantity"]
            BY <3>2, <5>1, <5>2, <5>4 DEF QuoteFits
          <6> QED  BY <5>3, <5>4, <6>1 DEF QuoteFits
        <5>5. CASE runs[j].pc = "customer" /\ pc = "product" /\ DOMAIN more = {"customer"}
          <6>1. "total" \notin DOMAIN w /\ "quantity" \in DOMAIN w /\ w["quantity"] = s["quantity"]
            BY <3>2, <5>1, <5>2, <5>5 DEF QuoteFits
          <6> QED  BY <3>2, <5>1, <5>3, <5>5, <6>1 DEF QuoteFits
        <5>6. CASE /\ runs[j].pc = "product" /\ pc = "draft" /\ DOMAIN more = {"item", "total"}
                   /\ HasPrice(more["item"])
                   /\ more["total"] = Figure(QuoteTotal(PriceOf(more["item"]),
                                                        runs[j].store["quantity"].figure))
          <6>1. /\ {"item", "quantity", "total"} \subseteq DOMAIN w /\ w["quantity"] = s["quantity"]
                /\ w["item"] = more["item"] /\ w["total"] = more["total"]
                /\ Is("figure", s["quantity"])
            BY <3>2, <5>1, <5>2, <5>6 DEF QuoteFits
          <6>2. TotalTrue(w)
            BY <5>1, <5>6, <6>1 DEF TotalTrue, HasPrice, PriceOf
          <6> QED  BY <5>3, <5>6, <6>2 DEF QuoteFits
        <5>7. CASE runs[j].pc = "draft" /\ pc = "propose" /\ DOMAIN more = {"body"}
          <6>1. ASSUME "total" \in DOMAIN w  PROVE TotalTrue(w)
            <7>1. TotalTrue(s)
              BY <3>2, <5>1, <5>2, <5>7, <6>1 DEF QuoteFits
            <7>2. /\ {"item", "quantity"} \subseteq DOMAIN w /\ w["quantity"] = s["quantity"]
                  /\ w["item"] = s["item"] /\ w["total"] = s["total"]
              BY <5>2, <5>7, <6>1, <7>1 DEF TotalTrue
            <7> QED  BY <7>1, <7>2 DEF TotalTrue
          <6> QED  BY <5>3, <5>7, <6>1 DEF QuoteFits
        <5> QED  BY <4>2, <5>4, <5>5, <5>6, <5>7
      <4> QED  BY <1>1, <2>1, <2>4, <3>4, <4>1, <4>2, QuoteMoves
    <3> QED  BY <1>2, <3>1, <3>3, <3>4 DEF RunSteps
  <2> QED  BY <2>3, <2>4 DEF QuotesInv, IsQuote
<1>3. CASE UNCHANGED runs
  BY <1>3 DEF QuotesInv, QuoteFits, IsQuote
<1> QED
  BY <1>2, <1>3 DEF Next, vars

LEMMA QuotesStart == Init => QuotesInv
BY NewStore DEF QuotesInv, QuoteFits

\* A path of three segments.
LEMMA ThreeSegments ==
    ASSUME NEW store, NEW a, NEW b, NEW c
    PROVE  ResolvePath(store, <<a, b, c>>) = Walk(Walk(Walk([record |-> store], a), b), c)
<1> DEFINE path == <<a, b, c>>
           start == [record |-> store]
<1>1. Len(path) = 3 /\ path[1] = a /\ path[2] = b /\ path[3] = c /\ Len(path) \in Nat
  OBVIOUS
<1> HIDE DEF path, start
<1>1a. Len(path) \in Nat
  BY <1>1
<1>1b. /\ Walked(store, path)[0] = [record |-> store]
       /\ \A k \in 1 .. Len(path) :
             Walked(store, path)[k] = Walk(Walked(store, path)[k - 1], path[k])
  BY <1>1a, WalkedStepwise
<1>2. /\ Walked(store, path)[0] = start
      /\ \A k \in 1 .. 3 : Walked(store, path)[k] = Walk(Walked(store, path)[k - 1], path[k])
  <2>1. Walked(store, path)[0] = start
    BY <1>1b DEF start
  <2>2. Len(path) = 3
    BY <1>1
  <2> QED  BY <1>1b, <2>1, <2>2
<1>3. Walked(store, path)[1] = Walk(Walked(store, path)[0], path[1])
  BY <1>2
<1>4. Walked(store, path)[2] = Walk(Walked(store, path)[1], path[2])
  BY <1>2
<1>5. Walked(store, path)[3] = Walk(Walked(store, path)[2], path[3])
  BY <1>2
<1> QED  BY <1>1, <1>2, <1>3, <1>4, <1>5 DEF ResolvePath, path, start

LEMMA PriceIs ==
    ASSUME NEW store, "item" \in DOMAIN store
    PROVE  Price(store["item"]) = ResolvePath(store, <<"item", "data", "unitPrice">>)
<1> DEFINE one == [item |-> store["item"]]
<1>1. \A s : Walk([record |-> s], "item") = IF "item" \in DOMAIN s THEN s["item"] ELSE Nothing
  <2> SUFFICES ASSUME NEW s
               PROVE  Walk([record |-> s], "item") = IF "item" \in DOMAIN s THEN s["item"] ELSE Nothing
    OBVIOUS
  <2> DEFINE start == [record |-> s]
  <2>1. DOMAIN start = {"record"} /\ start.record = s
    OBVIOUS
  <2> HIDE DEF start
  <2> QED  BY <2>1 DEF Walk, Is, start
<1>2. DOMAIN one = {"item"} /\ one["item"] = store["item"]
  OBVIOUS
<1> HIDE DEF one
<1>3. Walk([record |-> one], "item") = store["item"] /\ Walk([record |-> store], "item") = store["item"]
  BY <1>1, <1>2
<1>4. Price(store["item"]) = ResolvePath(one, <<"item", "data", "unitPrice">>)
  BY DEF Price, one
<1> QED  BY <1>3, <1>4, ThreeSegments

\* A compute step comes to the same total.
LEMMA MultiplyAgrees ==
    ASSUME NEW store, TotalTrue(store), Price(store["item"]) # Empty
    PROVE  Compute("multiply", <<[path |-> <<"item", "data", "unitPrice">>],
                                 [path |-> <<"quantity">>]>>, store) = store["total"]
<1> DEFINE first == [path |-> <<"item", "data", "unitPrice">>]
           second == [path |-> <<"quantity">>]
           operands == <<first, second>>
           values == [k \in DOMAIN operands |-> Resolve(operands[k], store)]
<1>1. Resolve(first, store) = Price(store["item"])
  <2>1. "path" \in DOMAIN first /\ first.path = <<"item", "data", "unitPrice">>
    OBVIOUS
  <2>2. Resolve(first, store) = ResolvePath(store, <<"item", "data", "unitPrice">>)
    <3> HIDE DEF first
    <3> QED  BY <2>1 DEF Resolve
  <2> HIDE DEF first
  <2> QED  BY <2>2, PriceIs DEF TotalTrue
<1>2. Resolve(second, store) = store["quantity"]
  <2>1. "path" \in DOMAIN second /\ second.path = <<"quantity">>
    OBVIOUS
  <2>2. Resolve(second, store) = ResolvePath(store, <<"quantity">>)
    <3> HIDE DEF second
    <3> QED  BY <2>1 DEF Resolve
  <2> HIDE DEF second
  <2> QED  BY <2>2, OneSegment DEF TotalTrue
<1>3. Compute("multiply", operands, store) = ComputeArithmetic("multiply", values)
  BY DEF Compute
<1>4. Len(operands) = 2 /\ operands[1] = first /\ operands[2] = second /\ DOMAIN operands = 1 .. 2
  OBVIOUS
<1> HIDE DEF first, second, operands
<1>5. /\ DOMAIN values = 1 .. 2 /\ Len(values) = 2
      /\ values[1] = Price(store["item"]) /\ values[2] = store["quantity"]
  <2>1. DOMAIN values = 1 .. 2
    BY <1>4
  <2>2. Len(values) = 2
    BY <2>1
  <2> QED  BY <1>1, <1>2, <1>4, <2>1, <2>2
<1> HIDE DEF values
<1>6. IsNumber(values[1]) /\ IsNumber(values[2]) /\ AsNumber(values[2]) = store["quantity"].figure
  BY <1>5 DEF TotalTrue, IsNumber, AsNumber
<1>7. HasNumbers(values, 2)
  BY <1>5, <1>6 DEF HasNumbers
<1>8. ComputeArithmetic("multiply", values) = Arithmetic("multiply", AsNumber(values[1]), AsNumber(values[2]))
  BY <1>7 DEF ComputeArithmetic
<1>9. \A a, b : Arithmetic("multiply", a, b) = Figure(QuoteTotal(a, b))
  BY DEF Arithmetic, QuoteTotal
<1> QED  BY <1>3, <1>5, <1>6, <1>8, <1>9 DEF TotalTrue, operands, first, second

\* runQuotePipeline's own multiplication and the compute step of the built-in
\* template agree on every total, whatever is extracted and found.
THEOREM TotalsAlwaysAgree == Spec => []TotalsAgree
<1>1. QuotesInv => TotalsAgree
  BY MultiplyAgrees DEF QuotesInv, QuoteFits, TotalsAgree, Read
<1> QED
  BY <1>1, HarnessAlwaysFits, QuotesStart, QuotesStep, PTL DEF Spec

-----------------------------------------------------------------------------
(* Values that carry no passage of another organisation, and what the steps *)
(* make of them.                                                            *)

\* A part that is a passage is o's; a figure or a date is a number.
OwnPart(o, part) ==
    /\ Is("passage", part) => UploadOrg[part.passage.doc] = o
    /\ Is("figure", part) => part.figure \in Int
    /\ Is("date", part) => part.date \in Int
OwnText(o, text) == \E T : text \in Seq(T) /\ \A part \in T : OwnPart(o, part)

\* Written down, the value carries only passages of o.
Sayable(o, v) ==
    /\ Is("text", v) => OwnText(o, v.text)
    /\ Is("figure", v) => OwnPart(o, v)

\* So do its parts, the values being what the runs are given.
OwnValue(o, v, values) ==
    /\ Sayable(o, v)
    /\ Is("record", v) => v \in values
    /\ Is("list", v) => v.list \in Seq(values)

OwnStore(o, store, values) == \A n \in DOMAIN store : OwnValue(o, store[n], values)

\* A set of values that holds the parts of its records, and no passage.
NoPassages(values) ==
    \A v \in values :
        /\ Is("record", v) => \A n \in DOMAIN v.record : v.record[n] \in values
        /\ Is("list", v) => v.list \in Seq(values)
        /\ Is("text", v) => IsSequence(v.text) /\ \A k \in DOMAIN v.text : IsLiteral(v.text[k])
        /\ Is("figure", v) => IsLiteral(v)

\* Nothing, a figure, a list and what is written of own parts are own values.
LEMMA SimpleValues ==
    ASSUME NEW o, NEW values
    PROVE  /\ OwnValue(o, Nothing, values) /\ OwnValue(o, Wrong, values)
           /\ \A n \in Int : OwnValue(o, Figure(n), values)
           /\ \A list \in Seq(values) : OwnValue(o, [list |-> list], values)
           /\ \A text : OwnText(o, text) => OwnValue(o, [text |-> text], values)
           /\ \A store : Sayable(o, [record |-> store])
<1>1. OwnValue(o, Nothing, values) /\ OwnValue(o, Wrong, values)
  BY DEF OwnValue, Sayable, Is, Nothing, Wrong
<1>2. ASSUME NEW n \in Int  PROVE OwnValue(o, Figure(n), values)
  BY DEF OwnValue, Sayable, OwnPart, Is, Figure
<1>3. ASSUME NEW list \in Seq(values)  PROVE OwnValue(o, [list |-> list], values)
  BY DEF OwnValue, Sayable, Is
<1>4. ASSUME NEW text, OwnText(o, text)  PROVE OwnValue(o, [text |-> text], values)
  <2> DEFINE v == [text |-> text]
  <2>1. DOMAIN v = {"text"} /\ v.text = text
    OBVIOUS
  <2> HIDE DEF v
  <2> QED  BY <1>4, <2>1 DEF OwnValue, Sayable, Is, v
<1>5. ASSUME NEW store  PROVE Sayable(o, [record |-> store])
  BY DEF Sayable, Is
<1> QED  BY <1>1, <1>2, <1>3, <1>4, <1>5

\* Texts of a single part, and of none.
LEMMA ShortTexts ==
    ASSUME NEW o
    PROVE  /\ OwnText(o, <<>>)
           /\ \A part : OwnPart(o, part) => OwnText(o, <<part>>)
<1>1. OwnText(o, <<>>)
  <2>1. PICK T : T = {}
    OBVIOUS
  <2>2. <<>> \in Seq(T) /\ \A part \in T : OwnPart(o, part)
    BY <2>1
  <2> QED  BY <2>2 DEF OwnText
<1>2. ASSUME NEW part, OwnPart(o, part)  PROVE OwnText(o, <<part>>)
  <2>1. PICK T : T = {part}
    OBVIOUS
  <2>2. <<part>> \in Seq(T) /\ \A p \in T : OwnPart(o, p)
    BY <1>2, <2>1
  <2>3. PICK text : text = <<part>>
    OBVIOUS
  <2>4. OwnText(o, text)
    BY <2>2, <2>3 DEF OwnText
  <2> QED  BY <2>3, <2>4
<1> QED  BY <1>1, <1>2

\* Two own texts, one after the other, are an own text.
LEMMA JoinedTexts ==
    ASSUME NEW o, NEW a, NEW b, OwnText(o, a), OwnText(o, b)
    PROVE  OwnText(o, a \o b)
<1>1. PICK S : a \in Seq(S) /\ \A part \in S : OwnPart(o, part)
  BY DEF OwnText
<1>2. PICK T : b \in Seq(T) /\ \A part \in T : OwnPart(o, part)
  BY DEF OwnText
<1>3. a \in Seq(S \cup T) /\ b \in Seq(S \cup T)
  BY <1>1, <1>2
<1>4. a \o b \in Seq(S \cup T)
  BY <1>3, ConcatProperties
<1> QED  BY <1>1, <1>2, <1>4 DEF OwnText

\* A value given to the runs is anybody's own: it holds no passage.
LEMMA GivenIsOwn ==
    ASSUME NEW values, NoPassages(values), NEW v \in values, NEW o
    PROVE  OwnValue(o, v, values)
<1>1. ASSUME Is("text", v)  PROVE OwnText(o, v.text)
  <2>1. v.text \in Seq(Range(v.text)) /\ \A k \in DOMAIN v.text : IsLiteral(v.text[k])
    BY <1>1 DEF NoPassages, IsSequence
  <2>2. \A part \in Range(v.text) : OwnPart(o, part)
    BY <2>1 DEF Range, OwnPart, IsLiteral
  <2> QED  BY <2>1, <2>2 DEF OwnText
<1>2. Is("figure", v) => OwnPart(o, v)
  BY DEF NoPassages, OwnPart, IsLiteral
<1> QED
  BY <1>1, <1>2 DEF OwnValue, Sayable, NoPassages

\* A field of an own value is an own value.
LEMMA WalkOwn ==
    ASSUME NEW values, NoPassages(values), NEW o, NEW v, OwnValue(o, v, values), NEW segment
    PROVE  OwnValue(o, Walk(v, segment), values)
<1>1. CASE Is("record", v) /\ segment \in DOMAIN v.record
  <2>1. v.record[segment] \in values
    BY <1>1 DEF OwnValue, NoPassages
  <2> QED  BY <1>1, <2>1, GivenIsOwn DEF Walk
<1>2. CASE ~(Is("record", v) /\ segment \in DOMAIN v.record)
  BY <1>2, SimpleValues DEF Walk
<1> QED  BY <1>1, <1>2

\* So is what a path finds first, in the store.
LEMMA FirstWalkOwn ==
    ASSUME NEW values, NEW o, NEW store, OwnStore(o, store, values), NEW segment
    PROVE  OwnValue(o, Walk([record |-> store], segment), values)
<1> DEFINE v == [record |-> store]
<1>1. DOMAIN v = {"record"} /\ v.record = store
  OBVIOUS
<1> HIDE DEF v
<1>2. Walk(v, segment) = IF segment \in DOMAIN store THEN store[segment] ELSE Nothing
  BY <1>1 DEF Walk, Is
<1> QED  BY <1>2, SimpleValues DEF OwnStore, v

\* Whatever a path leads to carries only passages of o.
LEMMA PathOwn ==
    ASSUME NEW values, NoPassages(values), NEW o, NEW store, OwnStore(o, store, values),
           NEW path, IsPath(path)
    PROVE  OwnValue(o, ResolvePath(store, path), values)
<1> DEFINE w == Walked(store, path)
           foreign == {k \in 1 .. Len(path) : ~OwnValue(o, w[k], values)}
<1>1. Len(path) \in Nat /\ Len(path) # 0
  BY LenProperties, EmptySeq DEF IsSequence, IsPath
<1>2. w[0] = [record |-> store] /\ \A k \in 1 .. Len(path) : w[k] = Walk(w[k - 1], path[k])
  BY <1>1, WalkedStepwise
<1> HIDE DEF w
<1>3. foreign = {}
  <2> SUFFICES ASSUME foreign # {} PROVE FALSE
    OBVIOUS
  <2>0. foreign \subseteq Nat
    BY <1>1
  <2>1. PICK k \in foreign : \A m \in foreign : k <= m
    BY <2>0, LeastNumber
  <2>2. k \in 1 .. Len(path) /\ w[k] = Walk(w[k - 1], path[k])
    BY <1>2
  <2>3. CASE k = 1
    BY <1>2, <2>1, <2>2, <2>3, FirstWalkOwn
  <2>4. CASE k # 1
    <3>1. k - 1 \in 1 .. Len(path) /\ k - 1 \notin foreign
      BY <1>1, <2>1, <2>2, <2>4
    <3> QED  BY <2>1, <2>2, <3>1, WalkOwn
  <2> QED  BY <2>3, <2>4
<1>4. Len(path) \in 1 .. Len(path)
  BY <1>1
<1> QED
  BY <1>3, <1>4 DEF ResolvePath, w

\* Texts one after the other.
LEMMA FlattenedOwn ==
    ASSUME NEW o, NEW n \in Nat, NEW seqs, seqs = [k \in 1 .. n |-> seqs[k]],
           \A k \in 1 .. n : OwnText(o, seqs[k])
    PROVE  OwnText(o, FlattenSeq(seqs))
<1> DEFINE step(f, i) == IF i = 1 THEN seqs[i] ELSE f[i - 1] \o seqs[i]
           Joins(f, m) == f = [i \in 1 .. m |-> step(f, i)]
           missing == {m \in Nat : ~ \E f : Joins(f, m)}
<1>0. Len(seqs) = n
  OBVIOUS
<1>1. missing = {}
  <2> SUFFICES ASSUME missing # {} PROVE FALSE
    OBVIOUS
  <2>1. PICK m \in missing : \A l \in missing : m <= l
    BY LeastNumber
  <2>2. ASSUME m = 0  PROVE FALSE
    <3> DEFINE f == [i \in 1 .. 0 |-> seqs]
    <3>1. f = [i \in 1 .. 0 |-> step(f, i)]
      OBVIOUS
    <3> QED  BY <2>1, <2>2, <3>1
  <2>3. m \in Nat /\ m - 1 \in Nat /\ m - 1 \notin missing
    <3>1. m \in Nat /\ m # 0
      BY <2>2
    <3>2. m - 1 \in Nat /\ ~(m <= m - 1)
      BY <3>1
    <3> HIDE DEF missing
    <3> QED  BY <2>1, <3>1, <3>2
  <2>4. PICK f : Joins(f, m - 1)
    BY <2>3
  <2> DEFINE g == [i \in 1 .. m |-> IF i = m THEN step(f, m) ELSE f[i]]
  <2>5. ASSUME NEW i \in 1 .. m  PROVE g[i] = step(g, i)
    <3>1. g[i] = step(f, i)
      <4>1. CASE i = m
        BY <4>1
      <4>2. CASE i # m
        <5>1. i \in 1 .. m - 1
          BY <2>3, <4>2
        <5> QED  BY <2>4, <4>2, <5>1
      <4> QED  BY <4>1, <4>2
    <3>2. i # 1 => g[i - 1] = f[i - 1]
      <4> SUFFICES ASSUME i # 1 PROVE g[i - 1] = f[i - 1]
        OBVIOUS
      <4>1. i - 1 \in 1 .. m /\ i - 1 # m
        BY <2>3
      <4> HIDE DEF step
      <4> QED  BY <4>1
    <3> QED  BY <3>1, <3>2
  <2>6. g = [i \in 1 .. m |-> step(g, i)]
    <3> HIDE DEF step
    <3> QED  BY <2>5
  <2> QED  BY <2>1, <2>6
<1>2. CASE n = 0
  <2>1. seqs = <<>>
    BY <1>2
  <2>2. FlattenSeq(seqs) = seqs
    BY <1>0, <1>2 DEF FlattenSeq
  <2> QED  BY <2>1, <2>2, ShortTexts
<1>3. CASE n # 0
  <2>1. PICK h : Joins(h, n)
    BY <1>1
  <2>2. PICK f : f = CHOOSE e : Joins(e, n)
    OBVIOUS
  <2>3. Joins(f, n)
    <3> HIDE DEF Joins
    <3> QED  BY <2>1, <2>2
  <2>4. FlattenSeq(seqs) = f[n]
    BY <1>0, <1>3, <2>2 DEF FlattenSeq
  <2>5. \A i \in 1 .. n : f[i] = step(f, i)
    BY <2>3
  <2> DEFINE foreign == {i \in 1 .. n : ~OwnText(o, f[i])}
  <2>6. foreign = {}
    <3> SUFFICES ASSUME foreign # {} PROVE FALSE
      OBVIOUS
    <3>0. foreign \subseteq Nat
      OBVIOUS
    <3>1. PICK i \in foreign : \A l \in foreign : i <= l
      BY <3>0, LeastNumber
    <3>2. CASE i = 1
      BY <2>5, <3>1, <3>2
    <3>3. CASE i # 1
      <4>1. i - 1 \in 1 .. n /\ i - 1 \notin foreign
        BY <3>1, <3>3
      <4>2. f[i] = f[i - 1] \o seqs[i] /\ OwnText(o, f[i - 1]) /\ OwnText(o, seqs[i])
        BY <2>5, <3>1, <3>3, <4>1
      <4>3. OwnText(o, f[i])
        BY <4>2, JoinedTexts
      <4> QED  BY <3>1, <4>3
    <3> QED  BY <3>2, <3>3
  <2>7. n \in 1 .. n
    BY <1>3
  <2> QED  BY <2>4, <2>6, <2>7
<1> QED  BY <1>2, <1>3

\* Written as text, an own value is an own text.
LEMMA StringifiedOwn ==
    ASSUME NEW o, NEW v, Sayable(o, v)
    PROVE  OwnText(o, Stringify(v))
<1>1. CASE Is("none", v)
  BY <1>1, ShortTexts DEF Stringify
<1>2. CASE ~Is("none", v) /\ Is("text", v)
  BY <1>2 DEF Stringify, Sayable
<1>3. CASE ~Is("none", v) /\ ~Is("text", v) /\ Is("figure", v)
  <2>1. OwnPart(o, v)
    BY <1>3 DEF Sayable, OwnPart
  <2> QED  BY <1>3, <2>1, ShortTexts DEF Stringify
<1>4. CASE ~Is("none", v) /\ ~Is("text", v) /\ ~Is("figure", v)
  <2>1. OwnPart(o, [json |-> v])
    BY DEF OwnPart, Is
  <2>2. Stringify(v) = <<[json |-> v]>>
    BY <1>4 DEF Stringify
  <2> QED  BY <2>1, <2>2, ShortTexts
<1> QED  BY <1>1, <1>2, <1>3, <1>4

\* An operand resolves to a value that is own: a literal, a path, a template.
LEMMA ResolvedOwn ==
    ASSUME NEW values, NoPassages(values), NEW o, NEW store, OwnStore(o, store, values),
           NEW operand, IsOperand(operand)
    PROVE  OwnValue(o, Resolve(operand, store), values)
<1>1. CASE "path" \in DOMAIN operand
  BY <1>1, PathOwn DEF Resolve, IsOperand
<1>2. CASE "path" \notin DOMAIN operand
  <2> DEFINE template == operand.template
             text(k) == IF "path" \in DOMAIN template[k]
                        THEN Stringify(ResolvePath(store, template[k].path))
                        ELSE <<template[k]>>
             seqs == [k \in DOMAIN template |-> text(k)]
  <2>1. template \in Seq(Range(template)) /\ Len(template) \in Nat
        /\ DOMAIN template = 1 .. Len(template)
    BY <1>2, LenProperties DEF IsOperand, IsSequence
  <2>2. ASSUME NEW k \in DOMAIN template  PROVE OwnText(o, text(k))
    <3>1. CASE "path" \in DOMAIN template[k]
      <4>1. IsPath(template[k].path)
        BY <1>2, <3>1 DEF IsOperand
      <4> QED  BY <3>1, <4>1, PathOwn, StringifiedOwn DEF OwnValue
    <3>2. CASE "path" \notin DOMAIN template[k]
      <4>1. OwnPart(o, template[k])
        BY <1>2, <3>2 DEF IsOperand, OwnPart, IsLiteral
      <4> QED  BY <3>2, <4>1, ShortTexts
    <3> QED  BY <3>1, <3>2
  <2>3. Interpolate(template, store) = FlattenSeq(seqs)
    BY DEF Interpolate
  <2> HIDE DEF text
  <2>4. /\ \A k \in 1 .. Len(template) : OwnText(o, seqs[k])
        /\ seqs = [k \in 1 .. Len(template) |-> seqs[k]]
    BY <2>1, <2>2
  <2> HIDE DEF seqs, template
  <2>5. OwnText(o, FlattenSeq(seqs))
    BY <2>1, <2>4, FlattenedOwn
  <2>6. Resolve(operand, store) = [text |-> FlattenSeq(seqs)]
    BY <1>2, <2>3 DEF Resolve, template
  <2> QED  BY <2>5, <2>6, SimpleValues
<1> QED  BY <1>1, <1>2

\* RoundDiv is a whole number.
LEMMA RoundDivWhole ==
    ASSUME NEW n \in Int, NEW d \in Int, d # 0
    PROVE  RoundDiv(n, d) \in Int
<1> DEFINE m == IF d < 0 THEN -n ELSE n
           e == IF d < 0 THEN -d ELSE d
<1>1. m \in Int /\ e \in Int /\ e > 0
  OBVIOUS
<1>2. 2 * m + e \in Int /\ 2 * e \in Int /\ 2 * e > 0
  BY <1>1
<1>3. RoundDiv(n, d) = (2 * m + e) \div (2 * e)
  BY DEF RoundDiv
<1> HIDE DEF m, e
<1> QED  BY <1>2, <1>3

\* What an own value counts as, as a number and as a date.
LEMMA NumbersWhole ==
    ASSUME NEW o, NEW values, NEW v, OwnValue(o, v, values)
    PROVE  /\ IsNumber(v) => AsNumber(v) \in Int
           /\ IsDate(v) => AsDate(v) \in Int
<1>1. CASE Is("figure", v)
  BY <1>1 DEF OwnValue, Sayable, OwnPart, AsNumber, AsDate
<1>2. ASSUME ~Is("figure", v), Is("text", v), Len(v.text) = 1  PROVE OwnPart(o, v.text[1])
  <2>1. PICK T : v.text \in Seq(T) /\ \A part \in T : OwnPart(o, part)
    BY <1>2 DEF OwnValue, Sayable, OwnText
  <2>2. PICK text : text = v.text
    OBVIOUS
  <2>3. text[1] \in T
    BY <1>2, <2>1, <2>2
  <2> QED  BY <2>1, <2>2, <2>3
<1> QED
  BY <1>1, <1>2 DEF IsNumber, IsDate, AsNumber, AsDate, OwnPart

\* One after the other: the recursion of the sums is well defined.
LEMMA SumsStepwise ==
    ASSUME NEW figures, Len(figures) \in Nat
    PROVE  /\ Sums(figures)[0] = 0
           /\ \A n \in 1 .. Len(figures) :
                 Sums(figures)[n] = Sums(figures)[n - 1] + AsNumber(figures[n])
<1> DEFINE step(f, p) == IF p = 0 THEN 0 ELSE f[p - 1] + AsNumber(figures[p])
           Adds(f, n) == f = [p \in 0 .. n |-> step(f, p)]
           missing == {n \in Nat : ~ \E f : Adds(f, n)}
<1>1. missing = {}
  <2> SUFFICES ASSUME missing # {} PROVE FALSE
    OBVIOUS
  <2>1. PICK n \in missing : \A m \in missing : n <= m
    BY LeastNumber
  <2>2. ASSUME n = 0  PROVE FALSE
    <3> DEFINE f == [p \in 0 .. 0 |-> 0]
    <3>1. f = [p \in 0 .. 0 |-> step(f, p)]
      OBVIOUS
    <3> QED  BY <2>1, <2>2, <3>1
  <2>3. n \in Nat /\ n - 1 \in Nat /\ n - 1 \notin missing
    <3>1. n \in Nat /\ n # 0
      BY <2>2
    <3>2. n - 1 \in Nat /\ ~(n <= n - 1)
      BY <3>1
    <3> HIDE DEF missing
    <3> QED  BY <2>1, <3>1, <3>2
  <2>4. PICK f : Adds(f, n - 1)
    BY <2>3
  <2> DEFINE g == [p \in 0 .. n |-> IF p = n THEN step(f, n) ELSE f[p]]
  <2>5. ASSUME NEW p \in 0 .. n  PROVE g[p] = step(g, p)
    <3>1. CASE p = 0
      BY <2>2, <2>3, <2>4, <3>1
    <3>2. CASE p # 0
      <4>1. p - 1 \in 0 .. n - 1 /\ p - 1 # n /\ p - 1 \in 0 .. n
        BY <2>3, <3>2
      <4>2. g[p - 1] = f[p - 1]
        BY <4>1
      <4>3. g[p] = step(f, p)
        <5>1. CASE p = n
          BY <5>1
        <5>2. CASE p # n
          <6>1. p \in 0 .. n - 1
            BY <2>3, <5>2
          <6> QED  BY <2>4, <5>2, <6>1
        <5> QED  BY <5>1, <5>2
      <4> QED  BY <3>2, <4>2, <4>3
    <3> QED  BY <3>1, <3>2
  <2>6. g = [p \in 0 .. n |-> step(g, p)]
    <3> HIDE DEF step
    <3> QED  BY <2>5
  <2> QED  BY <2>1, <2>6
<1>2. PICK f : Adds(f, Len(figures))
  BY <1>1
<1>3. Adds(Sums(figures), Len(figures))
  <2>1. Sums(figures) = CHOOSE h : Adds(h, Len(figures))
    BY DEF Sums
  <2> HIDE DEF Adds
  <2> QED  BY <1>2, <2>1
<1>4. ASSUME NEW p \in 0 .. Len(figures)
      PROVE  Sums(figures)[p] = step(Sums(figures), p)
  BY <1>3
<1> QED  BY <1>4

\* A list whose members are own: what an own value counts as, as a list.
LEMMA ListOwn ==
    ASSUME NEW values, NoPassages(values), NEW o, NEW v, OwnValue(o, v, values)
    PROVE  \E n \in Nat : /\ Len(AsList(v)) = n /\ DOMAIN AsList(v) = 1 .. n
                          /\ \A k \in 1 .. n : OwnValue(o, AsList(v)[k], values)
<1>1. CASE Is("list", v)
  <2>1. PICK list : list = v.list
    OBVIOUS
  <2>2. list \in Seq(values)
    BY <1>1, <2>1 DEF OwnValue
  <2>3. Len(list) \in Nat /\ DOMAIN list = 1 .. Len(list) /\ \A k \in 1 .. Len(list) : list[k] \in values
    BY <2>2
  <2>4. AsList(v) = list
    BY <1>1, <2>1 DEF AsList
  <2> QED  BY <2>3, <2>4, GivenIsOwn
<1>2. CASE ~Is("list", v) /\ Is("none", v)
  <2>1. AsList(v) = <<>>
    BY <1>2 DEF AsList
  <2>2. Len(AsList(v)) = 0 /\ DOMAIN AsList(v) = 1 .. 0
    BY <2>1
  <2> QED  BY <2>2
<1>3. CASE ~Is("list", v) /\ ~Is("none", v)
  <2>1. AsList(v) = <<v>>
    BY <1>3 DEF AsList
  <2>2. Len(AsList(v)) = 1 /\ DOMAIN AsList(v) = 1 .. 1 /\ AsList(v)[1] = v
    BY <2>1
  <2> QED  BY <2>2
<1> QED  BY <1>1, <1>2, <1>3

\* The field of an own item is own.
LEMMA FieldOwn ==
    ASSUME NEW values, NoPassages(values), NEW o, NEW item, OwnValue(o, item, values),
           NEW resolved, Len(resolved) >= 2 => OwnValue(o, resolved[2], values),
           Len(resolved) \in Nat
    PROVE  OwnValue(o, FieldOf(item, resolved), values)
<1>1. CASE Len(resolved) < 2 \/ Stringify(resolved[2]) = <<>>
  BY <1>1 DEF FieldOf
<1>2. CASE ~(Len(resolved) < 2 \/ Stringify(resolved[2]) = <<>>)
  <2> DEFINE words == Stringify(resolved[2])
             names == [k \in DOMAIN words |-> words[k].word]
             path == <<"item">> \o names
             store == [i \in {"item"} |-> item]
  <2>1. OwnText(o, words)
    BY <1>2, StringifiedOwn DEF OwnValue
  <2>2. PICK T : words \in Seq(T)
    BY <2>1 DEF OwnText
  <2> HIDE DEF words
  <2>3. names \in Seq(Range(names))
    <3>1. DOMAIN words = 1 .. Len(words) /\ Len(words) \in Nat
      BY <2>2
    <3>2. \A k \in DOMAIN names : names[k] \in Range(names)
      BY DEF Range
    <3>3. names = [k \in 1 .. Len(words) |-> names[k]]
      BY <3>1
    <3>4. DOMAIN names = 1 .. Len(words)
      BY <3>1
    <3> HIDE DEF names
    <3>5. names \in [1 .. Len(words) -> Range(names)]
      BY <3>2, <3>3, <3>4
    <3> QED  BY <3>1, <3>5
  <2> HIDE DEF names
  <2>4. PICK S : S = Range(names) \cup {"item"}
    OBVIOUS
  <2>5. <<"item">> \in Seq(S) /\ names \in Seq(S)
    BY <2>3, <2>4
  <2>6. path \in Seq(S) /\ Len(path) = 1 + Len(names) /\ Len(names) \in Nat
    BY <2>5
  <2> HIDE DEF path
  <2>7. path \in Seq(Range(path))
    BY <2>6 DEF Range
  <2>8. path # <<>>
    BY <2>6
  <2>9. OwnStore(o, store, values)
    BY DEF OwnStore
  <2>10. FieldOf(item, resolved) = ResolvePath(store, path)
    BY <1>2 DEF FieldOf, path, names, words
  <2> HIDE DEF store
  <2> QED  BY <2>7, <2>8, <2>9, <2>10, PathOwn DEF IsPath, IsSequence
<1> QED  BY <1>1, <1>2

\* The items of a list and what they add up to.
LEMMA ItemsOwn ==
    ASSUME NEW values, NoPassages(values), NEW o, NEW resolved, Len(resolved) \in Nat \ {0},
           \A k \in 1 .. Len(resolved) : OwnValue(o, resolved[k], values)
    PROVE  LET items == ItemsOf(resolved) IN
           /\ Len(items) \in Nat /\ DOMAIN items = 1 .. Len(items)
           /\ Len(items) = Len(AsList(resolved[1]))
           /\ DOMAIN AsList(resolved[1]) = 1 .. Len(items)
           /\ \A k \in 1 .. Len(items) : OwnValue(o, items[k], values)
<1>1. OwnValue(o, resolved[1], values) /\ (Len(resolved) >= 2 => OwnValue(o, resolved[2], values))
  OBVIOUS
<1>2. PICK n \in Nat : /\ Len(AsList(resolved[1])) = n /\ DOMAIN AsList(resolved[1]) = 1 .. n
                       /\ \A k \in 1 .. n : OwnValue(o, AsList(resolved[1])[k], values)
  BY <1>1, ListOwn
<1>3. \A k \in 1 .. n : OwnValue(o, FieldOf(AsList(resolved[1])[k], resolved), values)
  BY <1>1, <1>2, FieldOwn
<1>4. ItemsOf(resolved) = [k \in 1 .. n |-> FieldOf(AsList(resolved[1])[k], resolved)]
  BY <1>2 DEF ItemsOf
<1>5. Len(ItemsOf(resolved)) = n /\ DOMAIN ItemsOf(resolved) = 1 .. n
  BY <1>4
<1> QED  BY <1>2, <1>3, <1>4, <1>5

\* The sums of whole numbers are whole.
LEMMA SumsWhole ==
    ASSUME NEW items, Len(items) \in Nat,
           \A k \in 1 .. Len(items) : AsNumber(items[k]) \in Int
    PROVE  \A n \in 0 .. Len(items) : Sums(items)[n] \in Int
<1> DEFINE s == Sums(items)
           broken == {n \in 0 .. Len(items) : s[n] \notin Int}
<1>1. s[0] = 0 /\ \A n \in 1 .. Len(items) : s[n] = s[n - 1] + AsNumber(items[n])
  BY SumsStepwise
<1> HIDE DEF s
<1>2. broken = {}
  <2> SUFFICES ASSUME broken # {} PROVE FALSE
    OBVIOUS
  <2>0. broken \subseteq Nat
    OBVIOUS
  <2>1. PICK n \in broken : \A m \in broken : n <= m
    BY <2>0, LeastNumber
  <2>2. n # 0 /\ n \in 1 .. Len(items)
    BY <1>1, <2>1
  <2>3. n - 1 \in 0 .. Len(items) /\ n - 1 \notin broken
    BY <2>1, <2>2
  <2> QED  BY <1>1, <2>1, <2>2, <2>3
<1> QED  BY <1>2 DEF s

\* What a rounding and an operation give is a number, or wrong.
LEMMA RoundToWhole ==
    ASSUME NEW n \in Int, NEW decimals
    PROVE  RoundTo(n, decimals) \in Int
<1>1. RoundDiv(n, 100) \in Int /\ RoundDiv(n, 10) \in Int
  BY RoundDivWhole
<1> QED  BY <1>1 DEF RoundTo

LEMMA ArithmeticWhole ==
    ASSUME NEW operation \in {"add", "subtract", "multiply", "divide"},
           NEW a \in Int, NEW b \in Int
    PROVE  Arithmetic(operation, a, b) = Wrong
           \/ \E n \in Int : Arithmetic(operation, a, b) = Figure(n)
<1>1. a + b \in Int /\ a - b \in Int /\ a * b \in Int /\ 100 * a \in Int
  OBVIOUS
<1>2. RoundDiv(a * b, 100) \in Int /\ (b # 0 => RoundDiv(100 * a, b) \in Int)
  BY <1>1, RoundDivWhole
<1> QED  BY <1>1, <1>2, Zenon DEF Arithmetic

\* What a compute step stores.
LEMMA ComputedOwn ==
    ASSUME NEW values, NoPassages(values), NEW o, NEW store, OwnStore(o, store, values),
           NEW operation \in Operations, NEW operands, IsSequence(operands), operands # <<>>,
           \A k \in DOMAIN operands : IsOperand(operands[k])
    PROVE  OwnValue(o, Compute(operation, operands, store), values)
<1> DEFINE resolved == [k \in DOMAIN operands |-> Resolve(operands[k], store)]
           Plainly(v) == \/ v = Wrong
                         \/ \E n \in Int : v = Figure(n)
                         \/ \E part : OwnPart(o, part) /\ v = [text |-> <<part>>]
<1>1. ASSUME NEW v, Plainly(v)  PROVE OwnValue(o, v, values)
  <2>1. ASSUME NEW part, OwnPart(o, part), v = [text |-> <<part>>]  PROVE OwnValue(o, v, values)
    <3>1. OwnText(o, <<part>>)
      BY <2>1, ShortTexts
    <3> QED  BY <2>1, <3>1, SimpleValues
  <2> QED  BY <1>1, <2>1, SimpleValues
<1>2. Len(operands) \in Nat \ {0} /\ DOMAIN operands = 1 .. Len(operands)
  BY EmptySeq, LenProperties DEF IsSequence
<1>3. Len(resolved) = Len(operands) /\ DOMAIN resolved = 1 .. Len(operands)
  BY <1>2
<1>3a. \A k \in 1 .. Len(resolved) : OwnValue(o, resolved[k], values)
  BY <1>2, <1>3, ResolvedOwn
<1> HIDE DEF resolved
<1>3b. /\ OwnValue(o, resolved[1], values)
       /\ Len(resolved) >= 2 => OwnValue(o, resolved[2], values)
  BY <1>2, <1>3, <1>3a
<1>3c. /\ IsNumber(resolved[1]) => AsNumber(resolved[1]) \in Int
       /\ IsDate(resolved[1]) => AsDate(resolved[1]) \in Int
       /\ Len(resolved) >= 2 /\ IsNumber(resolved[2]) => AsNumber(resolved[2]) \in Int
       /\ Len(resolved) >= 2 /\ IsDate(resolved[2]) => AsDate(resolved[2]) \in Int
  BY <1>3b, NumbersWhole
<1>4. CASE operation \in {"add", "subtract", "multiply", "divide"}
  <2>1. Compute(operation, operands, store) = ComputeArithmetic(operation, resolved)
    BY <1>4 DEF Compute, resolved
  <2>2. Plainly(ComputeArithmetic(operation, resolved))
    <3>1. CASE HasNumbers(resolved, 2)
      <4>1. AsNumber(resolved[1]) \in Int /\ AsNumber(resolved[2]) \in Int
        BY <1>2, <1>3, <1>3c, <3>1 DEF HasNumbers
      <4>2. PICK a \in Int, b \in Int : a = AsNumber(resolved[1]) /\ b = AsNumber(resolved[2])
        BY <4>1
      <4>3. Plainly(Arithmetic(operation, a, b))
        BY <1>4, ArithmeticWhole
      <4> QED  BY <3>1, <4>2, <4>3 DEF ComputeArithmetic
    <3>2. CASE ~HasNumbers(resolved, 2)
      BY <3>2 DEF ComputeArithmetic
    <3> QED  BY <3>1, <3>2
  <2> QED  BY <1>1, <2>1, <2>2
<1>5. CASE operation = "round"
  <2>1. Compute(operation, operands, store) = ComputeRound(resolved)
    BY <1>5 DEF Compute, resolved
  <2>2. ASSUME HasNumbers(resolved, 1), NEW decimals
        PROVE  RoundTo(AsNumber(resolved[1]), decimals) \in Int
    BY <1>3c, <2>2, RoundToWhole DEF HasNumbers
  <2>2a. ASSUME HasNumbers(resolved, 1), NEW decimals
         PROVE  Plainly(Figure(RoundTo(AsNumber(resolved[1]), decimals)))
    BY <2>2, <2>2a
  <2>2b. Plainly(Wrong)
    OBVIOUS
  <2>3. Plainly(ComputeRound(resolved))
    <3> HIDE DEF Plainly
    <3>1. CASE ~HasNumbers(resolved, 1)
      BY <2>2b, <3>1 DEF ComputeRound
    <3>2. CASE HasNumbers(resolved, 1)
      <4>1. \/ ComputeRound(resolved) = Wrong
            \/ \E decimals : ComputeRound(resolved)
                              = Figure(RoundTo(AsNumber(resolved[1]), decimals))
        <5>1. CASE Len(resolved) = 1
          <6>1. ComputeRound(resolved) = Figure(RoundTo(AsNumber(resolved[1]), 0))
            BY <3>2, <5>1 DEF ComputeRound
          <6> QED  BY <6>1
        <5>2. CASE Len(resolved) # 1
                   /\ (~IsNumber(resolved[2]) \/ AsNumber(resolved[2]) \notin 0 .. 1000)
          BY <3>2, <5>2 DEF ComputeRound
        <5>3. CASE /\ Len(resolved) # 1
                   /\ ~(~IsNumber(resolved[2]) \/ AsNumber(resolved[2]) \notin 0 .. 1000)
          <6>1. ComputeRound(resolved)
                = Figure(RoundTo(AsNumber(resolved[1]), AsNumber(resolved[2]) \div 100))
            BY <3>2, <5>3 DEF ComputeRound
          <6> QED  BY <6>1
        <5> QED  BY <5>1, <5>2, <5>3
      <4> HIDE DEF resolved
      <4> QED  BY <2>2a, <2>2b, <3>2, <4>1
    <3> QED  BY <3>1, <3>2
  <2> QED  BY <1>1, <2>1, <2>3
<1>6. CASE operation = "template"
  <2>1. Compute(operation, operands, store) = [text |-> Stringify(resolved[1])]
    BY <1>6 DEF Compute, resolved
  <2> QED  BY <1>3b, <2>1, StringifiedOwn, SimpleValues DEF OwnValue
<1>7. CASE operation = "count"
  <2>1. Compute(operation, operands, store) = Figure(100 * Len(AsList(resolved[1])))
    BY <1>7 DEF Compute, resolved
  <2>2. PICK n \in Nat : Len(AsList(resolved[1])) = n
    BY <1>3b, ListOwn
  <2>3. 100 * n \in Int
    OBVIOUS
  <2> QED  BY <2>1, <2>2, <2>3, SimpleValues
<1>8. CASE operation \in {"sum", "avg"}
  <2>1. Compute(operation, operands, store) = ComputeAggregate(operation, resolved)
    BY <1>8 DEF Compute, resolved
  <2>2. PICK items : items = ItemsOf(resolved)
    OBVIOUS
  <2>3. Len(items) \in Nat /\ DOMAIN items = 1 .. Len(items)
        /\ \A k \in 1 .. Len(items) : OwnValue(o, items[k], values)
    BY <1>2, <1>3, <1>3a, <2>2, ItemsOwn
  <2>4. ASSUME AllNumbers(items), items # <<>>
        PROVE  Total(items) \in Int /\ RoundDiv(Total(items), Len(items)) \in Int
    <3>1. \A k \in 1 .. Len(items) : AsNumber(items[k]) \in Int
      BY <2>3, <2>4, NumbersWhole DEF AllNumbers
    <3>2. Len(items) \in 0 .. Len(items)
      BY <2>3
    <3>3. Total(items) \in Int
      BY <2>3, <3>1, <3>2, SumsWhole DEF Total
    <3>4. Len(items) # 0
      <4>1. CASE Len(items) = 0
        <5>1. items = <<>>
          <6>1. AllNumbers(items) /\ items = [k \in DOMAIN items |-> items[k]]
            BY <2>2, <2>4 DEF ItemsOf
          <6>2. DOMAIN items = {}
            BY <2>3, <4>1
          <6> QED  BY <6>1, <6>2
        <5> QED  BY <2>4, <5>1
      <4> QED  BY <4>1
    <3> QED  BY <2>3, <3>3, <3>4, RoundDivWhole
  <2>5. Plainly(ComputeAggregate(operation, resolved))
    <3>1. Plainly(OfNothing(operation))
      BY DEF OfNothing
    <3>2. ASSUME AllNumbers(items), items # <<>>
          PROVE  Plainly(Figure(Total(items))) /\ Plainly(Figure(RoundDiv(Total(items), Len(items))))
      BY <2>4, <3>2
    <3>3. Plainly(Wrong)
      OBVIOUS
    <3> HIDE DEF Plainly
    <3> QED  BY <2>2, <3>1, <3>2, <3>3, Zenon DEF ComputeAggregate
  <2> QED  BY <1>1, <2>1, <2>5
<1>9. CASE operation \in {"date_add_days", "date_diff_days", "date_format"}
  <2>1. Compute(operation, operands, store) = ComputeDate(operation, resolved)
    BY <1>9 DEF Compute, resolved
  <2>2. \A n \in Int : OwnPart(o, [date |-> n])
    BY DEF Is, OwnPart
  <2>3. \A n : OwnPart(o, [day |-> n])
    BY DEF Is, OwnPart
  <2>4. ASSUME Len(resolved) >= 2, IsDate(resolved[1]), IsDate(resolved[2])
        PROVE  100 * RoundDiv(AsDate(resolved[1]) - AsDate(resolved[2]), 100) \in Int
    <3>1. PICK m \in Int : m = AsDate(resolved[1]) - AsDate(resolved[2])
      BY <1>3c, <2>4
    <3>2. RoundDiv(m, 100) \in Int
      BY RoundDivWhole
    <3>3. 100 * RoundDiv(m, 100) \in Int
      BY <3>2
    <3> QED  BY <3>1, <3>3
  <2>5. ASSUME Len(resolved) >= 2, IsDate(resolved[1]), IsNumber(resolved[2])
        PROVE  AsDate(resolved[1]) + AsNumber(resolved[2]) \in Int
    BY <1>3c, <2>5
  <2>5a. ~(Len(resolved) < 2) <=> Len(resolved) >= 2
    BY <1>2, <1>3
  <2>6. Plainly(ComputeDate(operation, resolved))
    <3>1. CASE operation = "date_add_days"
      BY <2>2, <2>5, <2>5a, <3>1, Zenon DEF ComputeDate
    <3>2. CASE operation = "date_diff_days"
      <4>1. ComputeDate(operation, resolved) =
              IF Len(resolved) < 2 \/ ~IsDate(resolved[1]) \/ ~IsDate(resolved[2]) THEN Wrong
              ELSE Figure(100 * RoundDiv(AsDate(resolved[1]) - AsDate(resolved[2]), 100))
        BY <3>2 DEF ComputeDate
      <4> QED  BY <2>4, <2>5a, <4>1, Zenon
    <3>3. CASE operation = "date_format"
      <4>1. \/ ComputeDate(operation, resolved) = Wrong
            \/ ComputeDate(operation, resolved) = [text |-> <<[day |-> AsDate(resolved[1]) \div 100]>>]
        BY <3>3 DEF ComputeDate
      <4> QED  BY <2>3, <4>1, Zenon
    <3> QED  BY <1>9, <3>1, <3>2, <3>3
  <2> QED  BY <1>1, <2>1, <2>6
<1> QED
  BY <1>4, <1>5, <1>6, <1>7, <1>8, <1>9 DEF Operations

\* Only a quote prices a product.
PricesInv == \A j \in Jobs : runs[j].pc = "product" => IsQuote(j)

LEMMA PricesStart == Init => PricesInv
BY NewStore DEF PricesInv

\* The steps of an acknowledgement lead elsewhere.
LEMMA AcknowledgeElsewhere ==
    ASSUME RunsInv, NEW j \in Jobs, ~IsQuote(j), ReplyPipelines(j), runs[j].pc # "product"
    PROVE  runs'[j].pc # "product"
<1>0. /\ DOMAIN runs = Jobs /\ Shape(runs[j])
      /\ {"over", "customer", "fields", "propose"} \subseteq Pcs
      /\ {"model", "address", "guardrail"} \subseteq Whys
  BY DEF RunsInv, RunFits, Pcs, Whys
<1>1. ASSUME NEW why \in Whys, Fails(j, why)  PROVE runs'[j].pc = "over"
  BY <1>0, <1>1, FailsMoves DEF Moved
<1>2. ASSUME NEW pc \in Pcs, NEW more, Reads(j, pc, more)  PROVE runs'[j].pc = pc
  BY <1>0, <1>2, ReadsMoves DEF Moved
<1>3. PICK q : q = runs[j] /\ DOMAIN q = {"pc", "todo", "store", "lists", "asked", "status", "why"}
  BY <1>0 DEF Shape
<1>4. CASE AcknowledgeExtract(j)
  <2>1. (\E why \in Whys : Fails(j, why)) \/ (\E more : Reads(j, "customer", more))
    BY <1>0, <1>4, Zenon DEF AcknowledgeExtract
  <2> QED  BY <1>0, <1>1, <1>2, <2>1
<1>5. CASE AcknowledgeCustomer(j)
  <2>1. PICK more, todo :
            Becomes(j, [q EXCEPT !.pc = "fields", !.store = With(@, more), !.todo = todo])
    BY <1>3, <1>5 DEF AcknowledgeCustomer
  <2> DEFINE run == [q EXCEPT !.pc = "fields", !.store = With(@, more), !.todo = todo]
  <2>2. run.pc = "fields"
    BY <1>3
  <2> HIDE DEF run
  <2> QED  BY <1>0, <2>1, <2>2 DEF Becomes, run
<1>6. CASE AcknowledgeField(j)
  <2>1. \E run, todo : Becomes(j, [run EXCEPT !.todo = todo]) /\ run.pc = q.pc
                       /\ DOMAIN run = {"pc", "todo", "store", "lists", "asked", "status", "why"}
    <3> DEFINE found(w) == [q EXCEPT !.store = w]
    <3>1. \A w : found(w).pc = q.pc
                 /\ DOMAIN found(w) = {"pc", "todo", "store", "lists", "asked", "status", "why"}
      BY <1>3
    <3>2. (\E todo : Becomes(j, [q EXCEPT !.todo = todo]))
          \/ \E w, todo : Becomes(j, [found(w) EXCEPT !.todo = todo])
      BY <1>3, <1>6 DEF AcknowledgeField
    <3> HIDE DEF found
    <3> QED  BY <1>3, <3>1, <3>2
  <2>2. PICK run, todo : Becomes(j, [run EXCEPT !.todo = todo]) /\ run.pc = q.pc
                         /\ DOMAIN run = {"pc", "todo", "store", "lists", "asked", "status", "why"}
    BY <2>1
  <2> DEFINE after == [run EXCEPT !.todo = todo]
  <2>3. after.pc = q.pc
    BY <2>2
  <2>4. Becomes(j, after)
    BY <2>2
  <2> HIDE DEF after
  <2> QED  BY <1>0, <1>3, <2>3, <2>4 DEF Becomes
<1>7. CASE AcknowledgeDraft(j)
  <2>1. (\E why \in Whys : Fails(j, why)) \/ (\E more : Reads(j, "propose", more))
    BY <1>0, <1>7, Zenon DEF AcknowledgeDraft
  <2> QED  BY <1>0, <1>1, <1>2, <2>1
<1>8. CASE ProposeReply(j)
  <2>1. runs[j].pc = "propose" /\ \E tool, args : Propose(j, tool, args)
    BY <1>8 DEF ProposeReply, At
  <2>2. acts[j] = <<>>
    BY <2>1 DEF RunsInv, RunFits, ActFits
  <2>3. Moved(j, "over", <<>>, runs[j].store)
    BY <2>1, <2>2, ProposeMoves
  <2> QED  BY <2>3 DEF Moved
<1> QED
  BY <1>4, <1>5, <1>6, <1>7, <1>8
     DEF ReplyPipelines, QuoteExtract, QuoteCustomer, QuoteProduct, QuoteDraft, At

LEMMA PricesStep == HarnessInv /\ HarnessInv' /\ PricesInv /\ [Next]_vars => PricesInv'
<1> SUFFICES ASSUME HarnessInv, HarnessInv', PricesInv, [Next]_vars PROVE PricesInv'
  OBVIOUS
<1>1. RunsInv /\ RunsInv' /\ cast \in Casts
  BY DEF HarnessInv, RunsInv
<1>2. ASSUME NEW j \in cast.jobs, RunSteps(j)  PROVE PricesInv'
  <2>1. j \in Jobs
    BY <1>1, <1>2, CastsWithin
  <2>2. \A i \in Jobs \ {j} : runs'[i] = runs[i]
    BY <1>1, <1>2, <2>1, OthersStay
  <2>3. ASSUME ~IsQuote(j)  PROVE runs'[j].pc # "product"
    <3>1. CASE Pipeline[j] = "steps"
      BY <1>1, <2>1, <3>1 DEF RunsInv, RunFits, StepsFit
    <3>2. CASE Pipeline[j] # "steps"
      <4>1. ~StepEngine(j)
        <5>1. runs[j].pc \notin {"step", "embed", "search"}
          BY <1>1, <2>1, <3>2 DEF RunsInv, RunFits, ReplyFits
        <5> QED
          BY <5>1 DEF StepEngine, ExtractStep, LookupStep, ComputeStep, RetrieveStep, EmbedQuery,
                      FetchNearest, FetchMatching, FuseLists, ComposeStep, ActStep, BranchStep,
                      FinishSteps, Comes, At
      <4>2. CASE StartRun(j)
        BY <1>1, <2>1, <4>2, StartStores
      <4>3. CASE ReplyPipelines(j)
        BY <1>1, <2>1, <2>3, <4>3, AcknowledgeElsewhere DEF PricesInv
      <4> QED  BY <1>2, <4>1, <4>2, <4>3 DEF RunSteps
    <3> QED  BY <3>1, <3>2
  <2> QED  BY <2>2, <2>3 DEF PricesInv, IsQuote
<1>3. CASE UNCHANGED runs
  BY <1>3 DEF PricesInv, IsQuote
<1> QED
  BY <1>2, <1>3 DEF Next, vars

\* A store to which own values are added stays own.
LEMMA WithOwn ==
    ASSUME NEW values, NEW o, NEW store, NEW more, OwnStore(o, store, values),
           OwnStore(o, more, values)
    PROVE  OwnStore(o, With(store, more), values)
<1> DEFINE w == With(store, more)
<1>1. /\ DOMAIN w = DOMAIN store \cup DOMAIN more
      /\ \A n \in DOMAIN w : w[n] = IF n \in DOMAIN more THEN more[n] ELSE store[n]
  BY DEF With
<1> HIDE DEF w
<1> QED  BY <1>1 DEF OwnStore, w

\* One own value under a name.
LEMMA NamedOwn ==
    ASSUME NEW values, NEW o, NEW v, OwnValue(o, v, values), NEW name
    PROVE  OwnStore(o, Named(name, v), values)
<1> DEFINE w == Named(name, v)
<1>1. DOMAIN w = {name} /\ w[name] = v
  BY DEF Named
<1> HIDE DEF w
<1> QED  BY <1>1 DEF OwnStore, w

\* What GivenFrom says, for the lemmas above.
LEMMA NoPassagesGiven ==
    ASSUME NEW values, GivenFrom(values)
    PROVE  /\ NoPassages(values)
           /\ \A o : \A v \in values : OwnValue(o, v, values)
<1>1. NoPassages(values)
  BY DEF GivenFrom, NoPassages
<1> QED  BY <1>1, GivenIsOwn

\* What the model extracts, what a look-up finds, and the first of it.
LEMMA ExtractedOwn ==
    ASSUME NEW values, GivenFrom(values), NEW o, NEW fields, fields \subseteq DOMAIN Answered,
           NEW answer \in Extractions(fields)
    PROVE  OwnStore(o, answer, values)
<1>1. DOMAIN answer = fields /\ \A f \in fields : answer[f] \in Answered[f]
  BY DEF Extractions
<1>2. \A f \in fields : answer[f] \in values
  BY <1>1 DEF GivenFrom
<1> QED  BY <1>1, <1>2, NoPassagesGiven DEF OwnStore

\* What a look-up finds was given.
LEMMA FoundOwn ==
    ASSUME NEW values, GivenFrom(values), NEW o, NEW j, NEW tool, NEW type \in DOMAIN Stored,
           NEW key, NEW found \in LookUp(j, tool, type, key), found # Refused
    PROVE  /\ OwnValue(o, found, values)
           /\ tool = "search_records" /\ ~Missing(found) => OwnValue(o, Head(found.list), values)
<1>1. ASSUME NEW record \in Stored[type]  PROVE OwnValue(o, record, values)
  BY NoPassagesGiven DEF GivenFrom
<1>2. CASE tool = "find_record"
  <2>1. found = Nothing \/ found \in Stored[type]
    BY <1>2 DEF LookUp
  <2> QED  BY <1>1, <1>2, <2>1, SimpleValues
<1>3. CASE tool # "find_record"
  <2>1. PICK list : /\ found = [list |-> list]
                    /\ \/ list = <<>>
                       \/ \E r \in Stored[type] : list = <<r>>
                       \/ \E r, s \in Stored[type] : list = <<r, s>>
    BY <1>3 DEF LookUp
  <2>1a. \A r \in Stored[type] : r \in values
    BY DEF GivenFrom
  <2>1b. /\ <<>> \in Seq(values)
         /\ \A r \in values : <<r>> \in Seq(values)
         /\ \A r \in values : \A s \in values : <<r, s>> \in Seq(values)
    OBVIOUS
  <2>1c. list \in Seq(values)
    BY <2>1, <2>1a, <2>1b, Zenon
  <2>2. OwnValue(o, found, values)
    BY <2>1, <2>1c, SimpleValues
  <2>3. found.list = list /\ Is("list", found)
    BY <2>1 DEF Is
  <2>4. ASSUME ~Missing(found)  PROVE Head(found.list) \in Stored[type]
    BY <2>1, <2>3, <2>4 DEF Missing
  <2> QED  BY <1>1, <2>2, <2>4
<1> QED  BY <1>2, <1>3

\* The run of j, after an operation, holds what it held, and values of o.
LEMMA HoldsOwn ==
    ASSUME DOMAIN runs = Jobs, NEW j \in Jobs, Shape(runs[j]), NEW values, NEW o,
           OwnStore(o, runs[j].store, values),
           \/ \E status, why : Settles(j, status, why)
           \/ \E why : Fails(j, why)
           \/ \E pc : Goes(j, pc)
           \/ \E more : Stores(j, more) /\ OwnStore(o, more, values)
           \/ \E pc, more : Reads(j, pc, more) /\ OwnStore(o, more, values)
    PROVE  OwnStore(o, runs'[j].store, values)
<1>0. PICK q : q = runs[j] /\ DOMAIN q = {"pc", "todo", "store", "lists", "asked", "status", "why"}
  BY DEF Shape
<1>1. ASSUME NEW run, Becomes(j, run), OwnStore(o, run.store, values)
      PROVE  OwnStore(o, runs'[j].store, values)
  BY <1>1 DEF Becomes
<1>2. ASSUME NEW status, NEW why, Settles(j, status, why)
      PROVE  OwnStore(o, runs'[j].store, values)
  <2> DEFINE run == [q EXCEPT !.pc = "over", !.status = status, !.why = why, !.todo = <<>>]
  <2>1. run.store = q.store
    BY <1>0
  <2>2. Becomes(j, run)
    BY <1>0, <1>2 DEF Settles
  <2> HIDE DEF run
  <2> QED  BY <1>0, <1>1, <2>1, <2>2
<1>3. ASSUME NEW why, Fails(j, why)  PROVE OwnStore(o, runs'[j].store, values)
  BY <1>2, <1>3 DEF Fails
<1>4. ASSUME NEW pc, Goes(j, pc)  PROVE OwnStore(o, runs'[j].store, values)
  <2> DEFINE run == [q EXCEPT !.pc = pc]
  <2>1. run.store = q.store
    BY <1>0
  <2>2. Becomes(j, run)
    BY <1>0, <1>4 DEF Goes
  <2> HIDE DEF run
  <2> QED  BY <1>0, <1>1, <2>1, <2>2
<1>5. ASSUME NEW more, OwnStore(o, more, values), Stores(j, more)
      PROVE  OwnStore(o, runs'[j].store, values)
  <2>1. runs'[j].store = With(runs[j].store, more)
    BY <1>5, StoresMoves DEF Moved
  <2> QED  BY <1>5, <2>1, WithOwn
<1>6. ASSUME NEW pc, NEW more, OwnStore(o, more, values), Reads(j, pc, more)
      PROVE  OwnStore(o, runs'[j].store, values)
  <2> DEFINE w == With(q.store, more)
             run == [q EXCEPT !.pc = pc, !.store = w]
  <2>1. run.store = w
    BY <1>0
  <2>2. Becomes(j, run)
    BY <1>0, <1>6 DEF Reads
  <2>3. OwnStore(o, w, values)
    BY <1>0, <1>6, WithOwn
  <2> HIDE DEF run, w
  <2> QED  BY <1>1, <2>1, <2>2, <2>3
<1> QED
  BY <1>2, <1>3, <1>4, <1>5, <1>6

\* Proposing an action adds nothing to the store.
LEMMA ProposeOwn ==
    ASSUME DOMAIN runs = Jobs, NEW j \in Jobs, Shape(runs[j]), NEW values, NEW o,
           OwnStore(o, runs[j].store, values), NEW tool, NEW args, Propose(j, tool, args)
    PROVE  OwnStore(o, runs'[j].store, values)
BY HoldsOwn DEF Propose

\* The passages a search brings are of the run's organisation.
LEMMA FusedOwn ==
    ASSUME RunsInv, SearchInv, NEW j \in Jobs, FuseLists(j), NEW values,
           OwnStore(OrgOf[j], runs[j].store, values)
    PROVE  OwnStore(OrgOf[j], runs'[j].store, values)
<1> DEFINE lists == runs[j].lists
           chosen == Fuse(lists, LimitOf(j))
           text == [k \in DOMAIN chosen |-> [passage |-> chosen[k]]]
           o == OrgOf[j]
           length == SmallerOf(LimitOf(j), Cardinality(Found(lists)))
           T == {[passage |-> c] : c \in Found(lists)}
<1>1. /\ Pairs(lists, ChunksOf(o), OverFetch * LimitOf(j))
      /\ DOMAIN chosen = 1 .. length /\ length \in Nat
      /\ \A k \in 1 .. length : chosen[k] \in Found(lists)
  BY FusedRanks
<1>2. OverFetch * LimitOf(j) \in Nat
  BY LimitsOfSearch DEF FuseLists, At
<1>3. Found(lists) \subseteq ChunksOf(o)
  BY <1>1, <1>2, FoundIn
<1>4. ASSUME NEW c \in Found(lists)  PROVE OwnPart(o, [passage |-> c])
  <2> DEFINE part == [passage |-> c]
  <2>1. DOMAIN part = {"passage"} /\ part.passage = c
    OBVIOUS
  <2> HIDE DEF part
  <2>2. UploadOrg[c.doc] = o
    BY <1>3 DEF ChunksOf
  <2> QED  BY <2>1, <2>2 DEF OwnPart, Is, part
<1>5. runs'[j].store = With(runs[j].store, Named(Step(j).as, [text |-> text]))
  BY FusedText
<1> HIDE DEF chosen, length, lists
<1>6. text \in Seq(T)
  BY <1>1
<1> HIDE DEF text, o
<1>7. \A part \in T : OwnPart(o, part)
  BY <1>4
<1> HIDE DEF T
<1>8. OwnText(o, text)
  BY <1>6, <1>7 DEF OwnText
<1>9. OwnValue(o, [text |-> text], values)
  BY <1>8, SimpleValues
<1> QED
  BY <1>5, <1>9, NamedOwn, WithOwn DEF o

\* What the programme's steps are, as their schema has it.
LEMMA LeafWellFormed ==
    ASSUME RunsInv, NEW j \in Jobs, runs[j].pc = "step", runs[j].todo # <<>>,
           Head(runs[j].todo).kind # "branch"
    PROVE  LET step == Head(runs[j].todo)
           IN /\ step.kind = "extract" => step.fields \subseteq DOMAIN Answered
              /\ step.kind = "lookup" => step.type \in DOMAIN Stored
              /\ step.kind = "compute" =>
                    /\ step.operation \in Operations
                    /\ IsSequence(step.operands) /\ step.operands # <<>>
                    /\ \A k \in DOMAIN step.operands : IsOperand(step.operands[k])
<1>1. StepsFit(j)
  BY StepComes
<1>2. Head(runs[j].todo) \in Leaves(Programme[j])
  BY <1>1, NextStep, LeafStep
<1>3. WellFormed(Programme[j])
  BY HarnessAssumption
<1> QED  BY <1>2, <1>3 DEF WellFormed

\* Every step of the engine keeps the store of a run its organisation's.
LEMMA EngineOwn ==
    ASSUME RunsInv, SearchInv, NEW j \in Jobs, NEW values, GivenFrom(values),
           OwnStore(OrgOf[j], runs[j].store, values), StepEngine(j)
    PROVE  OwnStore(OrgOf[j], runs'[j].store, values)
<1> DEFINE o == OrgOf[j]
           next == Head(runs[j].todo)
<1>0. DOMAIN runs = Jobs /\ Shape(runs[j]) /\ NoPassages(values)
  BY NoPassagesGiven DEF RunsInv, RunFits
<1>1. CASE ExtractStep(j)
  <2>1. runs[j].pc = "step" /\ runs[j].todo # <<>> /\ next.kind = "extract"
    BY <1>1 DEF ExtractStep, Comes, At
  <2>2. Fails(j, "model") \/ \E answer \in Extractions(next.fields) : Stores(j, answer)
    BY <1>1 DEF ExtractStep, Step
  <2>3. \A answer \in Extractions(next.fields) : OwnStore(o, answer, values)
    BY <2>1, LeafWellFormed, ExtractedOwn
  <2> QED  BY <1>0, <2>2, <2>3, HoldsOwn
<1>2. CASE LookupStep(j)
  <2>1. runs[j].pc = "step" /\ runs[j].todo # <<>> /\ next.kind = "lookup"
    BY <1>2 DEF LookupStep, Comes, At
  <2>2. PICK tool, key : \E found \in LookUp(j, tool, next.type, key) :
            IF found = Refused \/ (next.required /\ Missing(found))
            THEN Fails(j, "lookup") ELSE Stores(j, Named(next.as, found))
    BY <1>2 DEF LookupStep, Step
  <2>3. PICK found \in LookUp(j, tool, next.type, key) :
            IF found = Refused \/ (next.required /\ Missing(found))
            THEN Fails(j, "lookup") ELSE Stores(j, Named(next.as, found))
    BY <2>2
  <2>4. next.type \in DOMAIN Stored
    BY <2>1, LeafWellFormed
  <2>5. CASE Fails(j, "lookup")
    BY <1>0, <2>5, HoldsOwn
  <2>6. CASE found # Refused /\ Stores(j, Named(next.as, found))
    <3>1. OwnValue(o, found, values)
      BY <2>4, <2>6, FoundOwn
    <3>2. OwnStore(o, Named(next.as, found), values)
      BY <3>1, NamedOwn
    <3> QED  BY <1>0, <2>6, <3>2, HoldsOwn
  <2> QED  BY <2>3, <2>5, <2>6
<1>3. CASE ComputeStep(j)
  <2>1. runs[j].pc = "step" /\ runs[j].todo # <<>> /\ next.kind = "compute"
    BY <1>3 DEF ComputeStep, Comes, At
  <2>2. PICK v : v = Compute(next.operation, next.operands, runs[j].store)
    OBVIOUS
  <2>3. Fails(j, "compute") \/ Stores(j, Named(next.as, v))
    BY <1>3, <2>2 DEF ComputeStep, Step
  <2>4. OwnValue(o, v, values)
    BY <1>0, <2>1, <2>2, LeafWellFormed, ComputedOwn
  <2>5. OwnStore(o, Named(next.as, v), values)
    BY <2>4, NamedOwn
  <2> QED  BY <1>0, <2>3, <2>5, HoldsOwn
<1>4. CASE RetrieveStep(j) \/ EmbedQuery(j)
  BY <1>0, <1>4, HoldsOwn DEF RetrieveStep, EmbedQuery
<1>5. CASE FetchNearest(j) \/ FetchMatching(j)
  <2>1. PICK side, list : Fetch(j, side, list)
    BY <1>5 DEF FetchNearest, FetchMatching
  <2>2. runs'[j].store = runs[j].store
    BY <1>0, <2>1, FetchMoves DEF Moved
  <2> QED  BY <2>2
<1>6. CASE FuseLists(j)
  BY <1>6, FusedOwn
<1>7. CASE ComposeStep(j)
  <2>1. \/ \E why : Fails(j, why)
        \/ \E draft \in Drafts : Stores(j, Named(next.as, draft))
    BY <1>7 DEF ComposeStep, Step
  <2>2. \A draft \in Drafts : OwnStore(o, Named(next.as, draft), values)
    BY NoPassagesGiven, NamedOwn DEF GivenFrom
  <2> QED  BY <1>0, <2>1, <2>2, HoldsOwn
<1>8. CASE ActStep(j)
  BY <1>0, <1>8, ProposeOwn DEF ActStep
<1>9. CASE BranchStep(j)
  <2>1. PICK todo : Becomes(j, [runs[j] EXCEPT !.todo = todo])
    BY <1>9 DEF BranchStep
  <2> DEFINE run == [runs[j] EXCEPT !.todo = todo]
  <2>2. run.store = runs[j].store
    BY <1>0 DEF Shape
  <2> HIDE DEF run
  <2>3. runs'[j] = run
    BY <1>0, <2>1 DEF Becomes, run
  <2> QED  BY <2>2, <2>3
<1>10. CASE FinishSteps(j)
  BY <1>0, <1>10, HoldsOwn DEF FinishSteps
<1> QED
  BY <1>1, <1>2, <1>3, <1>4, <1>5, <1>6, <1>7, <1>8, <1>9, <1>10 DEF StepEngine

\* What a run knows from the start.
LEMMA StartOwn ==
    ASSUME RunsInv, NEW j \in Jobs, NEW values, GivenFrom(values), NEW o,
           OwnStore(o, runs[j].store, values), StartRun(j)
    PROVE  OwnStore(o, runs'[j].store, values)
<1>0. DOMAIN runs = Jobs /\ Shape(runs[j])
  BY DEF RunsInv, RunFits
<1>1. CASE \E status, why : Settles(j, status, why)
  BY <1>0, <1>1, HoldsOwn
<1>2. CASE \E why : Fails(j, why)
  BY <1>0, <1>2, HoldsOwn
<1>3. CASE \E pc : Becomes(j, [runs[j] EXCEPT !.status = "RUNNING", !.todo = Programme[j],
                                              !.store = Known(j), !.pc = pc])
  <2>1. PICK pc : Becomes(j, [runs[j] EXCEPT !.status = "RUNNING", !.todo = Programme[j],
                                             !.store = Known(j), !.pc = pc])
    BY <1>3
  <2> DEFINE run == [runs[j] EXCEPT !.status = "RUNNING", !.todo = Programme[j],
                                    !.store = Known(j), !.pc = pc]
  <2>2. run.store = Known(j)
    BY <1>0 DEF Shape
  <2> HIDE DEF run
  <2>3. runs'[j].store = Known(j)
    BY <1>0, <2>1, <2>2 DEF Becomes, run
  <2>4. /\ DOMAIN Known(j) = {"input", "senderEmail", "organisationName"}
        /\ \A n \in DOMAIN Known(j) : Known(j)[n] \in {Word(n), Empty, Sender[j]}
    BY DEF Known
  <2>5. ASSUME NEW n  PROVE OwnValue(o, Word(n), values)
    <3>1. OwnPart(o, [word |-> n])
      BY DEF OwnPart, Is
    <3> QED  BY <3>1, ShortTexts, SimpleValues DEF Word
  <2>6. OwnValue(o, Empty, values)
    BY ShortTexts, SimpleValues DEF Empty
  <2>7. OwnValue(o, Sender[j], values)
    BY NoPassagesGiven DEF GivenFrom
  <2> QED  BY <2>3, <2>4, <2>5, <2>6, <2>7 DEF OwnStore
<1> QED
  BY <1>1, <1>2, <1>3, Zenon DEF StartRun

\* The reply pipelines: what they extract, find, work out and write.
LEMMA AddressOwn ==
    ASSUME NEW j \in Jobs, NEW values, GivenFrom(values), NEW o, NEW extracted,
           OwnValue(o, extracted, values)
    PROVE  OwnStore(o, Named("email", FirstOfAddresses(j, extracted)), values)
<1>1. OwnValue(o, FirstOfAddresses(j, extracted), values)
  BY NoPassagesGiven DEF GivenFrom, FirstOfAddresses
<1> QED  BY <1>1, NamedOwn

\* So does every step of the reply pipelines.
LEMMA RepliesOwn ==
    ASSUME RunsInv, QuotesInv, PricesInv, NEW j \in Jobs, NEW values, GivenFrom(values),
           NEW o, OwnStore(o, runs[j].store, values), ReplyPipelines(j)
    PROVE  OwnStore(o, runs'[j].store, values)
<1>0. DOMAIN runs = Jobs /\ Shape(runs[j])
  BY DEF RunsInv, RunFits
<1>n. NoPassages(values)
  BY NoPassagesGiven
<1> DEFINE customer(found) == IF found = Refused THEN Nothing ELSE found
<1>a. ASSUME NEW tool, NEW key, NEW found \in LookUp(j, tool, "Customer", key)
      PROVE  OwnStore(o, Named("customer", customer(found)), values)
  <2>1. OwnValue(o, customer(found), values)
    BY HarnessAssumption, FoundOwn, SimpleValues
  <2> QED  BY <2>1, NamedOwn
<1>b. ASSUME NEW draft \in Drafts  PROVE OwnStore(o, Named("body", draft), values)
  BY NoPassagesGiven, NamedOwn DEF GivenFrom
<1> HIDE DEF customer
<1>1. CASE QuoteExtract(j)
  <2> DEFINE names == {"product", "quantity", "customerEmail"}
             more(answer) == With(answer, Named("email", FirstOfAddresses(j, answer["customerEmail"])))
  <2>1. Fails(j, "model") \/ \E answer \in Extractions(names) : Reads(j, "customer", more(answer))
    BY <1>1 DEF QuoteExtract
  <2>2. ASSUME NEW answer \in Extractions(names)  PROVE OwnStore(o, more(answer), values)
    <3>1. OwnStore(o, answer, values)
      BY HarnessAssumption, ExtractedOwn
    <3>2. "customerEmail" \in DOMAIN answer
      BY DEF Extractions
    <3>3. OwnValue(o, answer["customerEmail"], values)
      BY <3>1, <3>2 DEF OwnStore
    <3> QED  BY <3>1, <3>3, AddressOwn, WithOwn
  <2> QED  BY <1>0, <2>1, <2>2, HoldsOwn
<1>2. CASE QuoteCustomer(j)
  <2>1. Goes(j, "product") \/ \E found \in LookUp(j, "find_record", "Customer", Read(j, "email")) :
            Reads(j, "product", Named("customer", customer(found)))
    BY <1>2 DEF QuoteCustomer, customer
  <2> QED  BY <1>0, <1>a, <2>1, HoldsOwn
<1>3. CASE QuoteProduct(j)
  <2> DEFINE more(v, w) == [n \in {"item", "total"} |-> IF n = "item" THEN v ELSE w]
             total(v) == QuoteTotal(PriceOf(v), Read(j, "quantity").figure)
  <2>1. PICK found \in LookUp(j, "search_records", "Product", Read(j, "product")) :
            \/ \E why : Fails(j, why)
            \/ /\ found # Refused /\ ~Missing(found) /\ HasPrice(Head(found.list))
               /\ Reads(j, "draft", more(Head(found.list), Figure(total(Head(found.list)))))
    BY <1>3 DEF QuoteProduct
  <2>2. CASE \E why : Fails(j, why)
    BY <1>0, <2>2, HoldsOwn
  <2>3. ASSUME found # Refused, ~Missing(found), HasPrice(Head(found.list)),
               Reads(j, "draft", more(Head(found.list), Figure(total(Head(found.list)))))
        PROVE  OwnStore(o, runs'[j].store, values)
    <3>1. PICK v : v = Head(found.list) /\ OwnValue(o, v, values)
      BY <2>3, HarnessAssumption, FoundOwn
    <3>2. OwnValue(o, Figure(total(v)), values)
      <4>1. Read(j, "quantity").figure \in Int
        <5>1. runs[j].pc = "product"
          BY <1>3 DEF QuoteProduct, At
        <5>2. "quantity" \in DOMAIN runs[j].store /\ Is("figure", runs[j].store["quantity"])
          BY <5>1 DEF PricesInv, QuotesInv, QuoteFits
        <5> QED  BY <5>2 DEF Read, OwnStore, OwnValue, Sayable, OwnPart
      <4>2. OwnValue(o, Price(v), values)
        <5> DEFINE path == <<"item", "data", "unitPrice">>
                   one == [item |-> v]
        <5>1. IsPath(path)
          <6>1. path \in Seq({"item", "data", "unitPrice"}) /\ path # <<>> /\ Len(path) = 3
            OBVIOUS
          <6> HIDE DEF path
          <6>2. path \in Seq(Range(path))
            <7>1. DOMAIN path = 1 .. 3 /\ path = [k \in 1 .. 3 |-> path[k]]
              BY <6>1
            <7>2. PICK n \in Nat : n = 3
              OBVIOUS
            <7>3. PICK S : S = Range(path)
              OBVIOUS
            <7>4. \A k \in 1 .. n : path[k] \in S
              BY <7>1, <7>2, <7>3 DEF Range
            <7>5. path \in [1 .. n -> S]
              BY <7>1, <7>2, <7>4
            <7>6. path \in Seq(S)
              BY <7>5
            <7> QED  BY <7>3, <7>6
          <6> QED  BY <6>1, <6>2 DEF IsPath, IsSequence
        <5>2. OwnStore(o, one, values)
          <6>1. DOMAIN one = {"item"} /\ one["item"] = v
            OBVIOUS
          <6> HIDE DEF one
          <6> QED  BY <3>1, <6>1 DEF OwnStore
        <5>3. Price(v) = ResolvePath(one, path)
          BY DEF Price
        <5> HIDE DEF one, path
        <5> QED  BY <1>n, <5>1, <5>2, <5>3, PathOwn
      <4>3. PriceOf(v) \in Int
        BY <2>3, <3>1, <4>2, NumbersWhole DEF HasPrice, PriceOf
      <4>4. PICK m \in Int : m = PriceOf(v) * Read(j, "quantity").figure
        BY <4>1, <4>3
      <4>5. total(v) \in Int
        BY <4>4, RoundDivWhole DEF QuoteTotal
      <4> QED  BY <4>5, SimpleValues
    <3>3. OwnStore(o, more(v, Figure(total(v))), values)
      BY <3>1, <3>2 DEF OwnStore
    <3> HIDE DEF more
    <3> QED  BY <1>0, <2>3, <3>1, <3>3, HoldsOwn
  <2> HIDE DEF more, total
  <2> QED  BY <2>1, <2>2, <2>3
<1>4. CASE QuoteDraft(j)
  <2>1. Fails(j, "model") \/ \E draft \in Drafts : Reads(j, "propose", Named("body", draft))
    BY <1>4 DEF QuoteDraft
  <2> QED  BY <1>0, <1>b, <2>1, HoldsOwn
<1>5. CASE AcknowledgeExtract(j)
  <2> DEFINE names == {Fields[j][k].name : k \in DOMAIN Fields[j]} \cup {"customerEmail"}
             nothing == [n \in names |-> Nothing]
             more(answer) == With(answer, Named("email", FirstOfAddresses(j, answer["customerEmail"])))
  <2>1. \/ \E why : Fails(j, why)
        \/ \E answer \in Extractions(names) \cup {nothing} : Reads(j, "customer", more(answer))
    BY <1>5 DEF AcknowledgeExtract
  <2>2. ASSUME NEW answer \in Extractions(names) \cup {nothing}
        PROVE  OwnStore(o, answer, values) /\ "customerEmail" \in DOMAIN answer
    <3>1. CASE answer \in Extractions(names)
      <4>1a. "customerEmail" \in DOMAIN Answered
        BY HarnessAssumption
      <4>1b. \A k \in DOMAIN Fields[j] : Fields[j][k].name \in DOMAIN Answered
        BY HarnessAssumption
      <4>1. names \subseteq DOMAIN Answered
        BY <4>1a, <4>1b
      <4>2. OwnStore(o, answer, values)
        BY <3>1, <4>1, ExtractedOwn
      <4> QED  BY <3>1, <4>2 DEF Extractions
    <3>2. CASE answer = nothing
      BY <3>2, SimpleValues DEF OwnStore
    <3> QED  BY <3>1, <3>2
  <2>3. ASSUME NEW answer \in Extractions(names) \cup {nothing}
        PROVE  OwnStore(o, more(answer), values)
    <3>1. OwnValue(o, answer["customerEmail"], values)
      BY <2>2 DEF OwnStore
    <3> QED  BY <2>2, <3>1, AddressOwn, WithOwn
  <2> HIDE DEF more, names, nothing
  <2> QED  BY <1>0, <2>1, <2>3, HoldsOwn
<1>6. CASE AcknowledgeCustomer(j)
  <2> DEFINE none == [n \in {} |-> Nothing]
  <2>1. PICK more, todo :
            /\ Becomes(j, [runs[j] EXCEPT !.pc = "fields", !.store = With(@, more), !.todo = todo])
            /\ \/ more = none
               \/ \E tool, key : \E found \in LookUp(j, tool, "Customer", key) :
                     more = Named("customer", customer(found))
    BY <1>6 DEF AcknowledgeCustomer, customer
  <2>2. OwnStore(o, more, values)
    <3>1. OwnStore(o, none, values)
      BY DEF OwnStore
    <3> QED  BY <1>a, <2>1, <3>1
  <2>3. PICK q : q = runs[j] /\ DOMAIN q = {"pc", "todo", "store", "lists", "asked", "status", "why"}
    BY <1>0 DEF Shape
  <2> DEFINE w == With(q.store, more)
             run == [q EXCEPT !.pc = "fields", !.store = w, !.todo = todo]
  <2>4. run.store = w
    BY <2>3
  <2>5. Becomes(j, run)
    BY <2>1, <2>3
  <2>6. OwnStore(o, w, values)
    BY <2>2, <2>3, WithOwn
  <2> HIDE DEF run, w
  <2> QED  BY <1>0, <2>4, <2>5, <2>6 DEF Becomes
<1>7. CASE AcknowledgeField(j)
  <2> DEFINE field == Head(runs[j].todo)
             tail == Tail(runs[j].todo)
  <2>1. \/ Becomes(j, [runs[j] EXCEPT !.todo = tail])
        \/ /\ field.type # ""
           /\ \E found \in LookUp(j, "search_records", field.type, Read(j, field.name)) :
              /\ found # Refused /\ ~Missing(found)
              /\ Becomes(j, [[runs[j] EXCEPT !.store =
                              With(@, Named(field.fact, Head(found.list)))] EXCEPT !.todo = tail])
    BY <1>0, <1>7 DEF AcknowledgeField, Shape
  <2>2. PICK q : q = runs[j] /\ DOMAIN q = {"pc", "todo", "store", "lists", "asked", "status", "why"}
    BY <1>0 DEF Shape
  <2>3. CASE Becomes(j, [runs[j] EXCEPT !.todo = tail])
    <3> DEFINE run == [q EXCEPT !.todo = tail]
    <3>1. run.store = q.store
      BY <2>2
    <3>2. Becomes(j, run)
      BY <2>2, <2>3
    <3> HIDE DEF run
    <3> QED  BY <1>0, <2>2, <3>1, <3>2 DEF Becomes
  <2>4. ASSUME field.type # "",
               NEW found \in LookUp(j, "search_records", field.type, Read(j, field.name)),
               found # Refused, ~Missing(found),
               Becomes(j, [[runs[j] EXCEPT !.store =
                            With(@, Named(field.fact, Head(found.list)))] EXCEPT !.todo = tail])
        PROVE  OwnStore(o, runs'[j].store, values)
    <3> DEFINE w == With(q.store, Named(field.fact, Head(found.list)))
               run == [[q EXCEPT !.store = w] EXCEPT !.todo = tail]
    <3>1. run.store = w
      BY <2>2
    <3>2. Becomes(j, run)
      BY <2>2, <2>4
    <3>3. field.type \in DOMAIN Stored
      <4>1. runs[j].todo # <<>> /\ runs[j].pc = "fields"
        BY <1>7 DEF AcknowledgeField, At
      <4>2. RunFits(j) /\ (Pipeline[j] = "steps" => runs[j].pc \in {"new", "step", "embed", "search", "over"})
        BY DEF RunsInv, RunFits, StepsFit
      <4>3. runs[j].todo \in Seq(Range(Fields[j]))
        BY <4>1, <4>2 DEF RunFits, ReplyFits
      <4>4. field \in Range(Fields[j])
        BY <4>1, <4>3
      <4>5. PICK k \in DOMAIN Fields[j] : field = Fields[j][k]
        BY <4>4 DEF Range
      <4>6. \A k1 \in DOMAIN Fields[j] : Fields[j][k1].type \in {""} \cup DOMAIN Stored
        BY HarnessAssumption
      <4> QED  BY <2>4, <4>5, <4>6
    <3>4. OwnValue(o, Head(found.list), values)
      BY <2>4, <3>3, FoundOwn
    <3>5. OwnStore(o, w, values)
      BY <2>2, <3>4, NamedOwn, WithOwn
    <3> HIDE DEF run, w
    <3> QED  BY <1>0, <3>1, <3>2, <3>5 DEF Becomes
  <2> HIDE DEF field, tail
  <2> QED  BY <2>1, <2>3, <2>4
<1>8. CASE AcknowledgeDraft(j)
  <2>1. \/ \E why : Fails(j, why)
        \/ \E draft \in Drafts : Reads(j, "propose", Named("body", draft))
    BY <1>8 DEF AcknowledgeDraft
  <2> QED  BY <1>0, <1>b, <2>1, HoldsOwn
<1>9. CASE ProposeReply(j)
  BY <1>0, <1>9, ProposeOwn DEF ProposeReply
<1> QED
  BY <1>1, <1>2, <1>3, <1>4, <1>5, <1>6, <1>7, <1>8, <1>9 DEF ReplyPipelines

-----------------------------------------------------------------------------
(* Every run holds passages of its own organisation only.                  *)

\* What every run holds is its organisation's.
OwnInv(values) == \A j \in Jobs : OwnStore(OrgOf[j], runs[j].store, values)

\* At first a run holds nothing.
LEMMA OwnStart ==
    ASSUME NEW values, Init
    PROVE  OwnInv(values)
<1> DEFINE nothing == [n \in {} |-> Nothing]
           lists == <<NoLists, NoLists>>
<1>1. \A j \in Jobs : runs[j] = NewRun
  BY DEF Init
<1>2. NewRun.store = nothing
  <2>1. NewRun = [pc |-> "new", todo |-> <<>>, store |-> nothing, lists |-> lists,
                  asked |-> {}, status |-> "NONE", why |-> ""]
    BY Zenon DEF NewRun
  <2> HIDE DEF nothing, lists
  <2> QED  BY <2>1
<1>3. \A o : OwnStore(o, nothing, values)
  BY DEF OwnStore
<1> HIDE DEF nothing
<1> QED  BY <1>1, <1>2, <1>3 DEF OwnInv

\* Every step keeps every run's store its organisation's.
LEMMA OwnStep ==
    ASSUME NEW values, GivenFrom(values), HarnessInv, SearchInv, QuotesInv, PricesInv,
           OwnInv(values), [Next]_vars
    PROVE  OwnInv(values)'
<1>1. RunsInv /\ cast \in Casts
  BY DEF HarnessInv, RunsInv
<1>2. ASSUME NEW j \in cast.jobs, RunSteps(j)  PROVE OwnInv(values)'
  <2>1. j \in Jobs /\ OwnStore(OrgOf[j], runs[j].store, values)
    BY <1>1, <1>2, CastsWithin DEF OwnInv
  <2>2. OwnStore(OrgOf[j], runs'[j].store, values)
    BY <1>1, <1>2, <2>1, StartOwn, EngineOwn, RepliesOwn DEF RunSteps
  <2>3. \A i \in Jobs \ {j} : runs'[i] = runs[i]
    BY <1>1, <1>2, <2>1, OnlyOneMoves
  <2> QED  BY <2>1, <2>2, <2>3 DEF OwnInv
<1>3. CASE UNCHANGED runs
  BY <1>3 DEF OwnInv
<1> QED
  BY <1>2, <1>3 DEF Next, vars

\* A text of such a store carries its organisation's passages only.
LEMMA OwnHeld ==
    ASSUME NEW values, OwnInv(values)
    PROVE  OwnPassages
<1> SUFFICES ASSUME NEW j \in Jobs, NEW n \in DOMAIN runs[j].store, Is("text", runs[j].store[n]),
                    NEW k \in DOMAIN runs[j].store[n].text,
                    "passage" \in DOMAIN runs[j].store[n].text[k]
             PROVE  UploadOrg[runs[j].store[n].text[k].passage.doc] = OrgOf[j]
  BY DEF OwnPassages
<1>1. OwnText(OrgOf[j], runs[j].store[n].text)
  BY DEF OwnInv, OwnStore, OwnValue, Sayable
<1>2. PICK text : text = runs[j].store[n].text
  OBVIOUS
<1>3. PICK T : text \in Seq(T) /\ \A part \in T : OwnPart(OrgOf[j], part)
  BY <1>1, <1>2 DEF OwnText
<1>4. text[k] \in T
  BY <1>2, <1>3
<1> QED
  BY <1>2, <1>3, <1>4 DEF OwnPart, Is

\* search, retrieve and everything the runs build from it: what a run holds
\* carries passages of its own organisation only, and of those the best comes
\* first, whatever the documents and the programmes, provided nothing the runs
\* are given holds a passage already.
THEOREM RetrievalAlwaysSound ==
    ASSUME NEW values, GivenFrom(values)
    PROVE  Spec => RetrievalSound
<1>1. Init => OwnInv(values)
  BY OwnStart
<1>2. HarnessInv /\ SearchInv /\ QuotesInv /\ PricesInv /\ OwnInv(values) /\ [Next]_vars
      => OwnInv(values)'
  BY OwnStep
<1>3. OwnInv(values) => OwnPassages
  BY OwnHeld
<1>4. Spec => []OwnPassages
  BY <1>1, <1>2, <1>3, HarnessAlwaysFits, SearchStart, SearchStep, QuotesStart, QuotesStep,
     PricesStart, PricesStep, PTL DEF Spec
<1> QED
  BY <1>4, BestFirst, PTL DEF RetrievalSound

-----------------------------------------------------------------------------
(* What was computed stays what it would be computed as.                    *)

\* Two stores hold the same under these names.
AgreeOn(names, a, b) ==
    \A n \in names : /\ n \in DOMAIN a <=> n \in DOMAIN b
                     /\ n \in DOMAIN a => a[n] = b[n]

\* A path only depends on the name it starts from.
LEMMA PathSame ==
    ASSUME NEW path, IsPath(path), NEW a, NEW b, AgreeOn({Head(path)}, a, b)
    PROVE  ResolvePath(a, path) = ResolvePath(b, path)
<1> DEFINE v == Walked(a, path)
           w == Walked(b, path)
           astray == {k \in 1 .. Len(path) : v[k] # w[k]}
<1>1. Len(path) \in Nat /\ Len(path) # 0 /\ Head(path) = path[1]
  BY LenProperties, EmptySeq DEF IsSequence, IsPath
<1>2. /\ v[0] = [record |-> a] /\ \A k \in 1 .. Len(path) : v[k] = Walk(v[k - 1], path[k])
      /\ w[0] = [record |-> b] /\ \A k \in 1 .. Len(path) : w[k] = Walk(w[k - 1], path[k])
  BY <1>1, WalkedStepwise
<1>3. ASSUME NEW store
      PROVE  Walk([record |-> store], path[1]) =
                 IF path[1] \in DOMAIN store THEN store[path[1]] ELSE Nothing
  <2> DEFINE start == [record |-> store]
  <2>1. DOMAIN start = {"record"} /\ start.record = store
    OBVIOUS
  <2> HIDE DEF start
  <2> QED  BY <2>1 DEF Walk, Is, start
<1> HIDE DEF v, w
<1>4. v[1] = w[1]
  <2>1. 1 \in 1 .. Len(path) /\ 1 - 1 = 0
    BY <1>1
  <2>2. v[1] = Walk([record |-> a], path[1]) /\ w[1] = Walk([record |-> b], path[1])
    BY <1>2, <2>1
  <2> QED  BY <1>1, <1>3, <2>2 DEF AgreeOn
<1>5. astray = {}
  <2> SUFFICES ASSUME astray # {} PROVE FALSE
    OBVIOUS
  <2>0. astray \subseteq Nat
    BY <1>1
  <2>1. PICK k \in astray : \A m \in astray : k <= m
    BY <2>0, LeastNumber
  <2>2. k # 1 /\ k \in 1 .. Len(path)
    BY <1>4
  <2>3. k - 1 \in 1 .. Len(path) /\ k - 1 \notin astray
    BY <1>1, <2>1, <2>2
  <2> QED  BY <1>2, <2>1, <2>2, <2>3
<1>6. Len(path) \in 1 .. Len(path)
  BY <1>1
<1> QED  BY <1>5, <1>6 DEF ResolvePath, v, w

\* So does an operand on the names it refers to.
LEMMA OperandSame ==
    ASSUME NEW operand, IsOperand(operand), NEW a, NEW b, AgreeOn(RootsOf(operand), a, b)
    PROVE  Resolve(operand, a) = Resolve(operand, b)
<1>1. CASE "path" \in DOMAIN operand
  <2>1. IsPath(operand.path) /\ AgreeOn({Head(operand.path)}, a, b)
    BY <1>1 DEF IsOperand, RootsOf
  <2> QED  BY <1>1, <2>1, PathSame DEF Resolve
<1>2. CASE "path" \notin DOMAIN operand
  <2> DEFINE template == operand.template
             text(store, k) == IF "path" \in DOMAIN template[k]
                               THEN Stringify(ResolvePath(store, template[k].path))
                               ELSE <<template[k]>>
  <2>1. ASSUME NEW k \in DOMAIN template  PROVE text(a, k) = text(b, k)
    <3>1. CASE "path" \in DOMAIN template[k]
      <4>1. IsPath(template[k].path)
        BY <1>2, <3>1 DEF IsOperand
      <4>2. template[k] \in {p \in Range(template) : "path" \in DOMAIN p}
        BY <3>1 DEF Range
      <4>3. Head(template[k].path) \in RootsOf(operand)
        BY <1>2, <4>2 DEF RootsOf
      <4>4. AgreeOn({Head(template[k].path)}, a, b)
        BY <4>3 DEF AgreeOn
      <4> QED  BY <3>1, <4>1, <4>4, PathSame
    <3>2. CASE "path" \notin DOMAIN template[k]
      BY <3>2
    <3> QED  BY <3>1, <3>2
  <2>2. \A store : Interpolate(template, store) = FlattenSeq([k \in DOMAIN template |-> text(store, k)])
    BY DEF Interpolate
  <2> HIDE DEF text
  <2>3. [k \in DOMAIN template |-> text(a, k)] = [k \in DOMAIN template |-> text(b, k)]
    BY <2>1
  <2>4. Interpolate(template, a) = Interpolate(template, b)
    BY <2>2, <2>3
  <2> QED  BY <1>2, <2>4 DEF Resolve
<1> QED  BY <1>1, <1>2

\* And what a step computes on those of its operands.
LEMMA ComputeSame ==
    ASSUME NEW step, \A k \in DOMAIN step.operands : IsOperand(step.operands[k]),
           NEW a, NEW b, AgreeOn(RootsIn(step), a, b)
    PROVE  Compute(step.operation, step.operands, a) = Compute(step.operation, step.operands, b)
<1>1. ASSUME NEW k \in DOMAIN step.operands
      PROVE  Resolve(step.operands[k], a) = Resolve(step.operands[k], b)
  <2>1. RootsOf(step.operands[k]) \subseteq RootsIn(step)
    BY DEF RootsIn
  <2>2. AgreeOn(RootsOf(step.operands[k]), a, b)
    BY <2>1 DEF AgreeOn
  <2> QED  BY <2>2, OperandSame
<1>2. [k \in DOMAIN step.operands |-> Resolve(step.operands[k], a)]
      = [k \in DOMAIN step.operands |-> Resolve(step.operands[k], b)]
  BY <1>1
<1> QED  BY <1>2 DEF Compute

\* What is stored elsewhere changes nothing.
LEMMA AgreeElsewhere ==
    ASSUME NEW names, NEW store, NEW more, DOMAIN more \cap names = {}
    PROVE  AgreeOn(names, store, With(store, more))
<1>1. PICK w : w = With(store, more)
  OBVIOUS
<1>2. /\ DOMAIN w = DOMAIN store \cup DOMAIN more
      /\ \A n \in DOMAIN store \cup DOMAIN more :
            w[n] = IF n \in DOMAIN more THEN more[n] ELSE store[n]
  BY <1>1, WithIs
<1> QED  BY <1>1, <1>2 DEF AgreeOn

\* The step has been done, and its value is what it would be now.
Computed(store, step) ==
    /\ store[step.as] = Compute(step.operation, step.operands, store)
    /\ store[step.as] # Wrong

\* Nothing that is to do writes what this step reads or writes.
LeftAlone(todo, step) ==
    \A k \in DOMAIN todo : WrittenBy(todo[k]) \cap (RootsIn(step) \cup {step.as}) = {}

\* What a programme computed is still so, and stays so.
LastsFor(j) ==
    /\ InOrder(runs[j].todo)
    /\ \A step \in Leaves(Programme[j]) :
          step.kind = "compute" /\ step.as \in DOMAIN runs[j].store =>
              Computed(runs[j].store, step) /\ LeftAlone(runs[j].todo, step)

LastsInv == \A j \in Jobs : Pipeline[j] = "steps" /\ Lasting(Programme[j]) => LastsFor(j)

\* No steps are in order.
LEMMA NoneInOrder == InOrder(<<>>) /\ \A step : LeftAlone(<<>>, step)
<1>1. DOMAIN <<>> = {}
  OBVIOUS
<1> QED  BY <1>1 DEF InOrder, LeftAlone

\* A leaf is its own only leaf, and done it writes its names.
LEMMA LeafAlone ==
    ASSUME NEW j \in Jobs, NEW leaf \in Leaves(Programme[j])
    PROVE  LeavesOf(leaf) = {leaf} /\ WrittenBy(leaf) = NamesOf(leaf)
<1>1. leaf.kind # "branch"
  BY ProgrammesWellFormed DEF WellFormed
<1>2. LeavesOf(leaf) = {leaf}
  BY <1>1 DEF LeavesOf
<1> QED  BY <1>2 DEF WrittenBy

\* What an arm writes, its branch does.
LEMMA ArmWrites ==
    ASSUME NEW j \in Jobs, NEW k \in DOMAIN Programme[j], Programme[j][k].kind = "branch",
           NEW arm, arm \in {Programme[j][k].then, Programme[j][k].otherwise}
    PROVE  /\ IsSequence(arm)
           /\ \A i \in DOMAIN arm : /\ arm[i] \in Leaves(Programme[j])
                                    /\ LeavesOf(arm[i]) \subseteq LeavesOf(Programme[j][k])
                                    /\ WrittenBy(arm[i]) \subseteq WrittenBy(Programme[j][k])
<1> DEFINE branch == Programme[j][k]
<1>1. IsSequence(arm)
  BY ProgrammesWellFormed DEF WellFormed
<1>2. LeavesOf(branch) = Range(branch.then) \cup Range(branch.otherwise)
  BY DEF LeavesOf
<1>3. ASSUME NEW i \in DOMAIN arm
      PROVE  /\ arm[i] \in Leaves(Programme[j])
             /\ LeavesOf(arm[i]) \subseteq LeavesOf(branch)
             /\ WrittenBy(arm[i]) \subseteq WrittenBy(branch)
  <2>1. arm[i] \in Leaves(Programme[j])
    BY DEF Leaves
  <2>2. LeavesOf(arm[i]) = {arm[i]}
    BY <2>1, LeafAlone
  <2>3. arm[i] \in LeavesOf(branch)
    BY <1>2 DEF Range
  <2> HIDE DEF branch
  <2> QED  BY <2>1, <2>2, <2>3 DEF WrittenBy
<1> QED  BY <1>1, <1>3

\* The steps of an arm before those that were to do after the branch.
LEMMA ArmThenRest ==
    ASSUME NEW arm, IsSequence(arm), NEW S, NEW todo \in Seq(S), todo # <<>>
    PROVE  LET after == arm \o Tail(todo) IN
           \A k \in DOMAIN after :
              \/ k \in DOMAIN arm /\ after[k] = arm[k]
              \/ /\ k \notin DOMAIN arm
                 /\ \E m \in DOMAIN todo :
                       m = k - Len(arm) + 1 /\ m # 1 /\ m > 1 /\ after[k] = todo[m]
<1>1. PICK T : arm \in Seq(T) /\ todo \in Seq(T)
  <2>1. arm \in Seq(Range(arm) \cup S) /\ todo \in Seq(Range(arm) \cup S)
    BY DEF IsSequence
  <2> QED  BY <2>1
<1>2. /\ Tail(todo) \in Seq(T) /\ Len(Tail(todo)) = Len(todo) - 1 /\ Len(todo) \in Nat \ {0}
      /\ \A i \in 1 .. Len(todo) - 1 : Tail(todo)[i] = todo[i + 1]
      /\ DOMAIN todo = 1 .. Len(todo)
  BY <1>1, HeadTailProperties, EmptySeq
<1>3. PICK rest : rest = Tail(todo)
  OBVIOUS
<1>4. PICK n \in Nat : n = Len(arm) /\ DOMAIN arm = 1 .. n
  BY <1>1
<1>5. /\ DOMAIN (arm \o rest) = 1 .. n + Len(todo) - 1
      /\ \A k \in 1 .. n + Len(todo) - 1 :
            (arm \o rest)[k] = IF k <= n THEN arm[k] ELSE rest[k - n]
  BY <1>1, <1>2, <1>3, <1>4
<1>6. ASSUME NEW k \in 1 .. n + Len(todo) - 1, ~(k <= n)
      PROVE  /\ k \notin DOMAIN arm
             /\ \E m \in DOMAIN todo : m = k - n + 1 /\ m # 1 /\ m > 1 /\ (arm \o rest)[k] = todo[m]
  <2>1. k - n \in 1 .. Len(todo) - 1
    BY <1>2, <1>4, <1>6
  <2>2. rest[k - n] = todo[(k - n) + 1]
    BY <1>2, <1>3, <2>1
  <2>3. k - n + 1 \in DOMAIN todo /\ k - n + 1 > 1
    BY <1>2, <1>4, <2>1
  <2> QED  BY <1>4, <1>5, <1>6, <2>2, <2>3
<1>7. ASSUME NEW k \in 1 .. n + Len(todo) - 1, k <= n
      PROVE  k \in DOMAIN arm /\ (arm \o rest)[k] = arm[k]
  BY <1>4, <1>5, <1>7
<1> QED  BY <1>3, <1>4, <1>5, <1>6, <1>7

LEMMA LastsArm ==
    ASSUME RunsInv, NEW j \in Jobs, Pipeline[j] = "steps", Lasting(Programme[j]), LastsFor(j),
           ArmTaken(j)
    PROVE  LastsFor(j)'
<1>1. StepsFit(j)
  BY DEF RunsInv, RunFits
<1>2. PICK S, todo : todo = runs[j].todo /\ todo \in Seq(S) /\ todo # <<>>
  BY <1>1 DEF StepsFit, ArmTaken
<1>3. PICK k \in DOMAIN Programme[j] : Head(todo) = Programme[j][k] /\ Programme[j][k].kind = "branch"
  BY <1>2 DEF ArmTaken
<1>4. PICK branch : branch = Programme[j][k]
  OBVIOUS
<1>5. PICK arm \in {branch.then, branch.otherwise} : runs'[j].todo = arm \o Tail(todo)
  BY <1>2, <1>3, <1>4 DEF ArmTaken
<1>6. /\ IsSequence(arm)
      /\ \A i \in DOMAIN arm : /\ arm[i] \in Leaves(Programme[j])
                               /\ LeavesOf(arm[i]) \subseteq LeavesOf(branch)
                               /\ WrittenBy(arm[i]) \subseteq WrittenBy(branch)
  BY <1>3, <1>4, <1>5, ArmWrites
<1>7. InOrder(arm)
  BY <1>3, <1>4, <1>5 DEF Lasting
<1>8. PICK after : after = arm \o Tail(todo)
  OBVIOUS
<1>8a. \A m \in DOMAIN after :
              \/ m \in DOMAIN arm /\ after[m] = arm[m]
              \/ /\ m \notin DOMAIN arm
                 /\ \E n \in DOMAIN todo :
                       n = m - Len(arm) + 1 /\ n # 1 /\ n > 1 /\ after[m] = todo[n]
  BY <1>2, <1>6, <1>8, ArmThenRest
<1>8b. 1 \in DOMAIN todo /\ todo[1] = branch /\ DOMAIN after \subseteq Nat /\ DOMAIN todo \subseteq Nat
       /\ Len(arm) \in Nat /\ DOMAIN arm = 1 .. Len(arm)
  <2>1. Head(todo) = todo[1] /\ 1 \in DOMAIN todo /\ DOMAIN todo \subseteq Nat
    BY <1>2
  <2>2. Len(arm) \in Nat /\ DOMAIN arm = 1 .. Len(arm)
    BY <1>6 DEF IsSequence
  <2>3. DOMAIN after \subseteq Nat
    <3>1. after \in Seq(Range(arm) \cup S)
      BY <1>2, <1>6, <1>8 DEF IsSequence
    <3> QED  BY <3>1
  <2> QED  BY <1>3, <1>4, <2>1, <2>2, <2>3
<1>9. runs'[j].todo = after /\ runs'[j].store = runs[j].store
  BY <1>5, <1>8 DEF ArmTaken
<1>10. ASSUME NEW m \in DOMAIN after, NEW leaf \in LeavesOf(after[m]), leaf.kind = "compute",
              NEW i \in DOMAIN after, m < i
       PROVE  WrittenBy(after[i]) \cap (RootsIn(leaf) \cup {leaf.as}) = {}
  <2>1. CASE i \in DOMAIN arm /\ after[i] = arm[i]
    <3>1. m \in DOMAIN arm /\ after[m] = arm[m]
      BY <1>8a, <1>8b, <1>10, <2>1
    <3> QED  BY <1>7, <1>10, <2>1, <3>1 DEF InOrder
  <2>2. ASSUME NEW n \in DOMAIN todo, n = i - Len(arm) + 1, n > 1, after[i] = todo[n]
        PROVE  WrittenBy(after[i]) \cap (RootsIn(leaf) \cup {leaf.as}) = {}
    <3>1. \E q \in DOMAIN todo : q < n /\ leaf \in LeavesOf(todo[q])
      <4>1. CASE m \in DOMAIN arm /\ after[m] = arm[m]
        BY <1>6, <1>8b, <1>10, <2>2, <4>1
      <4>2. ASSUME NEW q \in DOMAIN todo, q = m - Len(arm) + 1, after[m] = todo[q]
            PROVE  \E r \in DOMAIN todo : r < n /\ leaf \in LeavesOf(todo[r])
        <5>1. q < n
          BY <1>8b, <1>10, <2>2, <4>2
        <5> QED  BY <1>10, <4>2, <5>1
      <4> QED  BY <1>8a, <4>1, <4>2
    <3> QED  BY <1>2, <1>10, <2>2, <3>1 DEF LastsFor, InOrder
  <2> QED  BY <1>8a, <2>1, <2>2
<1>11. InOrder(after)
  BY <1>10 DEF InOrder
<1>12. ASSUME NEW step \in Leaves(Programme[j]), step.kind = "compute",
              step.as \in DOMAIN runs[j].store
       PROVE  LeftAlone(after, step)
  <2>1. \A n \in DOMAIN todo : WrittenBy(todo[n]) \cap (RootsIn(step) \cup {step.as}) = {}
    BY <1>2, <1>12 DEF LastsFor, LeftAlone
  <2>2. ASSUME NEW m \in DOMAIN after
        PROVE  \E n \in DOMAIN todo : WrittenBy(after[m]) \subseteq WrittenBy(todo[n])
    BY <1>6, <1>8a, <1>8b
  <2> QED  BY <2>1, <2>2 DEF LeftAlone
<1> QED  BY <1>9, <1>11, <1>12 DEF LastsFor, Computed

\* A leaf that is done leaves what was computed as it is.
LEMMA LastsLeaf ==
    ASSUME RunsInv, NEW j \in Jobs, Pipeline[j] = "steps", Lasting(Programme[j]), LastsFor(j),
           NEW more, LeafDone(j, more)
    PROVE  LastsFor(j)'
<1>1. StepsFit(j)
  BY DEF RunsInv, RunFits
<1>2. PICK S, todo : todo = runs[j].todo /\ todo \in Seq(S) /\ todo # <<>>
  BY <1>1 DEF StepsFit, LeafDone
<1>3. PICK rest : rest = Tail(todo)
  OBVIOUS
<1>4. /\ Head(todo) = todo[1] /\ 1 \in DOMAIN todo /\ DOMAIN todo \subseteq Nat
      /\ DOMAIN rest \subseteq Nat
      /\ \A m \in DOMAIN rest : m + 1 \in DOMAIN todo /\ rest[m] = todo[m + 1] /\ 1 < m + 1
  BY <1>2, <1>3
<1>5. PICK leaf \in Leaves(Programme[j]) : leaf = todo[1]
  BY <1>2, <1>4 DEF LeafDone
<1>6. PICK store : store = runs[j].store
  OBVIOUS
<1>7. PICK w : w = With(store, more)
  OBVIOUS
<1>8. /\ DOMAIN w = DOMAIN store \cup DOMAIN more
      /\ \A n \in DOMAIN store \cup DOMAIN more :
            w[n] = IF n \in DOMAIN more THEN more[n] ELSE store[n]
  BY <1>7, WithIs
<1>9. /\ runs'[j].store = w /\ runs'[j].todo = rest
      /\ DOMAIN more = NamesOf(leaf)
      /\ leaf.kind = "compute" =>
            /\ more[leaf.as] = Compute(leaf.operation, leaf.operands, store)
            /\ more[leaf.as] # Wrong
  BY <1>2, <1>3, <1>4, <1>5, <1>6, <1>7, Zenon DEF LeafDone
<1>10. LeavesOf(leaf) = {leaf} /\ WrittenBy(leaf) = NamesOf(leaf)
  BY LeafAlone
<1>11. InOrder(rest)
  <2> SUFFICES ASSUME NEW k \in DOMAIN rest, NEW step \in LeavesOf(rest[k]), step.kind = "compute",
                      NEW m \in DOMAIN rest, k < m
               PROVE  WrittenBy(rest[m]) \cap (RootsIn(step) \cup {step.as}) = {}
    BY DEF InOrder
  <2>1. k + 1 \in DOMAIN todo /\ m + 1 \in DOMAIN todo /\ k + 1 < m + 1
        /\ rest[k] = todo[k + 1] /\ rest[m] = todo[m + 1]
    BY <1>4
  <2> QED  BY <1>2, <2>1 DEF LastsFor, InOrder
\* Of each step that computes, done before or now.
<1>12. ASSUME NEW step \in Leaves(Programme[j]), step.kind = "compute", step.as \in DOMAIN w
       PROVE  Computed(w, step) /\ LeftAlone(rest, step)
  <2>1. \A k \in DOMAIN step.operands : IsOperand(step.operands[k])
    BY <1>12, ProgrammesWellFormed DEF WellFormed
  <2>2. CASE step.as \in DOMAIN more
    <3>1. step = leaf
      BY <1>9, <1>12, <2>2 DEF Lasting
    <3>2. NamesOf(leaf) = {leaf.as}
      BY <1>12, <3>1 DEF NamesOf
    <3>3. leaf.as \notin RootsIn(leaf)
      BY <1>12, <3>1 DEF Lasting
    <3>4. DOMAIN more \cap RootsIn(step) = {}
      BY <1>9, <3>1, <3>2, <3>3
    <3>5. Compute(step.operation, step.operands, store) = Compute(step.operation, step.operands, w)
      BY <1>7, <2>1, <3>4, AgreeElsewhere, ComputeSame
    <3>6. Computed(w, step)
      BY <1>8, <1>9, <1>12, <2>2, <3>1, <3>5 DEF Computed
    <3>7. LeftAlone(rest, step)
      <4> SUFFICES ASSUME NEW m \in DOMAIN rest
                   PROVE  WrittenBy(rest[m]) \cap (RootsIn(step) \cup {step.as}) = {}
        BY DEF LeftAlone
      <4>1. m + 1 \in DOMAIN todo /\ rest[m] = todo[m + 1] /\ 1 < m + 1
        BY <1>4
      <4>2. step \in LeavesOf(todo[1])
        BY <1>5, <1>10, <3>1
      <4> QED  BY <1>2, <1>4, <1>12, <4>1, <4>2 DEF LastsFor, InOrder
    <3> QED  BY <3>6, <3>7
  <2>3. CASE step.as \notin DOMAIN more
    <3>1. step.as \in DOMAIN store /\ w[step.as] = store[step.as]
      BY <1>8, <1>12, <2>3
    <3>2. Computed(store, step) /\ LeftAlone(todo, step)
      BY <1>2, <1>6, <1>12, <3>1 DEF LastsFor
    <3>3. DOMAIN more \cap RootsIn(step) = {}
      BY <1>4, <1>5, <1>9, <1>10, <3>2 DEF LeftAlone
    <3>4. Compute(step.operation, step.operands, store) = Compute(step.operation, step.operands, w)
      BY <1>7, <2>1, <3>3, AgreeElsewhere, ComputeSame
    <3>5. LeftAlone(rest, step)
      BY <1>4, <3>2 DEF LeftAlone
    <3> QED  BY <3>1, <3>2, <3>4, <3>5 DEF Computed
  <2> QED  BY <2>2, <2>3
<1> QED  BY <1>9, <1>11, <1>12 DEF LastsFor

LEMMA LastsStart == Init => LastsInv
<1> SUFFICES ASSUME Init, NEW j \in Jobs PROVE LastsFor(j)
  BY DEF LastsInv
<1> DEFINE nothing == [n \in {} |-> Nothing]
           lists == <<NoLists, NoLists>>
<1>1. runs[j] = NewRun
  BY DEF Init
<1>2. NewRun = [pc |-> "new", todo |-> <<>>, store |-> nothing, lists |-> lists,
                asked |-> {}, status |-> "NONE", why |-> ""]
  BY Zenon DEF NewRun
<1>3. DOMAIN nothing = {}
  OBVIOUS
<1> HIDE DEF nothing, lists
<1>4. NewRun.store = nothing /\ NewRun.todo = <<>>
  BY <1>2
<1> QED  BY <1>1, <1>3, <1>4, NoneInOrder DEF LastsFor

LEMMA LastsStep == HarnessInv /\ LastsInv /\ [Next]_vars => LastsInv'
<1> SUFFICES ASSUME HarnessInv, LastsInv, [Next]_vars PROVE LastsInv'
  OBVIOUS
<1>1. RunsInv /\ cast \in Casts
  BY DEF HarnessInv, RunsInv
<1>2. ASSUME NEW j \in cast.jobs, RunSteps(j)  PROVE LastsInv'
  <2>1. j \in Jobs
    BY <1>1, <1>2, CastsWithin
  <2>2. \A i \in Jobs \ {j} : runs'[i] = runs[i]
    BY <1>1, <1>2, <2>1, OthersStay
  <2>3. ASSUME NEW i \in Jobs \ {j}, LastsFor(i)  PROVE LastsFor(i)'
    BY <2>2, <2>3 DEF LastsFor
  <2>4. ASSUME Pipeline[j] = "steps", Lasting(Programme[j])  PROVE LastsFor(j)'
    <3>1. LastsFor(j)
      BY <2>1, <2>4 DEF LastsInv
    <3>2. StartRun(j) \/ StepEngine(j)
      BY <1>1, <1>2, <2>1, <2>4, ProgrammesStep
    <3>3. CASE NothingNew(j)
      BY <3>1, <3>3, NoneInOrder DEF NothingNew, LastsFor
    <3>4. CASE ArmTaken(j)
      BY <1>1, <2>1, <2>4, <3>1, <3>4, LastsArm
    <3>5. CASE \E more : LeafDone(j, more)
      BY <1>1, <2>1, <2>4, <3>1, <3>5, LastsLeaf
    <3>6. CASE StartRun(j)
      <4>1. CASE runs'[j].store = runs[j].store /\ runs'[j].todo = <<>>
        BY <3>1, <4>1, NoneInOrder DEF LastsFor
      <4>2. CASE runs'[j].store = Known(j) /\ runs'[j].todo = Programme[j]
        <5>1. DOMAIN Known(j) = {"input", "senderEmail", "organisationName"}
          BY DEF Known
        <5>2. \A step \in Leaves(Programme[j]) : step.kind = "compute" => step.as \notin DOMAIN Known(j)
          BY <2>4, <5>1 DEF Lasting
        <5>3. InOrder(Programme[j])
          BY <2>4 DEF Lasting
        <5> QED  BY <4>2, <5>2, <5>3 DEF LastsFor
      <4> QED  BY <1>1, <2>1, <3>6, <4>1, <4>2, StartStores
    <3> QED  BY <1>1, <2>1, <3>2, <3>3, <3>4, <3>5, <3>6, EngineStores
  <2> QED  BY <2>3, <2>4 DEF LastsInv
<1>3. CASE UNCHANGED runs
  BY <1>3 DEF LastsInv, LastsFor
<1> QED
  BY <1>2, <1>3 DEF Next, vars

-----------------------------------------------------------------------------
(* Averages.                                                                *)

\* What is divided lies between the quotient and the next number.
LEMMA Quotients ==
    ASSUME NEW n \in Int, NEW d \in Int, d > 0
    PROVE  /\ n \div d \in Int
           /\ d * (n \div d) <= n /\ n < d * (n \div d) + d
OBVIOUS

\* And there is only one such quotient.
LEMMA OneQuotient ==
    ASSUME NEW n \in Int, NEW d \in Int, d > 0, NEW q \in Int, d * q <= n, n < d * q + d
    PROVE  n \div d = q
<1>1. PICK p \in Int : p = n \div d
  BY Quotients
<1>2. d * p <= n /\ n < d * p + d
  BY <1>1, Quotients
<1>3. ASSUME q < p  PROVE FALSE
  <2>1. PICK e \in Nat : p = q + 1 + e
    <3>1. p - q - 1 \in Nat /\ p = q + 1 + (p - q - 1)
      BY <1>3
    <3> QED  BY <3>1
  <2>2. d * e \in Int /\ d * e >= 0
    OBVIOUS
  <2>3. d * p = d * q + d + d * e
    BY <2>1
  <2> QED  BY <1>2, <2>2, <2>3
<1>4. ASSUME p < q  PROVE FALSE
  <2>1. PICK e \in Nat : q = p + 1 + e
    <3>1. q - p - 1 \in Nat /\ q = p + 1 + (q - p - 1)
      BY <1>4
    <3> QED  BY <3>1
  <2>2. d * e \in Int /\ d * e >= 0
    OBVIOUS
  <2>3. d * q = d * p + d + d * e
    BY <2>1
  <2> QED  BY <1>2, <2>2, <2>3
<1> QED  BY <1>1, <1>3, <1>4

\* The rounded quotient by so many.
LEMMA RoundDivBy ==
    ASSUME NEW t \in Int, NEW l \in Nat \ {0}
    PROVE  /\ RoundDiv(t, l) = (2 * t + l) \div (2 * l)
           /\ RoundDiv(t, l) \in Int
           /\ (2 * l) * RoundDiv(t, l) <= 2 * t + l
           /\ 2 * t + l < (2 * l) * RoundDiv(t, l) + 2 * l
<1>1. RoundDiv(t, l) = (2 * t + l) \div (2 * l)
  BY DEF RoundDiv
<1>2. PICK n \in Int, d \in Int : n = 2 * t + l /\ d = 2 * l /\ d > 0
  OBVIOUS
<1> QED  BY <1>1, <1>2, Quotients

\* Both sides a hundred times over, it is the same.
LEMMA RoundDivCancels ==
    ASSUME NEW t \in Int, NEW l \in Nat \ {0}
    PROVE  RoundDiv(100 * t, 100 * l) = RoundDiv(t, l)
<1>1. PICK q \in Int : q = RoundDiv(t, l)
  BY RoundDivBy
<1>2. (2 * l) * q <= 2 * t + l /\ 2 * t + l < (2 * l) * q + 2 * l
  BY <1>1, RoundDivBy
<1>3. 100 * l \in Nat \ {0} /\ 100 * t \in Int
  OBVIOUS
<1>4. PICK n \in Int, d \in Int : n = 2 * (100 * t) + 100 * l /\ d = 2 * (100 * l) /\ d > 0
  OBVIOUS
<1>5. RoundDiv(100 * t, 100 * l) = n \div d
  BY <1>3, <1>4, RoundDivBy
<1>6. PICK p \in Int : p = (2 * l) * q
  OBVIOUS
<1>7. d * q = 100 * p
  BY <1>4, <1>6
<1>8. d * q <= n /\ n < d * q + d
  BY <1>2, <1>4, <1>6, <1>7
<1> QED  BY <1>1, <1>4, <1>5, <1>8, OneQuotient

\* Numbers that are all above, or all below, add up to more, or to less.
LEMMA SumsAbove ==
    ASSUME NEW items, Len(items) \in Nat, NEW c \in Int,
           \A k \in 1 .. Len(items) : AsNumber(items[k]) \in Int /\ AsNumber(items[k]) >= c
    PROVE  Sums(items)[Len(items)] >= Len(items) * c
<1> DEFINE s == Sums(items)
           short == {n \in 0 .. Len(items) : ~(s[n] >= n * c)}
<1>1. s[0] = 0 /\ \A n \in 1 .. Len(items) : s[n] = s[n - 1] + AsNumber(items[n])
  BY SumsStepwise
<1>2. \A n \in 0 .. Len(items) : s[n] \in Int
  BY SumsWhole
<1> HIDE DEF s
<1>3. short = {}
  <2> SUFFICES ASSUME short # {} PROVE FALSE
    OBVIOUS
  <2>0. short \subseteq Nat
    OBVIOUS
  <2>1. PICK n \in short : \A m \in short : n <= m
    BY <2>0, LeastNumber
  <2>2. n # 0
    BY <1>1, <2>1
  <2>3. n - 1 \in 0 .. Len(items) /\ n - 1 \notin short /\ n \in 1 .. Len(items)
    BY <2>1, <2>2
  <2>4. s[n - 1] >= (n - 1) * c
    BY <2>3
  <2>5. n * c = (n - 1) * c + c
    OBVIOUS
  <2>6. PICK a \in Int, b \in Int, p \in Int, x \in Int :
            a = s[n - 1] /\ b = s[n] /\ p = (n - 1) * c /\ x = AsNumber(items[n])
    <3>1. s[n - 1] \in Int /\ s[n] \in Int
      BY <1>2, <2>3
    <3>2. (n - 1) * c \in Int
      <4>1. n - 1 \in Int
        BY <2>3
      <4> QED  BY <4>1
    <3>3. AsNumber(items[n]) \in Int
      BY <2>3
    <3> QED  BY <3>1, <3>2, <3>3, Zenon
  <2>7. b = a + x /\ x >= c /\ a >= p
    BY <1>1, <2>3, <2>4, <2>6
  <2>8. b >= p + c
    BY <2>7
  <2> QED  BY <2>1, <2>5, <2>6, <2>8
<1>4. Len(items) \in 0 .. Len(items)
  OBVIOUS
<1> QED  BY <1>3, <1>4 DEF s

LEMMA SumsBelow ==
    ASSUME NEW items, Len(items) \in Nat, NEW c \in Int,
           \A k \in 1 .. Len(items) : AsNumber(items[k]) \in Int /\ AsNumber(items[k]) <= c
    PROVE  Sums(items)[Len(items)] <= Len(items) * c
<1> DEFINE s == Sums(items)
           long == {n \in 0 .. Len(items) : ~(s[n] <= n * c)}
<1>1. s[0] = 0 /\ \A n \in 1 .. Len(items) : s[n] = s[n - 1] + AsNumber(items[n])
  BY SumsStepwise
<1>2. \A n \in 0 .. Len(items) : s[n] \in Int
  BY SumsWhole
<1> HIDE DEF s
<1>3. long = {}
  <2> SUFFICES ASSUME long # {} PROVE FALSE
    OBVIOUS
  <2>0. long \subseteq Nat
    OBVIOUS
  <2>1. PICK n \in long : \A m \in long : n <= m
    BY <2>0, LeastNumber
  <2>2. n # 0
    BY <1>1, <2>1
  <2>3. n - 1 \in 0 .. Len(items) /\ n - 1 \notin long /\ n \in 1 .. Len(items)
    BY <2>1, <2>2
  <2>4. s[n - 1] <= (n - 1) * c
    BY <2>3
  <2>5. n * c = (n - 1) * c + c
    OBVIOUS
  <2>6. PICK a \in Int, b \in Int, p \in Int, x \in Int :
            a = s[n - 1] /\ b = s[n] /\ p = (n - 1) * c /\ x = AsNumber(items[n])
    <3>1. s[n - 1] \in Int /\ s[n] \in Int
      BY <1>2, <2>3
    <3>2. (n - 1) * c \in Int
      <4>1. n - 1 \in Int
        BY <2>3
      <4> QED  BY <4>1
    <3>3. AsNumber(items[n]) \in Int
      BY <2>3
    <3> QED  BY <3>1, <3>2, <3>3, Zenon
  <2>7. b = a + x /\ x <= c /\ a <= p
    BY <1>1, <2>3, <2>4, <2>6
  <2>8. b <= p + c
    BY <2>7
  <2> QED  BY <2>1, <2>5, <2>6, <2>8
<1>4. Len(items) \in 0 .. Len(items)
  OBVIOUS
<1> QED  BY <1>3, <1>4 DEF s

\* So the average lies between two of them.
LEMMA AverageBetween ==
    ASSUME NEW items, Len(items) \in Nat \ {0},
           \A k \in 1 .. Len(items) : AsNumber(items[k]) \in Int
    PROVE  LET average == RoundDiv(Total(items), Len(items)) IN
           /\ \E k \in 1 .. Len(items) : AsNumber(items[k]) <= average
           /\ \E k \in 1 .. Len(items) : average <= AsNumber(items[k])
<1>1. PICK t \in Int : t = Total(items)
  <2>1. Len(items) \in 0 .. Len(items)
    OBVIOUS
  <2> QED  BY <2>1, SumsWhole DEF Total
<1>2. PICK l \in Nat \ {0} : l = Len(items)
  OBVIOUS
<1>3. PICK q \in Int : q = RoundDiv(t, l)
  BY RoundDivBy
<1>4. (2 * l) * q <= 2 * t + l /\ 2 * t + l < (2 * l) * q + 2 * l
  BY <1>3, RoundDivBy
<1>5. PICK p \in Int : p = l * q
  OBVIOUS
<1>6. (2 * l) * q = 2 * p /\ l * (q + 1) = p + l /\ l * (q - 1) = p - l
  BY <1>5
<1>7. \E k \in 1 .. Len(items) : AsNumber(items[k]) <= q
  <2> SUFFICES ASSUME \A k \in 1 .. Len(items) : ~(AsNumber(items[k]) <= q) PROVE FALSE
    OBVIOUS
  <2>0. PICK c \in Int : c = q + 1
    OBVIOUS
  <2>1. \A k \in 1 .. Len(items) : AsNumber(items[k]) \in Int /\ AsNumber(items[k]) >= c
    BY <2>0
  <2>2. Sums(items)[Len(items)] >= Len(items) * c
    BY <2>1, SumsAbove
  <2>3. t >= l * (q + 1)
    BY <1>1, <1>2, <2>0, <2>2 DEF Total
  <2> QED  BY <1>4, <1>6, <2>3
<1>8. \E k \in 1 .. Len(items) : q <= AsNumber(items[k])
  <2> SUFFICES ASSUME \A k \in 1 .. Len(items) : ~(q <= AsNumber(items[k])) PROVE FALSE
    OBVIOUS
  <2>0. PICK c \in Int : c = q - 1
    OBVIOUS
  <2>1. \A k \in 1 .. Len(items) : AsNumber(items[k]) \in Int /\ AsNumber(items[k]) <= c
    BY <2>0
  <2>2. Sums(items)[Len(items)] <= Len(items) * c
    BY <2>1, SumsBelow
  <2>3. t <= l * (q - 1)
    BY <1>1, <1>2, <2>0, <2>2 DEF Total
  <2> QED  BY <1>4, <1>6, <2>3
<1> QED  BY <1>1, <1>2, <1>3, <1>7, <1>8

\* What the step computes is of these operands' values.
Values(step, store) == [k \in DOMAIN step.operands |-> Resolve(step.operands[k], store)]

\* What is computed of a list, when it is computed: there are items, each with
\* a number, and so many of them as the list is long.
LEMMA Aggregated ==
    ASSUME NEW values, NoPassages(values), NEW o, NEW store, OwnStore(o, store, values),
           NEW step, step.operation = "avg",
           IsSequence(step.operands), step.operands # <<>>,
           \A k \in DOMAIN step.operands : IsOperand(step.operands[k]),
           Compute("avg", step.operands, store) # Wrong
    PROVE  LET resolved == Values(step, store)
               items == ItemsOf(resolved)
           IN /\ Len(items) \in Nat \ {0}
              /\ DOMAIN AsList(resolved[1]) = 1 .. Len(items)
              /\ Len(AsList(resolved[1])) = Len(items)
              /\ \A k \in 1 .. Len(items) :
                    /\ items[k] = FieldOf(AsList(resolved[1])[k], resolved)
                    /\ AsNumber(items[k]) \in Int
              /\ Total(items) \in Int
              /\ Compute("avg", step.operands, store) = Figure(RoundDiv(Total(items), Len(items)))
              /\ Compute("sum", step.operands, store) = Figure(Total(items))
<1> DEFINE resolved == Values(step, store)
           items == ItemsOf(resolved)
<1>1. Len(step.operands) \in Nat \ {0} /\ DOMAIN step.operands = 1 .. Len(step.operands)
  BY EmptySeq, LenProperties DEF IsSequence
<1>2. Len(resolved) = Len(step.operands) /\ DOMAIN resolved = 1 .. Len(step.operands)
  BY <1>1 DEF Values
<1>3. \A k \in 1 .. Len(resolved) : OwnValue(o, resolved[k], values)
  BY <1>1, <1>2, ResolvedOwn DEF Values
<1>4. /\ Compute("avg", step.operands, store) = ComputeAggregate("avg", resolved)
      /\ Compute("sum", step.operands, store) = ComputeAggregate("sum", resolved)
  BY DEF Compute, Values
<1> HIDE DEF resolved
<1>5. /\ Len(items) \in Nat /\ DOMAIN items = 1 .. Len(items)
      /\ Len(items) = Len(AsList(resolved[1]))
      /\ DOMAIN AsList(resolved[1]) = 1 .. Len(items)
      /\ \A k \in 1 .. Len(items) : OwnValue(o, items[k], values)
  BY <1>1, <1>2, <1>3, ItemsOwn
<1>6. AllNumbers(items) /\ items # <<>>
  BY <1>4 DEF ComputeAggregate, OfNothing
<1>7. items = [k \in DOMAIN AsList(resolved[1]) |-> FieldOf(AsList(resolved[1])[k], resolved)]
  BY DEF ItemsOf
<1>8. /\ ComputeAggregate("avg", resolved) = Figure(RoundDiv(Total(items), Len(items)))
      /\ ComputeAggregate("sum", resolved) = Figure(Total(items))
  BY <1>6 DEF ComputeAggregate
<1> HIDE DEF items
<1>9. \A k \in 1 .. Len(items) : /\ items[k] = FieldOf(AsList(resolved[1])[k], resolved)
                                 /\ AsNumber(items[k]) \in Int
  <2>1. \A k \in 1 .. Len(items) : items[k] = FieldOf(AsList(resolved[1])[k], resolved)
    BY <1>5, <1>7
  <2>2. \A k \in 1 .. Len(items) : AsNumber(items[k]) \in Int
    BY <1>5, <1>6, NumbersWhole DEF AllNumbers
  <2> QED  BY <2>1, <2>2
<1>10. Len(items) # 0
  <2>1. ASSUME Len(items) = 0  PROVE FALSE
    <3>1. DOMAIN items = {}
      BY <1>5, <2>1
    <3>2. items = <<>>
      BY <1>7, <3>1
    <3> QED  BY <1>6, <3>2
  <2> QED  BY <2>1
<1>11. Total(items) \in Int
  <2>1. Len(items) \in 0 .. Len(items)
    BY <1>5
  <2> QED  BY <1>5, <1>9, <2>1, SumsWhole DEF Total
<1> QED  BY <1>4, <1>5, <1>8, <1>9, <1>10, <1>11 DEF items, resolved

\* A figure counts as itself.
LEMMA FigureCounts ==
    ASSUME NEW n
    PROVE  IsNumber(Figure(n)) /\ AsNumber(Figure(n)) = n /\ Figure(n).figure = n
<1> DEFINE v == Figure(n)
<1>1. DOMAIN v = {"figure"} /\ v.figure = n
  BY DEF Figure
<1> HIDE DEF v
<1> QED  BY <1>1 DEF IsNumber, AsNumber, Is, v

\* Nothing is no number.
LEMMA NothingCounts == ~IsNumber(Nothing)
<1>1. DOMAIN Nothing = {"none"}
  BY DEF Nothing
<1> QED  BY <1>1 DEF IsNumber, Is

\* The step that divides what two names hold.
LEMMA DividedNames ==
    ASSUME NEW store, NEW a, NEW b, NEW operands,
           operands = <<[path |-> <<a>>], [path |-> <<b>>]>>,
           Compute("divide", operands, store) # Wrong
    PROVE  /\ a \in DOMAIN store /\ b \in DOMAIN store
           /\ Compute("divide", operands, store)
              = Arithmetic("divide", AsNumber(store[a]), AsNumber(store[b]))
<1> DEFINE resolved == [k \in DOMAIN operands |-> Resolve(operands[k], store)]
           ref(name) == [path |-> <<name>>]
           here(name) == IF name \in DOMAIN store THEN store[name] ELSE Nothing
<1>1. ASSUME NEW name  PROVE Resolve(ref(name), store) = here(name)
  <2>1. "path" \in DOMAIN ref(name) /\ ref(name).path = <<name>>
    OBVIOUS
  <2>2. Resolve(ref(name), store) = ResolvePath(store, <<name>>)
    <3> HIDE DEF ref
    <3> QED  BY <2>1 DEF Resolve
  <2> QED  BY <2>2, OneSegment
<1>2. operands = <<ref(a), ref(b)>>
  OBVIOUS
<1>3. DOMAIN operands = 1 .. 2 /\ operands[1] = ref(a) /\ operands[2] = ref(b)
  BY <1>2
<1> HIDE DEF ref, here
<1>4. Compute("divide", operands, store) = ComputeArithmetic("divide", resolved)
  BY DEF Compute
<1>5. resolved[1] = here(a) /\ resolved[2] = here(b)
  BY <1>1, <1>3
<1> HIDE DEF resolved
<1>6. HasNumbers(resolved, 2)
  BY <1>4 DEF ComputeArithmetic
<1>7. IsNumber(here(a)) /\ IsNumber(here(b))
  BY <1>5, <1>6 DEF HasNumbers
<1>8. a \in DOMAIN store /\ b \in DOMAIN store /\ here(a) = store[a] /\ here(b) = store[b]
  BY <1>7, NothingCounts DEF here
<1> QED  BY <1>4, <1>5, <1>6, <1>8 DEF ComputeArithmetic

\* The averages of what a run holds.
LEMMA AveragesHeld ==
    ASSUME HarnessInv, LastsInv, NEW values, GivenFrom(values), OwnInv(values),
           \A j \in Jobs : Pipeline[j] = "steps" => Lasting(Programme[j])
    PROVE  AveragesTrue
<1> SUFFICES ASSUME NEW j \in Jobs, NEW step \in Leaves(Programme[j]), step.kind = "compute",
                    step.operation = "avg", step.as \in DOMAIN runs[j].store
             PROVE  LET resolved == Values(step, runs[j].store)
                        items == {AsNumber(FieldOf(AsList(resolved[1])[k], resolved)) :
                                     k \in DOMAIN AsList(resolved[1])}
                        average == runs[j].store[step.as].figure
                    IN /\ \E m, n \in items : m <= average /\ average <= n
                       /\ \A other \in Leaves(Programme[j]) :
                             SumByCount(Programme[j], other, step)
                             /\ other.as \in DOMAIN runs[j].store
                             => Read(j, other.as) = Figure(average)
  BY DEF AveragesTrue, Values
<1>1. Pipeline[j] = "steps"
  <2>1. Pipeline[j] # "steps" => Programme[j] = <<>>
    BY HarnessAssumption
  <2>2. Leaves(<<>>) = {}
    BY DEF Leaves
  <2> QED  BY <2>1, <2>2
<1>2. PICK store : store = runs[j].store
  OBVIOUS
<1>3. /\ \A s \in Leaves(Programme[j]) : s.kind = "compute" /\ s.as \in DOMAIN store =>
             /\ store[s.as] = Compute(s.operation, s.operands, store)
             /\ store[s.as] # Wrong
      /\ OwnStore(OrgOf[j], store, values)
      /\ NoPassages(values)
  BY <1>1, <1>2, NoPassagesGiven DEF LastsInv, LastsFor, Computed, OwnInv
<1>4. /\ IsSequence(step.operands) /\ step.operands # <<>>
      /\ \A k \in DOMAIN step.operands : IsOperand(step.operands[k])
  BY ProgrammesWellFormed DEF WellFormed
<1>5. store[step.as] = Compute("avg", step.operands, store) /\ store[step.as] # Wrong
  BY <1>2, <1>3
<1>6. PICK resolved : resolved = Values(step, store)
  OBVIOUS
<1>7. PICK items : items = ItemsOf(resolved)
  OBVIOUS
<1>8. /\ Len(items) \in Nat \ {0}
      /\ DOMAIN AsList(resolved[1]) = 1 .. Len(items)
      /\ Len(AsList(resolved[1])) = Len(items)
      /\ \A k \in 1 .. Len(items) :
            /\ items[k] = FieldOf(AsList(resolved[1])[k], resolved)
            /\ AsNumber(items[k]) \in Int
      /\ Total(items) \in Int
      /\ Compute("avg", step.operands, store) = Figure(RoundDiv(Total(items), Len(items)))
      /\ Compute("sum", step.operands, store) = Figure(Total(items))
  BY <1>3, <1>4, <1>5, <1>6, <1>7, Aggregated
<1>9. PICK average : average = RoundDiv(Total(items), Len(items))
  OBVIOUS
<1>10. store[step.as] = Figure(average) /\ store[step.as].figure = average
  BY <1>5, <1>8, <1>9, FigureCounts
<1>11. \E m, n \in {AsNumber(FieldOf(AsList(resolved[1])[k], resolved)) :
                       k \in DOMAIN AsList(resolved[1])} : m <= average /\ average <= n
  <2>1. PICK k \in 1 .. Len(items) : AsNumber(items[k]) <= average
    BY <1>8, <1>9, AverageBetween
  <2>2. PICK l \in 1 .. Len(items) : average <= AsNumber(items[l])
    BY <1>8, <1>9, AverageBetween
  <2> QED  BY <1>8, <2>1, <2>2
<1>12. ASSUME NEW other \in Leaves(Programme[j]), SumByCount(Programme[j], other, step),
              other.as \in DOMAIN store
       PROVE  store[other.as] = Figure(average)
  <2>1. PICK sum \in Leaves(Programme[j]), count \in Leaves(Programme[j]) :
            /\ sum.kind = "compute" /\ sum.operation = "sum" /\ sum.operands = step.operands
            /\ count.kind = "compute" /\ count.operation = "count"
            /\ count.operands[1] = step.operands[1]
            /\ other.operands = <<[path |-> <<sum.as>>], [path |-> <<count.as>>]>>
    BY <1>12 DEF SumByCount
  <2>2. store[other.as] = Compute("divide", other.operands, store) /\ store[other.as] # Wrong
    BY <1>3, <1>12 DEF SumByCount
  <2>3. /\ sum.as \in DOMAIN store /\ count.as \in DOMAIN store
        /\ store[other.as] = Arithmetic("divide", AsNumber(store[sum.as]), AsNumber(store[count.as]))
    BY <2>1, <2>2, DividedNames
  <2>4. AsNumber(store[sum.as]) = Total(items)
    BY <1>3, <1>8, <2>1, <2>3, FigureCounts
  <2>5. AsNumber(store[count.as]) = 100 * Len(items)
    <3>1. 1 \in DOMAIN step.operands /\ 1 \in DOMAIN count.operands
      <4>1. IsSequence(count.operands) /\ count.operands # <<>>
        BY <2>1, ProgrammesWellFormed DEF WellFormed
      <4> QED  BY <1>4, <4>1, EmptySeq, LenProperties DEF IsSequence
    <3>2. resolved[1] = Resolve(step.operands[1], store)
      BY <1>6, <3>1 DEF Values
    <3>3. Compute("count", count.operands, store)
          = Figure(100 * Len(AsList(Resolve(count.operands[1], store))))
      BY <3>1 DEF Compute
    <3>4. store[count.as] = Figure(100 * Len(items))
      <4>1. store[count.as] = Compute("count", count.operands, store)
        BY <1>3, <2>1, <2>3
      <4>2. Len(AsList(Resolve(count.operands[1], store))) = Len(items)
        BY <1>8, <2>1, <3>2
      <4> QED  BY <3>3, <4>1, <4>2
    <3> QED  BY <3>4, FigureCounts
  <2>6. PICK t \in Int, l \in Nat \ {0} : t = Total(items) /\ l = Len(items)
    BY <1>8
  <2>7. 100 * l # 0
    OBVIOUS
  <2>8. Arithmetic("divide", t, 100 * l) = Figure(RoundDiv(100 * t, 100 * l))
    BY <2>7 DEF Arithmetic
  <2> QED  BY <1>9, <2>3, <2>4, <2>5, <2>6, <2>8, RoundDivCancels
<1> QED  BY <1>2, <1>6, <1>10, <1>11, <1>12 DEF Read

\* runCompute: an average is of something and lies within it, the sum divided by
\* the count comes to the same, and a quote's total is what its template would
\* compute - provided each step programme gives every computed name one value
\* and nothing rewrites what it was computed from.
THEOREM FiguresAlwaysTrue ==
    ASSUME NEW values, GivenFrom(values),
           \A j \in Jobs : Pipeline[j] = "steps" => Lasting(Programme[j])
    PROVE  Spec => []FiguresTrue
<1>1. Init => OwnInv(values)
  BY OwnStart
<1>2. HarnessInv /\ SearchInv /\ QuotesInv /\ PricesInv /\ OwnInv(values) /\ [Next]_vars
      => OwnInv(values)'
  BY OwnStep
<1>3. HarnessInv /\ LastsInv /\ OwnInv(values) => AveragesTrue
  BY AveragesHeld
<1> QED
  BY <1>1, <1>2, <1>3, TotalsAlwaysAgree, HarnessAlwaysFits, SearchStart, SearchStep,
     QuotesStart, QuotesStep, PricesStart, PricesStep, LastsStart, LastsStep, PTL
     DEF Spec, FiguresTrue

=============================================================================
