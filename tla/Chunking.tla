------------------------------ MODULE Chunking ------------------------------
(***************************************************************************)
(* How a document is split into the chunks that are embedded and found.    *)
(* Text is a sequence of positions <<paragraph, offset>>, so that one can  *)
(* say which part of the document a chunk carries; a document is the       *)
(* lengths of its paragraphs, 0 for one of white space only.               *)
(***************************************************************************)
EXTENDS Integers, Sequences

CONSTANTS
    TargetChars, OverlapChars, MaxChars,    \* 1500, 200 and 2000
    Documents                               \* the documents that are added

ASSUME ChunkingAssumption ==
    /\ {TargetChars, OverlapChars, MaxChars} \subseteq Nat \ {0}
    /\ OverlapChars < MaxChars /\ TargetChars <= MaxChars
    /\ Documents \subseteq Seq(Nat)

\* The blank line between two paragraphs of a chunk.
Gap == <<<<0, 0>>, <<0, 0>>>>

Paragraph(document, p) == [k \in 1 .. document[p] |-> <<p, k>>]

\* Pieces of MaxChars, each beginning OverlapChars before the end of the last.
Stride_gapless == MaxChars
Stride == MaxChars - OverlapChars

HardSplit(text) ==
    LET more == (Len(text) - MaxChars + Stride - 1) \div Stride
    IN [i \in 1 .. more + 1 |->
          SubSeq(text, (i - 1) * Stride + 1,
                 IF i = more + 1 THEN Len(text) ELSE (i - 1) * Stride + MaxChars)]

Flush_loses(split) == split.chunks
Flush(split) ==
    IF split.current = <<>> THEN split.chunks ELSE Append(split.chunks, split.current)

Joined(current, text) == IF current = <<>> THEN text ELSE current \o Gap \o text

\* Does the paragraph still go into the chunk being filled?
Fits_always(text) == TRUE
Fits(text) == Len(text) <= TargetChars

Place(split, text) ==
    IF Len(text) > MaxChars
    THEN [chunks |-> Flush(split) \o HardSplit(text), current |-> <<>>]
    ELSE IF Fits(Joined(split.current, text))
    THEN [split EXCEPT !.current = Joined(@, text)]
    ELSE [chunks |-> Flush(split), current |-> text]

\* A paragraph of white space only is left out.
Take(split, document, p) ==
    IF document[p] = 0 THEN split ELSE Place(split, Paragraph(document, p))

\* The chunks and the one being filled, after each paragraph.
Filled(document) ==
    LET after[p \in 0 .. Len(document)] ==
            IF p = 0 THEN [chunks |-> <<>>, current |-> <<>>]
            ELSE Take(after[p - 1], document, p)
    IN after

Split(document) == Flush(Filled(document)[Len(document)])

LastChars(text) == SubSeq(text, Len(text) - OverlapChars + 1, Len(text))
TailOf(text) == IF Len(text) <= OverlapChars THEN text ELSE LastChars(text)

\* chunkDocument: every chunk but the first carries the end of the one before.
ChunkDocument(document) ==
    LET chunks == Split(document)
    IN [k \in DOMAIN chunks |->
          IF k = 1 THEN chunks[k] ELSE TailOf(chunks[k - 1]) \o Gap \o chunks[k]]

\* The same for all documents at once.
Chunked == [d \in Documents |-> ChunkDocument(d)]

\* text stands in chunk, in one piece.
Carries(chunk, text) ==
    \E i \in 0 .. Len(chunk) - Len(text) : SubSeq(chunk, i + 1, i + Len(text)) = text

\* The passages of a text that no cut may take apart.
Passages(text) ==
    {SubSeq(text, i[1], i[2]) :
        i \in {i \in (1 .. Len(text)) \X (1 .. Len(text)) : i[2] - i[1] \in 0 .. OverlapChars}}

PassagesOf(document) ==
    UNION {Passages(Paragraph(document, p)) : p \in DOMAIN document}
=============================================================================
