------------------------------- MODULE Chunking -------------------------------
(***************************************************************************)
(* How a document is cut into chunks (ChunkText, application/ai/rag.go).    *)
(*                                                                         *)
(* A text is a sequence of paragraphs, trimmed; of a paragraph the model    *)
(* keeps how many characters and how many bytes it has and its words.  A    *)
(* piece is a part of a paragraph, its characters from + 1 to to, and a     *)
(* chunk is a sequence of pieces.                                          *)
(***************************************************************************)
EXTENDS Naturals, Sequences

CONSTANTS
    ChunkSize,  \* ChunkConfig.ChunkSize, in characters says its comment
    Overlap     \* ChunkConfig.Overlap

\* IndexDocument is only called with DefaultChunkConfig, where both hold.
ASSUME ChunkingAssumption ==
    /\ ChunkSize \in Nat \ {0}
    /\ Overlap \in Nat
    /\ Overlap < ChunkSize

Paragraphs(Words) == [runes : Nat, bytes : Nat, words : SUBSET Words]

Piece(p, from, to) == [para |-> p, from |-> from, to |-> to]

\* flushCurrent
Flush(s) ==
    IF s.current = <<>>
    THEN s
    ELSE [chunks |-> Append(s.chunks, s.current), current |-> <<>>, length |-> 0]

\* A paragraph that is too long is cut by characters: each cut begins Overlap
\* before the end of the one before it, and the last ends with the paragraph.
Cuts(p, runes) ==
    LET step == ChunkSize - Overlap
        last == IF runes <= ChunkSize THEN 1 ELSE 1 + (runes - ChunkSize + step - 1) \div step IN
    [k \in 1..last |->
        <<Piece(p, (k - 1) * step, IF k = last THEN runes ELSE (k - 1) * step + ChunkSize)>>]

\* One paragraph: lengths are bytes, and the break before it counts 1 in the
\* comparison and 2 in the length.
Add(text, s, p) ==
    LET bytes == text[p].bytes
        runes == text[p].runes
        room == IF s.length > 0 /\ s.length + bytes + 1 > ChunkSize THEN Flush(s) ELSE s IN
    CASE runes = 0 -> s
      [] runes # 0 /\ bytes > ChunkSize -> [room EXCEPT !.chunks = @ \o Cuts(p, runes)]
      [] OTHER ->
            [room EXCEPT !.current = Append(@, Piece(p, 0, runes)),
                         !.length = @ + bytes + (IF @ > 0 THEN 2 ELSE 0)]

Empty == [chunks |-> <<>>, current |-> <<>>, length |-> 0]

Split(text) ==
    LET upto[p \in 0..Len(text)] == IF p = 0 THEN Empty ELSE Add(text, upto[p - 1], p) IN
    upto[Len(text)]

\* Seeded fault: what was gathered last is not flushed.
ChunkTextUnflushed(text) == Split(text).chunks

ChunkText(text) == Flush(Split(text)).chunks

\* The characters of a chunk, with the two of each break between its pieces.
Length(chunk) ==
    LET upto[i \in 0..Len(chunk)] ==
            IF i = 0 THEN 0 ELSE upto[i - 1] + 2 + chunk[i].to - chunk[i].from IN
    upto[Len(chunk)] - 2

\* The most characters a chunk can have.  ChunkConfig calls ChunkSize just that, but
\* Add counts a break as one character and writes two: paragraphs gathered into one
\* chunk can exceed it by one, as 250 and 249 characters do (501 with the break).
MostChars(chunk) == IF Len(chunk) > 1 THEN ChunkSize + 1 ELSE ChunkSize

\* Whether a chunk holds character x of paragraph p.
Holds(chunk, p, x) ==
    \E i \in DOMAIN chunk : chunk[i].para = p /\ chunk[i].from < x /\ x <= chunk[i].to

=============================================================================
