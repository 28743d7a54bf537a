--------------------------- MODULE MCDocumentIndex ---------------------------
(***************************************************************************)
(* A small instance of DocumentIndex: a text whose paragraphs fill a chunk  *)
(* to the limit and begin another, one that is cut, and one without text.   *)
(***************************************************************************)
EXTENDS DocumentIndex, TLC

CONSTANTS d1, d2

Para(runes, bytes, words) == [runes |-> runes, bytes |-> bytes, words |-> words]

SmallContents ==
    {<<Para(2, 2, {"a"}), Para(2, 2, {"b"}), Para(1, 3, {})>>, <<Para(8, 8, {"b"})>>,
     <<Para(0, 0, {})>>}

SmallQueries == {{"a", "b"}}

SmallHash == [q \in SmallQueries |-> 1]

Symmetry == Permutations(DocIds)
=============================================================================
