---------------------------- MODULE MCOnceStream ----------------------------
(* Values for model checking OnceStream: what an application streams.        *)
EXTENDS OnceStream, TLC

CONSTANTS k, x, v   \* a key and two other characters

\* Two marks; a keyed placeholder around a mark, twice; escaped question marks
\* behind a mark; no placeholder at all.
MCPieces == {<<x, Mark, x, Mark>>, <<k, Mark, x, k>>, <<x, Mark, x, Escaped, Escaped>>, <<x>>}

MCKeys == {k}

\* Values shorter and longer than the placeholders they replace.
MCValues == {<<v>>, <<v, v, v, v, v>>}

\* The theorems about texts speak of this instance too.
ASSUME MCUnambiguous == Unambiguous

Symmetry == Permutations(Objects)
=============================================================================
