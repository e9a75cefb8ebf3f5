--------------------------- MODULE MCPgSQLSession ---------------------------
(* Values for model checking PgSQLSession: texts as split() cuts them.       *)
EXTENDS PgSQLSession, TLC

\* Two statements; skipped segments around one; a statement and a COPY.
AllTexts == {<<"select", "other">>, <<"", "select", "escaped">>, <<"other", "copy">>}

\* The same without COPY.
PlainTexts == {<<"select", "other">>, <<"", "select", "escaped">>}

Symmetry == Permutations(Sessions) \cup Permutations(Conns)
==============================================================================
