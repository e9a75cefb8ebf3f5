--------------------------- MODULE MCMySQLSession ---------------------------
(* Values for model checking MySQLSession: texts as split() cuts them.       *)
EXTENDS MySQLSession, TLC

\* The shortest texts that run, run twice, leave a status behind or have no rows.
SomeTexts == {<<"select", "blank">>, <<"call">>, <<"other">>}

\* Texts of one statement and no procedure.
PlainTexts == {<<"select", "", "blank">>, <<"other">>}

\* One statement with rows, and white space after its semicolon.
TrailingBlank == {<<"select", "blank">>}

Symmetry == Permutations(Sessions) \cup Permutations(Structs) \cup Permutations(Socks)
==============================================================================
