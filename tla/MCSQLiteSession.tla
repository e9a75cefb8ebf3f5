-------------------------- MODULE MCSQLiteSession ---------------------------
(* Values for model checking SQLiteSession: texts and open() arguments.     *)
EXTENDS SQLiteSession, TLC

CONSTANTS A, B   \* two statements

MCPieces == {A, B, Blank}

\* Texts of up to two statements, with blank text after a semicolon.
MCScripts == {<<A, Blank>>, <<A, B>>}

\* One text is enough where the number of statements does not matter.
OneScript == {<<A, B>>}

Args(t, create, readOnly, uri) ==
  [target |-> t, create |-> create, readOnly |-> readOnly, uri |-> uri]

\* Defaults on a file, an ill-typed target, and read-only on an existing file.
MCOpenArgs == {Args("file", TRUE, FALSE, FALSE),
               Args("wrong", TRUE, FALSE, FALSE),
               Args("file", FALSE, TRUE, FALSE)}

\* Only the defaults.
DefaultArgs == {Args("file", TRUE, FALSE, FALSE)}

Symmetry == Permutations(Sessions) \cup Permutations(Conns) \cup Permutations(Stmts)
==============================================================================
