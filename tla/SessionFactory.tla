--------------------------- MODULE SessionFactory ---------------------------
(***************************************************************************)
(* newSession (Core/Session.cpp) with the search for the dynamic library   *)
(* of a backend, and the tables of headers/Config.h. A path is a sequence  *)
(* of names and separators. An environment is the variable Path, which may *)
(* be unset, and what stands at the places of the file system.             *)
(***************************************************************************)
EXTENDS TextNumbers, FiniteSetsExt

UNKNOWN == 0
SQLITE == 1
MYSQL == 2
POSTGRESQL == 3
ORACLE == 4
ODBC == 5

DatabaseTypeToString(dt) ==
  CASE dt = SQLITE -> "SQLite"
    [] dt = MYSQL -> "MySQL"
    [] dt = POSTGRESQL -> "PostgreSQL"
    [] dt = ORACLE -> "Oracle"
    [] dt = ODBC -> "ODBC"
    [] OTHER -> "Unknown"

CREATION_FUNCTIONS ==
  [SQLite |-> "newSQLiteSession", MySQL |-> "newMySQLSession",
   PostgreSQL |-> "newPgSQLSession", Oracle |-> "newOracleSession",
   ODBC |-> "newODBCSession"]

\* DLL_PREFIX + type + DLL_SUFFIX
dllName(dt) ==
  CASE dt = SQLITE -> "LLDB-SQLite.dll"
    [] dt = MYSQL -> "LLDB-MySQL.dll"
    [] dt = POSTGRESQL -> "LLDB-PostgreSQL.dll"
    [] dt = ORACLE -> "LLDB-Oracle.dll"
    [] dt = ODBC -> "LLDB-ODBC.dll"
    [] OTHER -> "LLDB-Unknown.dll"

\* The getType() of the session a creation function makes. No library of the
\* project exports the functions for Oracle and ODBC.
TypeCreatedBy ==
  [newSQLiteSession |-> SQLITE, newMySQLSession |-> MYSQL, newPgSQLSession |-> POSTGRESQL]

------------------------------------------------------------------------------
(* The file system: a function from places to what is there, "directory",  *)
(* "damaged" for a file that is no library, or the function that a library *)
(* exports.                                                                *)

Separators == {"\\", "/"}
IsName(name) == name \notin Separators \cup {"."}

\* The place a path leads to: the names in it, and whether it starts at the root.
Place(path) ==
  LET named == {i \in DOMAIN path : IsName(path[i])}
  IN (IF Head(path) \in Separators THEN <<"\\">> ELSE <<>>)
       \o [k \in 1..Cardinality(named) |-> path[Nth(named, k)]]

\* What newSession finds: the variable Path, the directories its entries name (""
\* for an empty one; a separator may follow a name), and files and directories.
IsEnvironment(env) ==
  /\ env.pathSet \in BOOLEAN /\ env.dirs \in Seq(STRING)
  /\ \A place \in DOMAIN env.files :
       env.files[place] \in {"directory", "damaged"} \cup DOMAIN TypeCreatedBy
  /\ env.pathSet =>
       LET entries == split(env.path, ";")
       IN /\ DOMAIN entries = DOMAIN env.dirs
          /\ \A i \in DOMAIN env.dirs :
               LET dir == env.dirs[i]
               IN IF dir = "" THEN entries[i] = <<>>
                  ELSE /\ IsName(dir)
                       /\ entries[i] \in {<<dir>>} \cup {<<dir, sep>> : sep \in Separators}

fsExists(files, path) == Place(path) \in DOMAIN files
isDirectory(files, path) == files[Place(path)] = "directory"

------------------------------------------------------------------------------
\* The path that is tried for an entry of Path that is not empty.
Candidate(entry, lib) ==
  entry \o (IF Last(entry) \in Separators THEN <<>> ELSE <<"\\">>) \o <<lib>>

\* The search stops at the first entry with a library, or at an empty one, whose
\* back() is undefined; so is what getenv returns for a Path that is unset.
FirstEntry(env, lib, Hit(_)) ==
  LET entries == split(env.path, ";")
      stops == {i \in DOMAIN entries : entries[i] = <<>> \/ Hit(Candidate(entries[i], lib))}
      first == entries[Min(stops)]
  IN IF ~env.pathSet THEN Undefined
     ELSE IF stops = {} THEN Ok(<<>>)
     ELSE IF first = <<>> THEN Undefined
     ELSE Ok(Candidate(first, lib))

\* Mutant: what is there need not be a file.
searchEnvironmentTakesDirectory(env, lib) ==
  FirstEntry(env, lib, LAMBDA path : fsExists(env.files, path))

searchEnvironment(env, lib) ==
  FirstEntry(env, lib, LAMBDA path : /\ fsExists(env.files, path)
                                     /\ ~isDirectory(env.files, path))

\* LoadLibraryA and GetProcAddress, and the call of the function found.
Create(files, path, funcName) ==
  IF files[Place(path)] = funcName THEN Ok(<<TypeCreatedBy[funcName]>>) ELSE Throws

\* newSession(dt): along Path, and then in the working directory, where a directory
\* of that name is taken for the library.
newSession(dt, env) ==
  LET lib  == dllName(dt)
      type == DatabaseTypeToString(dt)
      Load(found) ==
        IF found # <<>> THEN Create(env.files, found, CREATION_FUNCTIONS[type])
        ELSE IF fsExists(env.files, <<lib>>)
          THEN Create(env.files, <<".", "\\", lib>>, CREATION_FUNCTIONS[type])
        ELSE Throws
  IN IF type \notin DOMAIN CREATION_FUNCTIONS \/ dt <= 0 \/ dt > 5 THEN Throws
     ELSE Then(searchEnvironment(env, lib), Load)

=============================================================================
