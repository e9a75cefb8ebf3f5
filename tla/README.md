# Verification of LiteDatabase

LiteDatabase (namespace `LLDB`) is a small C++ library that puts one interface,
`Session`, over three client libraries: sqlite3, libmysql and libpq. This
directory holds TLA+ models of its own code, the TLC runs that check them and
TLAPS proofs about them. Paths below are relative to the repository (`src/`).

## 1. The system

| Part | Code | State it keeps | Operations |
|---|---|---|---|
| Session base and factory | `headers/Session.h`, `Core/Session.cpp` | `_isOpen` | `newSession`, `open`, `close`, `exec`, `query` (3 forms), `setCurrentDB`, `changeUser`, `operator<<`, `isOpen`, `release` |
| SQLite backend | `SQLite/SQLiteSession.cpp` | `conn`, the static `stmt_num` | `open`, `close`, `exec`, `query` |
| MySQL backend | `MySQL/MySQLSession.cpp` | `conn`, the static `stmt_num` | the same, `setCurrentDB`, `changeUser`, its own `isOpen` |
| PostgreSQL backend | `PostgreSQL/PgSQLSession.cpp` | `conn`, the static `stmt_num` | `open`, `close`, `exec`, `query`, its own `isOpen` |
| Stream API | `headers/Once.h`, `Core/Once.cpp` | the SQL text, `start`, `heap` | `<<`, `, use(...)`, `, into(...)`, `release` |
| `Any` | `headers/Any.h`, `Core/Any.cpp` | one typed value | `is*`, `get*` |
| Arguments, errors, `split` | `headers/Utils.h`, `Core/Utils.cpp` | a map of `Any` | `getString`, `getInt`, `getBool` |
| `Row`, `Results` | `headers/Row.h`, `Core/Row.cpp` | map and vector | lookups |
| `Date`, `Time`, `DateTime` | `headers/Types.h`, `Core/Mess.cpp` | the fields | `fromString`, `toString` |
| Test program | `Test/main.cpp` | none | a demonstration, no assertions |
| Client libraries | `*/third-party` (headers and import libraries only) | connections, statements, results | external |

How they interact. The application owns `Session` objects made by the factory
and calls them directly; a session calls its client library and keeps one
handle, `conn`. `query` calls the application back for every row; the callback
runs inside `query` and may use the session again, close it, or throw.
`session << text` makes a `Once` object on the heap, `use(...)` edits its text and
`into(...)` runs the text on the session and deletes the object. There is no lock
anywhere; sessions of different threads share the client library and the
function-local static `stmt_num` of each backend.

What is hard: calls that fail half way (an exception between compiling a
statement and freeing it), re-entry from a callback, a handle that is refused or
overwritten, a protocol between client library and server that has to be
followed step by step (MySQL: results must be read or freed before the next
command; libpq: results must be drained before the next command), errors that
arrive later than the call that caused them (libpq), objects that delete
themselves (`Once`), and index arithmetic on text that is being replaced.

What makes each part correct:

* a session: `isOpen()` tells the truth; one handle per session; `close` and
  `release` free what `open` took; nothing is left behind in the client library;
* `query`: every statement is run once, in order, each statement's resources are
  freed, rows carry the number of their statement, false stops, the call returns;
* `exec`: reports the failure of the statement it was given;
* `Once`: the object is deleted exactly once; every placeholder is replaced once,
  by the value meant for it, and inserted values are left alone;
* `newSession`: the library loaded is the first one along `Path` that is a file,
  and the session is of the type asked for;
* `ConnectionArgs` and `open`: the engine or server is asked for what the
  arguments say, defaults for what they leave out, and nothing is guessed from
  a value of another kind;
* columns, `Row`, `Results`, `Any`, dates: the rows of the application are those of
  the engine, a number is read as itself or cut only where its type is too small,
  a value written and read back is the same, and NULL reads as no other value.

## 2. Modules

| Module | Models | Status |
|---|---|---|
| `SessionContract` | what `Session.h` promises about connections: opened sessions hold one each, `close` and `release` give that one back | abstract specification |
| `SQLiteSession` | `SQLite/SQLiteSession.cpp` over the handles of sqlite3 | checked, proved |
| `MySQLSession` | `MySQL/MySQLSession.cpp` over libmysql and the server's connections | checked, proved |
| `PgSQLSession` | `PostgreSQL/PgSQLSession.cpp` over the asynchronous state of libpq | checked, proved |
| `OnceStream` | `headers/Once.h`, `Core/Once.cpp` | checked, proved |
| `TextNumbers` | texts as tokens, integers of a size, the ways a call ends; `stoi`, `stod`, `>>`, `to_string`; `split` (`Core/Utils.cpp`) | checked and proved in `SessionUse` |
| `TimeTypes` | `headers/Types.h`, `Core/Mess.cpp` | the same |
| `AnyValue` | `headers/Any.h`, `Core/Any.cpp` | the same |
| `ColumnDecode` | the switches that make an `Any` of a column (`SQLiteSession.cpp:71`, `MySQLSession.cpp:78`), `Core/Row.cpp` | the same |
| `ConnectionArgs` | `ConnectionArgs` of `Core/Utils.cpp`, and what each `open` makes of it | the same |
| `SessionFactory` | `newSession`, `searchEnvironment` (`Core/Session.cpp`), `headers/Config.h` | the same |
| `SessionUse` | an application that finds, opens, queries and reads, as `Test/main.cpp` does; composes the six modules above | checked, proved |
| `MC<module>` | values for TLC: texts, arguments, symmetry | |
| `SessionContract_proofs`, `SQLiteSession_proofs`, `MySQLSession_proofs`, `PgSQLSession_proofs`, `OnceStream_proofs`, `TextNumbers_proofs`, `ColumnDecode_proofs`, `SessionUse_proofs` | theorems and their proofs | |

The three backends instantiate `SessionContract` (`Contract == INSTANCE ... WITH
link <- ..., held <- ...`) and check `ContractSpec` as a property: `link` is what
the `conn` pointers of the sessions reach, `held` is what the client library
keeps allocated.

`SessionUse` is the other composition. The backend modules follow connections and
statements through every interleaving and abstract from what a row holds;
`SessionUse` follows one value from the client library to the application and
abstracts from statements: a query is a table whose rows the loops of `query` decode
column by column, until the end or an error that looks like it. The six modules it
composes have no state: they hold an operator for every function of the code, which
ends in `Ok(value)`, `Throws` or `Undefined`.

How state and actions correspond to the code:

* A session object's members are functions on `Sessions` (`conn`, `isOpen`). A
  call's local variables are a record in `frame`, with a label `pc`; one record
  per session in the MySQL and PostgreSQL models, a stack of them for SQLite,
  where `query` calls itself for the tail of a text and callbacks may nest. The
  static `stmt_num` is one variable, shared by all sessions.
* A call without a loop or a callback is one action (`Open`, `Close`, `Release`,
  `Exec`, `Ping`, ...), both its normal and its throwing way out included. `query`
  is cut where other code can run in between: at every call into the client
  library that another thread's call could come between, at the callback and at
  the loop heads.
* An exception is the value `"exception"` in `outcome`, and what the code leaves
  undone when it is thrown stays undone in the model.
* Undefined behaviour that ends the process is the variable `crashed`
  (`SQLiteSession`, `OnceStream`, `SessionUse`) or the outcome `"crash"`
  (`MySQLSession`, where it is a null or freed `conn` given to libmysql).
* The client libraries are external: their operators (`sqlite3_close`,
  `PQgetResult`, `CommandFails`, ...) say what the versions in the repository's
  `third-party` headers (sqlite 3.36, libmysql 8.0, libpq 12) do to a handle.
* SQL texts are sequences of pieces, classed by what the code or the server does
  with them; in `OnceStream`, where `use` counts characters, a text is a sequence
  of characters and the template it came from a sequence of tokens. Where texts
  are converted (`TextNumbers`) a token is a run of digits, a separator or a word,
  which is what `>>`, `stoi` and `split` tell apart; a floating-point number is a
  count of halves, so that it has a fraction or not.
* `Habits`: each backend is used with a set of habits of the application, named
  in its module (a callback that throws, `open` called again, ...). The runs
  named `*_any` allow everything; those named `*_disciplined` show what holds for
  an application that avoids what the code cannot cope with.

## 3. Runs

| Run | Instance | Shows |
|---|---|---|
| `sqlite_any` | 2 sessions, 2 connections, 3 statements, nesting 2, all habits, 3 kinds of arguments | type invariant; `IsOpenHonest`; the statement a call steps is live and its own; a text is worked off from its front |
| `sqlite_disciplined` | 2 sessions, 2 connections, 2 statements, nesting 2, nested queries only, fair | no statement and no connection leaks, `exec` is safe, `SessionContract` is implemented, every `query` returns |
| `sqlite_throw_leaks` | 1 session, callbacks throw | violation: `NoOrphans` |
| `sqlite_false_stops` | 1 session, a text of two statements | violation: `FalseStopsQuery` |
| `mysql_any` | 2 sessions, 2 structures, 2 server connections, all habits, the server may drop a connection at any time | type invariant; between two rows the result exists and is the one in use; nothing is shared; numbers are right when no other query ran; only a session without a structure crashes |
| `mysql_disciplined` | the same, closing before reopening, texts of one statement, fair | every call leaves the connection in sync, nothing leaks, `SessionContract` is implemented, every `query` returns |
| `mysql_runs_twice` | 1 session, `select ...; ` | violation: `EachStatementOnce` |
| `pg_any` | 2 sessions, 2 connections, COPY, all habits | type invariant; a command is never sent on a busy connection; every segment is sent once; `PgSQLSession::isOpen` is honest |
| `pg_disciplined` | the same without COPY and without opening twice, fair | nothing leaks, `SessionContract` is implemented, every call returns |
| `pg_exec_returns_early` | 1 session | violation: `ExecExecutes` |
| `once_statements` | 2 objects, texts of up to 8 tokens, values of 1 and 5 characters, sessions throw | the text and the SQL are those of token-wise substitution; an object is there while its statement is under way and deleted when it is over, unless it threw |
| `use_any` | one session at a time; a library in, or in the way at, any of three places; every combination of a few values for every argument; a table of one cell for every column type and kind of content, tables of two rows and columns; 16 target types; integer types of 4, 8, 16 and 32 values | backend, request, rows, numbers, texts and dates are right; undefined behaviour has only the causes that `UndefinedHasCause` names |

Why the bounds are enough. Two sessions are the fewest that share the static
counter, the pools of handles and each other's interleavings; no property relates
three. Two connections per pool let a session open again while its former
connection is leaked; two or three statements let a nested query and another
session hold one each. Nesting is bounded by `MaxDepth` (2: a callback's query
and the one it interrupts). Texts have two or three segments, so that there is
one before, at and after each turn of the loops. Results have any number of
rows. In `OnceStream`, `MaxTokens` bounds the texts and `MaxUses` the values for
each kind of placeholder; values are shorter and longer than what they replace,
and keyed placeholders stand before, between and after positional ones. The
64-bit wrap of `start` needs an empty value, after which the text is not as
meant, so the passing run has none; `SizeLimit` stands for 2^64.

In `use_any` the sizes `CharSize`, `ShortSize`, `IntSize` and `LongLongSize` (4, 8, 16
and 32) stand for 2^8, 2^16, 2^32 and 2^64: the operators only use that each is even
and at least twice the one before (`TextAssumption`, from which the theorems are
proved for all sizes), and the small ones let every boundary of every type, both sides
of it and the step between any two types be tried (`Integers0`). Dates and times have
fields within and beyond the bounds of `int`. `Headers` are the
names a column may have. `Garbage` is a value no type can hold. Bounds:
`FirstQuery` (a session runs one query with columns) and `FirstAttempt` (no second
attempt after a failed `newSession` or `open`), because nothing that `SessionUse`
models remains of a query or of an attempt; what remains in the client libraries is in
the backend modules. `Path` has up to two entries, so that there is a first and a
later one, with the working directory behind them, either of them empty, and it may be
unset; the names of databases have blanks and a backslash at every place that tells them
apart; tables of two rows and two
columns with the same or different names let values move between rows and columns.
`CHECK_DEADLOCK FALSE` is set where a crash ends the process.

Fairness. A thread that is inside the library goes on (weak fairness of its
steps). A callback returns (per nesting level in SQLite, so that a callback that
makes queries makes finitely many), and a result ends (strong fairness of the
end of the rows; in `PgSQLSession` a row is a stuttering step, and weak fairness
says the same). A server either answers or its connection is found broken, which
the timeouts of the client libraries provide. Nothing is assumed of the
application: it need not call, close or release.

## 4. Proofs

`SQLiteSession_proofs`, for every number of sessions, handles and texts and any
nesting:

* `TypeCorrect`, `OpenHonest` (`IsOpenHonest`) and `StatementsLive`
  (`StatementsInUseAreLive`) for any application;
* `ConnectionsReachable` (`NoOrphans`), `StatementsAccounted` (`StatementsOwned`),
  `ExecIsSafe` (`NeverCrashes`) and `ImplementsContract` (`ContractSpec`) under
  `Disciplined`, that is `Habits \subseteq {"nest"}`;
* `TextWorkedOff` (`TextAccounted`) for any application, a theorem of its own: the
  invariant is inductive with the types, because a call changes its own text only and
  `query`, calling itself, hands over exactly the tail it has not run.

Assumptions: `SQLiteAssumption` (null is no handle, texts are sequences of pieces,
`MaxDepth` is positive). The argument: `IsOpenHonest` alone is inductive only with
`ConnInv`, which adds that a session's `conn` is never a freed handle and that two
sessions never have the same one (else closing one would close the other's).
`StatementsInUseAreLive` needs `FrameInv`: the statement an active call holds is
unfinalized, unfinalized statements are on open connections (sqlite3 refuses to
close under them), and no two calls hold one statement; `RecurseInv` (a call that
is about to call itself on the tail holds none) makes room for the next one.
Discipline adds `OwnInv`: every connection is some session's, every unfinalized
statement some active call's, and that call's statement is on its session's
connection. Then `sqlite3_close` is never refused, which is
why an exception of a callback is what breaks it. The refinement maps every step
to one of `Contract!Open`, `Contract!Close` or a stutter.

`MySQLSession_proofs`, for every number of sessions, structures, server connections
and all texts:

* `TypeCorrect`, `ResultsStay` (`RowsHaveResult`), `ConnectionsNotShared`
  (`NotShared`), `NumberedUnlessShared` (`NumberedWhenAlone`) and `CrashCause`
  (`CrashHasCause`) for any application;
* `AlwaysInSync` (`InSync`), `NoStructLost` (`StructsReachable`) and
  `ImplementsContract` (`ContractSpec`) under `Disciplined`: `Habits \subseteq
  {"ping"}`, and no text begins with a stored procedure.

The assumption is `MySQLAssumption`. The argument rests on `Confined`: a step of a
session changes one structure, its own or a free one it allocates, and no server
connection of another (`Elsewhere` is what follows for the others). For that,
`ConnInv` (a `conn` is never freed memory and of one session only) and `SockInv` (a
structure's server connection is not closed and no other's) have to hold together.
`ResInv` says where the result of a running call is: with the session's structure,
or, after a callback closed the session, gone with it or in a structure that
`mysql_close` did not free and nobody has any more. `NumInv` counts: while nobody else
writes `stmt_num` it is the number of results the call has freed. `Kept` is what a
step leaves of the frames of other calls. Discipline adds `DiscInv`: no structure lost
its owner, and each connection is where its session's call left it (`Synced`). The
refinement maps a step that connects to `Contract!Open`, one that hangs up to
`Contract!Close`, and every other to a stutter.

`PgSQLSession_proofs`, for every number of sessions and connections and all texts:

* `TypeCorrect`, `SendsWhenIdle` (`SendNeverRefused`), `DerivedHonest`
  (`DerivedIsOpenHonest`) and `SegmentsSentOnce` (`EachSegmentOnce`) for any application;
* `ConnectionsReachable` (`NoOrphans`) and `ImplementsContract` (`ContractSpec`)
  under `Disciplined`, here `Habits \subseteq {"derived"}`: `open` is called on
  closed sessions only.

The assumption is `PgSQLAssumption`. `SendNeverRefused` says what holds when a
session is about to send; that no other session disturbs it in between needs
`ConnInv` (a session's `conn` is an allocated structure, of no other session), and
that the state libpq ends up in after a send is one of its states needs `CallInv`
(the segment about to be sent is a command; a call that fetches rows has a
connection). `DerivedHonest` rests on the third part of `ConnInv`: a connection in
good state was reported open when it was made, and only closing it takes that back.
The refinement maps every step to allocating a structure for a session that had
none, freeing the session's own, or a stutter.

`OnceStream_proofs`, for any objects, pieces, keys and values, however long:

* `ObjectsReleased` (`ReleasedUnlessThrown`) and `TypeCorrect` (`TypeOK`) for any
  application;
* `TextIsMeant` (`TextAsMeant`) and `SqlIsMeant` (`SqlAsMeant`) under `Unambiguous`: no
  `??` before a `?`, `$` begins keyed placeholders only, values are not empty and contain
  neither `?` nor `$`, and `MaxUses` of the longest are fewer characters than a `size_t`
  counts. Without each of these the code replaces something else (section 5); the values
  of `MCOnceStream` satisfy it (`MCUnambiguous`, which TLC evaluates).

Assumptions: `OnceAssumption` (null is no object, pieces and values are sequences, `?`,
`??` and `$` are no keys). What is streamed is read the way the code reads it: two
question marks in a row are an escaped one, also where one piece ends and the next begins
(`Allowed`). `HeapInv` adds to `ReleasedUnlessThrown` only that what is live are objects,
from which it follows that between two statements, where `once` is null, only those that
threw are left. Of the object of a statement that threw nothing is claimed: that it is
never deleted is a difference between document and code (section 5).

`TextAsMeant` is not inductive: `start` counts the sizes of the values and not their
places, so that the search finds the right mark has to be known before the next value
comes. `TextInv` says of every state that

* the text is the concatenation of one block for each token, the value if it was used and
  the token as it was streamed if not (`Built`, `IsText`), and no placeholder was used more
  often than it occurs;
* `start` is at most the length of the values of marks alone (`MarkBlocks`), hence no
  further than the first mark that is left (`MarksBefore`), and at most that many times the
  longest value, hence it never wraps.

Between `start` and the first mark that is left there is then no question mark (a value has
none, an escaped one comes later), and that one stands alone (`FirstMark`); where none is
left, all stand in pairs and `start` is not within one (`NoMark`). A `${key}` stands
where a placeholder of the key is left and nowhere else (`KeyStands`). A use then replaces
one block (`FillBuilt`), and streaming adds blocks (`StreamBuilt`). `SqlOfText` follows
`getSQL` block by block. The recursive functions of the model (`NextMark`, `GetSQL`) and
`FlattenSeq` are first shown to exist and to be what their equations say, by induction over
sets of numbers (`Upwards`, `Downwards`).

`SessionUse_proofs`, for any tables, arguments, environments, header names and sizes of
the integer types: every property of `SessionUse` (`TypeCorrect`, `BackendIsFound`,
`DatabaseAsAsked`, `ConnectionAsAsked`, `RowsFaithful`, `IntegersUncut`,
`IntegersAsText`, `FieldsInPlace`, `StoredIsBack`, `NullsReadEmpty`,
`UndefinedCaused`). The assumptions are `TextAssumption` (the sizes, above; what is read
from uninitialised memory is outside every type) and `UseAssumption`: tables are
rectangular, with cells the engine can deliver in a column of their type (a BIT is at most
eight bytes, so that the sum of powers, which goes through `double`, is exact), arguments
hold values an `Any` can hold and name no database with a quote in it, the places and
files of an environment are names, the fields of a `Date`, `Time` or `DateTime` are
`int`s. The argument is one inductive
invariant, `Inv` (theorem `InvAlways`), which says of every state what the properties say of some:

* `LoopInv`: in the column loop the row is what `emplace` made of the columns before
  this one (`RowUpTo`), all of which decoded; in a callback it is the whole row;
* `ResultsInv`: the n-th of the `Results` is the n-th row of the table, and in the loop
  there are as many as rows passed; a query that ended well with all rows collected all;
* `CallInv`: the last call's way out and value are those of the operator that models it,
  applied to what it was given, and the process crashed exactly if this is undefined.

The properties are weaker than `Inv` and not inductive: that a read gives the cell's
value needs the row to be the cell's row, which needs the loop that filled it to have
been at the right column. From `Inv` each property is a fact about the operators:
`ColumnDecode_proofs` says what a column of each type decodes to and what becomes of an
integer on its way through the stored type to the type it is read as (`SQLiteDecoded`,
`MySQLDecoded`, `IntegerRead`, `UndefinedRead`); `TextNumbers_proofs` says that a
conversion keeps what its type can hold (`WrapKeeps`), what the parsers read, what `split`
returns, and that a `DateTime` is read back from its text (`DateTimeBack`). Recursive
functions (`Quoted` and `Unquoted`, what libpq makes of a value with and without quotes)
are treated by the least index at which they would differ from what is claimed of them.
Two of the theorems say where what is read is what was written: `ConnectionAsAsked` for
texts that libpq does not take for others (`ReadAsWritten`), and `FieldsInPlace` for the
fields before the first that no `int` can hold (`Holds`).

`SessionContract_proofs`: `ContractAccounted`, whatever implements the contract
never loses or shares a connection.

Only model-checked: the liveness properties (`QueryReturns` of `SQLiteSession` and
`MySQLSession`, `CallsReturn` of `PgSQLSession`), which the prover cannot treat, since
they rest on fairness. Of texts that are not `Unambiguous` nothing is claimed.

## 5. Differences between documents and code

Shown by runs: a callback that throws in a SQLite query leaks its statement and
then its connection (`sqlite_throw_leaks`); returning false does not stop a query
(`sqlite_false_stops`; the MySQL loop does the same); the MySQL `query` sends the
whole text once per segment (`mysql_runs_twice`); the PostgreSQL `exec` returns
before its statement is executed and its failure is never reported
(`pg_exec_returns_early`).

Evident from the code, or from the models without a run of their own:

* SQLite: every row is delivered as of statement 0 (`SQLiteSession.cpp:60` against
  `Session.h:63`); `readOnly` with the default `create`, and `uri`, compute flags that
  `sqlite3_open_v2` rejects (`OpenFlags`, `AcceptedFlags`); `open` after a failed
  `open` loses the failed handle (also PostgreSQL and, through `mysql_init`, MySQL).
* MySQL: `_isOpen` is never set; another session's query resets the statement
  number (`NumberedWhenAlone` says when it is right).
* PostgreSQL: `query` never calls its callback; `close` keeps `_isOpen`; results
  outside the row loop are never cleared; `exec` after a COPY loops for ever.
* `Once`: an `into()` or a keyed `use()` that throws (the session fails, `from_row` throws,
  the key is not in the text) leaves its statement before `release()`, and the object is
  never deleted (`Once.cpp:72`-`95`, `Once.h:53`-`68`), although "after using into, the
  once object will be released" (`Once.h:50`); only `into(bool&)` catches the exception.
  The example of `Session.h:77` uses `$`, the code `?`; `escape` has no effect;
  an empty value for `?` disables later ones; values containing `?` are replaced
  again; `use` can replace half of an escaped question mark that stands before a
  placeholder (habit `escapeFirst`, with which TLC finds `TextAsMeant` violated).
* Numbers: `isInteger` and `getString` do not know `long`, which is what every MySQL
  INT is stored as: it can be read as a number and not as a string, and a `long`
  given as the port is rejected. A MySQL TINYINT read as a string is a character.
  Unsigned columns are cut or throw above the signed maximum. A BIT is decoded with
  its leftmost digit as the lowest, and the comment "Binary like '01001'"
  (`MySQLSession.cpp:82`) is not what the server sends.
* NULL in a typed MySQL column is a null pointer given to `std::string` or `stoi`;
  a DECIMAL column (`NEWDECIMAL` on the wire) makes `query` throw.
* Dates: a `DateTime` with a zone below -1 is printed as text that cannot be read
  back; the sign of `-00:30` is lost; missing fields stay uninitialised; a number beyond `int` is
  read as the nearest `int` and fails the stream, so that the fields behind it stay
  uninitialised (`Mess.cpp:7`-`30`), without an exception; a date
  without a time read as a `DateTime` indexes past the end.
* Pointers: the BLOB of an SQLite row dangles in `Results`; `get<const char*>` returns
  a pointer into a string that is gone.
* `Row::empty` (`Row.cpp:25`) calls itself.
* A floating-point number out of the range of the integer type it is read as is
  undefined behaviour (`Any.h:49`-`75`): no branch compares it with the range.
* `newSession`: an unset `Path` and, if no library was found before it, an empty entry
  (`back()` of an empty string) are undefined behaviour, also where the library is in the
  working directory.
* `open`: ports are cut to 16 bits. PostgreSQL loses the backslashes of host, user and
  password, and cannot take a quote in them. The database's name is written without quotes
  (`PgSQLSession.cpp:25`): blanks before and behind it are skipped, so that `" db"` and
  `"db "` connect to `db`; a name of blanks only is none, or the next parameter
  (`sslkey=...`) if SSL is asked for; a backslash at its end is dropped, or joins the next
  parameter to the name; a word behind a blank is an error.

## 6. Not modelled

* The wording and the codes of errors, `Exception::msg` (a pointer to a temporary),
  the printing of the PostgreSQL `query` (its rows are not decoded, so no column of
  PostgreSQL is in `ColumnDecode`), the inside of `LoadLibraryA` and
  `GetProcAddress`, the type hash codes.
* Leading zeros, white space and plus signs within numbers, NUL bytes within texts,
  and the range and precision of floating point (infinity and NaN among them): no branch
  of the code depends on them, except that a text with a NUL byte is cut.
* Uninitialised fields of a date are values like any other (`Garbage`) when they are
  copied or printed; that reading them is undefined is not counted as an end of the
  program.
* In the connection string of PostgreSQL, values with an equals sign, and a database
  name with a quote in it.
* Callbacks that close and open a MySQL session again, `Once` objects that an
  application constructs itself, and two threads on one session, which the
  library does not provide for.
* The `PGresult`s that `PgSQLSession` does not clear, one by one.

## 7. Plan

Every invariant and every safety property of an action that a run checks is proved. What
may be added:

1. `TextIsMeant` for keyed values that contain `$`, which begin no placeholder as long as
   the text has no brace behind them, and for positional ones with a question mark where
   no mark is left.
2. `Once` objects that an application constructs itself.
