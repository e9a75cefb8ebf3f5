----------------------------- MODULE SessionUse -----------------------------
(***************************************************************************)
(* An application that uses one session the way Test/main.cpp does:        *)
(* newSession, open with ConnectionArgs, query, and get<T> on the values   *)
(* of the rows, in a callback or in the Results of Session::query(sql).    *)
(* It composes SessionFactory, ConnectionArgs, ColumnDecode and AnyValue.  *)
(* What queries do to statements and connections is in SQLiteSession and   *)
(* MySQLSession; here a query is the rows it decodes. PgSQLSession::query  *)
(* decodes none.                                                           *)
(***************************************************************************)
EXTENDS SessionFactory, ConnectionArgs, ColumnDecode

CONSTANTS
  Environments,   \* what newSession finds: Path and the file system
  SQLiteArguments,  \* ConnectionArgs given to open(), for SQLite and for a server
  ServerArguments,
  Headers,        \* names of columns
  SQLiteTables,   \* results of queries: [names |-> ..., rows |-> ...]
  MySQLTables,
  TimeValues,     \* Date, Time and DateTime values given to use()
  Targets         \* the types T the application reads values as

\* Every row of a table has a cell for every column.
IsTable(t, IsCell(_)) ==
  /\ t.names \in Seq(Headers)
  /\ DOMAIN t.rows = 1..Len(t.rows) /\ Len(t.rows) \in Nat
  /\ \A n \in DOMAIN t.rows, c \in DOMAIN t.names : IsCell(t.rows[n][c])

\* A value of type Date, Time or DateTime whose fields, ints, were all assigned.
IsTimeValue(value) ==
  /\ value.type \in TimeTypesOfAny /\ value.val \in Seq(RangeOf("int"))
  /\ Len(value.val) = IF value.type = "DateTime" THEN 7 ELSE 3

ASSUME UseAssumption ==
  /\ \A env \in Environments : IsEnvironment(env)
  /\ \A args \in SQLiteArguments \cup ServerArguments :
       \A key \in DOMAIN args : IsAny(args[key])
  /\ \A args \in ServerArguments :
       given(args, "database") => ~Contains(args["database"].val, Quote)
  /\ \A t \in SQLiteTables : IsTable(t, IsSQLiteCell)
  /\ \A t \in MySQLTables : IsTable(t, IsMySQLCell)
  /\ \A value \in TimeValues : IsTimeValue(value)

VARIABLES
  crashed,  \* undefined behaviour was met: nothing is known after it
  kind,     \* getType() of the session, UNKNOWN if there is none
  isOpen,   \* open() has succeeded
  pc,       \* "app", "columns" (in the loop over a row) or "callback"
  mode,     \* "collect" for Session::query(sql), "callback" for a callback
  table,    \* what the running or the last query selects
  stored,   \* the value use() put into that table, Empty if none
  at, col,  \* the row and the column the loops have come to
  row,      \* the row under construction, or given to the callback
  results,  \* the rows collected
  call      \* the last call of the application and how it ended

queryVars == <<mode, table, stored>>
loopVars  == <<at, col, row, results>>
vars == <<crashed, kind, isOpen, pc, queryVars, loopVars, call>>

NoTable == [names |-> <<>>, rows |-> <<>>]

Init ==
  /\ crashed = FALSE /\ kind = UNKNOWN /\ isOpen = FALSE
  /\ pc = "app" /\ mode = "collect" /\ table = NoTable /\ stored = Empty
  /\ at = 1 /\ col = 1 /\ row = EmptyRow /\ results = <<>>
  /\ call = [op |-> "none"]

InApplication == ~crashed /\ pc = "app"
InCallback    == ~crashed /\ pc = "callback"
InLoop        == ~crashed /\ pc = "columns"

------------------------------------------------------------------------------
(* Getting a session and opening it.                                       *)

\* Bound: an application whose newSession or open() has failed does not try it again,
\* since nothing that is modelled here remains of the attempt.
FirstAttempt(op) == call.op # op

New(dt, env) ==
  LET r == newSession(dt, env)
  IN /\ InApplication /\ kind = UNKNOWN /\ FirstAttempt("newSession")
     /\ crashed' = (r.how = "undefined")
     /\ kind' = IF r.how = "ok" THEN r.val[1] ELSE UNKNOWN
     /\ call' = [op |-> "newSession", dt |-> dt, env |-> env, end |-> r.how]
     /\ UNCHANGED <<isOpen, pc, queryVars, loopVars>>

DefaultPort == IF kind = MYSQL THEN <<3306 % ShortSize>> ELSE <<5432 % ShortSize>>

\* The request the open() of this kind of session makes, and whether it succeeds:
\* exists says whether the database is there and lets us in.
OpenEnd(args, exists) ==
  CASE kind = SQLITE -> Then(SQLiteOpen(args), LAMBDA q : sqlite3_open(q, exists))
    [] kind = MYSQL -> Then(MySQLOpen(args, DefaultPort),
                            LAMBDA q : IF exists THEN Ok(q) ELSE Throws)
    [] kind = POSTGRESQL -> Then(PgSQLOpen(args, DefaultPort, <<20 % ShortSize>>),
                                 LAMBDA q : IF exists THEN Ok(q) ELSE Throws)

Open(args, exists) ==
  LET r == OpenEnd(args, exists)
  IN /\ InApplication /\ kind # UNKNOWN /\ ~isOpen /\ FirstAttempt("open")
     /\ isOpen' = (r.how = "ok")
     /\ call' = [op |-> "open", args |-> args, exists |-> exists, end |-> r.how,
                 request |-> r.val]
     /\ UNCHANGED <<crashed, kind, pc, queryVars, loopVars>>

\* Mutant: the session is deleted without being closed.
ReleaseStaysOpen ==
  /\ InApplication /\ kind # UNKNOWN
  /\ kind' = UNKNOWN
  /\ mode' = "collect" /\ table' = NoTable /\ stored' = Empty
  /\ at' = 1 /\ col' = 1 /\ row' = EmptyRow /\ results' = <<>>
  /\ call' = [op |-> "release"]
  /\ UNCHANGED <<crashed, isOpen, pc>>

\* release(), after which the application has no use for what it selected.
Release ==
  /\ InApplication /\ kind # UNKNOWN
  /\ kind' = UNKNOWN /\ isOpen' = FALSE
  /\ mode' = "collect" /\ table' = NoTable /\ stored' = Empty
  /\ at' = 1 /\ col' = 1 /\ row' = EmptyRow /\ results' = <<>>
  /\ call' = [op |-> "release"]
  /\ UNCHANGED <<crashed, pc>>

------------------------------------------------------------------------------
(* query(), row by row and column by column.                               *)

\* Bound: one query with columns in the life of a session, since nothing of a query
\* remains for the next.
FirstQuery == table = NoTable

StartQuery(m, t, value) ==
  /\ InApplication /\ isOpen /\ kind \in {SQLITE, MYSQL} /\ FirstQuery
  /\ pc' = "columns" /\ mode' = m /\ table' = t /\ stored' = value
  /\ at' = 1 /\ col' = 1 /\ row' = EmptyRow /\ results' = <<>>
  /\ call' = [op |-> "query", end |-> "running", all |-> FALSE]
  /\ UNCHANGED <<crashed, kind, isOpen>>

Query(m, t) == StartQuery(m, t, Empty)

\* to_string(value), which use(value) puts into a statement.
ToText(value) ==
  CASE value.type = "Date" -> DateToString(value.val)
    [] value.type = "Time" -> TimeToString(value.val)
    [] value.type = "DateTime" -> DateTimeToString(value.val)

\* The application has written the value into a column of text, and selects it.
QueryStored(m, header, value) ==
  LET textType == IF kind = SQLITE THEN "SQLITE_TEXT" ELSE "MYSQL_TYPE_VAR_STRING"
  IN StartQuery(m, [names |-> <<header>>, rows |-> <<<<Cell(textType, ToText(value))>>>>],
                value)

Decode(cell) == IF kind = SQLITE THEN SQLiteDecode(cell) ELSE MySQLDecode(cell)

\* The query is over: by an exception, which takes the Results with it, or not.
Return(end, all) ==
  /\ pc' = "app" /\ row' = EmptyRow
  /\ results' = IF end = "ok" THEN results ELSE <<>>
  /\ call' = [op |-> "query", end |-> end, all |-> all]

DecodeColumn ==
  /\ InLoop /\ at <= Len(table.rows) /\ col <= Len(table.names)
  /\ LET r == Decode(table.rows[at][col])
     IN /\ crashed' = (r.how = "undefined")
        /\ \/ /\ r.how = "ok"
              /\ row' = emplace(row, table.names[col], r.val)
              /\ col' = col + 1
              /\ UNCHANGED <<pc, results, call>>
           \/ r.how # "ok" /\ Return(r.how, FALSE) /\ UNCHANGED col
  /\ UNCHANGED <<kind, isOpen, queryVars, at>>

RowDone == InLoop /\ at <= Len(table.rows) /\ col > Len(table.names)

\* Mutant: the Row lives outside the loop and is not emptied between two rows.
CollectKeepsRow ==
  /\ RowDone /\ mode = "collect"
  /\ results' = Append(results, row)
  /\ at' = at + 1 /\ col' = 1
  /\ UNCHANGED <<crashed, kind, isOpen, pc, queryVars, row, call>>

\* The callback of Session::query(sql), which returns true.
Collect ==
  /\ RowDone /\ mode = "collect"
  /\ results' = Append(results, row)
  /\ at' = at + 1 /\ col' = 1 /\ row' = EmptyRow
  /\ UNCHANGED <<crashed, kind, isOpen, pc, queryVars, call>>

EnterCallback ==
  /\ RowDone /\ mode = "callback"
  /\ pc' = "callback"
  /\ UNCHANGED <<crashed, kind, isOpen, queryVars, loopVars, call>>

LeaveCallback(goOn) ==
  /\ InCallback
  /\ \/ /\ goOn /\ pc' = "columns"
        /\ at' = at + 1 /\ col' = 1 /\ row' = EmptyRow
        /\ call' = [op |-> "query", end |-> "running", all |-> FALSE]
        /\ UNCHANGED results
     \/ ~goOn /\ Return("ok", FALSE) /\ UNCHANGED <<at, col>>
  /\ UNCHANGED <<crashed, kind, isOpen, queryVars>>

\* sqlite3_step and mysql_fetch_row do not tell the loop an error from the end: all
\* says whether it was the end.
RowsEnd ==
  /\ InLoop /\ col = 1 /\ Return("ok", at > Len(table.rows))
  /\ UNCHANGED <<crashed, kind, isOpen, queryVars, at, col>>

------------------------------------------------------------------------------
(* Reading values.                                                         *)

\* What a pointer into the library points to can be read in the callback only.
ReadAs(any, T, live) ==
  Then(get(any, T), LAMBDA v : IF any.type \in PointerTypes /\ ~live
                                 THEN Undefined ELSE Ok(v))

ReadFrom(r, n, header, T, live) ==
  LET end == ReadAs(RowGet(r, header), T, live)
  IN /\ crashed' = (end.how = "undefined")
     /\ call' = [op |-> "read", at |-> n, header |-> header, T |-> T, live |-> live,
                 end |-> end.how, val |-> end.val]
     /\ UNCHANGED <<kind, isOpen, pc, queryVars, loopVars>>

ReadInCallback(header, T) == InCallback /\ ReadFrom(row, at, header, T, TRUE)
ReadResults(n, header, T) ==
  InApplication /\ n \in DOMAIN results /\ ReadFrom(results[n], n, header, T, FALSE)

\* Row::empty() calls itself until the stack is used up.
AskEmpty ==
  /\ InCallback \/ (InApplication /\ results # <<>>)
  /\ crashed' = TRUE /\ call' = [op |-> "empty"]
  /\ UNCHANGED <<kind, isOpen, pc, queryVars, loopVars>>

Modes == {"collect", "callback"}

Next ==
  \/ \E dt \in 0..6, env \in Environments : New(dt, env)
  \/ \E exists \in BOOLEAN, args \in (IF kind = SQLITE THEN SQLiteArguments
                                                 ELSE ServerArguments) : Open(args, exists)
  \/ Release
  \/ \E m \in Modes : \/ \E t \in (IF kind = SQLITE THEN SQLiteTables ELSE MySQLTables) :
                            Query(m, t)
                      \/ \E header \in Headers, v \in TimeValues :
                            QueryStored(m, header, v)
  \/ DecodeColumn \/ Collect \/ EnterCallback \/ RowsEnd
  \/ \E goOn \in BOOLEAN : LeaveCallback(goOn)
  \/ \E header \in Headers, T \in Targets :
       \/ ReadInCallback(header, T)
       \/ \E n \in 1..Len(results) : ReadResults(n, header, T)
  \/ AskEmpty

Spec == Init /\ [][Next]_vars

------------------------------------------------------------------------------
(* Properties. They relate the last call to what was there to be found,    *)
(* asked for or read.                                                      *)

\* Every variable has its type: numbers in the range of the type they are stored
\* as, loop indices at most one past the end, a running query only on a session.
IsRow(r) == DOMAIN r \subseteq Headers /\ \A h \in DOMAIN r : IsAny(r[h])
TypeOK ==
  /\ crashed \in BOOLEAN /\ isOpen \in BOOLEAN
  /\ kind \in {UNKNOWN} \cup {TypeCreatedBy[f] : f \in DOMAIN TypeCreatedBy}
  /\ isOpen => kind # UNKNOWN
  /\ pc \in {"app", "columns", "callback"} /\ (pc # "app" => isOpen)
  /\ mode \in Modes /\ IsAny(stored)
  /\ at \in 1..Len(table.rows) + 1 /\ col \in 1..Len(table.names) + 1
  /\ IsRow(row) /\ \A n \in DOMAIN results : IsRow(results[n])

\* A file of the library's name stands at the i-th entry of Path.
HoldsFile(env, lib, i) ==
  LET place == <<env.dirs[i], lib>>
  IN /\ env.dirs[i] # "" /\ place \in DOMAIN env.files
     /\ env.files[place] # "directory"

\* newSession (Session.cpp:90), if it comes back, yields a session exactly if the
\* first place, along Path and then the working directory, that holds a file of the
\* library's name (a directory in the way does not count before the working
\* directory) holds the library of the type asked for; and that session is of this
\* type.
BackendFound ==
  call.op = "newSession" /\ ~crashed =>
    LET env   == call.env
        lib   == dllName(call.dt)
        hits  == {i \in DOMAIN env.dirs : HoldsFile(env, lib, i)}
        place == IF hits = {} THEN <<lib>> ELSE <<env.dirs[Min(hits)], lib>>
        there == place \in DOMAIN env.files /\ env.files[place] \in DOMAIN TypeCreatedBy
    IN IF there /\ call.dt \in 1..5 /\ TypeCreatedBy[env.files[place]] = call.dt
         THEN call.end = "ok" /\ kind = call.dt
         ELSE call.end = "throws" /\ kind = UNKNOWN

\* The text an argument stands for.
TextOf(any) == IF any.type = "char" THEN <<Character(any.val[1])>> ELSE any.val

IsTrue(args, key)  == given(args, key) /\ args[key].val = True
IsFalse(args, key) == given(args, key) /\ args[key].val = False

\* Session.h:39-45: an SQLite database opened with readOnly cannot be written, one
\* opened with create == false was there before, and the target is the one named;
\* a database in memory is exempt.
OpensAsAsked ==
  call.op = "open" /\ kind = SQLITE /\ call.end = "ok" =>
    /\ call.request.target = TextOf(call.args["target"])
    /\ call.request.target # Memory =>
         /\ IsTrue(call.args, "readOnly") => call.request.flags = READONLY
         /\ IsFalse(call.args, "create") => call.exists
         /\ ~IsTrue(call.args, "readOnly") => call.request.flags # READONLY

\* The texts libpq reads as they are written: without a backslash, and as the name of
\* a database, which has no quotes around it, without a blank at either end.
ReadAsWritten(key, text) ==
  /\ ~Contains(text, Backslash)
  /\ key = "database" /\ text # <<>> => Space \notin {Head(text), Last(text)}

\* Session.h:47-53: a connection is made to the host and port, as the user and to
\* the database given; an integer of any width is a port, nothing else is; without
\* one the default is used. Nothing is claimed of a port beyond 16 bits, which is
\* another port, and of texts that libpq takes for others.
ConnectsAsAsked ==
  call.op = "open" /\ kind \in {MYSQL, POSTGRESQL} /\ call.end = "ok" =>
    /\ \A key \in {"host", "user", "passwd", "database"} \cap DOMAIN call.args :
         LET text == TextOf(call.args[key])
         IN (kind = POSTGRESQL => ReadAsWritten(key, text)) => call.request[key] = text
    /\ IF given(call.args, "port")
         THEN LET port == call.args["port"]
              IN /\ port.type \in Signed \cup Unsigned
                 /\ port.val[1] \in RangeOf("unsigned_short") =>
                      call.request.port = port.val[1]
         ELSE call.request.port = DefaultPort[1]
    /\ call.request.ssl =>
         given(call.args, "sslmode") /\ TextOf(call.args["sslmode"]) # Disable

\* The column of a header: of two of the same name, the first.
ColumnOf(header) == Min({c \in DOMAIN table.names : table.names[c] = header})
DecodedRow(n) ==
  [h \in ToSet(table.names) |-> Decode(table.rows[n][ColumnOf(h)]).val]

\* The rows collected by Session::query(sql), and the one given to a callback, are
\* the rows of the engine in order, each header with the value of its own column;
\* none is missing when the engine delivered all and query() returned.
ResultsFaithful ==
  ~crashed /\ kind # UNKNOWN =>
    /\ \A n \in DOMAIN results : results[n] = DecodedRow(n)
    /\ pc = "callback" => row = DecodedRow(at)
    /\ call.op = "query" /\ call.end = "ok" /\ call.all /\ mode = "collect" =>
         Len(results) = Len(table.rows)

(* What the last read was about: the value and the cell of its header.     *)
IsRead  == call.op = "read" /\ kind # UNKNOWN
AnyRead == RowGet(IF call.live THEN row ELSE results[call.at], call.header)
HasCell == call.header \in ToSet(table.names)
CellRead == table.rows[call.at][ColumnOf(call.header)]

IntegerCell(cell) == cell.type \in DOMAIN IntegerColumns \cup {"SQLITE_INTEGER"}

\* An integer on the server that fits the signed type its column stands for, and
\* the type it is read as, is read as itself (MySQLSession.cpp:132-155,
\* SQLiteSession.cpp:83, getInteger): through three conversions none cuts it.
IntegersSurvive ==
  IsRead /\ HasCell /\ call.T \in NumberTypes \ FloatTypes =>
    (IntegerCell(CellRead) =>
       LET n == IntegerOf(CellRead)
           stands == IF CellRead.type = "SQLITE_INTEGER" THEN "long_long"
                     ELSE IntegerColumns[CellRead.type].stored
       IN n \in RangeOf(stands) \cap RangeOf(call.T) =>
            call.end = "ok" /\ call.val = <<n>>)

\* An integer read as a string is its digits (Any.cpp:54-96). Exceptions: a char is
\* a character, and a long cannot be read as a string.
TextMatchesNumber ==
  IsRead /\ call.T = "std::string" /\ AnyRead.type \in Signed \cup Unsigned =>
    IF AnyRead.type \in {"long", "unsigned_long"} THEN call.end = "throws"
    ELSE /\ call.end = "ok"
         /\ AnyRead.type # "char" => call.val = Number(AnyRead.val[1])

(* Where a number stands in a text, with its sign, and what it is.         *)
Written(text, i, j) ==
  /\ {i, j} \subseteq DOMAIN text /\ text[j] >= 0
  /\ i = j \/ (i + 1 = j /\ text[i] = Dash)
NumberAt(text, i, j) == IF i = j THEN text[j] ELSE -text[j]

\* The three numbers that stand from i to j with a character between each two: none
\* or one such triple.
FieldsBetween(text, i, j) ==
  {<<NumberAt(text, i, p[1]), NumberAt(text, p[1] + 2, p[2]), NumberAt(text, p[2] + 2, j)>> :
     p \in {q \in (i..j) \X (i..j) : /\ Written(text, i, q[1])
                                     /\ Written(text, q[1] + 2, q[2])
                                     /\ Written(text, q[2] + 2, j)}}

\* One space, and no sign behind it.
IsBreak(text, s) ==
  \A i \in DOMAIN text : /\ (text[i] = Space) = (i = s)
                         /\ i > s => text[i] # Dash

\* Of the fields of a date or a time, read holds those before the first that no int
\* can hold.
Holds(read, fields) ==
  \A k \in 1..3 :
    (\A i \in 1..k : fields[i] \in RangeOf("int")) => read[k] = fields[k]

\* A date or time the server wrote out in full, in a column of its type or in text,
\* is read with every field in its place and no time zone (Mess.cpp:7-47). A number
\* beyond int spoils its own field and those behind it, in its date or its time only.
FieldsOfTheText ==
  IsRead /\ HasCell /\ call.T \in TimeTypesOfAny /\ call.end = "ok" =>
    LET text == CellRead.text
    IN IF call.T # "DateTime"
         THEN \A f \in FieldsBetween(text, 1, Len(text)) : Holds(call.val, f)
         ELSE \A s \in {i \in DOMAIN text : IsBreak(text, i)} :
                \A date \in FieldsBetween(text, 1, s - 1),
                   time \in FieldsBetween(text, s + 1, Len(text)) :
                  /\ Holds(DateOf(call.val), date) /\ Holds(TimeOf(call.val), time)
                  /\ ZoneOf(call.val) = NoZone

\* A Date, Time or DateTime that use() wrote into a column of text is read back as
\* it was (Mess.cpp:35-71), if a DateTime has no negative fields in its time; one
\* with a zone below -1 cannot be read back at all.
StoredComesBack ==
  /\ IsRead /\ HasCell /\ stored # Empty /\ call.T = stored.type
  /\ stored.type = "DateTime" => \A i \in 4..6 : stored.val[i] >= 0
  => IF stored.type = "DateTime" /\ ZoneOf(stored.val) < NoZone
       THEN call.end = "throws"
       ELSE call.end = "ok" /\ call.val = stored.val

\* SQL NULL, and a header the row does not have, read as 0 and as the empty string
\* and are no date (Any.h:44-102, Row.cpp:18): an application that does not ask
\* has() or has_value() takes them for values, but never for others.
NullReadsEmpty ==
  IsRead /\ (HasCell => CellRead.type \in {"SQLITE_NULL", "MYSQL_TYPE_NULL"}) =>
    /\ call.T \in NumberTypes => call.end = "ok" /\ call.val = <<0>>
    /\ call.T = "std::string" => call.end = "ok" /\ call.val = <<>>
    /\ call.T \in TimeTypesOfAny => call.end = "throws"

\* There is no space, nothing behind it, or nothing behind a dash.
NoTimeIn(text) ==
  \/ ~Contains(text, Space) \/ Last(text) \in {Space, Dash}
  \/ \E i \in 1..Len(text) - 1 : text[i] = Dash /\ text[i + 1] = Space

\* A call ends in undefined behaviour for one of these causes only: Path is unset, or
\* has an empty entry and no library before it; NULL in a typed MySQL column; a date
\* without a time where both are read; a value read as a character pointer; a BLOB
\* read after its callback; a floating-point number read as an integer type that
\* cannot hold it; Row::empty(). (A date whose fields were not all assigned is not
\* such an end: it is copied, with Garbage in it.)
UndefinedHasCause ==
  crashed =>
    \/ /\ call.op = "newSession"
       /\ \/ ~call.env.pathSet
          \/ \E i \in DOMAIN call.env.dirs :
               /\ call.env.dirs[i] = ""
               /\ \A j \in 1..i - 1 : ~HoldsFile(call.env, dllName(call.dt), j)
    \/ call.op = "empty"
    \/ /\ call.op = "query" /\ kind = MYSQL
       /\ LET cell == table.rows[at][col]
          IN \/ cell.null /\ cell.type \in MySQLTypes
             \/ cell.type \in {"MYSQL_TYPE_DATETIME", "MYSQL_TYPE_TIMESTAMP"}
                /\ NoTimeIn(cell.text)
    \/ /\ call.op = "read"
       /\ \/ call.T \in {"const_char*", "char*"}
          \/ HasCell /\ CellRead.type = "SQLITE_BLOB" /\ ~call.live
          \/ call.T = "DateTime" /\ isString(AnyRead) /\ NoTimeIn(getString(AnyRead).val)
          \/ /\ isFloat(AnyRead) /\ call.T \in NumberTypes \ FloatTypes
             /\ Trunc(AnyRead.val[1]) \notin RangeOf(call.T)

=============================================================================
