---------------------------- MODULE MCSessionUse ----------------------------
(***************************************************************************)
(* A small instance of SessionUse: types of 4, 8, 16 and 32 integers stand *)
(* for those of 2^8, 2^16, 2^32 and 2^64.                                  *)
(***************************************************************************)
EXTENDS SessionUse

MCGarbage == -99

\* Path as it is set for a sequence of directories; "" is an empty entry, and the
\* last directory may be written with a separator after it.
PathOf(dirs, closed) ==
  FlattenSeq([i \in DOMAIN dirs |->
    (IF dirs[i] = "" THEN <<>> ELSE <<dirs[i]>>)
      \o (IF closed THEN <<"\\">> ELSE <<>>) \o <<";">>])

Env(dirs, closed, files) ==
  [pathSet |-> TRUE, dirs |-> dirs, path |-> PathOf(dirs, closed), files |-> files]

NoFiles == [p \in {} |-> ""]
Lib(dt) == "LLDB-" \o DatabaseTypeToString(dt) \o ".dll"
Exported == [d \in {SQLITE, MYSQL, POSTGRESQL} |->
               CREATION_FUNCTIONS[DatabaseTypeToString(d)]]

\* What stands in two directories of Path and in the working directory under the
\* name of a library.
Contents(dt) == {"nothing", "directory", "damaged", Exported[dt]}
FilesOf(dt, here, there, cwd) ==
  LET Put(place, what) == IF what = "nothing" THEN NoFiles ELSE (place :> what)
  IN Put(<<"d", Lib(dt)>>, here) @@ Put(<<"e", Lib(dt)>>, there) @@ Put(<<Lib(dt)>>, cwd)

MCEnvironments ==
  {Env(<<"d", "e">>, closed, FilesOf(MYSQL, here, there, cwd)) :
     closed \in {FALSE}, here \in Contents(MYSQL), there \in {"nothing", "directory", Exported[MYSQL]},
     cwd \in {"nothing", "directory", Exported[MYSQL]}}
  \cup {Env(<<"d", "e">>, TRUE, FilesOf(MYSQL, "nothing", there, "nothing")) :
          there \in {"nothing", Exported[MYSQL]}}
  \cup {Env(<<"d">>, FALSE, FilesOf(dt, Exported[dt], "nothing", "nothing")) :
          dt \in {SQLITE, POSTGRESQL}}
  \cup {Env(<<>>, FALSE, FilesOf(SQLITE, "nothing", "nothing", Exported[SQLITE])),
        Env(<<"">>, FALSE, (<<"\\", Lib(SQLITE)>> :> Exported[SQLITE])),
        Env(<<"d">>, FALSE, (<<"d", Lib(SQLITE)>> :> Exported[MYSQL])),
        Env(<<"", "d">>, FALSE, (<<"d", Lib(SQLITE)>> :> Exported[SQLITE])),
        Env(<<"d", "">>, FALSE, (<<"d", Lib(SQLITE)>> :> Exported[SQLITE])),
        Env(<<"d", "">>, FALSE, (<<"d", Lib(SQLITE)>> :> "directory")),
        [pathSet |-> FALSE, dirs |-> <<>>, path |-> <<>>, files |-> NoFiles]}

String(text) == Stored("const_char*", text)
Bool(b) == Stored("bool", <<b>>)

NoArgs == [k \in {} |-> Empty]
Choice(key, anys) == {NoArgs} \cup {key :> any : any \in anys}

MCSQLiteArguments ==
  {target @@ create @@ readOnly @@ uri :
     target \in Choice("target", {String(Memory), Stored("std::string", <<Letter>>),
                                  Stored("char", <<1>>), Bool(1)}),
     create \in Choice("create", {Bool(0), Bool(1), Stored("int", <<1>>)}),
     readOnly \in Choice("readOnly", {Bool(0), Bool(1)}),
     uri \in Choice("uri", {Bool(1)})}

Ports == {Stored("int", <<5>>), Stored("int", <<-3>>), Stored("long_long", <<13>>),
          Stored("unsigned_short", <<7>>), Stored("char", <<1>>), Stored("long", <<5>>),
          Stored("double", <<9>>), String(<<5>>), Bool(1)}
DatabaseNames ==
  {<<>>, <<Letter>>, <<Letter, Space, Letter>>, <<Space, Letter>>, <<Letter, Space>>,
   <<Space>>, <<Letter, Backslash>>, <<Letter, Backslash, Space>>}
MCServerArguments ==
  {("host" :> String(<<Letter>>)) @@ ("passwd" :> String(<<>>)) @@ ("user" :> String(<<Letter>>))
     @@ ("database" :> String(name)) @@ ssl :
     name \in DatabaseNames, ssl \in Choice("sslmode", {String(<<TrueWord>>)})}
  \cup
  {("host" :> host) @@ passwd @@ ("user" :> String(<<Letter>>)) @@ port @@ db @@ ssl :
     host \in {String(<<1, Dot, 2>>), Stored("char", <<1>>), Stored("int", <<1>>)},
     passwd \in Choice("passwd", {String(<<>>), String(<<Letter, Quote, Letter>>),
                                  String(<<Letter, Backslash, Quote>>)}),
     port \in Choice("port", Ports),
     db \in Choice("database", {String(<<Letter>>)}),
     ssl \in Choice("sslmode", {String(<<TrueWord>>)})
       \cup {("sslmode" :> String(<<TrueWord>>)) @@ ("sslcompression" :> Stored("int", <<1>>))}}

------------------------------------------------------------------------------
(* Tables: one cell of every type and kind of content, and a few with two  *)
(* columns or rows.                                                        *)

OneCell(cell) == [names |-> <<"A">>, rows |-> <<<<cell>>>>]

\* 7 is the greatest int and -8 the least: fields at these bounds and beyond them.
DateText == <<2, Dash, 1, Dash, 5>>
TimeText == <<3, Colon, 4, Colon, 7>>
NegativeTime == <<Dash, 8, Colon, 4, Colon, 7>>
DateTimeText == DateText \o <<Space>> \o TimeText
LongDate == <<2, Dash, 9, Dash, 5>>
TimeTexts == {DateText, TimeText, NegativeTime, DateTimeText, <<6>>, <<8>>, <<>>,
              LongDate, LongDate \o <<Space>> \o TimeText, <<Dash, 9, Colon, 4, Colon, 7>>,
              DateText \o <<Space>> \o <<3, Colon, 4, Colon, 8>>,
              DateTimeText \o <<Dash, 5>>, DateTimeText \o <<Dash>>,
              DateTimeText \o <<Dash, 8>>,
              DateText \o <<Space>>, <<Dash, 0, Colon, 6, Colon, 1>>}
Integers0 == {-17, -9, -8, -5, -3, -2, -1, 0, 1, 2, 3, 4, 7, 8, 15, 16}

MySQLCells ==
  {Cell(t, Number(n)) : t \in DOMAIN IntegerColumns, n \in Integers0}
  \cup {Cell("MYSQL_TYPE_BIT", bits) :
          bits \in {<<1, 0>>, <<0, 1, 1, 0>>, <<1, 1, 1, 1, 1>>, <<0, 5>>}}
  \cup {Cell(t, text) : t \in {"MYSQL_TYPE_DATE", "MYSQL_TYPE_TIME", "MYSQL_TYPE_DATETIME",
                               "MYSQL_TYPE_TIMESTAMP", "MYSQL_TYPE_STRING"},
                        text \in TimeTexts}
  \cup {Cell(t, text) : t \in {"MYSQL_TYPE_DECIMAL", "MYSQL_TYPE_DOUBLE", "MYSQL_TYPE_FLOAT"},
                        text \in {<<5>>, <<5, Dot, 5>>, <<Dash, 1, Dot, 5>>, <<16>>, <<Letter>>}}
  \cup {Cell("MYSQL_TYPE_JSON", <<Letter>>), Cell("MYSQL_TYPE_NEWDECIMAL", <<5>>)}
  \cup {NullCell(t) : t \in {"MYSQL_TYPE_NULL", "MYSQL_TYPE_LONG", "MYSQL_TYPE_VAR_STRING",
                             "MYSQL_TYPE_NEWDECIMAL"}}

SQLiteCells ==
  {Cell("SQLITE_INTEGER", <<n>>) : n \in Integers0 \cap RangeOf("long_long")}
  \cup {Cell("SQLITE_TEXT", text) : text \in TimeTexts \cup {<<Letter>>, <<5>>}}
  \cup {Cell("SQLITE_FLOAT", <<h>>) : h \in {-3, 0, 4, 21}}
  \cup {Cell("SQLITE_BLOB", <<Letter>>), NullCell("SQLITE_NULL")}

TwoByTwo(names, a, b, c, d) == [names |-> names, rows |-> <<<<a, b>>, <<c, d>>>>]

MCSQLiteTables ==
  {OneCell(cell) : cell \in SQLiteCells}
  \cup {TwoByTwo(names, Cell("SQLITE_INTEGER", <<1>>), Cell("SQLITE_TEXT", <<Letter>>),
                 NullCell("SQLITE_NULL"), Cell("SQLITE_INTEGER", <<2>>)) :
          names \in {<<"A", "B">>, <<"B", "B">>}}
  \cup {NoTable}

MCMySQLTables ==
  {OneCell(cell) : cell \in MySQLCells}
  \cup {TwoByTwo(names, Cell("MYSQL_TYPE_LONG", <<1>>), Cell("MYSQL_TYPE_STRING", <<Letter>>),
                 Cell("MYSQL_TYPE_LONG", <<2>>), Cell(t, <<5>>)) :
          names \in {<<"A", "B">>, <<"B", "B">>},
          t \in {"MYSQL_TYPE_STRING", "MYSQL_TYPE_NEWDECIMAL"}}

MCTimeValues ==
  {Stored("Date", <<2, 1, 5>>), Stored("Date", <<-8, 6, 7>>),
   Stored("Time", <<3, 4, 7>>), Stored("Time", <<-3, 4, 7>>)}
  \cup {Stored("DateTime", <<2, 1, 5, hour, 4, 6, zone>>) :
          hour \in {0, 3, -1}, zone \in {-8, -3, -2, -1, 0, 1, 7}}

MCTargets ==
  {"std::string", "const_char*", "char", "unsigned_char", "short", "int", "unsigned_int",
   "long", "long_long", "unsigned_long_long", "double", "bool", "void*",
   "Date", "Time", "DateTime"}

=============================================================================
