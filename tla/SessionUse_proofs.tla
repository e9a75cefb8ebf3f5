--------------------------- MODULE SessionUse_proofs ---------------------------
(***************************************************************************)
(* Proofs about SessionUse: for any environments, arguments, tables, time  *)
(* values, types and sizes of integers that UseAssumption allows, what an  *)
(* application gets is what it asked for, what the engine delivered, and   *)
(* what it stored. Inv is inductive; the properties follow from it state   *)
(* by state, by the lemmas of TextNumbers_proofs and ColumnDecode_proofs.  *)
(***************************************************************************)
EXTENDS SessionUse, ColumnDecode_proofs

(* What an operator of SessionUse says of the kind of session and the table given,   *)
(* so that the next state is a matter of other arguments.                    *)
DecodeAs(k, cell) == IF k = SQLITE THEN SQLiteDecode(cell) ELSE MySQLDecode(cell)
FirstOf(t, h) == Min({c \in DOMAIN t.names : t.names[c] = h})
CellOf(t, n, h) == t.rows[n][FirstOf(t, h)]
RowOf(k, t, n) == [h \in ToSet(t.names) |-> DecodeAs(k, CellOf(t, n, h)).val]
RowUpTo(k, t, n, c) ==
  [h \in {t.names[i] : i \in 1..c - 1} |-> DecodeAs(k, CellOf(t, n, h)).val]
DecodesUpTo(k, t, n, c) == \A i \in 1..c - 1 : DecodeAs(k, t.rows[n][i]).how = "ok"
Decodes(k, t, n) == DecodesUpTo(k, t, n, Len(t.names) + 1)

IsCellOf(k, cell) == IF k = SQLITE THEN IsSQLiteCell(cell) ELSE IsMySQLCell(cell)
IsTableOf(k, t) ==
  /\ t.names \in Seq(Headers) /\ DOMAIN t.rows = 1..Len(t.rows) /\ Len(t.rows) \in Nat
  /\ \A n \in DOMAIN t.rows, c \in DOMAIN t.names : IsCellOf(k, t.rows[n][c])

PortOf(k) == IF k = MYSQL THEN <<3306 % ShortSize>> ELSE <<5432 % ShortSize>>
OpenAs(k, args, exists) ==
  CASE k = SQLITE -> Then(SQLiteOpen(args), LAMBDA q : sqlite3_open(q, exists))
    [] k = MYSQL -> Then(MySQLOpen(args, PortOf(k)), LAMBDA q : IF exists THEN Ok(q) ELSE Throws)
    [] k = POSTGRESQL -> Then(PgSQLOpen(args, PortOf(k), <<20 % ShortSize>>),
                              LAMBDA q : IF exists THEN Ok(q) ELSE Throws)

TextColumn(k) == IF k = SQLITE THEN "SQLITE_TEXT" ELSE "MYSQL_TYPE_VAR_STRING"
StoredTable(k, header, value) ==
  [names |-> <<header>>, rows |-> <<<<Cell(TextColumn(k), ToText(value))>>>>]

Kinds == {SQLITE, MYSQL, POSTGRESQL}
Decoders == {SQLITE, MYSQL}

SessionInv ==
  /\ crashed \in BOOLEAN /\ isOpen \in BOOLEAN /\ kind \in {UNKNOWN} \cup Kinds
  /\ isOpen => kind # UNKNOWN
  /\ pc \in {"app", "columns", "callback"}
  /\ pc # "app" => isOpen /\ kind \in Decoders
  /\ mode \in Modes

TableInv ==
  /\ IsTableOf(kind, table)
  /\ kind \notin Decoders => results = <<>> /\ stored = Empty /\ table = NoTable
  /\ stored # Empty => /\ stored \in TimeValues
                       /\ \E header \in Headers : table = StoredTable(kind, header, stored)

LoopInv ==
  /\ at \in 1..Len(table.rows) + 1 /\ col \in 1..Len(table.names) + 1
  /\ pc = "app" => row = EmptyRow
  /\ pc = "columns" =>
       /\ call.op = "query" /\ call.end = "running"
       /\ IF at > Len(table.rows) THEN row = EmptyRow /\ col = 1
          ELSE /\ row = RowUpTo(kind, table, at, col)
               /\ DecodesUpTo(kind, table, at, col)
  /\ pc = "callback" =>
       /\ call.op \in {"query", "read", "empty"} /\ (call.op = "query" => call.end = "running")
       /\ mode = "callback" /\ at <= Len(table.rows)
       /\ row = RowOf(kind, table, at) /\ Decodes(kind, table, at)

ResultsInv ==
  /\ results \in Seq({RowOf(kind, table, n) : n \in 1..Len(table.rows)})
  /\ Len(results) <= Len(table.rows)
  /\ \A n \in 1..Len(results) : results[n] = RowOf(kind, table, n) /\ Decodes(kind, table, n)
  /\ IF mode = "collect" THEN pc = "columns" => Len(results) = at - 1 ELSE results = <<>>
  /\ call.op = "query" /\ call.end = "ok" /\ call.all /\ mode = "collect" =>
       Len(results) = Len(table.rows)

\* What the last call was, and what came of it.
NewInv ==
  call.op = "newSession" =>
    /\ call.dt \in 0..6 /\ call.env \in Environments
    /\ LET r == newSession(call.dt, call.env)
       IN /\ call.end = r.how /\ crashed = (r.how = "undefined")
          /\ kind = IF r.how = "ok" THEN r.val[1] ELSE UNKNOWN

OpenInv ==
  call.op = "open" =>
    /\ kind \in Kinds /\ call.exists \in BOOLEAN /\ ~crashed
    /\ call.args \in IF kind = SQLITE THEN SQLiteArguments ELSE ServerArguments
    /\ LET r == OpenAs(kind, call.args, call.exists)
       IN call.end = r.how /\ call.request = r.val

QueryInv ==
  call.op = "query" =>
    /\ kind \in Decoders
    /\ crashed => /\ at <= Len(table.rows) /\ col <= Len(table.names)
                  /\ DecodeAs(kind, table.rows[at][col]).how = "undefined"

ReadInv ==
  call.op = "read" =>
    /\ kind \in Decoders /\ call.live \in BOOLEAN /\ call.T \in Targets
    /\ call.header \in Headers /\ call.at \in 1..Len(table.rows)
    /\ (IF call.live THEN row ELSE results[call.at]) = RowOf(kind, table, call.at)
    /\ Decodes(kind, table, call.at)
    /\ LET end == ReadAs(RowGet(RowOf(kind, table, call.at), call.header), call.T, call.live)
       IN call.end = end.how /\ call.val = end.val /\ crashed = (end.how = "undefined")

CallInv ==
  /\ call.op \in {"none", "newSession", "open", "release", "query", "read", "empty"}
  /\ crashed => call.op \in {"newSession", "query", "read", "empty"}
  /\ NewInv /\ OpenInv /\ QueryInv /\ ReadInv

Inv == SessionInv /\ TableInv /\ LoopInv /\ ResultsInv /\ CallInv

LEMMA InitInv == ASSUME Init PROVE Inv
<1> USE DEF Init
<1>1. SessionInv
  BY DEF SessionInv, Kinds, UNKNOWN, Modes
<1>2. TableInv
  <2>1. <<>> \in Seq(Headers)
    OBVIOUS
  <2>2. Len(<<>>) = 0 /\ DOMAIN <<>> = {} /\ 1..0 = {}
    OBVIOUS
  <2> QED
    BY <2>1, <2>2 DEF TableInv, IsTableOf, NoTable, Decoders, UNKNOWN, SQLITE, MYSQL
<1>3. LoopInv
  BY DEF LoopInv, NoTable
<1>4. ResultsInv
  BY DEF ResultsInv, NoTable
<1>5. CallInv
  BY DEF CallInv, NewInv, OpenInv, QueryInv, ReadInv
<1> QED
  BY <1>1, <1>2, <1>3, <1>4, <1>5 DEF Inv

LEMMA StutterInv == ASSUME Inv, UNCHANGED vars PROVE Inv'
<1> USE DEF Inv, vars, queryVars, loopVars
<1>1. SessionInv'
  BY DEF SessionInv
<1>2. TableInv'
  BY DEF TableInv
<1>3. LoopInv'
  BY DEF LoopInv
<1>4. ResultsInv'
  BY DEF ResultsInv
<1>5. CallInv'
  BY DEF CallInv, NewInv, OpenInv, QueryInv, ReadInv
<1> QED
  BY <1>1, <1>2, <1>3, <1>4, <1>5 DEF Inv

LEMMA EmptyTable ==
  ASSUME NEW k
  PROVE  IsTableOf(k, NoTable)
<1>1. <<>> \in Seq(Headers) /\ Len(<<>>) = 0 /\ DOMAIN <<>> = {} /\ 1..0 = {}
  OBVIOUS
<1> QED
  BY <1>1 DEF IsTableOf, NoTable

\* Where nothing was selected, nothing is to be said of rows.
LEMMA NothingSelected ==
  ASSUME table' = NoTable, results' = <<>>, row' = EmptyRow, at' = 1, col' = 1, pc' = "app",
         stored' = Empty, call'.op # "query"
  PROVE  TableInv' /\ LoopInv' /\ ResultsInv'
<1>1. TableInv'
  BY EmptyTable DEF TableInv
<1>2. LoopInv'
  BY DEF LoopInv, NoTable
<1>3. ResultsInv'
  BY DEF ResultsInv, NoTable
<1> QED
  BY <1>1, <1>2, <1>3

LEMMA Indices ==
  ASSUME NEW S, NEW s \in Seq(S)
  PROVE  DOMAIN s \in SUBSET Nat
OBVIOUS

\* The names of a path that does not start at the root.
LEMMA OneName ==
  ASSUME NEW S, NEW path \in Seq(S), NEW i \in DOMAIN path, Head(path) \notin Separators,
         \A j \in DOMAIN path : IsName(path[j]) <=> j = i
  PROVE  Place(path) = <<path[i]>>
<1> DEFINE named == {j \in DOMAIN path : IsName(path[j])}
           names == [k \in 1..Cardinality(named) |-> path[Nth(named, k)]]
<1>1. i \in Nat /\ named = {i} /\ path[i] \in S
  OBVIOUS
<1>2. IsFiniteSet({i}) /\ Cardinality({i}) = 1
  BY FS_Singleton, Zenon
<1>3. Nth({i}, 1) = i
  BY <1>1, <1>2, FirstNth
<1>4. names = <<path[i]>>
  <2>1. names = [k \in 1..1 |-> path[Nth({i}, k)]]
    BY <1>1, <1>2, Zenon
  <2>2. [k \in 1..1 |-> path[Nth({i}, k)]] = <<path[i]>>
    BY <1>3
  <2> QED
    BY <2>1, <2>2, Zenon
<1>5. Place(path) = <<>> \o names
  BY Zenon DEF Place
<1>6. <<>> \o <<path[i]>> = <<path[i]>>
  BY <1>1
<1> QED
  BY <1>4, <1>5, <1>6, Zenon

LEMMA TwoNames ==
  ASSUME NEW S, NEW path \in Seq(S), NEW i \in DOMAIN path, NEW n \in DOMAIN path, i < n,
         Head(path) \notin Separators,
         \A j \in DOMAIN path : IsName(path[j]) <=> j \in {i, n}
  PROVE  Place(path) = <<path[i], path[n]>>
<1> DEFINE named == {j \in DOMAIN path : IsName(path[j])}
           names == [k \in 1..Cardinality(named) |-> path[Nth(named, k)]]
<1>1. i \in Nat /\ n \in Nat /\ named = {i, n} /\ path[i] \in S /\ path[n] \in S
  OBVIOUS
<1>2. IsFiniteSet({i, n}) /\ Cardinality({i, n}) = 2
  <2>1. IsFiniteSet({i}) /\ Cardinality({i}) = 1
    BY FS_Singleton, Zenon
  <2>2. n \notin {i}
    OBVIOUS
  <2>3. IsFiniteSet({i} \cup {n}) /\ Cardinality({i} \cup {n}) = Cardinality({i}) + 1
    BY <2>1, <2>2, FS_AddElement, Zenon
  <2>4. {i} \cup {n} = {i, n}
    OBVIOUS
  <2>5. Cardinality({i} \cup {n}) = 2
    BY <2>1, <2>3
  <2> QED
    BY <2>3, <2>4, <2>5, Zenon
<1>3. Nth({i, n}, 1) = i /\ Nth({i, n}, 2) = n
  <2> DEFINE both == {i, n}
  <2>1. /\ both \in SUBSET Nat /\ i \in both /\ n \in both
        /\ \A d \in both : i <= d /\ (d = i \/ n <= d)
    BY <1>1
  <2>2. IsFiniteSet(both)
    BY <1>2
  <2> HIDE DEF both
  <2>3. Nth(both, 1) = i
    BY <2>1, <2>2, FirstNth
  <2>4. Nth(both, 2) = n
    BY <2>1, <2>2, SecondNth
  <2> QED
    BY <2>3, <2>4 DEF both
<1>4. names = <<path[i], path[n]>>
  <2>1. names = [k \in 1..2 |-> path[Nth({i, n}, k)]]
    BY <1>1, <1>2, Zenon
  <2>2. [k \in 1..2 |-> path[Nth({i, n}, k)]] = <<path[i], path[n]>>
    BY <1>3
  <2> QED
    BY <2>1, <2>2, Zenon
<1>5. Place(path) = <<>> \o names
  BY Zenon DEF Place
<1>6. <<>> \o <<path[i], path[n]>> = <<path[i], path[n]>>
  BY <1>1
<1> QED
  BY <1>4, <1>5, <1>6, Zenon

LEMMA LibraryName ==
  ASSUME NEW dt
  PROVE  IsName(dllName(dt))
<1>1. dllName(dt) \in {"LLDB-SQLite.dll", "LLDB-MySQL.dll", "LLDB-PostgreSQL.dll",
                        "LLDB-Oracle.dll", "LLDB-ODBC.dll", "LLDB-Unknown.dll"}
  BY DEF dllName
<1>2. \A name \in {"LLDB-SQLite.dll", "LLDB-MySQL.dll", "LLDB-PostgreSQL.dll",
                   "LLDB-Oracle.dll", "LLDB-ODBC.dll", "LLDB-Unknown.dll"} :
         IsName(name)
  BY DEF IsName, Separators
<1> QED
  BY <1>1, <1>2

LEMMA ThreeParts ==
  ASSUME NEW a, NEW b, NEW c,
         a \notin Separators, ~IsName(b), IsName(c)
  PROVE  Place(<<a, b, c>>) = IF IsName(a) THEN <<a, c>> ELSE <<c>>
<1> DEFINE path == <<a, b, c>>
<1>1. /\ path \in Seq({a, b, c}) /\ 1 \in DOMAIN path /\ 3 \in DOMAIN path
      /\ path[1] = a /\ path[3] = c /\ Head(path) \notin Separators
      /\ \A j \in DOMAIN path : IsName(path[j]) <=> j = 3 \/ (j = 1 /\ IsName(a))
  OBVIOUS
<1> HIDE DEF path
<1>2. CASE IsName(a)
  <2>1. \A j \in DOMAIN path : IsName(path[j]) <=> j \in {1, 3}
    BY <1>1, <1>2
  <2>2. Place(path) = <<path[1], path[3]>>
    BY <1>1, <2>1, TwoNames
  <2> QED
    BY <1>1, <1>2, <2>2, Zenon DEF path
<1>3. CASE ~IsName(a)
  <2>1. \A j \in DOMAIN path : IsName(path[j]) <=> j = 3
    BY <1>1, <1>3
  <2>2. Place(path) = <<path[3]>>
    BY <1>1, <2>1, OneName
  <2> QED
    BY <1>1, <1>3, <2>2, Zenon DEF path
<1> QED
  BY <1>2, <1>3

\* The places newSession looks at.
LEMMA Places ==
  ASSUME NEW lib, IsName(lib)
  PROVE  /\ Place(<<lib>>) = <<lib>> /\ Place(<<".", "\\", lib>>) = <<lib>>
         /\ \A dir : \A sep \in Separators :
              IsName(dir) => Place(<<dir, sep, lib>>) = <<dir, lib>>
<1>1. Place(<<lib>>) = <<lib>>
  <2> DEFINE path == <<lib>>
  <2>1. /\ path \in Seq({lib}) /\ 1 \in DOMAIN path /\ path[1] = lib
        /\ Head(path) \notin Separators
        /\ \A j \in DOMAIN path : IsName(path[j]) <=> j = 1
    BY DEF IsName
  <2> HIDE DEF path
  <2>2. Place(path) = <<path[1]>>
    BY <2>1, OneName
  <2> QED
    BY <2>1, <2>2, Zenon DEF path
<1>2. Place(<<".", "\\", lib>>) = <<lib>>
  <2>1. "." \notin Separators /\ ~IsName(".") /\ ~IsName("\\")
    BY DEF IsName, Separators
  <2> QED
    BY <2>1, ThreeParts
<1>3. ASSUME NEW dir, NEW sep \in Separators, IsName(dir)
      PROVE  Place(<<dir, sep, lib>>) = <<dir, lib>>
  <2>1. ~IsName(sep) /\ dir \notin Separators
    BY <1>3, Zenon DEF IsName
  <2> QED
    BY <1>3, <2>1, ThreeParts
<1> QED
  BY <1>1, <1>2, <1>3

LEMMA TwoParts ==
  ASSUME NEW a, NEW b, NEW c
  PROVE  <<a>> \o <<b>> \o <<c>> = <<a, b, c>> /\ <<a, b>> \o <<>> \o <<c>> = <<a, b, c>>
<1> DEFINE S == {a, b, c}  t == <<a, b, c>>  ab == <<a, b>>  u == <<a>> \o <<b>> \o <<c>>
           v == ab \o <<>>  w == v \o <<c>>
<1>1. t \in Seq(S) /\ Len(t) = 3 /\ t[1] = a /\ t[2] = b /\ t[3] = c
  OBVIOUS
<1>2. u \in Seq(S) /\ Len(u) = 3 /\ u[1] = a /\ u[2] = b /\ u[3] = c
  OBVIOUS
<1>3. w \in Seq(S) /\ Len(w) = 3 /\ w[1] = a /\ w[2] = b /\ w[3] = c
  <2>1. ab \in Seq(S) /\ Len(ab) = 2 /\ ab[1] = a /\ ab[2] = b
    OBVIOUS
  <2>2. v = ab
    <3> HIDE DEF ab
    <3> QED
      BY <2>1, ConcatEmptySeq
  <2>3. <<c>> \in Seq(S) /\ Len(<<c>>) = 1 /\ <<c>>[1] = c
    OBVIOUS
  <2>4. w = ab \o <<c>>
    BY <2>2
  <2> DEFINE one == <<c>>
  <2>5. one \in Seq(S) /\ Len(one) = 1 /\ one[1] = c
    BY <2>3
  <2>6. w = ab \o one
    BY <2>4, Zenon
  <2> DEFINE x == ab \o one
  <2> HIDE DEF w, ab, one, S
  <2>7. /\ x \in Seq(S) /\ Len(x) = 3
        /\ x[1] = ab[1] /\ x[2] = ab[2] /\ x[3] = one[1]
    <3>1. /\ x \in Seq(S) /\ Len(x) = Len(ab) + Len(one)
          /\ \A i \in 1..Len(ab) + Len(one) :
               x[i] = IF i <= Len(ab) THEN ab[i] ELSE one[i - Len(ab)]
      BY <2>1, <2>5, ConcatProperties
    <3> HIDE DEF x
    <3> QED
      BY <2>1, <2>5, <3>1
  <2> HIDE DEF x
  <2>8. w = x
    BY <2>6, Zenon DEF x
  <2> QED
    BY <2>1, <2>5, <2>7, <2>8
<1>4. \A i \in 1..3 : i = 1 \/ i = 2 \/ i = 3
  OBVIOUS
<1> HIDE DEF S, t, u, w
<1>5. u = t
  BY <1>1, <1>2, <1>4, SeqEqual
<1>6. w = t
  BY <1>1, <1>3, <1>4, SeqEqual
<1> QED
  BY <1>5, <1>6, Zenon DEF t, u, w

LEMMA LastPart ==
  ASSUME NEW a, NEW b
  PROVE  /\ Last(<<a>>) = a /\ <<a>> # <<>>
         /\ Last(<<a, b>>) = b /\ <<a, b>> # <<>>
BY DEF Last

\* What is tried for an entry of Path that names a directory is the library in it.
LEMMA CandidatePlace ==
  ASSUME NEW dir, IsName(dir), NEW lib, IsName(lib),
         NEW entry, entry = <<dir>> \/ \E sep \in Separators : entry = <<dir, sep>>
  PROVE  /\ Place(Candidate(entry, lib)) = <<dir, lib>>
         /\ Candidate(entry, lib) # <<>>
<1>1. \E sep \in Separators : Candidate(entry, lib) = <<dir, sep, lib>>
  <2>1. CASE entry = <<dir>>
    <3>1. dir \notin Separators
      BY Zenon DEF IsName
    <3>2. Candidate(entry, lib) = <<dir>> \o <<"\\">> \o <<lib>>
      <4>1. entry # <<>> /\ Last(entry) \notin Separators
        BY <2>1, <3>1, LastPart, Zenon
      <4> QED
        BY <2>1, <4>1, Zenon DEF Candidate
    <3>3. Candidate(entry, lib) = <<dir, "\\", lib>>
      <4>1. <<dir>> \o <<"\\">> \o <<lib>> = <<dir, "\\", lib>>
        BY TwoParts
      <4> QED
        BY <3>2, <4>1, Zenon
    <3> QED
      BY <3>3, Zenon DEF Separators
  <2>2. ASSUME NEW sep \in Separators, entry = <<dir, sep>>
        PROVE  Candidate(entry, lib) = <<dir, sep, lib>>
    <3>1. entry # <<>> /\ Last(entry) \in Separators
      BY <2>2, LastPart, Zenon
    <3>2. Candidate(entry, lib) = <<dir, sep>> \o <<>> \o <<lib>>
      BY <2>2, <3>1, Zenon DEF Candidate
    <3>3. <<dir, sep>> \o <<>> \o <<lib>> = <<dir, sep, lib>>
      BY TwoParts
    <3> QED
      BY <3>2, <3>3, Zenon
  <2> QED
    BY <2>1, <2>2
<1>2. PICK sep \in Separators : Candidate(entry, lib) = <<dir, sep, lib>>
  BY <1>1
<1>3. Place(<<dir, sep, lib>>) = <<dir, lib>>
  BY Places
<1>4. <<dir, sep, lib>> # <<>>
  OBVIOUS
<1> QED
  BY <1>2, <1>3, <1>4, Zenon

\* The function that a library exports and the type of the session it makes.
LEMMA TypeOfName ==
  ASSUME NEW dt \in 1..5, NEW f \in {"directory", "damaged"} \cup DOMAIN TypeCreatedBy
  PROVE  /\ DatabaseTypeToString(dt) \in DOMAIN CREATION_FUNCTIONS
         /\ f = CREATION_FUNCTIONS[DatabaseTypeToString(dt)] <=>
              f \in DOMAIN TypeCreatedBy /\ TypeCreatedBy[f] = dt
<1>1. dt \in {1, 2, 3, 4, 5}
  OBVIOUS
<1>2. DatabaseTypeToString(dt) \in DOMAIN CREATION_FUNCTIONS
  BY <1>1 DEF DatabaseTypeToString, CREATION_FUNCTIONS, SQLITE, MYSQL, POSTGRESQL, ORACLE, ODBC
<1> QED
  BY <1>1, <1>2 DEF DatabaseTypeToString, CREATION_FUNCTIONS, TypeCreatedBy,
                    SQLITE, MYSQL, POSTGRESQL, ORACLE, ODBC

\* An entry of Path that is empty, and one that names a directory.
Blank(dir) == dir = ""
Names(entry, dir) ==
  IsName(dir) /\ entry \in {<<dir>>} \cup {<<dir, sep>> : sep \in Separators}

LEMMA EntryPlace ==
  ASSUME NEW dir, NEW lib, IsName(lib), NEW entry, Names(entry, dir)
  PROVE  /\ Place(Candidate(entry, lib)) = <<dir, lib>> /\ Candidate(entry, lib) # <<>>
         /\ entry # <<>>
<1>1. entry = <<dir>> \/ \E sep \in Separators : entry = <<dir, sep>>
  BY DEF Names
<1>2. IsName(dir)
  BY DEF Names
<1>3. entry # <<>>
  BY <1>1, LastPart
<1> QED
  BY <1>1, <1>2, <1>3, CandidatePlace

\* The search has an undefined end: Path is unset, or an entry is empty before any
\* that holds the library.
NoSearch(env, lib) ==
  \/ ~env.pathSet
  \/ \E i \in DOMAIN env.dirs : Blank(env.dirs[i]) /\ \A j \in 1..i - 1 : ~HoldsFile(env, lib, j)

\* Where the library is found, if the search has an end that is defined.
LibraryPlace(env, lib) ==
  LET hits == {i \in DOMAIN env.dirs : HoldsFile(env, lib, i)}
  IN IF hits = {} THEN <<lib>> ELSE <<env.dirs[Min(hits)], lib>>

\* What is found along Path leads to that place.
Finds(path, env, lib) ==
  IF path = <<>> THEN LibraryPlace(env, lib) = <<lib>>
  ELSE Place(path) = LibraryPlace(env, lib) /\ LibraryPlace(env, lib) \in DOMAIN env.files

\* What is true of an entry of Path: the search passes it, or stops there.
LEMMA EntryTried ==
  ASSUME NEW env \in Environments, env.pathSet, NEW lib, IsName(lib), NEW i \in DOMAIN env.dirs
  PROVE  LET entry == split(env.path, ";")[i]
             path == Candidate(entry, lib)
         IN /\ entry = <<>> <=> Blank(env.dirs[i])
            /\ Blank(env.dirs[i]) => ~HoldsFile(env, lib, i)
            /\ ~Blank(env.dirs[i]) =>
                 /\ Place(path) = <<env.dirs[i], lib>> /\ path # <<>>
                 /\ HoldsFile(env, lib, i) <=>
                      fsExists(env.files, path) /\ ~isDirectory(env.files, path)
<1> DEFINE dir == env.dirs[i]  entry == split(env.path, ";")[i]  path == Candidate(entry, lib)
<1>1. Blank(dir) => entry = <<>>
  BY UseAssumption, Zenon DEF IsEnvironment, Blank
<1>2. ~Blank(dir) => Names(entry, dir)
  BY UseAssumption, Zenon DEF IsEnvironment, Blank, Names
<1>3. HoldsFile(env, lib, i) <=>
        ~Blank(dir) /\ <<dir, lib>> \in DOMAIN env.files /\ env.files[<<dir, lib>>] # "directory"
  BY Zenon DEF HoldsFile, Blank
<1> HIDE DEF dir, entry
<1>4. ~Blank(dir) => Place(path) = <<dir, lib>> /\ path # <<>> /\ entry # <<>>
  BY <1>2, EntryPlace
<1>5. ~Blank(dir) =>
        (HoldsFile(env, lib, i) <=> fsExists(env.files, path) /\ ~isDirectory(env.files, path))
  BY <1>3, <1>4, Zenon DEF fsExists, isDirectory
<1> QED
  BY <1>1, <1>3, <1>4, <1>5, Zenon DEF dir, entry

\* The search comes to that place, or to no file, or to no defined end.
LEMMA SearchPlace ==
  ASSUME NEW env \in Environments, env.pathSet, NEW lib, IsName(lib)
  PROVE  LET r == searchEnvironment(env, lib)
         IN \/ r = Undefined /\ NoSearch(env, lib)
            \/ \E path : r = Ok(path) /\ Finds(path, env, lib)
<1> DEFINE entries == split(env.path, ";")
           Hit(path) == fsExists(env.files, path) /\ ~isDirectory(env.files, path)
           tried == {i \in DOMAIN entries :
                       entries[i] = <<>> \/ Hit(Candidate(entries[i], lib))}
           stops == {i \in DOMAIN env.dirs : Blank(env.dirs[i]) \/ HoldsFile(env, lib, i)}
           hits == {i \in DOMAIN env.dirs : HoldsFile(env, lib, i)}
           r == searchEnvironment(env, lib)
<1>1. env.dirs \in Seq(STRING) /\ DOMAIN entries = DOMAIN env.dirs
  BY UseAssumption, Zenon DEF IsEnvironment
<1>2. \A i \in DOMAIN env.dirs :
        /\ entries[i] = <<>> <=> Blank(env.dirs[i])
        /\ Blank(env.dirs[i]) => ~HoldsFile(env, lib, i)
        /\ ~Blank(env.dirs[i]) =>
             /\ Place(Candidate(entries[i], lib)) = <<env.dirs[i], lib>>
             /\ Candidate(entries[i], lib) # <<>>
             /\ HoldsFile(env, lib, i) <=> Hit(Candidate(entries[i], lib))
  BY EntryTried, Zenon
<1>3. r = IF tried = {} THEN Ok(<<>>)
          ELSE IF entries[Min(tried)] = <<>> THEN Undefined
          ELSE Ok(Candidate(entries[Min(tried)], lib))
  BY Zenon DEF searchEnvironment, FirstEntry
<1> HIDE DEF entries, Hit
<1>4. tried = stops
  BY <1>1, <1>2, Zenon
<1>5. LibraryPlace(env, lib) = IF hits = {} THEN <<lib>> ELSE <<env.dirs[Min(hits)], lib>>
  BY Zenon DEF LibraryPlace
<1>6. DOMAIN env.dirs \in SUBSET Nat
  BY <1>1, Indices
<1>7. stops \in SUBSET Nat /\ hits \in SUBSET stops
  BY <1>6
<1> HIDE DEF r, tried
<1>8. CASE stops = {}
  <2>1. r = Ok(<<>>) /\ hits = {}
    BY <1>3, <1>4, <1>7, <1>8
  <2> QED
    BY <1>5, <2>1, Zenon DEF Finds, r
<1>9. CASE stops # {}
  <2> DEFINE m == Min(stops)
  <2>1. m \in stops /\ \A n \in stops : m <= n
    BY <1>7, <1>9, Least
  <2>2. r = IF entries[m] = <<>> THEN Undefined ELSE Ok(Candidate(entries[m], lib))
    BY <1>3, <1>4, <1>9, Zenon
  <2> HIDE DEF m
  <2>3. m \in DOMAIN env.dirs /\ (Blank(env.dirs[m]) \/ HoldsFile(env, lib, m))
    BY <2>1, Zenon
  <2>4. CASE Blank(env.dirs[m])
    <3>1. r = Undefined
      BY <1>2, <2>2, <2>3, <2>4, Zenon
    <3>2. ASSUME NEW j \in 1..m - 1 PROVE ~HoldsFile(env, lib, j)
      <4>1. j \in DOMAIN env.dirs /\ j < m /\ j \in Nat /\ m \in Nat
        BY <1>1, <2>3
      <4>2. j \notin stops
        BY <2>1, <4>1
      <4> QED
        BY <4>1, <4>2, Zenon
    <3> QED
      BY <2>3, <2>4, <3>1, <3>2, Zenon DEF NoSearch, r
  <2>5. CASE ~Blank(env.dirs[m])
    <3>1. HoldsFile(env, lib, m) /\ m \in hits
      BY <2>3, <2>5, Zenon
    <3>2. Min(hits) = m
      <4>1. Min(hits) \in hits /\ \A n \in hits : Min(hits) <= n
        BY <1>7, <3>1, Least
      <4> HIDE DEF hits, stops
      <4>2. m <= Min(hits) /\ Min(hits) <= m /\ m \in Nat /\ Min(hits) \in Nat
        BY <1>7, <2>1, <3>1, <4>1
      <4> QED
        BY <4>2
    <3>3. LibraryPlace(env, lib) = <<env.dirs[m], lib>>
      BY <1>5, <3>1, <3>2, Zenon
    <3> DEFINE path == Candidate(entries[m], lib)
    <3>4. /\ r = Ok(path) /\ Place(path) = <<env.dirs[m], lib>> /\ path # <<>>
          /\ Hit(path)
      BY <1>2, <2>2, <2>3, <2>5, <3>1, Zenon
    <3> HIDE DEF path
    <3>5. Finds(path, env, lib)
      BY <3>3, <3>4, Zenon DEF Finds, Hit, fsExists
    <3> QED
      BY <3>4, <3>5, Zenon DEF r
  <2> QED
    BY <2>4, <2>5
<1> QED
  BY <1>8, <1>9

LEMMA TypesInRange ==
  ASSUME NEW dt \in 0..6
  PROVE  IF dt \in 1..5 THEN ~(dt <= 0) /\ ~(dt > 5) ELSE dt <= 0 \/ dt > 5
OBVIOUS

\* The library of the type asked for stands in its place.
Stands(dt, env) ==
  LET place == LibraryPlace(env, dllName(dt))
  IN /\ place \in DOMAIN env.files /\ env.files[place] \in DOMAIN TypeCreatedBy
     /\ dt \in 1..5 /\ TypeCreatedBy[env.files[place]] = dt

\* The session that newSession makes of what it finds.
LEMMA BackendMade ==
  ASSUME NEW env \in Environments, NEW dt \in 0..6
  PROVE  LET r == newSession(dt, env)
         IN \/ r = Undefined /\ NoSearch(env, dllName(dt))
            \/ r = IF Stands(dt, env) THEN Ok(<<dt>>) ELSE Throws
<1> DEFINE lib == dllName(dt)  type == DatabaseTypeToString(dt)
           search == searchEnvironment(env, lib)  name == CREATION_FUNCTIONS[type]
           r == newSession(dt, env)  place == LibraryPlace(env, lib)
           made == Stands(dt, env)
<1>1. CASE dt \notin 1..5
  <2>1. dt <= 0 \/ dt > 5
    BY <1>1, TypesInRange, Zenon
  <2>2. r = Throws
    BY <2>1, Zenon DEF newSession
  <2> QED
    BY <1>1, <2>2, Zenon DEF Stands
<1>2. CASE dt \in 1..5
  <2> DEFINE Load(found) ==
               IF found # <<>> THEN Create(env.files, found, name)
               ELSE IF fsExists(env.files, <<lib>>)
                 THEN Create(env.files, <<".", "\\", lib>>, name)
               ELSE Throws
  <2>1. ~(dt <= 0) /\ ~(dt > 5) /\ type \in DOMAIN CREATION_FUNCTIONS
    BY <1>2, TypesInRange, TypeOfName, Zenon
  <2>2. r = IF search.how = "ok" THEN Load(search.val) ELSE search
    BY <2>1, Zenon DEF newSession, Then
  <2>3. ASSUME NEW path, Place(path) = place, place \in DOMAIN env.files
        PROVE  Create(env.files, path, name) = IF made THEN Ok(<<dt>>) ELSE Throws
    <3>1. env.files[place] \in {"directory", "damaged"} \cup DOMAIN TypeCreatedBy
      BY <2>3, UseAssumption, Zenon DEF IsEnvironment
    <3>2. env.files[place] = name <=>
            env.files[place] \in DOMAIN TypeCreatedBy /\ TypeCreatedBy[env.files[place]] = dt
      BY <1>2, <2>3, <3>1, TypeOfName
    <3>3. Create(env.files, path, name) =
            IF env.files[place] = name THEN Ok(<<TypeCreatedBy[name]>>) ELSE Throws
      BY <2>3, Zenon DEF Create
    <3> QED
      BY <1>2, <2>3, <3>2, <3>3, Zenon DEF Stands
  <2>4. IsName(lib)
    BY LibraryName
  <2>5. Place(<<lib>>) = <<lib>> /\ Place(<<".", "\\", lib>>) = <<lib>>
    BY <2>4, Places, Zenon
  <2>6. ASSUME NEW found, Finds(found, env, lib)
        PROVE  Load(found) = IF made THEN Ok(<<dt>>) ELSE Throws
    <3>1. CASE found # <<>>
      BY <2>3, <2>6, <3>1, Zenon DEF Finds
    <3>2. CASE found = <<>> /\ place \in DOMAIN env.files
      <4>1. fsExists(env.files, <<lib>>) /\ place = <<lib>>
        BY <2>5, <2>6, <3>2, Zenon DEF fsExists, Finds
      <4> QED
        BY <2>3, <2>5, <3>2, <4>1, Zenon
    <3>3. CASE found = <<>> /\ place \notin DOMAIN env.files
      <4>1. ~fsExists(env.files, <<lib>>)
        BY <2>5, <2>6, <3>3, Zenon DEF fsExists, Finds
      <4> QED
        BY <3>3, <4>1, Zenon DEF Stands
    <3> QED
      BY <3>1, <3>2, <3>3, Zenon
  <2>7. CASE ~env.pathSet
    <3>1. search = Undefined
      BY <2>7, Zenon DEF searchEnvironment, FirstEntry
    <3>2. search.how # "ok"
      BY <3>1 DEF Undefined
    <3> QED
      BY <2>2, <2>7, <3>1, <3>2, Zenon DEF NoSearch
  <2>8. CASE env.pathSet
    <3>1. \/ search = Undefined /\ NoSearch(env, lib)
          \/ \E path : search = Ok(path) /\ Finds(path, env, lib)
      BY <2>4, <2>8, SearchPlace, Zenon
    <3>2. CASE search = Undefined /\ NoSearch(env, lib)
      <4>1. search.how # "ok"
        BY <3>2 DEF Undefined
      <4> QED
        BY <2>2, <3>2, <4>1, Zenon
    <3>3. ASSUME NEW path, search = Ok(path), Finds(path, env, lib)
          PROVE  r = IF made THEN Ok(<<dt>>) ELSE Throws
      <4>1. search.how = "ok" /\ search.val = path
        BY <3>3 DEF Ok
      <4> QED
        BY <2>2, <2>6, <3>3, <4>1, Zenon
    <3> QED
      BY <3>1, <3>2, <3>3, Zenon
  <2> QED
    BY <2>7, <2>8
<1> QED
  BY <1>1, <1>2

\* How newSession ends.
LEMMA NewType ==
  ASSUME NEW env \in Environments, NEW dt \in 0..6
  PROVE  newSession(dt, env) \in {Throws, Undefined} \cup {Ok(<<k>>) : k \in Kinds}
<1> DEFINE r == newSession(dt, env)
<1>1. \/ r = Undefined \/ r = Throws \/ (r = Ok(<<dt>>) /\ Stands(dt, env))
  BY BackendMade, Zenon
<1>2. \A f \in DOMAIN TypeCreatedBy : TypeCreatedBy[f] \in Kinds
  BY DEF TypeCreatedBy, Kinds
<1>3. Stands(dt, env) => dt \in Kinds
  BY <1>2, Zenon DEF Stands
<1> HIDE DEF r
<1> QED
  BY <1>1, <1>3 DEF r

LEMMA NewKeepsInv ==
  ASSUME Inv, NEW dt \in 0..6, NEW env \in Environments, New(dt, env)
  PROVE  Inv'
<1> DEFINE r == newSession(dt, env)
<1>1. /\ pc = "app" /\ kind = UNKNOWN /\ crashed' = (r.how = "undefined")
      /\ kind' = IF r.how = "ok" THEN r.val[1] ELSE UNKNOWN
      /\ call' = [op |-> "newSession", dt |-> dt, env |-> env, end |-> r.how]
      /\ isOpen' = isOpen /\ pc' = pc /\ mode' = mode /\ table' = table /\ stored' = stored
      /\ at' = at /\ col' = col /\ row' = row /\ results' = results
  BY Zenon DEF New, InApplication, queryVars, loopVars
<1>2. kind' \in {UNKNOWN} \cup Kinds
  <2>1. r \in {Throws, Undefined} \cup {Ok(<<k>>) : k \in Kinds}
    BY NewType
  <2> HIDE DEF r
  <2> QED
    BY <1>1, <2>1 DEF Ok, Throws, Undefined
<1> HIDE DEF r
<1>3. SessionInv'
  BY <1>1, <1>2 DEF Inv, SessionInv
<1>4. table = NoTable /\ results = <<>> /\ stored = Empty /\ row = EmptyRow
  BY <1>1 DEF Inv, TableInv, LoopInv, Decoders, UNKNOWN, SQLITE, MYSQL
<1>5. at = 1 /\ col = 1
  BY <1>4 DEF Inv, LoopInv, NoTable
<1>6. TableInv' /\ LoopInv' /\ ResultsInv'
  BY <1>1, <1>4, <1>5, NothingSelected
<1>7. CallInv'
  BY <1>1 DEF CallInv, NewInv, OpenInv, QueryInv, ReadInv, r
<1> QED
  BY <1>3, <1>6, <1>7 DEF Inv

\* The requests by the kind of session.
LEMMA OpenIs ==
  ASSUME NEW args, NEW exists
  PROVE  OpenEnd(args, exists) = OpenAs(kind, args, exists)
BY Zenon DEF OpenEnd, OpenAs, DefaultPort, PortOf

LEMMA OpenKeepsInv ==
  ASSUME Inv, NEW exists \in BOOLEAN,
         NEW args \in IF kind = SQLITE THEN SQLiteArguments ELSE ServerArguments,
         Open(args, exists)
  PROVE  Inv'
<1> DEFINE r == OpenAs(kind, args, exists)
<1>1. /\ ~crashed /\ pc = "app" /\ kind # UNKNOWN /\ isOpen' = (r.how = "ok")
      /\ call' = [op |-> "open", args |-> args, exists |-> exists, end |-> r.how, request |-> r.val]
      /\ crashed' = crashed /\ kind' = kind
      /\ pc' = pc /\ mode' = mode /\ table' = table /\ stored' = stored
      /\ at' = at /\ col' = col /\ row' = row /\ results' = results
  BY OpenIs, Zenon DEF Open, InApplication, queryVars, loopVars
<1>2. SessionInv'
  BY <1>1 DEF Inv, SessionInv
<1> HIDE DEF r
<1>3. TableInv'
  BY <1>1 DEF Inv, TableInv
<1>4. LoopInv'
  BY <1>1 DEF Inv, LoopInv
<1>5. ResultsInv'
  BY <1>1 DEF Inv, ResultsInv
<1>6. CallInv'
  BY <1>1 DEF Inv, SessionInv, CallInv, NewInv, OpenInv, QueryInv, ReadInv, r
<1> QED
  BY <1>2, <1>3, <1>4, <1>5, <1>6 DEF Inv

LEMMA ReleaseKeepsInv ==
  ASSUME Inv, Release
  PROVE  Inv'
<1>1. /\ ~crashed /\ pc = "app" /\ kind' = UNKNOWN /\ isOpen' = FALSE
      /\ mode' = "collect" /\ table' = NoTable /\ stored' = Empty
      /\ at' = 1 /\ col' = 1 /\ row' = EmptyRow /\ results' = <<>>
      /\ call' = [op |-> "release"] /\ crashed' = crashed /\ pc' = pc
  BY Zenon DEF Release, InApplication
<1>2. SessionInv'
  BY <1>1 DEF Inv, SessionInv, Modes
<1>3. TableInv' /\ LoopInv' /\ ResultsInv'
  BY <1>1, NothingSelected
<1>4. CallInv'
  BY <1>1 DEF CallInv, NewInv, OpenInv, QueryInv, ReadInv
<1> QED
  BY <1>2, <1>3, <1>4 DEF Inv

LEMMA AskEmptyKeepsInv ==
  ASSUME Inv, AskEmpty
  PROVE  Inv'
<1>1. /\ pc \in {"callback", "app"} /\ crashed' = TRUE /\ call' = [op |-> "empty"]
      /\ kind' = kind /\ isOpen' = isOpen
      /\ pc' = pc /\ mode' = mode /\ table' = table /\ stored' = stored
      /\ at' = at /\ col' = col /\ row' = row /\ results' = results
  BY Zenon DEF AskEmpty, InApplication, InCallback, queryVars, loopVars
<1>2. SessionInv'
  BY <1>1 DEF Inv, SessionInv
<1>3. TableInv'
  BY <1>1 DEF Inv, TableInv
<1>4. LoopInv'
  BY <1>1 DEF Inv, LoopInv
<1>5. ResultsInv'
  BY <1>1 DEF Inv, ResultsInv
<1>6. CallInv'
  BY <1>1 DEF CallInv, NewInv, OpenInv, QueryInv, ReadInv
<1> QED
  BY <1>2, <1>3, <1>4, <1>5, <1>6 DEF Inv

LEMMA ReadFromKeepsInv ==
  ASSUME Inv, NEW n \in 1..Len(table.rows), NEW header \in Headers, NEW T \in Targets,
         NEW live \in BOOLEAN, NEW r,
         ReadFrom(r, n, header, T, live), ~crashed,
         kind \in Decoders, Decodes(kind, table, n), r = RowOf(kind, table, n),
         IF live THEN pc = "callback" /\ r = row ELSE pc = "app" /\ r = results[n]
  PROVE  Inv'
<1> DEFINE end == ReadAs(RowGet(r, header), T, live)
<1>1. /\ crashed' = (end.how = "undefined")
      /\ call' = [op |-> "read", at |-> n, header |-> header, T |-> T, live |-> live,
                  end |-> end.how, val |-> end.val]
      /\ kind' = kind /\ isOpen' = isOpen
      /\ pc' = pc /\ mode' = mode /\ table' = table /\ stored' = stored
      /\ at' = at /\ col' = col /\ row' = row /\ results' = results
  BY Zenon DEF ReadFrom, queryVars, loopVars
<1> HIDE DEF end
<1>2. SessionInv'
  BY <1>1 DEF Inv, SessionInv
<1>3. TableInv'
  BY <1>1 DEF Inv, TableInv
<1>4. LoopInv'
  BY <1>1 DEF Inv, LoopInv
<1>5. ResultsInv'
  BY <1>1 DEF Inv, ResultsInv
<1>6. CallInv'
  <2>1. ReadInv'
    BY <1>1 DEF ReadInv, end
  <2> QED
    BY <1>1, <2>1 DEF CallInv, NewInv, OpenInv, QueryInv
<1> QED
  BY <1>2, <1>3, <1>4, <1>5, <1>6 DEF Inv

LEMMA ReadKeepsInv ==
  ASSUME Inv, NEW header \in Headers, NEW T \in Targets,
         \/ ReadInCallback(header, T)
         \/ \E n \in 1..Len(results) : ReadResults(n, header, T)
  PROVE  Inv'
<1>1. CASE ReadInCallback(header, T)
  <2>1. pc = "callback" /\ ~crashed /\ ReadFrom(row, at, header, T, TRUE)
    BY <1>1, Zenon DEF ReadInCallback, InCallback
  <2>2. kind \in Decoders /\ row = RowOf(kind, table, at) /\ Decodes(kind, table, at)
    BY <2>1 DEF Inv, SessionInv, LoopInv
  <2>3. at \in 1..Len(table.rows)
    BY <2>1 DEF Inv, LoopInv, TableInv, IsTableOf
  <2> QED
    BY <2>1, <2>2, <2>3, ReadFromKeepsInv
<1>2. ASSUME NEW n \in 1..Len(results), ReadResults(n, header, T)
      PROVE  Inv'
  <2>1. pc = "app" /\ ~crashed /\ ReadFrom(results[n], n, header, T, FALSE)
    BY <1>2, Zenon DEF ReadResults, InApplication
  <2>2. kind \in Decoders
    BY <1>2 DEF Inv, TableInv
  <2>3. results[n] = RowOf(kind, table, n) /\ Decodes(kind, table, n)
    BY <1>2 DEF Inv, ResultsInv
  <2>4. n \in 1..Len(table.rows)
    BY <1>2 DEF Inv, ResultsInv, TableInv, IsTableOf
  <2> QED
    BY <2>1, <2>2, <2>3, <2>4, ReadFromKeepsInv
<1> QED
  BY <1>1, <1>2

LEMMA AsFunction ==
  ASSUME NEW f \in Seq(Int)
  PROVE  f \in [1..Len(f) -> Int]
OBVIOUS

LEMMA SevenFields ==
  ASSUME NEW f \in Seq(Int), Len(f) = 7
  PROVE  f \in [1..7 -> Int]
BY AsFunction, Zenon

LEMMA DateTimeText ==
  ASSUME NEW dt \in [1..7 -> Int]
  PROVE  DateTimeToString(dt) \in Seq(Int)
<1> DEFINE D == DateToString(DateOf(dt))  T == TimeToString(TimeOf(dt))  sp == <<Space>>
           Z == IF ZoneOf(dt) = NoZone THEN <<>> ELSE <<Dash>> \o Number(ZoneOf(dt))
<1>1. D \in Seq(Int)
  BY DateAndTime, FieldsNotEmpty, Separate DEF DateToString
<1>2. T \in Seq(Int)
  BY DateAndTime, FieldsNotEmpty, Separate DEF TimeToString
<1>3. ZoneOf(dt) \in Int
  <2>1. dt[7] \in Int
    OBVIOUS
  <2> QED
    BY <2>1, DateAndTime
<1>4. sp \in Seq(Int) /\ <<Dash>> \in Seq(Int) /\ <<>> \in Seq(Int)
  BY Separate, One
<1>5. Number(ZoneOf(dt)) \in Seq(Int)
  BY <1>3, NumberType
<1>6. <<Dash>> \o Number(ZoneOf(dt)) \in Seq(Int)
  BY <1>4, <1>5, Concat
<1>7. Z \in Seq(Int)
  BY <1>4, <1>6
<1>8. DateTimeToString(dt) = ((D \o sp) \o T) \o Z
  BY Zenon DEF DateTimeToString
<1> HIDE DEF D, T, Z, sp
<1>9. D \o sp \in Seq(Int)
  BY <1>1, <1>4, Concat
<1>10. (D \o sp) \o T \in Seq(Int)
  BY <1>2, <1>9, Concat
<1>11. ((D \o sp) \o T) \o Z \in Seq(Int)
  BY <1>7, <1>10, Concat
<1> QED
  BY <1>8, <1>11, Zenon

\* What can be stored: fields that are ints.
LEMMA FieldsOfInts ==
  ASSUME NEW f \in Seq(RangeOf("int"))
  PROVE  f \in Seq(Int) /\ \A i \in DOMAIN f : f[i] \in RangeOf("int")
<1>1. RangeOf("int") \subseteq Int
  BY RangeType
<1> QED
  BY <1>1

\* The text of a value that was put into a statement.
LEMMA StoredText ==
  ASSUME NEW value \in TimeValues
  PROVE  ToText(value) \in Seq(Int)
<1>1. IsTimeValue(value)
  BY UseAssumption
<1> DEFINE f == value.val
<1>2. f \in Seq(Int) /\ (Len(f) = IF value.type = "DateTime" THEN 7 ELSE 3)
  BY <1>1, FieldsOfInts DEF IsTimeValue
<1>3. CASE value.type = "Date"
  <2>1. Len(f) >= 3
    BY <1>2, <1>3
  <2>2. Fields(f, Dash) \in Seq(Int)
    BY <1>2, <2>1, FieldsNotEmpty, Separate
  <2> QED
    BY <1>3, <2>2, Zenon DEF ToText, DateToString
<1>4. CASE value.type = "Time"
  <2>1. Len(f) >= 3
    BY <1>2, <1>4
  <2>2. Fields(f, Colon) \in Seq(Int)
    BY <1>2, <2>1, FieldsNotEmpty, Separate
  <2>3. ToText(value) = TimeToString(f)
    BY <1>4 DEF ToText
  <2> QED
    BY <2>2, <2>3, Zenon DEF TimeToString
<1>5. CASE value.type = "DateTime"
  <2>1. f \in [1..7 -> Int]
    BY <1>2, <1>5, SevenFields
  <2>2. DateTimeToString(f) \in Seq(Int)
    BY <2>1, DateTimeText
  <2>3. ToText(value) = DateTimeToString(f)
    BY <1>5 DEF ToText
  <2> QED
    BY <2>2, <2>3
<1> QED
  BY <1>1, <1>3, <1>4, <1>5 DEF IsTimeValue, TimeTypesOfAny

LEMMA NoColumnsYet ==
  ASSUME NEW k, NEW t, NEW n
  PROVE  RowUpTo(k, t, n, 1) = EmptyRow /\ DecodesUpTo(k, t, n, 1)
<1>1. 1..1 - 1 = {} /\ {t.names[i] : i \in 1..1 - 1} = {}
  OBVIOUS
<1> QED
  BY <1>1 DEF RowUpTo, EmptyRow, DecodesUpTo

LEMMA StartKeepsInv ==
  ASSUME Inv, NEW m \in Modes, NEW t, NEW value, StartQuery(m, t, value),
         IsTableOf(kind, t),
         \/ value = Empty
         \/ /\ value \in TimeValues
            /\ \E header \in Headers : t = StoredTable(kind, header, value)
  PROVE  Inv'
<1>1. /\ ~crashed /\ pc = "app" /\ isOpen /\ kind \in Decoders
      /\ pc' = "columns" /\ mode' = m /\ table' = t /\ stored' = value
      /\ at' = 1 /\ col' = 1 /\ row' = EmptyRow /\ results' = <<>>
      /\ call' = [op |-> "query", end |-> "running", all |-> FALSE]
      /\ crashed' = crashed /\ kind' = kind /\ isOpen' = isOpen
  BY Zenon DEF StartQuery, InApplication, Decoders
<1>2. SessionInv'
  BY <1>1 DEF Inv, SessionInv
<1>3. TableInv'
  BY <1>1 DEF Inv, TableInv
<1>4. LoopInv'
  <2>1. Len(t.rows) \in Nat /\ Len(t.names) \in Nat
    BY DEF IsTableOf
  <2> QED
    BY <1>1, <2>1, NoColumnsYet DEF LoopInv
<1>5. ResultsInv'
  <2>1. Len(t.rows) \in Nat
    BY DEF IsTableOf
  <2> QED
    BY <1>1, <2>1 DEF ResultsInv
<1>6. CallInv'
  BY <1>1 DEF CallInv, NewInv, OpenInv, QueryInv, ReadInv
<1> QED
  BY <1>2, <1>3, <1>4, <1>5, <1>6 DEF Inv

LEMMA QueryKeepsInv ==
  ASSUME Inv, NEW m \in Modes,
         NEW t \in IF kind = SQLITE THEN SQLiteTables ELSE MySQLTables, Query(m, t)
  PROVE  Inv'
<1>1. IsTableOf(kind, t)
  <2>1. CASE kind = SQLITE
    <3>1. IsTable(t, IsSQLiteCell)
      BY <2>1, UseAssumption
    <3> QED
      BY <2>1, <3>1 DEF IsTable, IsTableOf, IsCellOf
  <2>2. CASE kind # SQLITE
    <3>1. IsTable(t, IsMySQLCell)
      BY <2>2, UseAssumption
    <3> QED
      BY <2>2, <3>1 DEF IsTable, IsTableOf, IsCellOf
  <2> QED
    BY <2>1, <2>2
<1> QED
  BY <1>1, StartKeepsInv DEF Query

\* A cell of text.
LEMMA TextCell ==
  ASSUME NEW k, NEW text \in Seq(Int)
  PROVE  IsCellOf(k, Cell(TextColumn(k), text))
<1> DEFINE cell == Cell(TextColumn(k), text)
<1>1. CASE k = SQLITE
  <2>1. cell.type = "SQLITE_TEXT" /\ cell.text = text
    BY <1>1 DEF Cell, TextColumn
  <2>2. IsSQLiteCell(cell)
    BY <2>1 DEF IsSQLiteCell, SQLiteTypes
  <2> QED
    BY <1>1, <2>2 DEF IsCellOf
<1>2. CASE k # SQLITE
  <2>1. cell.type = "MYSQL_TYPE_VAR_STRING" /\ cell.text = text /\ cell.null = FALSE
    BY <1>2 DEF Cell, TextColumn
  <2>2. "MYSQL_TYPE_VAR_STRING" \notin DOMAIN IntegerColumns
    BY DEF IntegerColumns
  <2>3. IsMySQLCell(cell)
    BY <2>1, <2>2 DEF IsMySQLCell
  <2> QED
    BY <1>2, <2>3 DEF IsCellOf
<1> QED
  BY <1>1, <1>2

LEMMA OneCellTable ==
  ASSUME NEW k, NEW header \in Headers, NEW cell, IsCellOf(k, cell)
  PROVE  IsTableOf(k, [names |-> <<header>>, rows |-> <<<<cell>>>>])
<1> DEFINE t == [names |-> <<header>>, rows |-> <<<<cell>>>>]
<1>1. t.names \in Seq(Headers) /\ DOMAIN t.names = {1} /\ DOMAIN t.rows = {1}
  OBVIOUS
<1>2. Len(t.rows) = 1 /\ 1..1 = {1} /\ t.rows[1][1] = cell
  OBVIOUS
<1> HIDE DEF t
<1>3. IsTableOf(k, t)
  BY <1>1, <1>2 DEF IsTableOf
<1> QED
  BY <1>3 DEF t

LEMMA QueryStoredKeepsInv ==
  ASSUME Inv, NEW m \in Modes, NEW header \in Headers, NEW value \in TimeValues,
         QueryStored(m, header, value)
  PROVE  Inv'
<1> DEFINE t == StoredTable(kind, header, value)
<1>1. StartQuery(m, t, value)
  BY Zenon DEF QueryStored, StoredTable, TextColumn
<1>2. IsTableOf(kind, t)
  BY StoredText, TextCell, OneCellTable DEF StoredTable
<1> HIDE DEF t
<1> QED
  BY <1>1, <1>2, StartKeepsInv DEF t

LEMMA DecodeIs ==
  ASSUME NEW cell
  PROVE  Decode(cell) = DecodeAs(kind, cell)
BY DEF Decode, DecodeAs

\* The first column of a name.
LEMMA FirstIs ==
  ASSUME NEW t, t.names \in Seq(Headers), NEW c \in DOMAIN t.names
  PROVE  /\ FirstOf(t, t.names[c]) \in DOMAIN t.names
         /\ t.names[FirstOf(t, t.names[c])] = t.names[c]
         /\ FirstOf(t, t.names[c]) <= c
<1> DEFINE names == t.names  S == {d \in DOMAIN names : names[d] = names[c]}
<1>1. DOMAIN names \in SUBSET Nat
  BY Indices
<1>2. S \in SUBSET Nat /\ c \in S
  BY <1>1
<1>3. Min(S) \in S /\ \A n \in S : Min(S) <= n
  BY <1>2, Least
<1>4. FirstOf(t, names[c]) = Min(S)
  BY DEF FirstOf
<1> QED
  BY <1>2, <1>3, <1>4

\* The Row after one more column.
LEMMA RowGrows ==
  ASSUME NEW k, NEW t, IsTableOf(k, t), NEW n, NEW c \in 1..Len(t.names)
  PROVE  RowUpTo(k, t, n, c + 1) =
           emplace(RowUpTo(k, t, n, c), t.names[c], DecodeAs(k, t.rows[n][c]).val)
<1> DEFINE names == t.names  h == names[c]  S(d) == {names[i] : i \in 1..d - 1}
           V(g) == DecodeAs(k, CellOf(t, n, g)).val
           old == RowUpTo(k, t, n, c)  new == RowUpTo(k, t, n, c + 1)
           a == DecodeAs(k, t.rows[n][c]).val
<1>1. names \in Seq(Headers) /\ Len(names) \in Nat /\ DOMAIN names = 1..Len(names)
  BY DEF IsTableOf
<1>2. S(c + 1) = S(c) \cup {h}
  <2>1. 1..(c + 1) - 1 = (1..c - 1) \cup {c}
    BY <1>1
  <2> HIDE DEF names
  <2> QED
    BY <2>1
<1>3. old = [g \in S(c) |-> V(g)] /\ new = [g \in S(c + 1) |-> V(g)]
  BY Zenon DEF RowUpTo
<1>4. ASSUME h \notin S(c) PROVE V(h) = a
  <2> DEFINE f == FirstOf(t, h)
  <2>1. f \in DOMAIN names /\ names[f] = h /\ f <= c
    BY <1>1, FirstIs
  <2> HIDE DEF f
  <2>2. f \notin 1..c - 1
    BY <1>4, <2>1
  <2>3. f = c
    BY <1>1, <2>1, <2>2
  <2> QED
    BY <2>3, Zenon DEF CellOf, f
<1> HIDE DEF S, V, h, a, names
<1>5. emplace(old, h, a) = [g \in S(c) \cup {h} |-> IF g \in S(c) THEN V(g) ELSE a]
  BY <1>3 DEF emplace
<1>6. \A g \in S(c) \cup {h} : V(g) = IF g \in S(c) THEN V(g) ELSE a
  BY <1>4
<1>7. new = emplace(old, h, a)
  BY <1>2, <1>3, <1>5, <1>6
<1> QED
  BY <1>7, Zenon DEF h, a, names, old, new

LEMMA RowWhole ==
  ASSUME NEW k, NEW t, IsTableOf(k, t), NEW n
  PROVE  RowUpTo(k, t, n, Len(t.names) + 1) = RowOf(k, t, n)
<1> DEFINE names == t.names
<1>1. names \in Seq(Headers) /\ Len(names) \in Nat /\ DOMAIN names = 1..Len(names)
  BY DEF IsTableOf
<1>2. 1..(Len(names) + 1) - 1 = DOMAIN names
  BY <1>1
<1>3. ToSet(names) = {names[i] : i \in 1..(Len(names) + 1) - 1}
  BY <1>2 DEF ToSet
<1> QED
  BY <1>3, Zenon DEF RowUpTo, RowOf

\* A query that is over leaves nothing of its loop, and its rows if it ended well.
LEMMA ReturnKeepsInv ==
  ASSUME Inv, NEW end, NEW all \in BOOLEAN, Return(end, all), pc # "app", ~crashed,
         UNCHANGED <<kind, isOpen, queryVars, at, col>>,
         crashed' = (end = "undefined"),
         crashed' => /\ at <= Len(table.rows) /\ col <= Len(table.names)
                     /\ DecodeAs(kind, table.rows[at][col]).how = "undefined",
         all /\ mode = "collect" => Len(results) = Len(table.rows)
  PROVE  Inv'
<1>1. /\ pc' = "app" /\ row' = EmptyRow
      /\ results' = (IF end = "ok" THEN results ELSE <<>>)
      /\ call' = [op |-> "query", end |-> end, all |-> all]
      /\ kind' = kind /\ isOpen' = isOpen /\ mode' = mode /\ table' = table
      /\ stored' = stored /\ at' = at /\ col' = col
  BY Zenon DEF Return, queryVars
<1>2. SessionInv'
  BY <1>1 DEF Inv, SessionInv
<1>3. TableInv' /\ kind \in Decoders
  BY <1>1 DEF Inv, TableInv, SessionInv
<1>4. LoopInv'
  BY <1>1 DEF Inv, LoopInv
<1>5. ResultsInv'
  <2>1. CASE end = "ok"
    BY <1>1, <2>1 DEF Inv, ResultsInv
  <2>2. CASE end # "ok"
    <3>1. results' = <<>> /\ Len(table.rows) \in Nat
      BY <1>1, <2>2 DEF Inv, TableInv, IsTableOf
    <3> QED
      BY <1>1, <2>2, <3>1 DEF ResultsInv
  <2> QED
    BY <2>1, <2>2
<1>6. CallInv'
  BY <1>1, <1>3 DEF CallInv, NewInv, OpenInv, QueryInv, ReadInv
<1> QED
  BY <1>2, <1>3, <1>4, <1>5, <1>6 DEF Inv

\* What the loop over the columns starts from.
LEMMA InTheLoop ==
  ASSUME Inv, InLoop
  PROVE  /\ pc = "columns" /\ ~crashed /\ kind \in Decoders /\ IsTableOf(kind, table)
         /\ Len(table.rows) \in Nat /\ Len(table.names) \in Nat
         /\ at \in 1..Len(table.rows) + 1 /\ col \in 1..Len(table.names) + 1
         /\ at <= Len(table.rows) => /\ row = RowUpTo(kind, table, at, col)
                                     /\ DecodesUpTo(kind, table, at, col)
         /\ call.op = "query" /\ call.end = "running" /\ crashed \in BOOLEAN
         /\ mode \in Modes /\ (mode = "collect" => Len(results) = at - 1)
BY DEF InLoop, Inv, SessionInv, TableInv, IsTableOf, LoopInv, ResultsInv

LEMMA DecodeKeepsInv ==
  ASSUME Inv, DecodeColumn
  PROVE  Inv'
<1> DEFINE r == DecodeAs(kind, table.rows[at][col])  header == table.names[col]
<1>1. /\ InLoop /\ at <= Len(table.rows) /\ col <= Len(table.names)
      /\ crashed' = (r.how = "undefined") /\ UNCHANGED <<kind, isOpen, queryVars, at>>
      /\ \/ /\ r.how = "ok" /\ row' = emplace(row, header, r.val) /\ col' = col + 1
            /\ UNCHANGED <<pc, results, call>>
         \/ r.how # "ok" /\ Return(r.how, FALSE) /\ UNCHANGED col
  BY DecodeIs, Zenon DEF DecodeColumn
<1>2. /\ pc = "columns" /\ ~crashed /\ kind \in Decoders /\ IsTableOf(kind, table)
      /\ Len(table.rows) \in Nat /\ Len(table.names) \in Nat
      /\ at \in 1..Len(table.rows) + 1 /\ col \in 1..Len(table.names)
      /\ row = RowUpTo(kind, table, at, col) /\ DecodesUpTo(kind, table, at, col)
      /\ call.op = "query" /\ call.end = "running"
  BY <1>1, InTheLoop
<1>3. CASE r.how # "ok"
  <2>1. Return(r.how, FALSE) /\ UNCHANGED col
    BY <1>1, <1>3
  <2> QED
    BY <1>1, <1>2, <2>1, ReturnKeepsInv
<1>4. CASE r.how = "ok"
  <2>1. /\ row' = emplace(row, header, r.val) /\ col' = col + 1
        /\ pc' = pc /\ results' = results /\ call' = call /\ crashed' = FALSE
        /\ kind' = kind /\ isOpen' = isOpen /\ mode' = mode /\ table' = table
        /\ stored' = stored /\ at' = at
    BY <1>1, <1>4, Zenon DEF queryVars
  <2>2. SessionInv'
    BY <2>1 DEF Inv, SessionInv
  <2>3. TableInv'
    BY <2>1 DEF Inv, TableInv
  <2>4. LoopInv'
    <3>1. row' = RowUpTo(kind, table, at, col + 1)
      BY <1>2, <2>1, RowGrows
    <3>2. DecodesUpTo(kind, table, at, col + 1)
      BY <1>2, <1>4 DEF DecodesUpTo
    <3>3. col + 1 \in 1..Len(table.names) + 1
      BY <1>2
    <3>4. ~(at > Len(table.rows))
      BY <1>1, <1>2
    <3> HIDE DEF r, header
    <3> QED
      BY <1>2, <2>1, <3>1, <3>2, <3>3, <3>4 DEF LoopInv
  <2>5. ResultsInv'
    BY <2>1 DEF Inv, ResultsInv
  <2>6. CallInv'
    BY <1>2, <2>1 DEF Inv, CallInv, NewInv, OpenInv, QueryInv, ReadInv
  <2> QED
    BY <2>2, <2>3, <2>4, <2>5, <2>6 DEF Inv
<1> QED
  BY <1>3, <1>4

\* The row that is ready.
LEMMA RowReady ==
  ASSUME Inv, RowDone
  PROVE  /\ row = RowOf(kind, table, at) /\ Decodes(kind, table, at)
         /\ at \in 1..Len(table.rows)
<1>1. InLoop /\ at <= Len(table.rows) /\ col > Len(table.names)
  BY DEF RowDone
<1>2. col = Len(table.names) + 1
  BY <1>1, InTheLoop
<1> QED
  BY <1>1, <1>2, InTheLoop, RowWhole DEF Decodes

LEMMA EnterKeepsInv ==
  ASSUME Inv, EnterCallback
  PROVE  Inv'
<1>1. /\ RowDone /\ mode = "callback" /\ pc' = "callback"
      /\ crashed' = crashed /\ kind' = kind /\ isOpen' = isOpen /\ mode' = mode
      /\ table' = table /\ stored' = stored /\ at' = at /\ col' = col /\ row' = row
      /\ results' = results /\ call' = call
  BY Zenon DEF EnterCallback, queryVars, loopVars
<1>2. InLoop /\ at <= Len(table.rows)
  BY <1>1 DEF RowDone
<1>3. SessionInv'
  BY <1>1, <1>2, InTheLoop DEF Inv, SessionInv
<1>4. TableInv'
  BY <1>1 DEF Inv, TableInv
<1>5. LoopInv'
  BY <1>1, <1>2, InTheLoop, RowReady DEF LoopInv
<1>6. ResultsInv'
  BY <1>1 DEF Inv, ResultsInv
<1>7. CallInv'
  BY <1>1, <1>2, InTheLoop DEF Inv, CallInv, NewInv, OpenInv, QueryInv, ReadInv
<1> QED
  BY <1>3, <1>4, <1>5, <1>6, <1>7 DEF Inv

\* The loop at the next row.
LEMMA NextRow ==
  ASSUME IsTableOf(kind, table), at \in 1..Len(table.rows), at' = at + 1, col' = 1,
         row' = EmptyRow, pc' = "columns", call'.op = "query", call'.end = "running",
         UNCHANGED <<kind, table>>
  PROVE  LoopInv'
<1>1. Len(table.rows) \in Nat /\ Len(table.names) \in Nat
  BY DEF IsTableOf
<1> QED
  BY <1>1, NoColumnsYet DEF LoopInv

LEMMA CollectKeepsInv ==
  ASSUME Inv, Collect
  PROVE  Inv'
<1>1. /\ RowDone /\ mode = "collect" /\ results' = Append(results, row)
      /\ at' = at + 1 /\ col' = 1 /\ row' = EmptyRow
      /\ crashed' = crashed /\ kind' = kind /\ isOpen' = isOpen /\ mode' = mode
      /\ table' = table /\ stored' = stored /\ pc' = pc /\ call' = call
  BY Zenon DEF Collect, queryVars
<1>2. InLoop /\ at <= Len(table.rows)
  BY <1>1 DEF RowDone
<1>3. SessionInv'
  BY <1>1 DEF Inv, SessionInv
<1>4. TableInv'
  BY <1>1, <1>2, InTheLoop DEF Inv, TableInv
<1>5. LoopInv'
  BY <1>1, <1>2, InTheLoop, RowReady, NextRow
<1>6. ResultsInv'
  <2> DEFINE R == {RowOf(kind, table, n) : n \in 1..Len(table.rows)}
  <2>1. /\ results \in Seq(R) /\ Len(results) = at - 1
        /\ \A n \in 1..Len(results) : results[n] = RowOf(kind, table, n) /\ Decodes(kind, table, n)
    BY <1>1, <1>2, InTheLoop DEF Inv, ResultsInv
  <2>2. row \in R /\ row = RowOf(kind, table, at) /\ Decodes(kind, table, at)
    BY <1>1, RowReady
  <2> HIDE DEF R
  <2>3. results' \in Seq(R) /\ Len(results') = at
    BY <1>1, <1>2, <2>1, <2>2, InTheLoop
  <2>4. \A n \in 1..Len(results') : results'[n] = RowOf(kind, table, n) /\ Decodes(kind, table, n)
    BY <1>1, <1>2, <2>1, <2>2, <2>3, InTheLoop
  <2>5. at' - 1 = at /\ Len(results') <= Len(table.rows)
    BY <1>1, <1>2, <2>3, InTheLoop
  <2>6. call'.op = "query" /\ call'.end = "running"
    BY <1>1, <1>2, InTheLoop
  <2> QED
    BY <1>1, <2>3, <2>4, <2>5, <2>6 DEF ResultsInv, R
<1>7. CallInv'
  BY <1>1, <1>2, InTheLoop DEF Inv, CallInv, NewInv, OpenInv, QueryInv, ReadInv
<1> QED
  BY <1>3, <1>4, <1>5, <1>6, <1>7 DEF Inv

LEMMA LeaveKeepsInv ==
  ASSUME Inv, NEW goOn \in BOOLEAN, LeaveCallback(goOn)
  PROVE  Inv'
<1>1. /\ pc = "callback" /\ ~crashed /\ UNCHANGED <<crashed, kind, isOpen, queryVars>>
      /\ \/ /\ goOn /\ pc' = "columns" /\ at' = at + 1 /\ col' = 1 /\ row' = EmptyRow
            /\ call' = [op |-> "query", end |-> "running", all |-> FALSE]
            /\ UNCHANGED results
         \/ ~goOn /\ Return("ok", FALSE) /\ UNCHANGED <<at, col>>
  BY Zenon DEF LeaveCallback, InCallback
<1>2. /\ mode = "callback" /\ at <= Len(table.rows) /\ IsTableOf(kind, table)
      /\ at \in 1..Len(table.rows) + 1 /\ Len(table.rows) \in Nat /\ results = <<>>
      /\ kind \in Decoders
  BY <1>1 DEF Inv, SessionInv, LoopInv, TableInv, ResultsInv, IsTableOf
<1>3. CASE goOn
  <2>1. /\ pc' = "columns" /\ at' = at + 1 /\ col' = 1 /\ row' = EmptyRow
        /\ call' = [op |-> "query", end |-> "running", all |-> FALSE]
        /\ results' = results /\ crashed' = crashed /\ kind' = kind /\ isOpen' = isOpen
        /\ mode' = mode /\ table' = table /\ stored' = stored
    BY <1>1, <1>3, Zenon DEF queryVars
  <2>2. SessionInv'
    BY <1>1, <2>1 DEF Inv, SessionInv
  <2>3. TableInv'
    BY <2>1 DEF Inv, TableInv
  <2>4. LoopInv'
    <3>1. at \in 1..Len(table.rows)
      BY <1>2
    <3> QED
      BY <1>2, <2>1, <3>1, NextRow
  <2>5. ResultsInv'
    BY <1>2, <2>1 DEF Inv, ResultsInv
  <2>6. CallInv'
    BY <1>1, <1>2, <2>1 DEF CallInv, NewInv, OpenInv, QueryInv, ReadInv
  <2> QED
    BY <2>2, <2>3, <2>4, <2>5, <2>6 DEF Inv
<1>4. CASE ~goOn
  <2>1. Return("ok", FALSE) /\ UNCHANGED <<at, col>>
    BY <1>1, <1>4
  <2>2. UNCHANGED <<kind, isOpen, queryVars, at, col>>
    BY <1>1, <2>1
  <2>3. crashed' = FALSE /\ pc # "app" /\ mode # "collect"
    BY <1>1, <1>2 DEF Inv, SessionInv
  <2> QED
    BY <1>1, <2>1, <2>2, <2>3, ReturnKeepsInv
<1> QED
  BY <1>3, <1>4

LEMMA EndKeepsInv ==
  ASSUME Inv, RowsEnd
  PROVE  Inv'
<1>1. /\ InLoop /\ Return("ok", at > Len(table.rows))
      /\ UNCHANGED <<crashed, kind, isOpen, queryVars, at, col>>
  BY Zenon DEF RowsEnd
<1>2. mode = "collect" /\ at > Len(table.rows) => Len(results) = Len(table.rows)
  BY <1>1, InTheLoop
<1>3. (at > Len(table.rows)) \in BOOLEAN
  OBVIOUS
<1> QED
  BY <1>1, <1>2, <1>3, InTheLoop, ReturnKeepsInv

LEMMA NextKeepsInv ==
  ASSUME Inv, Next
  PROVE  Inv'
<1>1. ASSUME NEW dt \in 0..6, NEW env \in Environments, New(dt, env)
      PROVE  Inv'
  BY <1>1, NewKeepsInv
<1>2. ASSUME NEW exists \in BOOLEAN,
             NEW args \in IF kind = SQLITE THEN SQLiteArguments ELSE ServerArguments,
             Open(args, exists)
      PROVE  Inv'
  BY <1>2, OpenKeepsInv
<1>3. CASE Release
  BY <1>3, ReleaseKeepsInv
<1>4. ASSUME NEW m \in Modes,
             NEW t \in IF kind = SQLITE THEN SQLiteTables ELSE MySQLTables, Query(m, t)
      PROVE  Inv'
  BY <1>4, QueryKeepsInv
<1>5. ASSUME NEW m \in Modes, NEW header \in Headers, NEW v \in TimeValues,
             QueryStored(m, header, v)
      PROVE  Inv'
  BY <1>5, QueryStoredKeepsInv
<1>6. CASE DecodeColumn
  BY <1>6, DecodeKeepsInv
<1>7. CASE Collect
  BY <1>7, CollectKeepsInv
<1>8. CASE EnterCallback
  BY <1>8, EnterKeepsInv
<1>9. CASE RowsEnd
  BY <1>9, EndKeepsInv
<1>10. ASSUME NEW goOn \in BOOLEAN, LeaveCallback(goOn) PROVE Inv'
  BY <1>10, LeaveKeepsInv
<1>11. ASSUME NEW header \in Headers, NEW T \in Targets,
              \/ ReadInCallback(header, T)
              \/ \E n \in 1..Len(results) : ReadResults(n, header, T)
       PROVE  Inv'
  BY <1>11, ReadKeepsInv
<1>12. CASE AskEmpty
  BY <1>12, AskEmptyKeepsInv
<1> QED
  BY <1>1, <1>2, <1>3, <1>4, <1>5, <1>6, <1>7, <1>8, <1>9, <1>10, <1>11, <1>12, Zenon DEF Next

\* The invariant that everything below rests on: where the loops are in the table, what
\* the row and the Results hold of it, and what the last call was given and returned.
THEOREM InvAlways == Spec => []Inv
<1>1. Init => Inv
  BY InitInv
<1>2. Inv /\ [Next]_vars => Inv'
  BY NextKeepsInv, StutterInv
<1> QED
  BY <1>1, <1>2, PTL DEF Spec

------------------------------------------------------------------------------
(* What the invariant says of a state.                                     *)

\* A cell of a table becomes an Any.
LEMMA CellDecoded ==
  ASSUME NEW k, NEW cell, IsCellOf(k, cell), DecodeAs(k, cell).how = "ok"
  PROVE  IsAny(DecodeAs(k, cell).val)
<1>1. CASE k = SQLITE
  BY <1>1, SQLiteDecoded DEF IsCellOf, DecodeAs
<1>2. CASE k # SQLITE
  <2>1. Decoding(cell, MySQLDecode(cell)) /\ DecodeAs(k, cell) = MySQLDecode(cell)
    BY <1>2, MySQLDecoded DEF IsCellOf, DecodeAs
  <2> QED
    BY <2>1 DEF Decoding, EndsAs, Throws, Undefined
<1> QED
  BY <1>1, <1>2

\* The cell of a header that is there.
LEMMA CellThere ==
  ASSUME NEW k, NEW t, IsTableOf(k, t), NEW n \in 1..Len(t.rows), NEW h \in ToSet(t.names),
         DecodesUpTo(k, t, n, Len(t.names) + 1)
  PROVE  /\ IsCellOf(k, CellOf(t, n, h)) /\ DecodeAs(k, CellOf(t, n, h)).how = "ok"
         /\ h \in Headers /\ FirstOf(t, h) \in DOMAIN t.names /\ n \in DOMAIN t.rows
         /\ RowOf(k, t, n)[h] = DecodeAs(k, CellOf(t, n, h)).val
<1>1. /\ t.names \in Seq(Headers) /\ DOMAIN t.rows = 1..Len(t.rows) /\ Len(t.names) \in Nat
  BY DEF IsTableOf
<1>2. PICK c \in DOMAIN t.names : t.names[c] = h
  BY DEF ToSet
<1>3. FirstOf(t, h) \in DOMAIN t.names /\ h \in Headers
  BY <1>1, <1>2, FirstIs
<1>4. IsCellOf(k, t.rows[n][FirstOf(t, h)])
  BY <1>1, <1>3 DEF IsTableOf
<1>5. FirstOf(t, h) \in 1..(Len(t.names) + 1) - 1
  BY <1>1, <1>3
<1>6. DecodeAs(k, t.rows[n][FirstOf(t, h)]).how = "ok"
  BY <1>5 DEF DecodesUpTo
<1>7. RowOf(k, t, n)[h] = DecodeAs(k, CellOf(t, n, h)).val
  BY Zenon DEF RowOf
<1> QED
  BY <1>1, <1>3, <1>4, <1>6, <1>7 DEF CellOf

LEMMA RowIsRow ==
  ASSUME NEW k, NEW t, IsTableOf(k, t), NEW n \in 1..Len(t.rows),
         NEW c \in 1..Len(t.names) + 1, DecodesUpTo(k, t, n, c)
  PROVE  IsRow(RowUpTo(k, t, n, c))
<1> DEFINE names == t.names  r == RowUpTo(k, t, n, c)
<1>1. /\ names \in Seq(Headers) /\ Len(names) \in Nat /\ DOMAIN names = 1..Len(names)
      /\ DOMAIN t.rows = 1..Len(t.rows)
  BY DEF IsTableOf
<1>2. DOMAIN r = {names[i] : i \in 1..c - 1}
  BY DEF RowUpTo
<1>3. ASSUME NEW h \in DOMAIN r
      PROVE  h \in Headers /\ IsAny(r[h])
  <2>1. PICK i \in 1..c - 1 : names[i] = h
    BY <1>2
  <2>2. i \in DOMAIN names
    BY <1>1
  <2> DEFINE f == FirstOf(t, h)
  <2>3. f \in DOMAIN names /\ f <= i
    BY <1>1, <2>1, <2>2, FirstIs
  <2>4. IsCellOf(k, t.rows[n][f])
    BY <1>1, <2>3 DEF IsTableOf
  <2>5. f \in 1..c - 1
    <3> HIDE DEF f
    <3> QED
      BY <1>1, <2>2, <2>3
  <2>6. DecodeAs(k, t.rows[n][f]).how = "ok"
    BY <2>5 DEF DecodesUpTo
  <2>7. r[h] = DecodeAs(k, t.rows[n][f]).val
    BY <1>3, <1>2, Zenon DEF RowUpTo, CellOf
  <2>8. IsAny(r[h])
    BY <2>4, <2>6, <2>7, CellDecoded
  <2> QED
    BY <1>1, <2>1, <2>2, <2>8
<1> QED
  BY <1>3 DEF IsRow

LEMMA WholeIsRow ==
  ASSUME NEW k, NEW t, IsTableOf(k, t), NEW n \in 1..Len(t.rows), Decodes(k, t, n)
  PROVE  IsRow(RowOf(k, t, n))
<1>1. Len(t.names) + 1 \in 1..Len(t.names) + 1
  BY DEF IsTableOf
<1> QED
  BY <1>1, RowWhole, RowIsRow DEF Decodes

LEMMA StoredIsAnyToo ==
  ASSUME NEW value \in TimeValues
  PROVE  IsAny(value)
<1>1. value.type \in TimeTypesOfAny /\ value.val \in Seq(Int)
  BY UseAssumption, FieldsOfInts DEF IsTimeValue
<1>2. value.type \in StoredTypes /\ value.type \notin Signed \cup Unsigned
  BY <1>1, OtherTypes DEF TimeTypesOfAny
<1> QED
  BY <1>1, <1>2 DEF IsAny

\* Every Row that the application can get at holds values of Any, whose integers are in
\* the range of their types, under names of columns; a query runs only on a session.
THEOREM TypeCorrect == Spec => []TypeOK
<1>1. ASSUME Inv PROVE TypeOK
  <2>1. IsTableOf(kind, table) /\ Len(table.rows) \in Nat /\ Len(table.names) \in Nat
    BY <1>1 DEF Inv, TableInv, IsTableOf
  <2>2. at \in 1..Len(table.rows) + 1 /\ col \in 1..Len(table.names) + 1
    BY <1>1 DEF Inv, LoopInv
  <2>3. IsRow(EmptyRow)
    BY DEF IsRow, EmptyRow
  <2>4. IsRow(row)
    <3>1. CASE pc = "columns" /\ at <= Len(table.rows)
      <4>1. row = RowUpTo(kind, table, at, col) /\ DecodesUpTo(kind, table, at, col)
        BY <1>1, <2>1, <2>2, <3>1 DEF Inv, LoopInv
      <4> QED
        BY <2>1, <2>2, <3>1, <4>1, RowIsRow
    <3>2. CASE pc = "columns" /\ ~(at <= Len(table.rows))
      BY <1>1, <2>1, <2>2, <2>3, <3>2 DEF Inv, LoopInv
    <3>3. CASE pc = "app"
      BY <1>1, <2>3, <3>3 DEF Inv, LoopInv
    <3>4. CASE pc = "callback"
      <4>1. row = RowOf(kind, table, at) /\ Decodes(kind, table, at) /\ at \in 1..Len(table.rows)
        BY <1>1, <2>1, <2>2, <3>4 DEF Inv, LoopInv
      <4> QED
        BY <2>1, <4>1, WholeIsRow
    <3> QED
      BY <1>1, <3>1, <3>2, <3>3, <3>4 DEF Inv, SessionInv
  <2>5. \A n \in DOMAIN results : IsRow(results[n])
    <3> TAKE n \in DOMAIN results
    <3>1. n \in 1..Len(results) /\ n \in 1..Len(table.rows)
      BY <1>1, <2>1 DEF Inv, ResultsInv
    <3>2. results[n] = RowOf(kind, table, n) /\ Decodes(kind, table, n)
      BY <1>1, <3>1 DEF Inv, ResultsInv
    <3> QED
      BY <2>1, <3>1, <3>2, WholeIsRow
  <2>6. IsAny(stored)
    BY <1>1, EmptyIsAny, StoredIsAnyToo DEF Inv, TableInv
  <2>7. Kinds = {TypeCreatedBy[f] : f \in DOMAIN TypeCreatedBy}
    BY DEF Kinds, TypeCreatedBy
  <2> QED
    BY <1>1, <2>2, <2>4, <2>5, <2>6, <2>7 DEF Inv, SessionInv, TypeOK
<1> QED
  BY <1>1, InvAlways, PTL

\* Results and callbacks get the engine's rows, in order and complete.
THEOREM RowsFaithful == Spec => []ResultsFaithful
<1>1. ASSUME Inv PROVE ResultsFaithful
  <2>1. ASSUME NEW n PROVE DecodedRow(n) = RowOf(kind, table, n)
    BY DecodeIs, Zenon DEF DecodedRow, RowOf, CellOf, FirstOf, ColumnOf
  <2>2. \A n \in DOMAIN results : results[n] = RowOf(kind, table, n)
    BY <1>1 DEF Inv, ResultsInv
  <2>3. pc = "callback" => row = RowOf(kind, table, at)
    BY <1>1 DEF Inv, LoopInv
  <2>4. call.op = "query" /\ call.end = "ok" /\ call.all /\ mode = "collect" =>
          Len(results) = Len(table.rows)
    BY <1>1 DEF Inv, ResultsInv
  <2> QED
    BY <2>1, <2>2, <2>3, <2>4 DEF ResultsFaithful
<1> QED
  BY <1>1, InvAlways, PTL

\* What the last read was about.
LEMMA LastRead ==
  ASSUME Inv, IsRead
  PROVE  /\ HasCell => /\ IsCellOf(kind, CellRead) /\ DecodeAs(kind, CellRead).how = "ok"
                       /\ AnyRead = DecodeAs(kind, CellRead).val
         /\ ~HasCell => AnyRead = Empty
         /\ IsAny(AnyRead) /\ kind \in Decoders /\ call.live \in BOOLEAN
         /\ LET r == get(AnyRead, call.T)
                end == IF r.how = "ok"
                         THEN IF AnyRead.type \in PointerTypes /\ ~call.live THEN Undefined ELSE Ok(r.val)
                         ELSE r
            IN call.end = end.how /\ call.val = end.val /\ crashed = (end.how = "undefined")
<1> DEFINE n == call.at  h == call.header  whole == RowOf(kind, table, n)
<1>1. ReadInv /\ call.op = "read" /\ IsTableOf(kind, table)
  BY DEF Inv, CallInv, IsRead, TableInv
<1>2. /\ kind \in Decoders /\ call.live \in BOOLEAN /\ n \in 1..Len(table.rows)
      /\ (IF call.live THEN row ELSE results[call.at]) = whole
      /\ DecodesUpTo(kind, table, n, Len(table.names) + 1)
  BY <1>1 DEF ReadInv, Decodes
<1>3. AnyRead = RowGet(whole, h)
  BY <1>2, Zenon DEF AnyRead
<1>4. DOMAIN whole = ToSet(table.names)
  BY DEF RowOf
<1>5. CellRead = CellOf(table, n, h)
  BY Zenon DEF CellRead, CellOf, ColumnOf, FirstOf
<1>6. CASE HasCell
  <2>1. AnyRead = whole[h]
    BY <1>3, <1>4, <1>6 DEF RowGet, has, HasCell
  <2>2. h \in ToSet(table.names)
    BY <1>6 DEF HasCell
  <2>3. /\ IsCellOf(kind, CellRead) /\ DecodeAs(kind, CellRead).how = "ok"
        /\ AnyRead = DecodeAs(kind, CellRead).val
    <3> HIDE DEF n, h
    <3> QED
      BY <1>1, <1>2, <1>5, <2>1, <2>2, CellThere
  <2>4. IsAny(AnyRead)
    BY <2>3, CellDecoded
  <2>5. ReadInv
    BY <1>1
  <2> QED
    BY <1>1, <1>2, <1>3, <1>6, <2>3, <2>4 DEF ReadInv, ReadAs, Then
<1>7. CASE ~HasCell
  <2>1. AnyRead = Empty
    BY <1>3, <1>4, <1>7 DEF RowGet, has, HasCell
  <2> QED
    BY <1>1, <1>2, <1>3, <1>7, <2>1, EmptyIsAny DEF ReadInv, ReadAs, Then
<1> QED
  BY <1>6, <1>7

\* An application that does not ask takes NULL for zero or the empty string, but for
\* nothing else.
THEOREM NullsReadEmpty == Spec => []NullReadsEmpty
<1>1. ASSUME Inv PROVE NullReadsEmpty
  <2> SUFFICES ASSUME IsRead, HasCell => CellRead.type \in {"SQLITE_NULL", "MYSQL_TYPE_NULL"}
               PROVE  /\ call.T \in NumberTypes => call.end = "ok" /\ call.val = <<0>>
                      /\ call.T = "std::string" => call.end = "ok" /\ call.val = <<>>
                      /\ call.T \in TimeTypesOfAny => call.end = "throws"
    BY Zenon DEF NullReadsEmpty
  <2>1. AnyRead = Empty
    <3>1. CASE ~HasCell
      BY <1>1, <3>1, LastRead
    <3>2. CASE HasCell /\ kind = SQLITE
      <4>1. IsSQLiteCell(CellRead) /\ AnyRead = SQLiteDecode(CellRead).val
        BY <1>1, <3>2, LastRead DEF IsCellOf, DecodeAs
      <4>2. CellRead.type = "SQLITE_NULL"
        BY <3>2, <4>1 DEF IsSQLiteCell, SQLiteTypes
      <4> QED
        BY <4>1, <4>2, SQLiteDecoded
    <3>3. CASE HasCell /\ kind # SQLITE
      <4>1. AnyRead = MySQLDecode(CellRead).val /\ MySQLDecode(CellRead).how = "ok"
        BY <1>1, <3>3, LastRead DEF IsCellOf, DecodeAs
      <4>2. "SQLITE_NULL" \notin MySQLTypes
        BY DEF MySQLTypes, TextTypes, IntegerColumns
      <4>3. CellRead.type = "MYSQL_TYPE_NULL"
        BY <3>3, <4>1, <4>2, MySQLCases DEF Throws
      <4> QED
        BY <4>1, <4>3, MySQLCases DEF Ok
    <3> QED
      BY <3>1, <3>2, <3>3
  <2>2. Empty.type \notin PointerTypes
    BY DEF Empty, Stored, PointerTypes
  <2>3. LET r == get(Empty, call.T)
        IN /\ r.how = "ok" => call.end = "ok" /\ call.val = r.val
           /\ r.how # "ok" => call.end = r.how
    BY <1>1, <2>1, <2>2, LastRead DEF Ok
  <2> QED
    BY <2>3, EmptyReads DEF Ok, Throws
<1> QED
  BY <1>1, InvAlways, PTL

\* An integer read as a string is its digits.
THEOREM IntegersAsText == Spec => []TextMatchesNumber
<1>1. ASSUME Inv PROVE TextMatchesNumber
  <2> SUFFICES ASSUME IsRead, call.T = "std::string", AnyRead.type \in Signed \cup Unsigned
               PROVE  IF AnyRead.type \in {"long", "unsigned_long"} THEN call.end = "throws"
                      ELSE /\ call.end = "ok"
                           /\ AnyRead.type # "char" => call.val = Number(AnyRead.val[1])
    BY Zenon DEF TextMatchesNumber
  <2>1. AnyRead.type \notin PointerTypes
    BY DEF Signed, Unsigned, PointerTypes
  <2>2. LET r == getString(AnyRead)
        IN /\ r.how = "ok" => call.end = "ok" /\ call.val = r.val
           /\ r.how # "ok" => call.end = r.how
    BY <1>1, <2>1, LastRead, GetCases DEF Ok
  <2>3. IsAny(AnyRead)
    BY <1>1, LastRead
  <2> HIDE DEF AnyRead
  <2> QED
    BY <2>2, <2>3, IntegerText DEF Ok, Throws
<1> QED
  BY <1>1, InvAlways, PTL

LEMMA SingleElement ==
  ASSUME NEW text \in Seq(Int), Len(text) = 1
  PROVE  text = <<text[1]>>
OBVIOUS

\* An integer cell becomes the integer, if its column's type holds it.
LEMMA IntegerKept ==
  ASSUME NEW k \in Decoders, NEW cell, IsCellOf(k, cell), DecodeAs(k, cell).how = "ok",
         IntegerCell(cell), NEW stands,
         stands = (IF cell.type = "SQLITE_INTEGER" THEN "long_long"
                   ELSE IntegerColumns[cell.type].stored),
         IntegerOf(cell) \in RangeOf(stands)
  PROVE  /\ stands \in Signed \cup Unsigned
         /\ DecodeAs(k, cell).val = Stored(stands, <<IntegerOf(cell)>>)
<1> DEFINE n == IntegerOf(cell)
<1>1. CASE k = SQLITE
  <2>1. IsSQLiteCell(cell) /\ DecodeAs(k, cell) = SQLiteDecode(cell)
    BY <1>1 DEF IsCellOf, DecodeAs
  <2>2. cell.type = "SQLITE_INTEGER"
    BY <2>1 DEF IntegerCell, IsSQLiteCell, SQLiteTypes, IntegerColumns
  <2>3. SQLiteDecode(cell).val = Stored("long_long", cell.text)
    BY <2>1, <2>2, SQLiteDecoded
  <2>4. cell.text \in Seq(Int) /\ Len(cell.text) = 1
    BY <2>1, <2>2 DEF IsSQLiteCell
  <2>5. cell.text = <<n>>
    <3> DEFINE text == cell.text
    <3>1. text = <<text[1]>>
      <4> HIDE DEF text
      <4> QED
        BY <2>4, SingleElement DEF text
    <3>2. n = text[1]
      BY <2>4 DEF IntegerOf
    <3> QED
      BY <3>1, <3>2, Zenon
  <2>6. stands = "long_long" /\ "long_long" \in Signed
    BY <2>2 DEF Signed
  <2> QED
    BY <2>1, <2>3, <2>5, <2>6
<1>2. CASE k = MYSQL
  <2>1. IsMySQLCell(cell) /\ DecodeAs(k, cell) = MySQLDecode(cell)
    BY <1>2 DEF IsCellOf, DecodeAs, SQLITE, MYSQL
  <2>2. MySQLDecode(cell) # Throws /\ MySQLDecode(cell) # Undefined
    BY <2>1 DEF Throws, Undefined
  <2>3. cell.type \in DOMAIN IntegerColumns
    <3>1. "SQLITE_INTEGER" \notin MySQLTypes
      BY DEF MySQLTypes, TextTypes, IntegerColumns
    <3> QED
      BY <2>2, <3>1, MySQLCases DEF IntegerCell
  <2>4. cell.type \in MySQLTypes /\ cell.type # "MYSQL_TYPE_NULL" /\ cell.type # "SQLITE_INTEGER"
    BY <2>3 DEF MySQLTypes, IntegerColumns
  <2>5. ~cell.null
    BY <2>2, <2>4, MySQLCases
  <2>6. n # Garbage /\ cell.text = Number(n)
    BY <2>1, <2>3, <2>5 DEF IsMySQLCell
  <2>7. stands = IntegerColumns[cell.type].stored
    BY <2>4
  <2>8. n \in Int /\ n \in RangeOf(stands)
    BY RangeType
  <2>9. MySQLDecode(cell) = IntegerValue(cell.type, cell.text)
    BY <2>3, <2>5, MySQLCases
  <2> HIDE DEF n
  <2>10. IntegerValue(cell.type, Number(n)) = Ok(Stored(stands, <<n>>))
    BY <2>3, <2>6, <2>7, <2>8, IntegerStored
  <2>11. MySQLDecode(cell).val = Stored(stands, <<n>>)
    BY <2>6, <2>9, <2>10 DEF Ok
  <2> QED
    BY <2>1, <2>3, <2>7, <2>11, StoredInParsed DEF n
<1> QED
  BY <1>1, <1>2 DEF Decoders

\* An integer on the server is read as itself through every conversion that has room for it.
THEOREM IntegersUncut == Spec => []IntegersSurvive
<1>1. ASSUME Inv PROVE IntegersSurvive
  <2> DEFINE n == IntegerOf(CellRead)
             stands == IF CellRead.type = "SQLITE_INTEGER" THEN "long_long"
                       ELSE IntegerColumns[CellRead.type].stored
  <2> SUFFICES ASSUME IsRead, HasCell, call.T \in NumberTypes \ FloatTypes,
                      IntegerCell(CellRead), n \in RangeOf(stands) \cap RangeOf(call.T)
               PROVE  call.end = "ok" /\ call.val = <<n>>
    BY Zenon DEF IntegersSurvive
  <2>1. /\ IsCellOf(kind, CellRead) /\ DecodeAs(kind, CellRead).how = "ok"
        /\ AnyRead = DecodeAs(kind, CellRead).val /\ kind \in Decoders
    BY <1>1, LastRead
  <2>2. n \in Int /\ n # Garbage
    BY RangeType
  <2>3. stands \in Signed \cup Unsigned /\ AnyRead = Stored(stands, <<n>>)
    BY <2>1, IntegerKept
  <2> HIDE DEF n, stands
  <2>4. get(AnyRead, call.T) = Ok(<<n>>)
    BY <2>2, <2>3, IntegerRead
  <2>5. AnyRead.type \notin PointerTypes
    BY <2>3 DEF Stored, PointerTypes, Signed, Unsigned
  <2> QED
    BY <1>1, <2>4, <2>5, LastRead DEF Ok
<1> QED
  BY <1>1, InvAlways, PTL

LEMMA AtLeastTwo ==
  ASSUME NEW S, IsFiniteSet(S), NEW a \in S, NEW b \in S, a # b
  PROVE  Cardinality(S) >= 2
<1>1. IsFiniteSet({a}) /\ Cardinality({a}) = 1
  BY FS_Singleton, Zenon
<1>2. b \notin {a}
  OBVIOUS
<1>3. IsFiniteSet({a} \cup {b}) /\ Cardinality({a} \cup {b}) = Cardinality({a}) + 1
  BY <1>1, <1>2, FS_AddElement, Zenon
<1>4. {a} \cup {b} \subseteq S
  OBVIOUS
<1>5. Cardinality({a} \cup {b}) <= Cardinality(S)
  BY <1>4, FS_Subset, Zenon
<1>6. Cardinality(S) \in Nat
  BY FS_CardinalityType
<1> QED
  BY <1>1, <1>3, <1>5, <1>6

\* A delimiter with something behind it makes two lines.
LEMMA TwoLinesAtLeast ==
  ASSUME NEW text \in Seq(Int), NEW delim, Contains(text, delim), text[Len(text)] # delim
  PROVE  ~(Len(split(text, delim)) < 2)
<1>1. PICK i \in 1..Len(text) : text[i] = delim
  BY DEF Contains
<1>2. text # <<>> /\ Len(text) \in Nat
  BY <1>1
<1>3. i \in Ends(text, delim) /\ Len(text) + 1 \in Ends(text, delim)
  BY <1>1, <1>2 DEF Ends, Last
<1>4. i # Len(text) + 1
  BY <1>1, <1>2
<1>5. IsFiniteSet(Ends(text, delim)) /\ Cardinality(Ends(text, delim)) \in Nat
  BY EndsType
<1>6. Cardinality(Ends(text, delim)) >= 2
  BY <1>3, <1>4, <1>5, AtLeastTwo
<1>7. Len(split(text, delim)) = Cardinality(Ends(text, delim))
  BY Lines
<1> QED
  BY <1>5, <1>6, <1>7

\* Only a text with no time in it makes reading a DateTime undefined.
LEMMA NoTime ==
  ASSUME NEW text \in Seq(Int), DateTimeFromString(text).how = "undefined"
  PROVE  NoTimeIn(text)
<1> DEFINE s == split(text, Space)  t == split(s[2], Dash)  z == ParseInteger(t[2], "int")
           date == ReadFields(s[1])
           whole == date \o ReadFields(s[2]) \o <<NoZone>>
           zoned == date \o ReadFields(t[1]) \o z.val
           r == DateTimeFromString(text)
<1>1. \/ Len(s) < 2
      \/ ~(Len(s) < 2) /\ Contains(s[2], Dash) /\ Len(t) < 2
      \/ r = Ok(whole)
      \/ r = IF z.how = "ok" THEN Ok(zoned) ELSE z
  BY Zenon DEF DateTimeFromString, Then
<1>2. z = Throws \/ z.how = "ok"
  BY Zenon DEF ParseInteger, Ok
<1>3. r # Ok(whole)
  <2> HIDE DEF whole
  <2> QED
    BY DEF Ok
<1>4. ~(r = IF z.how = "ok" THEN Ok(zoned) ELSE z)
  <2> HIDE DEF z, zoned, r
  <2> QED
    BY <1>2 DEF Ok, Throws, r
<1>5. CASE Len(s) < 2
  <2>1. ~Contains(text, Space) \/ text[Len(text)] = Space
    BY <1>5, TwoLinesAtLeast, Separate
  <2> QED
    BY <2>1 DEF NoTimeIn, Last
<1>6. CASE ~(Len(s) < 2) /\ Contains(s[2], Dash) /\ Len(t) < 2
  <2>1. Len(s) >= 2
    BY <1>6, LineCount
  <2>2. PICK i \in Ends(text, Space), j \in Ends(text, Space) :
          i < j /\ \A d \in Ends(text, Space) : d = i \/ j <= d
    BY <2>1, TwoLines
  <2>3. s[2] = SubSeq(text, i + 1, j - 1)
    BY <2>2, SecondLine
  <2>4. s[2] \in Seq(Int)
    BY <1>6, LineType
  <2>5. s[2][Len(s[2])] = Dash
    BY <1>6, <2>4, TwoLinesAtLeast, Separate
  <2>6. i \in 1..Len(text) + 1 /\ j \in 1..Len(text) + 1 /\ Len(text) \in Nat
    BY EndsType
  <2>7. s[2] # <<>>
    BY <1>6, <2>4 DEF Contains
  <2>8. text[j - 1] = Dash /\ j - 1 \in 1..Len(text)
    <3> DEFINE u == s[2]
    <3> HIDE DEF u, s
    <3>1. u = SubSeq(text, i + 1, j - 1) /\ u # <<>> /\ u[Len(u)] = Dash
      BY <2>3, <2>5, <2>7 DEF u
    <3> QED
      BY <2>2, <2>6, <3>1
  <2>9. CASE j = Len(text) + 1
    BY <2>6, <2>8, <2>9 DEF NoTimeIn, Last
  <2>10. CASE j # Len(text) + 1
    <3>1. text[j] = Space
      BY <2>2, <2>10 DEF Ends
    <3> QED
      BY <2>6, <2>8, <2>10, <3>1 DEF NoTimeIn
  <2> QED
    BY <2>9, <2>10
<1> QED
  BY <1>1, <1>3, <1>4, <1>5, <1>6

LEMMA TextOfString ==
  ASSUME NEW any, IsAny(any), isString(any)
  PROVE  getString(any).how = "ok" /\ getString(any).val \in Seq(Int)
<1>1. any.type \in StringTypes /\ any.val \in Seq(Int)
  BY DEF IsAny, isString
<1>2. CASE any.type = "char"
  <2> DEFINE c == Character(any.val[1])
  <2>1. any.val[1] \in Int
    BY <1>2, RangeType DEF IsAny, Signed
  <2>2. CharSize \in Nat /\ CharSize > 0
    BY TextAssumption
  <2>3. c \in Int
    BY <2>1, <2>2 DEF Character
  <2>4. getString(any) = Ok(<<c>>)
    BY <1>2, StringCases
  <2> HIDE DEF c
  <2> QED
    BY <2>3, <2>4, One DEF Ok
<1>3. CASE any.type # "char"
  BY <1>1, <1>3, StringCases DEF Ok
<1> QED
  BY <1>2, <1>3

\* Undefined behaviour has one of the causes listed, and no other.
THEOREM UndefinedCaused == Spec => []UndefinedHasCause
<1>1. ASSUME Inv PROVE UndefinedHasCause
  <2> SUFFICES ASSUME crashed PROVE UndefinedHasCause
    BY Zenon DEF UndefinedHasCause
  <2>1. /\ call.op \in {"newSession", "query", "read", "empty"} /\ IsTableOf(kind, table)
        /\ NewInv /\ QueryInv /\ ReadInv
    BY <1>1 DEF Inv, CallInv, TableInv
  <2>2. CASE call.op = "newSession"
    <3> DEFINE r == newSession(call.dt, call.env)
    <3>1. call.dt \in 0..6 /\ call.env \in Environments /\ r.how = "undefined"
      BY <2>1, <2>2 DEF NewInv
    <3>2. r # Throws /\ \A v : r # Ok(v)
      <4> HIDE DEF r
      <4> QED
        BY <3>1 DEF Ok, Throws
    <3>3. NoSearch(call.env, dllName(call.dt))
      BY <3>1, <3>2, BackendMade, Zenon
    <3> QED
      BY <2>2, <3>3, Zenon DEF UndefinedHasCause, NoSearch, Blank
  <2>3. CASE call.op = "empty"
    BY <2>3, Zenon DEF UndefinedHasCause
  <2>4. CASE call.op = "query"
    <3> DEFINE cell == table.rows[at][col]
    <3>1. /\ kind \in Decoders /\ at <= Len(table.rows) /\ col <= Len(table.names)
          /\ DecodeAs(kind, cell).how = "undefined"
      BY <2>1, <2>4 DEF QueryInv
    <3>2. at \in DOMAIN table.rows /\ col \in DOMAIN table.names
      <4>1. at \in 1..Len(table.rows) + 1 /\ col \in 1..Len(table.names) + 1
        BY <1>1 DEF Inv, LoopInv
      <4>2. DOMAIN table.rows = 1..Len(table.rows) /\ Len(table.rows) \in Nat
            /\ DOMAIN table.names = 1..Len(table.names) /\ Len(table.names) \in Nat
        BY <2>1 DEF IsTableOf
      <4> QED
        BY <3>1, <4>1, <4>2
    <3>3. IsCellOf(kind, cell)
      BY <2>1, <3>2 DEF IsTableOf
    <3> HIDE DEF cell
    <3>4. kind = MYSQL /\ IsMySQLCell(cell) /\ MySQLDecode(cell).how = "undefined"
      BY <3>1, <3>3, SQLiteDecoded DEF IsCellOf, DecodeAs, Decoders, SQLITE, MYSQL
    <3>5. Decoding(cell, MySQLDecode(cell)) /\ cell.text \in Seq(Int)
      BY <3>4, MySQLDecoded DEF IsMySQLCell
    <3>6. \/ cell.null /\ cell.type \in MySQLTypes
          \/ cell.type \in {"MYSQL_TYPE_DATETIME", "MYSQL_TYPE_TIMESTAMP"} /\ NoTimeIn(cell.text)
      BY <3>4, <3>5, NoTime DEF Decoding
    <3> QED
      BY <2>4, <3>4, <3>6, Zenon DEF UndefinedHasCause, cell
  <2>5. CASE call.op = "read"
    <3> DEFINE any == AnyRead  r == get(any, call.T)
    <3>1. IsRead
      BY <2>1, <2>5 DEF IsRead, ReadInv, Decoders, UNKNOWN, SQLITE, MYSQL
    <3>2. /\ IsAny(any) /\ kind \in Decoders /\ call.live \in BOOLEAN
          /\ HasCell => /\ IsCellOf(kind, CellRead) /\ DecodeAs(kind, CellRead).how = "ok"
                        /\ any = DecodeAs(kind, CellRead).val
          /\ ~HasCell => any = Empty
          /\ r.how = "undefined" \/ (any.type \in PointerTypes /\ ~call.live)
      BY <1>1, <3>1, LastRead DEF Ok
    <3> HIDE DEF any
    <3>3. CASE r.how = "undefined"
      <4> DEFINE beyond == /\ isFloat(any) /\ call.T \in NumberTypes \ FloatTypes
                           /\ Trunc(any.val[1]) \notin RangeOf(call.T)
      <4>1. \/ call.T \in {"const_char*", "char*"}
            \/ /\ call.T = "DateTime" /\ isString(any)
               /\ DateTimeFromString(getString(any).val).how = "undefined"
            \/ beyond
        BY <3>3, UndefinedRead
      <4>2. isString(any) => getString(any).val \in Seq(Int)
        BY <3>2, TextOfString
      <4>3. \/ call.T \in {"const_char*", "char*"}
            \/ call.T = "DateTime" /\ isString(any) /\ NoTimeIn(getString(any).val)
            \/ beyond
        <5> HIDE DEF beyond
        <5> QED
          BY <4>1, <4>2, NoTime
      <4> QED
        BY <2>5, <4>3, Zenon DEF UndefinedHasCause, any
    <3>4. CASE any.type \in PointerTypes /\ ~call.live
      <4>1. HasCell
        BY <3>2, <3>4 DEF Empty, Stored, PointerTypes
      <4>2. CASE kind = SQLITE
        <5>1. IsSQLiteCell(CellRead) /\ any = SQLiteDecode(CellRead).val
          BY <3>2, <4>1, <4>2 DEF IsCellOf, DecodeAs
        <5>2. CellRead.type = "SQLITE_BLOB"
          BY <3>4, <5>1, SQLiteDecoded
        <5> QED
          BY <2>5, <3>4, <4>1, <5>2, Zenon DEF UndefinedHasCause
      <4>3. CASE kind # SQLITE
        <5>1. Decoding(CellRead, MySQLDecode(CellRead)) /\ any = MySQLDecode(CellRead).val
              /\ MySQLDecode(CellRead).how = "ok"
          BY <3>2, <4>1, <4>3, MySQLDecoded DEF IsCellOf, DecodeAs
        <5>2. any.type \notin PointerTypes
          BY <5>1 DEF Decoding, EndsAs, Throws, Undefined
        <5> QED
          BY <3>4, <5>2
      <4> QED
        BY <4>2, <4>3
    <3> QED
      BY <3>2, <3>3, <3>4
  <2> QED
    BY <2>1, <2>2, <2>3, <2>4, <2>5
<1> QED
  BY <1>1, InvAlways, PTL

\* newSession, if it comes back, makes a session of the type asked for exactly if the
\* first file of the library's name holds its library.
THEOREM BackendIsFound == Spec => []BackendFound
<1>1. ASSUME Inv PROVE BackendFound
  <2> DEFINE made == Stands(call.dt, call.env)  r == newSession(call.dt, call.env)
  <2>1. SUFFICES ASSUME call.op = "newSession", ~crashed
                 PROVE  IF made THEN call.end = "ok" /\ kind = call.dt
                        ELSE call.end = "throws" /\ kind = UNKNOWN
    BY Zenon DEF BackendFound, LibraryPlace, Stands
  <2>2. NewInv
    BY <1>1 DEF Inv, CallInv
  <2>3. /\ call.dt \in 0..6 /\ call.env \in Environments
        /\ call.end = r.how /\ crashed = (r.how = "undefined")
        /\ kind = IF r.how = "ok" THEN r.val[1] ELSE UNKNOWN
    BY <2>1, <2>2 DEF NewInv
  <2>4. r = Undefined \/ r = IF made THEN Ok(<<call.dt>>) ELSE Throws
    BY <2>3, BackendMade, Zenon
  <2> HIDE DEF made, r
  <2>5. r.how # "undefined"
    BY <2>1, <2>3
  <2>6. r = IF made THEN Ok(<<call.dt>>) ELSE Throws
    BY <2>4, <2>5 DEF Undefined
  <2>7. CASE made
    BY <2>3, <2>6, <2>7 DEF Ok
  <2>8. CASE ~made
    BY <2>3, <2>6, <2>8 DEF Throws
  <2> QED
    BY <2>7, <2>8
<1> QED
  BY <1>1, InvAlways, PTL

\* The text of three fields is read back as these fields.
LEMMA ThreeFieldsBack ==
  ASSUME NEW f \in Seq(Int), Len(f) = 3, \A i \in DOMAIN f : f[i] \in RangeOf("int"),
         NEW sep \in {Dash, Colon}
  PROVE  ReadFields(Fields(f, sep)) = f
<1>1. /\ Len(f) >= 3 /\ f[1] \in RangeOf("int") /\ f[2] \in RangeOf("int")
      /\ f[3] \in RangeOf("int")
  OBVIOUS
<1>2. ReadFields(Fields(f, sep)) = <<f[1], f[2], f[3]>>
  BY <1>1, FieldsPrinted
<1>3. f = <<f[1], f[2], f[3]>>
  OBVIOUS
<1> QED
  BY <1>2, <1>3, Zenon

\* What use() wrote is read back by fromString.
LEMMA TextReadBack ==
  ASSUME NEW value \in TimeValues,
         value.type = "DateTime" => \A i \in 4..6 : value.val[i] >= 0
  PROVE  FromString(value.type, ToText(value)) =
           IF value.type = "DateTime" /\ ZoneOf(value.val) < NoZone THEN Throws ELSE Ok(value.val)
<1> DEFINE f == value.val
<1>1. IsTimeValue(value)
  BY UseAssumption
<1>2. /\ f \in Seq(Int) /\ Len(f) = IF value.type = "DateTime" THEN 7 ELSE 3
      /\ \A i \in DOMAIN f : f[i] \in RangeOf("int")
  BY <1>1, FieldsOfInts DEF IsTimeValue
<1>3. CASE value.type = "Date"
  <2>1. ReadFields(Fields(f, Dash)) = f
    BY <1>2, <1>3, ThreeFieldsBack
  <2>2. ToText(value) = Fields(f, Dash)
    BY <1>3, Zenon DEF ToText, DateToString
  <2>3. FromString(value.type, ToText(value)) = Ok(ReadFields(ToText(value)))
    BY <1>3, Zenon DEF FromString, DateFromString
  <2>4. value.type # "DateTime"
    BY <1>3
  <2> QED
    BY <2>1, <2>2, <2>3, <2>4, Zenon
<1>4. CASE value.type = "Time"
  <2>1. ReadFields(Fields(f, Colon)) = f
    BY <1>2, <1>4, ThreeFieldsBack
  <2>2. ToText(value) = TimeToString(f)
    BY <1>4 DEF ToText
  <2>3. FromString(value.type, ToText(value)) = TimeFromString(ToText(value))
    BY <1>4 DEF FromString
  <2>4. value.type # "DateTime"
    BY <1>4
  <2> QED
    BY <2>1, <2>2, <2>3, <2>4, Zenon DEF TimeToString, TimeFromString
<1>5. CASE value.type = "DateTime"
  <2>1. f \in [1..7 -> Int]
    BY <1>2, <1>5, SevenFields
  <2>2. \A i \in 1..7 : f[i] \in RangeOf("int")
    BY <1>2, <2>1
  <2>3. f[4] >= 0 /\ f[5] >= 0 /\ f[6] >= 0
    BY <1>5
  <2>4. DateTimeFromString(DateTimeToString(f)) = IF f[7] < NoZone THEN Throws ELSE Ok(f)
    BY <2>1, <2>2, <2>3, DateTimeBack
  <2>5. ToText(value) = DateTimeToString(f)
    BY <1>5 DEF ToText
  <2>6. FromString(value.type, ToText(value)) = DateTimeFromString(ToText(value))
    BY <1>5 DEF FromString
  <2> QED
    BY <1>5, <2>4, <2>5, <2>6, Zenon DEF ZoneOf
<1> QED
  BY <1>1, <1>3, <1>4, <1>5 DEF IsTimeValue, TimeTypesOfAny

\* A cell of text becomes a string.
LEMMA TextDecoded ==
  ASSUME NEW k, NEW text
  PROVE  DecodeAs(k, Cell(TextColumn(k), text)).val = Stored("std::string", text)
<1> DEFINE cell == Cell(TextColumn(k), text)
<1>1. CASE k = SQLITE
  BY <1>1 DEF DecodeAs, SQLiteDecode, SQLiteStoredType, Cell, TextColumn, Ok
<1>2. CASE k # SQLITE
  <2>1. cell.type = "MYSQL_TYPE_VAR_STRING" /\ cell.text = text /\ cell.null = FALSE
    BY <1>2 DEF Cell, TextColumn
  <2>2. cell.type \in TextTypes
    BY <2>1 DEF TextTypes
  <2>3. MySQLDecode(cell) = Ok(Stored("std::string", text))
    BY <2>1, <2>2, MySQLCases, Zenon
  <2> QED
    BY <1>2, <2>3 DEF DecodeAs, Ok
<1> QED
  BY <1>1, <1>2

LEMMA OneCell ==
  ASSUME NEW header, NEW cell, NEW n,
         NEW t, t = [names |-> <<header>>, rows |-> <<<<cell>>>>],
         n \in 1..Len(t.rows), NEW c \in DOMAIN t.names
  PROVE  t.rows[n][c] = cell
OBVIOUS

\* A Date, Time or DateTime that use() wrote is read back as it was, or, with a zone below
\* none, not at all.
THEOREM StoredIsBack == Spec => []StoredComesBack
<1>1. ASSUME Inv PROVE StoredComesBack
  <2> DEFINE T == stored.type  text == ToText(stored)
             lost == stored.type = "DateTime" /\ ZoneOf(stored.val) < NoZone
  <2> SUFFICES ASSUME IsRead, HasCell, stored # Empty, call.T = stored.type,
                      stored.type = "DateTime" => \A i \in 4..6 : stored.val[i] >= 0
               PROVE  IF lost THEN call.end = "throws"
                      ELSE call.end = "ok" /\ call.val = stored.val
    BY Zenon DEF StoredComesBack
  <2>1. /\ stored \in TimeValues
        /\ \E header \in Headers : table = StoredTable(kind, header, stored)
    BY <1>1 DEF Inv, TableInv
  <2>2. PICK header \in Headers : table = StoredTable(kind, header, stored)
    BY <2>1
  <2>3. CellRead = Cell(TextColumn(kind), text)
    <3>1. call.at \in 1..Len(table.rows) /\ IsTableOf(kind, table)
      BY <1>1 DEF Inv, CallInv, ReadInv, TableInv, IsRead
    <3>2. ColumnOf(call.header) \in DOMAIN table.names
      <4>1. table.names \in Seq(Headers)
        BY <3>1 DEF IsTableOf
      <4>2. PICK c \in DOMAIN table.names : table.names[c] = call.header
        BY DEF HasCell, ToSet
      <4> QED
        BY <4>1, <4>2, FirstIs DEF ColumnOf, FirstOf
    <3> DEFINE c == ColumnOf(call.header)  cell == Cell(TextColumn(kind), text)
    <3> HIDE DEF c, cell
    <3>3. table = [names |-> <<header>>, rows |-> <<<<cell>>>>]
      BY <2>2, Zenon DEF StoredTable, cell
    <3>4. table.rows[call.at][c] = cell
      BY <3>1, <3>2, <3>3, OneCell DEF c
    <3> QED
      BY <3>4, Zenon DEF CellRead, c, cell
  <2>4. AnyRead = Stored("std::string", text)
    BY <1>1, <2>3, LastRead, TextDecoded
  <2>5. /\ AnyRead.type = "std::string" /\ AnyRead.val = text /\ isString(AnyRead)
        /\ AnyRead.type \notin PointerTypes
    BY <2>4 DEF Stored, isString, StringTypes, PointerTypes
  <2>6. getString(AnyRead) = Ok(text)
    BY <2>5, StringCases, Zenon DEF isString
  <2>7. FromString(T, text) = IF lost THEN Throws ELSE Ok(stored.val)
    BY <2>1, TextReadBack, Zenon
  <2>8. T \in TimeTypesOfAny
    BY <2>1, UseAssumption DEF IsTimeValue
  <2> HIDE DEF text, lost
  <2>9. get(AnyRead, T) = FromString(T, text)
    <3>1. Ok(text).how = "ok" /\ Ok(text).val = text
      BY DEF Ok
    <3> QED
      BY <2>5, <2>6, <2>8, <3>1, GetCases, Zenon
  <2>10. get(AnyRead, call.T) = IF lost THEN Throws ELSE Ok(stored.val)
    BY <2>7, <2>9, Zenon
  <2> QED
    BY <1>1, <2>5, <2>10, LastRead DEF Ok, Throws
<1> QED
  BY <1>1, InvAlways, PTL

\* What the readers of arguments return, if they return.
LEMMA StringCase ==
  ASSUME NEW args, NEW key, NEW option, NEW def
  PROVE  argString(args, key, option, def) =
           IF ~given(args, key) THEN IF option THEN Ok(def) ELSE Throws
           ELSE IF isString(args[key]) THEN getString(args[key]) ELSE Throws
BY Zenon DEF argString, Argument

LEMMA IntCase ==
  ASSUME NEW args, NEW key, NEW option, NEW def
  PROVE  argInt(args, key, option, def) =
           IF ~given(args, key) THEN IF option THEN Ok(def) ELSE Throws
           ELSE IF isInteger(args[key]) THEN getInteger(args[key], "int") ELSE Throws
BY Zenon DEF argInt, Argument

LEMMA BoolCase ==
  ASSUME NEW args, NEW key, NEW option, NEW def
  PROVE  argBool(args, key, option, def) =
           IF ~given(args, key) THEN IF option THEN Ok(def) ELSE Throws
           ELSE IF args[key].type = "bool" THEN Exact(args[key], "bool") ELSE Throws
BY Zenon DEF argBool, Argument

LEMMA StringArgument ==
  ASSUME NEW args, NEW key, NEW option \in BOOLEAN, NEW def,
         argString(args, key, option, def).how = "ok"
  PROVE  IF given(args, key)
           THEN isString(args[key]) /\ argString(args, key, option, def).val = TextOf(args[key])
           ELSE option /\ argString(args, key, option, def).val = def
<1> DEFINE any == args[key]  r == argString(args, key, option, def)
<1>1. CASE ~given(args, key)
  BY <1>1, StringCase DEF Ok, Throws
<1>2. CASE given(args, key) /\ isString(any)
  <2>1. r = getString(any)
    BY <1>2, StringCase
  <2>2. getString(any) = Ok(TextOf(any))
    <3> HIDE DEF any
    <3>1. any.type \in StringTypes
      BY <1>2 DEF isString
    <3>2. CASE any.type = "char"
      BY <3>2, StringCases, Zenon DEF TextOf
    <3>3. CASE any.type # "char"
      BY <3>1, <3>3, StringCases, Zenon DEF TextOf
    <3> QED
      BY <3>2, <3>3
  <2>3. Ok(TextOf(any)).val = TextOf(any)
    BY DEF Ok
  <2> QED
    BY <1>2, <2>1, <2>2, <2>3, Zenon
<1>3. CASE given(args, key) /\ ~isString(any)
  BY <1>3, StringCase DEF Throws
<1> QED
  BY <1>1, <1>2, <1>3

LEMMA BoolArgument ==
  ASSUME NEW args, NEW key, NEW option \in BOOLEAN, NEW def,
         argBool(args, key, option, def).how = "ok"
  PROVE  IF given(args, key) THEN argBool(args, key, option, def).val = args[key].val
         ELSE option /\ argBool(args, key, option, def).val = def
<1> DEFINE any == args[key]  r == argBool(args, key, option, def)
<1>1. CASE ~given(args, key)
  BY <1>1, BoolCase DEF Ok, Throws
<1>2. CASE given(args, key) /\ any.type = "bool"
  BY <1>2, BoolCase DEF Exact, Ok
<1>3. CASE given(args, key) /\ any.type # "bool"
  BY <1>3, BoolCase DEF Throws
<1> QED
  BY <1>1, <1>2, <1>3

LEMMA IntArgument ==
  ASSUME NEW args, NEW key, NEW option \in BOOLEAN, NEW def,
         argInt(args, key, option, def).how = "ok"
  PROVE  IF given(args, key)
           THEN isInteger(args[key]) /\ argInt(args, key, option, def) = getInteger(args[key], "int")
           ELSE option /\ argInt(args, key, option, def).val = def
BY IntCase DEF Ok, Throws

\* The request, and whether it is granted.
LEMMA OpenCases ==
  ASSUME NEW args, NEW exists
  PROVE  LET lite == SQLiteOpen(args)
             my   == MySQLOpen(args, PortOf(MYSQL))
             pg   == PgSQLOpen(args, PortOf(POSTGRESQL), <<20 % ShortSize>>)
             Granted(r) == IF r.how = "ok" THEN IF exists THEN Ok(r.val) ELSE Throws ELSE r
         IN /\ OpenAs(SQLITE, args, exists) =
                 IF lite.how = "ok" THEN sqlite3_open(lite.val, exists) ELSE lite
            /\ OpenAs(MYSQL, args, exists) = Granted(my)
            /\ OpenAs(POSTGRESQL, args, exists) = Granted(pg)
<1>1. SQLITE # MYSQL /\ SQLITE # POSTGRESQL /\ MYSQL # POSTGRESQL
  BY DEF SQLITE, MYSQL, POSTGRESQL
<1> QED
  BY <1>1 DEF OpenAs, Then

LEMMA RequestCases ==
  ASSUME NEW arguments, NEW request, Request(arguments, request).how = "ok"
  PROVE  Request(arguments, request).val = request /\ \A a \in arguments : a.how = "ok"
<1>1. Request(arguments, request) = Ok(request) /\ \A a \in arguments : a.how = "ok"
  BY DEF Request, Throws
<1> QED
  BY <1>1 DEF Ok

\* What sqlite3_open takes, of the flags that open() makes of the arguments.
LEMMA FlagsTaken ==
  ASSUME NEW target, target # Memory, NEW create, NEW readOnly, NEW uri, NEW exists,
         NEW request, request.flags = SQLiteFlags(target, create, readOnly, uri),
         sqlite3_open(request, exists).how = "ok"
  PROVE  /\ sqlite3_open(request, exists).val = request
         /\ readOnly = True => request.flags = READONLY
         /\ readOnly # True => request.flags # READONLY
         /\ create # True => exists
<1>1. /\ sqlite3_open(request, exists) = Ok(request)
      /\ request.flags \in {READONLY, READWRITE, READWRITE + CREATE}
      /\ exists \/ request.flags = READWRITE + CREATE
  BY DEF sqlite3_open, Throws
<1> DEFINE creating == IF create = True THEN CREATE ELSE 0
<1>2. request.flags = IF uri = True THEN creating
                      ELSE (IF readOnly = True THEN READONLY ELSE READWRITE) + creating
  BY DEF SQLiteFlags
<1>3. sqlite3_open(request, exists).val = request
  BY <1>1 DEF Ok
<1> QED
  BY <1>1, <1>2, <1>3 DEF READONLY, READWRITE, CREATE

\* The database opened is the one asked for, and written or created only if it may be.
THEOREM DatabaseAsAsked == Spec => []OpensAsAsked
<1>1. ASSUME Inv PROVE OpensAsAsked
  <2> DEFINE args == call.args  request == call.request
             target   == argString(args, "target", FALSE, <<>>)
             create   == argBool(args, "create", TRUE, True)
             readOnly == argBool(args, "readOnly", TRUE, False)
             uri      == argBool(args, "uri", TRUE, False)
             asked == [target |-> target.val,
                       flags |-> SQLiteFlags(target.val, create.val, readOnly.val, uri.val)]
  <2> SUFFICES ASSUME call.op = "open", kind = SQLITE, call.end = "ok"
               PROVE  /\ request.target = TextOf(args["target"])
                      /\ request.target # Memory =>
                           /\ IsTrue(args, "readOnly") => request.flags = READONLY
                           /\ IsFalse(args, "create") => call.exists
                           /\ ~IsTrue(args, "readOnly") => request.flags # READONLY
    BY Zenon DEF OpensAsAsked
  <2>1. LET r == OpenAs(SQLITE, args, call.exists)
        IN r.how = "ok" /\ request = r.val
    BY <1>1 DEF Inv, CallInv, OpenInv
  <2>2. OpenAs(SQLITE, args, call.exists) =
          IF SQLiteOpen(args).how = "ok" THEN sqlite3_open(SQLiteOpen(args).val, call.exists)
          ELSE SQLiteOpen(args)
    BY OpenCases
  <2>3. SQLiteOpen(args).how = "ok" /\ sqlite3_open(SQLiteOpen(args).val, call.exists).how = "ok"
        /\ request = sqlite3_open(SQLiteOpen(args).val, call.exists).val
    BY <2>1, <2>2, Zenon
  <2>4. SQLiteOpen(args) = Request({target, create, readOnly, uri}, asked)
    BY Zenon DEF SQLiteOpen
  <2>5. SQLiteOpen(args).val = asked /\ target.how = "ok" /\ create.how = "ok"
        /\ readOnly.how = "ok"
    <3> HIDE DEF target, create, readOnly, uri, asked
    <3> QED
      BY <2>3, <2>4, RequestCases
  <2>6. target.val = TextOf(args["target"])
    BY <2>5, StringArgument
  <2>7. create.val = IF given(args, "create") THEN args["create"].val ELSE True
    BY <2>5, BoolArgument
  <2>8. readOnly.val = IF given(args, "readOnly") THEN args["readOnly"].val ELSE False
    BY <2>5, BoolArgument
  <2>9. sqlite3_open(asked, call.exists).how = "ok"
        /\ request = sqlite3_open(asked, call.exists).val
    BY <2>3, <2>5, Zenon
  <2>10. asked.target = target.val
         /\ asked.flags = SQLiteFlags(target.val, create.val, readOnly.val, uri.val)
    OBVIOUS
  <2>11. request = asked
    <3> HIDE DEF asked
    <3> QED
      BY <2>9 DEF sqlite3_open, Ok, Throws
  <2>12. False # True
    BY DEF False, True
  <2> HIDE DEF target, create, readOnly, uri, asked
  <2>13. asked.target # Memory =>
           /\ readOnly.val = True => asked.flags = READONLY
           /\ readOnly.val # True => asked.flags # READONLY
           /\ create.val # True => call.exists
    BY <2>9, <2>10, FlagsTaken
  <2>14. IsTrue(args, "readOnly") <=> readOnly.val = True
    BY <2>8, <2>12, Zenon DEF IsTrue
  <2>15. IsFalse(args, "create") => create.val # True
    BY <2>7, <2>12, Zenon DEF IsFalse
  <2> QED
    BY <2>6, <2>10, <2>11, <2>13, <2>14, <2>15, Zenon
<1> QED
  BY <1>1, InvAlways, PTL

LEMMA TextGrows ==
  ASSUME NEW text \in Seq(Int), NEW i \in 1..Len(text)
  PROVE  Append(SubSeq(text, 1, i - 1), text[i]) = SubSeq(text, 1, i)
<1> DEFINE a == SubSeq(text, 1, i - 1)  b == SubSeq(text, 1, i)  c == Append(a, text[i])
<1>1. Len(text) \in Nat /\ i \in Nat
  OBVIOUS
<1>2. a \in Seq(Int) /\ Len(a) = i - 1 /\ \A k \in 1..i - 1 : a[k] = text[k]
  OBVIOUS
<1>3. b \in Seq(Int) /\ Len(b) = i /\ \A k \in 1..i : b[k] = text[k]
  OBVIOUS
<1>4. text[i] \in Int
  OBVIOUS
<1> HIDE DEF a, b
<1>5. c \in Seq(Int) /\ Len(c) = i /\ \A k \in 1..i : c[k] = text[k]
  BY <1>1, <1>2, <1>4
<1> HIDE DEF c
<1>6. c = b
  BY <1>3, <1>5, SeqEqual
<1> QED
  BY <1>6 DEF a, b, c

\* What libpq has read of a text without backslashes in quotes.
ReadSoFar(text, i) ==
  [val |-> SubSeq(text, 1, i), escaped |-> FALSE,
   ended |-> \E j \in 1..i : text[j] = Quote]

\* libpq reads a text without backslashes in quotes as it is, or not at all.
LEMMA QuotedIs ==
  ASSUME NEW text \in Seq(Int), ~Contains(text, Backslash),
         Quoted(text).how = "ok"
  PROVE  Quoted(text).val = text
<1> DEFINE Read(r, c) ==
        IF r.escaped THEN [r EXCEPT !.val = Append(@, c), !.escaped = FALSE]
        ELSE IF c = Backslash THEN [r EXCEPT !.escaped = TRUE]
        ELSE [r EXCEPT !.val = Append(@, c), !.ended = @ \/ c = Quote]
      none == [val |-> <<>>, escaped |-> FALSE, ended |-> FALSE]
      Whole(f) == [i \in 0..Len(text) |-> IF i = 0 THEN none ELSE Read(f[i - 1], text[i])]
      read == CHOOSE f : f = Whole(f)
      so == [i \in 0..Len(text) |-> ReadSoFar(text, i)]
<1>1. Quoted(text) =
        IF read[Len(text)].escaped \/ read[Len(text)].ended THEN Throws ELSE Ok(read[Len(text)].val)
  BY Zenon DEF Quoted
<1>2. Len(text) \in Nat /\ \A i \in 1..Len(text) : text[i] # Backslash
  BY DEF Contains
<1>3. ReadSoFar(text, 0) = none
  <2>1. SubSeq(text, 1, 0) = <<>>
    BY SubSeqEmpty
  <2>2. (\E j \in 1..0 : text[j] = Quote) = FALSE
    OBVIOUS
  <2> QED
    BY <2>1, <2>2, Zenon DEF ReadSoFar
<1>4. ASSUME NEW i \in 1..Len(text)
      PROVE  Read(ReadSoFar(text, i - 1), text[i]) = ReadSoFar(text, i)
  <2>1. Append(SubSeq(text, 1, i - 1), text[i]) = SubSeq(text, 1, i)
    BY <1>4, TextGrows
  <2>2. (\E j \in 1..i : text[j] = Quote) <=>
          (\E j \in 1..i - 1 : text[j] = Quote) \/ text[i] = Quote
    BY <1>2
  <2>3. text[i] # Backslash
    BY <1>2
  <2> QED
    BY <2>1, <2>2, <2>3 DEF ReadSoFar
<1> HIDE DEF Read, none
<1>5. so = Whole(so)
  <2>1. ASSUME NEW i \in 0..Len(text), i # 0
        PROVE  i \in 1..Len(text) /\ i - 1 \in 0..Len(text)
    BY <1>2, <2>1
  <2>2. ASSUME NEW i \in 0..Len(text)
        PROVE  so[i] = IF i = 0 THEN none ELSE Read(so[i - 1], text[i])
    BY <1>3, <1>4, <2>1
  <2> QED
    BY <2>2
<1>6. read = Whole(read)
  BY <1>5
<1> HIDE DEF read, so
<1>7. \A i \in 0..Len(text) : read[i] = so[i]
  <2> SUFFICES ASSUME NEW k \in 0..Len(text), read[k] # so[k] PROVE FALSE
    OBVIOUS
  <2> DEFINE bad == {i \in 0..Len(text) : read[i] # so[i]}  m == Min(bad)
  <2>1. bad \in SUBSET Nat /\ k \in bad
    BY <1>2
  <2>2. m \in bad /\ \A n \in bad : m <= n
    BY <2>1, Least
  <2> HIDE DEF m
  <2>3. m \in 0..Len(text) /\ read[m] # so[m]
    BY <2>2
  <2>4. read[m] = IF m = 0 THEN none ELSE Read(read[m - 1], text[m])
    BY <1>6, <2>3
  <2>5. so[m] = IF m = 0 THEN none ELSE Read(so[m - 1], text[m])
    BY <1>5, <2>3
  <2>6. m # 0 => m - 1 \in 0..Len(text) /\ m - 1 \notin bad
    BY <1>2, <2>2, <2>3
  <2>7. m # 0 => read[m - 1] = so[m - 1]
    BY <2>6
  <2> QED
    BY <2>3, <2>4, <2>5, <2>7
<1>8. read[Len(text)] = ReadSoFar(text, Len(text))
  BY <1>2, <1>7 DEF so
<1>9. read[Len(text)].val = text
  <2>1. SubSeq(text, 1, Len(text)) = text
    OBVIOUS
  <2> QED
    BY <1>8, <2>1 DEF ReadSoFar
<1> QED
  BY <1>1, <1>9 DEF Ok, Throws

\* What libpq has read of a text without backslashes that begins with no blank; first is
\* where its first blank stands.
Stray(text, first, i) == \E k \in first..i : text[k] # Space
NameSoFar(text, first, i) ==
  [val |-> SubSeq(text, 1, IF i < first THEN i ELSE first - 1), begun |-> i > 0,
   escaped |-> FALSE, ended |-> first <= i, stray |-> Stray(text, first, i)]

LEMMA StrayGrows ==
  ASSUME NEW text, NEW first \in Nat, NEW i \in Nat, first < i
  PROVE  Stray(text, first, i) = (Stray(text, first, i - 1) \/ text[i] # Space)
<1>1. Stray(text, first, i) => Stray(text, first, i - 1) \/ text[i] # Space
  <2> SUFFICES ASSUME NEW k \in first..i, text[k] # Space, text[i] = Space
               PROVE  Stray(text, first, i - 1)
    BY DEF Stray
  <2>1. k # i
    OBVIOUS
  <2>2. k \in first..i - 1
    BY <2>1
  <2> QED
    BY <2>2 DEF Stray
<1>2. Stray(text, first, i - 1) => Stray(text, first, i)
  <2> SUFFICES ASSUME NEW k \in first..i - 1, text[k] # Space PROVE Stray(text, first, i)
    BY DEF Stray
  <2>1. k \in first..i
    OBVIOUS
  <2> QED
    BY <2>1 DEF Stray
<1>3. text[i] # Space => Stray(text, first, i)
  <2>1. i \in first..i
    OBVIOUS
  <2> QED
    BY <2>1 DEF Stray
<1>4. Stray(text, first, i) \in BOOLEAN /\ Stray(text, first, i - 1) \in BOOLEAN
  BY DEF Stray
<1> QED
  BY <1>1, <1>2, <1>3, <1>4

NameRead(r, val, begun, escaped, ended, stray) ==
  r = [val |-> val, begun |-> begun, escaped |-> escaped, ended |-> ended, stray |-> stray]

LEMMA NameVal ==
  ASSUME NEW v, NEW b, NEW g, NEW e, NEW f, NEW r, NameRead(r, v, b, g, e, f)
  PROVE  r.val = v
  BY DEF NameRead

LEMMA NameBegun ==
  ASSUME NEW v, NEW b, NEW g, NEW e, NEW f, NEW r, NameRead(r, v, b, g, e, f)
  PROVE  r.begun = b
  BY DEF NameRead

LEMMA NameEscaped ==
  ASSUME NEW v, NEW b, NEW g, NEW e, NEW f, NEW r, NameRead(r, v, b, g, e, f)
  PROVE  r.escaped = g
  BY DEF NameRead

LEMMA NameEnded ==
  ASSUME NEW v, NEW b, NEW g, NEW e, NEW f, NEW r, NameRead(r, v, b, g, e, f)
  PROVE  r.ended = e
  BY DEF NameRead

LEMMA NameStray ==
  ASSUME NEW v, NEW b, NEW g, NEW e, NEW f, NEW r, NameRead(r, v, b, g, e, f)
  PROVE  r.stray = f
  BY DEF NameRead

LEMMA NameBegins ==
  ASSUME NEW v, NEW b, NEW g, NEW e, NEW f, NEW x, NEW r, NameRead(r, v, b, g, e, f)
  PROVE  NameRead([r EXCEPT !.begun = x], v, x, g, e, f)
  BY DEF NameRead

LEMMA NameTakes ==
  ASSUME NEW v, NEW b, NEW g, NEW e, NEW f, NEW x, NEW r, NameRead(r, v, b, g, e, f)
  PROVE  NameRead([r EXCEPT !.val = x], x, b, g, e, f)
  BY DEF NameRead

LEMMA NameEnds ==
  ASSUME NEW v, NEW b, NEW g, NEW e, NEW f, NEW x, NEW r, NameRead(r, v, b, g, e, f)
  PROVE  NameRead([r EXCEPT !.ended = x], v, b, g, x, f)
  BY DEF NameRead

LEMMA NameStrays ==
  ASSUME NEW v, NEW b, NEW g, NEW e, NEW f, NEW x, NEW r, NameRead(r, v, b, g, e, f)
  PROVE  NameRead([r EXCEPT !.stray = x], v, b, g, e, x)
  BY DEF NameRead

LEMMA NameGrows ==
  ASSUME NEW v, NEW b, NEW g, NEW e, NEW f, NEW x, NEW w, NEW r, NameRead(r, v, b, g, e, f)
  PROVE  NameRead([r EXCEPT !.begun = w, !.val = x], x, w, g, e, f)
<1> DEFINE h == [r EXCEPT !.begun = w]
<1>1. NameRead(h, v, w, g, e, f)
  BY NameBegins, Zenon
<1>2. [r EXCEPT !.begun = w, !.val = x] = [h EXCEPT !.val = x]
  BY Zenon
<1> HIDE DEF h
<1>3. NameRead([h EXCEPT !.val = x], x, w, g, e, f)
  BY <1>1, NameTakes, Zenon
<1> QED
  BY <1>2, <1>3, Zenon

LEMMA NameSoFarIs ==
  ASSUME NEW text, NEW first \in Nat, NEW i \in Nat
  PROVE  /\ i < first => NameRead(NameSoFar(text, first, i), SubSeq(text, 1, i),
                  i > 0, FALSE, FALSE, FALSE)
         /\ first <= i => NameRead(NameSoFar(text, first, i), SubSeq(text, 1, first - 1),
                  i > 0, FALSE, TRUE, Stray(text, first, i))
<1>1. ASSUME i < first
      PROVE  NameRead(NameSoFar(text, first, i), SubSeq(text, 1, i),
                  i > 0, FALSE, FALSE, FALSE)
  <2>1. (first <= i) = FALSE
    BY <1>1
  <2>2. Stray(text, first, i) = FALSE
    BY <1>1 DEF Stray
  <2> QED
    BY <1>1, <2>1, <2>2, Zenon DEF NameSoFar, NameRead
<1>2. ASSUME first <= i
      PROVE  NameRead(NameSoFar(text, first, i), SubSeq(text, 1, first - 1),
                  i > 0, FALSE, TRUE, Stray(text, first, i))
  <2>1. (first <= i) = TRUE /\ (i < first) = FALSE
    BY <1>2
  <2> QED
    BY <2>1, Zenon DEF NameSoFar, NameRead
<1> QED
  BY <1>1, <1>2, Zenon

LEMMA FirstBlank ==
  ASSUME NEW text \in Seq(Int)
  PROVE  \E first \in 1..Len(text) + 1 :
           /\ \A j \in 1..first - 1 : text[j] # Space
           /\ first <= Len(text) => text[first] = Space
<1> DEFINE n == Len(text)  blanks == {j \in 1..n : text[j] = Space}  stops == blanks \cup {n + 1}
<1>1. n \in Nat /\ stops \in SUBSET Nat /\ n + 1 \in stops
  OBVIOUS
<1>2. Min(stops) \in stops /\ \A j \in stops : Min(stops) <= j
  BY <1>1, Least
<1> DEFINE first == Min(stops)
<1> HIDE DEF first
<1>3. first \in stops /\ \A j \in stops : first <= j
  BY <1>2 DEF first
<1>4. first \in 1..n + 1 /\ (first <= n => text[first] = Space)
  BY <1>1, <1>3
<1>5. \A j \in 1..first - 1 : text[j] # Space
  BY <1>1, <1>3, <1>4
<1> QED
  BY <1>4, <1>5

\* libpq reads a text that has no backslash and neither begins nor ends with a blank as
\* it is, or not at all.
LEMMA UnquotedIs ==
  ASSUME NEW text \in Seq(Int), ~Contains(text, Backslash), text # <<>>,
         text[1] # Space, text[Len(text)] # Space, NEW next,
         Unquoted(text, next).how = "ok"
  PROVE  Unquoted(text, next).val = text
<1> DEFINE Read(r, c) ==
        IF r.ended THEN [r EXCEPT !.stray = @ \/ c # Space]
        ELSE IF r.escaped THEN [r EXCEPT !.val = Append(@, c), !.escaped = FALSE]
        ELSE IF c = Space THEN [r EXCEPT !.ended = r.begun]
        ELSE IF c = Backslash THEN [r EXCEPT !.begun = TRUE, !.escaped = TRUE]
        ELSE [r EXCEPT !.begun = TRUE, !.val = Append(@, c)]
      none == [val |-> <<>>, begun |-> FALSE, escaped |-> FALSE, ended |-> FALSE, stray |-> FALSE]
      Whole(f) == [i \in 0..Len(text) |-> IF i = 0 THEN none ELSE Read(f[i - 1], text[i])]
      read == CHOOSE f : f = Whole(f)
      end == read[Len(text)]
<1>1. Unquoted(text, next) =
        IF end.stray THEN Throws
        ELSE IF ~end.begun THEN Ok(next)
        ELSE IF end.escaped /\ next # <<>> THEN Ok(end.val \o <<Space>> \o next)
        ELSE Ok(end.val)
  BY Zenon DEF Unquoted
<1>2. Len(text) \in Nat /\ Len(text) > 0 /\ \A i \in 1..Len(text) : text[i] # Backslash
  BY DEF Contains
<1>3. PICK first \in 1..Len(text) + 1 :
        /\ \A j \in 1..first - 1 : text[j] # Space
        /\ first <= Len(text) => text[first] = Space
  BY FirstBlank
<1>4. first \in Nat /\ first > 1
  BY <1>2, <1>3
<1> DEFINE So(i) == NameSoFar(text, first, i)
           so == [i \in 0..Len(text) |-> So(i)]
<1>5. So(0) = none
  <2>1. SubSeq(text, 1, 0) = <<>>
    BY SubSeqEmpty
  <2>2. 0 < first /\ 0 \in Nat /\ (0 > 0) = FALSE
    BY <1>4
  <2>3. NameRead(So(0), SubSeq(text, 1, 0),
                  0 > 0, FALSE, FALSE, FALSE)
    BY <1>4, <2>2, NameSoFarIs, Zenon
  <2> QED
    BY <2>1, <2>2, <2>3, Zenon DEF NameRead
<1>6. ASSUME NEW i \in 1..Len(text)
      PROVE  Read(So(i - 1), text[i]) = So(i)
  <2> DEFINE c == text[i]  before == So(i - 1)
  <2>1. c # Backslash /\ i \in Nat /\ i - 1 \in Nat /\ (i > 0) = TRUE
    BY <1>2
  <2>2. CASE i < first
    <3>1. Append(SubSeq(text, 1, i - 1), c) = SubSeq(text, 1, i)
      BY <1>6, TextGrows
    <3>2. c # Space /\ i - 1 < first
      BY <1>3, <1>4, <2>1, <2>2
    <3>3. NameRead(So(i), SubSeq(text, 1, i),
                  i > 0, FALSE, FALSE, FALSE)
      BY <1>4, <2>1, <2>2, NameSoFarIs, Zenon
    <3>4. NameRead(before, SubSeq(text, 1, i - 1),
                  i - 1 > 0, FALSE, FALSE, FALSE)
      BY <1>4, <2>1, <3>2, NameSoFarIs, Zenon
    <3> HIDE DEF c, before, So
    <3>5a. before.val = SubSeq(text, 1, i - 1)
      BY <3>4 DEF NameRead
    <3>5b. before.escaped = FALSE
      BY <3>4, NameEscaped, Zenon
    <3>5c. before.ended = FALSE
      BY <3>4, NameEnded, Zenon
    <3>5. before.val = SubSeq(text, 1, i - 1) /\ ~before.escaped /\ ~before.ended
      BY <3>5a, <3>5b, <3>5c
    <3>6. Read(before, c) = [before EXCEPT !.begun = TRUE, !.val = Append(@, c)]
      BY <2>1, <3>2, <3>5, Zenon
    <3>7. NameRead([before EXCEPT !.begun = TRUE, !.val = Append(before.val, c)],
                 Append(before.val, c), TRUE, FALSE, FALSE, FALSE)
      BY <3>4, NameGrows, Zenon
    <3> HIDE DEF Read
    <3> QED
      BY <2>1, <3>1, <3>3, <3>5, <3>6, <3>7, Zenon DEF c, before, NameRead
  <2>3. CASE i = first
    <3>1. c = Space /\ i - 1 < first /\ first <= i /\ first - 1 = i - 1 /\ (i - 1 > 0) = TRUE
      BY <1>2, <1>3, <1>4, <2>1, <2>3
    <3>2. Stray(text, first, i) = FALSE
      BY <1>4, <2>3, <3>1 DEF Stray
    <3>3. NameRead(So(i), SubSeq(text, 1, first - 1),
                  i > 0, FALSE, TRUE, Stray(text, first, i))
      BY <1>4, <2>1, <3>1, NameSoFarIs, Zenon
    <3>4. NameRead(before, SubSeq(text, 1, i - 1),
                  i - 1 > 0, FALSE, FALSE, FALSE)
      BY <1>4, <2>1, <3>1, NameSoFarIs, Zenon
    <3> HIDE DEF c, before, So
    <3>5a. before.begun = (i - 1 > 0)
      BY <3>4, NameBegun, Zenon
    <3>5b. before.escaped = FALSE
      BY <3>4, NameEscaped, Zenon
    <3>5c. before.ended = FALSE
      BY <3>4, NameEnded, Zenon
    <3>5. before.begun = (i - 1 > 0) /\ ~before.escaped /\ ~before.ended
      BY <3>5a, <3>5b, <3>5c, Zenon
    <3>6. Read(before, c) = [before EXCEPT !.ended = before.begun]
      BY <3>1, <3>5, Zenon
    <3>7. NameRead([before EXCEPT !.ended = before.begun], SubSeq(text, 1, i - 1),
                 i - 1 > 0, FALSE, before.begun, FALSE)
      BY <3>4, NameEnds, Zenon
    <3> HIDE DEF Read
    <3> QED
      BY <2>1, <3>1, <3>2, <3>3, <3>5, <3>6, <3>7, Zenon DEF c, before, NameRead
  <2>4. CASE i > first
    <3>1. first <= i - 1 /\ first <= i /\ (i - 1 > 0) = TRUE
      BY <1>4, <2>1, <2>4
    <3>2. Stray(text, first, i) = (Stray(text, first, i - 1) \/ c # Space)
      BY <1>4, <2>1, <2>4, StrayGrows
    <3>3. NameRead(So(i), SubSeq(text, 1, first - 1),
                  i > 0, FALSE, TRUE, Stray(text, first, i))
      BY <1>4, <2>1, <3>1, NameSoFarIs, Zenon
    <3>4. NameRead(before, SubSeq(text, 1, first - 1),
                  i - 1 > 0, FALSE, TRUE, Stray(text, first, i - 1))
      BY <1>4, <2>1, <3>1, NameSoFarIs, Zenon
    <3> HIDE DEF c, before, So
    <3>5. before.ended = TRUE /\ before.stray = Stray(text, first, i - 1)
      BY <3>4, NameEnded, NameStray, Zenon
    <3>6. Read(before, c) = [before EXCEPT !.stray = @ \/ c # Space]
      BY <3>5, Zenon
    <3>7. NameRead([before EXCEPT !.stray = before.stray \/ c # Space], SubSeq(text, 1, first - 1),
                 i - 1 > 0, FALSE, TRUE, before.stray \/ c # Space)
      BY <3>4, NameStrays, Zenon
    <3> HIDE DEF Read
    <3> QED
      BY <2>1, <3>1, <3>2, <3>3, <3>5, <3>6, <3>7, Zenon DEF c, before, NameRead
  <2> QED
    BY <1>4, <2>1, <2>2, <2>3, <2>4
<1> HIDE DEF Read, none, So
<1>7. so = Whole(so)
  <2>1. ASSUME NEW i \in 0..Len(text), i # 0
        PROVE  i \in 1..Len(text) /\ i - 1 \in 0..Len(text)
    BY <1>2, <2>1
  <2>2. ASSUME NEW i \in 0..Len(text)
        PROVE  so[i] = IF i = 0 THEN none ELSE Read(so[i - 1], text[i])
    BY <1>5, <1>6, <2>1
  <2> QED
    BY <2>2
<1>8. read = Whole(read)
  BY <1>7
<1> HIDE DEF read, so
<1>9. \A i \in 0..Len(text) : read[i] = so[i]
  <2> SUFFICES ASSUME NEW k \in 0..Len(text), read[k] # so[k] PROVE FALSE
    OBVIOUS
  <2> DEFINE bad == {i \in 0..Len(text) : read[i] # so[i]}  m == Min(bad)
  <2>1. bad \in SUBSET Nat /\ k \in bad
    BY <1>2
  <2>2. m \in bad /\ \A n \in bad : m <= n
    BY <2>1, Least
  <2> HIDE DEF m
  <2>3. m \in 0..Len(text) /\ read[m] # so[m]
    BY <2>2
  <2>4. read[m] = IF m = 0 THEN none ELSE Read(read[m - 1], text[m])
    BY <1>8, <2>3
  <2>5. so[m] = IF m = 0 THEN none ELSE Read(so[m - 1], text[m])
    BY <1>7, <2>3
  <2>6. m # 0 => m - 1 \in 0..Len(text) /\ m - 1 \notin bad
    BY <1>2, <2>2, <2>3
  <2>7. m # 0 => read[m - 1] = so[m - 1]
    BY <2>6
  <2> QED
    BY <2>3, <2>4, <2>5, <2>7
<1>10. end = NameSoFar(text, first, Len(text))
  BY <1>2, <1>9 DEF so, So
<1> HIDE DEF end
<1>11. CASE first <= Len(text)
  <2>1. NameRead(end, SubSeq(text, 1, first - 1),
                  Len(text) > 0, FALSE, TRUE, Stray(text, first, Len(text)))
    BY <1>2, <1>4, <1>10, <1>11, NameSoFarIs, Zenon
  <2>2. first # Len(text)
    BY <1>3, <1>11
  <2>3. Stray(text, first, Len(text))
    BY <1>2, <1>4, <1>11 DEF Stray
  <2>4. end.stray
    BY <2>1, <2>3, NameStray, Zenon
  <2>5. Unquoted(text, next) = Throws
    BY <1>1, <2>4, Zenon
  <2> QED
    BY <2>5 DEF Throws
<1>12. CASE ~(first <= Len(text))
  <2>1. Len(text) < first /\ SubSeq(text, 1, Len(text)) = text /\ (Len(text) > 0) = TRUE
    BY <1>2, <1>4, <1>12
  <2>2. end.val = text /\ end.begun /\ ~end.escaped /\ ~end.stray
    <3>1. NameRead(end, SubSeq(text, 1, Len(text)),
                  Len(text) > 0, FALSE, FALSE, FALSE)
      BY <1>2, <1>4, <1>10, <2>1, NameSoFarIs, Zenon
    <3>2. end.val = SubSeq(text, 1, Len(text))
      BY <3>1 DEF NameRead
    <3>3. end.begun = (Len(text) > 0)
      BY <3>1, NameBegun, Zenon
    <3>4. end.escaped = FALSE
      BY <3>1, NameEscaped, Zenon
    <3>5. end.stray = FALSE
      BY <3>1, NameStray, Zenon
    <3> QED
      BY <2>1, <3>2, <3>3, <3>4, <3>5, Zenon
  <2>3. Unquoted(text, next) = Ok(text)
    BY <1>1, <2>2, Zenon
  <2> DEFINE r == Unquoted(text, next)
  <2> HIDE DEF r
  <2>4. r = Ok(text)
    BY <2>3, Zenon DEF r
  <2>5. r.val = text
    BY <2>4 DEF Ok
  <2> QED
    BY <2>5 DEF r
<1> QED
  BY <1>11, <1>12

\* The text an argument of text is read as.
LEMMA TextOfArgument ==
  ASSUME NEW any, IsAny(any), isString(any)
  PROVE  TextOf(any) \in Seq(Int)
<1>1. getString(any).how = "ok" /\ getString(any).val \in Seq(Int)
  BY TextOfString
<1>2. getString(any) = Ok(TextOf(any))
  <2>1. any.type \in StringTypes
    BY DEF isString
  <2>2. CASE any.type = "char"
    BY <2>2, StringCases, Zenon DEF TextOf
  <2>3. CASE any.type # "char"
    BY <2>1, <2>3, StringCases, Zenon DEF TextOf
  <2> QED
    BY <2>2, <2>3
<1> QED
  BY <1>1, <1>2 DEF Ok

\* What a server's session is asked for under a key of text in quotes.
LEMMA PgText ==
  ASSUME NEW args, NEW key, given(args, key) => IsAny(args[key]),
         PgArgument(argString(args, key, FALSE, <<>>)).how = "ok"
  PROVE  /\ given(args, key)
         /\ ~Contains(TextOf(args[key]), Backslash) =>
              PgArgument(argString(args, key, FALSE, <<>>)).val = TextOf(args[key])
<1> DEFINE r == argString(args, key, FALSE, <<>>)
<1>1. PgArgument(r) = IF r.how = "ok" THEN Quoted(r.val) ELSE r
  BY Zenon DEF PgArgument, Then
<1>2. r.how = "ok" /\ PgArgument(r) = Quoted(r.val)
  <2> HIDE DEF r
  <2> QED
    BY <1>1 DEF r
<1>3. given(args, key) /\ isString(args[key]) /\ r.val = TextOf(args[key])
  BY <1>2, StringArgument
<1>4. TextOf(args[key]) \in Seq(Int)
  BY <1>3, TextOfArgument
<1> HIDE DEF r
<1>5. ASSUME ~Contains(TextOf(args[key]), Backslash)
      PROVE  Quoted(r.val).val = TextOf(args[key])
  BY <1>2, <1>3, <1>4, <1>5, QuotedIs DEF r
<1> QED
  BY <1>2, <1>3, <1>5 DEF r

\* And for the database, which has none.
LEMMA PgName ==
  ASSUME NEW args, given(args, "database") => IsAny(args["database"]), NEW ssl \in BOOLEAN,
         PgDatabase(argString(args, "database", FALSE, <<>>), ssl).how = "ok"
  PROVE  /\ given(args, "database")
         /\ ReadAsWritten("database", TextOf(args["database"])) =>
              PgDatabase(argString(args, "database", FALSE, <<>>), ssl).val
                = TextOf(args["database"])
<1> DEFINE r == argString(args, "database", FALSE, <<>>)  d == PgDatabase(r, ssl)
           text == TextOf(args["database"])  next == IF ssl THEN NextParameter ELSE <<>>
<1>1. d = IF r.how = "ok" THEN IF r.val = <<>> THEN Ok(r.val) ELSE Unquoted(r.val, next) ELSE r
  BY Zenon DEF PgDatabase, Then
<1>2. r.how = "ok"
  <2> HIDE DEF r
  <2> QED
    BY <1>1 DEF r
<1>3. given(args, "database") /\ isString(args["database"]) /\ r.val = text
  BY <1>2, StringArgument
<1>4. text \in Seq(Int)
  BY <1>3, TextOfArgument
<1> HIDE DEF r, text, next
<1>5. d = IF text = <<>> THEN Ok(text) ELSE Unquoted(text, next)
  BY <1>1, <1>2, <1>3
<1>6. d.how = "ok"
  BY DEF r
<1> HIDE DEF d
<1>7. ASSUME ReadAsWritten("database", text) PROVE d.val = text
  <2>1. CASE text = <<>>
    BY <1>5, <2>1 DEF Ok
  <2>2. CASE text # <<>>
    <3>1. ~Contains(text, Backslash) /\ text[1] # Space /\ text[Len(text)] # Space
      BY <1>7, <2>2 DEF ReadAsWritten, Last
    <3>2. d = Unquoted(text, next)
      BY <1>5, <2>2
    <3> QED
      BY <1>4, <1>6, <2>2, <3>1, <3>2, UnquotedIs
  <2> QED
    BY <2>1, <2>2
<1> QED
  BY <1>3, <1>7 DEF d, r, text

\* An integer as an int.
LEMMA IntegerAsInt ==
  ASSUME NEW any, IsAny(any), isInteger(any)
  PROVE  getInteger(any, "int") = Ok(<<Wrap(any.val[1], "int")>>)
<1>1. any.type \in Signed \cup Unsigned /\ any.val[1] \in RangeOf(any.type)
  BY DEF isInteger, IsAny
<1>2. any.val[1] # Garbage
  BY <1>1, RangeType
<1>3. hasValue(any) /\ ~isFloat(any) /\ any.type \in Signed \cup Unsigned \cup FloatTypes \cup {"bool"}
      /\ "int" \notin FloatTypes
  BY <1>1 DEF hasValue, isFloat, FloatTypes, Signed, Unsigned
<1>4. Cast(any, "int") = Ok(<<Wrap(any.val[1], "int")>>)
  BY <1>3, CastCases
<1> QED
  BY <1>3, <1>4, Zenon DEF getInteger

LEMMA ShortInInt ==
  RangeOf("unsigned_short") \subseteq RangeOf("int")
<1>1. RangeOf("unsigned_short") = 0 .. ShortSize - 1
  BY DEF RangeOf, Unsigned, Size
<1>2. RangeOf("int") = -(IntSize \div 2) .. IntSize \div 2 - 1
  BY DEF RangeOf, Unsigned, Size
<1>3. ShortSize \in Nat /\ IntSize \div 2 \in Nat /\ ShortSize <= IntSize \div 2
  BY TextAssumption, Halves
<1> QED
  BY <1>1, <1>2, <1>3

\* The port that is asked for.
LEMMA PortAsked ==
  ASSUME NEW args, given(args, "port") => IsAny(args["port"]), NEW n \in Nat,
         NEW def, def = <<n % ShortSize>>, argInt(args, "port", TRUE, def).how = "ok"
  PROVE  IF given(args, "port")
           THEN /\ args["port"].type \in Signed \cup Unsigned
                /\ args["port"].val[1] \in RangeOf("unsigned_short") =>
                     Port(argInt(args, "port", TRUE, def).val[1]) = args["port"].val[1]
           ELSE Port(argInt(args, "port", TRUE, def).val[1]) = def[1]
<1> DEFINE port == args["port"]  r == argInt(args, "port", TRUE, def)
<1>1. CASE given(args, "port")
  <2>1. isInteger(port) /\ r = getInteger(port, "int") /\ IsAny(port)
    BY <1>1, IntArgument
  <2>2. r = Ok(<<Wrap(port.val[1], "int")>>)
    BY <2>1, IntegerAsInt
  <2>3. r.val[1] = Wrap(port.val[1], "int")
    <3> HIDE DEF r, port
    <3> QED
      BY <2>2 DEF Ok
  <2>4. ASSUME port.val[1] \in RangeOf("unsigned_short")
        PROVE  Port(r.val[1]) = port.val[1]
    BY <2>3, <2>4, ShortInInt, WrapKeeps DEF Port
  <2>5. port.type \in Signed \cup Unsigned
    BY <2>1 DEF isInteger
  <2> QED
    BY <1>1, <2>4, <2>5
<1>2. CASE ~given(args, "port")
  <2>1. r.val = def
    BY <1>2, IntArgument
  <2>2. RangeOf("unsigned_short") = 0 .. ShortSize - 1
    BY DEF RangeOf, Unsigned, Size
  <2>3. n % ShortSize \in 0 .. ShortSize - 1
    BY TextAssumption
  <2>4. Port(n % ShortSize) = n % ShortSize
    BY <2>2, <2>3, WrapKeeps DEF Port
  <2>5. def[1] = n % ShortSize
    OBVIOUS
  <2> QED
    BY <1>2, <2>1, <2>4, <2>5, Zenon
<1> QED
  BY <1>1, <1>2

\* A connection is asked for as the arguments say.
AsksAs(k, args, request) ==
  /\ \A key \in {"host", "user", "passwd", "database"} \cap DOMAIN args :
       (k = POSTGRESQL => ReadAsWritten(key, TextOf(args[key]))) =>
         request[key] = TextOf(args[key])
  /\ IF given(args, "port")
       THEN /\ args["port"].type \in Signed \cup Unsigned
            /\ args["port"].val[1] \in RangeOf("unsigned_short") =>
                 request.port = args["port"].val[1]
       ELSE request.port = PortOf(k)[1]
  /\ request.ssl => given(args, "sslmode") /\ TextOf(args["sslmode"]) # Disable

LEMMA ServerAsked ==
  ASSUME NEW k \in {MYSQL, POSTGRESQL}, NEW args, NEW exists,
         \A key \in DOMAIN args : IsAny(args[key]), NEW request,
         OpenAs(k, args, exists).how = "ok", request = OpenAs(k, args, exists).val
  PROVE  AsksAs(k, args, request)
<1> DEFINE Opened == IF k = MYSQL THEN MySQLOpen(args, PortOf(k))
                     ELSE PgSQLOpen(args, PortOf(k), <<20 % ShortSize>>)
           port == argInt(args, "port", TRUE, PortOf(k))
<1>1. Opened.how = "ok" /\ request = Opened.val
  <2>1. OpenAs(k, args, exists) =
          IF Opened.how = "ok" THEN IF exists THEN Ok(Opened.val) ELSE Throws ELSE Opened
    BY OpenCases DEF MYSQL, POSTGRESQL
  <2> HIDE DEF Opened
  <2> QED
    BY <2>1 DEF Ok, Throws
<1>2. \A key : given(args, key) <=> key \in DOMAIN args
  BY DEF given
<1>3. \A key : given(args, key) => IsAny(args[key])
  BY <1>2
<1>4. port.how = "ok" =>
        IF given(args, "port")
          THEN /\ args["port"].type \in Signed \cup Unsigned
               /\ args["port"].val[1] \in RangeOf("unsigned_short") =>
                    Port(port.val[1]) = args["port"].val[1]
          ELSE Port(port.val[1]) = PortOf(k)[1]
  <2>1. PortOf(k) = <<3306 % ShortSize>> \/ PortOf(k) = <<5432 % ShortSize>>
    BY DEF PortOf
  <2> DEFINE def == PortOf(k)
  <2> HIDE DEF def
  <2>2. def = <<3306 % ShortSize>> \/ def = <<5432 % ShortSize>>
    BY <2>1 DEF def
  <2>3. 3306 \in Nat /\ 5432 \in Nat
    OBVIOUS
  <2>4. PICK n \in Nat : def = <<n % ShortSize>>
    <3>1. CASE def = <<3306 % ShortSize>>
      BY <3>1
    <3>2. CASE def = <<5432 % ShortSize>>
      BY <3>2
    <3> QED
      BY <2>2, <3>1, <3>2
  <2>5. given(args, "port") => IsAny(args["port"])
    BY <1>3
  <2> QED
    BY <2>4, <2>5, PortAsked, Zenon DEF def
<1>5. CASE k = MYSQL
  <2> DEFINE host   == argString(args, "host", FALSE, <<>>)
             db     == argString(args, "database", TRUE, <<>>)
             user   == argString(args, "user", FALSE, <<>>)
             passwd == argString(args, "passwd", FALSE, <<>>)
             asked == [host |-> host.val, port |-> Port(port.val[1]), database |-> db.val,
                       user |-> user.val, passwd |-> passwd.val, ssl |-> FALSE]
  <2>1. Opened = Request({host, port, db, user, passwd}, asked)
    BY <1>5, Zenon DEF MySQLOpen
  <2>2. request = asked /\ host.how = "ok" /\ port.how = "ok" /\ db.how = "ok"
        /\ user.how = "ok" /\ passwd.how = "ok"
    <3> HIDE DEF host, db, user, passwd, asked, port, Opened
    <3> QED
      BY <1>1, <2>1, RequestCases
  <2>3. given(args, "host") => host.val = TextOf(args["host"])
    BY <2>2, StringArgument
  <2>4. given(args, "user") => user.val = TextOf(args["user"])
    BY <2>2, StringArgument
  <2>5. given(args, "passwd") => passwd.val = TextOf(args["passwd"])
    BY <2>2, StringArgument
  <2>6. given(args, "database") => db.val = TextOf(args["database"])
    BY <2>2, StringArgument
  <2>7. /\ request["host"] = host.val /\ request["user"] = user.val
        /\ request["passwd"] = passwd.val /\ request["database"] = db.val
        /\ request.port = Port(port.val[1]) /\ request.ssl = FALSE
    <3> HIDE DEF host, db, user, passwd, port
    <3> QED
      BY <2>2
  <2> HIDE DEF host, db, user, passwd, port, asked, Opened
  <2> QED
    BY <1>2, <1>4, <2>2, <2>3, <2>4, <2>5, <2>6, <2>7 DEF AsksAs
<1>6. CASE k = POSTGRESQL
  <2> DEFINE host    == PgArgument(argString(args, "host", FALSE, <<>>))
             user    == PgArgument(argString(args, "user", FALSE, <<>>))
             passwd  == PgArgument(argString(args, "passwd", FALSE, <<>>))
             timeout == argInt(args, "timeout", TRUE, <<20 % ShortSize>>)
             sslmode == argString(args, "sslmode", TRUE, Disable)
             files   == {argString(args, key, TRUE, <<Letter>>) :
                           key \in {"sslkey", "sslcert", "sslrootcert", "sslcrl"}}
             compression == argBool(args, "sslcompression", TRUE, True)
             ssl     == sslmode.val # Disable
             db      == PgDatabase(argString(args, "database", FALSE, <<>>), ssl)
             asked == [host |-> host.val, port |-> Port(port.val[1]), database |-> db.val,
                       user |-> user.val, passwd |-> passwd.val, ssl |-> ssl]
             all == {host, port, db, user, passwd, timeout, sslmode}
                      \cup (IF ssl THEN files \cup {compression} ELSE {})
  <2>1. Opened = Request(all, asked)
    <3>1. k # MYSQL
      BY <1>6 DEF MYSQL, POSTGRESQL
    <3> QED
      BY <3>1, Zenon DEF PgSQLOpen
  <2>2. request = asked /\ host.how = "ok" /\ port.how = "ok" /\ db.how = "ok"
        /\ user.how = "ok" /\ passwd.how = "ok" /\ sslmode.how = "ok"
    <3>1. {host, port, db, user, passwd, sslmode} \subseteq all
      <4> HIDE DEF host, db, user, passwd, port, timeout, sslmode, files, compression
      <4> QED
        OBVIOUS
    <3> HIDE DEF host, db, user, passwd, asked, port, Opened, timeout, sslmode, all
    <3> QED
      BY <1>1, <2>1, <3>1, RequestCases
  <2>3. ~Contains(TextOf(args["host"]), Backslash) => host.val = TextOf(args["host"])
    BY <1>3, <2>2, PgText
  <2>4. ~Contains(TextOf(args["user"]), Backslash) => user.val = TextOf(args["user"])
    BY <1>3, <2>2, PgText
  <2>5. ~Contains(TextOf(args["passwd"]), Backslash) => passwd.val = TextOf(args["passwd"])
    BY <1>3, <2>2, PgText
  <2>6. ReadAsWritten("database", TextOf(args["database"])) => db.val = TextOf(args["database"])
    <3> HIDE DEF ssl
    <3>1. ssl \in BOOLEAN
      BY DEF ssl
    <3> QED
      BY <1>3, <2>2, <3>1, PgName
  <2>7. ssl => given(args, "sslmode") /\ TextOf(args["sslmode"]) # Disable
    <3>1. IF given(args, "sslmode") THEN sslmode.val = TextOf(args["sslmode"])
          ELSE sslmode.val = Disable
      BY <2>2, StringArgument
    <3> HIDE DEF sslmode
    <3> QED
      BY <3>1, Zenon
  <2>8. /\ request["host"] = host.val /\ request["user"] = user.val
        /\ request["passwd"] = passwd.val /\ request["database"] = db.val
        /\ request.port = Port(port.val[1]) /\ request.ssl = ssl
    <3> HIDE DEF host, db, user, passwd, port, ssl
    <3> QED
      BY <2>2
  <2> HIDE DEF host, db, user, passwd, port, asked, Opened, ssl
  <2>9. \A key, text : ReadAsWritten(key, text) => ~Contains(text, Backslash)
    BY Zenon DEF ReadAsWritten
  <2> QED
    BY <1>4, <1>6, <2>2, <2>3, <2>4, <2>5, <2>6, <2>7, <2>8, <2>9 DEF AsksAs
<1> QED
  BY <1>5, <1>6

\* A connection is made to the host and port, as the user and to the database given.
THEOREM ConnectionAsAsked == Spec => []ConnectsAsAsked
<1>1. ASSUME Inv PROVE ConnectsAsAsked
  <2> SUFFICES ASSUME call.op = "open", kind \in {MYSQL, POSTGRESQL}, call.end = "ok"
               PROVE  ConnectsAsAsked
    BY Zenon DEF ConnectsAsAsked
  <2>1. /\ OpenAs(kind, call.args, call.exists).how = "ok"
        /\ call.request = OpenAs(kind, call.args, call.exists).val
        /\ call.args \in ServerArguments
    BY <1>1 DEF Inv, CallInv, OpenInv, SQLITE, MYSQL, POSTGRESQL
  <2>2. \A key \in DOMAIN call.args : IsAny(call.args[key])
    BY <2>1, UseAssumption
  <2>3. DefaultPort = PortOf(kind)
    BY DEF DefaultPort, PortOf
  <2>4. AsksAs(kind, call.args, call.request)
    BY <2>1, <2>2, ServerAsked
  <2> QED
    BY <2>3, <2>4, Zenon DEF AsksAs, ConnectsAsAsked
<1> QED
  BY <1>1, InvAlways, PTL

\* A part of a text, without its first character.
LEMMA PartBehind ==
  ASSUME NEW text \in Seq(Int), NEW j \in 0..Len(text), NEW a \in 1..j
  PROVE  /\ SubSeq(text, a, j) # <<>> /\ Head(SubSeq(text, a, j)) = text[a]
         /\ Tail(SubSeq(text, a, j)) = SubSeq(text, a + 1, j)
<1> DEFINE u == SubSeq(text, a, j)  v == SubSeq(text, a + 1, j)  w == Tail(u)
<1>1. Len(text) \in Nat /\ a \in Nat /\ j \in Nat /\ a <= j /\ j <= Len(text)
  OBVIOUS
<1>2. u \in Seq(Int) /\ Len(u) = j - a + 1 /\ \A k \in 1..j - a + 1 : u[k] = text[a + k - 1]
  BY <1>1
<1>3. v \in Seq(Int) /\ Len(v) = j - a /\ \A k \in 1..j - a : v[k] = text[a + k]
  BY <1>1
<1> HIDE DEF u, v
<1>4. u # <<>> /\ Head(u) = text[a]
  BY <1>1, <1>2
<1>5. w \in Seq(Int) /\ Len(w) = j - a /\ \A k \in 1..j - a : w[k] = u[k + 1]
  BY <1>1, <1>2, <1>4
<1> HIDE DEF w
<1>6. \A k \in 1..j - a : w[k] = v[k]
  <2> SUFFICES ASSUME NEW k \in 1..j - a PROVE w[k] = v[k]
    OBVIOUS
  <2>1. k + 1 \in 1..j - a + 1 /\ a + (k + 1) - 1 = a + k
    BY <1>1
  <2>2. w[k] = u[k + 1]
    BY <1>5
  <2>3. u[k + 1] = text[a + (k + 1) - 1]
    BY <1>2, <2>1
  <2>4. v[k] = text[a + k]
    BY <1>3
  <2> QED
    BY <2>1, <2>2, <2>3, <2>4
<1>7. w = v
  BY <1>3, <1>5, <1>6, SeqEqual
<1> QED
  BY <1>4, <1>7 DEF u, v, w

\* A number that stands in a text is what a stream reads there.
LEMMA ReadWritten ==
  ASSUME NEW text \in Seq(Int), NEW j \in 0..Len(text), NEW a \in 1..j, NEW b \in 1..j,
         Written(text, a, b)
  PROVE  TakeNumber(SubSeq(text, a, j)) =
           [val |-> NumberAt(text, a, b), good |-> TRUE, rest |-> SubSeq(text, b + 1, j)]
<1> DEFINE u == SubSeq(text, a, j)
<1>1. u # <<>> /\ Head(u) = text[a] /\ Tail(u) = SubSeq(text, a + 1, j)
  BY PartBehind
<1> HIDE DEF u
<1>2. CASE a = b
  <2>1. text[a] >= 0
    BY <1>2 DEF Written
  <2>2. text[a] # Dash /\ IsDigits(text[a]) /\ text[a] \in Int
    BY <2>1 DEF Dash, IsDigits
  <2>3. TakeNumber(u) = [val |-> text[a], good |-> TRUE, rest |-> Tail(u)]
    BY <1>1, <2>2, Zenon DEF TakeNumber
  <2> QED
    BY <1>1, <1>2, <2>3 DEF NumberAt, u
<1>3. CASE a # b
  <2>1. a + 1 = b /\ text[a] = Dash /\ text[b] >= 0
    BY <1>3 DEF Written
  <2> DEFINE v == SubSeq(text, b, j)
  <2>2. v # <<>> /\ Head(v) = text[b] /\ Tail(v) = SubSeq(text, b + 1, j)
    BY PartBehind
  <2>3. Tail(u) = v
    BY <1>1, <2>1
  <2> HIDE DEF v
  <2>4. IsDigits(text[b])
    BY <2>1 DEF IsDigits
  <2>5. TakeNumber(u) = [val |-> -text[b], good |-> TRUE, rest |-> Tail(v)]
    BY <1>1, <2>1, <2>2, <2>3, <2>4, Zenon DEF TakeNumber
  <2> QED
    BY <1>3, <2>2, <2>5 DEF NumberAt, u
<1> QED
  BY <1>2, <1>3

LEMMA WrittenOrder ==
  ASSUME NEW text, NEW a \in Int, NEW b \in Int, Written(text, a, b)
  PROVE  a <= b /\ b <= a + 1
BY DEF Written

\* A number that stands in a text, if it is an int, is what a stream reads there.
LEMMA ReadParts ==
  ASSUME NEW u, NEW x, NEW v, TakeNumber(u) = [val |-> x, good |-> TRUE, rest |-> v],
         x \in RangeOf("int")
  PROVE  ReadInt(u).val = x /\ ReadInt(u).good /\ ReadInt(u).rest = v
<1> DEFINE r == TakeNumber(u)
<1>1. ReadInt(u) = IF r.good /\ r.val \notin RangeOf("int")
                     THEN [val |-> Nearest(r.val, "int"), good |-> FALSE, rest |-> <<>>] ELSE r
  BY Zenon DEF ReadInt
<1> HIDE DEF r
<1>2. r = [val |-> x, good |-> TRUE, rest |-> v]
  BY DEF r
<1>3. ReadInt(u) = r
  <2>1. r.val \in RangeOf("int")
    BY <1>2
  <2> QED
    BY <1>1, <2>1, Zenon
<1> QED
  BY <1>2, <1>3

\* Fields are in their places up to the first that no int can hold.
LEMMA HoldsThree ==
  ASSUME NEW x, NEW y, NEW z, NEW p, NEW q, NEW r,
         x \in RangeOf("int") => p = x,
         x \in RangeOf("int") /\ y \in RangeOf("int") => q = y,
         x \in RangeOf("int") /\ y \in RangeOf("int") /\ z \in RangeOf("int") => r = z
  PROVE  Holds(<<p, q, r>>, <<x, y, z>>)
<1> DEFINE f == <<x, y, z>>  read == <<p, q, r>>
<1>1. f[1] = x /\ f[2] = y /\ f[3] = z /\ read[1] = p /\ read[2] = q /\ read[3] = r
  OBVIOUS
<1> HIDE DEF f, read
<1>2. ASSUME NEW k \in 1..3, \A i \in 1..k : f[i] \in RangeOf("int") PROVE read[k] = f[k]
  <2>1. CASE k = 1
    BY <1>1, <1>2, <2>1
  <2>2. CASE k = 2
    BY <1>1, <1>2, <2>2
  <2>3. CASE k = 3
    BY <1>1, <1>2, <2>3
  <2> QED
    BY <2>1, <2>2, <2>3
<1> QED
  BY <1>2, Zenon DEF Holds, f, read

\* Three numbers that stand in a part of a text are what a stream reads there, up to the
\* first that is no int.
LEMMA FieldsWritten ==
  ASSUME NEW text \in Seq(Int), NEW j \in 0..Len(text), NEW i \in Nat, 1 <= i,
         NEW f \in FieldsBetween(text, i, j)
  PROVE  Holds(ReadFields(SubSeq(text, i, j)), f) /\ i + 4 <= j
<1>1. PICK p \in (i..j) \X (i..j) :
        /\ Written(text, i, p[1]) /\ Written(text, p[1] + 2, p[2]) /\ Written(text, p[2] + 2, j)
        /\ f = <<NumberAt(text, i, p[1]), NumberAt(text, p[1] + 2, p[2]),
                 NumberAt(text, p[2] + 2, j)>>
  BY DEF FieldsBetween
<1> DEFINE a == p[1]  b == p[2]
<1>2. a \in i..j /\ b \in i..j
  OBVIOUS
<1> HIDE DEF a, b
<1>3. Written(text, i, a) /\ Written(text, a + 2, b) /\ Written(text, b + 2, j)
  BY <1>1 DEF a, b
<1>4. f = <<NumberAt(text, i, a), NumberAt(text, a + 2, b), NumberAt(text, b + 2, j)>>
  BY <1>1 DEF a, b
<1>5. /\ i \in Int /\ j \in Int /\ a \in Int /\ b \in Int
      /\ i <= a /\ a + 2 <= b /\ b + 2 <= j /\ 1 <= i /\ j <= Len(text)
  <2>1. i \in Int /\ j \in Int /\ a \in Int /\ b \in Int /\ 1 <= i /\ j <= Len(text) /\ i <= a
    BY <1>2
  <2>2. a + 2 <= b
    BY <1>3, <2>1, WrittenOrder
  <2>3. b + 2 <= j
    BY <1>3, <2>1, WrittenOrder
  <2> QED
    BY <2>1, <2>2, <2>3
<1> DEFINE a2 == a + 2  b2 == b + 2
<1>5a. i \in 1..j /\ a \in 1..j /\ a2 \in 1..j /\ b \in 1..j /\ b2 \in 1..j /\ j \in 1..j
  BY <1>5
<1> HIDE DEF a2, b2
<1>5b. Written(text, i, a) /\ Written(text, a2, b) /\ Written(text, b2, j)
  BY <1>3 DEF a2, b2
<1>6. TakeNumber(SubSeq(text, i, j)) =
        [val |-> NumberAt(text, i, a), good |-> TRUE, rest |-> SubSeq(text, a + 1, j)]
  BY <1>5a, <1>5b, ReadWritten
<1>7. TakeNumber(SubSeq(text, a + 2, j)) =
        [val |-> NumberAt(text, a + 2, b), good |-> TRUE, rest |-> SubSeq(text, b + 1, j)]
  BY <1>5a, <1>5b, ReadWritten DEF a2
<1>8. TakeNumber(SubSeq(text, b + 2, j)) =
        [val |-> NumberAt(text, b + 2, j), good |-> TRUE, rest |-> SubSeq(text, j + 1, j)]
  BY <1>5a, <1>5b, ReadWritten DEF b2
<1>9. SubSeq(text, a + 1, j) # <<>> /\ Tail(SubSeq(text, a + 1, j)) = SubSeq(text, a + 2, j)
  <2>1. a + 1 \in 1..j /\ (a + 1) + 1 = a + 2
    BY <1>5
  <2> QED
    BY <2>1, PartBehind
<1>10. SubSeq(text, b + 1, j) # <<>> /\ Tail(SubSeq(text, b + 1, j)) = SubSeq(text, b + 2, j)
  <2>1. b + 1 \in 1..j /\ (b + 1) + 1 = b + 2
    BY <1>5
  <2> QED
    BY <2>1, PartBehind
<1>11. Holds(ReadFields(SubSeq(text, i, j)),
             <<NumberAt(text, i, a), NumberAt(text, a + 2, b), NumberAt(text, b + 2, j)>>)
  <2> DEFINE u == SubSeq(text, i, j)  v == SubSeq(text, a + 1, j)  w == SubSeq(text, b + 1, j)
             v2 == SubSeq(text, a + 2, j)  w2 == SubSeq(text, b + 2, j)
             x == NumberAt(text, i, a)  y == NumberAt(text, a + 2, b)  z == NumberAt(text, b + 2, j)
             ints == RangeOf("int")
             More(r) == IF r.good /\ r.rest # <<>> THEN ReadInt(Tail(r.rest)) ELSE ReadInt(<<>>)
  <2> HIDE DEF u, v, w, v2, w2, x, y, z, ints
  <2>1. x \in ints => ReadInt(u).val = x /\ ReadInt(u).good /\ ReadInt(u).rest = v
    BY <1>6, ReadParts, Zenon DEF u, v, x, ints
  <2>2. y \in ints => ReadInt(v2).val = y /\ ReadInt(v2).good /\ ReadInt(v2).rest = w
    BY <1>7, ReadParts, Zenon DEF v2, w, y, ints
  <2>3. z \in ints => ReadInt(w2).val = z
    BY <1>8, ReadParts, Zenon DEF w2, z, ints
  <2>4. v # <<>> /\ Tail(v) = v2 /\ w # <<>> /\ Tail(w) = w2
    BY <1>9, <1>10 DEF v, v2, w, w2
  <2>5. ReadFields(u) = <<ReadInt(u).val, More(ReadInt(u)).val, More(More(ReadInt(u))).val>>
    BY Zenon DEF ReadFields
  <2>6. x \in ints => More(ReadInt(u)) = ReadInt(v2)
    BY <2>1, <2>4, Zenon
  <2>7. x \in ints /\ y \in ints => More(More(ReadInt(u))) = ReadInt(w2)
    BY <2>2, <2>4, <2>6, Zenon
  <2> DEFINE p1 == ReadInt(u).val  p2 == More(ReadInt(u)).val  p3 == More(More(ReadInt(u))).val
  <2>8. x \in ints => p1 = x
    BY <2>1, Zenon
  <2>9. x \in ints /\ y \in ints => p2 = y
    BY <2>2, <2>6, Zenon
  <2>10. x \in ints /\ y \in ints /\ z \in ints => p3 = z
    BY <2>3, <2>7, Zenon
  <2> HIDE DEF p1, p2, p3
  <2>11. Holds(<<p1, p2, p3>>, <<x, y, z>>)
    BY <2>8, <2>9, <2>10, HoldsThree, Zenon DEF ints
  <2> QED
    BY <2>5, <2>11, Zenon DEF u, x, y, z, p1, p2, p3
<1> QED
  BY <1>4, <1>5, <1>11

\* A date, a time and a zone one after another are these of the DateTime.
LEMMA ThreeInOne ==
  ASSUME NEW d \in Seq(Int), Len(d) = 3, NEW t \in Seq(Int), Len(t) = 3, NEW z \in Int,
         NEW date, Holds(d, date), NEW time, Holds(t, time)
  PROVE  /\ Holds(DateOf(d \o t \o <<z>>), date) /\ Holds(TimeOf(d \o t \o <<z>>), time)
         /\ ZoneOf(d \o t \o <<z>>) = z
<1> DEFINE a == d \o t  one == <<z>>  all == a \o one
<1>1. a \in Seq(Int) /\ Len(a) = 6 /\ \A k \in 1..6 : a[k] = IF k <= 3 THEN d[k] ELSE t[k - 3]
  <2>1. /\ a \in Seq(Int) /\ Len(a) = Len(d) + Len(t)
        /\ \A k \in 1..Len(d) + Len(t) : a[k] = IF k <= Len(d) THEN d[k] ELSE t[k - Len(d)]
    BY ConcatProperties, Zenon
  <2> HIDE DEF a
  <2> QED
    BY <2>1
<1>2. one \in Seq(Int) /\ Len(one) = 1 /\ one[1] = z
  OBVIOUS
<1> HIDE DEF a, one
<1>3. /\ all \in Seq(Int) /\ Len(all) = 7 /\ \A k \in 1..6 : all[k] = a[k]
      /\ all[7] = z
  <2>1. /\ all \in Seq(Int) /\ Len(all) = Len(a) + Len(one)
        /\ \A k \in 1..Len(a) + Len(one) : all[k] = IF k <= Len(a) THEN a[k] ELSE one[k - Len(a)]
    BY <1>1, <1>2, ConcatProperties, Zenon
  <2> HIDE DEF all
  <2> QED
    BY <1>1, <1>2, <2>1
<1> HIDE DEF all
<1>4. all \in [1..7 -> Int]
  BY <1>3, SevenFields
<1>5. /\ DateOf(all)[1] = all[1] /\ DateOf(all)[2] = all[2] /\ DateOf(all)[3] = all[3]
      /\ TimeOf(all)[1] = all[4] /\ TimeOf(all)[2] = all[5] /\ TimeOf(all)[3] = all[6]
      /\ ZoneOf(all) = all[7]
  BY <1>4, DateAndTime
<1>6. \A k \in 1..3 : DateOf(all)[k] = d[k] /\ TimeOf(all)[k] = t[k]
  <2> SUFFICES ASSUME NEW k \in 1..3 PROVE DateOf(all)[k] = d[k] /\ TimeOf(all)[k] = t[k]
    OBVIOUS
  <2>1. CASE k = 1
    BY <1>1, <1>3, <1>5, <2>1
  <2>2. CASE k = 2
    BY <1>1, <1>3, <1>5, <2>2
  <2>3. CASE k = 3
    BY <1>1, <1>3, <1>5, <2>3
  <2> QED
    BY <2>1, <2>2, <2>3
<1>7. Holds(DateOf(all), date) /\ Holds(TimeOf(all), time)
  BY <1>6, Zenon DEF Holds
<1> QED
  BY <1>3, <1>5, <1>7, Zenon DEF all, a, one

LEMMA PartWithout ==
  ASSUME NEW text \in Seq(Int), NEW i \in Nat, 1 <= i, NEW j \in 0..Len(text), NEW e,
         \A k \in i..j : text[k] # e
  PROVE  ~Contains(SubSeq(text, i, j), e)
<1> DEFINE u == SubSeq(text, i, j)
<1>1. /\ u \in Seq(Int) /\ Len(u) = IF i <= j THEN j - i + 1 ELSE 0
      /\ \A k \in 1..j - i + 1 : u[k] = text[i + k - 1]
  OBVIOUS
<1>2. Len(text) \in Nat /\ i \in Nat /\ j \in Nat
  OBVIOUS
<1> HIDE DEF u
<1>3. ASSUME NEW k \in 1..Len(u) PROVE u[k] # e
  <2>1. k \in 1..j - i + 1 /\ i + k - 1 \in i..j
    BY <1>1, <1>2
  <2> QED
    BY <1>1, <2>1
<1> QED
  BY <1>1, <1>3 DEF Contains, u

\* A date, a space and a time that stand in a text are the DateTime it is read as, each
\* up to the first field that is no int.
LEMMA DateTimeWritten ==
  ASSUME NEW text \in Seq(Int), NEW s \in DOMAIN text, IsBreak(text, s),
         NEW date \in FieldsBetween(text, 1, s - 1),
         NEW time \in FieldsBetween(text, s + 1, Len(text))
  PROVE  \E dt : /\ DateTimeFromString(text) = Ok(dt)
                 /\ Holds(DateOf(dt), date) /\ Holds(TimeOf(dt), time) /\ ZoneOf(dt) = NoZone
<1> DEFINE n == Len(text)  two == split(text, Space)
           first == SubSeq(text, 1, s - 1)  second == SubSeq(text, s + 1, n)
<1>1. n \in Nat /\ s \in 1..n /\ s - 1 \in 0..n /\ s + 1 \in Nat /\ 1 <= s + 1 /\ n \in 0..n
  OBVIOUS
<1>2. Holds(ReadFields(first), date)
  BY <1>1, FieldsWritten
<1>3. Holds(ReadFields(second), time) /\ (s + 1) + 4 <= n
  BY <1>1, FieldsWritten
<1>4. \A i \in 1..n : ((text[i] = Space) = (i = s)) /\ (i > s => text[i] # Dash)
  BY DEF IsBreak
<1>5. /\ Len(two) >= 2 /\ two[1] = first /\ two[2] = second
  <2>1. s \in 1..Len(text) /\ n + 1 \in 1..Len(text) + 1 /\ s < n + 1 /\ text[s] = Space
    BY <1>1, <1>4
  <2>2. \A k \in 1..(n + 1) - 1 : text[k] = Space => k = s
    BY <1>1, <1>4
  <2>3. s # Len(text)
    BY <1>1, <1>3
  <2>4. (n + 1) - 1 = n
    BY <1>1
  <2>5. /\ Len(split(text, Space)) >= 2
        /\ split(text, Space)[1] = SubSeq(text, 1, s - 1)
        /\ split(text, Space)[2] = SubSeq(text, s + 1, (n + 1) - 1)
    BY <2>1, <2>2, <2>3, SplitAt
  <2> QED
    BY <2>4, <2>5
<1>6. ~Contains(second, Dash)
  <2>1. \A k \in s + 1..n : text[k] # Dash
    BY <1>1, <1>4
  <2> QED
    BY <1>1, <2>1, PartWithout
<1>7. ~(Len(two) < 2)
  BY <1>5, LineCount
<1>8. first \in Seq(Int) /\ second \in Seq(Int)
  BY <1>1
<1> HIDE DEF two, first, second
<1> DEFINE d == ReadFields(first)  t == ReadFields(second)  dt == d \o t \o <<NoZone>>
<1>9. DateTimeFromString(text) = Ok(dt)
  BY <1>5, <1>6, <1>7, Zenon DEF DateTimeFromString, two
<1>10. d \in Seq(Int) /\ Len(d) = 3 /\ t \in Seq(Int) /\ Len(t) = 3
  BY <1>8, FieldsType
<1>11. NoZone \in Int /\ Holds(d, date) /\ Holds(t, time)
  BY <1>2, <1>3 DEF NoZone
<1> HIDE DEF d, t
<1>12. Holds(DateOf(dt), date) /\ Holds(TimeOf(dt), time) /\ ZoneOf(dt) = NoZone
  BY <1>10, <1>11, ThreeInOne, Zenon
<1> HIDE DEF dt
<1> QED
  BY <1>9, <1>12, Zenon

\* A value is read as a time if it is one, or a string.
LEMMA TimeRead ==
  ASSUME NEW any, NEW T \in TimeTypesOfAny, get(any, T).how = "ok"
  PROVE  \/ ~isString(any) /\ any.type = T /\ get(any, T) = Ok(any.val)
         \/ isString(any) /\ get(any, T) = FromString(T, getString(any).val)
<1>1. Exact(any, T).how = "ok" => any.type = T /\ Exact(any, T) = Ok(any.val)
  BY DEF Exact, Throws
<1> QED
  BY <1>1, GetCases

LEMMA NumberLength ==
  ASSUME NEW n
  PROVE  Len(Number(n)) <= 2
<1>1. Number(n) = <<n>> \/ Number(n) = <<Dash, -n>>
  BY Zenon DEF Number
<1>2. Len(<<n>>) = 1 /\ Len(<<Dash, -n>>) = 2
  OBVIOUS
<1> QED
  BY <1>1, <1>2

LEMMA TimeFromText ==
  ASSUME NEW text
  PROVE  /\ \A T \in {"Date", "Time"} : FromString(T, text) = Ok(ReadFields(text))
         /\ FromString("DateTime", text) = DateTimeFromString(text)
BY DEF FromString, DateFromString, TimeFromString

\* A cell is read as a time by its text, unless it spells a character.
LEMMA TimeOfCell ==
  ASSUME NEW k \in Decoders, NEW cell, IsCellOf(k, cell), DecodeAs(k, cell).how = "ok",
         NEW T \in TimeTypesOfAny, get(DecodeAs(k, cell).val, T).how = "ok"
  PROVE  /\ cell.text \in Seq(Int)
         /\ get(DecodeAs(k, cell).val, T) = FromString(T, cell.text) \/ Len(cell.text) <= 2
<1> DEFINE any == DecodeAs(k, cell).val
<1>1. \/ ~isString(any) /\ any.type = T /\ get(any, T) = Ok(any.val)
      \/ isString(any) /\ get(any, T) = FromString(T, getString(any).val)
  BY TimeRead
<1>2. CASE k = SQLITE
  <2>1. IsSQLiteCell(cell) /\ any = SQLiteDecode(cell).val
    BY <1>2 DEF IsCellOf, DecodeAs
  <2>2. any.type \notin TimeTypesOfAny /\ (isString(any) => any.val = cell.text)
    BY <2>1, SQLiteDecoded
  <2>3. any.type # "char"
    BY <2>1 DEF SQLiteDecode, IsSQLiteCell, SQLiteTypes, SQLiteStoredType, Ok, Stored, Empty
  <2>4. cell.text \in Seq(Int)
    BY <2>1 DEF IsSQLiteCell
  <2> HIDE DEF any
  <2>5. isString(any) /\ get(any, T) = FromString(T, getString(any).val)
    BY <1>1, <2>2
  <2>6. getString(any) = Ok(cell.text)
    BY <2>2, <2>3, <2>5, StringCases, Zenon DEF isString
  <2>7. getString(any).val = cell.text
    BY <2>6 DEF Ok
  <2> QED
    BY <2>4, <2>5, <2>7 DEF any
<1>3. CASE k # SQLITE
  <2>1. IsMySQLCell(cell) /\ any = MySQLDecode(cell).val /\ MySQLDecode(cell).how = "ok"
        /\ Decoding(cell, MySQLDecode(cell))
    BY <1>3, MySQLDecoded DEF IsCellOf, DecodeAs
  <2>2. /\ any.type = "Date" => any.val = ReadFields(cell.text)
        /\ any.type = "Time" => any.val = ReadFields(cell.text)
        /\ any.type = "DateTime" => Ok(any.val) = DateTimeFromString(cell.text)
        /\ isString(any) =>
             \/ any.type = "std::string" /\ any.val = cell.text
             \/ any.type = "char" /\ cell.type \in DOMAIN IntegerColumns /\ ~cell.null
    BY <2>1 DEF Decoding
  <2>3. cell.text \in Seq(Int)
    BY <2>1 DEF IsMySQLCell
  <2> HIDE DEF any
  <2>4. CASE ~isString(any) /\ any.type = T /\ get(any, T) = Ok(any.val)
    <3>1. CASE T \in {"Date", "Time"}
      BY <2>2, <2>3, <2>4, <3>1, TimeFromText DEF any
    <3>2. CASE T = "DateTime"
      BY <2>2, <2>3, <2>4, <3>2, TimeFromText DEF any
    <3> QED
      BY <3>1, <3>2 DEF TimeTypesOfAny
  <2>5. CASE isString(any) /\ any.type = "std::string" /\ get(any, T) = FromString(T, getString(any).val)
    <3>1. getString(any) = Ok(any.val)
      <4>1. "std::string" \in StringTypes /\ "std::string" # "char"
        BY DEF StringTypes
      <4> QED
        BY <2>5, <4>1, StringCases, Zenon
    <3>2. getString(any).val = cell.text
      BY <2>2, <2>5, <3>1 DEF Ok
    <3> QED
      BY <2>3, <2>5, <3>2 DEF any
  <2>6. CASE cell.type \in DOMAIN IntegerColumns /\ ~cell.null
    <3>1. cell.text = Number(IntegerOf(cell))
      BY <2>1, <2>6 DEF IsMySQLCell
    <3>2. Len(cell.text) <= 2
      BY <3>1, NumberLength
    <3> QED
      BY <2>3, <3>2
  <2> QED
    BY <1>1, <2>2, <2>4, <2>5, <2>6 DEF any
<1> QED
  BY <1>2, <1>3

\* A date or time written out in full is read with every field in its place, up to the
\* first that no int can hold.
THEOREM FieldsInPlace == Spec => []FieldsOfTheText
<1>1. ASSUME Inv PROVE FieldsOfTheText
  <2> DEFINE T == call.T  text == CellRead.text  n == Len(text)
  <2> SUFFICES ASSUME IsRead, HasCell, T \in TimeTypesOfAny, call.end = "ok"
               PROVE  IF T # "DateTime"
                        THEN \A f \in FieldsBetween(text, 1, n) : Holds(call.val, f)
                        ELSE \A s \in {i \in DOMAIN text : IsBreak(text, i)} :
                               \A date \in FieldsBetween(text, 1, s - 1),
                                  time \in FieldsBetween(text, s + 1, n) :
                                 /\ Holds(DateOf(call.val), date)
                                 /\ Holds(TimeOf(call.val), time)
                                 /\ ZoneOf(call.val) = NoZone
    BY Zenon DEF FieldsOfTheText
  <2>1. /\ IsCellOf(kind, CellRead) /\ DecodeAs(kind, CellRead).how = "ok"
        /\ AnyRead = DecodeAs(kind, CellRead).val /\ kind \in Decoders
        /\ get(AnyRead, T).how = "ok" /\ call.val = get(AnyRead, T).val
    BY <1>1, LastRead DEF Ok, Undefined
  <2>2. text \in Seq(Int) /\ (get(AnyRead, T) = FromString(T, text) \/ n <= 2)
    BY <2>1, TimeOfCell
  <2>3. n \in Nat /\ DOMAIN text = 1..n
    BY <2>2
  <2> HIDE DEF text
  <2>4. CASE T # "DateTime"
    <3> SUFFICES ASSUME NEW f \in FieldsBetween(text, 1, n)
                 PROVE  Holds(call.val, f)
      BY <2>4
    <3>1. SubSeq(text, 1, n) = text
      BY <2>2
    <3>2. Holds(ReadFields(SubSeq(text, 1, n)), f) /\ 1 + 4 <= n
      BY <2>2, <2>3, FieldsWritten
    <3>3. get(AnyRead, T) = FromString(T, text)
      BY <2>2, <2>3, <3>2
    <3>4. FromString(T, text) = Ok(ReadFields(text))
      BY <2>4, TimeFromText DEF TimeTypesOfAny
    <3>5. call.val = ReadFields(text)
      BY <2>1, <3>3, <3>4 DEF Ok
    <3> QED
      BY <3>1, <3>2, <3>5, Zenon
  <2>5. CASE T = "DateTime"
    <3> SUFFICES ASSUME NEW s \in DOMAIN text, IsBreak(text, s),
                        NEW date \in FieldsBetween(text, 1, s - 1),
                        NEW time \in FieldsBetween(text, s + 1, n)
                 PROVE  /\ Holds(DateOf(call.val), date) /\ Holds(TimeOf(call.val), time)
                        /\ ZoneOf(call.val) = NoZone
      BY <2>5
    <3>1. PICK dt : /\ DateTimeFromString(text) = Ok(dt)
                    /\ Holds(DateOf(dt), date) /\ Holds(TimeOf(dt), time)
                    /\ ZoneOf(dt) = NoZone
      BY <2>2, DateTimeWritten
    <3>2. 1 + 4 <= s - 1 /\ s \in Nat /\ s <= n
      <4>1. s - 1 \in 0..Len(text) /\ 1 \in Nat /\ 1 <= 1 /\ s \in Nat /\ s <= n
        BY <2>3
      <4> QED
        BY <2>2, <4>1, FieldsWritten
    <3>3. get(AnyRead, T) = Ok(dt)
      BY <2>2, <2>3, <2>5, <3>1, <3>2, TimeFromText
    <3>4. call.val = dt
      BY <2>1, <3>3 DEF Ok
    <3> QED
      BY <3>1, <3>4, Zenon
  <2> QED
    BY <2>4, <2>5
<1> QED
  BY <1>1, InvAlways, PTL

================================================================================
