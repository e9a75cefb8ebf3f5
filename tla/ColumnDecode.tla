---------------------------- MODULE ColumnDecode ----------------------------
(***************************************************************************)
(* How the backends turn a column of a row into an Any: the two switches   *)
(* in SQLiteSession::query and MySQLSession::query. A cell is what the     *)
(* client library hands over: the type of the column, whether the pointer  *)
(* to its text is null (SQL NULL), and the text. The text of an SQLite     *)
(* cell is the value itself; that of a MySQL BIT is one token for every    *)
(* character.                                                              *)
(***************************************************************************)
EXTENDS AnyValue, FiniteSetsExt

Cell(t, text)  == [type |-> t, null |-> FALSE, text |-> text]
NullCell(t)    == [type |-> t, null |-> TRUE, text |-> <<>>]

(* SQLite: the type is the value's own, and NULL is one of the types. A    *)
(* BLOB is stored as the library's pointer, everything else is copied.     *)
SQLiteTypes == {"SQLITE_BLOB", "SQLITE_TEXT", "SQLITE_INTEGER", "SQLITE_FLOAT", "SQLITE_NULL"}

SQLiteStoredType ==
  [SQLITE_BLOB |-> "void*", SQLITE_TEXT |-> "std::string",
   SQLITE_INTEGER |-> "long_long", SQLITE_FLOAT |-> "double"]

\* Mutant: the text is stored as the library's pointer, like a BLOB.
SQLiteDecodeTextPointer(cell) ==
  IF cell.type = "SQLITE_TEXT" THEN Ok(Stored("const_char*", cell.text))
  ELSE Ok(IF cell.type = "SQLITE_NULL" THEN Empty
          ELSE Stored(SQLiteStoredType[cell.type], cell.text))

SQLiteDecode(cell) ==
  Ok(IF cell.type = "SQLITE_NULL" THEN Empty
     ELSE Stored(SQLiteStoredType[cell.type], cell.text))

------------------------------------------------------------------------------
(* MySQL: the type is the column's, and every value comes as text.         *)

TextTypes == {"MYSQL_TYPE_GEOMETRY", "MYSQL_TYPE_SET", "MYSQL_TYPE_ENUM",
  "MYSQL_TYPE_JSON", "MYSQL_TYPE_BLOB", "MYSQL_TYPE_TINY_BLOB",
  "MYSQL_TYPE_MEDIUM_BLOB", "MYSQL_TYPE_LONG_BLOB", "MYSQL_TYPE_VARCHAR",
  "MYSQL_TYPE_STRING", "MYSQL_TYPE_VAR_STRING"}

\* What the text is parsed as, and the type it is then cast to and stored as.
IntegerColumns ==
  [MYSQL_TYPE_TINY     |-> [parsed |-> "int", stored |-> "char"],
   MYSQL_TYPE_YEAR     |-> [parsed |-> "int", stored |-> "int"],
   MYSQL_TYPE_SHORT    |-> [parsed |-> "int", stored |-> "short"],
   MYSQL_TYPE_INT24    |-> [parsed |-> "int", stored |-> "int"],
   MYSQL_TYPE_LONG     |-> [parsed |-> "long", stored |-> "long"],
   MYSQL_TYPE_LONGLONG |-> [parsed |-> "long_long", stored |-> "long_long"]]

\* The types the switch names; MYSQL_TYPE_NEWDECIMAL, which a server sends for a
\* DECIMAL column, is not among them.
MySQLTypes == TextTypes \cup DOMAIN IntegerColumns \cup
  {"MYSQL_TYPE_NULL", "MYSQL_TYPE_BIT", "MYSQL_TYPE_DATE", "MYSQL_TYPE_TIME",
   "MYSQL_TYPE_DATETIME", "MYSQL_TYPE_TIMESTAMP", "MYSQL_TYPE_DECIMAL",
   "MYSQL_TYPE_DOUBLE", "MYSQL_TYPE_FLOAT"}

\* The loop over the characters of a BIT: the character at index i (from 0, from
\* the left) counts 2^i, and anything else than a zero or a one is an exception. The
\* sum goes through double, which is exact for the few characters there are: a server
\* sends a byte for eight bits.
BitBytes == 8
BitValue(bits) ==
  IF ToSet(bits) \subseteq {0, 1}
    THEN Ok(<<SumSet({2^(i - 1) : i \in {j \in DOMAIN bits : bits[j] = 1}})>>)
    ELSE Throws

\* DECIMAL is "May be integer": a long long without a point, a double with one.
DecimalValue(text) ==
  IF Contains(text, Dot)
    THEN Then(ParseFloat(text), LAMBDA v : Ok(Stored("double", v)))
    ELSE Then(ParseInteger(text, "long_long"), LAMBDA v : Ok(Stored("long_long", v)))

\* Mutant: the case of SHORT casts like that of TINY.
IntegerValueNarrow(t, text) ==
  Then(ParseInteger(text, IntegerColumns[t].parsed),
       LAMBDA v : Ok(Stored(IntegerColumns[t].stored,
                            <<Wrap(v[1], IF t = "MYSQL_TYPE_SHORT" THEN "char"
                                         ELSE IntegerColumns[t].stored)>>)))

IntegerValue(t, text) ==
  Then(ParseInteger(text, IntegerColumns[t].parsed),
       LAMBDA v : Ok(Stored(IntegerColumns[t].stored,
                            <<Wrap(v[1], IntegerColumns[t].stored)>>)))

\* The text of a typed column is used without a look at the pointer to it.
MySQLDecode(cell) ==
  LET t == cell.type
      As(type, r) == Then(r, LAMBDA v : Ok(Stored(type, v)))
  IN CASE t = "MYSQL_TYPE_NULL"    -> Ok(Empty)
       [] t \notin MySQLTypes      -> Throws
       [] t \in MySQLTypes \ {"MYSQL_TYPE_NULL"} /\ cell.null -> Undefined
       [] OTHER                    ->
            CASE t = "MYSQL_TYPE_BIT"  -> As("unsigned_long_long", BitValue(cell.text))
              [] t = "MYSQL_TYPE_DATE" -> As("Date", DateFromString(cell.text))
              [] t = "MYSQL_TYPE_TIME" -> As("Time", TimeFromString(cell.text))
              [] t \in {"MYSQL_TYPE_DATETIME", "MYSQL_TYPE_TIMESTAMP"} ->
                   As("DateTime", DateTimeFromString(cell.text))
              [] t = "MYSQL_TYPE_DECIMAL" -> DecimalValue(cell.text)
              [] t \in {"MYSQL_TYPE_DOUBLE", "MYSQL_TYPE_FLOAT"} ->
                   As("double", ParseFloat(cell.text))
              [] t \in DOMAIN IntegerColumns -> IntegerValue(t, cell.text)
              [] t \in TextTypes -> Ok(Stored("std::string", cell.text))

------------------------------------------------------------------------------
(* The cells that the client libraries hand over.                          *)

IsSQLiteCell(cell) ==
  /\ cell.type \in SQLiteTypes /\ cell.text \in Seq(Int)
  /\ cell.type = "SQLITE_INTEGER" =>
       Len(cell.text) = 1 /\ cell.text[1] \in RangeOf("long_long")

\* The integer that a cell spells.
IntegerOf(cell) == IF Len(cell.text) = 2 THEN -cell.text[2] ELSE cell.text[1]

\* A column of integers is spelled as integers, and no BIT is wider than 64 bits,
\* which are eight bytes.
IsMySQLCell(cell) ==
  /\ cell.null \in BOOLEAN /\ cell.text \in Seq(Int)
  /\ cell.type \in DOMAIN IntegerColumns /\ ~cell.null =>
       /\ cell.text # <<>> /\ IntegerOf(cell) # Garbage
       /\ cell.text = Number(IntegerOf(cell))
  /\ cell.type = "MYSQL_TYPE_BIT" =>
       /\ Len(cell.text) <= BitBytes
       /\ BitValue(cell.text).how = "ok" =>
            BitValue(cell.text).val[1] \in RangeOf("unsigned_long_long")

------------------------------------------------------------------------------
(* Row (headers/Row.h, Core/Row.cpp): a function from headers to Any.      *)

EmptyRow == [h \in {} |-> Empty]

\* unordered_map::emplace: of two columns of one name the first stays.
emplace(row, header, any) ==
  [h \in DOMAIN row \cup {header} |-> IF h \in DOMAIN row THEN row[h] ELSE any]

has(row, header) == header \in DOMAIN row
headers(row) == DOMAIN row

\* get(header): a header the row does not have reads like a NULL.
RowGet(row, header) == IF has(row, header) THEN row[header] ELSE Empty

=============================================================================
