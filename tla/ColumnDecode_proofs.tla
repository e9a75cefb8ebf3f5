------------------------- MODULE ColumnDecode_proofs -------------------------
(***************************************************************************)
(* Lemmas about what an Any holds (AnyValue) and what a column becomes     *)
(* (ColumnDecode), for integer types of any size and all cells. They are   *)
(* what SessionUse_proofs is built from.                                   *)
(***************************************************************************)
EXTENDS ColumnDecode, TextNumbers_proofs

\* What fits into a column's stored type fits into the type its text is parsed as.
LEMMA StoredInParsed ==
  ASSUME NEW t \in DOMAIN IntegerColumns
  PROVE  /\ RangeOf(IntegerColumns[t].stored) \subseteq RangeOf(IntegerColumns[t].parsed)
         /\ IntegerColumns[t].stored \in Signed
<1> DEFINE half(size) == size \div 2
<1>1. /\ CharSize % 2 = 0 /\ ShortSize % 2 = 0 /\ IntSize % 2 = 0
      /\ 2 * CharSize <= IntSize /\ 2 * ShortSize <= IntSize
  BY TextAssumption, DoubleAgain
<1>2. /\ half(CharSize) \in Nat /\ half(ShortSize) \in Nat /\ half(IntSize) \in Nat
      /\ half(CharSize) <= half(IntSize) /\ half(ShortSize) <= half(IntSize)
  BY <1>1, TextAssumption, Halves
<1>3. /\ RangeOf("char") = -half(CharSize) .. half(CharSize) - 1
      /\ RangeOf("short") = -half(ShortSize) .. half(ShortSize) - 1
      /\ RangeOf("int") = -half(IntSize) .. half(IntSize) - 1
  BY DEF RangeOf, Unsigned, Size
<1> HIDE DEF half
<1>4. RangeOf("char") \subseteq RangeOf("int") /\ RangeOf("short") \subseteq RangeOf("int")
  BY <1>2, <1>3
<1>5. t \in {"MYSQL_TYPE_TINY", "MYSQL_TYPE_YEAR", "MYSQL_TYPE_SHORT", "MYSQL_TYPE_INT24",
            "MYSQL_TYPE_LONG", "MYSQL_TYPE_LONGLONG"}
  BY DEF IntegerColumns
<1>6. CASE t = "MYSQL_TYPE_TINY"
  BY <1>4, <1>6 DEF IntegerColumns, Signed
<1>7. CASE t = "MYSQL_TYPE_SHORT"
  BY <1>4, <1>7 DEF IntegerColumns, Signed
<1>8. CASE t = "MYSQL_TYPE_YEAR"
  BY <1>8 DEF IntegerColumns, Signed
<1>9. CASE t = "MYSQL_TYPE_INT24"
  BY <1>9 DEF IntegerColumns, Signed
<1>10. CASE t = "MYSQL_TYPE_LONG"
  BY <1>10 DEF IntegerColumns, Signed
<1>11. CASE t = "MYSQL_TYPE_LONGLONG"
  BY <1>11 DEF IntegerColumns, Signed
<1> QED
  BY <1>5, <1>6, <1>7, <1>8, <1>9, <1>10, <1>11

LEMMA StoredIsAny ==
  ASSUME NEW type \in StoredTypes \ (Signed \cup Unsigned), NEW v \in Seq(Int)
  PROVE  IsAny(Stored(type, v))
BY DEF IsAny, Stored

LEMMA IntegerIsAny ==
  ASSUME NEW type \in Signed \cup Unsigned, NEW v \in Seq(Int), v # <<>>, v[1] \in RangeOf(type)
  PROVE  IsAny(Stored(type, v))
BY DEF IsAny, Stored, StoredTypes

LEMMA EmptyIsAny == IsAny(Empty)
<1>1. "void" \in StoredTypes \ (Signed \cup Unsigned)
  BY DEF StoredTypes, Signed, Unsigned
<1>2. <<>> \in Seq(Int)
  OBVIOUS
<1> QED
  BY <1>1, <1>2, StoredIsAny DEF Empty

\* The types of time, text and real numbers are no types of integers.
LEMMA OtherTypes ==
  {"double", "std::string", "Date", "Time", "DateTime", "void*", "void"}
    \subseteq StoredTypes \ (Signed \cup Unsigned)
BY DEF StoredTypes, Signed, Unsigned, FloatTypes, StringTypes, TimeTypesOfAny

\* Every SQLite cell becomes an Any.
LEMMA SQLiteDecoded ==
  ASSUME NEW cell, IsSQLiteCell(cell)
  PROVE  /\ SQLiteDecode(cell).how = "ok" /\ IsAny(SQLiteDecode(cell).val)
         /\ SQLiteDecode(cell).val.type \in PointerTypes => cell.type = "SQLITE_BLOB"
         /\ SQLiteDecode(cell).val.type \notin TimeTypesOfAny
         /\ isString(SQLiteDecode(cell).val) => SQLiteDecode(cell).val.val = cell.text
         /\ cell.type = "SQLITE_NULL" => SQLiteDecode(cell).val = Empty
         /\ cell.type = "SQLITE_INTEGER" => SQLiteDecode(cell).val = Stored("long_long", cell.text)
<1> DEFINE text == cell.text
<1>1. cell.type \in SQLiteTypes /\ text \in Seq(Int)
  BY DEF IsSQLiteCell
<1>2. CASE cell.type = "SQLITE_NULL"
  <2>1. SQLiteDecode(cell) = Ok(Empty)
    BY <1>2 DEF SQLiteDecode
  <2> QED
    BY <1>2, <2>1, EmptyIsAny DEF Ok, Empty, Stored, PointerTypes,
        TimeTypesOfAny, isString, StringTypes
<1>3. CASE cell.type = "SQLITE_BLOB"
  <2>1. SQLiteDecode(cell) = Ok(Stored("void*", text))
    BY <1>3 DEF SQLiteDecode, SQLiteStoredType
  <2>2. IsAny(Stored("void*", text))
    BY <1>1, OtherTypes, StoredIsAny
  <2> QED
    BY <1>3, <2>1, <2>2 DEF Ok, Stored,
        TimeTypesOfAny, isString, StringTypes
<1>4. CASE cell.type = "SQLITE_TEXT"
  <2>1. SQLiteDecode(cell) = Ok(Stored("std::string", text))
    BY <1>4 DEF SQLiteDecode, SQLiteStoredType
  <2>2. IsAny(Stored("std::string", text))
    BY <1>1, OtherTypes, StoredIsAny
  <2> QED
    BY <1>4, <2>1, <2>2 DEF Ok, Stored, PointerTypes,
        TimeTypesOfAny, isString, StringTypes
<1>5. CASE cell.type = "SQLITE_FLOAT"
  <2>1. SQLiteDecode(cell) = Ok(Stored("double", text))
    BY <1>5 DEF SQLiteDecode, SQLiteStoredType
  <2>2. IsAny(Stored("double", text))
    BY <1>1, OtherTypes, StoredIsAny
  <2> QED
    BY <1>5, <2>1, <2>2 DEF Ok, Stored, PointerTypes,
        TimeTypesOfAny, isString, StringTypes
<1>6. CASE cell.type = "SQLITE_INTEGER"
  <2>1. SQLiteDecode(cell) = Ok(Stored("long_long", text))
    BY <1>6 DEF SQLiteDecode, SQLiteStoredType
  <2>2. Len(text) = 1 /\ text[1] \in RangeOf("long_long")
    BY <1>6 DEF IsSQLiteCell
  <2>3. text # <<>> /\ "long_long" \in Signed \cup Unsigned
    BY <2>2 DEF Signed
  <2>4. IsAny(Stored("long_long", text))
    BY <1>1, <2>2, <2>3, IntegerIsAny
  <2> QED
    BY <1>6, <2>1, <2>4 DEF Ok, Stored, PointerTypes,
        TimeTypesOfAny, isString, StringTypes
<1> QED
  BY <1>1, <1>2, <1>3, <1>4, <1>5, <1>6 DEF SQLiteTypes

\* What an integer column makes of its text.
LEMMA IntegerDecoded ==
  ASSUME NEW t \in DOMAIN IntegerColumns, NEW text \in Seq(Int)
  PROVE  \/ IntegerValue(t, text) = Throws
         \/ /\ IntegerValue(t, text).how = "ok" /\ IsAny(IntegerValue(t, text).val)
            /\ IntegerValue(t, text).val.type = IntegerColumns[t].stored
<1> DEFINE stored == IntegerColumns[t].stored  r == ParseInteger(text, IntegerColumns[t].parsed)
           v == <<Wrap(r.val[1], stored)>>
<1>1. IntegerValue(t, text) = IF r.how = "ok" THEN Ok(Stored(stored, v)) ELSE r
  BY Zenon DEF IntegerValue, Then
<1>2. r = Throws \/ (r.how = "ok" /\ r.val[1] \in RangeOf(IntegerColumns[t].parsed))
  BY ParseType
<1>3. CASE r.how = "ok"
  <2>1. r.val[1] \in Int
    BY <1>2, <1>3, RangeType DEF Throws
  <2>2. Wrap(r.val[1], stored) \in RangeOf(stored)
    BY <2>1, WrapInRange
  <2>3. v \in Seq(Int) /\ v # <<>> /\ v[1] \in RangeOf(stored)
    <3> DEFINE w == Wrap(r.val[1], stored)
    <3>1. w \in Int
      BY <2>2, RangeType
    <3> HIDE DEF w, stored
    <3> QED
      BY <2>2, <3>1 DEF w
  <2>4. stored \in Signed \cup Unsigned
    BY StoredInParsed
  <2>5. IsAny(Stored(stored, v))
    BY <2>3, <2>4, IntegerIsAny
  <2>6. IntegerValue(t, text) = Ok(Stored(stored, v))
    BY <1>1, <1>3
  <2> HIDE DEF v, stored
  <2> QED
    BY <2>5, <2>6 DEF Ok, Stored, stored
<1>4. CASE r.how # "ok"
  <2> HIDE DEF r
  <2> QED
    BY <1>1, <1>2, <1>4
<1> QED
  BY <1>3, <1>4

\* An integer that fits the type its column stands for is stored as itself.
LEMMA IntegerStored ==
  ASSUME NEW t \in DOMAIN IntegerColumns, NEW n \in Int, n # Garbage,
         n \in RangeOf(IntegerColumns[t].stored)
  PROVE  IntegerValue(t, Number(n)) = Ok(Stored(IntegerColumns[t].stored, <<n>>))
<1> DEFINE stored == IntegerColumns[t].stored
           r == ParseInteger(Number(n), IntegerColumns[t].parsed)
<1>1. r = Ok(<<n>>)
  BY StoredInParsed, ParseNumber
<1>2. r.how = "ok" /\ r.val[1] = n
  BY <1>1 DEF Ok
<1>3. Wrap(n, stored) = n
  BY WrapKeeps
<1>4. IntegerValue(t, Number(n)) = IF r.how = "ok" THEN Ok(Stored(stored, <<Wrap(r.val[1], stored)>>)) ELSE r
  BY Zenon DEF IntegerValue, Then
<1> HIDE DEF r, stored
<1> QED
  BY <1>2, <1>3, <1>4 DEF stored

\* The value of r, stored as a type.
StoredAs(type, r) == IF r.how = "ok" THEN Ok(Stored(type, r.val)) ELSE r

\* The switch over the types of columns, case by case.
LEMMA MySQLCases ==
  ASSUME NEW cell
  PROVE  LET t == cell.type  text == cell.text  r == MySQLDecode(cell)
         IN /\ t = "MYSQL_TYPE_NULL" => r = Ok(Empty)
            /\ t \notin MySQLTypes => r = Throws
            /\ t \in MySQLTypes /\ t # "MYSQL_TYPE_NULL" /\ cell.null => r = Undefined
            /\ ~cell.null =>
                 /\ t = "MYSQL_TYPE_BIT" => r = StoredAs("unsigned_long_long", BitValue(text))
                 /\ t = "MYSQL_TYPE_DATE" => r = StoredAs("Date", DateFromString(text))
                 /\ t = "MYSQL_TYPE_TIME" => r = StoredAs("Time", TimeFromString(text))
                 /\ t \in {"MYSQL_TYPE_DATETIME", "MYSQL_TYPE_TIMESTAMP"} =>
                      r = StoredAs("DateTime", DateTimeFromString(text))
                 /\ t = "MYSQL_TYPE_DECIMAL" => r = DecimalValue(text)
                 /\ t \in {"MYSQL_TYPE_DOUBLE", "MYSQL_TYPE_FLOAT"} =>
                      r = StoredAs("double", ParseFloat(text))
                 /\ t \in DOMAIN IntegerColumns => r = IntegerValue(t, text)
                 /\ t \in TextTypes => r = Ok(Stored("std::string", text))
<1> DEFINE t == cell.type  text == cell.text  r == MySQLDecode(cell)
<1>1. ASSUME t = "MYSQL_TYPE_NULL" PROVE r = Ok(Empty)
  BY <1>1, SMT DEF MySQLDecode, Then, MySQLTypes, TextTypes, IntegerColumns, StoredAs
<1>2. ASSUME t \notin MySQLTypes PROVE r = Throws
  BY <1>2, SMT DEF MySQLDecode, Then, MySQLTypes, TextTypes, IntegerColumns, StoredAs
<1>3. ASSUME t \in MySQLTypes, t # "MYSQL_TYPE_NULL", cell.null PROVE r = Undefined
  BY <1>3, SMT DEF MySQLDecode, Then, MySQLTypes, TextTypes, IntegerColumns, StoredAs
<1>4. ASSUME ~cell.null, t = "MYSQL_TYPE_BIT" PROVE r = StoredAs("unsigned_long_long", BitValue(text))
  BY <1>4, SMT DEF MySQLDecode, Then, MySQLTypes, TextTypes, IntegerColumns, StoredAs
<1>5. ASSUME ~cell.null, t = "MYSQL_TYPE_DATE" PROVE r = StoredAs("Date", DateFromString(text))
  BY <1>5, SMT DEF MySQLDecode, Then, MySQLTypes, TextTypes, IntegerColumns, StoredAs
<1>6. ASSUME ~cell.null, t = "MYSQL_TYPE_TIME" PROVE r = StoredAs("Time", TimeFromString(text))
  BY <1>6, SMT DEF MySQLDecode, Then, MySQLTypes, TextTypes, IntegerColumns, StoredAs
<1>7. ASSUME ~cell.null, t \in {"MYSQL_TYPE_DATETIME", "MYSQL_TYPE_TIMESTAMP"} PROVE r = StoredAs("DateTime", DateTimeFromString(text))
  <2>1. CASE t = "MYSQL_TYPE_DATETIME"
    BY <1>7, <2>1, SMT DEF MySQLDecode, Then, MySQLTypes, TextTypes, IntegerColumns, StoredAs
  <2>2. CASE t = "MYSQL_TYPE_TIMESTAMP"
    BY <1>7, <2>2, SMT DEF MySQLDecode, Then, MySQLTypes, TextTypes, IntegerColumns, StoredAs
  <2> QED
    BY <1>7, <2>1, <2>2
<1>8. ASSUME ~cell.null, t = "MYSQL_TYPE_DECIMAL" PROVE r = DecimalValue(text)
  BY <1>8, SMT DEF MySQLDecode, Then, MySQLTypes, TextTypes, IntegerColumns, StoredAs
<1>9. ASSUME ~cell.null, t \in {"MYSQL_TYPE_DOUBLE", "MYSQL_TYPE_FLOAT"} PROVE r = StoredAs("double", ParseFloat(text))
  <2>1. CASE t = "MYSQL_TYPE_DOUBLE"
    BY <1>9, <2>1, SMT DEF MySQLDecode, Then, MySQLTypes, TextTypes, IntegerColumns, StoredAs
  <2>2. CASE t = "MYSQL_TYPE_FLOAT"
    BY <1>9, <2>2, SMT DEF MySQLDecode, Then, MySQLTypes, TextTypes, IntegerColumns, StoredAs
  <2> QED
    BY <1>9, <2>1, <2>2
<1>10. ASSUME ~cell.null, t \in DOMAIN IntegerColumns PROVE r = IntegerValue(t, text)
  <2> USE DEF MySQLTypes, TextTypes, IntegerColumns
  <2>1. CASE t = "MYSQL_TYPE_TINY"
    BY <1>10, <2>1, SMT DEF MySQLDecode, Then
  <2>2. CASE t = "MYSQL_TYPE_YEAR"
    BY <1>10, <2>2, SMT DEF MySQLDecode, Then
  <2>3. CASE t = "MYSQL_TYPE_SHORT"
    BY <1>10, <2>3, SMT DEF MySQLDecode, Then
  <2>4. CASE t = "MYSQL_TYPE_INT24"
    BY <1>10, <2>4, SMT DEF MySQLDecode, Then
  <2>5. CASE t = "MYSQL_TYPE_LONG"
    BY <1>10, <2>5, SMT DEF MySQLDecode, Then
  <2>6. CASE t = "MYSQL_TYPE_LONGLONG"
    BY <1>10, <2>6, SMT DEF MySQLDecode, Then
  <2> QED
    BY <1>10, <2>1, <2>2, <2>3, <2>4, <2>5, <2>6
<1>11. ASSUME ~cell.null, t \in TextTypes PROVE r = Ok(Stored("std::string", text))
  BY <1>11, SMT DEF MySQLDecode, Then, MySQLTypes, TextTypes, IntegerColumns, StoredAs
<1> HIDE DEF t, text, r
<1> QED
  BY <1>1, <1>2, <1>3, <1>4, <1>5, <1>6, <1>7, <1>8, <1>9, <1>10, <1>11 DEF t, text, r

\* How a decoding ends: with a value of that type, an exception, or not at all.
EndsAs(r, types) ==
  \/ r = Throws \/ r = Undefined
  \/ r.how = "ok" /\ IsAny(r.val) /\ r.val.type \in types

LEMMA StoredEnds ==
  ASSUME NEW type \in StoredTypes \ (Signed \cup Unsigned), NEW r,
         r = Throws \/ r = Undefined \/ (r.how = "ok" /\ r.val \in Seq(Int))
  PROVE  EndsAs(StoredAs(type, r), {type})
<1>1. CASE r = Throws \/ r = Undefined
  BY <1>1 DEF StoredAs, EndsAs, Throws, Undefined
<1>2. CASE r.how = "ok" /\ r.val \in Seq(Int)
  BY <1>2, StoredIsAny DEF StoredAs, EndsAs, Ok, Stored
<1> QED
  BY <1>1, <1>2

LEMMA NumberEnds ==
  ASSUME NEW text \in Seq(Int)
  PROVE  EndsAs(DecimalValue(text), {"double", "long_long"})
<1>1. CASE Contains(text, Dot)
  <2>1. DecimalValue(text) = StoredAs("double", ParseFloat(text))
    BY <1>1, Zenon DEF DecimalValue, Then, StoredAs
  <2>2. EndsAs(StoredAs("double", ParseFloat(text)), {"double"})
    BY FloatType, OtherTypes, StoredEnds
  <2> QED
    BY <2>1, <2>2 DEF EndsAs
<1>2. CASE ~Contains(text, Dot)
  <2> DEFINE r == ParseInteger(text, "long_long")
  <2>1. DecimalValue(text) = StoredAs("long_long", r)
    BY <1>2, Zenon DEF DecimalValue, Then, StoredAs
  <2>2. r = Throws \/ (r.how = "ok" /\ r.val \in Seq(Int) /\ r.val # <<>> /\ r.val[1] \in RangeOf("long_long"))
    BY ParseType
  <2>3. "long_long" \in Signed \cup Unsigned
    BY DEF Signed
  <2> HIDE DEF r
  <2>4. CASE r = Throws
    BY <2>1, <2>4 DEF StoredAs, EndsAs, Throws
  <2>5. CASE r # Throws
    <3>1. IsAny(Stored("long_long", r.val))
      BY <2>2, <2>3, <2>5, IntegerIsAny
    <3> QED
      BY <2>1, <2>2, <2>5, <3>1 DEF StoredAs, EndsAs, Ok, Stored
  <2> QED
    BY <2>4, <2>5
<1> QED
  BY <1>1, <1>2

LEMMA BitEnds ==
  ASSUME NEW text, BitValue(text).how = "ok" => BitValue(text).val[1] \in RangeOf("unsigned_long_long")
  PROVE  EndsAs(StoredAs("unsigned_long_long", BitValue(text)), {"unsigned_long_long"})
<1> DEFINE n == SumSet({2^(i - 1) : i \in {j \in DOMAIN text : text[j] = 1}})
<1>1. BitValue(text) = Ok(<<n>>) \/ BitValue(text) = Throws
  BY Zenon DEF BitValue
<1>2. "unsigned_long_long" \in Signed \cup Unsigned
  BY DEF Unsigned
<1> HIDE DEF n
<1>3. CASE BitValue(text) = Ok(<<n>>)
  <2>1. n \in RangeOf("unsigned_long_long")
    BY <1>3 DEF Ok
  <2>2. <<n>> \in Seq(Int) /\ <<n>> # <<>> /\ <<n>>[1] = n
    BY <2>1, RangeType
  <2>3. IsAny(Stored("unsigned_long_long", <<n>>))
    BY <1>2, <2>1, <2>2, IntegerIsAny
  <2> QED
    BY <1>3, <2>3 DEF StoredAs, EndsAs, Ok, Stored
<1>4. CASE BitValue(text) = Throws
  BY <1>4 DEF StoredAs, EndsAs, Throws
<1> QED
  BY <1>1, <1>3, <1>4

\* What is known of the decoding r of a MySQL cell.
Decoding(cell, r) ==
  /\ EndsAs(r, StoredTypes \ PointerTypes)
  /\ r.how = "undefined" =>
       \/ cell.null /\ cell.type \in MySQLTypes
       \/ /\ cell.type \in {"MYSQL_TYPE_DATETIME", "MYSQL_TYPE_TIMESTAMP"} /\ ~cell.null
          /\ DateTimeFromString(cell.text).how = "undefined"
  /\ r.how = "ok" =>
       /\ r.val.type = "Date" => r.val.val = ReadFields(cell.text)
       /\ r.val.type = "Time" => r.val.val = ReadFields(cell.text)
       /\ r.val.type = "DateTime" => Ok(r.val.val) = DateTimeFromString(cell.text)
       /\ isString(r.val) =>
            \/ r.val.type = "std::string" /\ r.val.val = cell.text
            \/ r.val.type = "char" /\ cell.type \in DOMAIN IntegerColumns /\ ~cell.null

LEMMA EndsMore ==
  ASSUME NEW r, NEW types, NEW more, types \subseteq more, EndsAs(r, types)
  PROVE  EndsAs(r, more)
BY DEF EndsAs

LEMMA StoredAsUndefined ==
  ASSUME NEW type, NEW r, NEW types, EndsAs(StoredAs(type, r), {type})
  PROVE  /\ StoredAs(type, r).how = r.how
         /\ r.how = "ok" => StoredAs(type, r).val = Stored(type, r.val)
BY DEF StoredAs, Ok, EndsAs

LEMMA NoPointers ==
  /\ {"double", "long_long", "unsigned_long_long", "std::string", "void", "Date", "Time", "DateTime"}
       \subseteq StoredTypes \ PointerTypes
  /\ Signed \subseteq StoredTypes \ PointerTypes
BY DEF StoredTypes, PointerTypes, Signed, Unsigned, FloatTypes, StringTypes, TimeTypesOfAny

LEMMA SignedNoText ==
  ASSUME NEW type \in Signed \cup {"double", "long_long", "unsigned_long_long", "void"}, type \in StringTypes
  PROVE  type = "char"
BY DEF Signed, StringTypes

\* A decoding into a type that is neither text nor time, and never undefined.
LEMMA PlainDecoding ==
  ASSUME NEW cell, NEW r, NEW types, EndsAs(r, types), r.how # "undefined",
         types \subseteq Signed \cup {"double", "unsigned_long_long", "void"},
         "char" \in types => cell.type \in DOMAIN IntegerColumns /\ ~cell.null
  PROVE  Decoding(cell, r)
<1>1. types \subseteq StoredTypes \ PointerTypes
  BY NoPointers
<1>2. EndsAs(r, StoredTypes \ PointerTypes)
  BY <1>1, EndsMore
<1>3. ASSUME r.how = "ok"
      PROVE  /\ r.val.type \notin {"Date", "Time", "DateTime"}
             /\ isString(r.val) => r.val.type = "char" /\ "char" \in types
  <2>1. r.val.type \in types
    BY <1>3 DEF EndsAs, Throws, Undefined
  <2>2. r.val.type \notin {"Date", "Time", "DateTime"}
    BY <2>1 DEF Signed
  <2> QED
    BY <2>1, <2>2, SignedNoText DEF isString
<1> QED
  BY <1>2, <1>3 DEF Decoding

\* Reading a DateTime ends in one of three forms.
LEMMA OkForm ==
  ASSUME NEW text
  PROVE  \/ DateTimeFromString(text) = Throws \/ DateTimeFromString(text) = Undefined
         \/ \E v : DateTimeFromString(text) = Ok(v)
<1> DEFINE s == split(text, Space)  t == split(s[2], Dash)  z == ParseInteger(t[2], "int")
           date == ReadFields(s[1])
           whole == date \o ReadFields(s[2]) \o <<NoZone>>
           zoned == date \o ReadFields(t[1]) \o z.val
<1>1. \/ DateTimeFromString(text) \in {Undefined, Ok(whole)}
      \/ DateTimeFromString(text) = IF z.how = "ok" THEN Ok(zoned) ELSE z
  BY Zenon DEF DateTimeFromString, Then
<1>2. z = Throws \/ z.how = "ok"
  BY Zenon DEF ParseInteger, Ok
<1> HIDE DEF z, whole, zoned
<1> QED
  BY <1>1, <1>2

\* What x makes a stored value of type time.
LEMMA TimeDecoding ==
  ASSUME NEW cell, NEW x, NEW type \in {"Date", "Time", "DateTime"},
         x = Throws \/ x = Undefined \/ (x.how = "ok" /\ x.val \in Seq(Int)),
         type \in {"Date", "Time"} => x = Ok(ReadFields(cell.text)),
         type = "DateTime" =>
           /\ x = DateTimeFromString(cell.text) /\ ~cell.null
           /\ cell.type \in {"MYSQL_TYPE_DATETIME", "MYSQL_TYPE_TIMESTAMP"}
  PROVE  Decoding(cell, StoredAs(type, x))
<1> DEFINE r == StoredAs(type, x)
<1>1. EndsAs(r, {type})
  BY OtherTypes, StoredEnds
<1>2. EndsAs(r, StoredTypes \ PointerTypes)
  BY <1>1, NoPointers, EndsMore
<1>3. /\ r.how = x.how /\ r.how \in {"ok", "throws", "undefined"}
      /\ r.how = "ok" => r.val = Stored(type, x.val)
  BY <1>1, StoredAsUndefined DEF EndsAs, Throws, Undefined
<1> HIDE DEF r
<1>4. type \in {"Date", "Time"} => x.how = "ok" /\ x.val = ReadFields(cell.text)
  BY DEF Ok
<1>5. x.how = "ok" => x.val \in Seq(Int)
  BY DEF Throws, Undefined
<1>6. type = "DateTime" /\ x.how = "ok" => Ok(x.val) = DateTimeFromString(cell.text)
  <2>1. ASSUME type = "DateTime", x.how = "ok" PROVE Ok(x.val) = DateTimeFromString(cell.text)
    <3>1. x = DateTimeFromString(cell.text)
      BY <2>1
    <3>2. DateTimeFromString(cell.text) = Throws \/ DateTimeFromString(cell.text) = Undefined
           \/ \E v : DateTimeFromString(cell.text) = Ok(v)
      BY OkForm
    <3> QED
      BY <2>1, <3>1, <3>2 DEF Ok, Throws, Undefined
  <2> QED
    BY <2>1
<1>7. ~(type \in StringTypes)
  BY DEF StringTypes
<1>8. CASE type = "DateTime"
  BY <1>2, <1>3, <1>6, <1>7, <1>8 DEF Decoding, Stored, isString, r
<1>9. CASE type = "Date"
  BY <1>2, <1>3, <1>4, <1>7, <1>9 DEF Decoding, Stored, isString, r
<1>10. CASE type = "Time"
  BY <1>2, <1>3, <1>4, <1>7, <1>10 DEF Decoding, Stored, isString, r
<1> QED
  BY <1>8, <1>9, <1>10

LEMMA BitHow ==
  ASSUME NEW text
  PROVE  BitValue(text).how \in {"ok", "throws"}
<1> DEFINE n == SumSet({2^(i - 1) : i \in {j \in DOMAIN text : text[j] = 1}})
<1>1. BitValue(text) = Ok(<<n>>) \/ BitValue(text) = Throws
  BY Zenon DEF BitValue
<1> HIDE DEF n
<1> QED
  BY <1>1 DEF Ok, Throws

LEMMA NumberHow ==
  ASSUME NEW text \in Seq(Int)
  PROVE  DecimalValue(text).how # "undefined"
<1> DEFINE f == ParseFloat(text)  i == ParseInteger(text, "long_long")
<1>1. f = Throws \/ f.how = "ok"
  BY FloatType
<1>2. i = Throws \/ i.how = "ok"
  BY ParseType
<1>3. \/ DecimalValue(text) = StoredAs("double", f)
      \/ DecimalValue(text) = StoredAs("long_long", i)
  BY Zenon DEF DecimalValue, Then, StoredAs
<1> HIDE DEF f, i
<1> QED
  BY <1>1, <1>2, <1>3 DEF StoredAs, Ok, Throws

\* What every MySQL cell becomes.
LEMMA MySQLDecoded ==
  ASSUME NEW cell, IsMySQLCell(cell)
  PROVE  Decoding(cell, MySQLDecode(cell))
<1> DEFINE t == cell.type  text == cell.text  r == MySQLDecode(cell)
<1>1. text \in Seq(Int) /\ cell.null \in BOOLEAN
  BY DEF IsMySQLCell
<1>2. CASE t = "MYSQL_TYPE_NULL"
  <2>1. r = Ok(Empty)
    BY <1>2, MySQLCases
  <2>2. EndsAs(r, {"void"}) /\ r.how = "ok"
    BY <2>1, EmptyIsAny DEF EndsAs, Ok, Empty, Stored
  <2> HIDE DEF r
  <2> QED
    BY <2>2, PlainDecoding DEF r
<1>3. CASE t \notin MySQLTypes
  <2>1. r = Throws
    BY <1>3, MySQLCases
  <2>2. EndsAs(r, {}) /\ r.how = "throws"
    BY <2>1 DEF EndsAs, Throws
  <2> HIDE DEF r
  <2> QED
    BY <2>2, PlainDecoding DEF r
<1>4. CASE t \in MySQLTypes /\ t # "MYSQL_TYPE_NULL" /\ cell.null
  <2>1. r = Undefined
    BY <1>4, MySQLCases
  <2>2. EndsAs(r, StoredTypes \ PointerTypes) /\ r.how = "undefined"
    BY <2>1 DEF EndsAs, Undefined
  <2> HIDE DEF r
  <2> QED
    BY <1>4, <2>2 DEF Decoding, r
<1>5. CASE t = "MYSQL_TYPE_BIT" /\ ~cell.null
  <2>1. r = StoredAs("unsigned_long_long", BitValue(text))
    BY <1>5, MySQLCases
  <2>2. EndsAs(r, {"unsigned_long_long"})
    BY <1>5, <2>1, BitEnds DEF IsMySQLCell
  <2>3. r.how # "undefined"
    <3>1. BitValue(text).how \in {"ok", "throws"}
      BY BitHow
    <3> QED
      BY <2>1, <3>1 DEF StoredAs, Ok
  <2> HIDE DEF r
  <2> QED
    BY <2>2, <2>3, PlainDecoding DEF r
<1>6. CASE t = "MYSQL_TYPE_DATE" /\ ~cell.null
  <2>1. r = StoredAs("Date", DateFromString(text))
    BY <1>6, MySQLCases
  <2>2. DateFromString(text) = Ok(ReadFields(text)) /\ ReadFields(text) \in Seq(Int)
    BY <1>1, FieldsType DEF DateFromString
  <2> QED
    BY <2>1, <2>2, TimeDecoding DEF Ok
<1>7. CASE t = "MYSQL_TYPE_TIME" /\ ~cell.null
  <2>1. r = StoredAs("Time", TimeFromString(text))
    BY <1>7, MySQLCases
  <2>2. TimeFromString(text) = Ok(ReadFields(text)) /\ ReadFields(text) \in Seq(Int)
    BY <1>1, FieldsType DEF TimeFromString
  <2> QED
    BY <2>1, <2>2, TimeDecoding DEF Ok
<1>8. CASE t \in {"MYSQL_TYPE_DATETIME", "MYSQL_TYPE_TIMESTAMP"} /\ ~cell.null
  <2>1. r = StoredAs("DateTime", DateTimeFromString(text))
    BY <1>8, MySQLCases
  <2>2. LET x == DateTimeFromString(text)
        IN x = Undefined \/ x = Throws \/ (x.how = "ok" /\ x.val \in Seq(Int))
    BY <1>1, DateTimeType
  <2> QED
    BY <1>8, <2>1, <2>2, TimeDecoding
<1>9. CASE t = "MYSQL_TYPE_DECIMAL" /\ ~cell.null
  <2>1. r = DecimalValue(text)
    BY <1>9, MySQLCases
  <2>2. EndsAs(r, {"double", "long_long"})
    BY <1>1, <2>1, NumberEnds
  <2>3. r.how # "undefined"
    BY <1>1, <2>1, NumberHow
  <2>4. {"double", "long_long"} \subseteq Signed \cup {"double", "unsigned_long_long", "void"}
    BY DEF Signed
  <2> HIDE DEF r
  <2> QED
    BY <2>2, <2>3, <2>4, PlainDecoding DEF r
<1>10. CASE t \in {"MYSQL_TYPE_DOUBLE", "MYSQL_TYPE_FLOAT"} /\ ~cell.null
  <2>1. r = StoredAs("double", ParseFloat(text))
    BY <1>10, MySQLCases
  <2>2. ParseFloat(text) = Throws \/ (ParseFloat(text).how = "ok" /\ ParseFloat(text).val \in Seq(Int))
    BY <1>1, FloatType
  <2>3. EndsAs(r, {"double"})
    BY <2>1, <2>2, OtherTypes, StoredEnds
  <2>4. r.how # "undefined"
    BY <2>1, <2>2 DEF StoredAs, Ok, Throws
  <2> HIDE DEF r
  <2> QED
    BY <2>3, <2>4, PlainDecoding DEF r
<1>11. CASE t \in DOMAIN IntegerColumns /\ ~cell.null
  <2>1. r = IntegerValue(t, text)
    BY <1>11, MySQLCases
  <2>2. EndsAs(r, Signed) /\ r.how # "undefined"
    BY <1>1, <1>11, <2>1, IntegerDecoded, StoredInParsed DEF EndsAs, Throws
  <2> HIDE DEF r
  <2> QED
    BY <1>11, <2>2, PlainDecoding DEF r
<1>12. CASE t \in TextTypes /\ ~cell.null
  <2>1. r = Ok(Stored("std::string", text))
    BY <1>12, MySQLCases
  <2>2. IsAny(Stored("std::string", text))
    BY <1>1, OtherTypes, StoredIsAny
  <2> HIDE DEF r
  <2> QED
    BY <2>1, <2>2, NoPointers DEF Decoding, EndsAs, Ok, Stored, r
<1>13. t \in MySQLTypes => \/ t = "MYSQL_TYPE_NULL" \/ t = "MYSQL_TYPE_BIT"
         \/ t = "MYSQL_TYPE_DATE" \/ t = "MYSQL_TYPE_TIME"
         \/ t \in {"MYSQL_TYPE_DATETIME", "MYSQL_TYPE_TIMESTAMP"} \/ t = "MYSQL_TYPE_DECIMAL"
         \/ t \in {"MYSQL_TYPE_DOUBLE", "MYSQL_TYPE_FLOAT"}
         \/ t \in DOMAIN IntegerColumns \/ t \in TextTypes
  BY DEF MySQLTypes
<1> HIDE DEF t, text, r
<1> QED
  BY <1>2, <1>3, <1>4, <1>5, <1>6, <1>7, <1>8, <1>9, <1>10, <1>11, <1>12, <1>13 DEF t, text, r

\* getString() by the type of what is stored.
LEMMA StringCases ==
  ASSUME NEW any
  PROVE  LET t == any.type  r == getString(any)
         IN /\ t = "void" => r = Ok(<<>>)
            /\ t = "char" => r = Ok(<<Character(any.val[1])>>)
            /\ t \in StringTypes /\ t # "char" => r = Ok(any.val)
            /\ t = "unsigned_long_long" => r = Ok(Number(any.val[1]))
            /\ t \in {"unsigned_char", "short", "unsigned_short", "int", "unsigned_int",
                      "long_long"} => r = Ok(Number(Wrap(any.val[1], "long_long")))
            /\ t \in {"long", "unsigned_long"} => r = Throws
            /\ t = "Date" => r = Ok(DateToString(any.val))
            /\ t = "Time" => r = Ok(TimeToString(any.val))
            /\ t = "DateTime" => r = Ok(DateTimeToString(any.val))
<1> USE DEF hasValue, StringTypes, isInteger, Signed, Unsigned, isFloat, FloatTypes
<1>1. ASSUME any.type = "void" PROVE getString(any) = Ok(<<>>)
  BY <1>1 DEF getString
<1>2. ASSUME any.type = "char" PROVE getString(any) = Ok(<<Character(any.val[1])>>)
  BY <1>2 DEF getString
<1>3. ASSUME any.type \in StringTypes, any.type # "char" PROVE getString(any) = Ok(any.val)
  BY <1>3 DEF getString
<1>4. ASSUME any.type = "unsigned_long_long" PROVE getString(any) = Ok(Number(any.val[1]))
  BY <1>4 DEF getString
<1>5. ASSUME any.type \in {"unsigned_char", "short", "unsigned_short", "int", "unsigned_int", "long_long"}
      PROVE getString(any) = Ok(Number(Wrap(any.val[1], "long_long")))
  BY <1>5 DEF getString
<1>6. ASSUME any.type \in {"long", "unsigned_long"} PROVE getString(any) = Throws
  BY <1>6 DEF getString
<1>7. ASSUME any.type = "Date" PROVE getString(any) = Ok(DateToString(any.val))
  BY <1>7 DEF getString
<1>8. ASSUME any.type = "Time" PROVE getString(any) = Ok(TimeToString(any.val))
  BY <1>8 DEF getString
<1>9. ASSUME any.type = "DateTime" PROVE getString(any) = Ok(DateTimeToString(any.val))
  BY <1>9 DEF getString
<1> HIDE DEF hasValue, StringTypes, isInteger, Signed, Unsigned, isFloat, FloatTypes
<1> QED
  BY <1>1, <1>2, <1>3, <1>4, <1>5, <1>6, <1>7, <1>8, <1>9

\* getString() is never undefined.
LEMMA StringHow ==
  ASSUME NEW any
  PROVE  getString(any).how \in {"ok", "throws"}
BY DEF getString, Ok, Throws

\* get<T>() by the type T.
LEMMA GetCases ==
  ASSUME NEW any, NEW T
  PROVE  LET r == get(any, T)
         IN /\ T = "std::string" => r = getString(any)
            /\ T \in {"const_char*", "char*"} =>
                 r = IF getString(any).how = "ok" THEN Undefined ELSE getString(any)
            /\ T \in NumberTypes => r = getNumber(any, T)
            /\ T \in TimeTypesOfAny =>
                 r = IF ~isString(any) THEN Exact(any, T)
                     ELSE IF getString(any).how = "ok" THEN FromString(T, getString(any).val)
                     ELSE getString(any)
            /\ T \notin {"std::string", "const_char*", "char*"} \cup NumberTypes \cup TimeTypesOfAny =>
                 r = Exact(any, T)
<1> USE DEF NumberTypes, TimeTypesOfAny, Signed, Unsigned, FloatTypes
<1>1. ASSUME T = "std::string" PROVE get(any, T) = getString(any)
  BY <1>1 DEF get
<1>2. ASSUME T \in {"const_char*", "char*"}
      PROVE get(any, T) = IF getString(any).how = "ok" THEN Undefined ELSE getString(any)
  BY <1>2 DEF get, Then
<1>3. ASSUME T \in NumberTypes PROVE get(any, T) = getNumber(any, T)
  BY <1>3 DEF get
<1>4. ASSUME T \in TimeTypesOfAny
      PROVE get(any, T) = IF ~isString(any) THEN Exact(any, T)
                     ELSE IF getString(any).how = "ok" THEN FromString(T, getString(any).val)
                     ELSE getString(any)
  BY <1>4 DEF get, Then
<1>5. ASSUME T \notin {"std::string", "const_char*", "char*"} \cup NumberTypes \cup TimeTypesOfAny
      PROVE get(any, T) = Exact(any, T)
  BY <1>5 DEF get
<1> HIDE DEF NumberTypes, TimeTypesOfAny, Signed, Unsigned, FloatTypes
<1> QED
  BY <1>1, <1>2, <1>3, <1>4, <1>5

\* What is not there reads as zero, as the empty text, and as no date.
LEMMA EmptyReads ==
  ASSUME NEW T
  PROVE  /\ T \in NumberTypes => get(Empty, T) = Ok(<<0>>)
         /\ T = "std::string" => get(Empty, T) = Ok(<<>>)
         /\ T \in TimeTypesOfAny => get(Empty, T) = Throws
<1>1. Empty.type = "void" /\ ~hasValue(Empty) /\ ~isFloat(Empty) /\ ~isString(Empty)
  BY DEF Empty, Stored, hasValue, isFloat, FloatTypes, isString, StringTypes
<1>2. getNumber(Empty, T) = Ok(<<0>>)
  BY <1>1, Zenon DEF getNumber, getInteger
<1>3. T \in TimeTypesOfAny => Exact(Empty, T) = Throws
  BY <1>1 DEF Exact, TimeTypesOfAny
<1> QED
  BY <1>1, <1>2, <1>3, GetCases, StringCases

\* The text of an integer.
LEMMA IntegerText ==
  ASSUME NEW any, IsAny(any), any.type \in Signed \cup Unsigned
  PROVE  IF any.type \in {"long", "unsigned_long"} THEN getString(any) = Throws
         ELSE /\ getString(any).how = "ok"
              /\ any.type # "char" => getString(any) = Ok(Number(any.val[1]))
<1>1. any.val[1] \in RangeOf(any.type)
  BY DEF IsAny
<1>2. CASE any.type \in {"long", "unsigned_long"}
  BY <1>2, StringCases
<1>3. CASE any.type = "char"
  BY <1>3, StringCases DEF Ok
<1>4. CASE any.type = "unsigned_long_long"
  BY <1>4, StringCases DEF Ok
<1>5. CASE any.type \in {"unsigned_char", "short", "unsigned_short", "int", "unsigned_int", "long_long"}
  <2>1. any.type # "unsigned_long_long"
    BY <1>5
  <2>2. RangeOf(any.type) \subseteq RangeOf("long_long")
    BY <2>1, RangeInLongLong
  <2>3. Wrap(any.val[1], "long_long") = any.val[1]
    BY <1>1, <2>2, WrapKeeps
  <2>4. any.type \notin {"long", "unsigned_long"}
    BY <1>5
  <2> QED
    BY <1>5, <2>3, <2>4, StringCases DEF Ok
<1> QED
  BY <1>2, <1>3, <1>4, <1>5 DEF Signed, Unsigned

\* (T)n by what is stored and the type T.
LEMMA CastCases ==
  ASSUME NEW any, NEW T
  PROVE  /\ ~isFloat(any) /\ T \notin FloatTypes =>
              Cast(any, T) = Ok(<<Wrap(any.val[1], T)>>)
         /\ Cast(any, T).how \in {"ok", "undefined"}
         /\ Cast(any, T).how = "undefined" =>
              isFloat(any) /\ T \notin FloatTypes /\ Trunc(any.val[1]) \notin RangeOf(T)
<1> DEFINE n == any.val[1]
<1>1. CASE isFloat(any) /\ T \in FloatTypes
  <2>1. Cast(any, T) = Ok(<<n>>)
    BY <1>1, Zenon DEF Cast
  <2> QED
    BY <1>1, <2>1 DEF Ok
<1>2. CASE isFloat(any) /\ T \notin FloatTypes
  <2>1. Cast(any, T) = IF Trunc(n) \in RangeOf(T) THEN Ok(<<Trunc(n)>>) ELSE Undefined
    BY <1>2, Zenon DEF Cast
  <2> QED
    BY <1>2, <2>1 DEF Ok, Undefined
<1>3. CASE ~isFloat(any) /\ T \in FloatTypes
  <2>1. Cast(any, T) = Ok(<<2 * n>>)
    BY <1>3, Zenon DEF Cast
  <2> QED
    BY <1>3, <2>1 DEF Ok
<1>4. CASE ~isFloat(any) /\ T \notin FloatTypes
  <2>1. Cast(any, T) = Ok(<<Wrap(n, T)>>)
    BY <1>4, Zenon DEF Cast
  <2> QED
    BY <1>4, <2>1 DEF Ok
<1> QED
  BY <1>1, <1>2, <1>3, <1>4

\* An integer read as a type it fits into.
LEMMA IntegerRead ==
  ASSUME NEW type \in Signed \cup Unsigned, NEW n \in Int, n # Garbage,
         NEW T \in NumberTypes \ FloatTypes, n \in RangeOf(T)
  PROVE  get(Stored(type, <<n>>), T) = Ok(<<n>>)
<1> DEFINE any == Stored(type, <<n>>)
<1>1. any.type = type /\ any.val[1] = n
  BY DEF Stored
<1> HIDE DEF any
<1>2. hasValue(any) /\ ~isFloat(any) /\ type \in Signed \cup Unsigned \cup FloatTypes \cup {"bool"}
  BY <1>1 DEF hasValue, isFloat, FloatTypes, Signed, Unsigned
<1>3. Cast(any, T) = Ok(<<Wrap(n, T)>>)
  BY <1>1, <1>2, CastCases
<1>4. Wrap(n, T) = n
  BY WrapKeeps
<1>5. getNumber(any, T) = Cast(any, T)
  BY <1>1, <1>2, Zenon DEF getNumber, getInteger
<1>6. get(any, T) = getNumber(any, T)
  BY GetCases
<1> QED
  BY <1>3, <1>4, <1>5, <1>6 DEF any

\* Reading ends in undefined behaviour only as a character pointer, where a text is
\* read as a DateTime, or where a floating-point number is read as an integer type
\* that cannot hold it.
LEMMA UndefinedRead ==
  ASSUME NEW any, NEW T, get(any, T).how = "undefined"
  PROVE  \/ T \in {"const_char*", "char*"}
         \/ /\ T = "DateTime" /\ isString(any)
            /\ DateTimeFromString(getString(any).val).how = "undefined"
         \/ /\ isFloat(any) /\ T \in NumberTypes \ FloatTypes
            /\ Trunc(any.val[1]) \notin RangeOf(T)
<1>1. getString(any).how \in {"ok", "throws"}
  BY StringHow
<1>2. Exact(any, T).how \in {"ok", "throws"}
  BY DEF Exact, Ok, Throws
<1>3. getNumber(any, T).how = "undefined" =>
        isFloat(any) /\ T \notin FloatTypes /\ Trunc(any.val[1]) \notin RangeOf(T)
  <2>1. getNumber(any, T) \in {Ok(<<0>>), Cast(any, T), Exact(any, T)}
    BY DEF getNumber, getInteger, getFloat
  <2> QED
    BY <1>2, <2>1, CastCases DEF Ok
<1>4. ASSUME T \in {"Date", "Time"} PROVE \A text : FromString(T, text).how = "ok"
  <2> TAKE text
  <2>1. FromString(T, text) = Ok(ReadFields(text))
    BY <1>4 DEF FromString, DateFromString, TimeFromString
  <2> QED
    BY <2>1 DEF Ok
<1>5. T = "DateTime" => \A text : FromString(T, text) = DateTimeFromString(text)
  BY DEF FromString
<1>6. CASE T = "DateTime"
  BY <1>1, <1>2, <1>5, <1>6, GetCases DEF TimeTypesOfAny
<1>7. CASE T \in {"Date", "Time"}
  BY <1>1, <1>2, <1>4, <1>7, GetCases DEF TimeTypesOfAny
<1>8. CASE T \notin TimeTypesOfAny
  BY <1>1, <1>2, <1>3, <1>8, GetCases
<1> QED
  BY <1>6, <1>7, <1>8 DEF TimeTypesOfAny

==============================================================================
