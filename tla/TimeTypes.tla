----------------------------- MODULE TimeTypes -----------------------------
(***************************************************************************)
(* Date, Time and DateTime (headers/Types.h) and their conversions from    *)
(* and to text (Core/Mess.cpp). A Date is <<year, month, day>>, a Time is  *)
(* <<hour, minute, second>>, a DateTime is both and then the time zone,    *)
(* which is -1 for none. A field of a Date or a Time that no one assigned  *)
(* holds Garbage.                                                          *)
(***************************************************************************)
EXTENDS TextNumbers

NoZone == -1

DateOf(dt) == SubSeq(dt, 1, 3)
TimeOf(dt) == SubSeq(dt, 4, 6)
ZoneOf(dt) == dt[7]

\* Mutant: the separators are not skipped.
ReadFieldsUnskipped(text) ==
  LET Next(r) == IF r.good /\ r.rest # <<>> THEN ReadInt(r.rest) ELSE ReadInt(<<>>)
      first   == ReadInt(text)
      second  == Next(first)
  IN <<first.val, second.val, Next(second).val>>

\* Three numbers with one character ignored after the first and the second.
ReadFields(text) ==
  LET Next(r) == IF r.good /\ r.rest # <<>> THEN ReadInt(Tail(r.rest)) ELSE ReadInt(<<>>)
      first   == ReadInt(text)
      second  == Next(first)
  IN <<first.val, second.val, Next(second).val>>

DateFromString(text) == Ok(ReadFields(text))
TimeFromString(text) == Ok(ReadFields(text))

\* DateTime::fromString: what stands after the first space is the time; if there
\* is a dash in it, what stands before the first dash is the time and what stands
\* after it the zone. The pieces of split are indexed without a look at their
\* number.
DateTimeFromString(text) ==
  LET s    == split(text, Space)
      t    == split(s[2], Dash)
      date == ReadFields(s[1])
  IN IF Len(s) < 2 THEN Undefined
     ELSE IF ~Contains(s[2], Dash) THEN Ok(date \o ReadFields(s[2]) \o <<NoZone>>)
     ELSE IF Len(t) < 2 THEN Undefined
     ELSE Then(ParseInteger(t[2], "int"),
               LAMBDA zone : Ok(date \o ReadFields(t[1]) \o zone))

\* Nothing is padded, and no field is compared with the range it should be in.
Fields(f, separator) ==
  Number(f[1]) \o <<separator>> \o Number(f[2]) \o <<separator>> \o Number(f[3])
DateToString(date) == Fields(date, Dash)
TimeToString(time) == Fields(time, Colon)

\* Mutant: the zone is printed although there is none.
DateTimeToStringAlwaysZone(dt) ==
  DateToString(DateOf(dt)) \o <<Space>> \o TimeToString(TimeOf(dt))
    \o <<Dash>> \o Number(ZoneOf(dt))

\* The zone is printed after a dash, whatever its sign.
DateTimeToString(dt) ==
  DateToString(DateOf(dt)) \o <<Space>> \o TimeToString(TimeOf(dt))
    \o (IF ZoneOf(dt) = NoZone THEN <<>> ELSE <<Dash>> \o Number(ZoneOf(dt)))

=============================================================================
