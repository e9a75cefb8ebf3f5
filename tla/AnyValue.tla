------------------------------ MODULE AnyValue ------------------------------
(***************************************************************************)
(* LLDB::Any (headers/Any.h, Core/Any.cpp): a std::any whose readers look  *)
(* at the type that was stored. An Any is a stored type and a value, the   *)
(* value being a sequence of integers: <<n>> for the integer types and     *)
(* bool (0 or 1), <<h>> for floating point (h halves), the text for the    *)
(* types of strings, the fields for Date, Time and DateTime. What a        *)
(* pointer points to is written as its value; whether it still points      *)
(* there is for the user of this module to say.                            *)
(***************************************************************************)
EXTENDS TimeTypes

Stored(t, v) == [type |-> t, val |-> v]
Empty == Stored("void", <<>>)    \* Any(): has_value() is false

FloatTypes   == {"float", "double"}
StringTypes  == {"char", "char*", "const_char*", "std::string",
                 "std::string*", "const_std::string*"}
TimeTypesOfAny == {"Date", "Time", "DateTime"}
PointerTypes == {"char*", "const_char*", "std::string*", "const_std::string*", "void*"}

\* The types of which get<T> converts a number into T.
NumberTypes == (Signed \cup Unsigned \cup FloatTypes) \ {"long", "unsigned_long"}

\* What an Any can be: an integer is in the range of the type it is stored as.
StoredTypes == Signed \cup Unsigned \cup FloatTypes \cup StringTypes \cup TimeTypesOfAny
                 \cup {"void", "void*", "bool"}
IsAny(any) == /\ any.type \in StoredTypes /\ any.val \in Seq(Int)
              /\ any.type \in Signed \cup Unsigned =>
                   any.val # <<>> /\ any.val[1] \in RangeOf(any.type)

hasValue(any) == any.type # "void"
isString(any) == any.type \in StringTypes

\* isInteger() does not know long, unsigned long and bool.
isInteger(any) == any.type \in (Signed \cup Unsigned) \ {"long", "unsigned_long"}
isFloat(any)   == any.type \in FloatTypes
isNumber(any)  == isInteger(any) \/ isFloat(any)

\* _get<T>(): the value if it was stored as a T, and nothing else.
Exact(any, T) == IF any.type = T THEN Ok(any.val) ELSE Throws

------------------------------------------------------------------------------
(* Numbers.                                                                *)

\* (T)n. A floating-point number loses its fraction; for one that is then out of the
\* range of an integer type T the behaviour is undefined.
Cast(any, T) ==
  LET n == any.val[1]
  IN CASE isFloat(any) /\ T \in FloatTypes       -> Ok(<<n>>)
       [] isFloat(any) /\ T \notin FloatTypes    ->
            IF Trunc(n) \in RangeOf(T) THEN Ok(<<Trunc(n)>>) ELSE Undefined
       [] ~isFloat(any) /\ T \in FloatTypes      -> Ok(<<2 * n>>)
       [] ~isFloat(any) /\ T \notin FloatTypes   -> Ok(<<Wrap(n, T)>>)

\* Mutant: whether there is a value is not asked.
getIntegerUnasked(any, T) ==
  IF any.type \in Signed \cup Unsigned \cup FloatTypes \cup {"bool"}
    THEN Cast(any, T)
  ELSE Exact(any, T)

\* getInteger<T>(): every arithmetic type is converted, long and bool among them.
getInteger(any, T) ==
  IF ~hasValue(any) THEN Ok(<<0>>)
  ELSE IF any.type \in Signed \cup Unsigned \cup FloatTypes \cup {"bool"}
    THEN Cast(any, T)
  ELSE Exact(any, T)

getFloat(any, T) ==
  IF ~hasValue(any) THEN Ok(<<0>>)
  ELSE IF isFloat(any) THEN Cast(any, T)
  ELSE Exact(any, T)

getNumber(any, T) == IF isFloat(any) THEN getFloat(any, T) ELSE getInteger(any, T)

------------------------------------------------------------------------------
(* Text.                                                                   *)

\* Mutant: the type of 64 bits without a sign is printed as one with a sign.
getStringSigned(any) ==
  CASE ~hasValue(any)      -> Ok(<<>>)
    [] any.type = "char"   -> Ok(<<Character(any.val[1])>>)
    [] isString(any) /\ any.type # "char" -> Ok(any.val)
    [] any.type = "bool"   -> Ok(<<IF any.val[1] = 1 THEN TrueWord ELSE FalseWord>>)
    [] isInteger(any) /\ any.type # "char" -> Ok(Number(Wrap(any.val[1], "long_long")))
    [] isFloat(any)        -> Ok(FloatText(any.val[1]))
    [] any.type = "Date"   -> Ok(DateToString(any.val))
    [] any.type = "Time"   -> Ok(TimeToString(any.val))
    [] any.type = "DateTime" -> Ok(DateTimeToString(any.val))
    [] OTHER               -> Throws

\* getString(): a char is one character and no number; an integer is printed as
\* int64_t unless it is a uint64_t; what isInteger() does not know is left to
\* _get<std::string>, which throws.
getString(any) ==
  LET t == any.type
  IN CASE ~hasValue(any)                 -> Ok(<<>>)
       [] t = "char"                     -> Ok(<<Character(any.val[1])>>)
       [] t \in StringTypes \ {"char"}   -> Ok(any.val)
       [] t = "bool"                     ->
            Ok(<<IF any.val[1] = 1 THEN TrueWord ELSE FalseWord>>)
       [] t = "unsigned_long_long"       -> Ok(Number(any.val[1]))
       [] isInteger(any) /\ t \notin {"char", "unsigned_long_long"} ->
            Ok(Number(Wrap(any.val[1], "long_long")))
       [] isFloat(any)                   -> Ok(FloatText(any.val[1]))
       [] t = "Date"                     -> Ok(DateToString(any.val))
       [] t = "Time"                     -> Ok(TimeToString(any.val))
       [] t = "DateTime"                 -> Ok(DateTimeToString(any.val))
       [] OTHER                          -> Throws

------------------------------------------------------------------------------
(* get<T>() and its specialisations.                                       *)

FromString(T, text) ==
  CASE T = "Date" -> DateFromString(text)
    [] T = "Time" -> TimeFromString(text)
    [] T = "DateTime" -> DateTimeFromString(text)

\* The character pointers returned point into a local std::string that is gone.
get(any, T) ==
  CASE T = "std::string"             -> getString(any)
    [] T \in {"const_char*", "char*"} -> Then(getString(any), LAMBDA text : Undefined)
    [] T \in NumberTypes             -> getNumber(any, T)
    [] T \in TimeTypesOfAny          ->
         IF isString(any) THEN Then(getString(any), LAMBDA text : FromString(T, text))
                          ELSE Exact(any, T)
    [] OTHER                         -> Exact(any, T)

=============================================================================
