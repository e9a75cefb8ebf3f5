---------------------------- MODULE TextNumbers ----------------------------
(***************************************************************************)
(* What the conversions of the library are built from: texts, integers of  *)
(* a width, and the ways a call can end.                                   *)
(*                                                                         *)
(* A text is a sequence of tokens, which are integers so that all texts    *)
(* and values compare: a run of digits is the number it spells (leading    *)
(* zeros make no difference to any reader in the code), and a separator, a *)
(* word or another character is a negative number. The texts of numbers    *)
(* and dates have no white space but between a date and a time, and no     *)
(* plus sign.                                                              *)
(***************************************************************************)
EXTENDS Integers, SequencesExt

CONSTANTS
  CharSize, ShortSize, IntSize, LongLongSize,  \* how many values a type has: 2^width
  Garbage                                      \* an indeterminate value

ASSUME TextAssumption ==
  /\ CharSize \in Nat /\ ShortSize \in Nat /\ IntSize \in Nat /\ LongLongSize \in Nat
  /\ CharSize % 2 = 0 /\ ShortSize % 2 = 0 /\ IntSize % 2 = 0 /\ LongLongSize % 2 = 0
  /\ 0 < CharSize /\ 2 * CharSize <= ShortSize
  /\ 2 * ShortSize <= IntSize /\ 2 * IntSize <= LongLongSize
  /\ Garbage \in Int /\ Garbage < -10 - LongLongSize

Dash == -1
Colon == -2
Space == -3
Dot == -4
TrueWord == -5
FalseWord == -6
Letter == -7    \* any other text
Quote == -8
Backslash == -9

\* The character a char of value n stands for, as opposed to its digits.
Character(n) == -10 - (n % CharSize)

------------------------------------------------------------------------------
(* How a call ends: with a value, with an exception, or in undefined       *)
(* behaviour.                                                              *)

Ok(v)     == [how |-> "ok", val |-> v]
Throws    == [how |-> "throws", val |-> <<>>]
Undefined == [how |-> "undefined", val |-> <<>>]

\* The end of a call that goes on with F(v) after another one.
Then(r, F(_)) == IF r.how = "ok" THEN F(r.val) ELSE r

------------------------------------------------------------------------------
(* Integer types of the Windows data model, where long is as wide as int.  *)
(* Names of types have underscores for spaces.                             *)

Signed   == {"char", "short", "int", "long", "long_long"}
Unsigned == {"unsigned_char", "unsigned_short", "unsigned_int",
             "unsigned_long", "unsigned_long_long"}

Size(t) ==
  CASE t \in {"char", "unsigned_char"}           -> CharSize
    [] t \in {"short", "unsigned_short"}         -> ShortSize
    [] t \in {"long_long", "unsigned_long_long"} -> LongLongSize
    [] OTHER                                     -> IntSize

RangeOf(t) == IF t \in Unsigned THEN 0 .. Size(t) - 1
                                ELSE -(Size(t) \div 2) .. Size(t) \div 2 - 1

\* An integer converted to type t: the value of t that is equal modulo Size(t).
Wrap(n, t) ==
  LET m == n % Size(t) IN IF m \in RangeOf(t) THEN m ELSE m - Size(t)

------------------------------------------------------------------------------
(* Numbers as text.                                                        *)

\* std::to_string(n), and what a stream prints for n.
Number(n) == IF n < 0 /\ n # Garbage THEN <<Dash, -n>> ELSE <<n>>

IsDigits(token) == token >= 0 \/ token = Garbage

\* The number at the front of text and what follows it. An empty text leaves the
\* variable that is read into as it was, anything else than a number makes it 0.
TakeNumber(text) ==
  LET signed == text # <<>> /\ Head(text) = Dash
      digits == IF signed THEN Tail(text) ELSE text
  IN IF text = <<>> THEN [val |-> Garbage, good |-> FALSE, rest |-> <<>>]
     ELSE IF digits = <<>> \/ ~IsDigits(Head(digits))
       THEN [val |-> 0, good |-> FALSE, rest |-> <<>>]
     ELSE [val |-> IF signed THEN -Head(digits) ELSE Head(digits),
           good |-> TRUE, rest |-> Tail(digits)]

\* ss >> n for an int n: a number beyond int yields the int nearest to it. There, and
\* where no number stands, the stream has failed and nothing more is read from it.
Nearest(n, t) == IF n < 0 THEN -(Size(t) \div 2) ELSE Size(t) \div 2 - 1
ReadInt(text) ==
  LET n == TakeNumber(text)
  IN IF n.good /\ n.val \notin RangeOf("int")
       THEN [val |-> Nearest(n.val, "int"), good |-> FALSE, rest |-> <<>>]
       ELSE n

\* std::stoi, std::stol and std::stoll: characters after the number are ignored;
\* no number, or one out of the range of the type, is an exception.
ParseInteger(text, t) ==
  LET n == TakeNumber(text)
  IN IF n.good /\ n.val \in RangeOf(t) THEN Ok(<<n.val>>) ELSE Throws

\* A floating-point number is a count of halves, which is enough to tell a number
\* with a fraction from one without; std::to_string prints both with a point.
Trunc(h) == IF h >= 0 THEN h \div 2 ELSE -((-h) \div 2)
FloatText(h) ==
  LET size == IF h < 0 THEN -h ELSE h
  IN (IF h < 0 THEN <<Dash>> ELSE <<>>) \o <<size \div 2, Dot, 5 * (size % 2)>>

\* std::stod: the number, and its fraction if a point follows.
ParseFloat(text) ==
  LET n == TakeNumber(text)
      half == IF Len(n.rest) > 1 /\ n.rest[1] = Dot /\ n.rest[2] = 5 THEN 1 ELSE 0
  IN IF ~n.good THEN Throws
     ELSE Ok(<<IF Head(text) = Dash THEN 2 * n.val - half ELSE 2 * n.val + half>>)

------------------------------------------------------------------------------
\* The k-th number of a finite set of numbers, from the least.
Nth(S, k) == CHOOSE e \in S : Cardinality({d \in S : d <= e}) = k

\* Where the lines of getline with that delimiter end: a text that ends with the
\* delimiter has no empty line after it, and an empty text no line at all.
Ends(text, delim) ==
  {i \in 1..Len(text) : text[i] = delim}
    \cup (IF text = <<>> \/ Last(text) = delim THEN {} ELSE {Len(text) + 1})

\* split(str, delim): these lines.
split(text, delim) ==
  LET ends == Ends(text, delim)
      Begin(k) == IF k = 1 THEN 1 ELSE Nth(ends, k - 1) + 1
  IN [k \in 1..Cardinality(ends) |-> SubSeq(text, Begin(k), Nth(ends, k) - 1)]

=============================================================================
