----------------------------- MODULE OnceStream -----------------------------
(***************************************************************************)
(* The stream API (headers/Once.h, Core/Once.cpp):                         *)
(*   session << "SELECT ...", use(value), use(key, value), into(result);   *)
(* operator<< makes a Once object on the heap, use() edits its text, into()*)
(* runs the text on the session and releases the object. One statement is  *)
(* under way at a time; objects are shared by nothing. Positions in a text *)
(* are 0-based in the code and in start, 1-based in sequences.             *)
(***************************************************************************)
EXTENDS Integers, Sequences, FiniteSets, SequencesExt

CONSTANTS
  Objects,    \* Once objects, on the heap
  NULL,       \* no object
  Pieces,     \* what is streamed with <<, as token sequences
  Keys,       \* names of keyed placeholders
  Values,     \* values for use(), as sequences of characters
  Habits,     \* what may go wrong, see below
  MaxTokens,  \* bound on the tokens of a text
  MaxUses,    \* bound on the positional use() calls of a statement
  SizeLimit   \* 2^w of size_t

\* Tokens of a template: a positional placeholder, an escaped question mark, a
\* keyed placeholder (its key), and any other character.
Mark == "?"
Escaped == "??"

Chars(token) ==
  IF token = Escaped THEN <<Mark, Mark>>
  ELSE IF token \in Keys THEN <<"$", "{", token, "}">>
  ELSE <<token>>

\* Habits: "throw"  the session may throw, and so may from_row;
\*   "noKey"  use() may be given a key the text does not have;
\*   "escapeFirst"  a "??" may stand before a positional placeholder.
AllHabits == {"throw", "noKey", "escapeFirst"}

ASSUME OnceAssumption ==
  /\ NULL \notin Objects
  /\ MaxTokens \in Nat /\ MaxUses \in Nat /\ SizeLimit \in Nat \ {0}
  /\ Habits \subseteq AllHabits
  /\ \A p \in Pieces \cup Values : p \in Seq(Range(p))
  /\ {Mark, Escaped, "$"} \cap Keys = {}

\* An application whose texts and values can be told apart: "$" begins keyed
\* placeholders only, values are not empty and begin no placeholder, and all values of
\* a statement together are shorter than a size_t can count.
Unambiguous ==
  /\ "escapeFirst" \notin Habits
  /\ \A p \in Pieces : "$" \notin Range(p)
  /\ \A v \in Values : v # <<>> /\ Range(v) \cap {Mark, "$"} = {}
  /\ \E n \in 0..SizeLimit : MaxUses * n < SizeLimit /\ \A v \in Values : Len(v) <= n

VARIABLES
  live,       \* the objects that were allocated and not deleted
  once,       \* the object of the statement under way
  text,       \* Once::sql of that object, character by character
  start,      \* Once::start of that object
  template,   \* history: the tokens streamed into it
  given,      \* history: the values of use(value), as far as there were marks
  keyed,      \* history: keyed[k], the values of use(k, value)
  threw,      \* history: the objects whose statement ended with an exception
  crashed     \* undefined behaviour has ended the process

stringVars  == <<text, start>>
historyVars == <<template, given, keyed>>
vars == <<live, once, stringVars, historyVars, threw, crashed>>

Init ==
  /\ live = {}
  /\ once = NULL
  /\ text = <<>>
  /\ start = 0
  /\ template = <<>>
  /\ given = <<>>
  /\ keyed = [k \in Keys |-> <<>>]
  /\ threw = {}
  /\ crashed = FALSE

------------------------------------------------------------------------------
(* What a statement is meant to send, from its history alone.              *)

\* The n-th token of the template is the Rank(n)-th of its kind.
Rank(n) == Cardinality({i \in 1..n : template[i] = template[n]})
Marks == Cardinality({i \in DOMAIN template : template[i] = Mark})

\* The values that fill the n-th token, if it is a placeholder.
Fillers(n) ==
  IF template[n] = Mark THEN given
  ELSE IF template[n] \in Keys THEN keyed[template[n]]
  ELSE <<>>

\* The template with every placeholder that was used filled in, where a token
\* that was not filled in is rendered by Rendering.
Meant(Rendering(_)) ==
  FlattenSeq([n \in DOMAIN template |->
                IF Rank(n) <= Len(Fillers(n)) THEN Fillers(n)[Rank(n)]
                                              ELSE Rendering(template[n])])

------------------------------------------------------------------------------
(* operator<<.                                                             *)

Streamed(piece) == FlattenSeq([n \in DOMAIN piece |-> Chars(piece[n])])

\* Two question marks in a row are an escaped one, never two placeholders.
Allowed(tokens) ==
  /\ \A i \in 1..Len(tokens) - 1 : tokens[i] = Mark => tokens[i + 1] \notin {Mark, Escaped}
  /\ \/ "escapeFirst" \in Habits
     \/ \A i, j \in DOMAIN tokens : i < j => ~(tokens[i] = Escaped /\ tokens[j] = Mark)

\* session << piece: a new object, which is given the piece.
Begin(o, piece) ==
  /\ once = NULL /\ o \notin live
  /\ Allowed(piece)
  /\ live' = live \cup {o}
  /\ once' = o
  /\ text' = Streamed(piece)
  /\ template' = piece
  /\ UNCHANGED <<start, given, keyed, threw, crashed>>

\* once << piece.
Stream(piece) ==
  /\ once # NULL
  /\ Len(template) + Len(piece) <= MaxTokens
  /\ Allowed(template \o piece)
  /\ text' = text \o Streamed(piece)
  /\ template' = template \o piece
  /\ UNCHANGED <<live, once, start, given, keyed, threw, crashed>>

------------------------------------------------------------------------------
(* use().                                                                  *)

\* The first single question mark from i on, taking them in pairs; the length
\* of the text if there is none.
NextMark(i) ==
  LET scan[j \in 0..Len(text) + 1] ==
        IF j >= Len(text) THEN Len(text)
        ELSE IF text[j + 1] # Mark THEN scan[j + 1]
        ELSE IF j + 1 < Len(text) /\ text[j + 2] = Mark THEN scan[j + 2]
        ELSE j
  IN  IF i >= Len(text) THEN Len(text) ELSE scan[i]

\* text with the n characters from position i on replaced by v.
Spliced(i, n, v) == SubSeq(text, 1, i) \o v \o SubSeq(text, i + n + 1, Len(text))

\* Mutant: the mark stays behind the value.
UsePositionalKeepsMark(v) ==
  /\ once # NULL
  /\ Len(given) < MaxUses
  /\ LET i == NextMark(start) IN
     IF i < Len(text)
       THEN /\ text' = Spliced(i, 0, v)
            /\ start' = (start + Len(v) - 1) % SizeLimit
       ELSE UNCHANGED stringVars
  /\ given' = IF Len(given) < Marks THEN Append(given, v) ELSE given
  /\ UNCHANGED <<live, once, template, keyed, threw, crashed>>

\* use(value): the next mark from start on is replaced. start, a size_t, is
\* advanced by the size of the value less one, wherever the mark was.
UsePositional(v) ==
  /\ once # NULL
  /\ Len(given) < MaxUses
  /\ LET i == NextMark(start) IN
     IF i < Len(text)
       THEN /\ text' = Spliced(i, 1, v)
            /\ start' = (start + Len(v) - 1) % SizeLimit
       ELSE UNCHANGED stringVars
  /\ given' = IF Len(given) < Marks THEN Append(given, v) ELSE given
  /\ UNCHANGED <<live, once, template, keyed, threw, crashed>>

\* Mutant: the reference to the object is kept.
EndStatementKeepsObject ==
  /\ UNCHANGED once
  /\ text' = <<>>
  /\ start' = 0
  /\ template' = <<>>
  /\ given' = <<>>
  /\ keyed' = [k \in Keys |-> <<>>]

\* The statement is over; the next one starts with an object of its own.
EndStatement ==
  /\ once' = NULL
  /\ text' = <<>>
  /\ start' = 0
  /\ template' = <<>>
  /\ given' = <<>>
  /\ keyed' = [k \in Keys |-> <<>>]

\* An exception leaves the statement. Nothing deletes the object.
Throw ==
  /\ EndStatement
  /\ threw' = threw \cup {once}
  /\ UNCHANGED <<live, crashed>>

\* use(key, value): the first ${key} is replaced; without one it throws.
UseKeyed(k, v) ==
  /\ once # NULL
  /\ Len(keyed[k]) < MaxUses
  /\ \/ /\ Chars(k) \in SubSeqs(text)
        /\ text' = ReplaceFirstSubSeq(v, Chars(k), text)
        /\ keyed' = [keyed EXCEPT ![k] = Append(@, v)]
        /\ UNCHANGED <<live, once, start, template, given, threw, crashed>>
     \/ /\ "noKey" \in Habits /\ Chars(k) \notin SubSeqs(text)
        /\ Throw

------------------------------------------------------------------------------
(* into().                                                                 *)

\* Mutant: question marks are collapsed until none is followed by another.
GetSQLCollapsesRuns(str) ==
  FlattenSeq([i \in DOMAIN str |->
                IF str[i] = Mark /\ i < Len(str) /\ str[i + 1] = Mark
                  THEN <<>> ELSE <<str[i]>>])

\* getSQL(): from the left, the first of two question marks is erased and the
\* search goes on behind the second.
GetSQL(str) ==
  LET sql[i \in 1..Len(str) + 2] ==
        IF i > Len(str) THEN <<>>
        ELSE IF i < Len(str) /\ str[i] = Mark /\ str[i + 1] = Mark
          THEN <<Mark>> \o sql[i + 2]
        ELSE <<str[i]>> \o sql[i + 1]
  IN  sql[1]

\* What into() is given: nothing or a bool, for exec(); a Row, Results, or a
\* value or a vector of a type with from_row, for query().
Targets == {"nothing", "bool", "Row", "Results", "value", "vector"}

\* Mutant: into(bool&) returns from its catch block.
IntoReleasesUnlessFailed(target) ==
  /\ once # NULL /\ text # <<>>
  /\ EndStatement
  /\ live' = IF target = "bool" THEN live ELSE live \ {once}
  /\ UNCHANGED <<threw, crashed>>

\* The session runs the text, or, for a bool, throws something that is caught.
\* Then the object is deleted.
IntoReleases(target) ==
  /\ once # NULL
  /\ text # <<>> \/ target = "bool"
  /\ EndStatement
  /\ live' = live \ {once}
  /\ UNCHANGED <<threw, crashed>>

\* The session or from_row throws, or getSQL() does: for an empty text its
\* bound, size() - 1, wraps and it searches the memory behind the string, which
\* may make string::erase throw.
IntoThrows(target) ==
  /\ once # NULL /\ target # "bool"
  /\ "throw" \in Habits \/ text = <<>>
  /\ Throw

\* It may also end the process; so does res[0] of a result without rows, which
\* is what into(Row&) reads.
IntoCrashes(target) ==
  /\ once # NULL
  /\ text = <<>> \/ target = "Row"
  /\ crashed' = TRUE
  /\ UNCHANGED <<live, once, stringVars, historyVars, threw>>

------------------------------------------------------------------------------

Next ==
  /\ ~crashed
  /\ \/ \E o \in Objects, piece \in Pieces : Begin(o, piece)
     \/ \E piece \in Pieces : Stream(piece)
     \/ \E v \in Values : UsePositional(v)
     \/ \E k \in Keys, v \in Values : UseKeyed(k, v)
     \/ \E target \in Targets :
          IntoReleases(target) \/ IntoThrows(target) \/ IntoCrashes(target)

Spec == Init /\ [][Next]_vars

------------------------------------------------------------------------------
(* Properties.                                                             *)

Symbols == (UNION {Range(Chars(token)) : token \in UNION {Range(p) : p \in Pieces}})
             \cup (UNION {Range(v) : v \in Values})

\* The values every variable ranges over.
TypeOK ==
  /\ live \subseteq Objects /\ threw \subseteq Objects
  /\ once \in live \cup {NULL}
  /\ text \in Seq(Symbols)
  /\ start \in 0..SizeLimit - 1
  /\ given \in Seq(Values)
  /\ keyed \in [Keys -> Seq(Values)]
  /\ crashed \in BOOLEAN

\* Once.h:45-46: the n-th use(value) replaces the n-th ? of what was streamed and
\* the n-th use(key, value) the n-th ${key}, in whatever order they come, and
\* everything else stays as it was streamed.
TextAsMeant == once # NULL => text = Meant(Chars)

\* What into() sends is the template with its placeholders filled in and each
\* escaped question mark written once.
Unescaped(token) == IF token = Escaped THEN <<Mark>> ELSE Chars(token)
SqlAsMeant == once # NULL => GetSQL(text) = Meant(Unescaped)

\* Once.h:50: when into() is over the object is released, and not while the statement
\* is under way. An into() of a bool catches what is thrown and releases all the same;
\* of the object of a statement that threw nothing is claimed.
ReleasedUnlessThrown ==
  /\ live \ threw \subseteq {once}
  /\ once # NULL => once \in live
=============================================================================
