--------------------------- MODULE ConnectionArgs ---------------------------
(***************************************************************************)
(* ConnectionArgs (headers/Utils.h, Core/Utils.cpp) and what the open() of *)
(* each backend makes of it: the request that goes to the engine or the    *)
(* server. ConnectionArgs is a function from the keys given to Any. The    *)
(* arguments are read before anything is connected, so that which of them  *)
(* throws first makes no difference.                                       *)
(***************************************************************************)
EXTENDS AnyValue

given(args, key) == key \in DOMAIN args

\* What the three readers have in common: a key that is not given yields the
\* default or throws, a value of another kind throws.
Argument(args, key, option, def, Fits(_), Read(_)) ==
  IF ~given(args, key) THEN (IF option THEN Ok(def) ELSE Throws)
  ELSE IF Fits(args[key]) THEN Read(args[key])
  ELSE Throws

argString(args, key, option, def) ==
  Argument(args, key, option, def, isString, getString)

\* Mutant: whatever is a number is taken, a fraction included.
argIntFromNumber(args, key, option, def) ==
  Argument(args, key, option, def, isNumber, LAMBDA any : getNumber(any, "int"))

argInt(args, key, option, def) ==
  Argument(args, key, option, def, isInteger, LAMBDA any : getInteger(any, "int"))

argBool(args, key, option, def) ==
  Argument(args, key, option, def,
           LAMBDA any : any.type = "bool", LAMBDA any : Exact(any, "bool"))

\* The request, if all the arguments could be read.
Request(arguments, request) ==
  IF \A a \in arguments : a.how = "ok" THEN Ok(request) ELSE Throws

True  == <<1>>
False == <<0>>

------------------------------------------------------------------------------
(* SQLite.                                                                 *)

Memory == <<Colon, Letter, Colon>>    \* ":memory:"
READONLY == 1
READWRITE == 2
CREATE == 4

\* Mutant: a read-only database is opened read-write if it may be created.
SQLiteFlagsCreateWrites(target, create, readOnly, uri) ==
  IF create = True THEN READWRITE + CREATE
  ELSE IF readOnly = True THEN READONLY ELSE READWRITE

\* A database in memory ignores the flags; a URI gets none but CREATE.
SQLiteFlags(target, create, readOnly, uri) ==
  LET creating == IF create = True THEN CREATE ELSE 0
  IN IF target = Memory THEN READWRITE + CREATE
     ELSE IF uri = True THEN creating
     ELSE (IF readOnly = True THEN READONLY ELSE READWRITE) + creating

SQLiteOpen(args) ==
  LET target   == argString(args, "target", FALSE, <<>>)
      create   == argBool(args, "create", TRUE, True)
      readOnly == argBool(args, "readOnly", TRUE, False)
      uri      == argBool(args, "uri", TRUE, False)
  IN Request({target, create, readOnly, uri},
       [target |-> target.val,
        flags |-> SQLiteFlags(target.val, create.val, readOnly.val, uri.val)])

\* sqlite3_open_v2: three combinations of the flags are accepted, and a database
\* that is not there is created only with CREATE.
sqlite3_open(request, exists) ==
  IF /\ request.flags \in {READONLY, READWRITE, READWRITE + CREATE}
     /\ exists \/ request.flags = READWRITE + CREATE
    THEN Ok(request) ELSE Throws

------------------------------------------------------------------------------
(* MySQL and PostgreSQL. The port is cast to uint16_t. PostgreSQL is given *)
(* one string, "host='...' port=... user='...' password='...' ...          *)
(* dbname=... sslkey=...", which libpq takes apart again; the parameters   *)
(* from sslkey on are there if SSL is asked for. The values considered     *)
(* have no equals sign, and that of dbname no quote. What is empty is left *)
(* to the default of the client library.                                   *)

Port(port) == Wrap(port, "unsigned_short")

MySQLOpen(args, defaultPort) ==
  LET host   == argString(args, "host", FALSE, <<>>)
      port   == argInt(args, "port", TRUE, defaultPort)
      db     == argString(args, "database", TRUE, <<>>)
      user   == argString(args, "user", FALSE, <<>>)
      passwd == argString(args, "passwd", FALSE, <<>>)
  IN Request({host, port, db, user, passwd},
       [host |-> host.val, port |-> Port(port.val[1]), database |-> db.val,
        user |-> user.val, passwd |-> passwd.val, ssl |-> FALSE])

\* What libpq reads of a value in quotes: a backslash stands for the character after
\* it. A quote within the value, or a backslash at its end, leaves a string that
\* cannot be taken apart.
Quoted(text) ==
  LET Read(r, c) ==
        IF r.escaped THEN [r EXCEPT !.val = Append(@, c), !.escaped = FALSE]
        ELSE IF c = Backslash THEN [r EXCEPT !.escaped = TRUE]
        ELSE [r EXCEPT !.val = Append(@, c), !.ended = @ \/ c = Quote]
      read[i \in 0..Len(text)] ==
        IF i = 0 THEN [val |-> <<>>, escaped |-> FALSE, ended |-> FALSE]
                 ELSE Read(read[i - 1], text[i])
      end == read[Len(text)]
  IN IF end.escaped \/ end.ended THEN Throws ELSE Ok(end.val)

\* What libpq reads of a value without quotes, the last parameter or one before next:
\* it begins behind the blanks and ends at the first blank after that. A word behind
\* it is a parameter without "=", an error. A name of blanks lets the next parameter
\* be taken for the value; a backslash at the end joins that to it, or is dropped.
Unquoted(text, next) ==
  LET Read(r, c) ==
        IF r.ended THEN [r EXCEPT !.stray = @ \/ c # Space]
        ELSE IF r.escaped THEN [r EXCEPT !.val = Append(@, c), !.escaped = FALSE]
        ELSE IF c = Space THEN [r EXCEPT !.ended = r.begun]
        ELSE IF c = Backslash THEN [r EXCEPT !.begun = TRUE, !.escaped = TRUE]
        ELSE [r EXCEPT !.begun = TRUE, !.val = Append(@, c)]
      read[i \in 0..Len(text)] ==
        IF i = 0 THEN [val |-> <<>>, begun |-> FALSE, escaped |-> FALSE,
                       ended |-> FALSE, stray |-> FALSE]
                 ELSE Read(read[i - 1], text[i])
      end == read[Len(text)]
  IN IF end.stray THEN Throws
     ELSE IF ~end.begun THEN Ok(next)
     ELSE IF end.escaped /\ next # <<>> THEN Ok(end.val \o <<Space>> \o next)
     ELSE Ok(end.val)

\* "sslkey=...", what follows the database if SSL is asked for: some text.
NextParameter == <<Letter>>

\* The arguments that are written into the string and read back by libpq; an empty
\* database is not written.
PgArgument(arg) == Then(arg, Quoted)
PgDatabase(arg, ssl) ==
  Then(arg, LAMBDA text : IF text = <<>> THEN Ok(text)
            ELSE Unquoted(text, IF ssl THEN NextParameter ELSE <<>>))

\* The words of sslmode: "disable" and another one.
Disable == <<FalseWord>>

\* The files and the compression are asked for only if SSL is not disabled.
PgSQLOpen(args, defaultPort, defaultTimeout) ==
  LET host    == PgArgument(argString(args, "host", FALSE, <<>>))
      port    == argInt(args, "port", TRUE, defaultPort)
      user    == PgArgument(argString(args, "user", FALSE, <<>>))
      passwd  == PgArgument(argString(args, "passwd", FALSE, <<>>))
      timeout == argInt(args, "timeout", TRUE, defaultTimeout)
      sslmode == argString(args, "sslmode", TRUE, Disable)
      files   == {argString(args, key, TRUE, <<Letter>>) :
                    key \in {"sslkey", "sslcert", "sslrootcert", "sslcrl"}}
      compression == argBool(args, "sslcompression", TRUE, True)
      ssl     == sslmode.val # Disable
      db      == PgDatabase(argString(args, "database", FALSE, <<>>), ssl)
  IN Request({host, port, db, user, passwd, timeout, sslmode}
               \cup (IF ssl THEN files \cup {compression} ELSE {}),
       [host |-> host.val, port |-> Port(port.val[1]), database |-> db.val,
        user |-> user.val, passwd |-> passwd.val, ssl |-> ssl])

=============================================================================
