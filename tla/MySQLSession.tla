---------------------------- MODULE MySQLSession ----------------------------
(***************************************************************************)
(* The MySQL backend (MySQL/MySQLSession.cpp) over the handles of          *)
(* libmysql and the server connections behind them. Sessions are used by   *)
(* one thread each; the threads interleave, and share the function-local   *)
(* static stmt_num of MySQLSession::query. The library refuses a command   *)
(* (CR_COMMANDS_OUT_OF_SYNC) while the rows of the previous one are        *)
(* neither read nor freed. Calls on a null conn, other than open() and     *)
(* close(), dereference it and end the process.                            *)
(***************************************************************************)
EXTENDS Integers, Sequences

CONSTANTS
  Sessions,   \* session objects, each used by one thread
  Structs,    \* MYSQL structures of the client library
  Socks,      \* connections to the server
  NULL,       \* the null pointer
  Texts,      \* SQL texts, as the sequence of segments split(sql, ';') yields
  Habits      \* what the application's code and its data may do, see below

\* Segments: nothing, white space, a statement with rows, a stored procedure
\* that returns rows and a status, a statement without rows.
Statements == {"select", "call", "other"}
Segments == Statements \cup {"", "blank"}

(***************************************************************************)
(* Habits: "throw"  a callback lets an exception out;                      *)
(*   "convert"  a column has a value or type the conversion throws at;     *)
(*   "nest"  a callback calls query() on its own session;                  *)
(*   "execRows"  exec() is given a statement with rows;                    *)
(*   "ping"  the application uses MySQLSession::isOpen, which hides        *)
(*           Session::isOpen for code that names the derived class;        *)
(*   "retry"  open() is called again after it failed, without close();     *)
(*   "reopen"  open() is called on a connected session;                    *)
(*   "unopened"  a session that is not open is used all the same;          *)
(*   "closeInside"  a callback closes its own session.                     *)
(***************************************************************************)
AllHabits == {"throw", "convert", "nest", "execRows", "ping", "retry", "reopen",
              "unopened", "closeInside"}

ASSUME MySQLAssumption ==
  /\ NULL \notin Structs /\ NULL \notin Socks
  /\ Texts \subseteq Seq(Segments)
  /\ Habits \subseteq AllHabits

VARIABLES
  conn,      \* conn[s]: MySQLSession::conn
  isOpen,    \* isOpen[s]: Session::_isOpen
  outcome,   \* outcome[s]: how the last call of s ended
  frame,     \* frame[s]: the query() call under way
  stmtNum,   \* the static stmt_num, shared by all sessions
  mem,       \* mem[c]: not allocated, freed by mysql_close, or never freed
  vio,       \* vio[c]: the server connection of c, or NULL
  status,    \* status[c]: may a command be sent on c
  sock       \* sock[k]: closed, up, or dropped by the server

objectVars == <<conn, isOpen, outcome>>
queryVars  == <<frame, stmtNum>>
libVars    == <<mem, vio, status, sock>>
vars       == <<objectVars, queryVars, libVars>>

\* The local variables of query(): where it stands, its text, the segment the
\* loop is at, how often the server ran the text for this call, the number the last
\* callback was given, and the structure res points to; as history, that nobody else
\* wrote stmt_num since, and that the structure was freed under the result.
EmptyFrame == [pc |-> "idle", text |-> <<>>, seg |-> 1, sent |-> 0, num |-> 0,
               res |-> NULL, alone |-> TRUE, gone |-> FALSE]

\* A null or freed pointer was used. Nothing is known after it, and nothing goes on.
Crashed == \E s \in Sessions : outcome[s] = "crash"

At(s, label) == ~Crashed /\ frame[s].pc = label
Idle(s) == At(s, "idle")

Init ==
  /\ conn = [s \in Sessions |-> NULL]
  /\ isOpen = [s \in Sessions |-> FALSE]
  /\ outcome = [s \in Sessions |-> "ok"]
  /\ frame = [s \in Sessions |-> EmptyFrame]
  /\ stmtNum = 0
  /\ mem = [c \in Structs |-> "free"]
  /\ vio = [c \in Structs |-> NULL]
  /\ status = [c \in Structs |-> "ready"]
  /\ sock = [k \in Socks |-> "closed"]

------------------------------------------------------------------------------
(* The client library and the server.                                      *)

\* The client closes its end of the connection of c.
HangUp(c) ==
  /\ vio' = [vio EXCEPT ![c] = NULL]
  /\ sock' = [k \in Socks |-> IF k = vio[c] THEN "closed" ELSE sock[k]]

\* A command on c is sent, and reaches the server.
Sent(c) == vio[c] # NULL /\ status[c] = "ready"
Arrives(c) == Sent(c) /\ sock[vio[c]] = "up"

\* One that does not: it is refused as out of sync or for want of a connection,
\* or the connection is found broken and closed.
CommandFails(c) ==
  /\ ~Arrives(c)
  /\ IF Sent(c) THEN HangUp(c) ELSE UNCHANGED <<vio, sock>>

\* The server runs one statement per command (CLIENT_MULTI_STATEMENTS is not
\* asked for): the text must be a statement, then nothing but white space.
Accepted(text) ==
  /\ text # <<>> /\ text[1] \in Statements
  /\ \A i \in 2..Len(text) : text[i] \in {"", "blank"}

\* Idle connections time out, servers restart.
ServerDrops(k) ==
  /\ ~Crashed /\ sock[k] = "up"
  /\ sock' = [sock EXCEPT ![k] = "down"]
  /\ UNCHANGED <<objectVars, queryVars, mem, vio, status>>

------------------------------------------------------------------------------
(* Opening and closing.                                                    *)

\* open(args): mysql_init first. On a conn that is not null it wipes the
\* structure, the connection and the mark that mysql_close has to free it
\* included. A missing argument or a refused connection throws afterwards.
\* _isOpen is not touched.
Open(s) ==
  /\ Idle(s)
  /\ conn[s] # NULL => (IF vio[conn[s]] = NULL THEN "retry" ELSE "reopen") \in Habits
  /\ \E c \in Structs :
       /\ IF conn[s] = NULL THEN mem[c] = "free" ELSE c = conn[s]
       /\ conn' = [conn EXCEPT ![s] = c]
       /\ mem' = [mem EXCEPT ![c] = IF conn[s] = NULL THEN "own" ELSE "lent"]
       /\ status' = [status EXCEPT ![c] = "ready"]
       /\ \/ /\ outcome' = [outcome EXCEPT ![s] = "exception"]
             /\ vio' = [vio EXCEPT ![c] = NULL]
             /\ UNCHANGED sock
          \/ \E k \in Socks :
               /\ sock[k] = "closed"
               /\ outcome' = [outcome EXCEPT ![s] = "ok"]
               /\ vio' = [vio EXCEPT ![c] = k]
               /\ sock' = [sock EXCEPT ![k] = "up"]
  /\ UNCHANGED <<isOpen, queryVars>>

\* The structure conn[s] points to is there, so that a call may use it.
HasStruct(s) == conn[s] # NULL /\ mem[conn[s]] # "free"

Crash(s) ==
  /\ outcome' = [outcome EXCEPT ![s] = "crash"]
  /\ UNCHANGED <<conn, isOpen, queryVars, libVars>>

\* isOpen(), exec(), setCurrentDB() and changeUser() without it.
UseUnopened(s) ==
  /\ "unopened" \in Habits
  /\ Idle(s) /\ ~HasStruct(s)
  /\ Crash(s)

\* Mutant: close() drops the pointer without mysql_close.
CloseConnForgets(s) ==
  /\ conn' = [conn EXCEPT ![s] = NULL]
  /\ isOpen' = [isOpen EXCEPT ![s] = FALSE]
  /\ UNCHANGED <<mem, vio, sock>>

\* Mutant: close() does not reset conn.
CloseConnKeepsPointer(s) ==
  IF conn[s] # NULL
    THEN /\ HangUp(conn[s])
         /\ mem' = [mem EXCEPT ![conn[s]] = IF @ = "own" THEN "free" ELSE @]
         /\ isOpen' = [isOpen EXCEPT ![s] = FALSE]
         /\ UNCHANGED conn
    ELSE UNCHANGED <<conn, isOpen, mem, vio, sock>>

\* The body of close(): mysql_close says goodbye to the server and frees the
\* structure, if it was mysql_init that allocated it.
CloseConn(s) ==
  IF conn[s] # NULL
    THEN /\ HangUp(conn[s])
         /\ mem' = [mem EXCEPT ![conn[s]] = IF @ = "own" THEN "free" ELSE @]
         /\ conn' = [conn EXCEPT ![s] = NULL]
         /\ isOpen' = [isOpen EXCEPT ![s] = FALSE]
    ELSE UNCHANGED <<conn, isOpen, mem, vio, sock>>

Close(s) ==
  /\ Idle(s)
  /\ CloseConn(s)
  /\ outcome' = [outcome EXCEPT ![s] = "ok"]
  /\ UNCHANGED <<queryVars, status>>

\* release(): close(), and s becomes the next object newMySQLSession() makes.
Release(s) ==
  /\ Idle(s)
  /\ CloseConn(s)
  /\ outcome' = [outcome EXCEPT ![s] = "ok"]
  /\ UNCHANGED <<queryVars, status>>

\* MySQLSession::isOpen(): a ping that fails for whatever reason closes.
Ping(s) ==
  /\ "ping" \in Habits
  /\ Idle(s) /\ HasStruct(s)
  /\ outcome' = [outcome EXCEPT ![s] = "ok"]
  /\ IF Arrives(conn[s]) THEN UNCHANGED <<conn, isOpen, mem, vio, sock>> ELSE CloseConn(s)
  /\ UNCHANGED <<queryVars, status>>

------------------------------------------------------------------------------
(* Commands without rows.                                                  *)

\* setCurrentDB(db), changeUser(user, passwd), exec(sql) of a statement without
\* rows: one command, which the server carries out or refuses.
Command(s) ==
  /\ Idle(s) /\ HasStruct(s)
  /\ \/ CommandFails(conn[s]) /\ outcome' = [outcome EXCEPT ![s] = "exception"]
     \/ /\ Arrives(conn[s])
        /\ \E r \in {"ok", "exception"} : outcome' = [outcome EXCEPT ![s] = r]
        /\ UNCHANGED <<vio, sock>>
  /\ UNCHANGED <<conn, isOpen, queryVars, mem>>

SetCurrentDB(s) == Command(s) /\ UNCHANGED status

\* A server that refuses the user hangs up as well.
ChangeUser(s) ==
  /\ UNCHANGED status
  /\ \/ Command(s)
     \/ /\ Idle(s) /\ HasStruct(s) /\ Arrives(conn[s])
        /\ sock' = [sock EXCEPT ![vio[conn[s]]] = "down"]
        /\ outcome' = [outcome EXCEPT ![s] = "exception"]
        /\ UNCHANGED <<conn, isOpen, queryVars, mem, vio>>

\* exec() of a statement with rows leaves them unread on the connection.
Exec(s) ==
  /\ Command(s)
  /\ \/ UNCHANGED status
     \/ /\ "execRows" \in Habits
        /\ Arrives(conn[s]) /\ outcome'[s] = "ok"
        /\ status' = [status EXCEPT ![conn[s]] = "get"]

------------------------------------------------------------------------------
(* query(sql, cb).                                                         *)

Move(s, label) == frame' = [frame EXCEPT ![s].pc = label]

Return(s, result) ==
  /\ frame' = [frame EXCEPT ![s] = EmptyFrame]
  /\ outcome' = [outcome EXCEPT ![s] = result]

\* A call of s writes the shared counter: that of s goes on with the frame
\* mine, and those of the other sessions are not alone with the counter.
SetStmtNum(s, n, mine) ==
  /\ stmtNum' = n
  /\ frame' = [t \in Sessions |->
                 IF t = s THEN mine ELSE [frame[t] EXCEPT !.alone = Idle(t)]]

\* The static counter is reset and the text is split.
Query(s, text) ==
  /\ Idle(s)
  /\ "unopened" \notin Habits => conn[s] # NULL
  /\ SetStmtNum(s, 0, [EmptyFrame EXCEPT !.pc = "loop", !.text = text])
  /\ UNCHANGED <<objectVars, libVars>>

InLoop(s) == At(s, "loop") /\ frame[s].seg <= Len(frame[s].text)
Segment(s) == frame[s].text[frame[s].seg]

LoopEnds(s) ==
  /\ At(s, "loop") /\ ~InLoop(s)
  /\ SetStmtNum(s, 0, EmptyFrame)
  /\ outcome' = [outcome EXCEPT ![s] = "ok"]
  /\ UNCHANGED <<conn, isOpen, libVars>>

\* Mutant: the segment is not advanced.
SkipEmptyStays(s) ==
  /\ InLoop(s) /\ Segment(s) = ""
  /\ UNCHANGED vars

SkipEmpty(s) ==
  /\ InLoop(s) /\ Segment(s) = ""
  /\ frame' = [frame EXCEPT ![s].seg = @ + 1]
  /\ UNCHANGED <<objectVars, stmtNum, libVars>>

\* What is sent without a structure to send it on.
SendCrashes(s) ==
  /\ InLoop(s) /\ Segment(s) # "" /\ ~HasStruct(s)
  /\ Crash(s)

\* mysql_real_query of the whole text, then mysql_use_result, which is null when
\* there are no rows. Only the text decides what the server does with it.
SendRefused(s) ==
  /\ InLoop(s) /\ Segment(s) # "" /\ HasStruct(s)
  /\ \/ CommandFails(conn[s])
     \/ Arrives(conn[s]) /\ UNCHANGED <<vio, sock>>
  /\ Return(s, "exception")
  /\ UNCHANGED <<conn, isOpen, stmtNum, mem, status>>

\* Mutant: the rows are fetched without mysql_use_result.
SendRunsWithoutUse(s) ==
  /\ InLoop(s) /\ Segment(s) # "" /\ HasStruct(s)
  /\ Arrives(conn[s]) /\ Accepted(frame[s].text)
  /\ frame' = [frame EXCEPT ![s].pc = "fetch", ![s].sent = @ + 1, ![s].res = conn[s]]
  /\ status' = [status EXCEPT ![conn[s]] = "get"]
  /\ UNCHANGED <<objectVars, stmtNum, mem, vio, sock>>

SendRuns(s) ==
  /\ InLoop(s) /\ Segment(s) # "" /\ HasStruct(s)
  /\ Arrives(conn[s]) /\ Accepted(frame[s].text)
  /\ IF frame[s].text[1] = "other"
       THEN Return(s, "exception") /\ UNCHANGED status
       ELSE /\ frame' = [frame EXCEPT ![s].pc = "fetch", ![s].sent = @ + 1,
                                       ![s].res = conn[s]]
            /\ status' = [status EXCEPT ![conn[s]] = "use"]
            /\ UNCHANGED outcome
  /\ UNCHANGED <<conn, isOpen, stmtNum, mem, vio, sock>>

\* The result is being read: its structure was not closed meanwhile.
HasRows(s) == ~frame[s].gone /\ status[frame[s].res] = "use"

\* mysql_fetch_row or mysql_free_result of a result whose structure was freed.
ResultCrashes(s) ==
  /\ At(s, "fetch") \/ At(s, "free")
  /\ frame[s].gone
  /\ Crash(s)

\* Mutant: the statements are numbered from -1.
FetchRowOffByOne(s) ==
  /\ At(s, "fetch") /\ HasRows(s)
  /\ frame' = [frame EXCEPT ![s].pc = "callback", ![s].num = stmtNum - 1]
  /\ UNCHANGED <<objectVars, stmtNum, libVars>>

\* mysql_fetch_row yields a row, its columns are converted, cb is called.
FetchRow(s) ==
  /\ At(s, "fetch") /\ HasRows(s)
  /\ frame' = [frame EXCEPT ![s].pc = "callback", ![s].num = stmtNum]
  /\ UNCHANGED <<objectVars, stmtNum, libVars>>

\* A column cannot be converted: the exception passes mysql_free_result by.
ConvertThrows(s) ==
  /\ "convert" \in Habits
  /\ At(s, "fetch") /\ HasRows(s)
  /\ Return(s, "exception")
  /\ UNCHANGED <<conn, isOpen, stmtNum, libVars>>

\* What a result leaves behind when it has been read or freed: a procedure
\* still has its status to deliver (SERVER_MORE_RESULTS_EXISTS).
StatusAfter(s) == IF frame[s].text[1] = "call" THEN "more" ELSE "ready"

\* The rows left of a result are read to their end, or to where the connection broke;
\* of a structure that was closed there are none.
ReadToEnd(s) ==
  LET c == frame[s].res
  IN \/ /\ ~HasRows(s)
        /\ UNCHANGED <<vio, status, sock>>
     \/ /\ HasRows(s)
        /\ status' = [status EXCEPT ![c] = StatusAfter(s)]
        /\ UNCHANGED <<vio, sock>>
     \/ /\ HasRows(s) /\ sock[vio[c]] = "down" /\ HangUp(c)
        /\ status' = [status EXCEPT ![c] = "ready"]

\* mysql_fetch_row yields nothing: the end of the rows, or a lost connection,
\* which query() does not tell from it.
FetchEnd(s) ==
  /\ At(s, "fetch") /\ ~frame[s].gone
  /\ Move(s, "free")
  /\ ReadToEnd(s)
  /\ UNCHANGED <<objectVars, stmtNum, mem>>

CallbackReturns(s, go) ==
  /\ At(s, "callback")
  /\ Move(s, IF go THEN "fetch" ELSE "free")
  /\ UNCHANGED <<objectVars, stmtNum, libVars>>

CallbackThrows(s) ==
  /\ "throw" \in Habits
  /\ At(s, "callback")
  /\ Return(s, "exception")
  /\ UNCHANGED <<conn, isOpen, stmtNum, libVars>>

\* The callback calls query() on its own session: the counter is reset before
\* the library refuses the command as out of sync; the callback goes on.
CallbackQueries(s) ==
  /\ "nest" \in Habits
  /\ At(s, "callback") /\ HasStruct(s)
  /\ SetStmtNum(s, 0, [frame[s] EXCEPT !.alone = FALSE])
  /\ UNCHANGED <<objectVars, libVars>>

\* It does so after it has closed the session.
CallbackCrashes(s) ==
  /\ "nest" \in Habits
  /\ At(s, "callback") /\ ~HasStruct(s)
  /\ Crash(s)

\* The callback closes its own session, or asks isOpen() of one that has lost its
\* connection. The structure is gone if mysql_close has to free it.
CallbackCloses(s) ==
  /\ "closeInside" \in Habits
  /\ At(s, "callback") /\ conn[s] # NULL
  /\ CloseConn(s)
  /\ status' = [status EXCEPT ![conn[s]] = "ready"]
  /\ frame' = [frame EXCEPT ![s].gone = mem[conn[s]] = "own"]
  /\ UNCHANGED <<outcome, stmtNum>>

\* Mutant: a stopped result is not freed.
FreeSkipsUnread(s) ==
  /\ At(s, "free")
  /\ SetStmtNum(s, stmtNum + 1, [frame[s] EXCEPT !.pc = "loop", !.seg = @ + 1])
  /\ UNCHANGED <<objectVars, libVars>>

\* Mutant: the counter is not incremented.
FreeKeepsNumber(s) ==
  /\ At(s, "free")
  /\ UNCHANGED stmtNum
  /\ frame' = [frame EXCEPT ![s].pc = "loop", ![s].seg = @ + 1]
  /\ ReadToEnd(s)
  /\ UNCHANGED <<objectVars, mem>>

\* mysql_free_result: unread rows are read and dropped. Then the next segment.
Free(s) ==
  /\ At(s, "free") /\ ~frame[s].gone
  /\ SetStmtNum(s, stmtNum + 1, [frame[s] EXCEPT !.pc = "loop", !.seg = @ + 1])
  /\ ReadToEnd(s)
  /\ UNCHANGED <<objectVars, mem>>

------------------------------------------------------------------------------

Proceed(s) ==
  \/ LoopEnds(s) \/ SkipEmpty(s) \/ SendRefused(s) \/ SendRuns(s)
  \/ FetchRow(s) \/ FetchEnd(s) \/ Free(s)
  \/ SendCrashes(s) \/ ResultCrashes(s)

Next ==
  \/ \E k \in Socks : ServerDrops(k)
  \/ \E s \in Sessions :
       \/ Open(s) \/ Close(s) \/ Release(s) \/ Ping(s)
       \/ SetCurrentDB(s) \/ ChangeUser(s) \/ Exec(s)
       \/ \E text \in Texts : Query(s, text)
       \/ Proceed(s) \/ ConvertThrows(s)
       \/ \E go \in BOOLEAN : CallbackReturns(s, go)
       \/ CallbackThrows(s) \/ CallbackQueries(s) \/ CallbackCloses(s)
       \/ CallbackCrashes(s) \/ UseUnopened(s)

Spec == Init /\ [][Next]_vars

\* Every thread is scheduled, the server answers or the connection breaks, a
\* callback returns, and a statement has finitely many rows.
Fairness ==
  \A s \in Sessions :
    /\ WF_vars(Proceed(s))
    /\ WF_vars(\E go \in BOOLEAN : CallbackReturns(s, go))
    /\ SF_vars(FetchEnd(s))

FairSpec == Spec /\ Fairness

------------------------------------------------------------------------------
(* Properties.                                                             *)

Frames == [pc : {"idle", "loop", "fetch", "callback", "free"},
           text : Texts \cup {<<>>}, seg : Nat, sent : Nat, num : Nat,
           res : Structs \cup {NULL}, alone : BOOLEAN, gone : BOOLEAN]

\* The values every variable ranges over.
TypeOK ==
  /\ conn \in [Sessions -> Structs \cup {NULL}]
  /\ isOpen \in [Sessions -> BOOLEAN]
  /\ outcome \in [Sessions -> {"ok", "exception", "crash"}]
  /\ frame \in [Sessions -> Frames]
  /\ stmtNum \in Nat
  /\ mem \in [Structs -> {"free", "own", "lent"}]
  /\ vio \in [Structs -> Socks \cup {NULL}]
  /\ status \in [Structs -> {"ready", "get", "use", "more"}]
  /\ sock \in [Socks -> {"closed", "up", "down"}]

\* While query() is between two rows its session has the structure, the
\* connection and the unread result that the rows come from, whatever other
\* sessions, the server and its own callbacks do, unless a callback closed it.
RowsHaveResult ==
  \A s \in Sessions :
    frame[s].pc \in {"fetch", "callback"} /\ conn[s] # NULL =>
      /\ conn[s] = frame[s].res /\ mem[conn[s]] # "free"
      /\ vio[conn[s]] # NULL /\ sock[vio[conn[s]]] # "closed"
      /\ status[conn[s]] = "use"

\* Only the use of a session that has no structure (never opened, or closed, also by
\* its own callback or by isOpen()) ends the process: no order of opening, failing,
\* pinging, closing and throwing leaves a conn that points to freed memory.
CrashHasCause ==
  \A s \in Sessions : outcome[s] = "crash" => conn[s] = NULL

\* No structure and no server connection is shared by two sessions.
NotShared ==
  \A s, t \in Sessions :
    /\ conn[s] # NULL /\ conn[s] = conn[t] => s = t
    /\ \A c, d \in Structs : vio[c] # NULL /\ vio[c] = vio[d] => c = d

\* Between two calls a session is ready for a command: query() has freed every
\* result it asked for.
InSync ==
  \A s \in Sessions :
    Idle(s) /\ conn[s] # NULL => status[conn[s]] = "ready"

\* Every structure the library keeps is the conn of a session, so that close()
\* and release() free it.
StructsReachable ==
  \A c \in Structs : mem[c] # "free" => \E s \in Sessions : conn[s] = c

\* A session takes and returns its server connection as Session.h promises. A
\* connection the client gave up counts as returned.
Contract == INSTANCE SessionContract
              WITH Conns <- Socks,
                   link <- [s \in Sessions |-> IF conn[s] = NULL THEN NULL ELSE vio[conn[s]]],
                   held <- {k \in Socks : sock[k] # "closed"}
ContractSpec == Contract!Spec

\* Every call of query() comes back, even when the server goes away under it.
QueryReturns == \A s \in Sessions : ~Idle(s) ~> Idle(s)

\* The n-th result of a call is numbered n - 1, as Session.h:63 says, when no
\* other session's query and no nested one wrote the static counter meanwhile
\* (lines 54, 55, 186, 188); when one did, the number can be anything.
NumberedWhenAlone ==
  \A s \in Sessions :
    At(s, "callback") /\ frame[s].alone => frame[s].num = frame[s].sent - 1

\* Session.h:60: "Execute sql statements one by one": a call does not have the
\* server run more statements than its text holds.
EachStatementOnce ==
  \A s \in Sessions :
    frame[s].sent <= Len(SelectSeq(frame[s].text, LAMBDA x : x \in Statements))
==============================================================================
