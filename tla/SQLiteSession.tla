---------------------------- MODULE SQLiteSession ----------------------------
(***************************************************************************)
(* The SQLite backend (SQLite/SQLiteSession.cpp) with the part of Session  *)
(* it inherits (Core/Session.cpp), over the handles of the sqlite3         *)
(* library. Each session is used by one thread of the application; the     *)
(* threads interleave, and share the function-local static stmt_num of     *)
(* SQLiteSession::query. A query() call is a frame; a callback may call    *)
(* query() again, which pushes a frame. Every call into sqlite3 is a step. *)
(***************************************************************************)
EXTENDS Integers, Sequences

CONSTANTS
  Sessions,   \* session objects, each used by one thread
  Conns,      \* sqlite3* handles
  Stmts,      \* sqlite3_stmt* handles
  NULL,       \* the null pointer
  Pieces,     \* the pieces of SQL text that one sqlite3_prepare_v2 consumes
  Blank,      \* the piece that compiles to no statement
  Scripts,    \* SQL texts passed to query(), as sequences of pieces
  OpenArgs,   \* ConnectionArgs passed to open()
  MaxDepth,   \* bound: query() calls active at once in one session
  Habits      \* what the application's code is allowed to do, see below

(***************************************************************************)
(* Habits: "nest"  a callback calls query() on its own session;            *)
(*   "throw"  a callback lets an exception out;                            *)
(*   "closeInCallback"  a callback closes or opens its session;            *)
(*   "retry"  open() is called again after it failed, without close();     *)
(*   "reopen"  open() is called on an open session;                        *)
(*   "blind"  exec() is called although isOpen() is false.                 *)
(***************************************************************************)
AllHabits == {"nest", "throw", "closeInCallback", "retry", "reopen", "blind"}

ASSUME SQLiteAssumption ==
  /\ NULL \notin Conns /\ NULL \notin Stmts
  /\ Blank \in Pieces /\ Scripts \subseteq Seq(Pieces)
  /\ Habits \subseteq AllHabits
  /\ MaxDepth \in Nat \ {0}

VARIABLES
  alive,    \* alive[s]: the object exists (newSQLiteSession, release)
  conn,     \* conn[s]: SQLiteSession::conn
  isOpen,   \* isOpen[s]: Session::_isOpen, what isOpen() returns
  outcome,  \* outcome[s]: how the last call of s ended
  depth,    \* depth[s]: number of active query() calls
  frame,    \* frame[s][d]: the local variables of the d-th of them
  stmtNum,  \* the static stmt_num, shared by all sessions
  db,       \* db[c]: state of the library's connection c
  stmtOf,   \* stmtOf[h]: connection of unfinalized statement h, or NULL
  crashed   \* undefined behaviour took the process down

objectVars == <<alive, conn, isOpen, outcome>>
queryVars  == <<depth, frame, stmtNum>>
libVars    == <<db, stmtOf>>
vars       == <<objectVars, queryVars, libVars, crashed>>

Depths == 1..MaxDepth

\* Local variables of a query() call: where it stands, its text, the part the
\* engine was given (ran) and the tail (rest), the statement being stepped, the
\* number the last callback was given, and whether a callback returned false.
EmptyFrame == [pc |-> "idle", sql |-> <<>>, ran |-> <<>>, rest |-> <<>>,
               stmt |-> NULL, num |-> 0, stopped |-> FALSE]

Top(s) == frame[s][depth[s]]
At(s, label) == ~crashed /\ depth[s] > 0 /\ Top(s).pc = label

\* The thread of s is in application code: between calls, or in a callback.
InApplication(s) == ~crashed /\ alive[s] /\ (depth[s] = 0 \/ At(s, "callback"))
MayManage(s) == InApplication(s) /\ (depth[s] > 0 => "closeInCallback" \in Habits)

Usable(s) == conn[s] # NULL /\ db[conn[s]] = "open"

Init ==
  /\ alive = [s \in Sessions |-> FALSE]
  /\ conn = [s \in Sessions |-> NULL]
  /\ isOpen = [s \in Sessions |-> FALSE]
  /\ outcome = [s \in Sessions |-> "ok"]
  /\ depth = [s \in Sessions |-> 0]
  /\ frame = [s \in Sessions |-> [d \in Depths |-> EmptyFrame]]
  /\ stmtNum = 0
  /\ db = [c \in Conns |-> "free"]
  /\ stmtOf = [h \in Stmts |-> NULL]
  /\ crashed = FALSE

------------------------------------------------------------------------------
(* Creating, opening, closing and releasing a session.                     *)

\* newSQLiteSession(): a new object, with its member initialisers.
New(s) ==
  /\ ~crashed /\ ~alive[s]
  /\ alive' = [alive EXCEPT ![s] = TRUE]
  /\ outcome' = [outcome EXCEPT ![s] = "ok"]
  /\ UNCHANGED <<conn, isOpen, queryVars, libVars, crashed>>

\* The flags open() computes, and the combinations sqlite3_open_v2 takes:
\* READONLY, READWRITE, READWRITE|CREATE.
OpenFlags(a) ==
  IF a.target = ":memory:" THEN 6
  ELSE IF a.uri THEN (IF a.create THEN 4 ELSE 0)
  ELSE (IF a.readOnly THEN 1 ELSE 2) + (IF a.create THEN 4 ELSE 0)
AcceptedFlags == {1, 2, 6}

\* open(args): "wrong" stands for a missing or ill-typed target, which throws
\* before anything changed. The previous value of conn is overwritten. The
\* engine either can open the target, or fails and leaves a handle that is
\* only good for sqlite3_close, or is out of memory and yields no handle.
Open(s, a, engine) ==
  /\ MayManage(s)
  /\ conn[s] # NULL => (IF isOpen[s] THEN "reopen" ELSE "retry") \in Habits
  /\ \/ /\ a.target = "wrong"
        /\ outcome' = [outcome EXCEPT ![s] = "exception"]
        /\ UNCHANGED <<conn, isOpen, db>>
     \/ /\ a.target # "wrong" /\ engine # "nomem"
        /\ \E c \in {x \in Conns : db[x] = "free"} :
             LET opened == engine = "opens" /\ OpenFlags(a) \in AcceptedFlags
             IN /\ conn' = [conn EXCEPT ![s] = c]
                /\ isOpen' = [isOpen EXCEPT ![s] = opened]
                /\ db' = [db EXCEPT ![c] = IF opened THEN "open" ELSE "sick"]
                /\ outcome' = [outcome EXCEPT ![s] =
                                 IF opened THEN "ok" ELSE "exception"]
     \/ /\ a.target # "wrong" /\ engine = "nomem"
        /\ conn' = [conn EXCEPT ![s] = NULL]
        /\ isOpen' = [isOpen EXCEPT ![s] = FALSE]
        /\ outcome' = [outcome EXCEPT ![s] = "exception"]
        /\ UNCHANGED db
  /\ UNCHANGED <<alive, queryVars, stmtOf, crashed>>

\* sqlite3_close: refused (SQLITE_BUSY) while a statement is unfinalized.
sqlite3_close(c) ==
  db' = IF \E h \in Stmts : stmtOf[h] = c THEN db ELSE [db EXCEPT ![c] = "free"]

\* Mutant: close() forgets _isOpen.
CloseConnKeepsFlag(s) ==
  IF conn[s] # NULL
    THEN sqlite3_close(conn[s]) /\ conn' = [conn EXCEPT ![s] = NULL] /\ UNCHANGED isOpen
    ELSE UNCHANGED <<db, conn, isOpen>>

\* The body of close(); the result of sqlite3_close is not looked at.
CloseConn(s) ==
  IF conn[s] # NULL
    THEN /\ sqlite3_close(conn[s])
         /\ conn' = [conn EXCEPT ![s] = NULL]
         /\ isOpen' = [isOpen EXCEPT ![s] = FALSE]
    ELSE UNCHANGED <<db, conn, isOpen>>

Close(s) ==
  /\ MayManage(s)
  /\ CloseConn(s)
  /\ outcome' = [outcome EXCEPT ![s] = "ok"]
  /\ UNCHANGED <<alive, queryVars, stmtOf, crashed>>

\* Mutant: release() deletes the object without closing.
ReleaseWithoutClose(s) ==
  /\ InApplication(s) /\ depth[s] = 0
  /\ alive' = [alive EXCEPT ![s] = FALSE]
  /\ conn' = [conn EXCEPT ![s] = NULL]
  /\ isOpen' = [isOpen EXCEPT ![s] = FALSE]
  /\ outcome' = [outcome EXCEPT ![s] = "ok"]
  /\ UNCHANGED <<queryVars, libVars, crashed>>

\* release(): close(), then the object is deleted. "Don't use the members
\* after releasing": it is not called from a callback.
Release(s) ==
  /\ InApplication(s) /\ depth[s] = 0
  /\ CloseConn(s)
  /\ alive' = [alive EXCEPT ![s] = FALSE]
  /\ outcome' = [outcome EXCEPT ![s] = "ok"]
  /\ UNCHANGED <<queryVars, stmtOf, crashed>>

\* exec(sql): one call of sqlite3_exec. On a null or unopened handle the library
\* returns before it sets msg, and the uninitialised pointer is formatted
\* into the exception: the process crashes or throws some text.
Exec(s) ==
  /\ InApplication(s)
  /\ ~isOpen[s] => "blind" \in Habits
  /\ \/ /\ Usable(s)
        /\ \E r \in {"ok", "exception"} : outcome' = [outcome EXCEPT ![s] = r]
        /\ UNCHANGED crashed
     \/ /\ ~Usable(s)
        /\ outcome' = [outcome EXCEPT ![s] = "exception"]
        /\ crashed' \in BOOLEAN
  /\ UNCHANGED <<alive, conn, isOpen, queryVars, libVars>>

------------------------------------------------------------------------------
(* query(sql, cb): a frame per call; the call on the tail reuses the frame. *)

\* The d-th call of s ends, normally or with an exception.
Return(s, d, result) ==
  /\ depth' = [depth EXCEPT ![s] = d - 1]
  /\ frame' = [frame EXCEPT ![s][d] = EmptyFrame]
  /\ outcome' = [outcome EXCEPT ![s] = result]

Enter(s, d, f) ==
  /\ depth' = [depth EXCEPT ![s] = d]
  /\ frame' = [frame EXCEPT ![s][d] = f]
  /\ UNCHANGED outcome

\* From the entry of query() to the first sqlite3_step: stmt_num is reset and
\* the first statement of f.rest is compiled on the current conn. It may fail
\* for any reason, out of memory included; a failure resets stmt_num again and
\* throws. Blank text compiles to the null statement, which has no rows.
Compile(s, d, f) ==
  /\ stmtNum' = 0
  /\ \/ /\ Usable(s) /\ f.rest # <<>> /\ Head(f.rest) # Blank
        /\ \E h \in {x \in Stmts : stmtOf[x] = NULL} :
             /\ stmtOf' = [stmtOf EXCEPT ![h] = conn[s]]
             /\ Enter(s, d, [f EXCEPT !.pc = "step", !.stmt = h,
                                      !.ran = Append(f.ran, Head(f.rest)),
                                      !.rest = Tail(f.rest)])
     \/ /\ Usable(s) /\ f.rest # <<>> /\ Head(f.rest) = Blank
        /\ Enter(s, d, [f EXCEPT !.pc = "finalize",
                                 !.ran = Append(f.ran, Blank),
                                 !.rest = Tail(f.rest)])
        /\ UNCHANGED stmtOf
     \/ /\ Usable(s) /\ f.rest = <<>>
        /\ Enter(s, d, [f EXCEPT !.pc = "finalize"])
        /\ UNCHANGED stmtOf
     \/ /\ Return(s, d, "exception")
        /\ UNCHANGED stmtOf
  /\ UNCHANGED <<alive, conn, isOpen, db, crashed>>

\* The application calls query(), at top level or from a callback.
Query(s, sql) ==
  /\ InApplication(s)
  /\ depth[s] > 0 => "nest" \in Habits
  /\ depth[s] < MaxDepth
  /\ Compile(s, depth[s] + 1, [EmptyFrame EXCEPT !.sql = sql, !.rest = sql])

\* Mutant: the statements are numbered from -1.
StepRowOffByOne(s) ==
  /\ At(s, "step")
  /\ frame' = [frame EXCEPT ![s][depth[s]].pc = "callback",
                            ![s][depth[s]].num = stmtNum - 1]
  /\ UNCHANGED <<objectVars, depth, stmtNum, libVars, crashed>>

\* sqlite3_step returns a row: cb(row, stmt_num) is called.
StepRow(s) ==
  /\ At(s, "step")
  /\ frame' = [frame EXCEPT ![s][depth[s]].pc = "callback",
                            ![s][depth[s]].num = stmtNum]
  /\ UNCHANGED <<objectVars, depth, stmtNum, libVars, crashed>>

\* sqlite3_step returns anything else. The loop ends without asking whether
\* the statement is done or failed.
StepEnd(s) ==
  /\ At(s, "step")
  /\ frame' = [frame EXCEPT ![s][depth[s]].pc = "finalize"]
  /\ UNCHANGED <<objectVars, depth, stmtNum, libVars, crashed>>

\* Mutant: the way out of the loop finalizes the statement a first time.
CallbackFinalizes(s, go) ==
  /\ At(s, "callback")
  /\ frame' = [frame EXCEPT ![s][depth[s]].pc = IF go THEN "step" ELSE "finalize"]
  /\ stmtOf' = IF go THEN stmtOf ELSE [stmtOf EXCEPT ![Top(s).stmt] = NULL]
  /\ UNCHANGED <<objectVars, depth, stmtNum, db, crashed>>

\* Mutant: "return" in the place of "break".
CallbackReturnsEarly(s, go) ==
  /\ At(s, "callback")
  /\ IF go
       THEN Enter(s, depth[s], [Top(s) EXCEPT !.pc = "step"])
       ELSE Return(s, depth[s], "ok")
  /\ UNCHANGED <<alive, conn, isOpen, stmtNum, libVars, crashed>>

\* The callback returns; false leaves the row loop.
CallbackReturns(s, go) ==
  /\ At(s, "callback")
  /\ frame' = [frame EXCEPT ![s][depth[s]].pc = IF go THEN "step" ELSE "finalize",
                            ![s][depth[s]].stopped = @ \/ ~go]
  /\ UNCHANGED <<objectVars, depth, stmtNum, libVars, crashed>>

\* The callback throws through query(): the statement is not finalized.
CallbackThrows(s) ==
  /\ "throw" \in Habits
  /\ At(s, "callback")
  /\ Return(s, depth[s], "exception")
  /\ UNCHANGED <<alive, conn, isOpen, stmtNum, libVars, crashed>>

\* sqlite3_finalize, then the test of the tail: with nothing left stmt_num is
\* reset and the call returns, otherwise it is incremented.
Finalize(s) ==
  /\ At(s, "finalize")
  /\ LET h == Top(s).stmt IN
       stmtOf' = [x \in Stmts |-> IF x = h THEN NULL ELSE stmtOf[x]]
  /\ IF Top(s).rest = <<>>
       THEN /\ stmtNum' = 0
            /\ Return(s, depth[s], "ok")
       ELSE /\ stmtNum' = stmtNum + 1
            /\ Enter(s, depth[s], [Top(s) EXCEPT !.pc = "recurse", !.stmt = NULL])
  /\ UNCHANGED <<alive, conn, isOpen, db, crashed>>

\* Mutant: query(sql, cb), the whole text again.
RecurseOnWholeText(s) ==
  /\ At(s, "recurse")
  /\ Compile(s, depth[s], [Top(s) EXCEPT !.rest = Top(s).sql])

\* Mutant: the same bug, with the account of what was run started anew.
RecurseFromStart(s) ==
  /\ At(s, "recurse")
  /\ Compile(s, depth[s], [Top(s) EXCEPT !.ran = <<>>, !.rest = Top(s).sql])

\* query(tail, cb).
Recurse(s) ==
  /\ At(s, "recurse")
  /\ Compile(s, depth[s], Top(s))

------------------------------------------------------------------------------

Next ==
  \E s \in Sessions :
    \/ New(s) \/ Close(s) \/ Release(s) \/ Exec(s)
    \/ \E a \in OpenArgs, e \in {"opens", "fails", "nomem"} : Open(s, a, e)
    \/ \E sql \in Scripts : Query(s, sql)
    \/ StepRow(s) \/ StepEnd(s) \/ CallbackThrows(s) \/ Finalize(s) \/ Recurse(s)
    \/ \E go \in BOOLEAN : CallbackReturns(s, go)

Spec == Init /\ [][Next]_vars

\* Every thread is scheduled, a callback returns, and a statement yields
\* finitely many rows.
Fairness ==
  \A s \in Sessions :
    /\ WF_vars(StepRow(s) \/ StepEnd(s) \/ Finalize(s) \/ Recurse(s))
    /\ \A d \in 1..MaxDepth :
         /\ SF_vars(depth[s] = d /\ \E go \in BOOLEAN : CallbackReturns(s, go))
         /\ SF_vars(depth[s] = d /\ StepEnd(s))

FairSpec == Spec /\ Fairness

------------------------------------------------------------------------------
(* Properties.                                                             *)

Frames == [pc : {"idle", "step", "callback", "finalize", "recurse"},
           sql : Seq(Pieces), ran : Seq(Pieces), rest : Seq(Pieces),
           stmt : Stmts \cup {NULL}, num : Nat, stopped : BOOLEAN]

\* The values every variable of the backend and of the library ranges over.
TypeOK ==
  /\ alive \in [Sessions -> BOOLEAN]
  /\ conn \in [Sessions -> Conns \cup {NULL}]
  /\ isOpen \in [Sessions -> BOOLEAN]
  /\ outcome \in [Sessions -> {"ok", "exception"}]
  /\ depth \in [Sessions -> 0..MaxDepth]
  /\ frame \in [Sessions -> [Depths -> Frames]]
  /\ stmtNum \in Nat
  /\ db \in [Conns -> {"free", "open", "sick"}]
  /\ stmtOf \in [Stmts -> Conns \cup {NULL}]
  /\ crashed \in BOOLEAN

\* isOpen() tells the truth: _isOpen is set exactly while conn is a connection
\* that sqlite3 has open, whatever fails, throws or is called from a callback
\* in between (open() lines 36-41, close() lines 44-48).
IsOpenHonest == \A s \in Sessions : isOpen[s] <=> Usable(s)

\* The statement a query() call is stepping, or is about to finalize, is still
\* allocated, on a connection that is still open, and belongs to that call
\* alone: even when a callback closed the session or ran further queries.
StatementsInUseAreLive ==
  \A s \in Sessions : \A d \in 1..depth[s] :
    LET h == frame[s][d].stmt IN
      h # NULL =>
        /\ stmtOf[h] # NULL /\ db[stmtOf[h]] = "open"
        /\ \A t \in Sessions : \A e \in 1..depth[t] :
             frame[t][e].stmt = h => <<s, d>> = <<t, e>>

\* A text is worked off from its front, nothing skipped and nothing run twice:
\* what the engine was given and what query() has still to compile make up the
\* text of the call.
TextAccounted ==
  \A s \in Sessions : \A d \in 1..depth[s] :
    frame[s][d].ran \o frame[s][d].rest = frame[s][d].sql

\* Every unfinalized statement belongs to an active query() call, so that it
\* will be finalized.
StatementsOwned ==
  \A h \in Stmts :
    stmtOf[h] # NULL =>
      \E s \in Sessions : \E d \in 1..depth[s] : frame[s][d].stmt = h

\* Every connection the library keeps is the conn of a session, which close()
\* and release() free: closing a session closes its connection.
NoOrphans ==
  \A c \in Conns : db[c] # "free" => \E s \in Sessions : conn[s] = c

\* An application that asks isOpen() before exec() never runs into the
\* uninitialised message pointer.
NeverCrashes == ~crashed

\* A session takes and returns its connection as Session.h promises.
Contract == INSTANCE SessionContract
              WITH link <- conn, held <- {c \in Conns : db[c] # "free"}
ContractSpec == Contract!Spec

\* Every call of query() comes back, through however many tails.
QueryReturns == \A s \in Sessions : depth[s] > 0 ~> depth[s] = 0

\* Session.h:61: "Return false in callback function to stop querying".
FalseStopsQuery ==
  \A s \in Sessions : \A d \in 1..depth[s] :
    frame[s][d].stopped => frame[s][d].pc # "callback"
==============================================================================
