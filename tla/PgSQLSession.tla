---------------------------- MODULE PgSQLSession ----------------------------
(***************************************************************************)
(* The PostgreSQL backend (PostgreSQL/PgSQLSession.cpp) over libpq. A      *)
(* command is sent without waiting; libpq refuses the next one until       *)
(* PQgetResult has returned null, which is what the loop at the head of    *)
(* exec() is for. query() never calls its callback, so nothing re-enters a *)
(* session; its static stmt_num is written and never read, and left out.   *)
(***************************************************************************)
EXTENDS Integers, Sequences, FiniteSets

CONSTANTS
  Sessions,   \* session objects, each used by one thread
  Conns,      \* PGconn structures of libpq
  NULL,       \* the null pointer
  Texts,      \* texts for query(), as the segments split(sql, ';') yields
  ExecCommands, \* statements for exec()
  Habits      \* what the application's code may do, see below

\* Segments: nothing, text that ends with a backslash, a statement with rows, a
\* statement without, a COPY from or to the client.
Commands == {"select", "other", "copy"}
Segments == Commands \cup {"", "escaped"}

(***************************************************************************)
(* Habits: "derived"  the application uses PgSQLSession::isOpen, which     *)
(*           hides Session::isOpen for code that names the derived class;  *)
(*   "retry"  open() is called again after it failed or after the          *)
(*           connection was lost, without close();                         *)
(*   "reopen"  open() is called on a connected session.                    *)
(***************************************************************************)
AllHabits == {"derived", "retry", "reopen"}

ASSUME PgSQLAssumption ==
  /\ NULL \notin Conns
  /\ Texts \subseteq Seq(Segments) /\ ExecCommands \subseteq Commands
  /\ Habits \subseteq AllHabits

VARIABLES
  conn,      \* conn[s]: PgSQLSession::conn
  isOpen,    \* isOpen[s]: Session::_isOpen
  outcome,   \* outcome[s]: how the last call of s ended
  frame,     \* frame[s]: the exec() or query() call under way
  pg,        \* pg[c]: not allocated, CONNECTION_OK or CONNECTION_BAD
  async      \* async[c]: what PQgetResult has to deliver on c, see below

objectVars == <<conn, isOpen, outcome>>
libVars    == <<pg, async>>
vars       == <<objectVars, frame, libVars>>

\* async: "idle"; the command under way, of which "rows" is a select in single
\* row mode; "copying" once a COPY result was delivered; "done" when the last
\* result was delivered and null was not.
Busy == Commands \cup {"rows"}

\* The local variables of a call: where it stands, its text (for exec() the one
\* statement), the segment it is at, and how many commands it sent.
EmptyFrame == [pc |-> "idle", call |-> "none", text |-> <<>>, seg |-> 1, sent |-> 0]

At(s, label) == frame[s].pc = label
Idle(s) == At(s, "idle")
Move(s, label) == frame' = [frame EXCEPT ![s].pc = label]

Init ==
  /\ conn = [s \in Sessions |-> NULL]
  /\ isOpen = [s \in Sessions |-> FALSE]
  /\ outcome = [s \in Sessions |-> "ok"]
  /\ frame = [s \in Sessions |-> EmptyFrame]
  /\ pg = [c \in Conns |-> "free"]
  /\ async = [c \in Conns |-> "idle"]

------------------------------------------------------------------------------
(* Opening and closing.                                                    *)

\* open(args): a missing argument throws before anything changed. PQconnectdb
\* yields a structure in any case; a refused connection throws after that.
Open(s) ==
  /\ Idle(s)
  /\ conn[s] # NULL => (IF pg[conn[s]] = "ok" THEN "reopen" ELSE "retry") \in Habits
  /\ \/ /\ outcome' = [outcome EXCEPT ![s] = "exception"]
        /\ UNCHANGED <<conn, isOpen, libVars>>
     \/ \E c \in {x \in Conns : pg[x] = "free"}, connected \in BOOLEAN :
          /\ conn' = [conn EXCEPT ![s] = c]
          /\ pg' = [pg EXCEPT ![c] = IF connected THEN "ok" ELSE "bad"]
          /\ async' = [async EXCEPT ![c] = "idle"]
          /\ isOpen' = [isOpen EXCEPT ![s] = connected \/ @]
          /\ outcome' = [outcome EXCEPT ![s] = IF connected THEN "ok" ELSE "exception"]
  /\ UNCHANGED frame

\* Mutant: close() drops the pointer without PQfinish.
CloseConnForgets(s) ==
  /\ conn' = [conn EXCEPT ![s] = NULL]
  /\ UNCHANGED <<pg, async>>

\* The body of close(), which leaves _isOpen alone.
CloseConn(s) ==
  IF conn[s] # NULL
    THEN /\ pg' = [pg EXCEPT ![conn[s]] = "free"]
         /\ async' = [async EXCEPT ![conn[s]] = "idle"]
         /\ conn' = [conn EXCEPT ![s] = NULL]
    ELSE UNCHANGED <<conn, pg, async>>

Close(s) ==
  /\ Idle(s)
  /\ CloseConn(s)
  /\ outcome' = [outcome EXCEPT ![s] = "ok"]
  /\ UNCHANGED <<isOpen, frame>>

\* release(): close(), and s becomes the next object newPgSQLSession() makes.
Release(s) ==
  /\ Idle(s)
  /\ CloseConn(s)
  /\ isOpen' = [isOpen EXCEPT ![s] = FALSE]
  /\ outcome' = [outcome EXCEPT ![s] = "ok"]
  /\ UNCHANGED frame

\* Mutant: a bad connection is closed and still reported open.
DerivedIsOpenKeepsFlag(s) ==
  /\ "derived" \in Habits
  /\ Idle(s)
  /\ outcome' = [outcome EXCEPT ![s] = "ok"]
  /\ IF conn[s] = NULL \/ pg[conn[s]] = "bad"
       THEN CloseConn(s)
       ELSE UNCHANGED <<conn, libVars>>
  /\ UNCHANGED <<isOpen, frame>>

\* PgSQLSession::isOpen(): PQstatus of a null pointer is CONNECTION_BAD.
DerivedIsOpen(s) ==
  /\ "derived" \in Habits
  /\ Idle(s)
  /\ outcome' = [outcome EXCEPT ![s] = "ok"]
  /\ IF conn[s] = NULL \/ pg[conn[s]] = "bad"
       THEN CloseConn(s) /\ isOpen' = [isOpen EXCEPT ![s] = FALSE]
       ELSE UNCHANGED <<conn, isOpen, libVars>>
  /\ UNCHANGED frame

------------------------------------------------------------------------------
(* libpq.                                                                  *)

Becomes(c, a) == async' = [async EXCEPT ![c] = a] /\ UNCHANGED pg

\* PQgetResult(c) delivers r: "null"; a "tuple" in single row mode; a "final"
\* result of the command, its error included; "copy", over and over; or the
\* "error" of a connection that is lost while there was something to wait for.
PQgetResult(c, r) ==
  \/ r = "null" /\ c = NULL /\ UNCHANGED libVars
  \/ /\ c # NULL
     /\ \/ r = "null" /\ async[c] = "idle" /\ UNCHANGED libVars
        \/ r = "null" /\ async[c] = "done" /\ Becomes(c, "idle")
        \/ r = "tuple" /\ async[c] = "rows" /\ UNCHANGED libVars
        \/ r = "final" /\ async[c] \in Busy /\ Becomes(c, "done")
        \/ r = "copy" /\ async[c] \in {"copy", "copying"} /\ Becomes(c, "copying")
        \/ /\ r = "error" /\ async[c] \in Busy \cup {"done"}
           /\ async' = [async EXCEPT ![c] = "idle"]
           /\ pg' = [pg EXCEPT ![c] = "bad"]

Results == {"tuple", "final", "copy", "error"}

------------------------------------------------------------------------------
(* exec(sql): drain, then send.                                            *)

Return(s, result) ==
  /\ frame' = [frame EXCEPT ![s] = EmptyFrame]
  /\ outcome' = [outcome EXCEPT ![s] = result]

Exec(s, command) ==
  /\ Idle(s)
  /\ frame' = [frame EXCEPT ![s] = [EmptyFrame EXCEPT !.pc = "drain", !.call = "exec",
                                                      !.text = <<command>>]]
  /\ UNCHANGED <<objectVars, libVars>>

\* Mutant: "if" in the place of "while".
DrainOnce(s) ==
  /\ At(s, "drain")
  /\ \E r \in Results : PQgetResult(conn[s], r)
  /\ Move(s, "send")
  /\ UNCHANGED objectVars

\* Mutant: the loop tests the same result again and asks for no other.
DrainStays(s) ==
  /\ At(s, "drain")
  /\ conn[s] # NULL /\ async[conn[s]] # "idle"
  /\ UNCHANGED vars

\* The results of the previous command are fetched and never cleared.
Drain(s) ==
  /\ At(s, "drain")
  /\ \E r \in Results : PQgetResult(conn[s], r)
  /\ UNCHANGED <<objectVars, frame>>

DrainEnds(s) ==
  /\ At(s, "drain")
  /\ PQgetResult(conn[s], "null")
  /\ Move(s, "send")
  /\ UNCHANGED objectVars

\* PQsendQuery refuses (no connection, or a command under way) or fails.
SendFails(s) ==
  /\ At(s, "send")
  /\ Return(s, "exception")
  /\ UNCHANGED <<conn, isOpen, libVars>>

\* It succeeds: exec() returns at once; query() goes on with the result.
Send(s) ==
  /\ At(s, "send")
  /\ conn[s] # NULL /\ pg[conn[s]] = "ok" /\ async[conn[s]] = "idle"
  /\ Becomes(conn[s], frame[s].text[frame[s].seg])
  /\ IF frame[s].call = "exec"
       THEN Return(s, "executed")
       ELSE /\ frame' = [frame EXCEPT ![s].pc = "single", ![s].sent = @ + 1]
            /\ UNCHANGED outcome
  /\ UNCHANGED <<conn, isOpen>>

------------------------------------------------------------------------------
(* query(sql, cb): exec() of every segment, then its rows.                 *)

Query(s, text) ==
  /\ Idle(s)
  /\ frame' = [frame EXCEPT ![s] = [EmptyFrame EXCEPT !.pc = "loop", !.call = "query",
                                                      !.text = text]]
  /\ UNCHANGED <<objectVars, libVars>>

InLoop(s) == At(s, "loop") /\ frame[s].seg <= Len(frame[s].text)
Segment(s) == frame[s].text[frame[s].seg]

LoopEnds(s) ==
  /\ At(s, "loop") /\ ~InLoop(s)
  /\ Return(s, "ok")
  /\ UNCHANGED <<conn, isOpen, libVars>>

\* Mutant: only empty segments are skipped.
SkipOnlyEmpty(s) ==
  /\ InLoop(s) /\ Segment(s) \in {"", "escaped"}
  /\ frame' = IF Segment(s) = "" THEN [frame EXCEPT ![s].seg = @ + 1]
                                ELSE [frame EXCEPT ![s].pc = "drain"]
  /\ UNCHANGED <<objectVars, libVars>>

\* A segment that is empty or ends with a backslash is not executed.
Skip(s) ==
  /\ InLoop(s) /\ Segment(s) \in {"", "escaped"}
  /\ frame' = [frame EXCEPT ![s].seg = @ + 1]
  /\ UNCHANGED <<objectVars, libVars>>

ExecSegment(s) ==
  /\ InLoop(s) /\ Segment(s) \in Commands
  /\ Move(s, "drain")
  /\ UNCHANGED <<objectVars, libVars>>

\* PQsetSingleRowMode: right after a command was sent it succeeds.
SetSingleRowMode(s) ==
  /\ At(s, "single")
  /\ Becomes(conn[s], IF async[conn[s]] = "select" THEN "rows" ELSE async[conn[s]])
  /\ Move(s, "rows")
  /\ UNCHANGED objectVars

\* A row: its columns are printed, it is cleared, cb is not called.
FetchRow(s) ==
  /\ At(s, "rows")
  /\ PQgetResult(conn[s], "tuple")
  /\ UNCHANGED <<objectVars, frame>>

\* Mutant: the loop tries the same segment again after an error.
FetchEndRetries(s) ==
  /\ At(s, "rows")
  /\ \E r \in {"null", "final", "copy", "error"} :
       /\ PQgetResult(conn[s], r)
       /\ frame' = [frame EXCEPT ![s].pc = "loop",
                                 ![s].seg = IF r = "error" THEN @ ELSE @ + 1]
  /\ UNCHANGED objectVars

\* Anything else ends the rows; a result that is not null is not cleared, and
\* an error is not looked at.
FetchEnd(s) ==
  /\ At(s, "rows")
  /\ \E r \in {"null", "final", "copy", "error"} : PQgetResult(conn[s], r)
  /\ frame' = [frame EXCEPT ![s].pc = "loop", ![s].seg = @ + 1]
  /\ UNCHANGED objectVars

------------------------------------------------------------------------------

Proceed(s) ==
  \/ Drain(s) \/ DrainEnds(s) \/ SendFails(s) \/ Send(s)
  \/ LoopEnds(s) \/ Skip(s) \/ ExecSegment(s)
  \/ SetSingleRowMode(s) \/ FetchRow(s) \/ FetchEnd(s)

Next ==
  \E s \in Sessions :
    \/ Open(s) \/ Close(s) \/ Release(s) \/ DerivedIsOpen(s)
    \/ \E command \in ExecCommands : Exec(s, command)
    \/ \E text \in Texts : Query(s, text)
    \/ Proceed(s)

Spec == Init /\ [][Next]_vars

\* Every thread is scheduled, the server answers or the connection breaks. A row
\* is a stuttering step, so that a result has finitely many of them.
Fairness == \A s \in Sessions : WF_vars(Proceed(s))

FairSpec == Spec /\ Fairness

------------------------------------------------------------------------------
(* Properties.                                                             *)

Frames == [pc : {"idle", "loop", "drain", "send", "single", "rows"},
           call : {"none", "exec", "query"},
           text : Texts \cup {<<c>> : c \in Commands} \cup {<<>>},
           seg : Nat \ {0}, sent : Nat]

\* The values every variable ranges over.
TypeOK ==
  /\ conn \in [Sessions -> Conns \cup {NULL}]
  /\ isOpen \in [Sessions -> BOOLEAN]
  /\ outcome \in [Sessions -> {"ok", "executed", "exception"}]
  /\ frame \in [Sessions -> Frames]
  /\ pg \in [Conns -> {"free", "ok", "bad"}]
  /\ async \in [Conns -> Busy \cup {"idle", "done", "copying"}]

\* exec() never meets "another command is already in progress": whatever the
\* calls before it left behind (unread results, errors, a lost connection), the
\* connection is idle when PQsendQuery is called (exec() lines 52-55).
SendNeverRefused ==
  \A s \in Sessions : At(s, "send") /\ conn[s] # NULL => async[conn[s]] = "idle"

\* A query has sent each statement of its text before the current one exactly
\* once, whatever became of the results.
EachSegmentOnce ==
  \A s \in Sessions :
    frame[s].call = "query" /\ frame[s].pc \in {"loop", "drain", "send"} =>
      frame[s].sent = Cardinality({i \in 1..frame[s].seg - 1 :
                                     frame[s].text[i] \in Commands})

\* What PgSQLSession::isOpen() answers is true when it answers: there is a
\* connection that libpq has not seen break.
DerivedIsOpenHonest ==
  [][\A s \in Sessions :
       DerivedIsOpen(s) => (isOpen'[s] <=> conn'[s] # NULL /\ pg'[conn'[s]] = "ok")]_vars

\* Every structure libpq keeps is the conn of a session, so that close() and
\* release() free it.
NoOrphans ==
  \A c \in Conns : pg[c] # "free" => \E s \in Sessions : conn[s] = c

\* A session takes and returns its connection as Session.h promises.
Contract == INSTANCE SessionContract
              WITH link <- conn, held <- {c \in Conns : pg[c] # "free"}
ContractSpec == Contract!Spec

\* Every call of exec() and query() comes back, unless a COPY is started.
CallsReturn == \A s \in Sessions : ~Idle(s) ~> Idle(s)

\* Session.h:58: exec() is to "Execute a sql statement": when it has returned,
\* the statement is not still under way.
ExecExecutes ==
  \A s \in Sessions :
    outcome[s] = "executed" /\ Idle(s) /\ conn[s] # NULL => async[conn[s]] \notin Busy
==============================================================================
