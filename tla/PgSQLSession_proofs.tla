------------------------- MODULE PgSQLSession_proofs -------------------------
(***************************************************************************)
(* Theorems about PgSQLSession for any number of sessions, connections and *)
(* texts.                                                                  *)
(***************************************************************************)
EXTENDS PgSQLSession, FiniteSetTheorems, TLAPS

(* Frames.                                                                 *)

\* The frame of s becomes f.
LEMMA SetFrame ==
  ASSUME TypeOK, NEW s \in Sessions, NEW f \in Frames, frame' = [frame EXCEPT ![s] = f]
  PROVE  /\ frame' \in [Sessions -> Frames]
         /\ frame'[s] = f
         /\ \A t \in Sessions \ {s} : frame'[t] = frame[t]
BY DEF TypeOK

\* A call that is not under way has a well-typed frame.
LEMMA EmptyFrameType == EmptyFrame \in Frames
BY DEF EmptyFrame, Frames

\* Moving a call to another label keeps its frame well typed.
LEMMA MoveFrame ==
  ASSUME TypeOK, NEW s \in Sessions,
         NEW l \in {"loop", "drain", "send", "single", "rows"}, Move(s, l)
  PROVE  /\ frame' = [frame EXCEPT ![s] = [frame[s] EXCEPT !.pc = l]]
         /\ [frame[s] EXCEPT !.pc = l] \in Frames
<1>1. frame[s] \in Frames
  BY DEF TypeOK
<1>2. [frame[s] EXCEPT !.pc = l] \in Frames
  BY <1>1 DEF Frames
<1> QED
  BY <1>2 DEF Move

------------------------------------------------------------------------------
(* libpq.                                                                  *)

\* PQgetResult changes nothing but its connection, which it neither allocates
\* nor frees nor repairs, and leaves it idle when it returns null.
LEMMA GetResult ==
  ASSUME TypeOK, NEW c \in Conns \cup {NULL}, NEW r, PQgetResult(c, r)
  PROVE  /\ async' \in [Conns -> Busy \cup {"idle", "done", "copying"}]
         /\ pg' \in [Conns -> {"free", "ok", "bad"}]
         /\ \A d \in Conns : d # c => pg'[d] = pg[d] /\ async'[d] = async[d]
         /\ c # NULL => pg'[c] \in {pg[c], "bad"}
         /\ c # NULL /\ r = "null" => async'[c] = "idle"
BY PgSQLAssumption DEF TypeOK, PQgetResult, Becomes, libVars, Busy, Commands

\* The body of close() frees the session's structure and touches no other.
LEMMA CloseConnType ==
  ASSUME TypeOK, NEW s \in Sessions, CloseConn(s)
  PROVE  /\ conn' \in [Sessions -> Conns \cup {NULL}]
         /\ pg' \in [Conns -> {"free", "ok", "bad"}]
         /\ async' \in [Conns -> Busy \cup {"idle", "done", "copying"}]
         /\ conn'[s] = NULL
         /\ \A t \in Sessions \ {s} : conn'[t] = conn[t]
         /\ \A d \in Conns : IF d = conn[s] THEN pg'[d] = "free"
                             ELSE pg'[d] = pg[d] /\ async'[d] = async[d]
BY PgSQLAssumption DEF TypeOK, CloseConn

------------------------------------------------------------------------------
(* The invariant.                                                          *)

\* A connected structure is never one that was freed, two sessions never share
\* one, and a good connection was reported open.
ConnInv ==
  /\ \A s \in Sessions : conn[s] # NULL => pg[conn[s]] # "free"
  /\ \A s, t \in Sessions : conn[s] = conn[t] /\ conn[s] # NULL => s = t
  /\ \A s \in Sessions : conn[s] # NULL /\ pg[conn[s]] = "ok" => isOpen[s]

\* What a call knows where it stands: the statement it is about to send, and
\* that it has a connection to fetch from.
CallInv ==
  \A s \in Sessions :
    /\ frame[s].pc \in {"drain", "send"} =>
         frame[s].seg <= Len(frame[s].text) /\ Segment(s) \in Commands
    /\ frame[s].pc \in {"single", "rows"} => conn[s] # NULL

Inv == TypeOK /\ ConnInv /\ CallInv /\ SendNeverRefused

\* Init establishes it.
LEMMA InitInv == Init => Inv
<1> SUFFICES ASSUME Init PROVE Inv
  OBVIOUS
<1>1. TypeOK
  BY EmptyFrameType DEF Init, TypeOK
<1>2. ConnInv
  BY DEF Init, ConnInv
<1>3. CallInv /\ SendNeverRefused
  BY DEF Init, CallInv, SendNeverRefused, EmptyFrame, At
<1> QED
  BY <1>1, <1>2, <1>3 DEF Inv

\* A step of a call: its frame becomes f, its session keeps its connection, and
\* nobody else's connection is touched.
LEMMA CallStep ==
  ASSUME Inv, NEW s \in Sessions, NEW f \in Frames,
         frame' = [frame EXCEPT ![s] = f],
         UNCHANGED <<conn, isOpen>>,
         outcome' \in [Sessions -> {"ok", "executed", "exception"}],
         async' \in [Conns -> Busy \cup {"idle", "done", "copying"}],
         pg' \in [Conns -> {"free", "ok", "bad"}],
         \A d \in Conns : d # conn[s] => pg'[d] = pg[d] /\ async'[d] = async[d],
         conn[s] # NULL => pg'[conn[s]] \in {pg[conn[s]], "bad"},
         f.pc \in {"drain", "send"} => f.seg <= Len(f.text) /\ f.text[f.seg] \in Commands,
         f.pc \in {"single", "rows"} => conn[s] # NULL,
         f.pc = "send" /\ conn[s] # NULL => async'[conn[s]] = "idle"
  PROVE  Inv'
<1>1. /\ frame' \in [Sessions -> Frames]
      /\ frame'[s] = f
      /\ \A t \in Sessions \ {s} : frame'[t] = frame[t]
  BY SetFrame DEF Inv
<1>2. TypeOK'
  BY <1>1 DEF Inv, TypeOK
<1>3. \A t \in Sessions \ {s} : conn[t] # NULL => conn[t] # conn[s]
  BY DEF Inv, ConnInv
<1>4. \A t \in Sessions \ {s} :
        conn[t] # NULL => pg'[conn[t]] = pg[conn[t]] /\ async'[conn[t]] = async[conn[t]]
  BY <1>3 DEF Inv, TypeOK
<1>5. ConnInv'
  BY <1>4 DEF Inv, ConnInv
<1>6. CallInv'
  BY <1>1 DEF Inv, CallInv, Segment
<1>7. SendNeverRefused'
  BY <1>1, <1>4 DEF Inv, SendNeverRefused, At
<1> QED
  BY <1>2, <1>5, <1>6, <1>7 DEF Inv

\* A session that no call uses gets another connection, or none: structures
\* that other sessions have are not touched.
LEMMA ConnStep ==
  ASSUME Inv, NEW s \in Sessions, Idle(s), UNCHANGED frame,
         conn' \in [Sessions -> Conns \cup {NULL}],
         isOpen' \in [Sessions -> BOOLEAN],
         outcome' \in [Sessions -> {"ok", "executed", "exception"}],
         async' \in [Conns -> Busy \cup {"idle", "done", "copying"}],
         pg' \in [Conns -> {"free", "ok", "bad"}],
         \A t \in Sessions \ {s} :
           /\ conn'[t] = conn[t] /\ isOpen'[t] = isOpen[t]
           /\ conn[t] # NULL => /\ pg'[conn[t]] = pg[conn[t]]
                                /\ async'[conn[t]] = async[conn[t]]
                                /\ conn'[s] # conn[t],
         conn'[s] # NULL => /\ pg'[conn'[s]] # "free"
                            /\ pg'[conn'[s]] = "ok" => isOpen'[s]
  PROVE  Inv'
<1>1. TypeOK'
  BY DEF Inv, TypeOK
<1>2. ConnInv'
  BY DEF Inv, ConnInv
<1>3. frame[s].pc = "idle"
  BY DEF Idle, At
<1>4. CallInv'
  BY <1>3 DEF Inv, CallInv, Segment
<1>5. SendNeverRefused'
  BY <1>3 DEF Inv, SendNeverRefused, At
<1> QED
  BY <1>1, <1>2, <1>4, <1>5 DEF Inv

------------------------------------------------------------------------------
(* The steps.                                                              *)

\* open() takes a structure that libpq has free, or changes nothing but outcome.
LEMMA OpenInv ==
  ASSUME Inv, NEW s \in Sessions, Open(s)
  PROVE  Inv'
<1>1. CASE UNCHANGED <<conn, isOpen, libVars>>
  <2>1. outcome' \in [Sessions -> {"ok", "executed", "exception"}]
    BY DEF Open, Inv, TypeOK
  <2>2. UNCHANGED <<pg, async>>
    BY <1>1 DEF libVars
  <2>3. \A t \in Sessions \ {s} : conn[t] # NULL => conn[s] # conn[t]
    BY DEF Inv, ConnInv
  <2> QED
    BY <1>1, <2>1, <2>2, <2>3, ConnStep DEF Open, Inv, TypeOK, ConnInv
<1>2. ASSUME NEW c \in Conns, pg[c] = "free", NEW connected \in BOOLEAN,
             conn' = [conn EXCEPT ![s] = c],
             pg' = [pg EXCEPT ![c] = IF connected THEN "ok" ELSE "bad"],
             async' = [async EXCEPT ![c] = "idle"],
             isOpen' = [isOpen EXCEPT ![s] = connected \/ @],
             outcome' = [outcome EXCEPT ![s] = IF connected THEN "ok" ELSE "exception"]
      PROVE  Inv'
  <2>1. /\ conn' \in [Sessions -> Conns \cup {NULL}]
        /\ conn'[s] = c /\ \A t \in Sessions \ {s} : conn'[t] = conn[t]
    BY <1>2 DEF Inv, TypeOK
  <2>2. /\ pg' \in [Conns -> {"free", "ok", "bad"}]
        /\ pg'[c] = IF connected THEN "ok" ELSE "bad"
        /\ \A d \in Conns \ {c} : pg'[d] = pg[d]
    BY <1>2 DEF Inv, TypeOK
  <2>3. /\ async' \in [Conns -> Busy \cup {"idle", "done", "copying"}]
        /\ \A d \in Conns \ {c} : async'[d] = async[d]
    BY <1>2 DEF Inv, TypeOK
  <2>4. isOpen[s] \in BOOLEAN
    BY DEF Inv, TypeOK
  <2>5. /\ isOpen' \in [Sessions -> BOOLEAN]
        /\ isOpen'[s] = (connected \/ isOpen[s])
        /\ \A t \in Sessions \ {s} : isOpen'[t] = isOpen[t]
    BY <1>2, <2>4, Zenon DEF Inv, TypeOK
  <2>6. outcome' \in [Sessions -> {"ok", "executed", "exception"}]
    BY <1>2 DEF Inv, TypeOK
  <2>7. \A t \in Sessions \ {s} : conn[t] # NULL => conn[t] \in Conns \ {c}
    BY <1>2 DEF Inv, TypeOK, ConnInv
  <2>8. pg'[c] # "free" /\ (pg'[c] = "ok" => isOpen'[s])
    BY <2>2, <2>5
  <2>9. Idle(s) /\ UNCHANGED frame
    BY DEF Open
  <2> QED
    BY <2>1, <2>2, <2>3, <2>5, <2>6, <2>7, <2>8, <2>9, ConnStep
<1> QED
  BY <1>1, <1>2 DEF Open

\* close(), release() and PgSQLSession::isOpen() when it closes.
LEMMA CloseInv ==
  ASSUME Inv, NEW s \in Sessions, Idle(s), CloseConn(s), UNCHANGED frame,
         isOpen' \in [Sessions -> BOOLEAN],
         \A t \in Sessions \ {s} : isOpen'[t] = isOpen[t],
         outcome' = [outcome EXCEPT ![s] = "ok"]
  PROVE  Inv'
<1>1. outcome' \in [Sessions -> {"ok", "executed", "exception"}]
  BY DEF Inv, TypeOK
<1>2. \A t \in Sessions \ {s} : conn[t] # NULL => conn[t] \in Conns /\ conn[t] # conn[s]
  BY DEF Inv, ConnInv, TypeOK
<1> QED
  BY <1>1, <1>2, CloseConnType, ConnStep DEF Inv

\* The four ways a call of PgSQLSession ends or changes its connection.
LEMMA ManageInv ==
  ASSUME Inv, NEW s \in Sessions, Open(s) \/ Close(s) \/ Release(s) \/ DerivedIsOpen(s)
  PROVE  Inv'
<1>1. CASE Open(s)
  BY <1>1, OpenInv
<1>2. CASE Close(s)
  BY <1>2, CloseInv DEF Close, Inv, TypeOK
<1>3. CASE Release(s)
  <2>1. /\ isOpen' \in [Sessions -> BOOLEAN]
        /\ \A t \in Sessions \ {s} : isOpen'[t] = isOpen[t]
    BY <1>3 DEF Release, Inv, TypeOK
  <2> QED
    BY <1>3, <2>1, CloseInv DEF Release
<1>4. CASE DerivedIsOpen(s)
  <2>1. CASE conn[s] = NULL \/ pg[conn[s]] = "bad"
    <3>1. isOpen' = [isOpen EXCEPT ![s] = FALSE] /\ CloseConn(s)
      BY <1>4, <2>1 DEF DerivedIsOpen
    <3>2. /\ isOpen' \in [Sessions -> BOOLEAN]
          /\ \A t \in Sessions \ {s} : isOpen'[t] = isOpen[t]
      BY <3>1 DEF Inv, TypeOK
    <3> QED
      BY <1>4, <3>1, <3>2, CloseInv DEF DerivedIsOpen
  <2>2. CASE ~(conn[s] = NULL \/ pg[conn[s]] = "bad")
    <3>1. UNCHANGED <<conn, isOpen, pg, async, frame>> /\ Idle(s)
      BY <1>4, <2>2 DEF DerivedIsOpen, libVars
    <3>2. outcome' \in [Sessions -> {"ok", "executed", "exception"}]
      BY <1>4 DEF DerivedIsOpen, Inv, TypeOK
    <3>3. \A t \in Sessions \ {s} : conn[t] # NULL => conn[s] # conn[t]
      BY DEF Inv, ConnInv
    <3> QED
      BY <3>1, <3>2, <3>3, ConnStep DEF Inv, TypeOK, ConnInv
  <2> QED
    BY <2>1, <2>2
<1> QED
  BY <1>1, <1>2, <1>3, <1>4

\* A call that sent a command has a well-typed frame.
LEMMA SentFrame ==
  ASSUME NEW f \in Frames
  PROVE  /\ [f EXCEPT !.pc = "single", !.sent = @ + 1] \in Frames
         /\ [f EXCEPT !.pc = "single", !.sent = @ + 1].pc = "single"
<1> DEFINE n == f.sent + 1
<1>1. n \in Nat
  BY DEF Frames
<1> HIDE DEF n
<1>2. [f EXCEPT !.pc = "single", !.sent = n] \in Frames
  BY <1>1 DEF Frames
<1>3. [f EXCEPT !.pc = "single", !.sent = n].pc = "single"
  BY DEF Frames
<1> QED
  BY <1>2, <1>3 DEF n

\* The same for a call that leaves its segment behind.
LEMMA NextFrame ==
  ASSUME NEW f \in Frames
  PROVE  /\ [f EXCEPT !.pc = "loop", !.seg = @ + 1] \in Frames
         /\ [f EXCEPT !.pc = "loop", !.seg = @ + 1].pc = "loop"
         /\ [f EXCEPT !.seg = @ + 1] \in Frames
         /\ [f EXCEPT !.seg = @ + 1].pc = f.pc
<1> DEFINE n == f.seg + 1
<1>1. n \in Nat \ {0}
  BY DEF Frames
<1> HIDE DEF n
<1>2. [f EXCEPT !.pc = "loop", !.seg = n] \in Frames /\ [f EXCEPT !.seg = n] \in Frames
  BY <1>1 DEF Frames
<1>3. [f EXCEPT !.pc = "loop", !.seg = n].pc = "loop" /\ [f EXCEPT !.seg = n].pc = f.pc
  BY DEF Frames
<1> QED
  BY <1>2, <1>3 DEF n

\* A new call starts with a frame that holds its text.
LEMMA StartFrame ==
  ASSUME NEW e \in Frames, NEW l \in {"loop", "drain"}, NEW k \in {"exec", "query"},
         NEW t \in Texts \cup {<<c>> : c \in Commands}
  PROVE  /\ [e EXCEPT !.pc = l, !.call = k, !.text = t] \in Frames
         /\ [e EXCEPT !.pc = l, !.call = k, !.text = t].pc = l
         /\ [e EXCEPT !.pc = l, !.call = k, !.text = t].seg = e.seg
         /\ [e EXCEPT !.pc = l, !.call = k, !.text = t].text = t
BY DEF Frames

\* Entering exec() or query() preserves the invariant.
LEMMA StartInv ==
  ASSUME Inv, NEW s \in Sessions,
         (\E c \in ExecCommands : Exec(s, c)) \/ (\E t \in Texts : Query(s, t))
  PROVE  Inv'
<1> USE DEF Inv, TypeOK
<1>1. ASSUME NEW c \in ExecCommands, Exec(s, c) PROVE Inv'
  <2> DEFINE f == [EmptyFrame EXCEPT !.pc = "drain", !.call = "exec", !.text = <<c>>]
  <2>1. c \in Commands
    BY PgSQLAssumption
  <2>2. f \in Frames /\ f.pc = "drain" /\ f.seg = 1 /\ f.text = <<c>>
    <3>1. <<c>> \in Texts \cup {<<x>> : x \in Commands}
      BY <2>1
    <3> QED
      BY <3>1, StartFrame, EmptyFrameType, Zenon DEF EmptyFrame
  <2>3. frame' = [frame EXCEPT ![s] = f] /\ UNCHANGED <<conn, isOpen, outcome, pg, async>>
    BY <1>1 DEF Exec, objectVars, libVars
  <2> HIDE DEF f
  <2>4. f.seg <= Len(f.text) /\ f.text[f.seg] \in Commands
    BY <2>1, <2>2
  <2> QED
    BY <2>2, <2>3, <2>4, CallStep
<1>2. ASSUME NEW t \in Texts, Query(s, t) PROVE Inv'
  <2> DEFINE f == [EmptyFrame EXCEPT !.pc = "loop", !.call = "query", !.text = t]
  <2>1. f \in Frames /\ f.pc = "loop"
    BY StartFrame, EmptyFrameType
  <2>2. frame' = [frame EXCEPT ![s] = f] /\ UNCHANGED <<conn, isOpen, outcome, pg, async>>
    BY <1>2 DEF Query, objectVars, libVars
  <2> HIDE DEF f
  <2> QED
    BY <2>1, <2>2, CallStep
<1> QED
  BY <1>1, <1>2

\* A call that ends leaves an empty frame.
LEMMA ReturnInv ==
  ASSUME Inv, NEW s \in Sessions, NEW r \in {"ok", "executed", "exception"}, Return(s, r),
         UNCHANGED <<conn, isOpen, pg>>,
         async' \in [Conns -> Busy \cup {"idle", "done", "copying"}],
         \A d \in Conns : d # conn[s] => async'[d] = async[d]
  PROVE  Inv'
<1>1. EmptyFrame \in Frames /\ EmptyFrame.pc = "idle"
  BY EmptyFrameType DEF EmptyFrame
<1>2. outcome' \in [Sessions -> {"ok", "executed", "exception"}]
  BY DEF Return, Inv, TypeOK
<1> QED
  BY <1>1, <1>2, CallStep DEF Return, Inv, TypeOK

\* What CallStep asks of a fetch.
Fetched(s) ==
  /\ async' \in [Conns -> Busy \cup {"idle", "done", "copying"}]
  /\ pg' \in [Conns -> {"free", "ok", "bad"}]
  /\ \A d \in Conns : d # conn[s] => pg'[d] = pg[d] /\ async'[d] = async[d]
  /\ conn[s] # NULL => pg'[conn[s]] \in {pg[conn[s]], "bad"}

\* The loop of exec(): the last, null result leaves the connection idle.
LEMMA DrainInv ==
  ASSUME Inv, NEW s \in Sessions, Drain(s) \/ DrainEnds(s)
  PROVE  Inv'
<1>1. conn[s] \in Conns \cup {NULL} /\ frame[s] \in Frames
  BY DEF Inv, TypeOK
<1>2. frame[s].seg <= Len(frame[s].text) /\ frame[s].text[frame[s].seg] \in Commands
  BY DEF Drain, DrainEnds, At, Inv, CallInv, Segment
<1>3. CASE Drain(s)
  <2>1. PICK r \in Results : PQgetResult(conn[s], r)
    BY <1>3 DEF Drain
  <2>2. frame' = [frame EXCEPT ![s] = frame[s]] /\ frame[s].pc = "drain"
    BY <1>3 DEF Drain, At, Inv, TypeOK
  <2>3. Fetched(s)
    BY <1>1, <2>1, GetResult DEF Inv, Fetched
  <2>4. UNCHANGED <<conn, isOpen, outcome>>
    BY <1>3 DEF Drain, objectVars
  <2>5. outcome' \in [Sessions -> {"ok", "executed", "exception"}]
    BY <2>4 DEF Inv, TypeOK
  <2> QED
    BY <1>1, <1>2, <2>2, <2>3, <2>4, <2>5, CallStep DEF Fetched
<1>4. CASE DrainEnds(s)
  <2>1. /\ frame' = [frame EXCEPT ![s] = [frame[s] EXCEPT !.pc = "send"]]
        /\ [frame[s] EXCEPT !.pc = "send"] \in Frames
    BY <1>4, MoveFrame DEF DrainEnds, Inv
  <2>2. PQgetResult(conn[s], "null")
    BY <1>4 DEF DrainEnds
  <2> DEFINE f == [frame[s] EXCEPT !.pc = "send"]
  <2>3. f.pc = "send" /\ f.seg = frame[s].seg /\ f.text = frame[s].text
    BY <1>1 DEF Frames
  <2>4. f \in Frames /\ frame' = [frame EXCEPT ![s] = f]
    BY <2>1
  <2>5. Fetched(s) /\ (conn[s] # NULL => async'[conn[s]] = "idle")
    BY <1>1, <2>2, GetResult DEF Inv, Fetched
  <2>6. UNCHANGED <<conn, isOpen, outcome>>
    BY <1>4 DEF DrainEnds, objectVars
  <2>7. outcome' \in [Sessions -> {"ok", "executed", "exception"}]
    BY <2>6 DEF Inv, TypeOK
  <2> HIDE DEF f
  <2> QED
    BY <1>2, <2>3, <2>4, <2>5, <2>6, <2>7, CallStep DEF Fetched
<1> QED
  BY <1>3, <1>4

\* PQsendQuery, refused or not, preserves the invariant.
LEMMA SendInv ==
  ASSUME Inv, NEW s \in Sessions, SendFails(s) \/ Send(s)
  PROVE  Inv'
<1>1. CASE SendFails(s)
  BY <1>1, ReturnInv DEF SendFails, libVars, Inv, TypeOK
<1>2. CASE Send(s)
  <2>1. frame[s].text[frame[s].seg] \in Commands
    BY <1>2 DEF Send, At, Inv, CallInv, Segment
  <2>2. /\ async' \in [Conns -> Busy \cup {"idle", "done", "copying"}]
        /\ \A d \in Conns : d # conn[s] => async'[d] = async[d]
        /\ UNCHANGED <<conn, isOpen, pg>>
    BY <1>2, <2>1 DEF Send, Becomes, Busy, Inv, TypeOK
  <2>3. CASE Return(s, "executed")
    BY <2>2, <2>3, ReturnInv
  <2>4. CASE frame' = [frame EXCEPT ![s].pc = "single", ![s].sent = @ + 1] /\ UNCHANGED outcome
    <3> DEFINE f == [frame[s] EXCEPT !.pc = "single", !.sent = @ + 1]
    <3>1. frame[s] \in Frames
      BY DEF Inv, TypeOK
    <3>2. f \in Frames /\ f.pc = "single"
      BY <3>1, SentFrame
    <3>3. frame' = [frame EXCEPT ![s] = f]
      BY <2>4 DEF Inv, TypeOK
    <3>4. conn[s] # NULL
      BY <1>2 DEF Send
    <3>5. /\ outcome' \in [Sessions -> {"ok", "executed", "exception"}]
          /\ pg' \in [Conns -> {"free", "ok", "bad"}]
      BY <2>2, <2>4 DEF Inv, TypeOK
    <3> HIDE DEF f
    <3> QED
      BY <2>2, <3>2, <3>3, <3>4, <3>5, CallStep
  <2> QED
    BY <1>2, <2>3, <2>4 DEF Send
<1> QED
  BY <1>1, <1>2

\* The loop of query() between two commands.
LEMMA LoopInv ==
  ASSUME Inv, NEW s \in Sessions, LoopEnds(s) \/ Skip(s) \/ ExecSegment(s)
  PROVE  Inv'
<1>1. frame[s] \in Frames /\ frame \in [Sessions -> Frames]
  BY DEF Inv, TypeOK
<1>2. CASE LoopEnds(s)
  BY <1>2, ReturnInv DEF LoopEnds, libVars, Inv, TypeOK
<1>3. CASE Skip(s)
  <2> DEFINE f == [frame[s] EXCEPT !.seg = @ + 1]
  <2>1. f \in Frames /\ f.pc = "loop"
    BY <1>1, <1>3, NextFrame DEF Skip, InLoop, At
  <2>2. frame' = [frame EXCEPT ![s] = f] /\ UNCHANGED <<conn, isOpen, outcome, pg, async>>
    BY <1>1, <1>3 DEF Skip, objectVars, libVars
  <2> HIDE DEF f
  <2> QED
    BY <2>1, <2>2, CallStep DEF Inv, TypeOK
<1>4. CASE ExecSegment(s)
  <2> DEFINE f == [frame[s] EXCEPT !.pc = "drain"]
  <2>1. f \in Frames /\ frame' = [frame EXCEPT ![s] = f]
    BY <1>4, MoveFrame DEF ExecSegment, Inv
  <2>2. UNCHANGED <<conn, isOpen, outcome, pg, async>>
    BY <1>4 DEF ExecSegment, objectVars, libVars
  <2>3. f.pc = "drain" /\ f.seg = frame[s].seg /\ f.text = frame[s].text
    BY <1>1 DEF Frames
  <2> HIDE DEF f
  <2>4. f.seg <= Len(f.text) /\ f.text[f.seg] \in Commands
    BY <1>4, <2>3 DEF ExecSegment, InLoop, Segment
  <2> QED
    BY <2>1, <2>2, <2>3, <2>4, CallStep DEF Inv, TypeOK
<1> QED
  BY <1>2, <1>3, <1>4

\* The results of the command that query() sent.
LEMMA RowsInv ==
  ASSUME Inv, NEW s \in Sessions, SetSingleRowMode(s) \/ FetchRow(s) \/ FetchEnd(s)
  PROVE  Inv'
<1>1. /\ frame[s] \in Frames /\ frame \in [Sessions -> Frames]
      /\ outcome \in [Sessions -> {"ok", "executed", "exception"}]
  BY DEF Inv, TypeOK
<1>2. conn[s] # NULL /\ conn[s] \in Conns
  BY DEF SetSingleRowMode, FetchRow, FetchEnd, At, Inv, CallInv, TypeOK
<1>3. UNCHANGED <<conn, isOpen, outcome>>
  BY DEF SetSingleRowMode, FetchRow, FetchEnd, objectVars
<1>4. CASE SetSingleRowMode(s)
  <2> DEFINE f == [frame[s] EXCEPT !.pc = "rows"]
  <2>1. f \in Frames /\ frame' = [frame EXCEPT ![s] = f]
    BY <1>4, MoveFrame DEF SetSingleRowMode, Inv
  <2>2. f.pc = "rows"
    BY <1>1 DEF Frames
  <2>3. Fetched(s)
    BY <1>2, <1>4 DEF SetSingleRowMode, Becomes, Fetched, Busy, Inv, TypeOK
  <2> HIDE DEF f
  <2> QED
    BY <1>1, <1>2, <1>3, <2>1, <2>2, <2>3, CallStep DEF Fetched
<1>5. CASE FetchRow(s)
  <2>1. Fetched(s)
    BY <1>2, <1>5, GetResult DEF FetchRow, Fetched, Inv
  <2>2. frame' = [frame EXCEPT ![s] = frame[s]] /\ frame[s].pc = "rows"
    BY <1>1, <1>5 DEF FetchRow, At
  <2> QED
    BY <1>1, <1>2, <1>3, <2>1, <2>2, CallStep DEF Fetched
<1>6. CASE FetchEnd(s)
  <2>1. PICK r : PQgetResult(conn[s], r)
    BY <1>6 DEF FetchEnd
  <2>2. Fetched(s)
    BY <1>2, <2>1, GetResult DEF Fetched, Inv
  <2> DEFINE f == [frame[s] EXCEPT !.pc = "loop", !.seg = @ + 1]
  <2>3. f \in Frames /\ f.pc = "loop"
    BY <1>1, NextFrame
  <2>4. frame' = [frame EXCEPT ![s] = f]
    BY <1>1, <1>6 DEF FetchEnd
  <2> HIDE DEF f
  <2> QED
    BY <1>1, <1>3, <2>2, <2>3, <2>4, CallStep DEF Fetched
<1> QED
  BY <1>4, <1>5, <1>6

\* Every step preserves the invariant.
LEMMA NextInv == Inv /\ [Next]_vars => Inv'
<1> SUFFICES ASSUME Inv, [Next]_vars PROVE Inv'
  OBVIOUS
<1>1. CASE UNCHANGED vars
  BY <1>1 DEF vars, objectVars, libVars, Inv, TypeOK, ConnInv, CallInv,
              SendNeverRefused, At, Segment
<1>2. CASE Next
  <2>1. PICK s \in Sessions :
          \/ Open(s) \/ Close(s) \/ Release(s) \/ DerivedIsOpen(s)
          \/ \E command \in ExecCommands : Exec(s, command)
          \/ \E text \in Texts : Query(s, text)
          \/ Proceed(s)
    BY <1>2 DEF Next
  <2>2. CASE Open(s) \/ Close(s) \/ Release(s) \/ DerivedIsOpen(s)
    BY <2>2, ManageInv
  <2>3. CASE \/ \E command \in ExecCommands : Exec(s, command)
             \/ \E text \in Texts : Query(s, text)
    BY <2>3, StartInv
  <2>4. CASE Proceed(s)
    BY <2>4, DrainInv, SendInv, LoopInv, RowsInv DEF Proceed
  <2> QED
    BY <2>1, <2>2, <2>3, <2>4
<1> QED
  BY <1>1, <1>2

\* The invariant holds throughout.
LEMMA Invariance == Spec => []Inv
BY InitInv, NextInv, PTL DEF Spec

------------------------------------------------------------------------------
(* The theorems, for every habit an application may have.                  *)

\* Every variable keeps its type.
THEOREM TypeCorrect == Spec => []TypeOK
<1>1. Inv => TypeOK
  BY DEF Inv
<1> QED
  BY <1>1, Invariance, PTL

\* Whatever the calls before left unread, and whether or not the connection was
\* lost, PQsendQuery always finds the connection of the session idle.
THEOREM SendsWhenIdle == Spec => []SendNeverRefused
<1>1. Inv => SendNeverRefused
  BY DEF Inv
<1> QED
  BY <1>1, Invariance, PTL

------------------------------------------------------------------------------
(* What a query has sent.                                                  *)

\* The statements of the text before the segment a call is at.
Before(f) == Cardinality({i \in 1..f.seg - 1 : f.text[i] \in Commands})

\* EachSegmentOnce, and while the results of a segment are fetched: that segment
\* is a statement, and it was sent.
SentRight(f) ==
  f.call = "query" =>
    /\ f.pc \in {"loop", "drain", "send"} => f.sent = Before(f)
    /\ f.pc \in {"single", "rows"} => /\ f.sent = Before(f) + 1
                                      /\ f.text[f.seg] \in Commands

SentInv == \A s \in Sessions : SentRight(frame[s])

\* One frame is replaced by one that counts right.
LEMMA SetSent ==
  ASSUME TypeOK, SentInv, NEW s \in Sessions, NEW f, SentRight(f),
         frame' = [frame EXCEPT ![s] = f]
  PROVE  SentInv'
<1>1. \A t \in Sessions : frame'[t] = IF t = s THEN f ELSE frame[t]
  BY DEF TypeOK
<1> QED
  BY <1>1 DEF SentInv

\* Behind a segment there is one statement more if the segment is one.
LEMMA BeforeNext ==
  ASSUME NEW f \in Frames, NEW g, g.seg = f.seg + 1, g.text = f.text
  PROVE  /\ Before(f) \in Nat
         /\ Before(g) = IF f.text[f.seg] \in Commands THEN Before(f) + 1 ELSE Before(f)
<1> DEFINE n == f.seg - 1
           A == {i \in 1..n : f.text[i] \in Commands}
           B == {i \in 1..n + 1 : f.text[i] \in Commands}
<1>1. n \in Nat /\ g.seg - 1 = n + 1 /\ f.seg = n + 1
  BY DEF Frames
<1>2. Before(f) = Cardinality(A) /\ Before(g) = Cardinality(B)
  BY <1>1 DEF Before
<1> HIDE DEF n
<1>3. IsFiniteSet(1..n)
  BY <1>1, FS_Interval
<1>4. IsFiniteSet(A)
  BY <1>3, FS_Subset
<1>5. Cardinality(A) \in Nat
  BY <1>4, FS_CardinalityType
<1>6. CASE f.text[n + 1] \in Commands
  <2>1. B = A \cup {n + 1} /\ n + 1 \notin A
    BY <1>1, <1>6
  <2> QED
    BY <1>1, <1>2, <1>4, <1>5, <1>6, <2>1, FS_AddElement
<1>7. CASE f.text[n + 1] \notin Commands
  <2>1. B = A
    BY <1>1, <1>7
  <2> QED
    BY <1>1, <1>2, <1>5, <1>7, <2>1
<1> QED
  BY <1>6, <1>7

\* A frame with the same text, segment and count that stays on its side of the
\* sending counts right like the one before.
LEMMA MoveSent ==
  ASSUME TypeOK, SentInv, NEW s \in Sessions,
         NEW l \in {"loop", "drain", "send", "single", "rows"}, Move(s, l),
         (frame[s].pc \in {"single", "rows"}) <=> (l \in {"single", "rows"}),
         frame[s].pc # "idle"
  PROVE  SentInv'
<1> DEFINE f == [frame[s] EXCEPT !.pc = l]
<1>1. frame[s] \in Frames
  BY DEF TypeOK
<1>2. /\ f.pc = l /\ f.call = frame[s].call /\ f.text = frame[s].text
      /\ f.seg = frame[s].seg /\ f.sent = frame[s].sent
  BY <1>1 DEF Frames
<1>3. frame' = [frame EXCEPT ![s] = f]
  BY MoveFrame
<1> HIDE DEF f
<1>4. Before(f) = Before(frame[s])
  BY <1>2 DEF Before
<1>5. SentRight(frame[s])
  BY DEF SentInv
<1>6. frame[s].pc \in {"loop", "drain", "send", "single", "rows"}
  BY <1>1 DEF Frames
<1>7. SentRight(f)
  BY <1>2, <1>4, <1>5, <1>6 DEF SentRight
<1> QED
  BY <1>3, <1>7, SetSent

\* A call that is not under way has sent what it should: nothing.
LEMMA EmptySent == SentRight(EmptyFrame)
BY DEF SentRight, EmptyFrame

\* Every step of a call keeps the count.
LEMMA SentStep ==
  ASSUME Inv, SentInv, [Next]_vars
  PROVE  SentInv'
<1> USE DEF Inv
<1>1. CASE UNCHANGED frame
  BY <1>1 DEF SentInv
<1>2. ASSUME NEW s \in Sessions, NEW r, Return(s, r) PROVE SentInv'
  BY <1>2, EmptySent, SetSent DEF Return
<1>3. ASSUME NEW s \in Sessions,
             Open(s) \/ Close(s) \/ Release(s) \/ DerivedIsOpen(s) \/ Drain(s) \/ FetchRow(s)
      PROVE  SentInv'
  BY <1>1, <1>3 DEF Open, Close, Release, DerivedIsOpen, Drain, FetchRow
<1>4. ASSUME NEW s \in Sessions, NEW c \in ExecCommands, Exec(s, c) PROVE SentInv'
  <2> DEFINE f == [EmptyFrame EXCEPT !.pc = "drain", !.call = "exec", !.text = <<c>>]
  <2>1. f.call = "exec"
    BY DEF EmptyFrame
  <2>2. frame' = [frame EXCEPT ![s] = f]
    BY <1>4 DEF Exec
  <2> HIDE DEF f
  <2> QED
    BY <2>1, <2>2, SetSent DEF SentRight
<1>5. ASSUME NEW s \in Sessions, NEW t \in Texts, Query(s, t) PROVE SentInv'
  <2> DEFINE f == [EmptyFrame EXCEPT !.pc = "loop", !.call = "query", !.text = t]
  <2>1. f.pc = "loop" /\ f.seg = 1 /\ f.sent = 0
    BY DEF EmptyFrame
  <2>2. frame' = [frame EXCEPT ![s] = f]
    BY <1>5 DEF Query
  <2> HIDE DEF f
  <2>3. {i \in 1..f.seg - 1 : f.text[i] \in Commands} = {}
    BY <2>1
  <2>4. Before(f) = 0
    BY <2>3, FS_EmptySet DEF Before
  <2> QED
    BY <2>1, <2>2, <2>4, SetSent DEF SentRight
<1>6. ASSUME NEW s \in Sessions, DrainEnds(s) \/ ExecSegment(s) \/ SetSingleRowMode(s)
      PROVE  SentInv'
  BY <1>6, MoveSent DEF DrainEnds, ExecSegment, SetSingleRowMode, InLoop, At
<1>7. ASSUME NEW s \in Sessions, SendFails(s) \/ LoopEnds(s) PROVE SentInv'
  BY <1>2, <1>7 DEF SendFails, LoopEnds
<1>8. ASSUME NEW s \in Sessions, Send(s) PROVE SentInv'
  <2>1. CASE Return(s, "executed")
    BY <1>2, <2>1
  <2>2. CASE frame' = [frame EXCEPT ![s].pc = "single", ![s].sent = @ + 1]
    <3> DEFINE n == frame[s].sent + 1
               f == [frame[s] EXCEPT !.pc = "single", !.sent = n]
    <3>1. frame[s] \in Frames /\ SentRight(frame[s]) /\ frame[s].pc = "send"
      BY <1>8 DEF TypeOK, SentInv, Send, At
    <3>2. frame' = [frame EXCEPT ![s] = f]
      BY <2>2 DEF TypeOK
    <3> HIDE DEF n
    <3>3. /\ f.pc = "single" /\ f.call = frame[s].call /\ f.text = frame[s].text
          /\ f.seg = frame[s].seg /\ f.sent = n
      BY <3>1 DEF Frames
    <3> HIDE DEF f
    <3>4. f.text[f.seg] \in Commands
      BY <3>1, <3>3 DEF CallInv, Segment
    <3>5. Before(f) = Before(frame[s])
      BY <3>3 DEF Before
    <3>6. SentRight(f)
      BY <3>1, <3>3, <3>4, <3>5 DEF SentRight, n
    <3> QED
      BY <3>2, <3>6, SetSent
  <2> QED
    BY <1>8, <2>1, <2>2 DEF Send
<1>9. ASSUME NEW s \in Sessions, Skip(s) PROVE SentInv'
  <2> DEFINE n == frame[s].seg + 1
             f == [frame[s] EXCEPT !.seg = n]
  <2>1. frame[s] \in Frames /\ SentRight(frame[s]) /\ frame[s].pc = "loop"
    BY <1>9 DEF TypeOK, SentInv, Skip, InLoop, At
  <2>2. frame' = [frame EXCEPT ![s] = f]
    BY <1>9 DEF Skip, TypeOK
  <2> HIDE DEF n
  <2>3. /\ f.pc = "loop" /\ f.call = frame[s].call /\ f.text = frame[s].text
        /\ f.seg = n /\ f.sent = frame[s].sent
    BY <2>1 DEF Frames
  <2> HIDE DEF f
  <2>4. frame[s].text[frame[s].seg] \notin Commands
    BY <1>9 DEF Skip, Segment, Commands
  <2>5. Before(f) = Before(frame[s])
    BY <2>1, <2>3, <2>4, BeforeNext DEF n
  <2>6. SentRight(f)
    BY <2>1, <2>3, <2>5 DEF SentRight
  <2> QED
    BY <2>2, <2>6, SetSent
<1>10. ASSUME NEW s \in Sessions, FetchEnd(s) PROVE SentInv'
  <2> DEFINE n == frame[s].seg + 1
             f == [frame[s] EXCEPT !.pc = "loop", !.seg = n]
  <2>1. frame[s] \in Frames /\ SentRight(frame[s]) /\ frame[s].pc = "rows"
    BY <1>10 DEF TypeOK, SentInv, FetchEnd, At
  <2>2. frame' = [frame EXCEPT ![s] = f]
    BY <1>10 DEF FetchEnd, TypeOK
  <2> HIDE DEF n
  <2>3. /\ f.pc = "loop" /\ f.call = frame[s].call /\ f.text = frame[s].text
        /\ f.seg = n /\ f.sent = frame[s].sent
    BY <2>1 DEF Frames
  <2> HIDE DEF f
  <2>4. /\ Before(frame[s]) \in Nat
        /\ Before(f) = IF frame[s].text[frame[s].seg] \in Commands
                         THEN Before(frame[s]) + 1 ELSE Before(frame[s])
    BY <2>1, <2>3, BeforeNext DEF n
  <2>5. SentRight(f)
    BY <2>1, <2>3, <2>4 DEF SentRight
  <2> QED
    BY <2>2, <2>5, SetSent
<1>11. CASE UNCHANGED vars
  BY <1>1, <1>11 DEF vars
<1> QED
  BY <1>3, <1>4, <1>5, <1>6, <1>7, <1>8, <1>9, <1>10, <1>11 DEF Next, Proceed

\* PgSQLSession.cpp:63-68: each statement of a query's text is sent once and in its
\* turn, whatever its results were, an error or a lost connection among them, and
\* whatever other sessions do.
THEOREM SegmentsSentOnce == Spec => []EachSegmentOnce
<1>1. Init => SentInv
  BY EmptySent DEF Init, SentInv
<1>2. Inv /\ SentInv /\ [Next]_vars => SentInv'
  BY SentStep
<1>3. SentInv => EachSegmentOnce
  BY DEF SentInv, SentRight, EachSegmentOnce, Before
<1> QED
  BY <1>1, <1>2, <1>3, Invariance, PTL DEF Spec

\* PgSQLSession::isOpen() answers true exactly when there is a good connection.
THEOREM DerivedHonest == Spec => DerivedIsOpenHonest
<1>1. ASSUME Inv, NEW s \in Sessions, DerivedIsOpen(s)
      PROVE  isOpen'[s] <=> conn'[s] # NULL /\ pg'[conn'[s]] = "ok"
  <2>1. CASE conn[s] = NULL \/ pg[conn[s]] = "bad"
    <3>1. CloseConn(s) /\ isOpen' = [isOpen EXCEPT ![s] = FALSE]
      BY <1>1, <2>1 DEF DerivedIsOpen
    <3>2. conn'[s] = NULL
      BY <1>1, <3>1, CloseConnType DEF Inv
    <3>3. ~isOpen'[s]
      BY <1>1, <3>1 DEF Inv, TypeOK
    <3> QED
      BY <3>2, <3>3
  <2>2. CASE ~(conn[s] = NULL \/ pg[conn[s]] = "bad")
    <3>1. UNCHANGED <<conn, isOpen, pg>>
      BY <1>1, <2>2 DEF DerivedIsOpen, libVars
    <3>2. pg[conn[s]] = "ok"
      BY <1>1, <2>2 DEF Inv, TypeOK, ConnInv
    <3> QED
      BY <1>1, <2>2, <3>1, <3>2 DEF Inv, ConnInv
  <2> QED
    BY <2>1, <2>2
<1>2. Inv /\ [Next]_vars =>
        [\A s \in Sessions :
           DerivedIsOpen(s) => (isOpen'[s] <=> conn'[s] # NULL /\ pg'[conn'[s]] = "ok")]_vars
  BY <1>1
<1> QED
  BY <1>2, Invariance, PTL DEF Spec, DerivedIsOpenHonest

------------------------------------------------------------------------------
(* Applications that close a session before they open it again.            *)

Disciplined == Habits \subseteq {"derived"}

\* What a step may do with connections: nothing, allocate one for a session that
\* had none, or free the one a session had.
Keep == conn' = conn /\ \A c \in Conns : pg'[c] = "free" <=> pg[c] = "free"

Take(s, c) ==
  /\ conn[s] = NULL /\ conn' = [conn EXCEPT ![s] = c]
  /\ pg[c] = "free" /\ pg'[c] # "free"
  /\ \A d \in Conns \ {c} : pg'[d] = pg[d]

GiveBack(s) ==
  /\ conn[s] # NULL /\ conn' = [conn EXCEPT ![s] = NULL]
  /\ \A d \in Conns : pg'[d] = IF d = conn[s] THEN "free" ELSE pg[d]

\* close() gives the session's structure back, if it has one.
LEMMA CloseConns ==
  ASSUME Inv, NEW s \in Sessions, CloseConn(s)
  PROVE  Keep \/ GiveBack(s)
<1>1. CASE conn[s] = NULL
  BY <1>1 DEF CloseConn, Keep
<1>2. CASE conn[s] # NULL
  BY <1>2, CloseConnType DEF CloseConn, GiveBack, Inv
<1> QED
  BY <1>1, <1>2

\* The steps of exec() and query() allocate and free nothing.
LEMMA ProceedKeeps ==
  ASSUME Inv, NEW s \in Sessions, Proceed(s)
  PROVE  Keep
<1>1. conn' = conn
  BY DEF Proceed, Drain, DrainEnds, SendFails, Send, LoopEnds, Skip, ExecSegment,
         SetSingleRowMode, FetchRow, FetchEnd, objectVars
<1>2. CASE UNCHANGED pg
  BY <1>1, <1>2 DEF Keep
<1>3. ASSUME NEW r, PQgetResult(conn[s], r) PROVE Keep
  <2>1. conn[s] \in Conns \cup {NULL} /\ (conn[s] # NULL => pg[conn[s]] # "free")
    BY DEF Inv, TypeOK, ConnInv
  <2>2. /\ \A d \in Conns : d # conn[s] => pg'[d] = pg[d]
        /\ conn[s] # NULL => pg'[conn[s]] \in {pg[conn[s]], "bad"}
    BY <1>3, <2>1, GetResult DEF Inv
  <2> QED
    BY <1>1, <2>1, <2>2, PgSQLAssumption DEF Keep
<1>4. CASE Drain(s) \/ DrainEnds(s) \/ FetchRow(s) \/ FetchEnd(s)
  BY <1>3, <1>4 DEF Drain, DrainEnds, FetchRow, FetchEnd
<1>5. CASE \/ SendFails(s) \/ Send(s) \/ LoopEnds(s) \/ Skip(s) \/ ExecSegment(s)
           \/ SetSingleRowMode(s)
  BY <1>2, <1>5 DEF SendFails, Send, LoopEnds, Skip, ExecSegment, SetSingleRowMode,
                    Becomes, libVars
<1> QED
  BY <1>4, <1>5 DEF Proceed

\* With open() called on closed sessions only, steps do nothing else to connections.
LEMMA StepConns ==
  ASSUME Disciplined, Inv, [Next]_vars
  PROVE  \/ Keep
         \/ \E s \in Sessions : GiveBack(s) \/ \E c \in Conns : Take(s, c)
<1>1. CASE UNCHANGED vars
  BY <1>1 DEF vars, objectVars, libVars, Keep
<1>2. ASSUME NEW s \in Sessions, Open(s) PROVE Keep \/ \E c \in Conns : Take(s, c)
  <2>1. conn[s] = NULL
    BY <1>2 DEF Open, Disciplined
  <2>2. CASE UNCHANGED <<conn, isOpen, libVars>>
    BY <2>2 DEF Keep, libVars
  <2>3. ASSUME NEW c \in Conns, NEW connected \in BOOLEAN, pg[c] = "free",
               conn' = [conn EXCEPT ![s] = c],
               pg' = [pg EXCEPT ![c] = IF connected THEN "ok" ELSE "bad"]
        PROVE  Take(s, c)
    BY <2>1, <2>3 DEF Take, Inv, TypeOK
  <2> QED
    BY <1>2, <2>2, <2>3 DEF Open
<1>3. ASSUME NEW s \in Sessions, Close(s) \/ Release(s) \/ DerivedIsOpen(s)
      PROVE  Keep \/ GiveBack(s)
  <2>1. CASE CloseConn(s)
    BY <2>1, CloseConns
  <2>2. CASE UNCHANGED <<conn, libVars>>
    BY <2>2 DEF Keep, libVars
  <2> QED
    BY <1>3, <2>1, <2>2 DEF Close, Release, DerivedIsOpen
<1>4. ASSUME NEW s \in Sessions,
             \/ \E command \in ExecCommands : Exec(s, command)
             \/ \E text \in Texts : Query(s, text)
      PROVE  Keep
  BY <1>4 DEF Exec, Query, objectVars, libVars, Keep
<1> QED
  BY <1>1, <1>2, <1>3, <1>4, ProceedKeeps DEF Next

\* No structure of libpq is lost: close() or release() of some session frees it,
\* also after a refused connection and after isOpen() closed a broken one.
THEOREM ConnectionsReachable ==
  ASSUME Disciplined
  PROVE  Spec => []NoOrphans
<1>1. Init => NoOrphans
  BY DEF Init, NoOrphans
<1>2. Inv /\ NoOrphans /\ [Next]_vars => NoOrphans'
  <2> SUFFICES ASSUME Inv, NoOrphans, [Next]_vars PROVE NoOrphans'
    OBVIOUS
  <2>1. CASE Keep
    BY <2>1 DEF Keep, NoOrphans
  <2>2. ASSUME NEW s \in Sessions, NEW c \in Conns, Take(s, c) PROVE NoOrphans'
    <3>1. conn'[s] = c /\ \A t \in Sessions \ {s} : conn'[t] = conn[t]
      BY <2>2 DEF Take, Inv, TypeOK
    <3>2. \A d \in Conns : conn[s] # d
      BY <2>2, PgSQLAssumption DEF Take
    <3> QED
      BY <2>2, <3>1, <3>2 DEF Take, NoOrphans
  <2>3. ASSUME NEW s \in Sessions, GiveBack(s) PROVE NoOrphans'
    <3>1. \A t \in Sessions \ {s} : conn'[t] = conn[t]
      BY <2>3 DEF GiveBack, Inv, TypeOK
    <3> QED
      BY <2>3, <3>1 DEF GiveBack, NoOrphans
  <2> QED
    BY <2>1, <2>2, <2>3, StepConns
<1> QED
  BY <1>1, <1>2, Invariance, PTL DEF Spec

\* The backend implements SessionContract: every step takes a free structure,
\* frees the session's own, or stutters.
THEOREM ImplementsContract ==
  ASSUME Disciplined
  PROVE  Spec => ContractSpec
<1> DEFINE kept == {c \in Conns : pg[c] # "free"}
<1>1. Init => Contract!Init
  BY DEF Init, Contract!Init
<1>2. Inv /\ [Next]_vars => [Contract!Next]_Contract!contractVars
  <2> SUFFICES ASSUME Inv, [Next]_vars
               PROVE  Contract!Next \/ UNCHANGED <<conn, kept>>
    BY DEF Contract!contractVars
  <2>1. CASE Keep
    BY <2>1 DEF Keep
  <2>2. ASSUME NEW s \in Sessions, NEW c \in Conns, Take(s, c) PROVE Contract!Open(s)
    <3>1. c \in Conns \ kept /\ kept' = kept \cup {c}
      BY <2>2 DEF Take
    <3> QED
      BY <2>2, <3>1 DEF Take, Contract!Open
  <2>3. ASSUME NEW s \in Sessions, GiveBack(s) PROVE Contract!Close(s)
    <3>1. kept' = kept \ {conn[s]}
      BY <2>3 DEF GiveBack
    <3> QED
      BY <2>3, <3>1 DEF GiveBack, Contract!Close
  <2> QED
    BY <2>1, <2>2, <2>3, StepConns DEF Contract!Next
<1> QED
  BY <1>1, <1>2, Invariance, PTL DEF Spec, ContractSpec, Contract!Spec
==============================================================================
