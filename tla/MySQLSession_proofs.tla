------------------------ MODULE MySQLSession_proofs ------------------------
(***************************************************************************)
(* Theorems about MySQLSession for any number of sessions, structures,     *)
(* server connections and texts.                                           *)
(***************************************************************************)
EXTENDS MySQLSession, TLAPS

Mems     == {"free", "own", "lent"}
Statuses == {"ready", "get", "use", "more"}
Ups      == {"closed", "up", "down"}
Outcomes == {"ok", "exception", "crash"}

\* query() holds a result.
Active(s) == frame[s].pc \in {"fetch", "callback", "free"}

------------------------------------------------------------------------------
(* The invariant.                                                          *)

\* A conn never points to a freed structure, and no two sessions share one.
ConnInv ==
  /\ \A s \in Sessions : conn[s] # NULL => mem[conn[s]] # "free"
  /\ \A s, t \in Sessions : conn[s] = conn[t] /\ conn[s] # NULL => s = t

\* No two structures share a server connection, and theirs are not closed.
SockInv ==
  /\ \A c, d \in Structs : vio[c] # NULL /\ vio[c] = vio[d] => c = d
  /\ \A c \in Structs : vio[c] # NULL => sock[vio[c]] # "closed"

\* The result of a call is one of its session's structure, unless a callback has
\* closed that: then it is gone, or the library never frees it and nobody has it.
ResInv(s) ==
  /\ Active(s) => frame[s].res \in Structs
  /\ frame[s].gone => Active(s) /\ conn[s] = NULL
  /\ Active(s) /\ conn[s] # NULL => frame[s].res = conn[s]
  /\ frame[s].pc \in {"fetch", "callback"} /\ conn[s] # NULL =>
       vio[conn[s]] # NULL /\ status[conn[s]] = "use"
  /\ Active(s) /\ conn[s] = NULL /\ ~frame[s].gone =>
       /\ mem[frame[s].res] = "lent" /\ status[frame[s].res] # "use"
       /\ \A t \in Sessions : conn[t] # frame[s].res

\* The counter of a call that is alone with it counts the results it has freed.
NumInv(s) ==
  /\ frame[s].pc = "loop" /\ frame[s].alone => stmtNum = frame[s].sent
  /\ Active(s) /\ frame[s].alone => stmtNum = frame[s].sent - 1
  /\ frame[s].pc = "callback" /\ frame[s].alone => frame[s].num = frame[s].sent - 1

Inv ==
  /\ TypeOK
  /\ ConnInv
  /\ SockInv
  /\ \A s \in Sessions : ResInv(s) /\ NumInv(s)
  /\ CrashHasCause

------------------------------------------------------------------------------
(* Frames.                                                                 *)

\* What a step of s leaves of the other calls: everything, but they are no longer
\* alone with the counter if it writes it.
Kept(s) ==
  \A t \in Sessions \ {s} :
    /\ frame'[t].pc = frame[t].pc
    /\ frame'[t].res = frame[t].res
    /\ frame'[t].gone = frame[t].gone
    /\ frame'[t].sent = frame[t].sent
    /\ frame'[t].num = frame[t].num
    /\ frame'[t].text = frame[t].text
    /\ frame[t].pc # "idle" /\ frame'[t].alone => frame[t].alone /\ stmtNum' = stmtNum

\* The frame of s becomes f.
LEMMA SetFrame ==
  ASSUME TypeOK, NEW s \in Sessions, NEW f \in Frames,
         frame' = [frame EXCEPT ![s] = f], stmtNum' = stmtNum
  PROVE  /\ frame' \in [Sessions -> Frames]
         /\ frame'[s] = f
         /\ Kept(s)
<1>1. frame' \in [Sessions -> Frames] /\ frame'[s] = f
  BY DEF TypeOK
<1>2. \A t \in Sessions \ {s} : frame'[t] = frame[t]
  BY DEF TypeOK
<1> QED
  BY <1>1, <1>2 DEF Kept

\* A frame that is no longer alone, or is, has every other field it had.
LEMMA AloneFrame ==
  ASSUME NEW f \in Frames, NEW b \in BOOLEAN
  PROVE  /\ [f EXCEPT !.alone = b] \in Frames
         /\ [f EXCEPT !.alone = b].alone = b
         /\ [f EXCEPT !.alone = b].pc = f.pc
         /\ [f EXCEPT !.alone = b].res = f.res
         /\ [f EXCEPT !.alone = b].gone = f.gone
         /\ [f EXCEPT !.alone = b].sent = f.sent
         /\ [f EXCEPT !.alone = b].num = f.num
         /\ [f EXCEPT !.alone = b].text = f.text
BY DEF Frames

\* The counter is written by s.
LEMMA SetCounter ==
  ASSUME TypeOK, NEW s \in Sessions, ~Crashed, NEW f \in Frames, NEW n \in Nat,
         SetStmtNum(s, n, f)
  PROVE  /\ frame' \in [Sessions -> Frames]
         /\ frame'[s] = f
         /\ stmtNum' = n
         /\ Kept(s)
<1>1. \A t \in Sessions : frame[t] \in Frames /\ Idle(t) \in BOOLEAN
  BY DEF TypeOK, Idle, At
<1>2. ASSUME NEW t \in Sessions
      PROVE  [frame[t] EXCEPT !.alone = Idle(t)] \in Frames
  BY <1>1, AloneFrame, Zenon
<1>3. frame' = [t \in Sessions |->
                  IF t = s THEN f ELSE [frame[t] EXCEPT !.alone = Idle(t)]]
  BY DEF SetStmtNum
<1>4. /\ frame' \in [Sessions -> Frames]
      /\ frame'[s] = f
      /\ \A t \in Sessions \ {s} : frame'[t] = [frame[t] EXCEPT !.alone = Idle(t)]
  BY <1>2, <1>3, Zenon
<1>5. ASSUME NEW t \in Sessions \ {s}
      PROVE  /\ frame'[t].pc = frame[t].pc
             /\ frame'[t].res = frame[t].res
             /\ frame'[t].gone = frame[t].gone
             /\ frame'[t].sent = frame[t].sent
             /\ frame'[t].num = frame[t].num
             /\ frame'[t].text = frame[t].text
             /\ frame'[t].alone = Idle(t)
  <2> DEFINE g == [frame[t] EXCEPT !.alone = Idle(t)]
  <2>1. frame[t] \in Frames /\ Idle(t) \in BOOLEAN
    BY <1>1
  <2>2. /\ g.alone = Idle(t) /\ g.pc = frame[t].pc /\ g.res = frame[t].res
        /\ g.gone = frame[t].gone /\ g.sent = frame[t].sent /\ g.num = frame[t].num
        /\ g.text = frame[t].text
    BY <2>1, AloneFrame, Zenon
  <2>3. frame'[t] = g
    BY <1>4
  <2> HIDE DEF g
  <2> QED
    BY <2>2, <2>3
<1>6. \A t \in Sessions : frame[t].pc # "idle" => ~Idle(t)
  BY DEF Idle, At
<1> QED
  BY <1>4, <1>5, <1>6, Zenon DEF Kept, SetStmtNum

\* A call that is not under way has a well-typed frame.
LEMMA EmptyFrameType ==
  /\ EmptyFrame \in Frames
  /\ EmptyFrame.pc = "idle" /\ EmptyFrame.gone = FALSE
BY DEF EmptyFrame, Frames

\* A call that moves, with other fields changed or not.
LEMMA MovedFrame ==
  ASSUME NEW f \in Frames, NEW l \in {"idle", "loop", "fetch", "callback", "free"}
  PROVE  /\ [f EXCEPT !.pc = l] \in Frames
         /\ [f EXCEPT !.pc = l].pc = l
         /\ [f EXCEPT !.pc = l].res = f.res
         /\ [f EXCEPT !.pc = l].gone = f.gone
         /\ [f EXCEPT !.pc = l].sent = f.sent
         /\ [f EXCEPT !.pc = l].num = f.num
         /\ [f EXCEPT !.pc = l].alone = f.alone
         /\ [f EXCEPT !.pc = l].text = f.text
BY DEF Frames

\* A call that has had its text run.
LEMMA SentFrame ==
  ASSUME NEW f \in Frames, NEW c \in Structs, f.pc = "loop"
  PROVE  LET g == [f EXCEPT !.pc = "fetch", !.sent = @ + 1, !.res = c]
         IN g \in Frames /\ g.pc = "fetch" /\ g.res = c /\ g.gone = f.gone
              /\ g.sent = f.sent + 1 /\ g.alone = f.alone /\ g.text = f.text
<1> DEFINE n == f.sent + 1
           g == [f EXCEPT !.pc = "fetch", !.sent = n, !.res = c]
<1>1. n \in Nat
  BY DEF Frames
<1> HIDE DEF n
<1>2. g \in Frames /\ g.pc = "fetch" /\ g.res = c /\ g.gone = f.gone
        /\ g.sent = n /\ g.alone = f.alone /\ g.text = f.text
  BY <1>1 DEF Frames
<1> QED
  BY <1>2 DEF n

\* A call that calls back with the number n.
LEMMA RowFrame ==
  ASSUME NEW f \in Frames, NEW n \in Nat
  PROVE  LET g == [f EXCEPT !.pc = "callback", !.num = n]
         IN g \in Frames /\ g.pc = "callback" /\ g.num = n /\ g.res = f.res
              /\ g.gone = f.gone /\ g.sent = f.sent /\ g.alone = f.alone
              /\ g.text = f.text
BY DEF Frames

\* A call that goes on to its next segment.
LEMMA NextFrame ==
  ASSUME NEW f \in Frames
  PROVE  /\ LET g == [f EXCEPT !.pc = "loop", !.seg = @ + 1]
            IN g \in Frames /\ g.pc = "loop" /\ g.gone = f.gone /\ g.sent = f.sent
                 /\ g.alone = f.alone
         /\ LET g == [f EXCEPT !.seg = @ + 1]
            IN g \in Frames /\ g.pc = f.pc /\ g.gone = f.gone /\ g.sent = f.sent
                 /\ g.alone = f.alone
<1> DEFINE n == f.seg + 1
<1>1. n \in Nat
  BY DEF Frames
<1> HIDE DEF n
<1>2. LET g == [f EXCEPT !.pc = "loop", !.seg = n]
      IN g \in Frames /\ g.pc = "loop" /\ g.gone = f.gone /\ g.sent = f.sent
           /\ g.alone = f.alone
  BY <1>1 DEF Frames
<1>3. LET g == [f EXCEPT !.seg = n]
      IN g \in Frames /\ g.pc = f.pc /\ g.gone = f.gone /\ g.sent = f.sent
           /\ g.alone = f.alone
  BY <1>1 DEF Frames
<1> QED
  BY <1>2, <1>3 DEF n

\* A call whose callback has closed its session.
LEMMA GoneFrame ==
  ASSUME NEW f \in Frames, NEW b \in BOOLEAN
  PROVE  LET g == [f EXCEPT !.gone = b]
         IN g \in Frames /\ g.pc = f.pc /\ g.res = f.res /\ g.gone = b
              /\ g.sent = f.sent /\ g.num = f.num /\ g.alone = f.alone
BY DEF Frames

\* A new call has a text and nothing else.
LEMMA StartFrame ==
  ASSUME NEW text \in Texts
  PROVE  LET g == [EmptyFrame EXCEPT !.pc = "loop", !.text = text]
         IN g \in Frames /\ g.pc = "loop" /\ g.sent = 0 /\ g.gone = FALSE
              /\ g.text = text
BY DEF EmptyFrame, Frames

------------------------------------------------------------------------------
(* Steps.                                                                  *)

\* A step of s touches one structure, its own or a free one that it allocates, and
\* no server connection that another structure has.
Confined(s) ==
  \/ /\ UNCHANGED <<conn, mem, vio, status>>
     /\ \A c \in Structs : vio[c] # NULL => sock'[vio[c]] # "closed"
  \/ \E c \in Structs :
       /\ c = conn[s] \/ (conn[s] = NULL /\ mem[c] = "free")
       /\ \A d \in Structs \ {c} :
            /\ mem'[d] = mem[d] /\ vio'[d] = vio[d] /\ status'[d] = status[d]
            /\ vio[d] # NULL => sock'[vio[d]] # "closed" /\ vio[d] # vio'[c]
       /\ vio'[c] # NULL => sock'[vio'[c]] # "closed"
       /\ \A t \in Sessions \ {s} : conn'[t] = conn[t]
       /\ conn'[s] \in {NULL, c}
       /\ conn'[s] # NULL => mem'[c] # "free"

\* A step of s that keeps the invariant, and all that is not its own.
Preserved(s) == Inv' /\ Confined(s) /\ Kept(s)

\* What a confined step leaves of the invariant.
LEMMA Elsewhere ==
  ASSUME Inv, NEW s \in Sessions, TypeOK', Confined(s), Kept(s)
  PROVE  /\ ConnInv' /\ SockInv'
         /\ \A t \in Sessions \ {s} : ResInv(t)' /\ NumInv(t)'
<1> USE MySQLAssumption
<1>1. ASSUME NEW t \in Sessions \ {s} PROVE NumInv(t)'
  BY <1>1 DEF Inv, NumInv, Kept, Active
<1>2. CASE /\ UNCHANGED <<conn, mem, vio, status>>
           /\ \A c \in Structs : vio[c] # NULL => sock'[vio[c]] # "closed"
  <2>1. ConnInv' /\ SockInv'
    BY <1>2 DEF Inv, ConnInv, SockInv
  <2>2. ASSUME NEW t \in Sessions \ {s} PROVE ResInv(t)'
    BY <1>2 DEF Inv, ResInv, Kept, Active
  <2> QED
    BY <1>1, <2>1, <2>2
<1>3. ASSUME NEW c \in Structs,
             c = conn[s] \/ (conn[s] = NULL /\ mem[c] = "free"),
             \A d \in Structs \ {c} :
               /\ mem'[d] = mem[d] /\ vio'[d] = vio[d] /\ status'[d] = status[d]
               /\ vio[d] # NULL => sock'[vio[d]] # "closed" /\ vio[d] # vio'[c],
             vio'[c] # NULL => sock'[vio'[c]] # "closed",
             \A t \in Sessions \ {s} : conn'[t] = conn[t],
             conn'[s] \in {NULL, c},
             conn'[s] # NULL => mem'[c] # "free"
      PROVE  /\ ConnInv' /\ SockInv'
             /\ \A t \in Sessions \ {s} : ResInv(t)'
  <2>1. \A t \in Sessions \ {s} :
          conn[t] # NULL => conn[t] \in Structs /\ conn[t] # c /\ mem[conn[t]] # "free"
    BY <1>3 DEF Inv, TypeOK, ConnInv
  <2>2. ConnInv'
    BY <1>3, <2>1 DEF Inv, TypeOK, ConnInv
  <2>3. SockInv'
    BY <1>3 DEF Inv, TypeOK, SockInv
  <2>4. ASSUME NEW t \in Sessions \ {s} PROVE ResInv(t)'
    <3>1. /\ conn'[t] = conn[t]
          /\ frame'[t].pc = frame[t].pc /\ frame'[t].res = frame[t].res
          /\ frame'[t].gone = frame[t].gone
      BY <1>3 DEF Kept
    <3>2. CASE conn[t] # NULL
      <4>1. conn[t] \in Structs \ {c}
        BY <2>1, <3>2
      <4> QED
        BY <1>3, <3>1, <3>2, <4>1 DEF Inv, ResInv, Active
    <3>3. CASE conn[t] = NULL /\ Active(t) /\ ~frame[t].gone
      <4>1. /\ frame[t].res \in Structs
            /\ mem[frame[t].res] = "lent" /\ status[frame[t].res] # "use"
            /\ \A u \in Sessions : conn[u] # frame[t].res
        BY <3>3 DEF Inv, ResInv
      <4>2. frame[t].res # c /\ frame[t].res # NULL
        BY <1>3, <4>1
      <4>3. \A u \in Sessions : conn'[u] # frame[t].res
        BY <1>3, <4>1, <4>2
      <4> QED
        BY <1>3, <3>1, <3>3, <4>1, <4>2, <4>3 DEF ResInv, Active
    <3>4. CASE conn[t] = NULL /\ ~(Active(t) /\ ~frame[t].gone)
      BY <3>1, <3>4 DEF Inv, ResInv, Active
    <3> QED
      BY <3>2, <3>3, <3>4
  <2> QED
    BY <2>2, <2>3, <2>4
<1> QED
  BY <1>1, <1>2, <1>3 DEF Confined

\* A step of s that does not crash keeps the invariant if it does so for s.
LEMMA StepInv ==
  ASSUME Inv, NEW s \in Sessions, ~Crashed, TypeOK', Confined(s), Kept(s),
         ResInv(s)', NumInv(s)',
         \/ outcome' = outcome
         \/ \E r \in {"ok", "exception"} : outcome' = [outcome EXCEPT ![s] = r]
  PROVE  Preserved(s)
<1>1. \A t \in Sessions : outcome'[t] # "crash"
  BY DEF Crashed, Inv, TypeOK
<1> QED
  BY <1>1, Elsewhere DEF Preserved, Inv, CrashHasCause

\* A crash changes nothing but the outcome of the session that caused it.
LEMMA CrashInv ==
  ASSUME Inv, NEW s \in Sessions, ~Crashed, Crash(s), ~HasStruct(s) \/ frame[s].gone
  PROVE  Inv'
<1>1. conn[s] = NULL
  BY DEF HasStruct, Inv, ConnInv, ResInv
<1>2. outcome' = [outcome EXCEPT ![s] = "crash"]
      /\ UNCHANGED <<conn, isOpen, frame, stmtNum, mem, vio, status, sock>>
  BY DEF Crash, queryVars, libVars
<1>3. TypeOK' /\ ConnInv' /\ SockInv'
  BY <1>2 DEF Inv, TypeOK, ConnInv, SockInv
<1>4. ASSUME NEW t \in Sessions PROVE ResInv(t)' /\ NumInv(t)'
  BY <1>2 DEF Inv, ResInv, NumInv, Active
<1>5. CrashHasCause'
  BY <1>1, <1>2 DEF Crashed, Inv, TypeOK, CrashHasCause
<1> QED
  BY <1>3, <1>4, <1>5 DEF Inv

------------------------------------------------------------------------------
(* The actions.                                                            *)

\* Init establishes the invariant.
LEMMA InitInv == Init => Inv
<1> SUFFICES ASSUME Init PROVE Inv
  OBVIOUS
<1> USE MySQLAssumption
<1>1. TypeOK
  BY EmptyFrameType DEF Init, TypeOK
<1>2. ConnInv /\ SockInv /\ CrashHasCause
  BY DEF Init, ConnInv, SockInv, CrashHasCause
<1>3. ASSUME NEW s \in Sessions PROVE ResInv(s) /\ NumInv(s)
  <2>1. frame[s].pc = "idle" /\ frame[s].gone = FALSE
    BY EmptyFrameType DEF Init
  <2> QED
    BY <2>1 DEF ResInv, NumInv, Active
<1> QED
  BY <1>1, <1>2, <1>3 DEF Inv

\* A command, or the end of its rows, touches the connection of its own session at
\* most: it hangs up, or the server does.
LEMMA WireStep ==
  ASSUME Inv, NEW s \in Sessions, NEW c \in Structs, c = conn[s],
         UNCHANGED <<conn, mem>>,
         \/ UNCHANGED <<vio, sock>>
         \/ HangUp(c)
         \/ vio[c] # NULL /\ UNCHANGED vio /\ sock' = [sock EXCEPT ![vio[c]] = "down"],
         status' \in [Structs -> Statuses],
         \A d \in Structs \ {c} : status'[d] = status[d]
  PROVE  /\ Confined(s)
         /\ vio' \in [Structs -> Socks \cup {NULL}]
         /\ sock' \in [Socks -> Ups]
<1> USE MySQLAssumption
<1>1. /\ vio \in [Structs -> Socks \cup {NULL}] /\ sock \in [Socks -> Ups]
      /\ mem[c] # "free" /\ c # NULL
      /\ \A d, e \in Structs : vio[d] # NULL /\ vio[d] = vio[e] => d = e
      /\ \A d \in Structs : vio[d] # NULL => sock[vio[d]] # "closed"
  BY DEF Inv, TypeOK, Ups, ConnInv, SockInv
<1>2. /\ vio' \in [Structs -> Socks \cup {NULL}] /\ sock' \in [Socks -> Ups]
      /\ \A d \in Structs \ {c} :
           /\ vio'[d] = vio[d]
           /\ vio[d] # NULL => sock'[vio[d]] # "closed" /\ vio[d] # vio'[c]
      /\ vio'[c] # NULL => sock'[vio'[c]] # "closed"
  <2>1. CASE UNCHANGED <<vio, sock>>
    BY <1>1, <2>1
  <2>2. CASE HangUp(c)
    BY <1>1, <2>2 DEF HangUp, Ups
  <2>3. CASE vio[c] # NULL /\ UNCHANGED vio /\ sock' = [sock EXCEPT ![vio[c]] = "down"]
    BY <1>1, <2>3 DEF Ups
  <2> QED
    BY <2>1, <2>2, <2>3
<1> QED
  BY <1>1, <1>2 DEF Confined

\* close() gives back the structure and the connection of its own session.
LEMMA CloseStep ==
  ASSUME Inv, NEW s \in Sessions, CloseConn(s), status' \in [Structs -> Statuses],
         \A d \in Structs : d # conn[s] => status'[d] = status[d],
         conn[s] = NULL => UNCHANGED status
  PROVE  /\ Confined(s)
         /\ conn' \in [Sessions -> Structs \cup {NULL}] /\ conn'[s] = NULL
         /\ isOpen' \in [Sessions -> BOOLEAN]
         /\ mem' \in [Structs -> Mems]
         /\ vio' \in [Structs -> Socks \cup {NULL}]
         /\ sock' \in [Socks -> Ups]
         /\ conn[s] # NULL => mem'[conn[s]] = IF mem[conn[s]] = "own" THEN "free"
                                                                     ELSE mem[conn[s]]
         /\ \A t \in Sessions \ {s} : conn'[t] = conn[t]
<1> USE MySQLAssumption
<1>1. /\ conn \in [Sessions -> Structs \cup {NULL}] /\ isOpen \in [Sessions -> BOOLEAN]
      /\ vio \in [Structs -> Socks \cup {NULL}] /\ sock \in [Socks -> Ups]
      /\ mem \in [Structs -> Mems]
      /\ \A d, e \in Structs : vio[d] # NULL /\ vio[d] = vio[e] => d = e
      /\ \A d \in Structs : vio[d] # NULL => sock[vio[d]] # "closed"
  BY DEF Inv, TypeOK, Ups, Mems, SockInv
<1>2. CASE conn[s] = NULL
  BY <1>1, <1>2 DEF CloseConn, Confined
<1>3. CASE conn[s] # NULL
  <2>1. PICK c \in Structs : c = conn[s]
    BY <1>1, <1>3
  <2>2. /\ vio' = [vio EXCEPT ![c] = NULL]
        /\ sock' = [k \in Socks |-> IF k = vio[c] THEN "closed" ELSE sock[k]]
        /\ mem' = [mem EXCEPT ![c] = IF mem[c] = "own" THEN "free" ELSE mem[c]]
        /\ conn' = [conn EXCEPT ![s] = NULL]
        /\ isOpen' = [isOpen EXCEPT ![s] = FALSE]
    BY <1>3, <2>1 DEF CloseConn, HangUp
  <2>3. /\ conn' \in [Sessions -> Structs \cup {NULL}] /\ conn'[s] = NULL
        /\ \A t \in Sessions \ {s} : conn'[t] = conn[t]
    BY <1>1, <2>2
  <2>4. isOpen' \in [Sessions -> BOOLEAN]
    BY <1>1, <2>2
  <2>5. /\ mem' \in [Structs -> Mems]
        /\ mem'[c] = IF mem[c] = "own" THEN "free" ELSE mem[c]
        /\ \A d \in Structs \ {c} : mem'[d] = mem[d]
    BY <1>1, <2>2 DEF Mems
  <2>6. /\ vio' \in [Structs -> Socks \cup {NULL}] /\ vio'[c] = NULL
        /\ sock' \in [Socks -> Ups]
        /\ \A d \in Structs \ {c} :
             vio'[d] = vio[d] /\ (vio[d] # NULL => sock'[vio[d]] # "closed")
    BY <1>1, <2>2 DEF Ups
  <2>7. Confined(s)
    BY <2>1, <2>3, <2>5, <2>6 DEF Confined
  <2> QED
    BY <2>1, <2>3, <2>4, <2>5, <2>6, <2>7
<1> QED
  BY <1>2, <1>3

\* A step of s while it is in no call keeps what is said of calls.
LEMMA IdleStep ==
  ASSUME Inv, NEW s \in Sessions, Idle(s), UNCHANGED queryVars
  PROVE  /\ ~Crashed /\ Kept(s) /\ ResInv(s)' /\ NumInv(s)'
         /\ frame' \in [Sessions -> Frames] /\ stmtNum' \in Nat
<1>1. ~Crashed /\ frame[s].pc = "idle" /\ UNCHANGED <<frame, stmtNum>>
  BY DEF Idle, At, queryVars
<1>2. ~frame[s].gone
  BY <1>1 DEF Inv, ResInv, Active
<1>3. Kept(s)
  BY <1>1 DEF Kept
<1> QED
  BY <1>1, <1>2, <1>3 DEF ResInv, NumInv, Active, Inv, TypeOK

\* What a call may report is an outcome.
LEMMA SetOutcome ==
  ASSUME TypeOK, NEW s \in Sessions,
         \/ outcome' = outcome
         \/ \E r \in {"ok", "exception"} : outcome' = [outcome EXCEPT ![s] = r]
  PROVE  outcome' \in [Sessions -> Outcomes]
BY DEF TypeOK, Outcomes

\* close(), release() and isOpen().
LEMMA CloseInv ==
  ASSUME Inv, NEW s \in Sessions, Close(s) \/ Release(s) \/ Ping(s)
  PROVE  Preserved(s)
<1>1. /\ Idle(s) /\ UNCHANGED queryVars /\ UNCHANGED status
      /\ outcome' = [outcome EXCEPT ![s] = "ok"]
      /\ CloseConn(s) \/ UNCHANGED <<conn, isOpen, mem, vio, sock>>
  BY DEF Close, Release, Ping
<1>2. outcome' \in [Sessions -> Outcomes]
  BY <1>1, SetOutcome DEF Inv
<1>3. CASE CloseConn(s)
  <2>1. status' \in [Structs -> Statuses]
    BY <1>1 DEF Inv, TypeOK, Statuses
  <2>2. TypeOK' /\ Confined(s)
    BY <1>1, <1>2, <1>3, <2>1, CloseStep, IdleStep
       DEF TypeOK, Mems, Ups, Outcomes, Statuses
  <2> QED
    BY <1>1, <2>2, IdleStep, StepInv
<1>4. CASE UNCHANGED <<conn, isOpen, mem, vio, sock>>
  <2>1. TypeOK' /\ Confined(s)
    BY <1>1, <1>2, <1>4, IdleStep DEF Inv, TypeOK, SockInv, Confined, Outcomes
  <2> QED
    BY <1>1, <2>1, IdleStep, StepInv
<1> QED
  BY <1>1, <1>3, <1>4

\* open() initializes the session's structure or a free one, and connects it to a
\* closed server connection or to none.
LEMMA OpenInv ==
  ASSUME Inv, NEW s \in Sessions, Open(s)
  PROVE  Preserved(s)
<1> USE MySQLAssumption
<1>1. /\ conn \in [Sessions -> Structs \cup {NULL}] /\ mem \in [Structs -> Mems]
      /\ vio \in [Structs -> Socks \cup {NULL}] /\ sock \in [Socks -> Ups]
      /\ status \in [Structs -> Statuses]
      /\ \A d, e \in Structs : vio[d] # NULL /\ vio[d] = vio[e] => d = e
      /\ \A d \in Structs : vio[d] # NULL => sock[vio[d]] # "closed"
  BY DEF Inv, TypeOK, Ups, Mems, Statuses, SockInv
<1>2. Idle(s) /\ UNCHANGED queryVars /\ UNCHANGED isOpen
  BY DEF Open
<1>3. PICK c \in Structs :
        /\ IF conn[s] = NULL THEN mem[c] = "free" ELSE c = conn[s]
        /\ conn' = [conn EXCEPT ![s] = c]
        /\ mem' = [mem EXCEPT ![c] = IF conn[s] = NULL THEN "own" ELSE "lent"]
        /\ status' = [status EXCEPT ![c] = "ready"]
        /\ \/ /\ outcome' = [outcome EXCEPT ![s] = "exception"]
              /\ vio' = [vio EXCEPT ![c] = NULL]
              /\ UNCHANGED sock
           \/ \E k \in Socks :
                /\ sock[k] = "closed"
                /\ outcome' = [outcome EXCEPT ![s] = "ok"]
                /\ vio' = [vio EXCEPT ![c] = k]
                /\ sock' = [sock EXCEPT ![k] = "up"]
  BY DEF Open
<1>4. /\ conn' \in [Sessions -> Structs \cup {NULL}] /\ conn'[s] = c
      /\ \A t \in Sessions \ {s} : conn'[t] = conn[t]
  BY <1>1, <1>3
<1>5. /\ mem' \in [Structs -> Mems] /\ mem'[c] # "free"
      /\ \A d \in Structs \ {c} : mem'[d] = mem[d]
  BY <1>1, <1>3 DEF Mems
<1>6. /\ status' \in [Structs -> Statuses]
      /\ \A d \in Structs \ {c} : status'[d] = status[d]
  BY <1>1, <1>3 DEF Statuses
<1>7. /\ vio' \in [Structs -> Socks \cup {NULL}] /\ sock' \in [Socks -> Ups]
      /\ \A d \in Structs \ {c} :
           /\ vio'[d] = vio[d]
           /\ vio[d] # NULL => sock'[vio[d]] # "closed" /\ vio[d] # vio'[c]
      /\ vio'[c] # NULL => sock'[vio'[c]] # "closed"
  <2>1. CASE vio' = [vio EXCEPT ![c] = NULL] /\ UNCHANGED sock
    BY <1>1, <2>1
  <2>2. ASSUME NEW k \in Socks, sock[k] = "closed", vio' = [vio EXCEPT ![c] = k],
               sock' = [sock EXCEPT ![k] = "up"]
        PROVE  /\ vio' \in [Structs -> Socks \cup {NULL}] /\ sock' \in [Socks -> Ups]
               /\ \A d \in Structs \ {c} :
                    /\ vio'[d] = vio[d]
                    /\ vio[d] # NULL => sock'[vio[d]] # "closed" /\ vio[d] # vio'[c]
               /\ vio'[c] # NULL => sock'[vio'[c]] # "closed"
    <3>1. /\ vio' \in [Structs -> Socks \cup {NULL}] /\ vio'[c] = k
          /\ \A d \in Structs \ {c} : vio'[d] = vio[d]
      BY <1>1, <2>2
    <3>2. /\ sock' \in [Socks -> Ups] /\ sock'[k] = "up"
          /\ \A j \in Socks \ {k} : sock'[j] = sock[j]
      BY <1>1, <2>2 DEF Ups
    <3>3. ASSUME NEW d \in Structs, vio[d] # NULL
          PROVE  vio[d] \in Socks \ {k}
      BY <1>1, <2>2, <3>3
    <3> QED
      BY <1>1, <3>1, <3>2, <3>3
  <2> QED
    BY <1>3, <2>1, <2>2
<1>8. Confined(s)
  BY <1>3, <1>4, <1>5, <1>6, <1>7 DEF Confined
<1>9. outcome' \in [Sessions -> Outcomes]
  BY <1>3, SetOutcome DEF Inv
<1>10. TypeOK'
  BY <1>2, <1>4, <1>5, <1>6, <1>7, <1>9, IdleStep
     DEF Inv, TypeOK, Mems, Ups, Statuses, Outcomes
<1>11. \E r \in {"ok", "exception"} : outcome' = [outcome EXCEPT ![s] = r]
  BY <1>3
<1> QED
  BY <1>2, <1>8, <1>10, <1>11, IdleStep, StepInv

\* setCurrentDB(), changeUser() and exec().
LEMMA CommandInv ==
  ASSUME Inv, NEW s \in Sessions, SetCurrentDB(s) \/ ChangeUser(s) \/ Exec(s)
  PROVE  Preserved(s)
<1>1. /\ Idle(s) /\ HasStruct(s) /\ UNCHANGED <<conn, isOpen, queryVars, mem>>
      /\ \E r \in {"ok", "exception"} : outcome' = [outcome EXCEPT ![s] = r]
  BY DEF SetCurrentDB, ChangeUser, Exec, Command
<1>2. PICK c \in Structs : c = conn[s]
  BY <1>1 DEF HasStruct, Inv, TypeOK
<1>3. \/ UNCHANGED <<vio, sock>>
      \/ HangUp(c)
      \/ vio[c] # NULL /\ UNCHANGED vio /\ sock' = [sock EXCEPT ![vio[c]] = "down"]
  BY <1>2 DEF SetCurrentDB, ChangeUser, Exec, Command, CommandFails, Arrives, Sent
<1>4. status' = status \/ status' = [status EXCEPT ![c] = "get"]
  BY <1>2 DEF SetCurrentDB, ChangeUser, Exec
<1>5. /\ status' \in [Structs -> Statuses]
      /\ \A d \in Structs \ {c} : status'[d] = status[d]
  BY <1>4 DEF Inv, TypeOK, Statuses
<1>6. outcome' \in [Sessions -> Outcomes]
  BY <1>1, SetOutcome DEF Inv
<1>7. /\ Confined(s)
      /\ vio' \in [Structs -> Socks \cup {NULL}] /\ sock' \in [Socks -> Ups]
  BY <1>1, <1>2, <1>3, <1>5, WireStep
<1>8. TypeOK'
  BY <1>1, <1>5, <1>6, <1>7, IdleStep DEF Inv, TypeOK, Ups, Statuses, Outcomes
<1> QED
  BY <1>1, <1>7, <1>8, IdleStep, StepInv

\* A server that drops a connection keeps the invariant.
LEMMA DropInv ==
  ASSUME Inv, NEW k \in Socks, ServerDrops(k)
  PROVE  Inv'
<1>1. /\ sock' = [sock EXCEPT ![k] = "down"]
      /\ UNCHANGED <<conn, isOpen, outcome, frame, stmtNum, mem, vio, status>>
  BY DEF ServerDrops, objectVars, queryVars
<1>2. TypeOK' /\ ConnInv' /\ SockInv' /\ CrashHasCause'
  BY <1>1 DEF Inv, TypeOK, ConnInv, SockInv, CrashHasCause
<1>3. ASSUME NEW s \in Sessions PROVE ResInv(s)' /\ NumInv(s)'
  BY <1>1 DEF Inv, ResInv, NumInv, Active
<1> QED
  BY <1>2, <1>3 DEF Inv

\* A step of the call of s that touches no structure and no connection.
LEMMA CallStep ==
  ASSUME Inv, NEW s \in Sessions, ~Crashed, UNCHANGED <<conn, isOpen, libVars>>,
         frame' \in [Sessions -> Frames], stmtNum' \in Nat, Kept(s),
         ResInv(s)', NumInv(s)',
         \/ outcome' = outcome
         \/ \E r \in {"ok", "exception"} : outcome' = [outcome EXCEPT ![s] = r]
  PROVE  Preserved(s)
<1>1. outcome' \in [Sessions -> Outcomes]
  BY SetOutcome DEF Inv
<1>2. UNCHANGED <<conn, isOpen, mem, vio, status, sock>>
  BY DEF libVars
<1>3. TypeOK' /\ Confined(s)
  BY <1>1, <1>2 DEF Inv, TypeOK, SockInv, Confined, Outcomes
<1> QED
  BY <1>3, StepInv

\* The end of a call leaves an empty frame.
LEMMA ReturnStep ==
  ASSUME Inv, NEW s \in Sessions,
         frame' = [frame EXCEPT ![s] = EmptyFrame], UNCHANGED stmtNum
  PROVE  /\ frame' \in [Sessions -> Frames] /\ stmtNum' \in Nat
         /\ Kept(s) /\ ResInv(s)' /\ NumInv(s)'
<1>1. /\ frame' \in [Sessions -> Frames] /\ frame'[s] = EmptyFrame /\ Kept(s)
      /\ stmtNum' \in Nat
  BY SetFrame, EmptyFrameType DEF Inv, TypeOK
<1> QED
  BY <1>1, EmptyFrameType DEF ResInv, NumInv, Active

\* A call that ends, or is no longer active, says nothing of a result.
LEMMA LoopFrame ==
  ASSUME NEW s \in Sessions, frame'[s].pc \in {"idle", "loop"}, ~frame'[s].gone,
         frame'[s].pc = "loop" /\ frame'[s].alone => stmtNum' = frame'[s].sent
  PROVE  ResInv(s)' /\ NumInv(s)'
BY DEF ResInv, NumInv, Active

\* query() starts, ends and goes from segment to segment.
LEMMA LoopInv ==
  ASSUME Inv, NEW s \in Sessions,
         (\E text \in Texts : Query(s, text)) \/ LoopEnds(s) \/ SkipEmpty(s)
  PROVE  Preserved(s)
<1>1. ~Crashed /\ frame[s] \in Frames /\ frame[s].pc \in {"idle", "loop"}
      /\ ~frame[s].gone /\ UNCHANGED <<conn, isOpen, libVars>>
  BY DEF Query, LoopEnds, SkipEmpty, InLoop, Idle, At, Inv, TypeOK, ResInv, Active,
         objectVars
<1>2. ASSUME NEW text \in Texts, Query(s, text) PROVE Preserved(s)
  <2> DEFINE f == [EmptyFrame EXCEPT !.pc = "loop", !.text = text]
  <2>1. f \in Frames /\ f.pc = "loop" /\ f.sent = 0 /\ f.gone = FALSE
    BY StartFrame
  <2>2. SetStmtNum(s, 0, f) /\ outcome' = outcome
    BY <1>2 DEF Query, objectVars
  <2> HIDE DEF f
  <2>3. /\ frame' \in [Sessions -> Frames] /\ frame'[s] = f /\ stmtNum' = 0 /\ Kept(s)
    BY <1>1, <2>1, <2>2, SetCounter DEF Inv
  <2> QED
    BY <1>1, <2>1, <2>2, <2>3, LoopFrame, CallStep
<1>3. CASE LoopEnds(s)
  <2>1. SetStmtNum(s, 0, EmptyFrame) /\ outcome' = [outcome EXCEPT ![s] = "ok"]
    BY <1>3 DEF LoopEnds
  <2>2. /\ frame' \in [Sessions -> Frames] /\ frame'[s] = EmptyFrame /\ stmtNum' = 0
        /\ Kept(s)
    BY <1>1, <2>1, EmptyFrameType, SetCounter DEF Inv
  <2>3. ResInv(s)' /\ NumInv(s)'
    BY <2>2, EmptyFrameType, LoopFrame
  <2> QED
    BY <1>1, <2>1, <2>2, <2>3, CallStep
<1>4. CASE SkipEmpty(s)
  <2> DEFINE f == [frame[s] EXCEPT !.seg = @ + 1]
  <2>1. f \in Frames /\ f.pc = frame[s].pc /\ f.gone = frame[s].gone
        /\ f.sent = frame[s].sent /\ f.alone = frame[s].alone
    BY <1>1, NextFrame
  <2>2. /\ frame' = [frame EXCEPT ![s] = f] /\ UNCHANGED <<outcome, stmtNum>>
        /\ frame[s].pc = "loop"
    BY <1>4 DEF SkipEmpty, InLoop, At, objectVars
  <2> HIDE DEF f
  <2>3. /\ frame' \in [Sessions -> Frames] /\ frame'[s] = f /\ stmtNum' \in Nat
        /\ Kept(s)
    BY <2>1, <2>2, SetFrame DEF Inv, TypeOK
  <2>4. frame[s].alone => stmtNum = frame[s].sent
    BY <2>2 DEF Inv, NumInv
  <2>5. ResInv(s)' /\ NumInv(s)'
    BY <1>1, <2>1, <2>2, <2>3, <2>4, LoopFrame
  <2> QED
    BY <1>1, <2>2, <2>3, <2>5, CallStep
<1> QED
  BY <1>2, <1>3, <1>4

\* The text is refused, or is sent and runs.
LEMMA SendInv ==
  ASSUME Inv, NEW s \in Sessions, SendRefused(s) \/ SendRuns(s)
  PROVE  Preserved(s)
<1>1. /\ ~Crashed /\ frame[s].pc = "loop" /\ HasStruct(s)
      /\ UNCHANGED <<conn, isOpen, stmtNum, mem>>
  BY DEF SendRefused, SendRuns, InLoop, At
<1>2. PICK c \in Structs : c = conn[s]
  BY <1>1 DEF HasStruct, Inv, TypeOK
<1>3. frame[s] \in Frames /\ conn[s] # NULL /\ ~frame[s].gone
  BY <1>1 DEF HasStruct, Inv, TypeOK, ResInv, Active
<1>4. \/ UNCHANGED <<vio, sock>>
      \/ HangUp(c)
      \/ vio[c] # NULL /\ UNCHANGED vio /\ sock' = [sock EXCEPT ![vio[c]] = "down"]
  BY <1>2 DEF SendRefused, SendRuns, CommandFails, Sent
<1>5. status' = status \/ status' = [status EXCEPT ![c] = "use"]
  BY <1>2 DEF SendRefused, SendRuns
<1>6. /\ status' \in [Structs -> Statuses]
      /\ \A d \in Structs \ {c} : status'[d] = status[d]
  BY <1>5 DEF Inv, TypeOK, Statuses
<1>7. /\ Confined(s)
      /\ vio' \in [Structs -> Socks \cup {NULL}] /\ sock' \in [Socks -> Ups]
  BY <1>1, <1>2, <1>4, <1>6, WireStep
<1>8. CASE Return(s, "exception")
  <2>1. /\ frame' \in [Sessions -> Frames] /\ stmtNum' \in Nat
        /\ Kept(s) /\ ResInv(s)' /\ NumInv(s)'
    BY <1>1, <1>8, ReturnStep DEF Return
  <2>2. \E r \in {"ok", "exception"} : outcome' = [outcome EXCEPT ![s] = r]
    BY <1>8 DEF Return
  <2>3. outcome' \in [Sessions -> Outcomes]
    BY <2>2, SetOutcome DEF Inv
  <2>4. TypeOK'
    BY <1>1, <1>6, <1>7, <2>1, <2>3 DEF Inv, TypeOK, Ups, Statuses, Outcomes
  <2> QED
    BY <1>1, <1>7, <2>1, <2>2, <2>4, StepInv
<1>9. CASE SendRuns(s) /\ ~Return(s, "exception")
  <2> DEFINE f == [frame[s] EXCEPT !.pc = "fetch", !.sent = @ + 1, !.res = c]
  <2>1. f \in Frames /\ f.pc = "fetch" /\ f.res = c /\ f.gone = frame[s].gone
        /\ f.sent = frame[s].sent + 1 /\ f.alone = frame[s].alone
    BY <1>1, <1>3, SentFrame
  <2>2. /\ frame' = [frame EXCEPT ![s] = f] /\ UNCHANGED outcome
        /\ status' = [status EXCEPT ![c] = "use"] /\ vio[c] # NULL /\ UNCHANGED vio
    BY <1>2, <1>9 DEF SendRuns, Arrives, Sent
  <2> HIDE DEF f
  <2>3. /\ frame' \in [Sessions -> Frames] /\ frame'[s] = f /\ Kept(s)
    BY <1>1, <2>1, <2>2, SetFrame DEF Inv
  <2>4. status'[c] = "use"
    BY <2>2 DEF Inv, TypeOK
  <2>5. ResInv(s)'
    BY <1>1, <1>2, <1>3, <2>1, <2>2, <2>3, <2>4 DEF ResInv, Active
  <2>6. (frame[s].alone => stmtNum = frame[s].sent) /\ frame[s].sent \in Nat
    BY <1>1, <1>3 DEF Inv, NumInv, Frames
  <2>7. f.alone => stmtNum' = f.sent - 1
    BY <1>1, <2>1, <2>6
  <2>8. NumInv(s)'
    BY <2>1, <2>3, <2>7 DEF NumInv, Active
  <2>9. TypeOK'
    BY <1>1, <1>6, <1>7, <2>2, <2>3 DEF Inv, TypeOK, Ups, Statuses
  <2> QED
    BY <1>1, <1>7, <2>2, <2>3, <2>5, <2>8, <2>9, StepInv
<1> QED
  BY <1>8, <1>9 DEF SendRefused

\* A call that stays active, with the same result, says of it what it said before,
\* unless it goes back to reading rows it has freed.
LEMMA ActiveFrame ==
  ASSUME Inv, NEW s \in Sessions, UNCHANGED <<conn, libVars>>, Active(s), Active(s)',
         frame'[s].res = frame[s].res, frame'[s].gone = frame[s].gone,
         frame'[s].pc = "free" \/ frame[s].pc # "free"
  PROVE  ResInv(s)'
<1>1. UNCHANGED <<conn, mem, vio, status, sock>>
  BY DEF libVars
<1> QED
  BY <1>1 DEF Inv, ResInv, Active

\* A row is fetched and handed to the callback, or is not converted.
LEMMA RowInv ==
  ASSUME Inv, NEW s \in Sessions, FetchRow(s) \/ ConvertThrows(s)
  PROVE  Preserved(s)
<1>1. /\ ~Crashed /\ frame[s].pc = "fetch" /\ UNCHANGED <<conn, isOpen, stmtNum, libVars>>
      /\ frame[s] \in Frames /\ stmtNum \in Nat
  BY DEF FetchRow, ConvertThrows, At, objectVars, Inv, TypeOK
<1>2. CASE FetchRow(s)
  <2> DEFINE f == [frame[s] EXCEPT !.pc = "callback", !.num = stmtNum]
  <2>1. f \in Frames /\ f.pc = "callback" /\ f.num = stmtNum /\ f.res = frame[s].res
        /\ f.gone = frame[s].gone /\ f.sent = frame[s].sent /\ f.alone = frame[s].alone
    BY <1>1, RowFrame
  <2>2. frame' = [frame EXCEPT ![s] = f] /\ UNCHANGED outcome
    BY <1>2 DEF FetchRow, objectVars
  <2> HIDE DEF f
  <2>3. /\ frame' \in [Sessions -> Frames] /\ frame'[s] = f /\ Kept(s)
    BY <1>1, <2>1, <2>2, SetFrame DEF Inv
  <2>4. ResInv(s)'
    BY <1>1, <2>1, <2>3, ActiveFrame DEF Active
  <2>5. frame[s].alone => stmtNum = frame[s].sent - 1
    BY <1>1 DEF Inv, NumInv, Active
  <2>6. NumInv(s)'
    BY <1>1, <2>1, <2>3, <2>5 DEF NumInv, Active
  <2> QED
    BY <1>1, <2>2, <2>3, <2>4, <2>6, CallStep
<1>3. CASE ConvertThrows(s)
  <2>1. /\ frame' = [frame EXCEPT ![s] = EmptyFrame]
        /\ \E r \in {"ok", "exception"} : outcome' = [outcome EXCEPT ![s] = r]
    BY <1>3 DEF ConvertThrows, Return
  <2> QED
    BY <1>1, <2>1, ReturnStep, CallStep
<1> QED
  BY <1>2, <1>3

\* The callback returns, throws or calls query().
LEMMA CallbackInv ==
  ASSUME Inv, NEW s \in Sessions,
         \/ \E go \in BOOLEAN : CallbackReturns(s, go)
         \/ CallbackThrows(s) \/ CallbackQueries(s)
  PROVE  Preserved(s)
<1>1. /\ ~Crashed /\ frame[s].pc = "callback" /\ UNCHANGED <<conn, isOpen, libVars>>
      /\ frame[s] \in Frames /\ stmtNum \in Nat
  BY DEF CallbackReturns, CallbackThrows, CallbackQueries, At, objectVars, Inv, TypeOK
<1>2. ASSUME NEW go \in BOOLEAN, CallbackReturns(s, go) PROVE Preserved(s)
  <2>1. PICK l \in {"idle", "loop", "fetch", "callback", "free"} :
          l \in {"fetch", "free"} /\ frame' = [frame EXCEPT ![s].pc = l]
    BY <1>2 DEF CallbackReturns, Move
  <2> DEFINE f == [frame[s] EXCEPT !.pc = l]
  <2>2. f \in Frames /\ f.pc = l /\ f.res = frame[s].res /\ f.gone = frame[s].gone
        /\ f.sent = frame[s].sent /\ f.alone = frame[s].alone
    BY <1>1, MovedFrame
  <2>3. frame' = [frame EXCEPT ![s] = f] /\ UNCHANGED <<outcome, stmtNum>>
    BY <1>2, <2>1 DEF CallbackReturns, objectVars
  <2> HIDE DEF f
  <2>4. /\ frame' \in [Sessions -> Frames] /\ frame'[s] = f /\ Kept(s)
    BY <1>1, <2>2, <2>3, SetFrame DEF Inv
  <2>5. ResInv(s)'
    BY <1>1, <2>1, <2>2, <2>4, ActiveFrame DEF Active
  <2>6. frame[s].alone => stmtNum = frame[s].sent - 1
    BY <1>1 DEF Inv, NumInv, Active
  <2>7. NumInv(s)'
    BY <1>1, <2>1, <2>2, <2>3, <2>4, <2>6 DEF NumInv, Active
  <2> QED
    BY <1>1, <2>3, <2>4, <2>5, <2>7, CallStep
<1>3. CASE CallbackThrows(s)
  <2>1. /\ frame' = [frame EXCEPT ![s] = EmptyFrame] /\ UNCHANGED stmtNum
        /\ \E r \in {"ok", "exception"} : outcome' = [outcome EXCEPT ![s] = r]
    BY <1>3 DEF CallbackThrows, Return
  <2> QED
    BY <1>1, <2>1, ReturnStep, CallStep
<1>4. CASE CallbackQueries(s)
  <2> DEFINE f == [frame[s] EXCEPT !.alone = FALSE]
  <2>1. f \in Frames /\ f.pc = "callback" /\ f.res = frame[s].res
        /\ f.gone = frame[s].gone /\ f.alone = FALSE
    BY <1>1, AloneFrame
  <2>2. SetStmtNum(s, 0, f) /\ UNCHANGED outcome
    BY <1>4 DEF CallbackQueries, objectVars
  <2> HIDE DEF f
  <2>3. /\ frame' \in [Sessions -> Frames] /\ frame'[s] = f /\ stmtNum' = 0 /\ Kept(s)
    BY <1>1, <2>1, <2>2, SetCounter DEF Inv
  <2>4. ResInv(s)'
    BY <1>1, <2>1, <2>3, ActiveFrame DEF Active
  <2>5. NumInv(s)'
    BY <2>1, <2>3 DEF NumInv, Active
  <2> QED
    BY <1>1, <2>2, <2>3, <2>4, <2>5, CallStep
<1> QED
  BY <1>2, <1>3, <1>4

\* The callback closes its session: the result goes with the structure, or stays with
\* one that nobody has any more.
LEMMA CallbackClosesInv ==
  ASSUME Inv, NEW s \in Sessions, CallbackCloses(s)
  PROVE  Preserved(s)
<1> USE MySQLAssumption
<1>1. /\ ~Crashed /\ frame[s].pc = "callback" /\ conn[s] # NULL /\ CloseConn(s)
      /\ frame[s] \in Frames /\ stmtNum \in Nat /\ UNCHANGED <<outcome, stmtNum>>
  BY DEF CallbackCloses, At, Inv, TypeOK
<1>2. PICK c \in Structs : c = conn[s]
  BY <1>1 DEF Inv, TypeOK
<1>3. /\ status' \in [Structs -> Statuses] /\ status'[c] = "ready"
      /\ \A d \in Structs \ {c} : status'[d] = status[d]
  BY <1>2 DEF CallbackCloses, Inv, TypeOK, Statuses
<1>4. /\ Confined(s)
      /\ conn' \in [Sessions -> Structs \cup {NULL}] /\ conn'[s] = NULL
      /\ isOpen' \in [Sessions -> BOOLEAN] /\ mem' \in [Structs -> Mems]
      /\ vio' \in [Structs -> Socks \cup {NULL}] /\ sock' \in [Socks -> Ups]
      /\ mem'[c] = IF mem[c] = "own" THEN "free" ELSE mem[c]
      /\ \A t \in Sessions \ {s} : conn'[t] = conn[t]
  BY <1>1, <1>2, <1>3, CloseStep
<1> DEFINE b == mem[c] = "own"
           f == [frame[s] EXCEPT !.gone = b]
<1>b. b \in BOOLEAN
  OBVIOUS
<1> HIDE DEF b
<1>5. f \in Frames /\ f.pc = "callback" /\ f.res = frame[s].res
      /\ f.gone = b /\ f.num = frame[s].num
      /\ f.sent = frame[s].sent /\ f.alone = frame[s].alone
  BY <1>1, <1>b, GoneFrame
<1>6. frame' = [frame EXCEPT ![s] = f]
  BY <1>2 DEF CallbackCloses, b
<1> HIDE DEF f
<1>7. /\ frame' \in [Sessions -> Frames] /\ frame'[s] = f /\ Kept(s)
  BY <1>1, <1>5, <1>6, SetFrame DEF Inv
<1>8. frame[s].res = c /\ mem[c] \in {"own", "lent"}
  BY <1>1, <1>2 DEF Inv, TypeOK, ResInv, Active, ConnInv
<1>9. \A t \in Sessions : conn'[t] # c
  BY <1>2, <1>4, <1>1 DEF Inv, ConnInv
<1>10. ResInv(s)'
  BY <1>1, <1>3, <1>4, <1>5, <1>7, <1>8, <1>9 DEF ResInv, Active, b
<1>11. NumInv(s)'
  BY <1>1, <1>5, <1>7 DEF Inv, NumInv, Active
<1>12. TypeOK'
  BY <1>1, <1>3, <1>4, <1>7 DEF Inv, TypeOK, Mems, Ups, Statuses
<1> QED
  BY <1>1, <1>4, <1>7, <1>10, <1>11, <1>12, StepInv

\* The rows left of a result are read on the connection of the session that has it.
LEMMA ReadStep ==
  ASSUME Inv, NEW s \in Sessions, Active(s), ~frame[s].gone, ReadToEnd(s),
         UNCHANGED <<conn, mem>>
  PROVE  /\ Confined(s)
         /\ status' \in [Structs -> Statuses]
         /\ vio' \in [Structs -> Socks \cup {NULL}] /\ sock' \in [Socks -> Ups]
         /\ conn[s] = NULL => UNCHANGED status
<1>1. CASE conn[s] = NULL
  <2>1. UNCHANGED <<vio, status, sock>>
    BY <1>1 DEF ReadToEnd, HasRows, Inv, ResInv
  <2> QED
    BY <1>1, <2>1 DEF Confined, Inv, TypeOK, SockInv, Statuses, Ups
<1>2. CASE conn[s] # NULL
  <2>1. PICK c \in Structs : c = conn[s] /\ c = frame[s].res
    BY <1>2 DEF Inv, TypeOK, ResInv
  <2>2. StatusAfter(s) \in Statuses
    BY DEF StatusAfter, Statuses
  <2>3. \/ UNCHANGED status
        \/ status' = [status EXCEPT ![c] = StatusAfter(s)]
        \/ status' = [status EXCEPT ![c] = "ready"]
    BY <2>1 DEF ReadToEnd
  <2>4. /\ status' \in [Structs -> Statuses]
        /\ \A d \in Structs \ {c} : status'[d] = status[d]
    BY <2>2, <2>3 DEF Inv, TypeOK, Statuses
  <2>5. UNCHANGED <<vio, sock>> \/ HangUp(c)
    BY <2>1 DEF ReadToEnd
  <2> QED
    BY <1>2, <2>1, <2>4, <2>5, WireStep
<1> QED
  BY <1>1, <1>2

\* The rows end, and the result is freed.
LEMMA RowsEndInv ==
  ASSUME Inv, NEW s \in Sessions, FetchEnd(s) \/ Free(s)
  PROVE  Preserved(s)
<1>1. /\ ~Crashed /\ Active(s) /\ ~frame[s].gone /\ ReadToEnd(s)
      /\ UNCHANGED <<conn, isOpen, outcome, mem>>
      /\ frame[s] \in Frames /\ stmtNum \in Nat
  BY DEF FetchEnd, Free, At, Active, objectVars, Inv, TypeOK
<1>2. /\ Confined(s)
      /\ status' \in [Structs -> Statuses]
      /\ vio' \in [Structs -> Socks \cup {NULL}] /\ sock' \in [Socks -> Ups]
      /\ conn[s] = NULL => UNCHANGED status
  BY <1>1, ReadStep
<1>3. frame[s].alone => stmtNum = frame[s].sent - 1
  BY <1>1 DEF Inv, NumInv
<1>4. CASE FetchEnd(s)
  <2> DEFINE f == [frame[s] EXCEPT !.pc = "free"]
  <2>1. f \in Frames /\ f.pc = "free" /\ f.res = frame[s].res /\ f.gone = frame[s].gone
        /\ f.sent = frame[s].sent /\ f.alone = frame[s].alone
    BY <1>1, MovedFrame
  <2>2. frame' = [frame EXCEPT ![s] = f] /\ UNCHANGED stmtNum
    BY <1>4 DEF FetchEnd, Move
  <2> HIDE DEF f
  <2>3. /\ frame' \in [Sessions -> Frames] /\ frame'[s] = f /\ Kept(s)
    BY <1>1, <2>1, <2>2, SetFrame DEF Inv
  <2>4. ResInv(s)'
    BY <1>1, <1>2, <2>1, <2>3 DEF Inv, ResInv, Active
  <2>5. NumInv(s)'
    BY <1>3, <2>1, <2>2, <2>3 DEF NumInv, Active
  <2>6. TypeOK'
    BY <1>1, <1>2, <2>2, <2>3 DEF Inv, TypeOK, Statuses, Ups
  <2> QED
    BY <1>1, <1>2, <2>3, <2>4, <2>5, <2>6, StepInv
<1>5. CASE Free(s)
  <2> DEFINE f == [frame[s] EXCEPT !.pc = "loop", !.seg = @ + 1]
  <2>1. f \in Frames /\ f.pc = "loop" /\ f.gone = frame[s].gone
        /\ f.sent = frame[s].sent /\ f.alone = frame[s].alone
    BY <1>1, NextFrame
  <2>2. SetStmtNum(s, stmtNum + 1, f) /\ stmtNum + 1 \in Nat
    BY <1>1, <1>5 DEF Free
  <2> HIDE DEF f
  <2>3. /\ frame' \in [Sessions -> Frames] /\ frame'[s] = f /\ Kept(s)
        /\ stmtNum' = stmtNum + 1
    BY <1>1, <2>1, <2>2, SetCounter DEF Inv
  <2>4. frame[s].sent \in Nat
    BY <1>1 DEF Frames
  <2>5. f.alone => stmtNum' = f.sent
    BY <1>1, <1>3, <2>1, <2>3, <2>4
  <2>6. ResInv(s)' /\ NumInv(s)'
    BY <1>1, <2>1, <2>3, <2>5, LoopFrame
  <2>7. TypeOK'
    BY <1>1, <1>2, <2>2, <2>3 DEF Inv, TypeOK, Statuses, Ups
  <2> QED
    BY <1>1, <1>2, <2>3, <2>6, <2>7, StepInv
<1> QED
  BY <1>4, <1>5

\* A null or freed pointer is used.
LEMMA CrashesInv ==
  ASSUME Inv, NEW s \in Sessions,
         UseUnopened(s) \/ SendCrashes(s) \/ ResultCrashes(s) \/ CallbackCrashes(s)
  PROVE  Inv'
<1>1. ~Crashed /\ Crash(s) /\ (~HasStruct(s) \/ frame[s].gone)
  BY DEF UseUnopened, SendCrashes, ResultCrashes, CallbackCrashes, InLoop, Idle, At
<1> QED
  BY <1>1, CrashInv

\* Every step keeps the invariant.
LEMMA NextInv ==
  ASSUME Inv, [Next]_vars
  PROVE  Inv'
<1>1. CASE UNCHANGED vars
  <2>1. UNCHANGED <<conn, isOpen, outcome, frame, stmtNum, mem, vio, status, sock>>
    BY <1>1 DEF vars, objectVars, queryVars, libVars
  <2>2. TypeOK' /\ ConnInv' /\ SockInv' /\ CrashHasCause'
    BY <2>1 DEF Inv, TypeOK, ConnInv, SockInv, CrashHasCause
  <2>3. ASSUME NEW s \in Sessions PROVE ResInv(s)' /\ NumInv(s)'
    BY <2>1 DEF Inv, ResInv, NumInv, Active
  <2> QED
    BY <2>2, <2>3 DEF Inv
<1>2. ASSUME NEW k \in Socks, ServerDrops(k) PROVE Inv'
  BY <1>2, DropInv
<1>3. ASSUME NEW s \in Sessions, Open(s) PROVE Inv'
  BY <1>3, OpenInv DEF Preserved
<1>4. ASSUME NEW s \in Sessions, Close(s) \/ Release(s) \/ Ping(s) PROVE Inv'
  BY <1>4, CloseInv DEF Preserved
<1>5. ASSUME NEW s \in Sessions, SetCurrentDB(s) \/ ChangeUser(s) \/ Exec(s) PROVE Inv'
  BY <1>5, CommandInv DEF Preserved
<1>6. ASSUME NEW s \in Sessions,
             (\E text \in Texts : Query(s, text)) \/ LoopEnds(s) \/ SkipEmpty(s)
      PROVE  Inv'
  BY <1>6, LoopInv DEF Preserved
<1>7. ASSUME NEW s \in Sessions, SendRefused(s) \/ SendRuns(s) PROVE Inv'
  BY <1>7, SendInv DEF Preserved
<1>8. ASSUME NEW s \in Sessions, FetchRow(s) \/ ConvertThrows(s) PROVE Inv'
  BY <1>8, RowInv DEF Preserved
<1>9. ASSUME NEW s \in Sessions, FetchEnd(s) \/ Free(s) PROVE Inv'
  BY <1>9, RowsEndInv DEF Preserved
<1>10. ASSUME NEW s \in Sessions,
              \/ \E go \in BOOLEAN : CallbackReturns(s, go)
              \/ CallbackThrows(s) \/ CallbackQueries(s)
       PROVE  Inv'
  BY <1>10, CallbackInv DEF Preserved
<1>11. ASSUME NEW s \in Sessions, CallbackCloses(s) PROVE Inv'
  BY <1>11, CallbackClosesInv DEF Preserved
<1>12. ASSUME NEW s \in Sessions,
              \/ UseUnopened(s) \/ SendCrashes(s) \/ ResultCrashes(s)
              \/ CallbackCrashes(s)
       PROVE  Inv'
  BY <1>12, CrashesInv
<1> QED
  BY <1>1, <1>2, <1>3, <1>4, <1>5, <1>6, <1>7, <1>8, <1>9, <1>10, <1>11, <1>12
     DEF Next, Proceed

------------------------------------------------------------------------------
(* The theorems, for applications of every habit.                          *)

\* The invariant holds in every reachable state.
LEMMA SpecInv == Spec => []Inv
<1>1. Inv /\ [Next]_vars => Inv'
  BY NextInv
<1> QED
  BY InitInv, <1>1, PTL DEF Spec

\* The invariant implies what is claimed of results.
LEMMA InvResults == Inv => RowsHaveResult /\ NotShared /\ NumberedWhenAlone
<1> SUFFICES ASSUME Inv PROVE RowsHaveResult /\ NotShared /\ NumberedWhenAlone
  OBVIOUS
<1>1. RowsHaveResult
  BY DEF Inv, TypeOK, ConnInv, SockInv, ResInv, Active, RowsHaveResult
<1>2. NotShared
  BY DEF Inv, ConnInv, SockInv, NotShared
<1>3. NumberedWhenAlone
  BY DEF Inv, NumInv, NumberedWhenAlone, At
<1> QED
  BY <1>1, <1>2, <1>3

\* The variables of sessions, calls, structures and connections keep their types.
THEOREM TypeCorrect == Spec => []TypeOK
<1>1. Inv => TypeOK
  BY DEF Inv
<1> QED
  BY <1>1, SpecInv, PTL

\* While query() is between two rows, its session's structure, connection and unread
\* result are the ones the rows come from, unless its callback closed the session.
THEOREM ResultsStay == Spec => []RowsHaveResult
BY SpecInv, InvResults, PTL

\* No two sessions share a structure and no two structures a server connection, after
\* any sequence of open() on a failed or connected session, close() and isOpen().
THEOREM ConnectionsNotShared == Spec => []NotShared
BY SpecInv, InvResults, PTL

\* The callback is given the position of the result in its text, unless another query
\* wrote the static counter since the call began.
THEOREM NumberedUnlessShared == Spec => []NumberedWhenAlone
BY SpecInv, InvResults, PTL

\* The process ends by a null or freed pointer only where the application used a
\* session that is not open.
THEOREM CrashCause == Spec => []CrashHasCause
<1>1. Inv => CrashHasCause
  BY DEF Inv
<1> QED
  BY <1>1, SpecInv, PTL

------------------------------------------------------------------------------
(* Disciplined applications: they close a session before they open it      *)
(* again, use it only while it is open, convert every column, let no       *)
(* exception out of a callback, neither query nor close inside one, give   *)
(* exec() no rows and have no stored procedures.                           *)

Disciplined ==
  /\ Habits \subseteq {"ping"}
  /\ \A text \in Texts : text # <<>> => text[1] # "call"

\* The connection of s is where its call has left it.
Synced(s) ==
  /\ frame[s].pc # "idle" => conn[s] # NULL
  /\ frame[s].pc \in {"idle", "loop"} /\ conn[s] # NULL => status[conn[s]] = "ready"
  /\ frame[s].pc = "free" => status[conn[s]] \in {"ready", "use"}
  /\ Active(s) => frame[s].text[1] # "call"

DiscInv ==
  /\ \A c \in Structs : mem[c] # "lent"
  /\ StructsReachable
  /\ \A s \in Sessions : Synced(s)

\* The mapping to SessionContract, and its steps.
Link == [s \in Sessions |-> IF conn[s] = NULL THEN NULL ELSE vio[conn[s]]]
Held == {k \in Socks : sock[k] # "closed"}

LinkStep ==
  \/ UNCHANGED <<Link, Held>>
  \/ \E s \in Sessions :
       /\ Link[s] = NULL
       /\ \E k \in Socks \ Held : /\ Link' = [Link EXCEPT ![s] = k]
                                  /\ Held' = Held \cup {k}
  \/ \E s \in Sessions :
       /\ Link[s] # NULL
       /\ Held' = Held \ {Link[s]}
       /\ Link' = [Link EXCEPT ![s] = NULL]

\* A step of s is in sync if it leaves the session of s so, and loses no structure.
LEMMA DiscStep ==
  ASSUME Inv, DiscInv, NEW s \in Sessions, Preserved(s), Synced(s)',
         \A c \in Structs : mem'[c] # "lent", StructsReachable'
  PROVE  DiscInv'
<1>1. ASSUME NEW t \in Sessions \ {s}
      PROVE  /\ conn'[t] = conn[t]
             /\ conn[t] # NULL => status'[conn[t]] = status[conn[t]]
  BY DEF Preserved, Confined, Inv, TypeOK, ConnInv
<1>2. ASSUME NEW t \in Sessions \ {s} PROVE Synced(t)'
  <2>1. frame'[t].pc = frame[t].pc /\ frame'[t].text = frame[t].text
    BY DEF Preserved, Kept
  <2>2. Active(t)' = Active(t)
    BY <2>1 DEF Active
  <2>3. Synced(t)
    BY DEF DiscInv
  <2> QED
    BY <1>1, <2>1, <2>2, <2>3 DEF Synced
<1> QED
  BY <1>2 DEF DiscInv

\* A step of a call of s, on the structure of s.
LEMMA DiscCall ==
  ASSUME Inv, DiscInv, NEW s \in Sessions, Preserved(s), UNCHANGED <<conn, mem>>,
         Synced(s)'
  PROVE  DiscInv'
<1>1. StructsReachable' /\ \A c \in Structs : mem'[c] # "lent"
  BY DEF DiscInv, StructsReachable
<1> QED
  BY <1>1, DiscStep

\* Hanging up gives back the server connection of the session that does.
LEMMA HangUpLinks ==
  ASSUME Inv, NEW s \in Sessions, NEW c \in Structs, c = conn[s], HangUp(c),
         conn' = conn \/ conn' = [conn EXCEPT ![s] = NULL]
  PROVE  LinkStep
<1> USE MySQLAssumption
<1>1. /\ conn \in [Sessions -> Structs \cup {NULL}] /\ c # NULL
      /\ vio \in [Structs -> Socks \cup {NULL}] /\ sock \in [Socks -> Ups]
      /\ \A t \in Sessions \ {s} : conn[t] # c
  BY DEF Inv, TypeOK, ConnInv, Ups
<1>2. /\ vio' \in [Structs -> Socks \cup {NULL}] /\ vio'[c] = NULL
      /\ \A d \in Structs \ {c} : vio'[d] = vio[d]
  BY <1>1 DEF HangUp
<1>3. Link[s] = vio[c]
  BY <1>1 DEF Link
<1>4. Link' = [Link EXCEPT ![s] = NULL]
  <2>1. /\ conn'[s] \in {NULL, c}
        /\ \A t \in Sessions \ {s} : conn'[t] = conn[t]
    BY <1>1
  <2>2. (IF conn'[s] = NULL THEN NULL ELSE vio'[conn'[s]]) = NULL
    BY <1>2, <2>1
  <2>3. ASSUME NEW t \in Sessions \ {s}
        PROVE  (IF conn'[t] = NULL THEN NULL ELSE vio'[conn'[t]])
                 = (IF conn[t] = NULL THEN NULL ELSE vio[conn[t]])
    BY <1>1, <1>2, <2>1
  <2> QED
    BY <2>2, <2>3 DEF Link
<1>5. CASE vio[c] = NULL
  <2>1. Held' = Held
    BY <1>1, <1>5 DEF HangUp, Held
  <2>2. Link' = Link
    BY <1>3, <1>4, <1>5 DEF Link
  <2> QED
    BY <2>1, <2>2 DEF LinkStep
<1>6. CASE vio[c] # NULL
  <2>1. Held' = Held \ {Link[s]}
    BY <1>1, <1>3, <1>6 DEF HangUp, Held
  <2> QED
    BY <1>3, <1>4, <1>6, <2>1 DEF LinkStep
<1> QED
  BY <1>5, <1>6

\* A command, or the end of its rows.
LEMMA WireLinks ==
  ASSUME Inv, NEW s \in Sessions, NEW c \in Structs, c = conn[s], UNCHANGED conn,
         \/ UNCHANGED <<vio, sock>>
         \/ HangUp(c)
         \/ /\ vio[c] # NULL /\ sock[vio[c]] = "up"
            /\ UNCHANGED vio /\ sock' = [sock EXCEPT ![vio[c]] = "down"]
  PROVE  LinkStep
<1>1. CASE UNCHANGED <<vio, sock>>
  BY <1>1 DEF LinkStep, Link, Held
<1>2. CASE HangUp(c)
  BY <1>2, HangUpLinks
<1>3. CASE /\ vio[c] # NULL /\ sock[vio[c]] = "up"
           /\ UNCHANGED vio /\ sock' = [sock EXCEPT ![vio[c]] = "down"]
  <2>1. Held' = Held
    BY <1>3 DEF Held, Inv, TypeOK
  <2>2. Link' = Link
    BY <1>3 DEF Link
  <2> QED
    BY <2>1, <2>2 DEF LinkStep
<1> QED
  BY <1>1, <1>2, <1>3

\* open() of a session that has no structure takes a free one.
LEMMA DiscOpen ==
  ASSUME Inv, DiscInv, Disciplined, NEW s \in Sessions, Open(s)
  PROVE  DiscInv' /\ LinkStep
<1> USE MySQLAssumption
<1>1. /\ conn \in [Sessions -> Structs \cup {NULL}] /\ mem \in [Structs -> Mems]
      /\ vio \in [Structs -> Socks \cup {NULL}] /\ sock \in [Socks -> Ups]
      /\ status \in [Structs -> Statuses]
  BY DEF Inv, TypeOK, Ups, Mems, Statuses
<1>2. conn[s] = NULL /\ frame' = frame /\ frame[s].pc = "idle"
  BY DEF Open, Disciplined, queryVars, Idle, At
<1>3. PICK c \in Structs :
        /\ mem[c] = "free"
        /\ conn' = [conn EXCEPT ![s] = c]
        /\ mem' = [mem EXCEPT ![c] = "own"]
        /\ status' = [status EXCEPT ![c] = "ready"]
        /\ \/ vio' = [vio EXCEPT ![c] = NULL] /\ UNCHANGED sock
           \/ \E k \in Socks :
                /\ sock[k] = "closed"
                /\ vio' = [vio EXCEPT ![c] = k]
                /\ sock' = [sock EXCEPT ![k] = "up"]
  BY <1>2 DEF Open
<1>4. /\ conn'[s] = c /\ \A t \in Sessions \ {s} : conn'[t] = conn[t]
      /\ mem'[c] = "own" /\ \A d \in Structs \ {c} : mem'[d] = mem[d]
      /\ status'[c] = "ready"
  BY <1>1, <1>3
<1>5. Synced(s)'
  BY <1>2, <1>4 DEF Synced, Active
<1>6. StructsReachable' /\ \A d \in Structs : mem'[d] # "lent"
  BY <1>2, <1>4 DEF DiscInv, StructsReachable
<1>7. DiscInv'
  BY <1>5, <1>6, OpenInv, DiscStep
<1>8. Link[s] = NULL
  BY <1>2 DEF Link
<1>9. \A t \in Sessions \ {s} : conn[t] # NULL => conn[t] \in Structs \ {c}
  BY <1>1, <1>3 DEF Inv, ConnInv
<1>10. CASE vio' = [vio EXCEPT ![c] = NULL] /\ UNCHANGED sock
  <2>1. vio'[c] = NULL /\ \A d \in Structs \ {c} : vio'[d] = vio[d]
    BY <1>1, <1>10
  <2>2. Link' = Link
    BY <1>2, <1>4, <1>9, <2>1 DEF Link
  <2>3. Held' = Held
    BY <1>10 DEF Held
  <2> QED
    BY <1>7, <2>2, <2>3 DEF LinkStep
<1>11. ASSUME NEW k \in Socks, sock[k] = "closed", vio' = [vio EXCEPT ![c] = k],
              sock' = [sock EXCEPT ![k] = "up"]
       PROVE  LinkStep
  <2>1. vio'[c] = k /\ \A d \in Structs \ {c} : vio'[d] = vio[d]
    BY <1>1, <1>11
  <2>2. (IF conn'[s] = NULL THEN NULL ELSE vio'[conn'[s]]) = k
    BY <1>4, <2>1
  <2>3. ASSUME NEW t \in Sessions \ {s}
        PROVE  (IF conn'[t] = NULL THEN NULL ELSE vio'[conn'[t]])
                 = (IF conn[t] = NULL THEN NULL ELSE vio[conn[t]])
    BY <1>4, <1>9, <2>1
  <2>4. Link' = [Link EXCEPT ![s] = k]
    BY <2>2, <2>3 DEF Link
  <2>5. k \in Socks \ Held /\ Held' = Held \cup {k}
    BY <1>1, <1>11 DEF Held
  <2> QED
    BY <1>8, <2>4, <2>5 DEF LinkStep
<1> QED
  BY <1>3, <1>7, <1>10, <1>11

\* close(), release() and isOpen() give back a structure and its connection.
LEMMA DiscClose ==
  ASSUME Inv, DiscInv, NEW s \in Sessions, Close(s) \/ Release(s) \/ Ping(s)
  PROVE  DiscInv' /\ LinkStep
<1> USE MySQLAssumption
<1>1. /\ frame' = frame /\ frame[s].pc = "idle" /\ status' = status
      /\ CloseConn(s) \/ UNCHANGED <<conn, mem, vio, sock>>
      /\ Synced(s) /\ Preserved(s)
  BY CloseInv DEF Close, Release, Ping, Idle, At, queryVars, DiscInv
<1>2. CASE UNCHANGED <<conn, mem, vio, sock>>
  <2>1. Synced(s)'
    BY <1>1, <1>2 DEF Synced, Active
  <2>2. LinkStep
    BY <1>2 DEF LinkStep, Link, Held
  <2> QED
    BY <1>1, <1>2, <2>1, <2>2, DiscCall
<1>3. CASE CloseConn(s) /\ conn[s] = NULL
  BY <1>2, <1>3 DEF CloseConn
<1>4. CASE CloseConn(s) /\ conn[s] # NULL
  <2>1. PICK c \in Structs : c = conn[s]
    BY <1>4 DEF Inv, TypeOK
  <2>2. /\ HangUp(c) /\ conn' = [conn EXCEPT ![s] = NULL]
        /\ mem' = [mem EXCEPT ![c] = IF mem[c] = "own" THEN "free" ELSE mem[c]]
    BY <1>4, <2>1 DEF CloseConn
  <2>3. /\ conn'[s] = NULL /\ \A t \in Sessions \ {s} : conn'[t] = conn[t]
    BY <2>2 DEF Inv, TypeOK
  <2>4. mem[c] = "own"
    BY <1>4, <2>1 DEF Inv, TypeOK, ConnInv, DiscInv
  <2>5. mem'[c] = "free" /\ \A d \in Structs \ {c} : mem'[d] = mem[d]
    BY <2>2, <2>4 DEF Inv, TypeOK
  <2>6. StructsReachable' /\ \A d \in Structs : mem'[d] # "lent"
    BY <2>1, <2>3, <2>5 DEF DiscInv, StructsReachable
  <2>7. Synced(s)'
    BY <1>1, <2>3 DEF Synced, Active
  <2>8. DiscInv'
    BY <1>1, <2>6, <2>7, DiscStep
  <2>9. LinkStep
    BY <2>1, <2>2, HangUpLinks
  <2> QED
    BY <2>8, <2>9
<1> QED
  BY <1>1, <1>2, <1>3, <1>4

\* A command without rows leaves the session ready for another.
LEMMA DiscCommand ==
  ASSUME Inv, DiscInv, Disciplined, NEW s \in Sessions,
         SetCurrentDB(s) \/ ChangeUser(s) \/ Exec(s)
  PROVE  DiscInv' /\ LinkStep
<1>1. /\ HasStruct(s) /\ UNCHANGED <<conn, mem, status>>
      /\ frame' = frame /\ frame[s].pc = "idle" /\ Synced(s) /\ Preserved(s)
  BY CommandInv DEF SetCurrentDB, ChangeUser, Exec, Command, Disciplined, Idle, At,
                    queryVars, DiscInv
<1>2. PICK c \in Structs : c = conn[s]
  BY <1>1 DEF HasStruct, Inv, TypeOK
<1>3. \/ UNCHANGED <<vio, sock>>
      \/ HangUp(c)
      \/ /\ vio[c] # NULL /\ sock[vio[c]] = "up"
         /\ UNCHANGED vio /\ sock' = [sock EXCEPT ![vio[c]] = "down"]
  BY <1>2 DEF SetCurrentDB, ChangeUser, Exec, Command, CommandFails, Arrives, Sent
<1>4. Synced(s)'
  BY <1>1 DEF Synced, Active
<1>5. DiscInv'
  BY <1>1, <1>4, DiscCall
<1>6. LinkStep
  BY <1>1, <1>2, <1>3, WireLinks
<1> QED
  BY <1>5, <1>6

\* The frame of s is the one its step gives it.
LEMMA OwnFrame ==
  ASSUME Inv, NEW s \in Sessions, NEW f \in Frames,
         \/ frame' = [frame EXCEPT ![s] = f]
         \/ \E n \in Nat : SetStmtNum(s, n, f)
  PROVE  frame'[s] = f
BY DEF Inv, TypeOK, SetStmtNum

\* The steps of query() that touch no connection.
LEMMA DiscLoop ==
  ASSUME Inv, DiscInv, Disciplined, NEW s \in Sessions,
         \/ \E text \in Texts : Query(s, text)
         \/ LoopEnds(s) \/ SkipEmpty(s) \/ FetchRow(s)
         \/ \E go \in BOOLEAN : CallbackReturns(s, go)
  PROVE  DiscInv' /\ LinkStep
<1>1. /\ UNCHANGED <<conn, mem, vio, status, sock>> /\ frame[s] \in Frames
      /\ stmtNum \in Nat /\ Synced(s) /\ Preserved(s)
  BY LoopInv, RowInv, CallbackInv
     DEF Query, LoopEnds, SkipEmpty, FetchRow, CallbackReturns, libVars, objectVars,
         Inv, TypeOK, DiscInv
<1>2. ASSUME NEW text \in Texts, Query(s, text) PROVE Synced(s)'
  <2> DEFINE f == [EmptyFrame EXCEPT !.pc = "loop", !.text = text]
  <2>1. f \in Frames /\ f.pc = "loop"
    BY StartFrame
  <2>2. SetStmtNum(s, 0, f) /\ frame[s].pc = "idle" /\ conn[s] # NULL
    BY <1>2 DEF Query, Disciplined, Idle, At
  <2> HIDE DEF f
  <2>3. frame'[s] = f
    BY <2>1, <2>2, OwnFrame
  <2> QED
    BY <1>1, <2>1, <2>2, <2>3 DEF Synced, Active
<1>3. ASSUME LoopEnds(s) PROVE Synced(s)'
  <2>1. SetStmtNum(s, 0, EmptyFrame) /\ frame[s].pc = "loop"
    BY <1>3 DEF LoopEnds, At
  <2>2. frame'[s] = EmptyFrame
    BY <2>1, EmptyFrameType, OwnFrame
  <2> QED
    BY <1>1, <2>1, <2>2, EmptyFrameType DEF Synced, Active
<1>4. ASSUME SkipEmpty(s) PROVE Synced(s)'
  <2> DEFINE f == [frame[s] EXCEPT !.seg = @ + 1]
  <2>1. f \in Frames /\ f.pc = frame[s].pc
    BY <1>1, NextFrame
  <2>2. frame' = [frame EXCEPT ![s] = f] /\ frame[s].pc = "loop"
    BY <1>4 DEF SkipEmpty, InLoop, At
  <2> HIDE DEF f
  <2>3. frame'[s] = f
    BY <2>1, <2>2, OwnFrame
  <2> QED
    BY <1>1, <2>1, <2>2, <2>3 DEF Synced, Active
<1>5. ASSUME FetchRow(s) PROVE Synced(s)'
  <2> DEFINE f == [frame[s] EXCEPT !.pc = "callback", !.num = stmtNum]
  <2>1. f \in Frames /\ f.pc = "callback" /\ f.text = frame[s].text
    BY <1>1, RowFrame
  <2>2. frame' = [frame EXCEPT ![s] = f] /\ frame[s].pc = "fetch"
    BY <1>5 DEF FetchRow, At
  <2> HIDE DEF f
  <2>3. frame'[s] = f
    BY <2>1, <2>2, OwnFrame
  <2> QED
    BY <1>1, <2>1, <2>2, <2>3 DEF Synced, Active
<1>6. ASSUME NEW go \in BOOLEAN, CallbackReturns(s, go) PROVE Synced(s)'
  <2>1. PICK l \in {"idle", "loop", "fetch", "callback", "free"} :
          l \in {"fetch", "free"} /\ frame' = [frame EXCEPT ![s].pc = l]
    BY <1>6 DEF CallbackReturns, Move
  <2> DEFINE f == [frame[s] EXCEPT !.pc = l]
  <2>2. f \in Frames /\ f.pc = l /\ f.text = frame[s].text
    BY <1>1, MovedFrame
  <2>3. frame' = [frame EXCEPT ![s] = f] /\ frame[s].pc = "callback"
    BY <1>6, <2>1 DEF CallbackReturns, At
  <2> HIDE DEF f
  <2>4. frame'[s] = f
    BY <2>2, <2>3, OwnFrame
  <2>5. status[conn[s]] = "use"
    BY <1>1, <2>3 DEF Synced, Inv, ResInv
  <2> QED
    BY <1>1, <2>1, <2>2, <2>3, <2>4, <2>5 DEF Synced, Active
<1>7. Synced(s)'
  BY <1>2, <1>3, <1>4, <1>5, <1>6
<1>8. DiscInv'
  BY <1>1, <1>7, DiscCall
<1>9. LinkStep
  BY <1>1 DEF LinkStep, Link, Held
<1> QED
  BY <1>8, <1>9

\* A text is refused, or is sent and leaves its rows to be read.
LEMMA DiscSend ==
  ASSUME Inv, DiscInv, Disciplined, NEW s \in Sessions, SendRefused(s) \/ SendRuns(s)
  PROVE  DiscInv' /\ LinkStep
<1>1. /\ frame[s].pc = "loop" /\ HasStruct(s) /\ UNCHANGED <<conn, mem>>
      /\ Preserved(s) /\ Synced(s) /\ frame[s] \in Frames
  BY SendInv DEF SendRefused, SendRuns, InLoop, At, DiscInv, Inv, TypeOK
<1>2. PICK c \in Structs : c = conn[s] /\ conn[s] # NULL
  BY <1>1 DEF HasStruct, Inv, TypeOK
<1>3. UNCHANGED <<vio, sock>> \/ HangUp(c)
  BY <1>2 DEF SendRefused, SendRuns, CommandFails
<1>4. LinkStep
  BY <1>1, <1>2, <1>3, WireLinks
<1>5. ASSUME frame' = [frame EXCEPT ![s] = EmptyFrame], UNCHANGED status
      PROVE  Synced(s)'
  <2>1. frame'[s] = EmptyFrame
    BY <1>5, EmptyFrameType, OwnFrame
  <2> QED
    BY <1>1, <1>5, <2>1, EmptyFrameType DEF Synced, Active
<1>6. ASSUME SendRuns(s), frame[s].text[1] # "other" PROVE Synced(s)'
  <2> DEFINE f == [frame[s] EXCEPT !.pc = "fetch", !.sent = @ + 1, !.res = c]
  <2>1. f \in Frames /\ f.pc = "fetch" /\ f.text = frame[s].text
    BY <1>1, SentFrame
  <2>2. frame' = [frame EXCEPT ![s] = f]
    BY <1>2, <1>6 DEF SendRuns
  <2> HIDE DEF f
  <2>3. frame'[s] = f
    BY <2>1, <2>2, OwnFrame
  <2>4. frame[s].text \in Texts /\ frame[s].text # <<>>
    BY <1>1, <1>6 DEF SendRuns, Accepted, Frames
  <2>5. frame[s].text[1] # "call"
    BY <2>4 DEF Disciplined
  <2> QED
    BY <1>1, <1>2, <2>1, <2>3, <2>5 DEF Synced, Active
<1>7. Synced(s)'
  BY <1>5, <1>6 DEF SendRefused, SendRuns, Return
<1>8. DiscInv'
  BY <1>1, <1>7, DiscCall
<1> QED
  BY <1>4, <1>8

\* The rows end and the result is freed: the session can be sent a command again.
LEMMA DiscRowsEnd ==
  ASSUME Inv, DiscInv, NEW s \in Sessions, FetchEnd(s) \/ Free(s)
  PROVE  DiscInv' /\ LinkStep
<1>1. /\ Active(s) /\ ~frame[s].gone /\ ReadToEnd(s) /\ UNCHANGED <<conn, mem>>
      /\ frame[s] \in Frames /\ stmtNum \in Nat /\ Preserved(s) /\ Synced(s)
  BY RowsEndInv DEF FetchEnd, Free, At, Active, objectVars, Inv, TypeOK, DiscInv
<1>2. PICK c \in Structs : c = conn[s] /\ conn[s] # NULL /\ c = frame[s].res
  BY <1>1 DEF Synced, Active, Inv, TypeOK, ResInv
<1>3. UNCHANGED <<vio, sock>> \/ HangUp(c)
  BY <1>1, <1>2 DEF ReadToEnd
<1>4. LinkStep
  BY <1>1, <1>2, <1>3, WireLinks
<1>5. StatusAfter(s) = "ready"
  BY <1>1 DEF Synced, StatusAfter
<1>6. status[c] \in {"ready", "use"}
  BY <1>1, <1>2 DEF Synced, Active, Inv, ResInv
<1>7. status'[c] = "ready"
  BY <1>1, <1>2, <1>5, <1>6 DEF ReadToEnd, HasRows, Inv, TypeOK
<1>8. ASSUME FetchEnd(s) PROVE Synced(s)'
  <2> DEFINE f == [frame[s] EXCEPT !.pc = "free"]
  <2>1. f \in Frames /\ f.pc = "free" /\ f.text = frame[s].text
    BY <1>1, MovedFrame
  <2>2. frame' = [frame EXCEPT ![s] = f]
    BY <1>8 DEF FetchEnd, Move
  <2> HIDE DEF f
  <2>3. frame'[s] = f
    BY <2>1, <2>2, OwnFrame
  <2> QED
    BY <1>1, <1>2, <1>7, <2>1, <2>3 DEF Synced, Active
<1>9. ASSUME Free(s) PROVE Synced(s)'
  <2> DEFINE f == [frame[s] EXCEPT !.pc = "loop", !.seg = @ + 1]
  <2>1. f \in Frames /\ f.pc = "loop"
    BY <1>1, NextFrame
  <2>2. SetStmtNum(s, stmtNum + 1, f) /\ stmtNum + 1 \in Nat
    BY <1>1, <1>9 DEF Free
  <2> HIDE DEF f
  <2>3. frame'[s] = f
    BY <2>1, <2>2, OwnFrame
  <2> QED
    BY <1>1, <1>2, <1>7, <2>1, <2>3 DEF Synced, Active
<1>10. DiscInv'
  BY <1>1, <1>8, <1>9, DiscCall
<1> QED
  BY <1>4, <1>10

\* Every step of a disciplined application keeps DiscInv and takes or gives back at
\* most one server connection.
LEMMA DiscNext ==
  ASSUME Disciplined, Inv, DiscInv, [Next]_vars
  PROVE  DiscInv' /\ LinkStep
<1>1. CASE UNCHANGED vars
  <2>1. UNCHANGED <<conn, frame, mem, vio, status, sock>>
    BY <1>1 DEF vars, objectVars, queryVars, libVars
  <2> QED
    BY <2>1 DEF DiscInv, StructsReachable, Synced, Active, LinkStep, Link, Held
<1>2. ASSUME NEW k \in Socks, ServerDrops(k) PROVE DiscInv' /\ LinkStep
  <2>1. /\ UNCHANGED <<conn, frame, mem, vio, status>>
        /\ sock[k] = "up" /\ sock' = [sock EXCEPT ![k] = "down"]
    BY <1>2 DEF ServerDrops, objectVars, queryVars
  <2>2. DiscInv'
    BY <2>1 DEF DiscInv, StructsReachable, Synced, Active
  <2>3. Link' = Link /\ Held' = Held
    BY <2>1 DEF Link, Held, Inv, TypeOK
  <2> QED
    BY <2>2, <2>3 DEF LinkStep
<1>3. ASSUME NEW s \in Sessions,
             \/ ConvertThrows(s) \/ CallbackThrows(s) \/ CallbackQueries(s)
             \/ CallbackCloses(s) \/ CallbackCrashes(s) \/ UseUnopened(s)
      PROVE  FALSE
  BY <1>3 DEF ConvertThrows, CallbackThrows, CallbackQueries, CallbackCloses,
              CallbackCrashes, UseUnopened, Disciplined
<1>4. ASSUME NEW s \in Sessions, SendCrashes(s) \/ ResultCrashes(s) PROVE FALSE
  <2>1. frame[s].pc # "idle" /\ (~HasStruct(s) \/ frame[s].gone)
    BY <1>4 DEF SendCrashes, ResultCrashes, InLoop, At
  <2>2. conn[s] = NULL
    BY <2>1 DEF HasStruct, Inv, ConnInv, ResInv
  <2> QED
    BY <2>1, <2>2 DEF DiscInv, Synced
<1>5. ASSUME NEW s \in Sessions, Open(s) PROVE DiscInv' /\ LinkStep
  BY <1>5, DiscOpen
<1>6. ASSUME NEW s \in Sessions, Close(s) \/ Release(s) \/ Ping(s)
      PROVE  DiscInv' /\ LinkStep
  BY <1>6, DiscClose
<1>7. ASSUME NEW s \in Sessions, SetCurrentDB(s) \/ ChangeUser(s) \/ Exec(s)
      PROVE  DiscInv' /\ LinkStep
  BY <1>7, DiscCommand
<1>8. ASSUME NEW s \in Sessions,
             \/ \E text \in Texts : Query(s, text)
             \/ LoopEnds(s) \/ SkipEmpty(s) \/ FetchRow(s)
             \/ \E go \in BOOLEAN : CallbackReturns(s, go)
      PROVE  DiscInv' /\ LinkStep
  BY <1>8, DiscLoop
<1>9. ASSUME NEW s \in Sessions, SendRefused(s) \/ SendRuns(s) PROVE DiscInv' /\ LinkStep
  BY <1>9, DiscSend
<1>10. ASSUME NEW s \in Sessions, FetchEnd(s) \/ Free(s) PROVE DiscInv' /\ LinkStep
  BY <1>10, DiscRowsEnd
<1> QED
  BY <1>1, <1>2, <1>3, <1>4, <1>5, <1>6, <1>7, <1>8, <1>9, <1>10 DEF Next, Proceed

\* Nothing is allocated at the start.
LEMMA DiscInit == Init => DiscInv
<1> SUFFICES ASSUME Init PROVE DiscInv
  OBVIOUS
<1>1. \A s \in Sessions : frame[s].pc = "idle" /\ conn[s] = NULL
  BY EmptyFrameType DEF Init
<1> QED
  BY <1>1 DEF Init, DiscInv, StructsReachable, Synced, Active

------------------------------------------------------------------------------
(* The theorems for disciplined applications.                              *)

\* Their invariant.
LEMMA SpecDisc ==
  ASSUME Disciplined
  PROVE  Spec => [](Inv /\ DiscInv)
<1>1. Init => Inv /\ DiscInv
  BY InitInv, DiscInit
<1>2. Inv /\ DiscInv /\ [Next]_vars => (Inv /\ DiscInv)'
  BY NextInv, DiscNext
<1> QED
  BY <1>1, <1>2, PTL DEF Spec

\* Between two calls of a disciplined application its session can be sent a command:
\* query() leaves no result unread, also when the connection breaks under it.
THEOREM AlwaysInSync ==
  ASSUME Disciplined
  PROVE  Spec => []InSync
<1>1. Inv /\ DiscInv => InSync
  BY DEF DiscInv, Synced, InSync, Idle, At
<1> QED
  BY <1>1, SpecDisc, PTL

\* A disciplined application loses no structure of the library: close() and release()
\* reach every one.
THEOREM NoStructLost ==
  ASSUME Disciplined
  PROVE  Spec => []StructsReachable
<1>1. Inv /\ DiscInv => StructsReachable
  BY DEF DiscInv
<1> QED
  BY <1>1, SpecDisc, PTL

\* The backend implements SessionContract: every step connects a session to a free
\* server connection, gives the session's own back, or stutters.
THEOREM ImplementsContract ==
  ASSUME Disciplined
  PROVE  Spec => ContractSpec
<1>1. Init => Contract!Init
  BY DEF Init, Contract!Init
<1>2. Inv /\ DiscInv /\ [Next]_vars => [Contract!Next]_Contract!contractVars
  <2> SUFFICES ASSUME LinkStep
               PROVE  [Contract!Next]_Contract!contractVars
    BY DiscNext
  <2> QED
    BY DEF LinkStep, Link, Held, Contract!Next, Contract!Open, Contract!Close,
           Contract!contractVars
<1> QED
  BY <1>1, <1>2, SpecDisc, PTL DEF Spec, ContractSpec, Contract!Spec

=============================================================================
