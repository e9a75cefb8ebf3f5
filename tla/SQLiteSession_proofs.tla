------------------------- MODULE SQLiteSession_proofs -------------------------
(***************************************************************************)
(* Theorems about SQLiteSession for any number of sessions, handles, texts *)
(* and nesting levels.                                                     *)
(***************************************************************************)
EXTENDS SQLiteSession, SequenceTheorems, TLAPS

USE SQLiteAssumption DEF Depths

------------------------------------------------------------------------------
(* Types.                                                                  *)

\* The frame of no call is well typed.
LEMMA EmptyFrameType == EmptyFrame \in Frames
BY DEF EmptyFrame, Frames

\* Moving the front piece of the tail to what was run keeps a frame well typed.
LEMMA ConsumeType ==
  ASSUME NEW f \in Frames, f.rest # <<>>
  PROVE  /\ Head(f.rest) \in Pieces
         /\ Tail(f.rest) \in Seq(Pieces)
         /\ Append(f.ran, Head(f.rest)) \in Seq(Pieces)
<1>1. f.rest \in Seq(Pieces) /\ f.ran \in Seq(Pieces)
  BY DEF Frames
<1>2. Head(f.rest) \in Pieces /\ Tail(f.rest) \in Seq(Pieces)
  BY <1>1, HeadTailProperties
<1> QED
  BY <1>1, <1>2, AppendProperties

\* A call that ends leaves well-typed frames behind.
LEMMA ReturnType ==
  ASSUME TypeOK, NEW s \in Sessions, NEW d \in Depths,
         NEW r \in {"ok", "exception"}, Return(s, d, r)
  PROVE  /\ depth' \in [Sessions -> 0..MaxDepth]
         /\ frame' \in [Sessions -> [Depths -> Frames]]
         /\ outcome' \in [Sessions -> {"ok", "exception"}]
<1>1. d - 1 \in 0..MaxDepth
  OBVIOUS
<1>2. [frame[s] EXCEPT ![d] = EmptyFrame] \in [Depths -> Frames]
  BY EmptyFrameType DEF TypeOK
<1> QED
  BY <1>1, <1>2 DEF TypeOK, Return

\* So does a call that starts, or goes on with its tail.
LEMMA EnterType ==
  ASSUME TypeOK, NEW s \in Sessions, NEW d \in Depths,
         NEW f \in Frames, Enter(s, d, f)
  PROVE  /\ depth' \in [Sessions -> 0..MaxDepth]
         /\ frame' \in [Sessions -> [Depths -> Frames]]
         /\ outcome' \in [Sessions -> {"ok", "exception"}]
<1>1. d \in 0..MaxDepth
  OBVIOUS
<1>2. [frame[s] EXCEPT ![d] = f] \in [Depths -> Frames]
  BY DEF TypeOK
<1> QED
  BY <1>1, <1>2 DEF TypeOK, Enter

\* The frames of a call that goes on to step a statement, that consumed blank
\* text, and that has just been entered.
LEMMA StepFrameType ==
  ASSUME NEW f \in Frames, NEW h \in Stmts, f.rest # <<>>
  PROVE  [f EXCEPT !.pc = "step", !.stmt = h, !.ran = Append(f.ran, Head(f.rest)),
                   !.rest = Tail(f.rest)] \in Frames
<1> DEFINE run == Append(f.ran, Head(f.rest))
           tail == Tail(f.rest)
<1>1. run \in Seq(Pieces) /\ tail \in Seq(Pieces)
  BY ConsumeType
<1> HIDE DEF run, tail
<1>2. [f EXCEPT !.pc = "step", !.stmt = h, !.ran = run, !.rest = tail] \in Frames
  BY <1>1 DEF Frames
<1> QED
  BY <1>2 DEF run, tail

\* The same for a call that skips blank text,
LEMMA BlankFrameType ==
  ASSUME NEW f \in Frames, f.rest # <<>>, Head(f.rest) = Blank
  PROVE  [f EXCEPT !.pc = "finalize", !.ran = Append(f.ran, Blank),
                   !.rest = Tail(f.rest)] \in Frames
<1> DEFINE run == Append(f.ran, Blank)
           tail == Tail(f.rest)
<1>1. run \in Seq(Pieces) /\ tail \in Seq(Pieces)
  BY ConsumeType
<1> HIDE DEF run, tail
<1>2. [f EXCEPT !.pc = "finalize", !.ran = run, !.rest = tail] \in Frames
  BY <1>1 DEF Frames
<1> QED
  BY <1>2 DEF run, tail

\* and for one that starts.
LEMMA QueryFrameType ==
  ASSUME NEW sql \in Scripts
  PROVE  [EmptyFrame EXCEPT !.sql = sql, !.rest = sql] \in Frames
<1>1. sql \in Seq(Pieces)
  OBVIOUS
<1> QED
  BY <1>1, EmptyFrameType DEF Frames

\* sqlite3_prepare_v2 on a text, at whatever level, preserves the types.
LEMMA CompileType ==
  ASSUME TypeOK, NEW s \in Sessions, NEW d \in Depths,
         NEW f \in Frames, Compile(s, d, f)
  PROVE  TypeOK'
<1>1. /\ depth' \in [Sessions -> 0..MaxDepth]
      /\ frame' \in [Sessions -> [Depths -> Frames]]
      /\ outcome' \in [Sessions -> {"ok", "exception"}]
      /\ stmtOf' \in [Stmts -> Conns \cup {NULL}]
  <2>1. CASE /\ Usable(s) /\ f.rest # <<>> /\ Head(f.rest) # Blank
             /\ \E h \in {x \in Stmts : stmtOf[x] = NULL} :
                  /\ stmtOf' = [stmtOf EXCEPT ![h] = conn[s]]
                  /\ Enter(s, d, [f EXCEPT !.pc = "step", !.stmt = h,
                                      !.ran = Append(f.ran, Head(f.rest)),
                                      !.rest = Tail(f.rest)])
    <3>1. PICK h \in Stmts :
            /\ stmtOf' = [stmtOf EXCEPT ![h] = conn[s]]
            /\ Enter(s, d, [f EXCEPT !.pc = "step", !.stmt = h,
                                      !.ran = Append(f.ran, Head(f.rest)),
                                      !.rest = Tail(f.rest)])
      BY <2>1
    <3>2. [f EXCEPT !.pc = "step", !.stmt = h,
                    !.ran = Append(f.ran, Head(f.rest)),
                    !.rest = Tail(f.rest)] \in Frames
      BY <2>1, StepFrameType
    <3> QED
      BY <3>1, <3>2, EnterType DEF TypeOK
  <2>2. CASE /\ Usable(s) /\ f.rest # <<>> /\ Head(f.rest) = Blank
             /\ Enter(s, d, [f EXCEPT !.pc = "finalize",
                                 !.ran = Append(f.ran, Blank),
                                 !.rest = Tail(f.rest)])
             /\ UNCHANGED stmtOf
    <3>1. [f EXCEPT !.pc = "finalize", !.ran = Append(f.ran, Blank),
                    !.rest = Tail(f.rest)] \in Frames
      BY <2>2, BlankFrameType
    <3> QED
      BY <2>2, <3>1, EnterType DEF TypeOK
  <2>3. CASE /\ Enter(s, d, [f EXCEPT !.pc = "finalize"])
             /\ UNCHANGED stmtOf
    <3>1. [f EXCEPT !.pc = "finalize"] \in Frames
      BY DEF Frames
    <3> QED
      BY <2>3, <3>1, EnterType DEF TypeOK
  <2>4. CASE Return(s, d, "exception") /\ UNCHANGED stmtOf
    BY <2>4, ReturnType DEF TypeOK
  <2> QED
    BY <2>1, <2>2, <2>3, <2>4 DEF Compile
<1> QED
  BY <1>1 DEF TypeOK, Compile

\* Where a query() call stands, its frame is well typed and its level in range.
LEMMA TopType ==
  ASSUME TypeOK, NEW s \in Sessions, depth[s] > 0
  PROVE  depth[s] \in Depths /\ Top(s) \in Frames
BY DEF TypeOK, Top

\* Replacing the frame of the innermost call preserves the type of frame.
LEMMA FieldType ==
  ASSUME TypeOK, NEW s \in Sessions, depth[s] > 0, NEW f \in Frames,
         frame' = [frame EXCEPT ![s][depth[s]] = f]
  PROVE  frame' \in [Sessions -> [Depths -> Frames]]
<1>1. [frame[s] EXCEPT ![depth[s]] = f] \in [Depths -> Frames]
  BY TopType DEF TypeOK
<1> QED
  BY <1>1 DEF TypeOK

\* Every variable keeps its type, whatever the application and the engine do.
THEOREM TypeCorrect == Spec => []TypeOK
<1>1. Init => TypeOK
  <2>1. [s \in Sessions |-> [d \in Depths |-> EmptyFrame]] \in [Sessions -> [Depths -> Frames]]
    BY EmptyFrameType
  <2>2. 0 \in 0..MaxDepth /\ 0 \in Nat
    OBVIOUS
  <2> QED
    BY <2>1, <2>2, Zenon DEF Init, TypeOK
<1>2. TypeOK /\ [Next]_vars => TypeOK'
  <2> SUFFICES ASSUME TypeOK, [Next]_vars PROVE TypeOK'
    OBVIOUS
  <2>1. ASSUME NEW s \in Sessions, New(s) PROVE TypeOK'
    BY <2>1 DEF New, TypeOK, queryVars, libVars
  <2>2. ASSUME NEW s \in Sessions, Close(s) PROVE TypeOK'
    BY <2>2 DEF Close, CloseConn, sqlite3_close, TypeOK, queryVars
  <2>3. ASSUME NEW s \in Sessions, Release(s) PROVE TypeOK'
    BY <2>3 DEF Release, CloseConn, sqlite3_close, TypeOK, queryVars
  <2>4. ASSUME NEW s \in Sessions, Exec(s) PROVE TypeOK'
    BY <2>4 DEF Exec, TypeOK, queryVars, libVars
  <2>5. ASSUME NEW s \in Sessions, NEW a \in OpenArgs,
               NEW e \in {"opens", "fails", "nomem"}, Open(s, a, e)
        PROVE  TypeOK'
    <3> DEFINE opened == e = "opens" /\ OpenFlags(a) \in AcceptedFlags
    <3>1. opened \in BOOLEAN
      OBVIOUS
    <3> HIDE DEF opened
    <3>2. CASE \E c \in Conns : /\ conn' = [conn EXCEPT ![s] = c]
                                /\ isOpen' = [isOpen EXCEPT ![s] = opened]
                                /\ db' = [db EXCEPT ![c] = IF opened THEN "open" ELSE "sick"]
                                /\ outcome' = [outcome EXCEPT ![s] =
                                                 IF opened THEN "ok" ELSE "exception"]
      BY <2>5, <3>1, <3>2 DEF Open, TypeOK, queryVars
    <3>3. CASE ~(\E c \in Conns : /\ conn' = [conn EXCEPT ![s] = c]
                                /\ isOpen' = [isOpen EXCEPT ![s] = opened]
                                /\ db' = [db EXCEPT ![c] = IF opened THEN "open" ELSE "sick"]
                                /\ outcome' = [outcome EXCEPT ![s] =
                                                 IF opened THEN "ok" ELSE "exception"])
      BY <2>5, <3>3 DEF Open, opened, TypeOK, queryVars
    <3> QED
      BY <3>2, <3>3
  <2>6. ASSUME NEW s \in Sessions, NEW sql \in Scripts, Query(s, sql) PROVE TypeOK'
    <3>1. depth[s] + 1 \in Depths
      BY <2>6 DEF Query, TypeOK
    <3>2. [EmptyFrame EXCEPT !.sql = sql, !.rest = sql] \in Frames
      BY QueryFrameType
    <3> QED
      BY <2>6, <3>1, <3>2, CompileType DEF Query
  <2>7. ASSUME NEW s \in Sessions, StepRow(s) PROVE TypeOK'
    <3> DEFINE f == [Top(s) EXCEPT !.pc = "callback", !.num = stmtNum]
    <3>1. f \in Frames
      BY <2>7, TopType DEF StepRow, At, TypeOK, Frames
    <3>2. frame' = [frame EXCEPT ![s][depth[s]] = f]
      BY <2>7, TopType DEF StepRow, At, TypeOK, Top, Frames
    <3> QED
      BY <2>7, <3>1, <3>2, FieldType DEF StepRow, At, TypeOK, objectVars, libVars
  <2>8. ASSUME NEW s \in Sessions, StepEnd(s) PROVE TypeOK'
    <3> DEFINE f == [Top(s) EXCEPT !.pc = "finalize"]
    <3>1. f \in Frames
      BY <2>8, TopType DEF StepEnd, At, Frames
    <3>2. frame' = [frame EXCEPT ![s][depth[s]] = f]
      BY <2>8, TopType DEF StepEnd, At, TypeOK, Top, Frames
    <3> QED
      BY <2>8, <3>1, <3>2, FieldType DEF StepEnd, At, TypeOK, objectVars, libVars
  <2>9. ASSUME NEW s \in Sessions, NEW go \in BOOLEAN, CallbackReturns(s, go)
        PROVE  TypeOK'
    <3> DEFINE f == [Top(s) EXCEPT !.pc = IF go THEN "step" ELSE "finalize",
                                   !.stopped = @ \/ ~go]
    <3>1. f \in Frames
      BY <2>9, TopType DEF CallbackReturns, At, Frames
    <3>2. frame' = [frame EXCEPT ![s][depth[s]] = f]
      BY <2>9, TopType DEF CallbackReturns, At, TypeOK, Top, Frames
    <3> QED
      BY <2>9, <3>1, <3>2, FieldType DEF CallbackReturns, At, TypeOK, objectVars, libVars
  <2>10. ASSUME NEW s \in Sessions, CallbackThrows(s) PROVE TypeOK'
    BY <2>10, ReturnType, TopType DEF CallbackThrows, At, TypeOK, libVars
  <2>11. ASSUME NEW s \in Sessions, Finalize(s) PROVE TypeOK'
    <3>1. depth[s] \in Depths /\ Top(s) \in Frames
      BY <2>11, TopType DEF Finalize, At
    <3>2. stmtOf' \in [Stmts -> Conns \cup {NULL}]
      BY <2>11 DEF Finalize, TypeOK
    <3>3. CASE Top(s).rest = <<>>
      BY <2>11, <3>1, <3>2, <3>3, ReturnType DEF Finalize, TypeOK
    <3>4. CASE Top(s).rest # <<>>
      <4>1. [Top(s) EXCEPT !.pc = "recurse", !.stmt = NULL] \in Frames
        BY <3>1 DEF Frames
      <4> QED
        BY <2>11, <3>1, <3>2, <3>4, <4>1, EnterType DEF Finalize, TypeOK
    <3> QED
      BY <3>3, <3>4
  <2>12. ASSUME NEW s \in Sessions, Recurse(s) PROVE TypeOK'
    BY <2>12, TopType, CompileType DEF Recurse, At
  <2>13. CASE UNCHANGED vars
    BY <2>13 DEF vars, objectVars, queryVars, libVars, TypeOK
  <2> QED
    BY <2>1, <2>2, <2>3, <2>4, <2>5, <2>6, <2>7, <2>8, <2>9, <2>10, <2>11,
       <2>12, <2>13 DEF Next
<1> QED
  BY <1>1, <1>2, PTL DEF Spec

------------------------------------------------------------------------------
(* Texts: every call works its own off from the front.                     *)

\* Nothing of the text of a call is lost or doubled.
Whole(f) == f.ran \o f.rest = f.sql

\* A sequence whose head is moved to the end of another leaves their concatenation.
LEMMA HeadMoved ==
  ASSUME NEW S, NEW r \in Seq(S), NEW t \in Seq(S), t # <<>>
  PROVE  Append(r, Head(t)) \o Tail(t) = r \o t
<1>1. Head(t) \in S /\ Tail(t) \in Seq(S) /\ <<Head(t)>> \in Seq(S)
  BY HeadTailProperties
<1>2. Append(r, Head(t)) = r \o <<Head(t)>>
  BY <1>1, AppendIsConcat
<1>3. (r \o <<Head(t)>>) \o Tail(t) = r \o (<<Head(t)>> \o Tail(t))
  BY <1>1, ConcatAssociative
<1>4. <<Head(t)>> \o Tail(t) = t
  BY SMT
<1> QED
  BY <1>2, <1>3, <1>4

\* Compiling the front piece keeps the text whole.
LEMMA ConsumeWhole ==
  ASSUME NEW f \in Frames, f.rest # <<>>
  PROVE  Append(f.ran, Head(f.rest)) \o Tail(f.rest) = f.ran \o f.rest
<1>1. f.ran \in Seq(Pieces) /\ f.rest \in Seq(Pieces)
  BY DEF Frames
<1> QED
  BY <1>1, HeadMoved

\* The innermost call, or a new one, may have a frame with a whole text.
LEMMA SetWhole ==
  ASSUME TypeOK, TextAccounted, NEW s \in Sessions, NEW d \in Depths,
         d = depth[s] \/ d = depth[s] + 1, NEW f \in Frames, Whole(f),
         depth' = [depth EXCEPT ![s] = d], frame' = [frame EXCEPT ![s][d] = f]
  PROVE  TextAccounted'
<1>1. ASSUME NEW t \in Sessions, t # s
      PROVE  frame'[t] = frame[t] /\ depth'[t] = depth[t]
  BY <1>1 DEF TypeOK
<1>2. frame'[s] = [frame[s] EXCEPT ![d] = f] /\ depth'[s] = d
  BY DEF TypeOK
<1>3. ASSUME NEW e \in 1..d PROVE Whole(frame'[s][e])
  <2>1. e \in Depths /\ frame'[s][e] = IF e = d THEN f ELSE frame[s][e]
    BY <1>2 DEF TypeOK
  <2>2. e # d => e \in 1..depth[s]
    BY DEF TypeOK
  <2> QED
    BY <2>1, <2>2 DEF TextAccounted, Whole
<1>4. ASSUME NEW t \in Sessions, NEW e \in 1..depth'[t] PROVE Whole(frame'[t][e])
  <2>1. CASE t = s
    BY <1>2, <1>3, <2>1
  <2>2. CASE t # s
    <3>1. frame'[t][e] = frame[t][e] /\ e \in 1..depth[t]
      BY <1>1, <2>2
    <3>2. Whole(frame[t][e])
      BY <3>1 DEF TextAccounted, Whole
    <3> QED
      BY <3>1, <3>2
  <2> QED
    BY <2>1, <2>2
<1> QED
  BY <1>4 DEF TextAccounted, Whole

\* A call that ends has no text left to account for.
LEMMA ReturnWhole ==
  ASSUME TypeOK, TextAccounted, NEW s \in Sessions, NEW d \in Depths,
         d = depth[s] \/ d = depth[s] + 1, NEW r, Return(s, d, r)
  PROVE  TextAccounted'
<1>1. ASSUME NEW t \in Sessions, t # s
      PROVE  frame'[t] = frame[t] /\ depth'[t] = depth[t]
  BY <1>1 DEF TypeOK, Return
<1>2. frame'[s] = [frame[s] EXCEPT ![d] = EmptyFrame] /\ depth'[s] = d - 1
  BY DEF TypeOK, Return
<1>3. ASSUME NEW e \in 1..d - 1 PROVE Whole(frame'[s][e])
  <2>1. e \in Depths /\ e \in 1..depth[s] /\ frame'[s][e] = frame[s][e]
    BY <1>2 DEF TypeOK
  <2> QED
    BY <2>1 DEF TextAccounted, Whole
<1>4. ASSUME NEW t \in Sessions, NEW e \in 1..depth'[t] PROVE Whole(frame'[t][e])
  <2>1. CASE t = s
    BY <1>2, <1>3, <2>1
  <2>2. CASE t # s
    <3>1. frame'[t][e] = frame[t][e] /\ e \in 1..depth[t]
      BY <1>1, <2>2
    <3>2. Whole(frame[t][e])
      BY <3>1 DEF TextAccounted, Whole
    <3> QED
      BY <3>1, <3>2
  <2> QED
    BY <2>1, <2>2
<1> QED
  BY <1>4 DEF TextAccounted, Whole

\* sqlite3_prepare_v2 takes its piece from the front of the tail.
LEMMA CompileWhole ==
  ASSUME TypeOK, TextAccounted, NEW s \in Sessions, NEW d \in Depths,
         d = depth[s] \/ d = depth[s] + 1, NEW f \in Frames, Whole(f), Compile(s, d, f)
  PROVE  TextAccounted'
<1>1. ASSUME NEW g \in Frames, Whole(g), Enter(s, d, g) PROVE TextAccounted'
  BY <1>1, SetWhole DEF Enter
<1>2. CASE /\ f.rest # <<>>
           /\ \E h \in Stmts :
                Enter(s, d, [f EXCEPT !.pc = "step", !.stmt = h,
                                      !.ran = Append(f.ran, Head(f.rest)),
                                      !.rest = Tail(f.rest)])
  <2> DEFINE g(h) == [f EXCEPT !.pc = "step", !.stmt = h,
                               !.ran = Append(f.ran, Head(f.rest)),
                               !.rest = Tail(f.rest)]
  <2>1. PICK h \in Stmts : Enter(s, d, g(h))
    BY <1>2
  <2>2. g(h) \in Frames
    BY <1>2, StepFrameType
  <2>3. /\ g(h).ran = Append(f.ran, Head(f.rest)) /\ g(h).rest = Tail(f.rest)
        /\ g(h).sql = f.sql
    BY DEF Frames
  <2> HIDE DEF g
  <2> QED
    BY <1>1, <1>2, <2>1, <2>2, <2>3, ConsumeWhole DEF Whole
<1>3. CASE /\ f.rest # <<>> /\ Head(f.rest) = Blank
           /\ Enter(s, d, [f EXCEPT !.pc = "finalize",
                                    !.ran = Append(f.ran, Blank),
                                    !.rest = Tail(f.rest)])
  <2> DEFINE g == [f EXCEPT !.pc = "finalize", !.ran = Append(f.ran, Blank),
                            !.rest = Tail(f.rest)]
  <2>1. g \in Frames
    BY <1>3, BlankFrameType
  <2>2. /\ g.ran = Append(f.ran, Blank) /\ g.rest = Tail(f.rest) /\ g.sql = f.sql
    BY DEF Frames
  <2> HIDE DEF g
  <2>3. Whole(g)
    BY <1>3, <2>2, ConsumeWhole DEF Whole
  <2> QED
    BY <1>1, <1>3, <2>1, <2>3 DEF g
<1>4. CASE Enter(s, d, [f EXCEPT !.pc = "finalize"])
  <2>1. [f EXCEPT !.pc = "finalize"] \in Frames /\ Whole([f EXCEPT !.pc = "finalize"])
    BY DEF Frames, Whole
  <2> QED
    BY <1>1, <1>4, <2>1
<1>5. CASE Return(s, d, "exception")
  BY <1>5, ReturnWhole
<1> QED
  BY <1>2, <1>3, <1>4, <1>5 DEF Compile

\* Every step keeps every text whole.
LEMMA TextStep ==
  ASSUME TypeOK, TextAccounted, [Next]_vars
  PROVE  TextAccounted'
<1>1. CASE UNCHANGED <<frame, depth>>
  BY <1>1 DEF TextAccounted
<1>2. ASSUME NEW s \in Sessions,
             \/ New(s) \/ Close(s) \/ Release(s) \/ Exec(s)
             \/ \E a \in OpenArgs, e \in {"opens", "fails", "nomem"} : Open(s, a, e)
      PROVE  TextAccounted'
  BY <1>1, <1>2 DEF New, Close, Release, Exec, Open, queryVars
<1>3. ASSUME NEW s \in Sessions, depth[s] > 0, NEW f \in Frames,
             f.ran = Top(s).ran, f.rest = Top(s).rest, f.sql = Top(s).sql,
             frame' = [frame EXCEPT ![s][depth[s]] = f],
             depth' = [depth EXCEPT ![s] = depth[s]]
      PROVE  TextAccounted'
  <2>1. depth[s] \in Depths /\ depth[s] \in 1..depth[s]
    BY <1>3 DEF TypeOK
  <2>2. Whole(f)
    BY <1>3, <2>1 DEF TextAccounted, Whole, Top
  <2> QED
    BY <1>3, <2>1, <2>2, SetWhole
<1>4. \A s \in Sessions : UNCHANGED depth => depth' = [depth EXCEPT ![s] = depth[s]]
  BY DEF TypeOK
<1>5. ASSUME NEW s \in Sessions, NEW sql \in Scripts, Query(s, sql) PROVE TextAccounted'
  <2> DEFINE f == [EmptyFrame EXCEPT !.sql = sql, !.rest = sql]
  <2>1. depth[s] + 1 \in Depths
    BY <1>5 DEF Query, TypeOK
  <2>2. f \in Frames
    BY QueryFrameType
  <2>3. f.ran = <<>> /\ f.rest = sql /\ f.sql = sql /\ sql \in Seq(Pieces)
    BY DEF EmptyFrame
  <2>4. Compile(s, depth[s] + 1, f)
    BY <1>5 DEF Query
  <2> HIDE DEF f
  <2>5. Whole(f)
    BY <2>3, ConcatEmptySeq DEF Whole
  <2> QED
    BY <2>1, <2>2, <2>4, <2>5, CompileWhole
<1>6. ASSUME NEW s \in Sessions, Recurse(s) PROVE TextAccounted'
  <2>1. depth[s] \in Depths /\ depth[s] \in 1..depth[s] /\ Top(s) \in Frames
    BY <1>6, TopType DEF Recurse, At
  <2>2. Whole(Top(s))
    BY <2>1 DEF TextAccounted, Whole, Top
  <2> QED
    BY <1>6, <2>1, <2>2, CompileWhole DEF Recurse
<1>7. ASSUME NEW s \in Sessions, StepRow(s) PROVE TextAccounted'
  <2> DEFINE f == [Top(s) EXCEPT !.pc = "callback", !.num = stmtNum]
  <2>1. f \in Frames /\ f.ran = Top(s).ran /\ f.rest = Top(s).rest /\ f.sql = Top(s).sql
    BY <1>7, TopType DEF StepRow, At, TypeOK, Frames
  <2>2. frame' = [frame EXCEPT ![s][depth[s]] = f]
    BY <1>7, TopType DEF StepRow, At, TypeOK, Top, Frames
  <2> QED
    BY <1>3, <1>4, <1>7, <2>1, <2>2 DEF StepRow, At
<1>8. ASSUME NEW s \in Sessions, StepEnd(s) PROVE TextAccounted'
  <2> DEFINE f == [Top(s) EXCEPT !.pc = "finalize"]
  <2>1. f \in Frames /\ f.ran = Top(s).ran /\ f.rest = Top(s).rest /\ f.sql = Top(s).sql
    BY <1>8, TopType DEF StepEnd, At, Frames
  <2>2. frame' = [frame EXCEPT ![s][depth[s]] = f]
    BY <1>8, TopType DEF StepEnd, At, TypeOK, Top, Frames
  <2> QED
    BY <1>3, <1>4, <1>8, <2>1, <2>2 DEF StepEnd, At
<1>9. ASSUME NEW s \in Sessions, NEW go \in BOOLEAN, CallbackReturns(s, go)
      PROVE  TextAccounted'
  <2> DEFINE f == [Top(s) EXCEPT !.pc = IF go THEN "step" ELSE "finalize",
                                 !.stopped = @ \/ ~go]
  <2>1. f \in Frames /\ f.ran = Top(s).ran /\ f.rest = Top(s).rest /\ f.sql = Top(s).sql
    BY <1>9, TopType DEF CallbackReturns, At, Frames
  <2>2. frame' = [frame EXCEPT ![s][depth[s]] = f]
    BY <1>9, TopType DEF CallbackReturns, At, TypeOK, Top, Frames
  <2> QED
    BY <1>3, <1>4, <1>9, <2>1, <2>2 DEF CallbackReturns, At
<1>10. ASSUME NEW s \in Sessions, CallbackThrows(s) PROVE TextAccounted'
  BY <1>10, TopType, ReturnWhole DEF CallbackThrows, At
<1>11. ASSUME NEW s \in Sessions, Finalize(s) PROVE TextAccounted'
  <2>1. depth[s] > 0 /\ depth[s] \in Depths /\ Top(s) \in Frames
    BY <1>11, TopType DEF Finalize, At
  <2>2. CASE Return(s, depth[s], "ok")
    BY <2>1, <2>2, ReturnWhole
  <2>3. CASE Enter(s, depth[s], [Top(s) EXCEPT !.pc = "recurse", !.stmt = NULL])
    <3> DEFINE f == [Top(s) EXCEPT !.pc = "recurse", !.stmt = NULL]
    <3>1. f \in Frames /\ f.ran = Top(s).ran /\ f.rest = Top(s).rest /\ f.sql = Top(s).sql
      BY <2>1 DEF Frames
    <3> HIDE DEF f
    <3> QED
      BY <1>3, <2>1, <2>3, <3>1 DEF Enter, f
  <2> QED
    BY <1>11, <2>2, <2>3 DEF Finalize
<1>12. CASE UNCHANGED vars
  BY <1>1, <1>12 DEF vars, queryVars
<1> QED
  BY <1>2, <1>5, <1>6, <1>7, <1>8, <1>9, <1>10, <1>11, <1>12 DEF Next

\* SQLiteSession.cpp:110-112: query(tail, cb) goes on with exactly what
\* sqlite3_prepare_v2 left, however deep the calls are nested, whatever threw in
\* between, and whatever the other sessions do: no piece of a text is skipped or
\* run twice.
THEOREM TextWorkedOff == Spec => []TextAccounted
<1>1. Init => TextAccounted
  BY DEF Init, TextAccounted
<1>2. TypeOK /\ TextAccounted /\ [Next]_vars => TextAccounted'
  BY TextStep
<1> QED
  BY <1>1, <1>2, TypeCorrect, PTL DEF Spec

------------------------------------------------------------------------------
(* Connections: isOpen() is honest, and no two sessions share a handle.     *)

ConnInv ==
  /\ IsOpenHonest
  /\ \A s \in Sessions : conn[s] # NULL => db[conn[s]] # "free"
  /\ \A s, t \in Sessions : conn[s] = conn[t] /\ conn[s] # NULL => s = t

\* open(): the handle was free, so no session had it.
LEMMA OpenConn ==
  ASSUME TypeOK, ConnInv, NEW s \in Sessions, NEW a \in OpenArgs,
         NEW e \in {"opens", "fails", "nomem"}, Open(s, a, e)
  PROVE  ConnInv'
<1> DEFINE opened == e = "opens" /\ OpenFlags(a) \in AcceptedFlags
<1>1. opened \in BOOLEAN
  OBVIOUS
<1> HIDE DEF opened
<1>2. CASE UNCHANGED <<conn, isOpen, db>>
  BY <1>2 DEF ConnInv, IsOpenHonest, Usable
<1>3. ASSUME NEW c \in Conns, db[c] = "free",
             conn' = [conn EXCEPT ![s] = c],
             isOpen' = [isOpen EXCEPT ![s] = opened],
             db' = [db EXCEPT ![c] = IF opened THEN "open" ELSE "sick"]
      PROVE  ConnInv'
  <2>1. \A t \in Sessions : t # s => conn'[t] = conn[t] /\ isOpen'[t] = isOpen[t]
    BY <1>3 DEF TypeOK
  <2>2. conn'[s] = c /\ isOpen'[s] = opened /\ c # NULL
    BY <1>3 DEF TypeOK
  <2>3. db'[c] = IF opened THEN "open" ELSE "sick"
    BY <1>3 DEF TypeOK
  <2>4. \A t \in Sessions : conn[t] # c
    BY <1>3 DEF ConnInv
  <2>5. \A t \in Sessions : conn[t] # NULL => db'[conn[t]] = db[conn[t]]
    BY <1>3, <2>4 DEF TypeOK
  <2> QED
    BY <1>1, <2>1, <2>2, <2>3, <2>4, <2>5 DEF ConnInv, IsOpenHonest, Usable
<1>4. CASE conn' = [conn EXCEPT ![s] = NULL] /\ isOpen' = [isOpen EXCEPT ![s] = FALSE]
           /\ UNCHANGED db
  BY <1>4 DEF ConnInv, IsOpenHonest, Usable, TypeOK
<1> QED
  BY <1>2, <1>3, <1>4 DEF Open, opened

\* close(): only the handle of s can become free, and s forgets it.
LEMMA CloseConnConn ==
  ASSUME TypeOK, ConnInv, NEW s \in Sessions, CloseConn(s)
  PROVE  ConnInv'
<1>1. CASE conn[s] = NULL
  BY <1>1 DEF CloseConn, ConnInv, IsOpenHonest, Usable
<1>2. CASE conn[s] # NULL
  <2>1. \A t \in Sessions : t # s => conn'[t] = conn[t] /\ isOpen'[t] = isOpen[t]
    BY <1>2 DEF CloseConn, TypeOK
  <2>2. conn'[s] = NULL /\ isOpen'[s] = FALSE
    BY <1>2 DEF CloseConn, TypeOK
  <2>3. \A t \in Sessions : t # s /\ conn[t] # NULL => db'[conn[t]] = db[conn[t]]
    BY <1>2 DEF CloseConn, sqlite3_close, TypeOK, ConnInv
  <2> QED
    BY <2>1, <2>2, <2>3 DEF ConnInv, IsOpenHonest, Usable
<1> QED
  BY <1>1, <1>2

\* Nobody's conn is a freed handle, nor somebody else's.
LEMMA ConnInvariant == Spec => [](TypeOK /\ ConnInv)
<1>1. Init => ConnInv
  BY DEF Init, ConnInv, IsOpenHonest, Usable
<1>2. TypeOK /\ ConnInv /\ [Next]_vars => ConnInv'
  <2> SUFFICES ASSUME TypeOK, ConnInv, [Next]_vars PROVE ConnInv'
    OBVIOUS
  <2>1. CASE UNCHANGED <<conn, isOpen, db>>
    BY <2>1 DEF ConnInv, IsOpenHonest, Usable
  <2>2. ASSUME NEW s \in Sessions, Close(s) \/ Release(s) PROVE ConnInv'
    BY <2>2, CloseConnConn DEF Close, Release
  <2>3. ASSUME NEW s \in Sessions, NEW a \in OpenArgs,
               NEW e \in {"opens", "fails", "nomem"}, Open(s, a, e)
        PROVE  ConnInv'
    BY <2>3, OpenConn
  <2>4. ASSUME NEW s \in Sessions,
               \/ New(s) \/ Exec(s) \/ \E sql \in Scripts : Query(s, sql)
               \/ StepRow(s) \/ StepEnd(s) \/ CallbackThrows(s)
               \/ Finalize(s) \/ Recurse(s)
               \/ \E go \in BOOLEAN : CallbackReturns(s, go)
        PROVE  UNCHANGED <<conn, isOpen, db>>
    BY <2>4 DEF New, Exec, Query, Compile, StepRow, StepEnd, CallbackThrows,
                Finalize, Recurse, CallbackReturns, objectVars, libVars
  <2>5. CASE UNCHANGED vars
    BY <2>1, <2>5 DEF vars, objectVars, libVars
  <2> QED
    BY <2>1, <2>2, <2>3, <2>4, <2>5 DEF Next
<1> QED
  BY <1>1, <1>2, TypeCorrect, PTL DEF Spec

\* isOpen() tells the truth in every reachable state, for every application.
THEOREM OpenHonest == Spec => []IsOpenHonest
<1>1. ConnInv => IsOpenHonest
  BY DEF ConnInv
<1> QED
  BY <1>1, ConnInvariant, PTL

------------------------------------------------------------------------------
(* Statements: the one a query() call is stepping is allocated and its own. *)

\* The statement held by the d-th call of s, NULL if there is no such call.
Held(s, d) == IF d <= depth[s] THEN frame[s][d].stmt ELSE NULL

FrameInv ==
  /\ \A h \in Stmts : stmtOf[h] # NULL => db[stmtOf[h]] = "open"
  /\ \A s \in Sessions, d \in Depths : Held(s, d) # NULL => stmtOf[Held(s, d)] # NULL
  /\ \A s, t \in Sessions : \A d, e \in Depths :
       Held(s, d) = Held(t, e) /\ Held(s, d) # NULL => s = t /\ d = e

\* Only call d of s, the last one or a new one, holds another statement.
HeldChanges(s, d, h) ==
  \A t \in Sessions, e \in Depths :
    Held(t, e)' = IF t = s /\ e = d THEN h ELSE Held(t, e)

HeldKept == \A t \in Sessions, e \in Depths : Held(t, e)' = Held(t, e)

\* What a call holds is a statement, or none.
LEMMA HeldType ==
  ASSUME TypeOK, NEW s \in Sessions, NEW d \in Depths
  PROVE  Held(s, d) \in Stmts \cup {NULL}
<1>1. frame[s][d] \in Frames
  BY DEF TypeOK
<1>2. frame[s][d].stmt \in Stmts \cup {NULL}
  BY <1>1 DEF Frames
<1> QED
  BY <1>2 DEF Held

\* Entering a call, or going on at its level, changes what that level holds only.
LEMMA EnterHeld ==
  ASSUME TypeOK, NEW s \in Sessions, NEW d \in Depths,
         d = depth[s] \/ d = depth[s] + 1, NEW f \in Frames, Enter(s, d, f)
  PROVE  HeldChanges(s, d, f.stmt)
<1>1. ASSUME NEW t \in Sessions, NEW e \in Depths, t # s PROVE Held(t, e)' = Held(t, e)
  BY <1>1 DEF TypeOK, Enter, Held
<1>2. depth'[s] = d
  BY DEF TypeOK, Enter
<1>3. frame'[s] = [frame[s] EXCEPT ![d] = f]
  BY DEF TypeOK, Enter
<1>4. ASSUME NEW e \in Depths PROVE Held(s, e)' = IF e = d THEN f.stmt ELSE Held(s, e)
  BY <1>2, <1>3 DEF TypeOK, Held
<1> QED
  BY <1>1, <1>4 DEF HeldChanges

\* A call that ends holds nothing, and nobody else's statement changes.
LEMMA ReturnHeld ==
  ASSUME TypeOK, NEW s \in Sessions, NEW d \in Depths,
         d = depth[s] \/ d = depth[s] + 1, NEW r, Return(s, d, r)
  PROVE  HeldChanges(s, d, NULL)
<1>1. ASSUME NEW t \in Sessions, NEW e \in Depths, t # s PROVE Held(t, e)' = Held(t, e)
  BY <1>1 DEF TypeOK, Return, Held
<1>2. depth'[s] = d - 1
  BY DEF TypeOK, Return
<1>3. frame'[s] = [frame[s] EXCEPT ![d] = EmptyFrame]
  BY DEF TypeOK, Return
<1>4. ASSUME NEW e \in Depths PROVE Held(s, e)' = IF e = d THEN NULL ELSE Held(s, e)
  BY <1>2, <1>3 DEF TypeOK, Held
<1> QED
  BY <1>1, <1>4 DEF HeldChanges

\* A step that rewrites the last frame but not its statement.
LEMMA FieldHeld ==
  ASSUME TypeOK, NEW s \in Sessions, depth[s] > 0,
         NEW f \in Frames, f.stmt = Top(s).stmt,
         frame' = [frame EXCEPT ![s][depth[s]] = f], UNCHANGED depth
  PROVE  HeldKept
<1>1. \A t \in Sessions : t # s => frame'[t] = frame[t]
  BY DEF TypeOK
<1>2. frame'[s] = [frame[s] EXCEPT ![depth[s]] = f]
  BY DEF TypeOK
<1>3. ASSUME NEW e \in Depths PROVE frame'[s][e].stmt = frame[s][e].stmt
  BY <1>2, TopType DEF TypeOK, Top
<1>4. ASSUME NEW t \in Sessions, NEW e \in Depths PROVE Held(t, e)' = Held(t, e)
  <2>1. frame'[t][e].stmt = frame[t][e].stmt
    BY <1>1, <1>3
  <2> QED
    BY <2>1 DEF Held
<1> QED
  BY <1>4 DEF HeldKept

\* Between the finalization of a statement and the call on the tail the frame
\* holds no statement.
RecurseInv ==
  \A s \in Sessions, d \in Depths : frame[s][d].pc = "recurse" => frame[s][d].stmt = NULL

\* A frame may be replaced by one that, if it is about to recurse, holds nothing.
LEMMA SetFrame ==
  ASSUME TypeOK, RecurseInv, NEW s \in Sessions, NEW d \in Depths, NEW f \in Frames,
         f.pc = "recurse" => f.stmt = NULL, frame' = [frame EXCEPT ![s][d] = f]
  PROVE  RecurseInv'
<1>1. \A t \in Sessions : t # s => frame'[t] = frame[t]
  BY DEF TypeOK
<1>2. frame'[s] = [frame[s] EXCEPT ![d] = f]
  BY DEF TypeOK
<1>3. \A e \in Depths : frame'[s][e] = IF e = d THEN f ELSE frame[s][e]
  BY <1>2 DEF TypeOK
<1> QED
  BY <1>1, <1>3 DEF RecurseInv

\* What a step can do to the statements. Acquire: a call that held none
\* compiles h on its session's open connection. Lose: a callback's exception
\* ends a call. Finish: a call finalizes the statement it held.
Acquire(s, d, h) ==
  /\ stmtOf[h] = NULL /\ Usable(s) /\ Held(s, d) = NULL
  /\ stmtOf' = [stmtOf EXCEPT ![h] = conn[s]]
  /\ HeldChanges(s, d, h)

Lose(s, d) == "throw" \in Habits /\ HeldChanges(s, d, NULL) /\ UNCHANGED stmtOf

Finish(s, d) ==
  /\ HeldChanges(s, d, NULL)
  /\ stmtOf' = [x \in Stmts |-> IF x = Held(s, d) THEN NULL ELSE stmtOf[x]]

NoChange == HeldKept /\ UNCHANGED stmtOf

\* Compiling, at the entry of query() or on the tail of the last call.
LEMMA CompileStatements ==
  ASSUME TypeOK, RecurseInv, NEW s \in Sessions, NEW d \in Depths,
         d = depth[s] \/ d = depth[s] + 1, Held(s, d) = NULL,
         NEW f \in Frames, f.stmt = NULL, Compile(s, d, f)
  PROVE  /\ NoChange \/ \E h \in Stmts : Acquire(s, d, h)
         /\ RecurseInv'
<1>1. ASSUME HeldChanges(s, d, NULL), UNCHANGED stmtOf PROVE NoChange
  BY <1>1 DEF HeldChanges, HeldKept, NoChange
<1>2. ASSUME NEW g \in Frames, g.stmt = NULL, Enter(s, d, g), UNCHANGED stmtOf
      PROVE  NoChange /\ RecurseInv'
  BY <1>1, <1>2, EnterHeld, SetFrame DEF Enter
<1>3. CASE Return(s, d, "exception") /\ UNCHANGED stmtOf
  <2>1. RecurseInv'
    BY <1>3, EmptyFrameType, SetFrame DEF Return, EmptyFrame
  <2> QED
    BY <1>1, <1>3, <2>1, ReturnHeld
<1>4. CASE /\ Usable(s) /\ f.rest # <<>> /\ Head(f.rest) # Blank
           /\ \E h \in {x \in Stmts : stmtOf[x] = NULL} :
                /\ stmtOf' = [stmtOf EXCEPT ![h] = conn[s]]
                /\ Enter(s, d, [f EXCEPT !.pc = "step", !.stmt = h,
                                         !.ran = Append(f.ran, Head(f.rest)),
                                         !.rest = Tail(f.rest)])
  <2> DEFINE g(h) == [f EXCEPT !.pc = "step", !.stmt = h,
                               !.ran = Append(f.ran, Head(f.rest)),
                               !.rest = Tail(f.rest)]
  <2>1. PICK h \in Stmts : /\ stmtOf[h] = NULL
                           /\ stmtOf' = [stmtOf EXCEPT ![h] = conn[s]]
                           /\ Enter(s, d, g(h))
    BY <1>4
  <2>2. g(h) \in Frames /\ g(h).pc = "step" /\ g(h).stmt = h
    BY <1>4, StepFrameType DEF Frames
  <2> HIDE DEF g
  <2>3. HeldChanges(s, d, h)
    BY <2>1, <2>2, EnterHeld
  <2>4. RecurseInv'
    BY <2>1, <2>2, SetFrame DEF Enter
  <2> QED
    BY <1>4, <2>1, <2>3, <2>4 DEF Acquire
<1>5. CASE /\ Usable(s) /\ f.rest # <<>> /\ Head(f.rest) = Blank
           /\ Enter(s, d, [f EXCEPT !.pc = "finalize",
                                    !.ran = Append(f.ran, Blank),
                                    !.rest = Tail(f.rest)])
           /\ UNCHANGED stmtOf
  <2> DEFINE g == [f EXCEPT !.pc = "finalize", !.ran = Append(f.ran, Blank),
                            !.rest = Tail(f.rest)]
  <2>1. g \in Frames /\ g.stmt = NULL
    BY <1>5, BlankFrameType DEF Frames
  <2> HIDE DEF g
  <2> QED
    BY <1>2, <1>5, <2>1 DEF g
<1>6. CASE Enter(s, d, [f EXCEPT !.pc = "finalize"]) /\ UNCHANGED stmtOf
  <2>1. [f EXCEPT !.pc = "finalize"] \in Frames /\ [f EXCEPT !.pc = "finalize"].stmt = NULL
    BY DEF Frames
  <2> QED
    BY <1>2, <1>6, <2>1
<1> QED
  BY <1>3, <1>4, <1>5, <1>6 DEF Compile

\* Every step is one of these, seen from the statements.
LEMMA StepStatements ==
  ASSUME TypeOK, RecurseInv, [Next]_vars
  PROVE  /\ \/ NoChange
            \/ /\ UNCHANGED <<conn, db>>
               /\ \E s \in Sessions, d \in Depths :
                    (\E h \in Stmts : Acquire(s, d, h)) \/ Lose(s, d) \/ Finish(s, d)
         /\ RecurseInv'
<1> DEFINE Goal == /\ \/ NoChange
                      \/ /\ UNCHANGED <<conn, db>>
                         /\ \E s \in Sessions, d \in Depths :
                              \/ \E h \in Stmts : Acquire(s, d, h)
                              \/ Lose(s, d) \/ Finish(s, d)
                   /\ RecurseInv'
<1>1. CASE UNCHANGED <<frame, depth, stmtOf>>
  BY <1>1 DEF NoChange, HeldKept, Held, RecurseInv
<1>2. ASSUME NEW s \in Sessions,
             \/ New(s) \/ Close(s) \/ Release(s) \/ Exec(s)
             \/ \E a \in OpenArgs, e \in {"opens", "fails", "nomem"} : Open(s, a, e)
      PROVE  UNCHANGED <<frame, depth, stmtOf>>
  BY <1>2 DEF New, Close, Release, Exec, Open, queryVars, libVars
<1>3. ASSUME NEW s \in Sessions, depth[s] > 0, NEW f \in Frames, f.stmt = Top(s).stmt,
             f.pc # "recurse", frame' = [frame EXCEPT ![s][depth[s]] = f],
             UNCHANGED <<depth, stmtOf>>
      PROVE  Goal
  BY <1>3, TopType, FieldHeld, SetFrame DEF NoChange
<1>4. ASSUME NEW s \in Sessions, NEW sql \in Scripts, Query(s, sql) PROVE Goal
  <2>1. depth[s] + 1 \in Depths /\ Held(s, depth[s] + 1) = NULL
    BY <1>4 DEF Query, TypeOK, Held
  <2>2. /\ [EmptyFrame EXCEPT !.sql = sql, !.rest = sql] \in Frames
        /\ [EmptyFrame EXCEPT !.sql = sql, !.rest = sql].stmt = NULL
    BY QueryFrameType DEF EmptyFrame
  <2> QED
    BY <1>4, <2>1, <2>2, CompileStatements DEF Query, Compile
<1>5. ASSUME NEW s \in Sessions, Recurse(s) PROVE Goal
  <2>1. depth[s] \in Depths /\ Top(s) \in Frames
    BY <1>5, TopType DEF Recurse, At
  <2>2. Held(s, depth[s]) = NULL /\ Top(s).stmt = NULL
    BY <1>5, <2>1 DEF Recurse, At, Top, RecurseInv, Held
  <2> QED
    BY <1>5, <2>1, <2>2, CompileStatements DEF Recurse, Compile
<1>6. ASSUME NEW s \in Sessions, StepRow(s) PROVE Goal
  <2> DEFINE f == [Top(s) EXCEPT !.pc = "callback", !.num = stmtNum]
  <2>1. f \in Frames /\ f.stmt = Top(s).stmt /\ f.pc # "recurse"
    BY <1>6, TopType DEF StepRow, At, TypeOK, Frames
  <2>2. frame' = [frame EXCEPT ![s][depth[s]] = f]
    BY <1>6, TopType DEF StepRow, At, TypeOK, Top, Frames
  <2> QED
    BY <1>3, <1>6, <2>1, <2>2 DEF StepRow, At, libVars
<1>7. ASSUME NEW s \in Sessions, StepEnd(s) PROVE Goal
  <2> DEFINE f == [Top(s) EXCEPT !.pc = "finalize"]
  <2>1. f \in Frames /\ f.stmt = Top(s).stmt /\ f.pc # "recurse"
    BY <1>7, TopType DEF StepEnd, At, Frames
  <2>2. frame' = [frame EXCEPT ![s][depth[s]] = f]
    BY <1>7, TopType DEF StepEnd, At, TypeOK, Top, Frames
  <2> QED
    BY <1>3, <1>7, <2>1, <2>2 DEF StepEnd, At, libVars
<1>8. ASSUME NEW s \in Sessions, NEW go \in BOOLEAN, CallbackReturns(s, go) PROVE Goal
  <2> DEFINE f == [Top(s) EXCEPT !.pc = IF go THEN "step" ELSE "finalize",
                                 !.stopped = @ \/ ~go]
  <2>1. f \in Frames /\ f.stmt = Top(s).stmt /\ f.pc # "recurse"
    BY <1>8, TopType DEF CallbackReturns, At, Frames
  <2>2. frame' = [frame EXCEPT ![s][depth[s]] = f]
    BY <1>8, TopType DEF CallbackReturns, At, TypeOK, Top, Frames
  <2> QED
    BY <1>3, <1>8, <2>1, <2>2 DEF CallbackReturns, At, libVars
<1>9. ASSUME NEW s \in Sessions, CallbackThrows(s) PROVE Goal
  <2>1. depth[s] \in Depths
    BY <1>9, TopType DEF CallbackThrows, At
  <2>2. Lose(s, depth[s])
    BY <1>9, <2>1, ReturnHeld DEF CallbackThrows, Lose, libVars
  <2>3. RecurseInv'
    BY <1>9, <2>1, EmptyFrameType, SetFrame DEF CallbackThrows, Return, EmptyFrame
  <2> QED
    BY <1>9, <2>1, <2>2, <2>3 DEF CallbackThrows, libVars
<1>10. ASSUME NEW s \in Sessions, Finalize(s) PROVE Goal
  <2>1. depth[s] \in Depths /\ Top(s) \in Frames /\ Top(s).stmt = Held(s, depth[s])
    BY <1>10, TopType DEF Finalize, At, Top, Held
  <2>2. stmtOf' = [x \in Stmts |-> IF x = Held(s, depth[s]) THEN NULL ELSE stmtOf[x]]
    BY <1>10, <2>1 DEF Finalize
  <2>3. CASE Return(s, depth[s], "ok")
    <3>1. HeldChanges(s, depth[s], NULL)
      BY <2>1, <2>3, ReturnHeld
    <3>2. RecurseInv'
      BY <2>1, <2>3, EmptyFrameType, SetFrame DEF Return, EmptyFrame
    <3> QED
      BY <1>10, <2>1, <2>2, <3>1, <3>2 DEF Finalize, Finish
  <2>4. CASE Enter(s, depth[s], [Top(s) EXCEPT !.pc = "recurse", !.stmt = NULL])
    <3> DEFINE f == [Top(s) EXCEPT !.pc = "recurse", !.stmt = NULL]
    <3>1. f \in Frames /\ f.stmt = NULL
      BY <2>1 DEF Frames
    <3> HIDE DEF f
    <3>2. HeldChanges(s, depth[s], NULL)
      BY <2>1, <2>4, <3>1, EnterHeld DEF f
    <3>3. RecurseInv'
      BY <2>1, <2>4, <3>1, SetFrame DEF Enter, f
    <3> QED
      BY <1>10, <2>1, <2>2, <3>2, <3>3 DEF Finalize, Finish
  <2> QED
    BY <1>10, <2>3, <2>4 DEF Finalize
<1>11. CASE UNCHANGED vars
  BY <1>1, <1>11 DEF vars, queryVars, libVars
<1> HIDE DEF Goal
<1>12. Goal
  BY <1>1, <1>2, <1>4, <1>5, <1>6, <1>7, <1>8, <1>9, <1>10, <1>11 DEF Next, Goal
<1> QED
  BY <1>12 DEF Goal

\* A connection with an unfinalized statement stays open, whoever closes it.
LEMMA BusyStaysOpen ==
  ASSUME TypeOK, [Next]_vars, NEW h \in Stmts,
         stmtOf[h] # NULL, db[stmtOf[h]] = "open"
  PROVE  db'[stmtOf[h]] = "open"
<1>1. CASE UNCHANGED db
  BY <1>1
<1>2. ASSUME NEW s \in Sessions, Close(s) \/ Release(s) PROVE db'[stmtOf[h]] = "open"
  BY <1>2 DEF Close, Release, CloseConn, sqlite3_close, TypeOK
<1>3. ASSUME NEW s \in Sessions, NEW a \in OpenArgs,
             NEW e \in {"opens", "fails", "nomem"}, Open(s, a, e)
      PROVE  db'[stmtOf[h]] = "open"
  <2>1. UNCHANGED db \/ \E c \in Conns, v \in {"open", "sick"} :
          db[c] = "free" /\ db' = [db EXCEPT ![c] = v]
    BY <1>3 DEF Open
  <2> QED
    BY <2>1 DEF TypeOK
<1>4. ASSUME NEW s \in Sessions,
             \/ New(s) \/ Exec(s) \/ \E sql \in Scripts : Query(s, sql)
             \/ StepRow(s) \/ StepEnd(s) \/ CallbackThrows(s)
             \/ Finalize(s) \/ Recurse(s)
             \/ \E go \in BOOLEAN : CallbackReturns(s, go)
      PROVE  UNCHANGED db
  BY <1>4 DEF New, Exec, Query, Compile, StepRow, StepEnd, CallbackThrows,
              Finalize, Recurse, CallbackReturns, libVars
<1>5. CASE UNCHANGED vars
  BY <1>1, <1>5 DEF vars, libVars
<1> QED
  BY <1>1, <1>2, <1>3, <1>4, <1>5 DEF Next

\* Every step preserves FrameInv, by the four things it may do to statements.
LEMMA FrameStep ==
  ASSUME TypeOK, RecurseInv, FrameInv, [Next]_vars
  PROVE  FrameInv'
<1>1. CASE NoChange
  BY <1>1, BusyStaysOpen DEF NoChange, HeldKept, FrameInv
<1>2. ASSUME NEW s \in Sessions, NEW d \in Depths, NEW h \in Stmts,
             UNCHANGED <<conn, db>>, Acquire(s, d, h)
      PROVE  FrameInv'
  <2>1. stmtOf'[h] = conn[s] /\ conn[s] # NULL /\ db[conn[s]] = "open" /\ h # NULL
    BY <1>2 DEF Acquire, Usable, TypeOK
  <2>2. \A x \in Stmts : x # h => stmtOf'[x] = stmtOf[x]
    BY <1>2 DEF Acquire, TypeOK
  <2>3. \A t \in Sessions, e \in Depths : Held(t, e) # h
    BY <1>2, <2>1 DEF Acquire, FrameInv
  <2>4. \A t \in Sessions, e \in Depths :
          Held(t, e)' = IF t = s /\ e = d THEN h ELSE Held(t, e)
    BY <1>2 DEF Acquire, HeldChanges
  <2>5. (\A x \in Stmts : stmtOf[x] # NULL => db[stmtOf[x]] = "open")'
    BY <1>2, <2>1, <2>2 DEF FrameInv
  <2>6. (\A t \in Sessions, e \in Depths : Held(t, e) # NULL => stmtOf[Held(t, e)] # NULL)'
    BY <2>1, <2>2, <2>3, <2>4, HeldType DEF FrameInv
  <2>7. (\A t, u \in Sessions : \A e, g \in Depths :
           Held(t, e) = Held(u, g) /\ Held(t, e) # NULL => t = u /\ e = g)'
    BY <2>3, <2>4 DEF FrameInv
  <2> QED
    BY <2>5, <2>6, <2>7 DEF FrameInv
<1>3. ASSUME NEW s \in Sessions, NEW d \in Depths, UNCHANGED <<conn, db>>, Lose(s, d)
      PROVE  FrameInv'
  BY <1>3 DEF Lose, HeldChanges, FrameInv
<1>4. ASSUME NEW s \in Sessions, NEW d \in Depths, UNCHANGED <<conn, db>>, Finish(s, d)
      PROVE  FrameInv'
  <2>1. \A t \in Sessions, e \in Depths :
          Held(t, e)' = IF t = s /\ e = d THEN NULL ELSE Held(t, e)
    BY <1>4 DEF Finish, HeldChanges
  <2>2. \A x \in Stmts : stmtOf'[x] = IF x = Held(s, d) THEN NULL ELSE stmtOf[x]
    BY <1>4 DEF Finish
  <2>3. (\A x \in Stmts : stmtOf[x] # NULL => db[stmtOf[x]] = "open")'
    BY <1>4, <2>2 DEF FrameInv
  <2>4. ASSUME NEW t \in Sessions, NEW e \in Depths, Held(t, e)' # NULL
        PROVE  stmtOf'[Held(t, e)'] # NULL
    <3>1. ~(t = s /\ e = d) /\ Held(t, e)' = Held(t, e)
      BY <2>1, <2>4
    <3>2. Held(t, e) # Held(s, d) /\ Held(t, e) \in Stmts
      BY <2>4, <3>1, HeldType DEF FrameInv
    <3> QED
      BY <2>2, <2>4, <3>1, <3>2 DEF FrameInv
  <2>5. (\A t, u \in Sessions : \A e, g \in Depths :
           Held(t, e) = Held(u, g) /\ Held(t, e) # NULL => t = u /\ e = g)'
    BY <2>1 DEF FrameInv
  <2> QED
    BY <2>3, <2>4, <2>5 DEF FrameInv
<1> QED
  BY <1>1, <1>2, <1>3, <1>4, StepStatements

\* The statements in use are live, and held once, throughout.
LEMMA FrameInvariant == Spec => [](TypeOK /\ ConnInv /\ RecurseInv /\ FrameInv)
<1>1. Init => RecurseInv /\ FrameInv
  BY DEF Init, RecurseInv, FrameInv, EmptyFrame, Held
<1>2. TypeOK /\ RecurseInv /\ FrameInv /\ [Next]_vars => RecurseInv' /\ FrameInv'
  BY FrameStep, StepStatements
<1> QED
  BY <1>1, <1>2, ConnInvariant, PTL DEF Spec

\* The statement a call is stepping is allocated, on an open connection, and
\* held by no other call, for every application and every nesting of calls.
THEOREM StatementsLive == Spec => []StatementsInUseAreLive
<1>1. TypeOK /\ FrameInv => StatementsInUseAreLive
  <2> SUFFICES ASSUME TypeOK, FrameInv, NEW s \in Sessions, NEW d \in 1..depth[s],
                      frame[s][d].stmt # NULL
               PROVE  /\ stmtOf[frame[s][d].stmt] # NULL
                      /\ db[stmtOf[frame[s][d].stmt]] = "open"
                      /\ \A t \in Sessions : \A e \in 1..depth[t] :
                           frame[t][e].stmt = frame[s][d].stmt => <<s, d>> = <<t, e>>
    BY DEF StatementsInUseAreLive
  <2>1. \A t \in Sessions : \A e \in 1..depth[t] :
          e \in Depths /\ Held(t, e) = frame[t][e].stmt
    BY DEF TypeOK, Held
  <2> QED
    BY <2>1, HeldType DEF FrameInv
<1> QED
  BY <1>1, FrameInvariant, PTL

------------------------------------------------------------------------------
(* Applications whose callbacks may query, but neither throw nor close, and *)
(* that close before they open again and ask isOpen() before exec().        *)

Disciplined == Habits \subseteq {"nest"}

OwnInv ==
  /\ NoOrphans
  /\ \A h \in Stmts : stmtOf[h] # NULL => \E s \in Sessions, d \in Depths : Held(s, d) = h
  /\ \A s \in Sessions, d \in Depths : Held(s, d) # NULL => stmtOf[Held(s, d)] = conn[s]

Inv == TypeOK /\ ConnInv /\ RecurseInv /\ FrameInv /\ OwnInv

\* A session with no query() under way has no statement left, so that
\* sqlite3_close is not refused.
LEMMA CloseFrees ==
  ASSUME Inv, NEW s \in Sessions, depth[s] = 0, conn[s] # NULL, CloseConn(s)
  PROVE  /\ db' = [db EXCEPT ![conn[s]] = "free"]
         /\ conn' = [conn EXCEPT ![s] = NULL]
<1>1. ASSUME NEW h \in Stmts, stmtOf[h] = conn[s] PROVE FALSE
  <2>1. h # NULL
    OBVIOUS
  <2>2. PICK t \in Sessions, d \in Depths : Held(t, d) = h
    BY <1>1 DEF Inv, OwnInv
  <2>3. conn[t] = conn[s]
    BY <1>1, <2>1, <2>2 DEF Inv, OwnInv
  <2>4. t = s
    BY <2>3 DEF Inv, ConnInv
  <2> QED
    BY <2>1, <2>2, <2>4 DEF Held
<1> QED
  BY <1>1 DEF CloseConn, sqlite3_close

\* What a step can do to the connections.
Keep == UNCHANGED <<conn, db>>

Take(s, c) ==
  /\ depth[s] = 0 /\ conn[s] = NULL /\ db[c] = "free"
  /\ conn' = [conn EXCEPT ![s] = c]
  /\ \E v \in {"open", "sick"} : db' = [db EXCEPT ![c] = v]

GiveBack(s) ==
  /\ depth[s] = 0 /\ conn[s] # NULL
  /\ conn' = [conn EXCEPT ![s] = NULL]
  /\ db' = [db EXCEPT ![conn[s]] = "free"]

\* Under discipline, a step keeps the connections, takes one or gives one back.
LEMMA StepConns ==
  ASSUME Disciplined, Inv, [Next]_vars
  PROVE  Keep \/ \E s \in Sessions : GiveBack(s) \/ \E c \in Conns : Take(s, c)
<1>1. ASSUME NEW s \in Sessions, Close(s) \/ Release(s) PROVE Keep \/ GiveBack(s)
  <2>1. depth[s] = 0 /\ CloseConn(s)
    BY <1>1 DEF Close, Release, MayManage, Disciplined, Inv, TypeOK
  <2>2. CASE conn[s] = NULL
    BY <2>1, <2>2 DEF CloseConn, Keep
  <2>3. CASE conn[s] # NULL
    BY <2>1, <2>3, CloseFrees DEF GiveBack
  <2> QED
    BY <2>2, <2>3
<1>2. ASSUME NEW s \in Sessions, NEW a \in OpenArgs,
             NEW e \in {"opens", "fails", "nomem"}, Open(s, a, e)
      PROVE  Keep \/ \E c \in Conns : Take(s, c)
  <2>1. depth[s] = 0 /\ conn[s] = NULL
    BY <1>2 DEF Open, MayManage, Disciplined, Inv, TypeOK
  <2>2. CASE e = "nomem" /\ conn' = [conn EXCEPT ![s] = NULL] /\ UNCHANGED db
    BY <2>1, <2>2 DEF Keep, Inv, TypeOK
  <2> QED
    BY <1>2, <2>1, <2>2 DEF Open, Keep, Take
<1>3. ASSUME NEW s \in Sessions,
             \/ New(s) \/ Exec(s) \/ \E sql \in Scripts : Query(s, sql)
             \/ StepRow(s) \/ StepEnd(s) \/ CallbackThrows(s)
             \/ Finalize(s) \/ Recurse(s)
             \/ \E go \in BOOLEAN : CallbackReturns(s, go)
      PROVE  Keep
  BY <1>3 DEF New, Exec, Query, Compile, StepRow, StepEnd, CallbackThrows,
              Finalize, Recurse, CallbackReturns, objectVars, libVars, Keep
<1>4. CASE UNCHANGED vars
  BY <1>4 DEF vars, objectVars, libVars, Keep
<1> QED
  BY <1>1, <1>2, <1>3, <1>4 DEF Next

\* So no connection is left without a session,
LEMMA OrphansStep ==
  ASSUME Disciplined, Inv, [Next]_vars
  PROVE  NoOrphans'
<1>1. CASE Keep
  BY <1>1 DEF Keep, NoOrphans, Inv, OwnInv
<1>2. ASSUME NEW s \in Sessions, NEW c \in Conns, Take(s, c) PROVE NoOrphans'
  <2>1. conn'[s] = c /\ \A t \in Sessions : t # s => conn'[t] = conn[t]
    BY <1>2 DEF Take, Inv, TypeOK
  <2>2. \A x \in Conns : x # c => db'[x] = db[x]
    BY <1>2 DEF Take, Inv, TypeOK
  <2> QED
    BY <1>2, <2>1, <2>2 DEF NoOrphans, Inv, OwnInv, Take
<1>3. ASSUME NEW s \in Sessions, GiveBack(s) PROVE NoOrphans'
  <2>1. \A t \in Sessions : t # s => conn'[t] = conn[t]
    BY <1>3 DEF GiveBack, Inv, TypeOK
  <2>2. \A x \in Conns : db'[x] = IF x = conn[s] THEN "free" ELSE db[x]
    BY <1>3 DEF GiveBack, Inv, TypeOK
  <2> QED
    BY <2>1, <2>2 DEF NoOrphans, Inv, OwnInv
<1> QED
  BY <1>1, <1>2, <1>3, StepConns

\* and no statement without a call.
LEMMA OwnStep ==
  ASSUME Disciplined, Inv, [Next]_vars
  PROVE  OwnInv'
<1>1. \A s \in Sessions, d \in Depths : Held(s, d) # NULL => conn'[s] = conn[s]
  <2>1. \A s \in Sessions : depth[s] > 0 => conn'[s] = conn[s]
    BY StepConns DEF Keep, Take, GiveBack, Inv, TypeOK
  <2> QED
    BY <2>1 DEF Held, Inv, TypeOK
<1>2. CASE NoChange
  BY <1>1, <1>2, OrphansStep DEF NoChange, HeldKept, Inv, OwnInv
<1>3. ASSUME NEW s \in Sessions, NEW d \in Depths, NEW h \in Stmts,
             UNCHANGED <<conn, db>>, Acquire(s, d, h)
      PROVE  OwnInv'
  <2>1. \A x \in Stmts : stmtOf'[x] = IF x = h THEN conn[s] ELSE stmtOf[x]
    BY <1>3 DEF Acquire, Inv, TypeOK
  <2>2. \A t \in Sessions, e \in Depths :
          Held(t, e)' = IF t = s /\ e = d THEN h ELSE Held(t, e)
    BY <1>3 DEF Acquire, HeldChanges
  <2>3. Held(s, d) = NULL /\ stmtOf[h] = NULL
    BY <1>3 DEF Acquire
  <2>4. (\A x \in Stmts : stmtOf[x] # NULL =>
           \E t \in Sessions, e \in Depths : Held(t, e) = x)'
    <3> SUFFICES ASSUME NEW x \in Stmts, stmtOf'[x] # NULL
                 PROVE  \E t \in Sessions, e \in Depths : Held(t, e)' = x
      OBVIOUS
    <3>1. CASE x = h
      BY <2>2, <3>1
    <3>2. CASE x # h
      <4>1. PICK t \in Sessions, e \in Depths : Held(t, e) = x
        BY <2>1, <3>2 DEF Inv, OwnInv
      <4>2. ~(t = s /\ e = d)
        BY <2>3, <4>1
      <4> QED
        BY <2>2, <4>1, <4>2
    <3> QED
      BY <3>1, <3>2
  <2>5. (\A t \in Sessions, e \in Depths :
           Held(t, e) # NULL => stmtOf[Held(t, e)] = conn[t])'
    <3> SUFFICES ASSUME NEW t \in Sessions, NEW e \in Depths, Held(t, e)' # NULL
                 PROVE  stmtOf'[Held(t, e)'] = conn'[t]
      OBVIOUS
    <3>1. CASE t = s /\ e = d
      BY <1>3, <2>1, <2>2, <3>1
    <3>2. CASE ~(t = s /\ e = d)
      <4>1. Held(t, e)' = Held(t, e) /\ Held(t, e) # NULL
        BY <2>2, <3>2
      <4>2. Held(t, e) \in Stmts /\ stmtOf[Held(t, e)] # NULL
        BY <4>1, HeldType DEF Inv, FrameInv
      <4>3. Held(t, e) # h
        BY <2>3, <4>2
      <4> QED
        BY <1>3, <2>1, <4>1, <4>2, <4>3 DEF Inv, OwnInv
    <3> QED
      BY <3>1, <3>2
  <2> QED
    BY <2>4, <2>5, OrphansStep DEF OwnInv
<1>4. ASSUME NEW s \in Sessions, NEW d \in Depths, Lose(s, d) PROVE OwnInv'
  BY <1>4 DEF Lose, Disciplined
<1>5. ASSUME NEW s \in Sessions, NEW d \in Depths,
             UNCHANGED <<conn, db>>, Finish(s, d)
      PROVE  OwnInv'
  <2>1. \A x \in Stmts : stmtOf'[x] = IF x = Held(s, d) THEN NULL ELSE stmtOf[x]
    BY <1>5 DEF Finish
  <2>2. \A t \in Sessions, e \in Depths :
          Held(t, e)' = IF t = s /\ e = d THEN NULL ELSE Held(t, e)
    BY <1>5 DEF Finish, HeldChanges
  <2>3. (\A x \in Stmts : stmtOf[x] # NULL =>
           \E t \in Sessions, e \in Depths : Held(t, e) = x)'
    <3> SUFFICES ASSUME NEW x \in Stmts, stmtOf'[x] # NULL
                 PROVE  \E t \in Sessions, e \in Depths : Held(t, e)' = x
      OBVIOUS
    <3>1. x # Held(s, d) /\ stmtOf[x] # NULL
      BY <2>1
    <3>2. PICK t \in Sessions, e \in Depths : Held(t, e) = x
      BY <3>1 DEF Inv, OwnInv
    <3>3. ~(t = s /\ e = d)
      BY <3>1, <3>2
    <3> QED
      BY <2>2, <3>2, <3>3
  <2>4. (\A t \in Sessions, e \in Depths :
           Held(t, e) # NULL => stmtOf[Held(t, e)] = conn[t])'
    <3> SUFFICES ASSUME NEW t \in Sessions, NEW e \in Depths, Held(t, e)' # NULL
                 PROVE  stmtOf'[Held(t, e)'] = conn'[t]
      OBVIOUS
    <3>1. Held(t, e)' = Held(t, e) /\ Held(t, e) # NULL /\ ~(t = s /\ e = d)
      BY <2>2
    <3>2. Held(t, e) \in Stmts /\ Held(t, e) # Held(s, d)
      BY <3>1, HeldType DEF Inv, FrameInv
    <3> QED
      BY <1>5, <2>1, <3>1, <3>2 DEF Inv, OwnInv
  <2> QED
    BY <2>3, <2>4, OrphansStep DEF OwnInv
<1> QED
  BY <1>2, <1>3, <1>4, <1>5, StepStatements DEF Inv

\* OwnInv is established and preserved.
LEMMA InvStep ==
  ASSUME Disciplined
  PROVE  /\ Init => OwnInv
         /\ Inv /\ [Next]_vars => OwnInv'
<1>1. Init => OwnInv
  BY DEF Init, OwnInv, NoOrphans, EmptyFrame, Held
<1> QED
  BY <1>1, OwnStep

\* The whole invariant holds under discipline.
LEMMA Invariant ==
  ASSUME Disciplined
  PROVE  Spec => []Inv
<1>1. Init => OwnInv
  BY InvStep
<1>2. TypeOK /\ ConnInv /\ RecurseInv /\ FrameInv /\ OwnInv /\ [Next]_vars => OwnInv'
  BY InvStep DEF Inv
<1>3. Spec => []OwnInv
  BY <1>1, <1>2, FrameInvariant, PTL DEF Spec
<1> QED
  BY <1>3, FrameInvariant, PTL DEF Inv

\* Disciplined applications leak no connection: whatever sqlite3 still keeps,
\* close() or release() of some session will free.
THEOREM ConnectionsReachable ==
  ASSUME Disciplined
  PROVE  Spec => []NoOrphans
<1>1. Inv => NoOrphans
  BY DEF Inv, OwnInv
<1> QED
  BY <1>1, Invariant, PTL

\* An unfinalized statement always belongs to a query() call under way.
THEOREM StatementsAccounted ==
  ASSUME Disciplined
  PROVE  Spec => []StatementsOwned
<1>1. Inv => StatementsOwned
  <2> SUFFICES ASSUME Inv, NEW h \in Stmts, stmtOf[h] # NULL
               PROVE  \E s \in Sessions : \E d \in 1..depth[s] : frame[s][d].stmt = h
    BY DEF StatementsOwned
  <2>1. PICK s \in Sessions, d \in Depths : Held(s, d) = h
    BY DEF Inv, OwnInv
  <2>2. d \in 1..depth[s] /\ frame[s][d].stmt = h
    BY <2>1 DEF Held, Inv, TypeOK
  <2> QED
    BY <2>2
<1> QED
  BY <1>1, Invariant, PTL

\* exec() never formats the uninitialised message pointer for an application
\* that asks isOpen() first.
THEOREM ExecIsSafe ==
  ASSUME Disciplined
  PROVE  Spec => []NeverCrashes
<1>1. Init => NeverCrashes
  BY DEF Init, NeverCrashes
<1>2. TypeOK /\ ConnInv /\ NeverCrashes /\ [Next]_vars => NeverCrashes'
  <2> SUFFICES ASSUME TypeOK, ConnInv, ~crashed, [Next]_vars PROVE ~crashed'
    BY DEF NeverCrashes
  <2>1. ASSUME NEW s \in Sessions, Exec(s) PROVE ~crashed'
    BY <2>1 DEF Exec, ConnInv, IsOpenHonest, Disciplined
  <2>2. ASSUME NEW s \in Sessions,
               \/ New(s) \/ Close(s) \/ Release(s)
               \/ \E a \in OpenArgs, e \in {"opens", "fails", "nomem"} : Open(s, a, e)
               \/ \E sql \in Scripts : Query(s, sql)
               \/ StepRow(s) \/ StepEnd(s) \/ CallbackThrows(s)
               \/ Finalize(s) \/ Recurse(s)
               \/ \E go \in BOOLEAN : CallbackReturns(s, go)
        PROVE  UNCHANGED crashed
    BY <2>2 DEF New, Close, Release, Open, Query, Compile, StepRow, StepEnd,
                CallbackThrows, Finalize, Recurse, CallbackReturns
  <2> QED
    BY <2>1, <2>2 DEF Next, vars
<1> QED
  BY <1>1, <1>2, ConnInvariant, PTL DEF Spec

\* The backend implements SessionContract for disciplined applications: every
\* step takes a free connection, gives a session's own back, or stutters.
THEOREM ImplementsContract ==
  ASSUME Disciplined
  PROVE  Spec => ContractSpec
<1> DEFINE kept == {c \in Conns : db[c] # "free"}
<1>1. Init => Contract!Init
  BY DEF Init, Contract!Init
<1>2. Inv /\ [Next]_vars => [Contract!Next]_Contract!contractVars
  <2> SUFFICES ASSUME Inv, [Next]_vars
               PROVE  Contract!Next \/ UNCHANGED <<conn, kept>>
    BY DEF Contract!contractVars
  <2>1. CASE Keep
    BY <2>1 DEF Keep
  <2>2. ASSUME NEW s \in Sessions, NEW c \in Conns, Take(s, c) PROVE Contract!Open(s)
    <3>1. c \in Conns \ kept
      BY <2>2 DEF Take
    <3>2. kept' = kept \cup {c}
      BY <2>2 DEF Take, Inv, TypeOK
    <3> QED
      BY <2>2, <3>1, <3>2 DEF Take, Contract!Open
  <2>3. ASSUME NEW s \in Sessions, GiveBack(s) PROVE Contract!Close(s)
    <3>1. kept' = kept \ {conn[s]}
      BY <2>3 DEF GiveBack, Inv, TypeOK
    <3> QED
      BY <2>3, <3>1 DEF GiveBack, Contract!Close
  <2> QED
    BY <2>1, <2>2, <2>3, StepConns DEF Contract!Next
<1> QED
  BY <1>1, <1>2, Invariant, PTL DEF Spec, ContractSpec, Contract!Spec
==============================================================================
