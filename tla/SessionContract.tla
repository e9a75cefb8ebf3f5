--------------------------- MODULE SessionContract ---------------------------
(***************************************************************************)
(* What headers/Session.h promises about connections, whatever the kind of *)
(* database: a session that was opened holds one connection of its client  *)
(* library, close() and release() give that very connection back, and the  *)
(* library holds no connection that no session can reach.                  *)
(*                                                                         *)
(* The backends are shown to implement this specification under the        *)
(* mapping                                                                 *)
(*     link  <- the session's conn pointer                                 *)
(*     held  <- the connections that the client library keeps allocated.   *)
(***************************************************************************)
CONSTANTS
  Sessions,   \* session objects
  Conns,      \* connection handles of the client library
  NULL        \* the null pointer

VARIABLES
  link,       \* link[s]: the connection of session s, or NULL
  held        \* the connections the client library has allocated

contractVars == <<link, held>>

Init ==
  /\ link = [s \in Sessions |-> NULL]
  /\ held = {}

\* open(): the session had no connection and takes a new one. A failed open()
\* may leave the handle of the failed attempt for close() to free.
Open(s) ==
  /\ link[s] = NULL
  /\ \E c \in Conns \ held :
       /\ link' = [link EXCEPT ![s] = c]
       /\ held' = held \cup {c}

\* close() or release(): the session's connection is given back.
Close(s) ==
  /\ link[s] # NULL
  /\ held' = held \ {link[s]}
  /\ link' = [link EXCEPT ![s] = NULL]

Next == \E s \in Sessions : Open(s) \/ Close(s)

Spec == Init /\ [][Next]_contractVars

------------------------------------------------------------------------------

\* The connections the library has allocated are exactly those the sessions
\* can still reach, and no two sessions share one.
Accounted ==
  /\ held = {link[s] : s \in Sessions} \ {NULL}
  /\ \A s, t \in Sessions : link[s] = link[t] /\ link[s] # NULL => s = t
==============================================================================
