------------------------ MODULE SessionContract_proofs ------------------------
(* What a backend gains by implementing SessionContract.                     *)
EXTENDS SessionContract, TLAPS

\* Links are connections of the library, which makes Accounted inductive.
ContractInv ==
  /\ link \in [Sessions -> Conns \cup {NULL}]
  /\ held \subseteq Conns
  /\ Accounted

\* The connections the library keeps are exactly those of the sessions, and no
\* two sessions share one, however many there are.
THEOREM ContractAccounted ==
  ASSUME NULL \notin Conns
  PROVE  Spec => []Accounted
<1>1. Init => ContractInv
  BY DEF Init, ContractInv, Accounted
<1>2. ContractInv /\ [Next]_contractVars => ContractInv'
  <2> SUFFICES ASSUME ContractInv, [Next]_contractVars PROVE ContractInv'
    OBVIOUS
  <2>1. ASSUME NEW s \in Sessions, Open(s) PROVE ContractInv'
    <3>1. PICK c \in Conns \ held : /\ link' = [link EXCEPT ![s] = c]
                                    /\ held' = held \cup {c}
      BY <2>1 DEF Open
    <3>2. \A t \in Sessions : link'[t] = IF t = s THEN c ELSE link[t]
      BY <3>1 DEF ContractInv
    <3>3. c # NULL /\ link[s] = NULL /\ \A t \in Sessions : link[t] # c
      BY <2>1 DEF Open, ContractInv, Accounted
    <3>4. held' = {link'[t] : t \in Sessions} \ {NULL}
      BY <3>1, <3>2, <3>3 DEF ContractInv, Accounted
    <3>5. \A t, u \in Sessions : link'[t] = link'[u] /\ link'[t] # NULL => t = u
      BY <3>2, <3>3 DEF ContractInv, Accounted
    <3> QED
      BY <3>1, <3>4, <3>5 DEF ContractInv, Accounted
  <2>2. ASSUME NEW s \in Sessions, Close(s) PROVE ContractInv'
    <3>1. \A t \in Sessions : link'[t] = IF t = s THEN NULL ELSE link[t]
      BY <2>2 DEF Close, ContractInv
    <3>2. held' = {link'[t] : t \in Sessions} \ {NULL}
      BY <2>2, <3>1 DEF Close, ContractInv, Accounted
    <3>3. \A t, u \in Sessions : link'[t] = link'[u] /\ link'[t] # NULL => t = u
      BY <3>1 DEF ContractInv, Accounted
    <3> QED
      BY <2>2, <3>2, <3>3 DEF Close, ContractInv, Accounted
  <2>3. CASE UNCHANGED contractVars
    BY <2>3 DEF contractVars, ContractInv, Accounted
  <2> QED
    BY <2>1, <2>2, <2>3 DEF Next
<1>3. ContractInv => Accounted
  BY DEF ContractInv
<1> QED
  BY <1>1, <1>2, <1>3, PTL DEF Spec
==============================================================================
