------------------------- MODULE OnceStream_proofs -------------------------
(***************************************************************************)
(* Theorems about OnceStream for any objects, texts, keys and values.      *)
(***************************************************************************)
EXTENDS OnceStream, FiniteSetTheorems, SequenceTheorems, WellFoundedInduction, TLAPS

------------------------------------------------------------------------------
(* Objects are released.                                                   *)

\* What is left are objects; so that between two statements, where once is NULL, it is
\* those that threw.
HeapInv ==
  /\ ReleasedUnlessThrown
  /\ live \subseteq Objects

\* A step that neither makes nor deletes an object.
LEMMA Same ==
  ASSUME HeapInv, UNCHANGED <<live, once, threw>>
  PROVE  HeapInv'
BY DEF HeapInv, ReleasedUnlessThrown

\* The statement ends with its object deleted.
LEMMA Deleted ==
  ASSUME HeapInv, once # NULL, NULL \notin Objects,
         once' = NULL, live' = live \ {once}, UNCHANGED threw
  PROVE  HeapInv'
BY DEF HeapInv, ReleasedUnlessThrown

\* The statement ends with an exception.
LEMMA Left ==
  ASSUME HeapInv, once # NULL, NULL \notin Objects, Throw
  PROVE  HeapInv'
BY DEF HeapInv, ReleasedUnlessThrown, Throw, EndStatement

\* Every step keeps it.
LEMMA NextHeap ==
  ASSUME HeapInv, [Next]_vars
  PROVE  HeapInv'
<1> USE OnceAssumption
<1>1. CASE UNCHANGED vars
  BY <1>1, Same DEF vars
<1>2. ASSUME NEW o \in Objects, NEW piece \in Pieces, Begin(o, piece) PROVE HeapInv'
  BY <1>2 DEF Begin, HeapInv, ReleasedUnlessThrown
<1>3. ASSUME NEW piece \in Pieces, Stream(piece) PROVE HeapInv'
  BY <1>3, Same DEF Stream
<1>4. ASSUME NEW v \in Values, UsePositional(v) PROVE HeapInv'
  BY <1>4, Same DEF UsePositional
<1>5. ASSUME NEW k \in Keys, NEW v \in Values, UseKeyed(k, v) PROVE HeapInv'
  BY <1>5, Same, Left DEF UseKeyed
<1>6. ASSUME NEW target \in Targets, IntoReleases(target) PROVE HeapInv'
  BY <1>6, Deleted DEF IntoReleases, EndStatement
<1>7. ASSUME NEW target \in Targets, IntoThrows(target) PROVE HeapInv'
  BY <1>7, Left DEF IntoThrows
<1>8. ASSUME NEW target \in Targets, IntoCrashes(target) PROVE HeapInv'
  BY <1>8, Same DEF IntoCrashes
<1> QED
  BY <1>1, <1>2, <1>3, <1>4, <1>5, <1>6, <1>7, <1>8 DEF Next

\* Once.h:50: every object is there as long as its statement is under way and deleted by
\* the into() that ends it, unless that is left by an exception.
THEOREM ObjectsReleased == Spec => []ReleasedUnlessThrown
<1>1. Init => HeapInv
  BY DEF Init, HeapInv, ReleasedUnlessThrown
<1>2. HeapInv /\ [Next]_vars => HeapInv'
  BY NextHeap
<1>3. HeapInv => ReleasedUnlessThrown
  BY DEF HeapInv
<1> QED
  BY <1>1, <1>2, <1>3, PTL DEF Spec

------------------------------------------------------------------------------
(* Induction.                                                              *)

\* Induction up to N, for a set of numbers: an operator cannot be instantiated.
LEMMA Upwards ==
  ASSUME NEW N \in Nat, NEW G, 0 \in G, \A m \in 0..N - 1 : m \in G => m + 1 \in G
  PROVE  \A m \in 0..N : m \in G
<1> SUFFICES ASSUME NEW k \in 0..N, k \notin G PROVE FALSE
  OBVIOUS
<1> DEFINE bad == {m \in Nat : m <= N /\ m \notin G}
<1>1. bad \in SUBSET Nat /\ bad # {}
  OBVIOUS
<1>2. PICK m \in bad : \A n \in bad : ~(<<n, m>> \in OpToRel(<, Nat))
  BY <1>1, NatLessThanWellFounded, WFMin
<1>3. m # 0 /\ m - 1 \in Nat /\ m <= N /\ m \notin G
  OBVIOUS
<1>4. <<m - 1, m>> \in OpToRel(<, Nat)
  BY <1>3 DEF OpToRel
<1>5. m - 1 \notin bad
  BY <1>2, <1>4
<1> QED
  BY <1>3, <1>5

\* The same from N down.
LEMMA Downwards ==
  ASSUME NEW N \in Nat, NEW G, N \in G, \A m \in 0..N - 1 : m + 1 \in G => m \in G
  PROVE  \A m \in 0..N : m \in G
<1> DEFINE H == {m \in 0..N : N - m \in G}
<1>1. 0 \in H
  OBVIOUS
<1>2. \A m \in 0..N - 1 : m \in H => m + 1 \in H
  <2> TAKE m \in 0..N - 1
  <2> HAVE m \in H
  <2>1. N - (m + 1) \in 0..N - 1 /\ (N - (m + 1)) + 1 = N - m
    OBVIOUS
  <2>2. (N - (m + 1)) + 1 \in G
    BY <2>1
  <2> QED
    BY <2>1, <2>2
<1> HIDE DEF H
<1>3. \A m \in 0..N : m \in H
  BY <1>1, <1>2, Upwards
<1> QED
  <2> TAKE m \in 0..N
  <2>1. N - m \in 0..N /\ N - (N - m) = m
    OBVIOUS
  <2>2. N - m \in H
    BY <2>1, <1>3
  <2> QED
    BY <2>1, <2>2 DEF H

------------------------------------------------------------------------------
(* FlattenSeq.                                                             *)

Flattens(f, s) ==
  f = [i \in 1..Len(s) |-> IF i = 1 THEN s[i] ELSE f[i - 1] \o s[i]]

LEMMA FlattenExists ==
  ASSUME NEW S, NEW s \in Seq(Seq(S))
  PROVE  \E f \in [1..Len(s) -> Seq(S)] : Flattens(f, s)
<1> DEFINE N == Len(s)
           Up(f, m) == \A i \in 1..m : f[i] = IF i = 1 THEN s[i] ELSE f[i - 1] \o s[i]
           G == {m \in 0..N : \E f \in [1..m -> Seq(S)] : Up(f, m)}
<1>0. N \in Nat /\ \A i \in 1..N : s[i] \in Seq(S)
  OBVIOUS
<1>1. 0 \in G
  <2> DEFINE f == [i \in 1..0 |-> <<>>]
  <2>1. f \in [1..0 -> Seq(S)] /\ 0 \in 0..N
    BY <1>0
  <2>2. Up(f, 0)
    OBVIOUS
  <2> QED
    BY <2>1, <2>2
<1>2. ASSUME NEW m \in 0..N - 1, m \in G PROVE m + 1 \in G
  <2>1. PICK f \in [1..m -> Seq(S)] : Up(f, m)
    BY <1>2
  <2>2. m + 1 \in 1..N /\ m + 1 \in 0..N
    BY <1>0
  <2> DEFINE new == IF m = 0 THEN s[1] ELSE f[m] \o s[m + 1]
             g == [i \in 1..m + 1 |-> IF i = m + 1 THEN new ELSE f[i]]
  <2>3. new \in Seq(S)
    <3>1. CASE m = 0
      BY <3>1, <1>0, <2>2
    <3>2. CASE m # 0
      <4>1. f[m] \in Seq(S) /\ s[m + 1] \in Seq(S)
        BY <3>2, <1>0, <2>2
      <4> QED
        BY <4>1, <3>2
    <3> QED
      BY <3>1, <3>2
  <2> HIDE DEF new
  <2>4. g \in [1..m + 1 -> Seq(S)]
    BY <2>3
  <2>5. ASSUME NEW i \in 1..m + 1 PROVE g[i] = IF i = 1 THEN s[i] ELSE g[i - 1] \o s[i]
    <3>1. CASE i = m + 1
      BY <3>1, <1>0 DEF new
    <3>2. CASE i # m + 1
      <4>1. i \in 1..m /\ (i # 1 => i - 1 \in 1..m)
        BY <3>2, <1>0
      <4>2. g[i] = f[i] /\ (i # 1 => g[i - 1] = f[i - 1])
        BY <4>1, <1>0
      <4>3. f[i] = IF i = 1 THEN s[i] ELSE f[i - 1] \o s[i]
        BY <4>1, <2>1
      <4> QED
        BY <4>2, <4>3
    <3> QED
      BY <3>1, <3>2
  <2> HIDE DEF g
  <2> QED
    BY <2>2, <2>4, <2>5
<1> HIDE DEF G
<1>3. \A m \in 0..N : m \in G
  BY <1>0, <1>1, <1>2, Upwards
<1>4. PICK f \in [1..N -> Seq(S)] : Up(f, N)
  <2>1. N \in G
    BY <1>0, <1>3
  <2> QED
    BY <2>1 DEF G
<1>5. f = [i \in 1..N |-> IF i = 1 THEN s[i] ELSE f[i - 1] \o s[i]]
  BY <1>4
<1> QED
  BY <1>5 DEF Flattens

\* That f is the recursion of FlattenSeq on s, as far as n.
Turns(f, s, n) == \A i \in 1..n : f[i] = IF i = 1 THEN s[i] ELSE f[i - 1] \o s[i]

\* The function that FlattenSeq defines, and that it is the last of it.
LEMMA FlattenFunction ==
  ASSUME NEW S, NEW s \in Seq(Seq(S)), s # <<>>
  PROVE  \E f \in [1..Len(s) -> Seq(S)] :
           FlattenSeq(s) = f[Len(s)] /\ Turns(f, s, Len(s))
<1> DEFINE N == Len(s)
           flat == CHOOSE f : Flattens(f, s)
<1>0. N \in Nat /\ N # 0 /\ \A i \in 1..N : s[i] \in Seq(S)
  OBVIOUS
<1>1. FlattenSeq(s) = flat[N]
  BY <1>0, Zenon DEF FlattenSeq, Flattens
<1>2. Flattens(flat, s)
  BY FlattenExists
<1> HIDE DEF flat
<1>3. flat = [i \in 1..N |-> flat[i]]
  BY <1>2 DEF Flattens
<1>4. \A i \in 1..N : flat[i] = IF i = 1 THEN s[i] ELSE flat[i - 1] \o s[i]
  BY <1>2 DEF Flattens
<1>5. \A m \in 0..N : m \in {i \in 0..N : i # 0 => flat[i] \in Seq(S)}
  <2> DEFINE G == {i \in 0..N : i # 0 => flat[i] \in Seq(S)}
  <2>1. 0 \in G
    BY <1>0
  <2>2. \A m \in 0..N - 1 : m \in G => m + 1 \in G
    <3> TAKE m \in 0..N - 1
    <3> HAVE m \in G
    <3>1. m + 1 \in 1..N /\ m + 1 \in 0..N /\ s[m + 1] \in Seq(S) /\ m + 1 - 1 = m
      BY <1>0
    <3>2. flat[m + 1] = IF m = 0 THEN s[m + 1] ELSE flat[m] \o s[m + 1]
      BY <1>4, <3>1
    <3>3. CASE m = 0
      BY <3>1, <3>2, <3>3
    <3>4. CASE m # 0
      <4>1. flat[m] \in Seq(S)
        BY <3>4
      <4>2. flat[m] \o s[m + 1] \in Seq(S)
        BY <4>1, <3>1
      <4> QED
        BY <3>1, <3>2, <3>4, <4>2
    <3> QED
      BY <3>3, <3>4
  <2> HIDE DEF G
  <2>3. \A m \in 0..N : m \in G
    BY <1>0, <2>1, <2>2, Upwards
  <2> QED
    BY <2>3 DEF G
<1>6. flat \in [1..N -> Seq(S)]
  <2>1. \A i \in 1..N : flat[i] \in Seq(S)
    BY <1>0, <1>5
  <2> QED
    BY <1>3, <2>1
<1> QED
  BY <1>1, <1>4, <1>6 DEF Turns

LEMMA FlattenEmpty == FlattenSeq(<<>>) = <<>>
<1>1. Len(<<>>) = 0
  OBVIOUS
<1> QED
  BY <1>1, Zenon DEF FlattenSeq

LEMMA FlattenType ==
  ASSUME NEW S, NEW s \in Seq(Seq(S))
  PROVE  FlattenSeq(s) \in Seq(S)
<1>1. CASE s = <<>>
  <2>1. <<>> \in Seq(S)
    OBVIOUS
  <2> QED
    BY <1>1, <2>1, FlattenEmpty, Zenon
<1>2. CASE s # <<>>
  <2>1. PICK f \in [1..Len(s) -> Seq(S)] : FlattenSeq(s) = f[Len(s)]
    BY <1>2, FlattenFunction
  <2>2. Len(s) \in 1..Len(s)
    BY <1>2
  <2> QED
    BY <2>1, <2>2
<1> QED
  BY <1>1, <1>2

\* One turn of its recursion.
Turn(f, s, m) == (m = 0 => f[m + 1] = s[m + 1]) /\ (m # 0 => f[m + 1] = f[m] \o s[m + 1])

LEMMA FlattenTurn ==
  ASSUME NEW N \in Nat, NEW f, NEW s, Turns(f, s, N), NEW m \in 0..N - 1
  PROVE  Turn(f, s, m)
<1>1. m + 1 \in 1..N /\ (m + 1 = 1 <=> m = 0) /\ m + 1 - 1 = m
  OBVIOUS
<1>2. f[m + 1] = IF m + 1 = 1 THEN s[m + 1] ELSE f[m + 1 - 1] \o s[m + 1]
  BY <1>1 DEF Turns
<1> QED
  BY <1>1, <1>2 DEF Turn

LEMMA FlattenAppend ==
  ASSUME NEW S, NEW s \in Seq(Seq(S)), NEW b \in Seq(S)
  PROVE  FlattenSeq(Append(s, b)) = FlattenSeq(s) \o b
<1> DEFINE N == Len(s)  t == Append(s, b)
<1>0. /\ N \in Nat /\ t \in Seq(Seq(S)) /\ t # <<>> /\ Len(t) = N + 1
      /\ t[N + 1] = b /\ \A i \in 1..N : t[i] = s[i]
  BY AppendProperties
<1> HIDE DEF t
<1>1. PICK g \in [1..Len(t) -> Seq(S)] : FlattenSeq(t) = g[Len(t)] /\ Turns(g, t, Len(t))
  BY <1>0, FlattenFunction
<1>2. ASSUME NEW m \in 0..N
      PROVE  (m = 0 => g[m + 1] = t[m + 1]) /\ (m # 0 => g[m + 1] = g[m] \o t[m + 1])
  <2>1. Len(t) \in Nat /\ m \in 0..Len(t) - 1
    BY <1>0
  <2> QED
    BY <1>1, <2>1, FlattenTurn DEF Turn
<1>3. CASE N = 0
  <2>1. s = <<>> /\ 0 \in 0..N /\ 0 + 1 = Len(t)
    BY <1>0, <1>3
  <2>2. g[0 + 1] = t[0 + 1]
    BY <1>2, <2>1
  <2>3. <<>> \o b = b
    BY ConcatEmptySeq
  <2> QED
    BY <1>0, <1>1, <2>1, <2>2, <2>3, FlattenEmpty DEF t
<1>4. CASE N # 0
  <2>0. s # <<>>
    BY <1>4
  <2>1. PICK f \in [1..N -> Seq(S)] : FlattenSeq(s) = f[N] /\ Turns(f, s, N)
    BY <2>0, FlattenFunction
  <2>2. ASSUME NEW m \in 0..N - 1
        PROVE  (m = 0 => f[m + 1] = s[m + 1]) /\ (m # 0 => f[m + 1] = f[m] \o s[m + 1])
    <3>1. N \in Nat /\ m \in 0..N - 1 /\ Turns(f, s, N)
      BY <1>0, <2>1
    <3>2. Turn(f, s, m)
      <4> HIDE DEF N
      <4> QED
        BY <3>1, FlattenTurn
    <3> QED
      BY <3>2 DEF Turn
  <2> DEFINE G == {i \in 0..N : i # 0 => g[i] = f[i]}
  <2>3. 0 \in G
    BY <1>0
  <2>4. ASSUME NEW m \in 0..N - 1, m # 0 => g[m] = f[m]
        PROVE  g[m + 1] = f[m + 1]
    <3>1. m \in 0..N /\ t[m + 1] = s[m + 1]
      BY <1>0
    <3> QED
      BY <1>2, <2>2, <2>4, <3>1
  <2>5. \A m \in 0..N - 1 : m \in G => m + 1 \in G
    BY <1>0, <2>4
  <2> HIDE DEF G
  <2>6. \A m \in 0..N : m \in G
    BY <1>0, <2>3, <2>5, Upwards
  <2>7. N \in 0..N /\ N \in G
    BY <1>0, <2>6
  <2>8. g[N] = f[N]
    BY <1>4, <2>7 DEF G
  <2>9. g[N + 1] = g[N] \o b
    BY <1>0, <1>2, <1>4, <2>7
  <2> QED
    BY <1>0, <1>1, <2>1, <2>8, <2>9 DEF t
<1> QED
  BY <1>3, <1>4

\* Laws of texts by name: the provers find no instance of an equation between them.
Associates(a, b, c) == (a \o b) \o c = a \o (b \o c)
Moves(a, b, e) == a \o Append(b, e) = Append(a \o b, e)

LEMMA Associative ==
  ASSUME NEW S, NEW a \in Seq(S), NEW b \in Seq(S), NEW c \in Seq(S)
  PROVE  Associates(a, b, c)
BY ConcatAssociative DEF Associates

\* A prefix that is one longer.
LEMMA PrefixGrows ==
  ASSUME NEW S, NEW s \in Seq(S), NEW m \in 0..Len(s) - 1
  PROVE  /\ SubSeq(s, 1, m) \in Seq(S) /\ s[m + 1] \in S
         /\ SubSeq(s, 1, m + 1) = Append(SubSeq(s, 1, m), s[m + 1])
<1>1. /\ SubSeq(s, 1, m) \in Seq(S) /\ Len(SubSeq(s, 1, m)) = m
      /\ \A i \in 1..m : SubSeq(s, 1, m)[i] = s[i]
  OBVIOUS
<1>2. /\ SubSeq(s, 1, m + 1) \in Seq(S) /\ Len(SubSeq(s, 1, m + 1)) = m + 1
      /\ \A i \in 1..m + 1 : SubSeq(s, 1, m + 1)[i] = s[i]
  OBVIOUS
<1>3. s[m + 1] \in S
  OBVIOUS
<1> DEFINE a == SubSeq(s, 1, m)  b == SubSeq(s, 1, m + 1)  c == Append(a, s[m + 1])
<1>4. /\ c \in Seq(S) /\ Len(c) = m + 1 /\ c[m + 1] = s[m + 1]
      /\ \A i \in 1..m : c[i] = s[i]
  BY <1>1, <1>3, AppendProperties
<1> HIDE DEF a, b, c
<1>5. Len(b) = Len(c) /\ \A i \in 1..Len(b) : b[i] = c[i]
  BY <1>2, <1>4 DEF b
<1>6. b = c
  BY <1>2, <1>4, <1>5, SeqEqual DEF b
<1> QED
  BY <1>1, <1>3, <1>6 DEF a, b, c

LEMMA ConcatOfAppend ==
  ASSUME NEW S, NEW s \in Seq(S), NEW t \in Seq(S), NEW e \in S
  PROVE  Moves(s, t, e)
<1>1. Append(t, e) = t \o <<e>> /\ <<e>> \in Seq(S)
  BY AppendIsConcat
<1>2. s \o t \in Seq(S) /\ Append(s \o t, e) = (s \o t) \o <<e>>
  BY ConcatProperties, AppendIsConcat
<1>3. (s \o t) \o <<e>> = s \o (t \o <<e>>)
  BY <1>1, Associative DEF Associates
<1> QED
  BY <1>1, <1>2, <1>3, Zenon DEF Moves

LEMMA FlattenConcat ==
  ASSUME NEW S, NEW s \in Seq(Seq(S)), NEW t \in Seq(Seq(S))
  PROVE  FlattenSeq(s \o t) = FlattenSeq(s) \o FlattenSeq(t)
<1> DEFINE N == Len(t)
           Upto(m) == SubSeq(t, 1, m)
           G == {m \in 0..N : FlattenSeq(s \o Upto(m)) = FlattenSeq(s) \o FlattenSeq(Upto(m))}
<1>1. N \in Nat /\ FlattenSeq(s) \in Seq(S)
  BY FlattenType
<1>2. 0 \in G
  <2>1. Upto(0) = <<>> /\ s \o <<>> = s /\ FlattenSeq(s) \o <<>> = FlattenSeq(s)
    BY <1>1, SubSeqEmpty, ConcatEmptySeq
  <2>2. FlattenSeq(s \o Upto(0)) = FlattenSeq(s) \o FlattenSeq(Upto(0))
    BY <2>1, FlattenEmpty, Zenon
  <2>3. 0 \in 0..N
    BY <1>1
  <2> QED
    BY <2>2, <2>3
<1>3. ASSUME NEW m \in 0..N - 1, m \in G PROVE m + 1 \in G
  <2> DEFINE u == Upto(m)  b == t[m + 1]
  <2>1. u \in Seq(Seq(S)) /\ b \in Seq(S) /\ Upto(m + 1) = Append(u, b)
    BY PrefixGrows
  <2>2. FlattenSeq(s \o u) = FlattenSeq(s) \o FlattenSeq(u)
    BY <1>3
  <2> HIDE DEF u, b
  <2>3. s \o u \in Seq(Seq(S)) /\ FlattenSeq(u) \in Seq(S)
    BY <2>1, ConcatProperties, FlattenType
  <2>4. Moves(s, u, b)
    BY <2>1, ConcatOfAppend
  <2>5. FlattenSeq(Append(s \o u, b)) = FlattenSeq(s \o u) \o b
    BY <2>1, <2>3, FlattenAppend
  <2>6. FlattenSeq(Append(u, b)) = FlattenSeq(u) \o b
    BY <2>1, FlattenAppend
  <2>7. Associates(FlattenSeq(s), FlattenSeq(u), b)
    BY <1>1, <2>1, <2>3, Associative
  <2>8. FlattenSeq(s \o Upto(m + 1)) = FlattenSeq(s) \o FlattenSeq(Upto(m + 1))
    BY <2>1, <2>2, <2>4, <2>5, <2>6, <2>7, Zenon DEF Moves, Associates
  <2>9. m + 1 \in 0..N
    BY <1>1
  <2> QED
    BY <2>8, <2>9
<1>4. \A m \in 0..N - 1 : m \in G => m + 1 \in G
  BY <1>3
<1> HIDE DEF G
<1>5. \A m \in 0..N : m \in G
  BY <1>1, <1>2, <1>4, Upwards
<1>6. N \in G /\ Upto(N) = t
  BY <1>1, <1>5, SubSeqFull
<1> QED
  BY <1>6 DEF G

\* The text before, in and behind the n-th piece.
LEMMA FlattenSplit ==
  ASSUME NEW S, NEW s \in Seq(Seq(S)), NEW n \in 1..Len(s)
  PROVE  LET before == FlattenSeq(SubSeq(s, 1, n - 1))
             after  == FlattenSeq(SubSeq(s, n + 1, Len(s)))
         IN /\ before \in Seq(S) /\ s[n] \in Seq(S) /\ after \in Seq(S)
            /\ FlattenSeq(s) = (before \o s[n]) \o after
<1> DEFINE p == SubSeq(s, 1, n - 1)  q == SubSeq(s, n + 1, Len(s))  a == Append(p, s[n])
<1>1. p \in Seq(Seq(S)) /\ s[n] \in Seq(S) /\ SubSeq(s, 1, n) = a
  <2>1. n - 1 \in 0..Len(s) - 1 /\ n - 1 + 1 = n
    OBVIOUS
  <2> QED
    BY <2>1, PrefixGrows
<1>2. q \in Seq(Seq(S))
  OBVIOUS
<1>3. SubSeq(s, 1, n) \o q = s
  <2>1. 1 \in 1..Len(s) + 1 /\ n \in 1 - 1..Len(s) /\ Len(s) \in n..Len(s)
    OBVIOUS
  <2>2. SubSeq(s, 1, n) \o q = SubSeq(s, 1, Len(s))
    BY <2>1, ConcatAdjacentSubSeq
  <2> QED
    BY <2>2, SubSeqFull
<1> HIDE DEF p, q
<1>4. a \in Seq(Seq(S))
  BY <1>1, AppendProperties
<1>5. FlattenSeq(a \o q) = FlattenSeq(a) \o FlattenSeq(q)
  BY <1>2, <1>4, FlattenConcat
<1>6. FlattenSeq(a) = FlattenSeq(p) \o s[n]
  BY <1>1, FlattenAppend
<1>7. FlattenSeq(p) \in Seq(S) /\ FlattenSeq(q) \in Seq(S)
  BY <1>1, <1>2, FlattenType
<1>8. FlattenSeq(s) = (FlattenSeq(p) \o s[n]) \o FlattenSeq(q)
  BY <1>1, <1>3, <1>5, <1>6, Zenon
<1> QED
  BY <1>1, <1>7, <1>8 DEF p, q

\* Where a character of a text of two, or of three, parts comes from.
Joins(t, a, b) == t = a \o b
Joins3(t, a, b, c) == t = (a \o b) \o c

LEMMA TwoTexts ==
  ASSUME NEW S, NEW a \in Seq(S), NEW b \in Seq(S), NEW t, Joins(t, a, b)
  PROVE  /\ t \in Seq(S) /\ Len(t) = Len(a) + Len(b) /\ Len(a) \in Nat /\ Len(b) \in Nat
         /\ \A i \in 1..Len(a) : t[i] = a[i]
         /\ \A i \in 1..Len(b) : t[Len(a) + i] = b[i]
<1> DEFINE la == Len(a)  lb == Len(b)
<1>1. /\ t \in Seq(S) /\ Len(t) = la + lb
      /\ \A i \in 1..la + lb : t[i] = IF i <= la THEN a[i] ELSE b[i - la]
  BY ConcatProperties, Zenon DEF Joins
<1>2. la \in Nat /\ lb \in Nat
  OBVIOUS
<1> HIDE DEF la, lb
<1>3. ASSUME NEW i \in 1..la PROVE t[i] = a[i]
  <2>1. i \in 1..la + lb /\ i <= la
    BY <1>2
  <2> QED
    BY <1>1, <2>1
<1>4. ASSUME NEW i \in 1..lb PROVE t[la + i] = b[i]
  <2> DEFINE k == la + i
  <2>1. k \in 1..la + lb /\ ~(k <= la) /\ k - la = i
    BY <1>2
  <2> HIDE DEF k
  <2>2. t[k] = IF k <= la THEN a[k] ELSE b[k - la]
    BY <1>1, <2>1
  <2>3. t[k] = b[i]
    BY <2>1, <2>2
  <2> QED
    BY <2>3 DEF k
<1> QED
  BY <1>1, <1>2, <1>3, <1>4 DEF la, lb

LEMMA ThreeTexts ==
  ASSUME NEW S, NEW a \in Seq(S), NEW b \in Seq(S), NEW c \in Seq(S), NEW t, Joins3(t, a, b, c)
  PROVE  /\ t \in Seq(S) /\ Len(t) = Len(a) + Len(b) + Len(c)
         /\ Len(a) \in Nat /\ Len(b) \in Nat /\ Len(c) \in Nat
         /\ \A i \in 1..Len(a) : t[i] = a[i]
         /\ \A i \in 1..Len(b) : t[Len(a) + i] = b[i]
         /\ \A i \in 1..Len(c) : t[Len(a) + Len(b) + i] = c[i]
<1> DEFINE ab == a \o b
<1>1. Joins(ab, a, b) /\ Joins(t, ab, c)
  BY Zenon DEF Joins, Joins3
<1> HIDE DEF ab
<1>2. /\ ab \in Seq(S) /\ Len(ab) = Len(a) + Len(b) /\ Len(a) \in Nat /\ Len(b) \in Nat
      /\ \A i \in 1..Len(a) : ab[i] = a[i]
      /\ \A i \in 1..Len(b) : ab[Len(a) + i] = b[i]
  BY <1>1, TwoTexts
<1>3. /\ t \in Seq(S) /\ Len(t) = Len(ab) + Len(c) /\ Len(c) \in Nat
      /\ \A i \in 1..Len(ab) : t[i] = ab[i]
      /\ \A i \in 1..Len(c) : t[Len(ab) + i] = c[i]
  BY <1>1, <1>2, TwoTexts
<1> QED
  BY <1>2, <1>3

\* The text of the first pieces.
Prefix(s, m) == FlattenSeq(SubSeq(s, 1, m))

LEMMA PrefixFacts ==
  ASSUME NEW S, NEW s \in Seq(Seq(S))
  PROVE  /\ Prefix(s, 0) = <<>> /\ Prefix(s, Len(s)) = FlattenSeq(s)
         /\ \A m \in 0..Len(s) : Prefix(s, m) \in Seq(S) /\ Len(Prefix(s, m)) \in Nat
         /\ \A m \in 0..Len(s) - 1 : /\ Prefix(s, m + 1) = Prefix(s, m) \o s[m + 1]
                                     /\ Len(Prefix(s, m + 1)) = Len(Prefix(s, m)) + Len(s[m + 1])
<1>1. SubSeq(s, 1, 0) = <<>> /\ SubSeq(s, 1, Len(s)) = s
  BY SubSeqEmpty, SubSeqFull
<1>2. ASSUME NEW m \in 0..Len(s) PROVE Prefix(s, m) \in Seq(S) /\ Len(Prefix(s, m)) \in Nat
  <2>1. SubSeq(s, 1, m) \in Seq(Seq(S))
    OBVIOUS
  <2>2. Prefix(s, m) \in Seq(S)
    BY <2>1, FlattenType DEF Prefix
  <2> QED
    BY <2>2
<1>3. ASSUME NEW m \in 0..Len(s) - 1
      PROVE  /\ Prefix(s, m + 1) = Prefix(s, m) \o s[m + 1]
             /\ Len(Prefix(s, m + 1)) = Len(Prefix(s, m)) + Len(s[m + 1])
  <2>1. /\ SubSeq(s, 1, m) \in Seq(Seq(S)) /\ s[m + 1] \in Seq(S)
        /\ SubSeq(s, 1, m + 1) = Append(SubSeq(s, 1, m), s[m + 1])
    BY PrefixGrows
  <2>2. Prefix(s, m + 1) = Prefix(s, m) \o s[m + 1]
    BY <2>1, FlattenAppend DEF Prefix
  <2>3. m \in 0..Len(s)
    OBVIOUS
  <2>4. Prefix(s, m) \in Seq(S)
    BY <1>2, <2>3
  <2>5. Len(Prefix(s, m) \o s[m + 1]) = Len(Prefix(s, m)) + Len(s[m + 1])
    BY <2>1, <2>4, ConcatProperties
  <2> QED
    BY <2>2, <2>5
<1> QED
  BY <1>1, <1>2, <1>3, FlattenEmpty DEF Prefix

\* Every character of the text stands in one of the pieces.
LEMMA FlattenPosition ==
  ASSUME NEW S, NEW s \in Seq(Seq(S)), NEW i \in 1..Len(FlattenSeq(s))
  PROVE  \E n \in 1..Len(s) : \E j \in 1..Len(s[n]) :
           i = Len(Prefix(s, n - 1)) + j /\ FlattenSeq(s)[i] = s[n][j]
<1> DEFINE F == FlattenSeq(s)  N == Len(s)  G == {m \in 0..N : Len(Prefix(s, m)) < i}
<1>1. F \in Seq(S) /\ N \in Nat /\ F = Prefix(s, N) /\ i \in Nat \ {0}
  BY FlattenType, PrefixFacts
<1>2. PICK m \in 0..N - 1 : m \in G /\ m + 1 \notin G
  <2> SUFFICES ASSUME \A m \in 0..N - 1 : m \in G => m + 1 \in G PROVE FALSE
    OBVIOUS
  <2>1. 0 \in G
    <3>1. Len(Prefix(s, 0)) = 0 /\ 0 \in 0..N
      BY <1>1, PrefixFacts
    <3> QED
      BY <3>1
  <2> HIDE DEF G
  <2>2. \A m \in 0..N : m \in G
    BY <1>1, <2>1, Upwards
  <2>3. N \in G
    BY <1>1, <2>2
  <2> QED
    BY <1>1, <2>3 DEF G
<1> DEFINE n == m + 1  j == i - Len(Prefix(s, m))
<1>3. n \in 1..N /\ n - 1 = m /\ n \in 0..N
  BY <1>1
<1>4. Len(Prefix(s, m)) < i /\ ~(Len(Prefix(s, n)) < i)
  BY <1>2, <1>3
<1>5. Len(Prefix(s, n)) = Len(Prefix(s, m)) + Len(s[n]) /\ Len(Prefix(s, m)) \in Nat
  BY <1>2, PrefixFacts
<1>6. s[n] \in Seq(S) /\ Len(s[n]) \in Nat
  BY <1>3
<1>7. j \in 1..Len(s[n]) /\ i = Len(Prefix(s, m)) + j
  BY <1>4, <1>5, <1>6
<1>8. F[i] = s[n][j]
  <2> DEFINE a == Prefix(s, n - 1)  c == FlattenSeq(SubSeq(s, n + 1, N))
  <2>1. a \in Seq(S) /\ c \in Seq(S) /\ Joins3(F, a, s[n], c)
    BY <1>3, FlattenSplit DEF Prefix, Joins3
  <2> HIDE DEF a, c, n, F
  <2>2. \A k \in 1..Len(s[n]) : F[Len(a) + k] = s[n][k]
    BY <1>6, <2>1, ThreeTexts
  <2> QED
    BY <1>3, <1>7, <2>2 DEF a, n
<1> QED
  BY <1>3, <1>7, <1>8

LEMMA SumLonger ==
  ASSUME NEW a \in Nat, NEW b \in Nat, NEW c \in Nat, NEW d \in Nat, a <= c, b <= d
  PROVE  a + b <= c + d
OBVIOUS

\* Pieces that are no shorter make a text that is no shorter.
LEMMA FlattenLonger ==
  ASSUME NEW S, NEW s \in Seq(Seq(S)), NEW t \in Seq(Seq(S)), Len(s) <= Len(t),
         \A n \in 1..Len(s) : Len(s[n]) <= Len(t[n])
  PROVE  Len(FlattenSeq(s)) <= Len(Prefix(t, Len(s)))
<1> DEFINE N == Len(s)  G == {m \in 0..N : Len(Prefix(s, m)) <= Len(Prefix(t, m))}
<1>1. N \in Nat /\ N <= Len(t) /\ Prefix(s, N) = FlattenSeq(s)
  BY PrefixFacts
<1>2. 0 \in G
  BY <1>1, PrefixFacts
<1>3. ASSUME NEW m \in 0..N - 1, m \in G PROVE m + 1 \in G
  <2>1. m \in 0..Len(t) - 1 /\ m \in 0..N /\ m \in 0..Len(t) /\ m + 1 \in 1..N /\ m + 1 \in 0..N
    BY <1>1
  <2>2. /\ Len(Prefix(s, m + 1)) = Len(Prefix(s, m)) + Len(s[m + 1])
        /\ Len(Prefix(s, m)) \in Nat
    BY <2>1, PrefixFacts
  <2>3. /\ Len(Prefix(t, m + 1)) = Len(Prefix(t, m)) + Len(t[m + 1])
        /\ Len(Prefix(t, m)) \in Nat
    BY <2>1, PrefixFacts
  <2>4. Len(s[m + 1]) <= Len(t[m + 1]) /\ Len(s[m + 1]) \in Nat /\ Len(t[m + 1]) \in Nat
    <3>1. s[m + 1] \in Seq(S) /\ t[m + 1] \in Seq(S)
      BY <2>1
    <3> QED
      BY <2>1, <3>1
  <2>5. Len(Prefix(s, m)) <= Len(Prefix(t, m))
    BY <1>3
  <2>7. Len(Prefix(s, m + 1)) <= Len(Prefix(t, m + 1))
    BY <2>2, <2>3, <2>4, <2>5, SumLonger, Zenon
  <2> QED
    BY <2>1, <2>7
<1>4. \A m \in 0..N - 1 : m \in G => m + 1 \in G
  BY <1>3
<1> HIDE DEF G
<1>5. \A m \in 0..N : m \in G
  BY <1>1, <1>2, <1>4, Upwards
<1>6. N \in G
  BY <1>1, <1>5
<1> QED
  BY <1>1, <1>6 DEF G

\* A prefix is no longer than a longer one.
LEMMA PrefixLonger ==
  ASSUME NEW S, NEW s \in Seq(Seq(S)), NEW m \in 0..Len(s), NEW n \in m..Len(s)
  PROVE  Len(Prefix(s, m)) <= Len(Prefix(s, n))
<1> DEFINE N == n - m  G == {d \in 0..N : Len(Prefix(s, m)) <= Len(Prefix(s, m + d))}
<1>1. N \in Nat /\ m + 0 = m /\ m + N = n /\ Len(Prefix(s, m)) \in Nat
  BY PrefixFacts
<1>2. 0 \in G
  BY <1>1
<1>3. ASSUME NEW d \in 0..N - 1, d \in G PROVE d + 1 \in G
  <2> DEFINE k == m + d
  <2>1. k \in 0..Len(s) - 1 /\ k \in 0..Len(s) /\ d + 1 \in 0..N /\ m + (d + 1) = k + 1 /\ k + 1 \in 1..Len(s)
    OBVIOUS
  <2>2. Len(Prefix(s, m)) <= Len(Prefix(s, k))
    BY <1>3
  <2> HIDE DEF k
  <2>3. Len(Prefix(s, k + 1)) = Len(Prefix(s, k)) + Len(s[k + 1]) /\ Len(Prefix(s, k)) \in Nat
    BY <2>1, PrefixFacts
  <2>4. Len(s[k + 1]) \in Nat
    <3>1. s[k + 1] \in Seq(S)
      BY <2>1
    <3> QED
      BY <3>1
  <2>5. Len(Prefix(s, m)) <= Len(Prefix(s, k + 1))
    BY <1>1, <2>2, <2>3, <2>4
  <2> QED
    BY <2>1, <2>5
<1>4. \A d \in 0..N - 1 : d \in G => d + 1 \in G
  BY <1>3
<1> HIDE DEF G
<1>5. \A d \in 0..N : d \in G
  BY <1>1, <1>2, <1>4, Upwards
<1>6. N \in G
  BY <1>1, <1>5
<1> QED
  BY <1>1, <1>6 DEF G

\* Pieces without a character make no text.
LEMMA FlattenNothing ==
  ASSUME NEW S, NEW s \in Seq(Seq(S)), \A n \in 1..Len(s) : s[n] = <<>>
  PROVE  FlattenSeq(s) = <<>>
<1>1. FlattenSeq(s) \in Seq(S)
  BY FlattenType
<1> SUFFICES ASSUME FlattenSeq(s) # <<>> PROVE FALSE
  OBVIOUS
<1>2. 1 \in 1..Len(FlattenSeq(s))
  BY <1>1
<1>3. PICK n \in 1..Len(s) : \E j \in 1..Len(s[n]) : TRUE
  BY <1>2, FlattenPosition
<1>4. Len(s[n]) = 0
  <2>1. s[n] = <<>> /\ Len(<<>>) = 0
    OBVIOUS
  <2> QED
    BY <2>1
<1> QED
  BY <1>3, <1>4

------------------------------------------------------------------------------
(* NextMark.                                                               *)

\* What its recursion makes of one position.
ScanAt(f, t, j) ==
  IF j >= Len(t) THEN Len(t)
  ELSE IF t[j + 1] # Mark THEN f[j + 1]
  ELSE IF j + 1 < Len(t) /\ t[j + 2] = Mark THEN f[j + 2]
  ELSE j

LEMMA ScanAtType ==
  ASSUME NEW S, NEW t \in Seq(S), NEW m \in 0..Len(t),
         NEW f \in [m + 1..Len(t) + 1 -> 0..Len(t)]
  PROVE  ScanAt(f, t, m) \in 0..Len(t)
<1> DEFINE N == Len(t)
<1>1. N \in Nat
  OBVIOUS
<1>2. m < N => f[m + 1] \in 0..N
  BY <1>1
<1>3. m + 1 < N => f[m + 2] \in 0..N
  <2>1. m + 1 < N => m + 2 \in m + 1..N + 1
    BY <1>1
  <2> QED
    BY <2>1
<1> HIDE DEF N
<1> QED
  BY <1>1, <1>2, <1>3 DEF ScanAt, N

LEMMA ScanAtSame ==
  ASSUME NEW S, NEW t \in Seq(S), NEW j \in Nat, NEW f, NEW g,
         j < Len(t) => f[j + 1] = g[j + 1],
         j + 1 < Len(t) => f[j + 2] = g[j + 2]
  PROVE  ScanAt(f, t, j) = ScanAt(g, t, j)
<1>1. Len(t) \in Nat
  OBVIOUS
<1>2. CASE j >= Len(t)
  BY <1>2 DEF ScanAt
<1>3. CASE j < Len(t)
  BY <1>1, <1>3 DEF ScanAt
<1> QED
  BY <1>1, <1>2, <1>3

Scans(f, t) == f = [j \in 0..Len(t) + 1 |-> ScanAt(f, t, j)]

LEMMA ScanExists ==
  ASSUME NEW S, NEW t \in Seq(S)
  PROVE  \E f : Scans(f, t)
<1> DEFINE N == Len(t)
           Down(f, m) == \A j \in m..N + 1 : f[j] = ScanAt(f, t, j)
           G == {m \in 0..N + 1 : \E f \in [m..N + 1 -> 0..N] : Down(f, m)}
<1>1. N \in Nat /\ N + 1 \in Nat
  OBVIOUS
<1>2. N + 1 \in G
  <2> DEFINE f == [j \in N + 1..N + 1 |-> N]
  <2>1. f \in [N + 1..N + 1 -> 0..N]
    BY <1>1
  <2>2. ASSUME NEW j \in N + 1..N + 1 PROVE f[j] = ScanAt(f, t, j)
    BY <1>1 DEF ScanAt
  <2> HIDE DEF f
  <2> QED
    BY <1>1, <2>1, <2>2
<1>3. ASSUME NEW m \in 0..N + 1 - 1, m + 1 \in G PROVE m \in G
  <2>1. PICK f \in [m + 1..N + 1 -> 0..N] : Down(f, m + 1)
    BY <1>3
  <2> DEFINE g == [j \in m..N + 1 |-> IF j = m THEN ScanAt(f, t, m) ELSE f[j]]
  <2>2. ScanAt(f, t, m) \in 0..N
    <3>1. m \in 0..Len(t)
      BY <1>1
    <3> QED
      BY <3>1, ScanAtType
  <2>3. g \in [m..N + 1 -> 0..N]
    BY <1>1, <2>2
  <2>4. ASSUME NEW j \in m..N + 1 PROVE g[j] = ScanAt(g, t, j)
    <3>1. j \in Nat /\ (j < N => g[j + 1] = f[j + 1]) /\ (j + 1 < N => g[j + 2] = f[j + 2])
      BY <1>1
    <3>2. ScanAt(g, t, j) = ScanAt(f, t, j)
      <4> HIDE DEF g
      <4> QED
        BY <3>1, ScanAtSame
    <3>3. j # m => j \in m + 1..N + 1
      BY <1>1
    <3>4. j # m => f[j] = ScanAt(f, t, j)
      BY <2>1, <3>3
    <3>5. g[j] = IF j = m THEN ScanAt(f, t, m) ELSE f[j]
      OBVIOUS
    <3> HIDE DEF g
    <3> QED
      BY <3>2, <3>4, <3>5
  <2> HIDE DEF g
  <2> QED
    BY <1>1, <2>3, <2>4
<1>4. \A m \in 0..N + 1 - 1 : m + 1 \in G => m \in G
  BY <1>3
<1> HIDE DEF G
<1>5. \A m \in 0..N + 1 : m \in G
  BY <1>1, <1>2, <1>4, Downwards
<1>6. 0 \in G
  BY <1>1, <1>5
<1>7. PICK f \in [0..N + 1 -> 0..N] : Down(f, 0)
  BY <1>6 DEF G
<1>8. f = [j \in 0..N + 1 |-> ScanAt(f, t, j)]
  BY <1>7
<1> QED
  BY <1>8 DEF Scans

\* The function that NextMark defines: it leads from a position to a mark or to the end.
LEMMA NextMarkScans ==
  ASSUME NEW S, text \in Seq(S)
  PROVE  \E f : /\ \A i \in Nat : NextMark(i) = IF i >= Len(text) THEN Len(text) ELSE f[i]
                /\ \A j \in 0..Len(text) + 1 : f[j] = ScanAt(f, text, j)
<1> DEFINE f == CHOOSE f : Scans(f, text)
<1>1. Scans(f, text)
  BY ScanExists
<1>2. \A i : NextMark(i) = IF i >= Len(text) THEN Len(text) ELSE f[i]
  BY Zenon DEF NextMark, Scans, ScanAt
<1> HIDE DEF f
<1>3. \A j \in 0..Len(text) + 1 : f[j] = ScanAt(f, text, j)
  BY <1>1 DEF Scans
<1> QED
  BY <1>2, <1>3

LEMMA NextMarkType ==
  ASSUME NEW S, text \in Seq(S), NEW i \in Nat
  PROVE  NextMark(i) \in 0..Len(text)
<1> DEFINE N == Len(text)
<1>1. PICK f : /\ \A k \in Nat : NextMark(k) = IF k >= N THEN N ELSE f[k]
               /\ \A j \in 0..N + 1 : f[j] = ScanAt(f, text, j)
  BY NextMarkScans
<1> DEFINE G == {m \in 0..N + 1 : f[m] \in 0..N /\ (m <= N => f[m + 1] \in 0..N)}
<1>2. N \in Nat /\ N + 1 \in Nat
  OBVIOUS
<1>3. f[N + 1] = N /\ f[N] = N
  <2>1. N + 1 \in 0..N + 1 /\ N \in 0..N + 1 /\ N + 1 >= N /\ N >= N
    BY <1>2
  <2> QED
    BY <1>1, <2>1 DEF ScanAt
<1>4. N + 1 \in G
  BY <1>2, <1>3
<1>5. ASSUME NEW m \in 0..N + 1 - 1, m + 1 \in G PROVE m \in G
  <2>1. m \in 0..N + 1 /\ m \in Nat /\ m <= N
    BY <1>2
  <2>2. f[m + 1] \in 0..N /\ (m + 1 <= N => f[m + 1 + 1] \in 0..N)
    BY <1>5
  <2>3. f[m] = ScanAt(f, text, m)
    BY <1>1, <2>1
  <2>4. m + 1 + 1 = m + 2
    BY <2>1
  <2>5. f[m] \in 0..N
    BY <1>2, <2>1, <2>2, <2>3, <2>4 DEF ScanAt
  <2> QED
    BY <2>1, <2>2, <2>5
<1>6. \A m \in 0..N + 1 - 1 : m + 1 \in G => m \in G
  BY <1>5
<1> HIDE DEF G
<1>7. \A m \in 0..N + 1 : m \in G
  BY <1>2, <1>4, <1>6, Downwards
<1>8. i < N => f[i] \in 0..N
  BY <1>2, <1>7 DEF G
<1> QED
  BY <1>1, <1>2, <1>8

\* Through a text without marks the search reaches a single mark.
LEMMA MarkFound ==
  ASSUME NEW S, text \in Seq(S), NEW p \in 0..Len(text) - 1, NEW i \in 0..p,
         \A q \in i + 1..p : text[q] # Mark,
         text[p + 1] = Mark, p + 1 < Len(text) => text[p + 2] # Mark
  PROVE  NextMark(i) = p
<1> DEFINE N == Len(text)
<1>1. PICK f : /\ \A k \in Nat : NextMark(k) = IF k >= N THEN N ELSE f[k]
               /\ \A j \in 0..N + 1 : f[j] = ScanAt(f, text, j)
  BY NextMarkScans
<1> DEFINE H == {m \in 0..p : m >= i => f[m] = p}
<1>2. N \in Nat /\ p \in Nat /\ i \in Nat /\ p < N /\ i <= p
  OBVIOUS
<1>3. f[p] = p
  <2>1. p \in 0..N + 1 /\ ~(p >= N)
    BY <1>2
  <2> QED
    BY <1>1, <2>1 DEF ScanAt
<1>4. p \in H
  BY <1>2, <1>3
<1>5. ASSUME NEW m \in 0..p - 1, m + 1 \in H PROVE m \in H
  <2>1. m \in 0..p /\ m \in 0..N + 1 /\ ~(m >= N)
    BY <1>2
  <2>2. CASE m >= i
    <3>1. m + 1 >= i /\ m + 1 \in i + 1..p
      BY <1>2, <2>2
    <3>2. f[m + 1] = p /\ text[m + 1] # Mark
      BY <1>5, <3>1
    <3>3. f[m] = p
      BY <1>1, <2>1, <3>2 DEF ScanAt
    <3> QED
      BY <2>1, <3>3
  <2>3. CASE ~(m >= i)
    BY <2>1, <2>3
  <2> QED
    BY <2>2, <2>3
<1>6. \A m \in 0..p - 1 : m + 1 \in H => m \in H
  BY <1>5
<1> HIDE DEF H
<1>7. \A m \in 0..p : m \in H
  BY <1>2, <1>4, <1>6, Downwards
<1>8. f[i] = p
  BY <1>2, <1>7 DEF H
<1> QED
  BY <1>1, <1>2, <1>8

\* Where all marks stand in pairs, and the search does not start within one, it finds none.
LEMMA NoMarkFound ==
  ASSUME NEW S, text \in Seq(S), NEW P, \A p \in P : p + 1 \notin P,
         \A q \in 1..Len(text) : text[q] = Mark <=> q \in P \/ q - 1 \in P,
         \A p \in P : p \in Nat /\ p < Len(text),
         NEW i \in Nat, i \notin P
  PROVE  NextMark(i) = Len(text)
<1> DEFINE N == Len(text)
<1>1. PICK f : /\ \A k \in Nat : NextMark(k) = IF k >= N THEN N ELSE f[k]
               /\ \A j \in 0..N + 1 : f[j] = ScanAt(f, text, j)
  BY NextMarkScans
<1> DEFINE G == {m \in 0..N + 1 : (m \notin P => f[m] = N) /\ (m <= N /\ m + 1 \notin P => f[m + 1] = N)}
<1>2. N \in Nat /\ N + 1 \in Nat
  OBVIOUS
<1>3. f[N + 1] = N /\ f[N] = N
  <2>1. N + 1 \in 0..N + 1 /\ N \in 0..N + 1 /\ N + 1 >= N /\ N >= N
    BY <1>2
  <2> QED
    BY <1>1, <2>1 DEF ScanAt
<1>4. N + 1 \in G
  BY <1>2, <1>3
<1>5. ASSUME NEW m \in 0..N + 1 - 1, m + 1 \in G PROVE m \in G
  <2>1. m \in 0..N + 1 /\ m \in Nat /\ m <= N /\ m + 1 + 1 = m + 2
    BY <1>2
  <2>2. /\ m + 1 \notin P => f[m + 1] = N
        /\ m + 1 <= N /\ m + 2 \notin P => f[m + 2] = N
    BY <1>5, <2>1
  <2>3. f[m] = ScanAt(f, text, m)
    BY <1>1, <2>1
  <2>4. ASSUME m \notin P PROVE f[m] = N
    <3>1. CASE m >= N
      BY <1>2, <2>1, <3>1, <2>3 DEF ScanAt
    <3>2. CASE m < N /\ text[m + 1] # Mark
      <4>1. m + 1 \in 1..N
        BY <1>2, <2>1, <3>2
      <4>2. m + 1 \notin P
        BY <4>1, <3>2
      <4> QED
        BY <1>2, <2>1, <2>2, <2>3, <3>2, <4>2 DEF ScanAt
    <3>3. CASE m < N /\ text[m + 1] = Mark
      <4>1. m + 1 \in 1..N /\ m + 1 - 1 = m
        BY <1>2, <2>1, <3>3
      <4>2. m + 1 \in P
        BY <2>4, <3>3, <4>1
      <4>3. m + 1 < N /\ m + 1 + 1 \notin P
        BY <4>2
      <4>4. m + 2 \in 1..N /\ m + 2 - 1 = m + 1
        BY <4>1, <4>3, <2>1, <1>2
      <4>5. text[m + 2] = Mark
        BY <4>2, <4>4
      <4>6. f[m] = f[m + 2]
        BY <2>1, <2>3, <3>3, <4>3, <4>5, <1>2 DEF ScanAt
      <4> QED
        BY <2>1, <2>2, <4>3, <4>6, <1>2
    <3> QED
      BY <1>2, <2>1, <3>1, <3>2, <3>3
  <2> QED
    BY <2>1, <2>2, <2>4
<1>6. \A m \in 0..N + 1 - 1 : m + 1 \in G => m \in G
  BY <1>5
<1> HIDE DEF G
<1>7. \A m \in 0..N + 1 : m \in G
  BY <1>2, <1>4, <1>6, Downwards
<1>8. i < N => f[i] = N
  BY <1>2, <1>7 DEF G
<1> QED
  BY <1>1, <1>2, <1>8

\* A set of numbers has a first.
LEMMA FirstOf ==
  ASSUME NEW P, \A m \in P : m \in Nat, NEW k \in P
  PROVE  \E m \in P : \A n \in P : m <= n
<1> SUFFICES ASSUME \A m \in P : \E n \in P : ~(m <= n) PROVE FALSE
  OBVIOUS
<1> DEFINE G == {m \in 0..k : \A n \in P : m <= n}
<1>1. k \in Nat /\ 0 \in G
  OBVIOUS
<1>2. \A m \in 0..k - 1 : m \in G => m + 1 \in G
  <2> TAKE m \in 0..k - 1
  <2> HAVE m \in G
  <2>1. m \notin P
    OBVIOUS
  <2>2. \A n \in P : m <= n /\ n # m /\ n \in Nat
    BY <2>1
  <2> QED
    BY <1>1, <2>2
<1> HIDE DEF G
<1>3. \A m \in 0..k : m \in G
  BY <1>1, <1>2, Upwards
<1>4. k \in G
  BY <1>1, <1>3
<1> QED
  BY <1>4 DEF G

------------------------------------------------------------------------------
(* ReplaceFirstSubSeq.                                                     *)

\* That s stands in t behind the first p characters.
Stands(s, t, p) == p + Len(s) <= Len(t) /\ \A j \in 1..Len(s) : t[p + j] = s[j]

LEMMA Occurs ==
  ASSUME NEW S, NEW s \in Seq(S), NEW t \in Seq(S), s # <<>>
  PROVE  s \in SubSeqs(t) <=> \E p \in Nat : Stands(s, t, p)
<1>1. Len(s) \in Nat /\ Len(s) > 0 /\ Len(t) \in Nat
  OBVIOUS
<1>2. ASSUME s \in SubSeqs(t) PROVE \E p \in Nat : Stands(s, t, p)
  <2>1. PICK i \in 0..Len(t), j \in 0..Len(t) : s = SubSeq(t, i + 1, j)
    BY <1>2 DEF SubSeqs
  <2> DEFINE u == SubSeq(t, i + 1, j)
  <2>2. /\ Len(u) = IF i + 1 <= j THEN j - (i + 1) + 1 ELSE 0
        /\ \A n \in 1..j - (i + 1) + 1 : u[n] = t[i + 1 + n - 1]
    BY SubSeqProperties
  <2>3. s = u
    BY <2>1
  <2> HIDE DEF u
  <2>4. i + 1 <= j /\ Len(s) = j - i
    BY <1>1, <2>2, <2>3
  <2>5. \A n \in 1..Len(s) : s[n] = t[i + n]
    <3> TAKE n \in 1..Len(s)
    <3>1. n \in 1..j - (i + 1) + 1 /\ i + 1 + n - 1 = i + n
      BY <2>4
    <3> QED
      BY <2>2, <2>3, <3>1
  <2>6. i \in Nat /\ i + Len(s) <= Len(t)
    BY <2>4
  <2> QED
    BY <2>5, <2>6 DEF Stands
<1>3. ASSUME NEW p \in Nat, Stands(s, t, p) PROVE s \in SubSeqs(t)
  <2>1. p + Len(s) \in 0..Len(t) /\ p \in 0..Len(t)
    BY <1>1, <1>3 DEF Stands
  <2> DEFINE u == SubSeq(t, p + 1, p + Len(s))
  <2>2. /\ \A i \in p + 1..p + Len(s) : t[i] \in S
        /\ p + 1 \in Int /\ p + Len(s) \in Int /\ p + 1 <= p + Len(s)
        /\ p + Len(s) - (p + 1) + 1 = Len(s)
    BY <1>1, <2>1
  <2>3. /\ u \in Seq(S) /\ Len(u) = Len(s)
        /\ \A n \in 1..Len(s) : u[n] = t[p + 1 + n - 1]
    <3>1. /\ u \in Seq(S)
          /\ Len(u) = IF p + 1 <= p + Len(s) THEN p + Len(s) - (p + 1) + 1 ELSE 0
          /\ \A n \in 1..p + Len(s) - (p + 1) + 1 : u[n] = t[p + 1 + n - 1]
      BY <2>2, SubSeqProperties
    <3> HIDE DEF u
    <3> QED
      BY <2>2, <3>1
  <2> HIDE DEF u
  <2>4. \A n \in 1..Len(s) : u[n] = s[n]
    <3> TAKE n \in 1..Len(s)
    <3>1. p + 1 + n - 1 = p + n
      BY <1>1
    <3> QED
      BY <1>3, <2>3, <3>1 DEF Stands
  <2>5. u = s
    BY <2>3, <2>4, SeqEqual
  <2> QED
    BY <2>1, <2>5 DEF SubSeqs, u
<1> QED
  BY <1>2, <1>3

\* The same in the first i characters of t.
LEMMA OccursIn ==
  ASSUME NEW S, NEW s \in Seq(S), NEW t \in Seq(S), s # <<>>, NEW i \in 0..Len(t)
  PROVE  s \in SubSeqs(SubSeq(t, 1, i)) <=> \E p \in Nat : p + Len(s) <= i /\ Stands(s, t, p)
<1> DEFINE u == SubSeq(t, 1, i)
<1>1. /\ u \in Seq(S) /\ Len(u) = i
      /\ \A n \in 1..i : u[n] = t[n]
  OBVIOUS
<1> HIDE DEF u
<1>2. Len(s) \in Nat /\ i \in Nat /\ i <= Len(t) /\ Len(t) \in Nat
  OBVIOUS
<1>3. s \in SubSeqs(u) <=> \E p \in Nat : Stands(s, u, p)
  BY <1>1, Occurs
<1>4. ASSUME NEW p \in Nat
      PROVE  Stands(s, u, p) <=> p + Len(s) <= i /\ Stands(s, t, p)
  <2>1. CASE p + Len(s) <= i
    <3>1. \A j \in 1..Len(s) : p + j \in 1..i
      BY <1>2, <2>1
    <3>2. \A j \in 1..Len(s) : u[p + j] = t[p + j]
      BY <1>1, <3>1
    <3>3. p + Len(s) <= Len(t)
      BY <1>2, <2>1
    <3> QED
      BY <1>1, <2>1, <3>2, <3>3 DEF Stands
  <2>2. CASE ~(p + Len(s) <= i)
    BY <1>1, <2>2 DEF Stands
  <2> QED
    BY <2>1, <2>2
<1> QED
  BY <1>3, <1>4 DEF u

\* What is replaced is where it stands first.
Replaced(t, p, n, v) == (SubSeq(t, 1, p) \o v) \o SubSeq(t, p + n + 1, Len(t))

LEMMA ReplaceFirst ==
  ASSUME NEW S, NEW s \in Seq(S), NEW t \in Seq(S), s # <<>>, NEW v,
         NEW p \in Nat, Stands(s, t, p), \A q \in Nat : Stands(s, t, q) => p <= q
  PROVE  ReplaceFirstSubSeq(v, s, t) = Replaced(t, p, Len(s), v)
<1> DEFINE In(i) == s \in SubSeqs(SubSeq(t, 1, i))
           last == CHOOSE i \in 0..Len(t) : In(i) /\ \A j \in 0..i - 1 : ~In(j)
           e == p + Len(s)
<1>1. /\ Len(s) \in Nat /\ Len(s) > 0 /\ Len(t) \in Nat
      /\ e \in 0..Len(t) /\ e \in Nat
  BY DEF Stands
<1>2. ASSUME NEW i \in 0..Len(t) PROVE In(i) <=> e <= i
  <2>1. In(i) <=> \E q \in Nat : q + Len(s) <= i /\ Stands(s, t, q)
    BY OccursIn
  <2>2. ASSUME e <= i PROVE In(i)
    BY <2>1, <2>2
  <2>3. ASSUME In(i) PROVE e <= i
    <3>1. PICK q \in Nat : q + Len(s) <= i /\ Stands(s, t, q)
      BY <2>1, <2>3
    <3>2. p <= q
      BY <3>1
    <3> QED
      BY <1>1, <3>1, <3>2
  <2> QED
    BY <2>2, <2>3
<1>3. s \in SubSeqs(t)
  BY Occurs
<1> HIDE DEF In, e
<1>4. In(e) /\ \A j \in 0..e - 1 : ~In(j)
  <2>1. \A j \in 0..e - 1 : j \in 0..Len(t) /\ ~(e <= j)
    BY <1>1
  <2> QED
    BY <1>1, <1>2, <2>1
<1>5. last \in 0..Len(t) /\ In(last) /\ \A j \in 0..last - 1 : ~In(j)
  BY <1>1, <1>4
<1> HIDE DEF last
<1>6. last = e
  <2>1. e <= last
    BY <1>2, <1>5
  <2>2. ~(e < last)
    <3> SUFFICES ASSUME e < last PROVE FALSE
      OBVIOUS
    <3>1. e \in 0..last - 1
      BY <1>1, <1>5
    <3> QED
      BY <1>4, <1>5, <3>1
  <2> QED
    BY <1>1, <1>5, <2>1, <2>2
<1>7. IndexFirstSubSeq(s, t) = last - (Len(s) - 1)
  BY DEF IndexFirstSubSeq, last, In
<1> DEFINE first == IndexFirstSubSeq(s, t)
<1>8. first = p + 1 /\ first - 1 = p /\ first + Len(s) = p + Len(s) + 1
  BY <1>1, <1>6, <1>7 DEF e
<1>9. ReplaceFirstSubSeq(v, s, t) = (SubSeq(t, 1, first - 1) \o v) \o SubSeq(t, first + Len(s), Len(t))
  BY <1>3, Zenon DEF ReplaceFirstSubSeq, ReplaceSubSeqAt
<1> HIDE DEF first
<1> QED
  BY <1>8, <1>9, Zenon DEF Replaced

LEMMA ReplaceType ==
  ASSUME NEW S, NEW t \in Seq(S), NEW v \in Seq(S), NEW T, NEW s \in Seq(T), s # <<>>
  PROVE  ReplaceFirstSubSeq(v, s, t) \in Seq(S)
<1> DEFINE U == S \cup T
<1>1. s \in Seq(U) /\ t \in Seq(U) /\ Len(s) \in Nat /\ Len(t) \in Nat
  <2>1. S \subseteq U /\ T \subseteq U
    OBVIOUS
  <2> QED
    BY <2>1, SeqMonotonic
<1> HIDE DEF U
<1>2. CASE s \notin SubSeqs(t)
  BY <1>2 DEF ReplaceFirstSubSeq
<1>3. CASE s \in SubSeqs(t)
  <2>1. PICK q \in Nat : Stands(s, t, q)
    BY <1>1, <1>3, Occurs
  <2> DEFINE P == {m \in Nat : Stands(s, t, m)}
  <2>2. PICK p \in P : \A m \in P : p <= m
    <3>1. (\A m \in P : m \in Nat) /\ q \in P
      BY <2>1
    <3> HIDE DEF P
    <3> QED
      BY <3>1, FirstOf
  <2>3. ReplaceFirstSubSeq(v, s, t) = Replaced(t, p, Len(s), v)
    BY <1>1, <2>2, ReplaceFirst
  <2>4. p \in Nat /\ p + Len(s) <= Len(t)
    BY <2>2 DEF Stands
  <2>5. SubSeq(t, 1, p) \in Seq(S) /\ SubSeq(t, p + Len(s) + 1, Len(t)) \in Seq(S)
    <3>1. /\ \A i \in 1..p : t[i] \in S
          /\ \A i \in p + Len(s) + 1..Len(t) : t[i] \in S
      BY <1>1, <2>4
    <3> HIDE DEF P
    <3>2. p \in Int /\ 1 \in Int /\ p + Len(s) + 1 \in Int /\ Len(t) \in Int
      BY <1>1, <2>4
    <3> QED
      BY <3>1, <3>2, SubSeqProperties
  <2> DEFINE a == SubSeq(t, 1, p)  c == SubSeq(t, p + Len(s) + 1, Len(t))
  <2> HIDE DEF a, c
  <2>6. (a \o v) \o c \in Seq(S)
    BY <2>5, ConcatProperties DEF a, c
  <2> QED
    BY <2>3, <2>6 DEF Replaced, a, c
<1> QED
  BY <1>2, <1>3

LEMMA SplicedType ==
  ASSUME NEW S, text \in Seq(S), NEW v \in Seq(S), NEW i \in 0..Len(text), NEW n \in Nat
  PROVE  Spliced(i, n, v) \in Seq(S)
<1>1. SubSeq(text, 1, i) \in Seq(S) /\ SubSeq(text, i + n + 1, Len(text)) \in Seq(S)
  <2>1. /\ \A j \in 1..i : text[j] \in S
        /\ \A j \in i + n + 1..Len(text) : text[j] \in S
    OBVIOUS
  <2>2. 1 \in Int /\ i \in Int /\ i + n + 1 \in Int /\ Len(text) \in Int
    OBVIOUS
  <2> QED
    BY <2>1, <2>2, SubSeqProperties
<1> DEFINE a == SubSeq(text, 1, i)  c == SubSeq(text, i + n + 1, Len(text))
<1> HIDE DEF a, c
<1>2. (a \o v) \o c \in Seq(S)
  BY <1>1, ConcatProperties DEF a, c
<1> QED
  BY <1>2 DEF Spliced, a, c

------------------------------------------------------------------------------
(* Types.                                                                  *)

Tokens == UNION {Range(p) : p \in Pieces}

LEMMA SeqOfFunction ==
  ASSUME NEW S, NEW n \in Nat, NEW f \in [1..n -> S]
  PROVE  f \in Seq(S) /\ Len(f) = n
OBVIOUS

LEMMA CharsType ==
  ASSUME NEW token
  PROVE  /\ Chars(token) \in Seq({Mark, "$", "{", token, "}"})
         /\ Chars(token) # <<>>
         /\ token \in Tokens => Chars(token) \in Seq(Symbols)
<1> DEFINE S == {Mark, "$", "{", token, "}"}
<1>1. Chars(token) \in Seq(S) /\ Chars(token) # <<>>
  <2>1. CASE token = Escaped
    BY <2>1 DEF Chars
  <2>2. CASE token # Escaped /\ token \in Keys
    BY <2>2 DEF Chars
  <2>3. CASE token # Escaped /\ token \notin Keys
    BY <2>3 DEF Chars
  <2> QED
    BY <2>1, <2>2, <2>3
<1>2. ASSUME token \in Tokens PROVE Chars(token) \in Seq(Symbols)
  <2>1. Chars(token) \in Seq(Range(Chars(token)))
    BY <1>1, SeqOfRange
  <2>2. Range(Chars(token)) \subseteq Symbols
    BY <1>2, Zenon DEF Symbols, Tokens
  <2> QED
    BY <2>1, <2>2, SeqMonotonic
<1> QED
  BY <1>1, <1>2

LEMMA ValueType ==
  ASSUME NEW v \in Values
  PROVE  v \in Seq(Symbols)
<1>1. v \in Seq(Range(v))
  BY OnceAssumption
<1>2. Range(v) \subseteq Symbols
  BY Zenon DEF Symbols
<1> QED
  BY <1>1, <1>2, SeqMonotonic

LEMMA PieceType ==
  ASSUME NEW p \in Pieces
  PROVE  p \in Seq(Tokens)
<1>1. p \in Seq(Range(p))
  BY OnceAssumption
<1>2. Range(p) \subseteq Tokens
  BY Zenon DEF Tokens
<1> QED
  BY <1>1, <1>2, SeqMonotonic

LEMMA StreamedType ==
  ASSUME NEW p \in Seq(Tokens)
  PROVE  Streamed(p) \in Seq(Symbols)
<1> DEFINE blocks == [n \in DOMAIN p |-> Chars(p[n])]
<1>1. blocks \in Seq(Seq(Symbols))
  <2>1. DOMAIN p = 1..Len(p) /\ Len(p) \in Nat
    OBVIOUS
  <2>2. ASSUME NEW n \in 1..Len(p) PROVE Chars(p[n]) \in Seq(Symbols)
    <3>1. p[n] \in Tokens
      OBVIOUS
    <3> QED
      BY <3>1, CharsType
  <2>3. blocks \in [1..Len(p) -> Seq(Symbols)]
    BY <2>1, <2>2
  <2> QED
    BY <2>1, <2>3, SeqOfFunction
<1> HIDE DEF blocks
<1>2. FlattenSeq(blocks) \in Seq(Symbols)
  BY <1>1, FlattenType
<1> QED
  BY <1>2 DEF Streamed, blocks

LEMMA EndType ==
  ASSUME TypeOK, EndStatement, NEW gone \in SUBSET {once}, live' = live \ gone,
         threw' \subseteq Objects, crashed' \in BOOLEAN
  PROVE  TypeOK'
<1>1. live' \subseteq Objects /\ once' \in live' \cup {NULL}
  BY DEF TypeOK, EndStatement
<1>2. text' \in Seq(Symbols) /\ given' \in Seq(Values) /\ keyed' \in [Keys -> Seq(Values)]
  BY DEF EndStatement
<1>3. start' \in 0..SizeLimit - 1
  BY OnceAssumption DEF EndStatement
<1> QED
  BY <1>1, <1>2, <1>3 DEF TypeOK

LEMMA ThrowType ==
  ASSUME TypeOK, Throw, once # NULL
  PROVE  TypeOK'
<1>1. EndStatement /\ live' = live \ {} /\ {} \in SUBSET {once}
  BY DEF Throw
<1>2. threw' \subseteq Objects /\ crashed' \in BOOLEAN
  BY DEF Throw, TypeOK
<1> QED
  BY <1>1, <1>2, EndType

LEMMA NextType ==
  ASSUME TypeOK, [Next]_vars
  PROVE  TypeOK'
<1>1. CASE UNCHANGED vars
  BY <1>1 DEF vars, stringVars, historyVars, TypeOK
<1>2. ASSUME NEW o \in Objects, NEW p \in Pieces, Begin(o, p) PROVE TypeOK'
  <2>1. text' \in Seq(Symbols)
    BY <1>2, PieceType, StreamedType DEF Begin
  <2>2. live' \subseteq Objects /\ once' \in live' \cup {NULL}
    BY <1>2 DEF Begin, TypeOK
  <2> QED
    BY <1>2, <2>1, <2>2 DEF Begin, TypeOK
<1>3. ASSUME NEW p \in Pieces, Stream(p) PROVE TypeOK'
  <2>1. text' \in Seq(Symbols)
    <3>1. Streamed(p) \in Seq(Symbols) /\ text \in Seq(Symbols)
      BY PieceType, StreamedType DEF TypeOK
    <3>2. text \o Streamed(p) \in Seq(Symbols)
      BY <3>1, ConcatProperties
    <3> QED
      BY <1>3, <3>2 DEF Stream
  <2> QED
    BY <1>3, <2>1 DEF Stream, TypeOK
<1>4. ASSUME NEW v \in Values, UsePositional(v) PROVE TypeOK'
  <2> DEFINE i == NextMark(start)
  <2>1. text \in Seq(Symbols) /\ start \in Nat /\ v \in Seq(Symbols)
    BY ValueType, OnceAssumption DEF TypeOK
  <2>2. i \in 0..Len(text)
    BY <2>1, NextMarkType
  <2>3. Spliced(i, 1, v) \in Seq(Symbols)
    BY <2>1, <2>2, SplicedType
  <2>4. (start + Len(v) - 1) % SizeLimit \in 0..SizeLimit - 1
    <3>1. start + Len(v) - 1 \in Int /\ SizeLimit \in Nat \ {0}
      BY <2>1, OnceAssumption
    <3> QED
      BY <3>1
  <2> HIDE DEF i
  <2>5. text' \in Seq(Symbols) /\ start' \in 0..SizeLimit - 1
    BY <1>4, <2>3, <2>4 DEF UsePositional, i, stringVars, TypeOK
  <2>6. given' \in Seq(Values)
    BY <1>4 DEF UsePositional, TypeOK
  <2> QED
    BY <1>4, <2>5, <2>6 DEF UsePositional, TypeOK
<1>5. ASSUME NEW k \in Keys, NEW v \in Values, UseKeyed(k, v) PROVE TypeOK'
  <2>1. CASE Throw
    BY <1>5, <2>1, ThrowType DEF UseKeyed
  <2>2. CASE ~Throw
    <3>1. /\ text' = ReplaceFirstSubSeq(v, Chars(k), text)
          /\ keyed' = [keyed EXCEPT ![k] = Append(@, v)]
          /\ UNCHANGED <<live, once, start, given, threw, crashed>>
      BY <1>5, <2>2 DEF UseKeyed
    <3>2. text' \in Seq(Symbols)
      <4>1. text \in Seq(Symbols) /\ v \in Seq(Symbols)
        BY ValueType DEF TypeOK
      <4> QED
        BY <3>1, <4>1, CharsType, ReplaceType
    <3>3. keyed' \in [Keys -> Seq(Values)]
      BY <3>1 DEF TypeOK
    <3> QED
      BY <3>1, <3>2, <3>3 DEF TypeOK
  <2> QED
    BY <2>1, <2>2
<1>6. ASSUME NEW target \in Targets, IntoReleases(target) PROVE TypeOK'
  BY <1>6, EndType DEF IntoReleases, TypeOK
<1>7. ASSUME NEW target \in Targets, IntoThrows(target) PROVE TypeOK'
  BY <1>7, ThrowType DEF IntoThrows
<1>8. ASSUME NEW target \in Targets, IntoCrashes(target) PROVE TypeOK'
  BY <1>8 DEF IntoCrashes, TypeOK, stringVars, historyVars
<1> QED
  BY <1>1, <1>2, <1>3, <1>4, <1>5, <1>6, <1>7, <1>8 DEF Next

LEMMA InitType ==
  ASSUME Init
  PROVE  TypeOK
<1>1. start \in 0..SizeLimit - 1
  BY OnceAssumption DEF Init
<1>2. /\ <<>> \in Seq(Symbols) /\ <<>> \in Seq(Values)
      /\ [k \in Keys |-> <<>>] \in [Keys -> Seq(Values)]
  OBVIOUS
<1>3. live \subseteq Objects /\ threw \subseteq Objects /\ once \in live \cup {NULL} /\ crashed \in BOOLEAN
  BY DEF Init
<1> QED
  BY <1>1, <1>2, <1>3, Zenon DEF Init, TypeOK

\* The text stays a text of the characters of pieces and values whatever is used in
\* whatever order, start stays a size_t, and the object of a statement is a live one.
THEOREM TypeCorrect == Spec => []TypeOK
<1>1. Init => TypeOK
  BY InitType
<1>2. TypeOK /\ [Next]_vars => TypeOK'
  BY NextType
<1> QED
  BY <1>1, <1>2, PTL DEF Spec

------------------------------------------------------------------------------
(* The n-th token is the Count-th of its kind.                             *)

Count(t, c, n) == Cardinality({i \in 1..n : t[i] = c})

LEMMA CountFacts ==
  ASSUME NEW t, NEW c, NEW n \in Nat
  PROVE  /\ Count(t, c, 0) = 0 /\ Count(t, c, n) \in Nat
         /\ t[n + 1] = c => Count(t, c, n + 1) = Count(t, c, n) + 1
         /\ t[n + 1] # c => Count(t, c, n + 1) = Count(t, c, n)
<1> DEFINE S == {i \in 1..n : t[i] = c}  T == {i \in 1..n + 1 : t[i] = c}
<1>1. IsFiniteSet(1..n)
  BY FS_Interval
<1>2. S \in SUBSET (1..n)
  OBVIOUS
<1>3. IsFiniteSet(S)
  BY <1>1, <1>2, FS_Subset
<1>4. Cardinality(S) \in Nat
  BY <1>3, FS_CardinalityType
<1>5. Count(t, c, 0) = 0
  <2>1. {i \in 1..0 : t[i] = c} = {}
    OBVIOUS
  <2> QED
    BY <2>1, FS_EmptySet, Zenon DEF Count
<1>6. ASSUME t[n + 1] = c PROVE Cardinality(T) = Cardinality(S) + 1
  <2>1. T = S \cup {n + 1} /\ n + 1 \notin S
    BY <1>6
  <2> HIDE DEF S, T
  <2> QED
    BY <1>3, <2>1, FS_AddElement
<1>7. ASSUME t[n + 1] # c PROVE Cardinality(T) = Cardinality(S)
  <2>1. T = S
    BY <1>7
  <2> HIDE DEF S, T
  <2> QED
    BY <2>1
<1> HIDE DEF S, T
<1> QED
  BY <1>4, <1>5, <1>6, <1>7 DEF Count, S, T

LEMMA CountGrows ==
  ASSUME NEW t, NEW c, NEW m \in Nat, NEW n \in Nat, m <= n
  PROVE  /\ Count(t, c, m) <= Count(t, c, n)
         /\ m < n /\ t[n] = c => Count(t, c, m) < Count(t, c, n)
<1>1. ASSUME NEW d \in Nat, m <= d PROVE Count(t, c, m) <= Count(t, c, d)
  <2> DEFINE S == {i \in 1..m : t[i] = c}  T == {i \in 1..d : t[i] = c}
  <2>1. IsFiniteSet(1..d)
    BY FS_Interval
  <2>2. T \in SUBSET (1..d)
    OBVIOUS
  <2>3. IsFiniteSet(T)
    BY <2>1, <2>2, FS_Subset
  <2>4. S \in SUBSET T
    BY <1>1
  <2> HIDE DEF S, T
  <2>5. Cardinality(S) <= Cardinality(T)
    BY <2>3, <2>4, FS_Subset
  <2> QED
    BY <2>5 DEF Count, S, T
<1>2. ASSUME m < n, t[n] = c PROVE Count(t, c, m) < Count(t, c, n)
  <2> DEFINE d == n - 1
  <2>1. d \in Nat /\ m <= d /\ d + 1 = n
    BY <1>2
  <2> HIDE DEF d
  <2>2. Count(t, c, m) <= Count(t, c, d)
    BY <1>1, <2>1
  <2>3. t[d + 1] = c
    BY <1>2, <2>1
  <2>4. Count(t, c, d + 1) = Count(t, c, d) + 1
    BY <2>1, <2>3, CountFacts
  <2>5. Count(t, c, m) \in Nat /\ Count(t, c, d) \in Nat
    BY <2>1, CountFacts
  <2> QED
    BY <2>1, <2>2, <2>4, <2>5
<1> QED
  BY <1>1, <1>2

LEMMA CountReached ==
  ASSUME NEW t, NEW c, NEW N \in Nat, NEW r \in 1..Count(t, c, N)
  PROVE  \E n \in 1..N : t[n] = c /\ Count(t, c, n) = r
<1> DEFINE G == {m \in 0..N : Count(t, c, m) < r}
<1>1. r \in Nat /\ r > 0 /\ Count(t, c, 0) = 0 /\ Count(t, c, N) \in Nat
  BY CountFacts
<1>2. PICK m \in 0..N - 1 : m \in G /\ m + 1 \notin G
  <2> SUFFICES ASSUME \A m \in 0..N - 1 : m \in G => m + 1 \in G PROVE FALSE
    OBVIOUS
  <2>1. 0 \in G
    BY <1>1
  <2> HIDE DEF G
  <2>2. \A m \in 0..N : m \in G
    BY <2>1, Upwards
  <2>3. N \in G
    BY <2>2
  <2> QED
    BY <1>1, <2>3 DEF G
<1>3. m \in Nat /\ m + 1 \in 1..N /\ m + 1 \in 0..N
  OBVIOUS
<1>4. Count(t, c, m) < r /\ ~(Count(t, c, m + 1) < r)
  BY <1>2, <1>3
<1>5. /\ Count(t, c, m) \in Nat
      /\ t[m + 1] = c => Count(t, c, m + 1) = Count(t, c, m) + 1
      /\ t[m + 1] # c => Count(t, c, m + 1) = Count(t, c, m)
  BY <1>3, CountFacts
<1>6. t[m + 1] = c /\ Count(t, c, m + 1) = r
  BY <1>1, <1>4, <1>5
<1> QED
  BY <1>3, <1>6

\* A count depends on the tokens up to there only.
LEMMA CountSame ==
  ASSUME NEW t, NEW u, NEW c, NEW n \in Nat, \A i \in 1..n : t[i] = u[i]
  PROVE  Count(t, c, n) = Count(u, c, n)
<1>1. {i \in 1..n : t[i] = c} = {i \in 1..n : u[i] = c}
  OBVIOUS
<1> QED
  BY <1>1, Zenon DEF Count

------------------------------------------------------------------------------
(* The pieces that a statement's text is made of.                          *)

Placeholders == {Mark} \cup Keys

\* What was used, by kind of placeholder.
Used(g, q) == [c \in Placeholders |-> IF c = Mark THEN g ELSE q[c]]

\* That the n-th token of t is a placeholder for which a value was used.
Filled(t, h, n) == t[n] \in Placeholders /\ Count(t, t[n], n) <= Len(h[t[n]])
Value(t, h, n)  == h[t[n]][Count(t, t[n], n)]
Block(t, h, n)  == IF Filled(t, h, n) THEN Value(t, h, n) ELSE Chars(t[n])
Blocks(t, h)    == [n \in 1..Len(t) |-> Block(t, h, n)]

\* The values of the marks alone.
MarkBlock(t, h, n) == IF t[n] = Mark /\ Filled(t, h, n) THEN Value(t, h, n) ELSE <<>>
MarkBlocks(t, h)   == [n \in 1..Len(t) |-> MarkBlock(t, h, n)]

Uses == [Placeholders -> Seq(Values)]

LEMMA FilledType ==
  ASSUME NEW t \in Seq(Tokens), NEW h \in Uses, NEW n \in 1..Len(t), Filled(t, h, n)
  PROVE  Value(t, h, n) \in Values
<1>1. h[t[n]] \in Seq(Values) /\ Count(t, t[n], n) <= Len(h[t[n]])
  BY DEF Filled, Uses
<1>2. Count(t, t[n], n) \in Nat /\ Count(t, t[n], n) > 0
  <2>1. n \in Nat /\ n - 1 \in Nat /\ n - 1 <= n /\ n - 1 < n
    OBVIOUS
  <2>2. Count(t, t[n], n - 1) < Count(t, t[n], n)
    BY <2>1, CountGrows
  <2>3. Count(t, t[n], n) \in Nat /\ Count(t, t[n], n - 1) \in Nat
    BY <2>1, CountFacts
  <2> QED
    BY <2>2, <2>3
<1> QED
  BY <1>1, <1>2 DEF Value

LEMMA BlockType ==
  ASSUME NEW t \in Seq(Tokens), NEW h \in Uses
  PROVE  /\ Blocks(t, h) \in Seq(Seq(Symbols)) /\ Len(Blocks(t, h)) = Len(t)
         /\ MarkBlocks(t, h) \in Seq(Seq(Symbols)) /\ Len(MarkBlocks(t, h)) = Len(t)
         /\ \A n \in 1..Len(t) : /\ Blocks(t, h)[n] = Block(t, h, n)
                                 /\ MarkBlocks(t, h)[n] = MarkBlock(t, h, n)
                                 /\ Block(t, h, n) \in Seq(Symbols)
                                 /\ MarkBlock(t, h, n) \in Seq(Symbols)
<1>1. Len(t) \in Nat /\ \A n \in 1..Len(t) : t[n] \in Tokens
  OBVIOUS
<1>2. ASSUME NEW n \in 1..Len(t)
      PROVE  Block(t, h, n) \in Seq(Symbols) /\ MarkBlock(t, h, n) \in Seq(Symbols)
  <2>1. Chars(t[n]) \in Seq(Symbols) /\ <<>> \in Seq(Symbols)
    <3>1. t[n] \in Tokens
      BY <1>1
    <3>2. <<>> \in Seq(Symbols)
      OBVIOUS
    <3> QED
      BY <3>1, <3>2, CharsType
  <2>2. Filled(t, h, n) => Value(t, h, n) \in Seq(Symbols)
    BY FilledType, ValueType
  <2> QED
    BY <2>1, <2>2 DEF Block, MarkBlock
<1>3. Blocks(t, h) \in [1..Len(t) -> Seq(Symbols)] /\ MarkBlocks(t, h) \in [1..Len(t) -> Seq(Symbols)]
  BY <1>2 DEF Blocks, MarkBlocks
<1>4. \A n \in 1..Len(t) : Blocks(t, h)[n] = Block(t, h, n) /\ MarkBlocks(t, h)[n] = MarkBlock(t, h, n)
  BY DEF Blocks, MarkBlocks
<1> QED
  BY <1>1, <1>2, <1>3, <1>4, SeqOfFunction

OneMore(k, h, c, v) == k = [h EXCEPT ![c] = Append(@, v)]

\* Using one more value fills one token, the first of its kind that is left.
LEMMA FillsOne ==
  ASSUME NEW t \in Seq(Tokens), NEW h \in Uses, NEW c \in Placeholders, NEW v \in Values,
         NEW k, OneMore(k, h, c, v),
         NEW n \in 1..Len(t), t[n] = c, Count(t, c, n) = Len(h[c]) + 1
  PROVE  /\ k \in Uses
         /\ ~Filled(t, h, n) /\ Filled(t, k, n) /\ Value(t, k, n) = v
         /\ \A m \in 1..Len(t) : m # n => /\ Filled(t, k, m) <=> Filled(t, h, m)
                                          /\ Filled(t, h, m) => Value(t, k, m) = Value(t, h, m)
<1>1. h[c] \in Seq(Values)
  BY DEF Uses
<1> DEFINE a == h[c]  b == Append(a, v)
<1>2. /\ b \in Seq(Values) /\ Len(b) = Len(a) + 1 /\ Len(a) \in Nat
      /\ \A i \in 1..Len(a) : b[i] = a[i]
      /\ b[Len(a) + 1] = v
  BY <1>1, AppendProperties
<1>3. k \in Uses /\ k[c] = b /\ \A d \in Placeholders : d # c => k[d] = h[d]
  BY <1>2 DEF Uses, OneMore
<1> HIDE DEF b
<1>4. ~Filled(t, h, n) /\ Filled(t, k, n) /\ Value(t, k, n) = v
  <2>1. Count(t, c, n) \in Nat
    BY CountFacts
  <2> QED
    BY <1>2, <1>3, <2>1 DEF Filled, Value
<1>5. ASSUME NEW m \in 1..Len(t), m # n
      PROVE  /\ Filled(t, k, m) <=> Filled(t, h, m)
             /\ Filled(t, h, m) => Value(t, k, m) = Value(t, h, m)
  <2>1. CASE t[m] # c
    BY <1>3, <2>1 DEF Filled, Value
  <2>2. CASE t[m] = c
    <3>1. m \in Nat /\ n \in Nat
      OBVIOUS
    <3>2. Count(t, c, m) \in Nat /\ Count(t, c, n) \in Nat
      BY <3>1, CountFacts
    <3>3. Count(t, c, m) # Count(t, c, n)
      <4>1. CASE m < n
        BY <3>1, <3>2, <4>1, CountGrows
      <4>2. CASE n < m
        BY <2>2, <3>1, <3>2, <4>2, CountGrows
      <4> QED
        BY <1>5, <3>1, <4>1, <4>2
    <3>4. Count(t, c, m) > 0
      <4>1. 0 \in Nat /\ 0 < m /\ 0 <= m
        BY <3>1
      <4>2. Count(t, c, 0) < Count(t, c, m) /\ Count(t, c, 0) = 0
        BY <2>2, <3>1, <4>1, CountGrows, CountFacts
      <4> QED
        BY <4>2
    <3>5. Count(t, c, m) <= Len(b) <=> Count(t, c, m) <= Len(a)
      BY <1>2, <3>2, <3>3
    <3>6. Count(t, c, m) <= Len(a) => b[Count(t, c, m)] = a[Count(t, c, m)]
      BY <1>2, <3>2, <3>4
    <3> QED
      BY <1>3, <2>2, <3>5, <3>6 DEF Filled, Value
  <2> QED
    BY <2>1, <2>2
<1> QED
  BY <1>3, <1>4, <1>5

------------------------------------------------------------------------------
(* One piece of a text is replaced.                                        *)

LEMMA CutThree ==
  ASSUME NEW S, NEW a \in Seq(S), NEW b \in Seq(S), NEW c \in Seq(S), NEW t, Joins3(t, a, b, c)
  PROVE  SubSeq(t, 1, Len(a)) = a /\ SubSeq(t, Len(a) + Len(b) + 1, Len(t)) = c
<1>1. /\ t \in Seq(S) /\ Len(t) = Len(a) + Len(b) + Len(c)
      /\ Len(a) \in Nat /\ Len(b) \in Nat /\ Len(c) \in Nat
      /\ \A i \in 1..Len(a) : t[i] = a[i]
      /\ \A i \in 1..Len(c) : t[Len(a) + Len(b) + i] = c[i]
  BY ThreeTexts
<1> DEFINE front == SubSeq(t, 1, Len(a))  k == Len(a) + Len(b)  back == SubSeq(t, k + 1, Len(t))
<1>2. front = a
  <2>1. front \in Seq(S) /\ Len(front) = Len(a) /\ \A i \in 1..Len(a) : front[i] = t[i]
    BY <1>1
  <2> HIDE DEF front
  <2> QED
    BY <1>1, <2>1, SeqEqual
<1>3. k \in Nat /\ Len(t) = k + Len(c) /\ \A i \in 1..Len(c) : t[k + i] = c[i]
  BY <1>1
<1> HIDE DEF k
<1>4. back = c
  <2>1. back \in Seq(S) /\ Len(back) = Len(c) /\ \A i \in 1..Len(c) : back[i] = t[k + i]
    <3>1. /\ \A i \in k + 1..Len(t) : t[i] \in S
          /\ k + 1 \in Int /\ Len(t) \in Int
      BY <1>1, <1>3
    <3>2. /\ back \in Seq(S)
          /\ Len(back) = IF k + 1 <= Len(t) THEN Len(t) - (k + 1) + 1 ELSE 0
          /\ \A i \in 1..Len(t) - (k + 1) + 1 : back[i] = t[k + 1 + i - 1]
      BY <3>1, SubSeqProperties
    <3> HIDE DEF back
    <3>3. /\ Len(t) - (k + 1) + 1 = Len(c) /\ (~(k + 1 <= Len(t)) => Len(c) = 0)
          /\ \A i \in 1..Len(c) : k + 1 + i - 1 = k + i
      <4> DEFINE lt == Len(t)  lc == Len(c)
      <4>1. k \in Nat /\ lc \in Nat /\ lt = k + lc
        BY <1>1, <1>3
      <4> HIDE DEF lt, lc
      <4>2. lt - (k + 1) + 1 = lc /\ (~(k + 1 <= lt) => lc = 0)
        BY <4>1
      <4>3. \A i \in 1..lc : k + 1 + i - 1 = k + i
        BY <4>1
      <4> QED
        BY <4>2, <4>3 DEF lt, lc
    <3> QED
      BY <1>1, <1>3, <3>2, <3>3
  <2> HIDE DEF back
  <2> QED
    BY <1>1, <1>3, <2>1, SeqEqual
<1> QED
  BY <1>2, <1>4 DEF k

\* Pieces that are the same before and behind the n-th.
LEMMA SameAround ==
  ASSUME NEW S, NEW s \in Seq(S), NEW r \in Seq(S), Len(r) = Len(s), NEW n \in 1..Len(s),
         \A m \in 1..Len(s) : m # n => r[m] = s[m]
  PROVE  /\ SubSeq(r, 1, n - 1) = SubSeq(s, 1, n - 1)
         /\ SubSeq(r, n + 1, Len(r)) = SubSeq(s, n + 1, Len(s))
<1> DEFINE N == Len(s)
<1>1. N \in Nat /\ n \in Nat /\ n > 0 /\ n <= N
  OBVIOUS
<1>2. SubSeq(r, 1, n - 1) = SubSeq(s, 1, n - 1)
  <2> DEFINE a == SubSeq(s, 1, n - 1)  b == SubSeq(r, 1, n - 1)
  <2>1. a \in Seq(S) /\ Len(a) = n - 1 /\ \A i \in 1..n - 1 : a[i] = s[i]
    OBVIOUS
  <2>2. b \in Seq(S) /\ Len(b) = n - 1 /\ \A i \in 1..n - 1 : b[i] = r[i]
    OBVIOUS
  <2> HIDE DEF a, b
  <2>3. \A i \in 1..n - 1 : a[i] = b[i]
    BY <1>1, <2>1, <2>2
  <2>4. a = b
    BY <2>1, <2>2, <2>3, SeqEqual
  <2> QED
    BY <2>4 DEF a, b
<1>3. SubSeq(r, n + 1, N) = SubSeq(s, n + 1, N)
  <2> DEFINE a == SubSeq(s, n + 1, N)  b == SubSeq(r, n + 1, N)
  <2>1. a \in Seq(S) /\ Len(a) = N - n /\ \A i \in 1..N - n : a[i] = s[n + i]
    OBVIOUS
  <2>2. b \in Seq(S) /\ Len(b) = N - n /\ \A i \in 1..N - n : b[i] = r[n + i]
    OBVIOUS
  <2> HIDE DEF a, b
  <2>3. \A i \in 1..N - n : a[i] = b[i]
    <3> TAKE i \in 1..N - n
    <3> DEFINE k == n + i
    <3>1. k \in 1..N /\ k # n
      BY <1>1
    <3> HIDE DEF k
    <3>2. r[k] = s[k]
      BY <3>1
    <3> QED
      BY <2>1, <2>2, <3>2 DEF k
  <2>4. a = b
    BY <2>1, <2>2, <2>3, SeqEqual
  <2> QED
    BY <2>4 DEF a, b
<1> QED
  BY <1>2, <1>3

LEMMA ReplacedBlock ==
  ASSUME NEW S, NEW s \in Seq(Seq(S)), NEW r \in Seq(Seq(S)), Len(r) = Len(s), NEW n \in 1..Len(s),
         \A m \in 1..Len(s) : m # n => r[m] = s[m]
  PROVE  /\ FlattenSeq(r) = Replaced(FlattenSeq(s), Len(Prefix(s, n - 1)), Len(s[n]), r[n])
         /\ Len(FlattenSeq(r)) + Len(s[n]) = Len(FlattenSeq(s)) + Len(r[n])
         /\ Len(s[n]) \in Nat /\ Len(r[n]) \in Nat
<1> DEFINE a == FlattenSeq(SubSeq(s, 1, n - 1))  c == FlattenSeq(SubSeq(s, n + 1, Len(s)))
           F == FlattenSeq(s)  G == FlattenSeq(r)  b == s[n]  d == r[n]
<1>1. a \in Seq(S) /\ b \in Seq(S) /\ c \in Seq(S) /\ Joins3(F, a, b, c)
  BY FlattenSplit DEF Joins3
<1>2. d \in Seq(S) /\ Joins3(G, a, d, c)
  <2>1. /\ SubSeq(r, 1, n - 1) = SubSeq(s, 1, n - 1)
        /\ SubSeq(r, n + 1, Len(r)) = SubSeq(s, n + 1, Len(s))
    BY SameAround
  <2>2. n \in 1..Len(r)
    OBVIOUS
  <2>3. /\ r[n] \in Seq(S)
        /\ FlattenSeq(r) = (FlattenSeq(SubSeq(r, 1, n - 1)) \o r[n]) \o FlattenSeq(SubSeq(r, n + 1, Len(r)))
    BY <2>2, FlattenSplit
  <2> QED
    BY <2>1, <2>3, Zenon DEF Joins3
<1>3. Len(a) = Len(Prefix(s, n - 1))
  BY DEF Prefix
<1> HIDE DEF a, b, c, d, F, G
<1>4. SubSeq(F, 1, Len(a)) = a /\ SubSeq(F, Len(a) + Len(b) + 1, Len(F)) = c
  BY <1>1, CutThree
<1>5. G = Replaced(F, Len(a), Len(b), d)
  BY <1>2, <1>4, Zenon DEF Replaced, Joins3
<1>6. /\ Len(F) = Len(a) + Len(b) + Len(c) /\ Len(G) = Len(a) + Len(d) + Len(c)
      /\ Len(a) \in Nat /\ Len(b) \in Nat /\ Len(c) \in Nat /\ Len(d) \in Nat
  BY <1>1, <1>2, ThreeTexts
<1>7. Len(G) + Len(b) = Len(F) + Len(d)
  BY <1>6
<1> QED
  BY <1>3, <1>5, <1>6, <1>7 DEF a, b, d, F, G

------------------------------------------------------------------------------
(* The text of a statement is its template with the placeholders that were *)
(* used filled in.                                                         *)

\* A length that no value exceeds and MaxUses of which a size_t can count.
Longest == CHOOSE n \in 0..SizeLimit : MaxUses * n < SizeLimit /\ \A v \in Values : Len(v) <= n

IsText(x, t, h) == x = FlattenSeq(Blocks(t, h))

\* No placeholder was used more often than it occurs; start, which counts the lengths of
\* the values of marks less one each, is not behind those values and so not behind the
\* first mark that is left.
Built(t, h, x, s) ==
  /\ t \in Seq(Tokens) /\ Allowed(t)
  /\ h \in Uses
  /\ \A c \in Placeholders : Len(h[c]) <= Count(t, c, Len(t))
  /\ IsText(x, t, h)
  /\ s \in Nat
  /\ s <= Len(FlattenSeq(MarkBlocks(t, h)))
  /\ s <= Len(h[Mark]) * Longest
  /\ Len(h[Mark]) <= MaxUses

Nothing ==
  /\ text = <<>> /\ start = 0 /\ template = <<>> /\ given = <<>>
  /\ keyed = [k \in Keys |-> <<>>]

TextInv ==
  /\ Built(template, Used(given, keyed), text, start)
  /\ once = NULL => Nothing

LEMMA FourLong ==
  ASSUME NEW a, NEW b, NEW c, NEW d, NEW q, q = <<a, b, c, d>>
  PROVE  Len(q) = 4 /\ q[1] = a /\ q[2] = b /\ q[3] = c /\ q[4] = d
OBVIOUS

LEMMA CharsFacts ==
  ASSUME NEW token \in Tokens, Unambiguous
  PROVE  /\ token = Escaped => Chars(token) = <<Mark, Mark>>
         /\ token \in Keys => Chars(token) = <<"$", "{", token, "}">>
         /\ token \notin Keys /\ token # Escaped => Chars(token) = <<token>>
         /\ \A j \in 1..Len(Chars(token)) :
              /\ Chars(token)[j] = Mark => token \in {Mark, Escaped}
              /\ Chars(token)[j] = "$" => token \in Keys /\ j = 1
<1>1. token # "$"
  BY Zenon DEF Tokens, Unambiguous
<1>2. Mark \notin Keys /\ Escaped \notin Keys /\ "$" \notin Keys
  BY OnceAssumption
<1>3. CASE token = Escaped
  BY <1>2, <1>3 DEF Chars, Escaped, Mark
<1>4. CASE token \in Keys
  <2>1. Chars(token) = <<"$", "{", token, "}">> /\ token # Escaped
    BY <1>2, <1>4 DEF Chars
  <2>2. Len(Chars(token)) = 4
    BY <2>1, FourLong
  <2>3. ASSUME NEW j \in 1..4
        PROVE  Chars(token)[j] # Mark /\ (Chars(token)[j] = "$" => j = 1)
    <3>1. token # Mark
      BY <1>2, <1>4
    <3>2. /\ Chars(token)[1] = "$" /\ Chars(token)[2] = "{"
          /\ Chars(token)[3] = token /\ Chars(token)[4] = "}"
      <4> DEFINE q == Chars(token)
      <4>1. q = <<"$", "{", token, "}">>
        BY <2>1
      <4> HIDE DEF q
      <4>2. q[1] = "$" /\ q[2] = "{" /\ q[3] = token /\ q[4] = "}"
        BY <4>1, FourLong
      <4> QED
        BY <4>2 DEF q
    <3>3. "$" # Mark /\ "{" # Mark /\ "}" # Mark /\ "{" # "$" /\ "}" # "$"
      BY DEF Mark
    <3>4. j = 1 \/ j = 2 \/ j = 3 \/ j = 4
      OBVIOUS
    <3> QED
      BY <1>1, <3>1, <3>2, <3>3, <3>4, Zenon
  <2> QED
    BY <1>4, <2>1, <2>2, <2>3, <2>1
<1>5. CASE token \notin Keys /\ token # Escaped
  <2>1. Chars(token) = <<token>>
    BY <1>5 DEF Chars
  <2>2. Len(<<token>>) = 1 /\ <<token>>[1] = token
    OBVIOUS
  <2>3. Len(Chars(token)) = 1 /\ Chars(token)[1] = token
    BY <2>1, <2>2, Zenon
  <2>4. \A j \in 1..1 : j = 1
    OBVIOUS
  <2> QED
    BY <1>1, <1>5, <2>1, <2>3, <2>4, Zenon
<1> QED
  BY <1>3, <1>4, <1>5

LEMMA ValueFacts ==
  ASSUME NEW v \in Values, Unambiguous
  PROVE  /\ v \in Seq(Symbols) /\ v # <<>> /\ Len(v) \in Nat /\ Len(v) > 0
         /\ \A j \in 1..Len(v) : v[j] # Mark /\ v[j] # "$"
<1>1. v \in Seq(Range(v)) /\ v \in Seq(Symbols)
  BY OnceAssumption, ValueType
<1>2. v # <<>> /\ Range(v) \cap {Mark, "$"} = {}
  BY DEF Unambiguous
<1> DEFINE R == Range(v)
<1>3. v \in Seq(R) /\ Mark \notin R /\ "$" \notin R
  BY <1>1, <1>2
<1> HIDE DEF R
<1>4. \A j \in 1..Len(v) : v[j] \in R
  BY <1>3
<1> QED
  BY <1>1, <1>2, <1>3, <1>4

\* Marks and "$" come from placeholders that are left and from escaped question marks.
LEMMA BlockFacts ==
  ASSUME Unambiguous, NEW t \in Seq(Tokens), NEW h \in Uses, NEW n \in 1..Len(t)
  PROVE  /\ Len(Block(t, h, n)) \in Nat /\ Len(Block(t, h, n)) > 0
         /\ \A j \in 1..Len(Block(t, h, n)) :
              /\ Block(t, h, n)[j] = Mark => ~Filled(t, h, n) /\ t[n] \in {Mark, Escaped}
              /\ Block(t, h, n)[j] = "$" => ~Filled(t, h, n) /\ t[n] \in Keys /\ j = 1
<1>1. t[n] \in Tokens
  OBVIOUS
<1>2. CASE Filled(t, h, n)
  <2>1. Block(t, h, n) \in Values
    BY <1>2, FilledType DEF Block
  <2> QED
    BY <2>1, ValueFacts
<1>3. CASE ~Filled(t, h, n)
  <2>1. Block(t, h, n) = Chars(t[n])
    BY <1>3 DEF Block
  <2>2. Chars(t[n]) \in Seq(Symbols) /\ Chars(t[n]) # <<>>
    BY <1>1, CharsType
  <2>3. Len(Chars(t[n])) \in Nat /\ Len(Chars(t[n])) > 0
    BY <2>2
  <2>4. \A j \in 1..Len(Chars(t[n])) :
           /\ Chars(t[n])[j] = Mark => t[n] \in {Mark, Escaped}
           /\ Chars(t[n])[j] = "$" => t[n] \in Keys /\ j = 1
    BY <1>1, CharsFacts, Zenon
  <2> QED
    BY <1>3, <2>1, <2>3, <2>4, Zenon
<1> QED
  BY <1>2, <1>3

------------------------------------------------------------------------------
(* Streaming.                                                              *)

\* A sequence is one of two parts where its elements are theirs.
LEMMA JoinsIf ==
  ASSUME NEW S, NEW a \in Seq(S), NEW b \in Seq(S), NEW t \in Seq(S), Len(t) = Len(a) + Len(b),
         \A i \in 1..Len(a) : t[i] = a[i],
         \A i \in 1..Len(b) : t[Len(a) + i] = b[i]
  PROVE  Joins(t, a, b)
<1> DEFINE u == a \o b
<1>1. Joins(u, a, b)
  BY DEF Joins
<1> HIDE DEF u
<1>2. /\ u \in Seq(S) /\ Len(u) = Len(a) + Len(b) /\ Len(a) \in Nat /\ Len(b) \in Nat
      /\ \A i \in 1..Len(a) : u[i] = a[i]
      /\ \A i \in 1..Len(b) : u[Len(a) + i] = b[i]
  BY <1>1, TwoTexts
<1>3. \A i \in 1..Len(t) : t[i] = u[i]
  <2> TAKE i \in 1..Len(t)
  <2>1. CASE i <= Len(a)
    BY <1>2, <2>1
  <2>2. CASE ~(i <= Len(a))
    <3> DEFINE j == i - Len(a)
    <3>1. j \in 1..Len(b) /\ i = Len(a) + j
      BY <1>2, <2>2
    <3> HIDE DEF j
    <3>2. t[Len(a) + j] = b[j] /\ u[Len(a) + j] = b[j]
      BY <1>2, <3>1
    <3> QED
      BY <3>1, <3>2
  <2> QED
    BY <2>1, <2>2
<1>4. t = u
  BY <1>2, <1>3, SeqEqual
<1> QED
  BY <1>1, <1>4

\* No placeholder of what is streamed was used yet.
LEMMA NewUnfilled ==
  ASSUME NEW t \in Seq(Tokens), NEW p \in Seq(Tokens), NEW u, Joins(u, t, p), NEW h \in Uses,
         \A c \in Placeholders : Len(h[c]) <= Count(t, c, Len(t))
  PROVE  /\ \A n \in 1..Len(t) : u[n] = t[n] /\ Count(u, u[n], n) = Count(t, t[n], n)
         /\ \A n \in 1..Len(p) : u[Len(t) + n] = p[n] /\ ~Filled(u, h, Len(t) + n)
         /\ \A c \in Placeholders : Len(h[c]) <= Count(u, c, Len(u))
<1>1. /\ u \in Seq(Tokens) /\ Len(u) = Len(t) + Len(p) /\ Len(t) \in Nat /\ Len(p) \in Nat
      /\ \A n \in 1..Len(t) : u[n] = t[n]
      /\ \A n \in 1..Len(p) : u[Len(t) + n] = p[n]
  BY TwoTexts
<1>2. ASSUME NEW c, NEW n \in 0..Len(t) PROVE Count(u, c, n) = Count(t, c, n)
  <2>1. n \in Nat /\ \A i \in 1..n : u[i] = t[i]
    BY <1>1
  <2> QED
    BY <2>1, CountSame
<1>3. ASSUME NEW c \in Placeholders PROVE Len(h[c]) \in Nat /\ Len(h[c]) <= Count(u, c, Len(t))
  <2>1. h[c] \in Seq(Values) /\ Len(h[c]) <= Count(t, c, Len(t))
    BY DEF Uses
  <2>2. Count(u, c, Len(t)) = Count(t, c, Len(t))
    <3>1. Len(t) \in 0..Len(t)
      BY <1>1
    <3> QED
      BY <1>2, <3>1
  <2> QED
    BY <2>1, <2>2
<1>4. ASSUME NEW n \in 1..Len(p) PROVE ~Filled(u, h, Len(t) + n)
  <2> DEFINE m == Len(t) + n
  <2>1. m \in Nat /\ Len(t) <= m /\ Len(t) < m
    BY <1>1
  <2> HIDE DEF m
  <2> SUFFICES ASSUME Filled(u, h, m) PROVE FALSE
    BY DEF m
  <2>2. u[m] \in Placeholders /\ Count(u, u[m], m) <= Len(h[u[m]])
    BY DEF Filled
  <2>3. Count(u, u[m], Len(t)) < Count(u, u[m], m)
    BY <1>1, <2>1, CountGrows
  <2>4. Count(u, u[m], Len(t)) \in Nat /\ Count(u, u[m], m) \in Nat
    BY <1>1, <2>1, CountFacts
  <2> QED
    BY <1>3, <2>2, <2>3, <2>4
<1>5. ASSUME NEW c \in Placeholders PROVE Len(h[c]) <= Count(u, c, Len(u))
  <2>1. Len(u) \in Nat /\ Len(t) <= Len(u)
    BY <1>1
  <2>2. Count(u, c, Len(t)) <= Count(u, c, Len(u))
    BY <1>1, <2>1, CountGrows
  <2>3. Count(u, c, Len(t)) \in Nat /\ Count(u, c, Len(u)) \in Nat
    BY <1>1, <2>1, CountFacts
  <2> QED
    BY <1>3, <2>2, <2>3
<1>6. \A n \in 1..Len(t) : Count(u, u[n], n) = Count(t, t[n], n)
  <2> TAKE n \in 1..Len(t)
  <2>1. n \in 0..Len(t) /\ u[n] = t[n]
    BY <1>1
  <2> QED
    BY <1>2, <2>1
<1> QED
  BY <1>1, <1>4, <1>5, <1>6

\* What is streamed is added as it stands.
LEMMA StreamedBlocks ==
  ASSUME NEW t \in Seq(Tokens), NEW p \in Seq(Tokens), NEW u, Joins(u, t, p), NEW h \in Uses,
         \A c \in Placeholders : Len(h[c]) <= Count(t, c, Len(t))
  PROVE  /\ Joins(Blocks(u, h), Blocks(t, h), [n \in DOMAIN p |-> Chars(p[n])])
         /\ Joins(MarkBlocks(u, h), MarkBlocks(t, h), [n \in DOMAIN p |-> <<>>])
<1>1. /\ u \in Seq(Tokens) /\ Len(u) = Len(t) + Len(p) /\ Len(t) \in Nat /\ Len(p) \in Nat
      /\ DOMAIN p = 1..Len(p)
  BY TwoTexts
<1>2. /\ \A n \in 1..Len(t) : u[n] = t[n] /\ Count(u, u[n], n) = Count(t, t[n], n)
      /\ \A n \in 1..Len(p) : u[Len(t) + n] = p[n] /\ ~Filled(u, h, Len(t) + n)
  BY NewUnfilled
<1> DEFINE new == [n \in DOMAIN p |-> Chars(p[n])]  none == [n \in DOMAIN p |-> <<>>]
<1>3. new \in Seq(Seq(Symbols)) /\ Len(new) = Len(p) /\ \A n \in 1..Len(p) : new[n] = Chars(p[n])
  <2>1. \A n \in 1..Len(p) : Chars(p[n]) \in Seq(Symbols)
    <3> TAKE n \in 1..Len(p)
    <3>1. p[n] \in Tokens
      OBVIOUS
    <3> QED
      BY <3>1, CharsType
  <2>2. new \in [1..Len(p) -> Seq(Symbols)] /\ \A n \in 1..Len(p) : new[n] = Chars(p[n])
    BY <1>1, <2>1
  <2> HIDE DEF new
  <2> QED
    BY <1>1, <2>2, SeqOfFunction
<1>4. none \in Seq(Seq(Symbols)) /\ Len(none) = Len(p) /\ \A n \in 1..Len(p) : none[n] = <<>>
  <2>1. none \in [1..Len(p) -> Seq(Symbols)] /\ \A n \in 1..Len(p) : none[n] = <<>>
    BY <1>1
  <2> HIDE DEF none
  <2> QED
    BY <1>1, <2>1, SeqOfFunction
<1> HIDE DEF new, none
<1>5. ASSUME NEW n \in 1..Len(t) PROVE Block(u, h, n) = Block(t, h, n) /\ MarkBlock(u, h, n) = MarkBlock(t, h, n)
  <2>1. u[n] = t[n] /\ Count(u, u[n], n) = Count(t, t[n], n)
    BY <1>2
  <2>2. (Filled(u, h, n) <=> Filled(t, h, n)) /\ Value(u, h, n) = Value(t, h, n)
    BY <2>1 DEF Filled, Value
  <2> QED
    BY <2>1, <2>2 DEF Block, MarkBlock
<1>6. ASSUME NEW n \in 1..Len(p) PROVE Block(u, h, Len(t) + n) = new[n] /\ MarkBlock(u, h, Len(t) + n) = none[n]
  BY <1>2, <1>3, <1>4 DEF Block, MarkBlock
<1>7. /\ Blocks(t, h) \in Seq(Seq(Symbols)) /\ Len(Blocks(t, h)) = Len(t)
      /\ MarkBlocks(t, h) \in Seq(Seq(Symbols)) /\ Len(MarkBlocks(t, h)) = Len(t)
      /\ \A n \in 1..Len(t) : Blocks(t, h)[n] = Block(t, h, n) /\ MarkBlocks(t, h)[n] = MarkBlock(t, h, n)
  BY BlockType
<1>8. /\ Blocks(u, h) \in Seq(Seq(Symbols)) /\ Len(Blocks(u, h)) = Len(u)
      /\ MarkBlocks(u, h) \in Seq(Seq(Symbols)) /\ Len(MarkBlocks(u, h)) = Len(u)
      /\ \A n \in 1..Len(u) : Blocks(u, h)[n] = Block(u, h, n) /\ MarkBlocks(u, h)[n] = MarkBlock(u, h, n)
  BY <1>1, BlockType
<1>9. /\ \A n \in 1..Len(t) : n \in 1..Len(u)
      /\ \A n \in 1..Len(p) : Len(t) + n \in 1..Len(u)
  BY <1>1
<1>10. Joins(Blocks(u, h), Blocks(t, h), new)
  <2>1. \A n \in 1..Len(t) : Blocks(u, h)[n] = Blocks(t, h)[n]
    BY <1>5, <1>7, <1>8, <1>9
  <2>2. \A n \in 1..Len(p) : Blocks(u, h)[Len(t) + n] = new[n]
    BY <1>6, <1>8, <1>9
  <2> QED
    BY <1>1, <1>3, <1>7, <1>8, <2>1, <2>2, JoinsIf
<1>11. Joins(MarkBlocks(u, h), MarkBlocks(t, h), none)
  <2>1. \A n \in 1..Len(t) : MarkBlocks(u, h)[n] = MarkBlocks(t, h)[n]
    BY <1>5, <1>7, <1>8, <1>9
  <2>2. \A n \in 1..Len(p) : MarkBlocks(u, h)[Len(t) + n] = none[n]
    BY <1>6, <1>8, <1>9
  <2> QED
    BY <1>1, <1>4, <1>7, <1>8, <2>1, <2>2, JoinsIf
<1> QED
  BY <1>10, <1>11 DEF new, none

LEMMA StreamBuilt ==
  ASSUME NEW t, NEW h, NEW x, NEW s, Built(t, h, x, s), NEW p \in Seq(Tokens),
         NEW u, Joins(u, t, p), Allowed(u), NEW y, Joins(y, x, Streamed(p))
  PROVE  Built(u, h, y, s)
<1>1. t \in Seq(Tokens) /\ h \in Uses /\ \A c \in Placeholders : Len(h[c]) <= Count(t, c, Len(t))
  BY DEF Built
<1>2. u \in Seq(Tokens)
  BY <1>1, TwoTexts
<1>3. \A c \in Placeholders : Len(h[c]) <= Count(u, c, Len(u))
  BY <1>1, NewUnfilled
<1> DEFINE new == [n \in DOMAIN p |-> Chars(p[n])]  none == [n \in DOMAIN p |-> <<>>]
           B == Blocks(t, h)  M == MarkBlocks(t, h)
<1>4. Joins(Blocks(u, h), B, new) /\ Joins(MarkBlocks(u, h), M, none)
  BY <1>1, StreamedBlocks
<1>5. new \in Seq(Seq(Symbols)) /\ none \in Seq(Seq(Symbols)) /\ \A n \in 1..Len(none) : none[n] = <<>>
  <2>1. DOMAIN p = 1..Len(p) /\ Len(p) \in Nat
    OBVIOUS
  <2>2. \A n \in 1..Len(p) : Chars(p[n]) \in Seq(Symbols)
    <3> TAKE n \in 1..Len(p)
    <3>1. p[n] \in Tokens
      OBVIOUS
    <3> QED
      BY <3>1, CharsType
  <2>3. new \in [1..Len(p) -> Seq(Symbols)]
    BY <2>1, <2>2
  <2>4. none \in [1..Len(p) -> Seq(Symbols)] /\ \A n \in 1..Len(p) : none[n] = <<>>
    BY <2>1
  <2> HIDE DEF new, none
  <2> QED
    BY <2>1, <2>3, <2>4, SeqOfFunction
<1>6. B \in Seq(Seq(Symbols)) /\ M \in Seq(Seq(Symbols))
  BY <1>1, BlockType
<1>7. Streamed(p) = FlattenSeq(new)
  BY DEF Streamed
<1> HIDE DEF new, none, B, M
<1>8. IsText(y, u, h)
  <2>1. FlattenSeq(B \o new) = FlattenSeq(B) \o FlattenSeq(new)
    BY <1>5, <1>6, FlattenConcat
  <2>2. x = FlattenSeq(B)
    BY DEF Built, IsText, B
  <2> QED
    BY <1>4, <1>7, <2>1, <2>2, Zenon DEF IsText, Joins
<1>9. FlattenSeq(MarkBlocks(u, h)) = FlattenSeq(M)
  <2>1. FlattenSeq(M \o none) = FlattenSeq(M) \o FlattenSeq(none)
    BY <1>5, <1>6, FlattenConcat
  <2>2. FlattenSeq(none) = <<>>
    BY <1>5, FlattenNothing
  <2>3. FlattenSeq(M) \o <<>> = FlattenSeq(M)
    BY <1>6, FlattenType, ConcatEmptySeq
  <2> QED
    BY <1>4, <2>1, <2>2, <2>3, Zenon DEF Joins
<1> QED
  BY <1>2, <1>3, <1>8, <1>9, Zenon DEF Built, M

------------------------------------------------------------------------------
(* The mark that use(value) finds.                                         *)

\* Behind a mark that is left no mark was used, and before the first one all were.
LEMMA UsedInOrder ==
  ASSUME NEW t \in Seq(Tokens), NEW h \in Uses, NEW c \in Placeholders,
         NEW n \in 1..Len(t), t[n] = c, Count(t, c, n) = Len(h[c]) + 1,
         NEW m \in 1..Len(t), t[m] = c
  PROVE  Filled(t, h, m) <=> m < n
<1>1. m \in Nat /\ n \in Nat /\ h[c] \in Seq(Values)
  BY DEF Uses
<1>2. Len(h[c]) \in Nat /\ Count(t, c, m) \in Nat /\ Count(t, c, n) \in Nat
  BY <1>1, CountFacts
<1>3. CASE m < n
  <2>1. Count(t, c, m) < Count(t, c, n)
    BY <1>1, <1>3, CountGrows
  <2> QED
    BY <1>2, <1>3, <2>1 DEF Filled
<1>4. CASE ~(m < n)
  <2>1. Count(t, c, n) <= Count(t, c, m)
    BY <1>1, <1>4, CountGrows
  <2> QED
    BY <1>2, <1>4, <2>1 DEF Filled
<1> QED
  BY <1>3, <1>4

\* The values of marks take no more room than the text before the first mark that is left.
LEMMA MarksBefore ==
  ASSUME NEW t \in Seq(Tokens), NEW h \in Uses, NEW n \in 1..Len(t),
         \A m \in n..Len(t) : ~(t[m] = Mark /\ Filled(t, h, m))
  PROVE  Len(FlattenSeq(MarkBlocks(t, h))) <= Len(Prefix(Blocks(t, h), n - 1))
<1> DEFINE B == Blocks(t, h)  M == MarkBlocks(t, h)  k == n - 1  P == SubSeq(M, 1, k)
           Q == SubSeq(M, k + 1, Len(M))
<1>1. /\ B \in Seq(Seq(Symbols)) /\ Len(B) = Len(t)
      /\ M \in Seq(Seq(Symbols)) /\ Len(M) = Len(t)
      /\ \A m \in 1..Len(t) : /\ B[m] = Block(t, h, m) /\ M[m] = MarkBlock(t, h, m)
                              /\ Block(t, h, m) \in Seq(Symbols)
  BY BlockType
<1>2. Len(t) \in Nat /\ k \in Nat /\ k <= Len(t) /\ k + 1 = n
  OBVIOUS
<1> HIDE DEF B, M, k
<1>3. ASSUME NEW m \in 1..Len(t) PROVE Len(M[m]) <= Len(B[m])
  <2>1. M[m] = <<>> \/ M[m] = B[m]
    BY <1>1 DEF MarkBlock, Block
  <2>2. Len(B[m]) \in Nat /\ Len(<<>>) = 0
    BY <1>1
  <2> QED
    BY <2>1, <2>2
<1>4. P \in Seq(Seq(Symbols)) /\ Len(P) = k /\ \A m \in 1..k : P[m] = M[m]
  BY <1>1, <1>2
<1>5. Q \in Seq(Seq(Symbols)) /\ \A m \in 1..Len(Q) : Q[m] = <<>>
  <2>1. Q \in Seq(Seq(Symbols)) /\ Len(Q) = Len(t) - k /\ \A m \in 1..Len(t) - k : Q[m] = M[k + m]
    BY <1>1, <1>2
  <2> HIDE DEF Q
  <2>2. \A m \in 1..Len(t) - k : M[k + m] = <<>>
    <3> TAKE m \in 1..Len(t) - k
    <3> DEFINE i == k + m
    <3>1. i \in n..Len(t) /\ i \in 1..Len(t)
      BY <1>2
    <3> HIDE DEF i
    <3>2. ~(t[i] = Mark /\ Filled(t, h, i))
      BY <3>1
    <3>3. M[i] = <<>>
      BY <1>1, <3>1, <3>2 DEF MarkBlock
    <3> QED
      BY <3>3 DEF i
  <2> QED
    BY <2>1, <2>2
<1>6. P \o Q = M
  <2>1. 1 \in 1..Len(M) + 1 /\ k \in 1 - 1..Len(M) /\ Len(M) \in k..Len(M)
    BY <1>1, <1>2
  <2>2. P \o Q = SubSeq(M, 1, Len(M))
    BY <1>1, <2>1, ConcatAdjacentSubSeq
  <2> QED
    BY <1>1, <2>2, SubSeqFull
<1> HIDE DEF P, Q
<1>7. FlattenSeq(M) = FlattenSeq(P)
  <2>1. FlattenSeq(P \o Q) = FlattenSeq(P) \o FlattenSeq(Q)
    BY <1>4, <1>5, FlattenConcat
  <2>2. FlattenSeq(Q) = <<>> /\ FlattenSeq(P) \o <<>> = FlattenSeq(P)
    BY <1>4, <1>5, FlattenNothing, FlattenType, ConcatEmptySeq
  <2> QED
    BY <1>6, <2>1, <2>2, Zenon
<1>8. Len(FlattenSeq(P)) <= Len(Prefix(B, k))
  <2>1. Len(P) <= Len(B) /\ \A m \in 1..Len(P) : Len(P[m]) <= Len(B[m])
    <3>1. Len(P) <= Len(B)
      BY <1>1, <1>2, <1>4
    <3>2. ASSUME NEW m \in 1..k PROVE Len(P[m]) <= Len(B[m])
      <4>1. m \in 1..Len(t) /\ P[m] = M[m]
        BY <1>2, <1>4
      <4>2. Len(M[m]) <= Len(B[m])
        BY <1>3, <4>1
      <4> QED
        BY <4>1, <4>2, Zenon
    <3> QED
      BY <1>4, <3>1, <3>2
  <2>2. Len(FlattenSeq(P)) <= Len(Prefix(B, Len(P)))
    BY <1>1, <1>4, <2>1, FlattenLonger
  <2> QED
    BY <1>4, <2>2
<1> QED
  BY <1>7, <1>8 DEF B, M, k

\* The text around the n-th token.
LEMMA TextAround ==
  ASSUME NEW t \in Seq(Tokens), NEW h \in Uses, NEW x, IsText(x, t, h), NEW n \in 1..Len(t)
  PROVE  LET p == Len(Prefix(Blocks(t, h), n - 1))
             b == Block(t, h, n)
         IN /\ x \in Seq(Symbols) /\ p \in Nat /\ Len(b) \in Nat /\ p + Len(b) <= Len(x)
            /\ Len(Prefix(Blocks(t, h), n)) = p + Len(b)
            /\ \A j \in 1..Len(b) : x[p + j] = b[j]
<1> DEFINE B == Blocks(t, h)  N == Len(t)
           a == FlattenSeq(SubSeq(B, 1, n - 1))  c == FlattenSeq(SubSeq(B, n + 1, Len(B)))
<1>1. B \in Seq(Seq(Symbols)) /\ Len(B) = N /\ B[n] = Block(t, h, n)
  BY BlockType
<1> HIDE DEF B
<1>2. n \in 1..Len(B)
  BY <1>1
<1>3. a \in Seq(Symbols) /\ B[n] \in Seq(Symbols) /\ c \in Seq(Symbols) /\ Joins3(x, a, B[n], c)
  <2>1. /\ a \in Seq(Symbols) /\ B[n] \in Seq(Symbols) /\ c \in Seq(Symbols)
        /\ FlattenSeq(B) = (a \o B[n]) \o c
    BY <1>1, <1>2, FlattenSplit
  <2> QED
    BY <2>1, Zenon DEF Joins3, IsText, B
<1>4. Len(Prefix(B, n)) = Len(a) + Len(B[n]) /\ Len(a) = Len(Prefix(B, n - 1))
  <2>1. n - 1 \in 0..Len(B) - 1 /\ n - 1 + 1 = n
    BY <1>2
  <2>2. Len(Prefix(B, n - 1 + 1)) = Len(Prefix(B, n - 1)) + Len(B[n - 1 + 1])
    BY <1>1, <2>1, PrefixFacts
  <2>3. Len(a) = Len(Prefix(B, n - 1))
    BY DEF Prefix
  <2> QED
    BY <2>1, <2>2, <2>3, Zenon
<1> HIDE DEF a, c
<1>5. /\ x \in Seq(Symbols) /\ Len(x) = Len(a) + Len(B[n]) + Len(c)
      /\ Len(a) \in Nat /\ Len(B[n]) \in Nat /\ Len(c) \in Nat
      /\ \A j \in 1..Len(B[n]) : x[Len(a) + j] = B[n][j]
  BY <1>3, ThreeTexts
<1>6. Len(a) + Len(B[n]) <= Len(x)
  BY <1>5
<1> QED
  BY <1>1, <1>4, <1>5, <1>6, Zenon DEF B

\* A character of the text before the n-th token stands in one of the tokens before it.
LEMMA TextPosition ==
  ASSUME NEW t \in Seq(Tokens), NEW h \in Uses, NEW x, IsText(x, t, h), NEW i \in 1..Len(x)
  PROVE  \E n \in 1..Len(t) : \E j \in 1..Len(Block(t, h, n)) :
           i = Len(Prefix(Blocks(t, h), n - 1)) + j /\ x[i] = Block(t, h, n)[j]
<1> DEFINE B == Blocks(t, h)
<1>1. B \in Seq(Seq(Symbols)) /\ Len(B) = Len(t) /\ \A n \in 1..Len(t) : B[n] = Block(t, h, n)
  BY BlockType
<1> HIDE DEF B
<1>2. x = FlattenSeq(B)
  BY DEF IsText, B
<1>3. \E n \in 1..Len(B) : \E j \in 1..Len(B[n]) :
        i = Len(Prefix(B, n - 1)) + j /\ x[i] = B[n][j]
  BY <1>1, <1>2, FlattenPosition
<1> QED
  BY <1>1, <1>3 DEF B

\* The same for every character.
Placed(x, t, h) ==
  \A i \in 1..Len(x) : \E m \in 1..Len(t) : \E j \in 1..Len(Block(t, h, m)) :
    i = Len(Prefix(Blocks(t, h), m - 1)) + j /\ x[i] = Block(t, h, m)[j]

LEMMA AllPlaced ==
  ASSUME NEW t \in Seq(Tokens), NEW h \in Uses, NEW x, IsText(x, t, h)
  PROVE  Placed(x, t, h)
<1> SUFFICES ASSUME NEW i \in 1..Len(x)
             PROVE  \E m \in 1..Len(t) : \E j \in 1..Len(Block(t, h, m)) :
                      i = Len(Prefix(Blocks(t, h), m - 1)) + j /\ x[i] = Block(t, h, m)[j]
  BY DEF Placed
<1> QED
  BY TextPosition

\* What stands in an earlier token stands before a later one.
LEMMA PositionOrder ==
  ASSUME NEW t \in Seq(Tokens), NEW h \in Uses, NEW m \in 1..Len(t), NEW n \in 1..Len(t), m < n
  PROVE  Len(Prefix(Blocks(t, h), m - 1)) + Len(Block(t, h, m)) <= Len(Prefix(Blocks(t, h), n - 1))
<1> DEFINE B == Blocks(t, h)  k == m - 1
<1>1. B \in Seq(Seq(Symbols)) /\ Len(B) = Len(t) /\ B[m] = Block(t, h, m) /\ Len(t) \in Nat
  BY BlockType
<1> HIDE DEF B, k
<1>2. /\ k \in 0..Len(B) - 1 /\ k + 1 = m /\ m \in 0..Len(B)
      /\ n - 1 \in m..Len(B)
  BY <1>1 DEF k
<1>3. Len(Prefix(B, k + 1)) = Len(Prefix(B, k)) + Len(B[k + 1])
  BY <1>1, <1>2, PrefixFacts
<1>4. Len(Prefix(B, m)) <= Len(Prefix(B, n - 1))
  BY <1>1, <1>2, PrefixLonger
<1>5. Len(Prefix(B, k)) + Len(Block(t, h, m)) <= Len(Prefix(B, n - 1))
  BY <1>1, <1>2, <1>3, <1>4, Zenon
<1> QED
  BY <1>5 DEF B, k

\* A mark that is left is not directly followed by another, whatever was used.
LEMMA MarkAlone ==
  ASSUME Unambiguous, NEW t \in Seq(Tokens), Allowed(t), NEW h \in Uses, NEW x, IsText(x, t, h),
         NEW n \in 1..Len(t), t[n] = Mark, ~Filled(t, h, n)
  PROVE  LET p == Len(Prefix(Blocks(t, h), n - 1))
         IN  /\ Block(t, h, n) = <<Mark>>
             /\ p \in Nat /\ p < Len(x) /\ x[p + 1] = Mark
             /\ p + 1 < Len(x) => x[p + 2] # Mark
<1> DEFINE pre(m) == Len(Prefix(Blocks(t, h), m - 1))  p == pre(n)  b(m) == Block(t, h, m)
<1>1. Len(t) \in Nat /\ n \in Nat /\ Mark # Escaped
  BY DEF Mark, Escaped
<1>2. \A m \in 1..Len(t) : /\ x \in Seq(Symbols) /\ pre(m) \in Nat /\ Len(b(m)) \in Nat
                           /\ pre(m) + Len(b(m)) <= Len(x)
                           /\ \A j \in 1..Len(b(m)) : x[pre(m) + j] = b(m)[j]
  BY TextAround
<1>3. \A m \in 1..Len(t) : /\ Len(b(m)) > 0
                           /\ \A j \in 1..Len(b(m)) :
                                b(m)[j] = Mark => ~Filled(t, h, m) /\ t[m] \in {Mark, Escaped}
  BY BlockFacts
<1>4. \A i \in 1..Len(x) : \E m \in 1..Len(t) : \E j \in 1..Len(b(m)) : i = pre(m) + j /\ x[i] = b(m)[j]
  <2>1. Placed(x, t, h)
    BY AllPlaced
  <2> QED
    BY <2>1, Zenon DEF Placed
<1>5. \A m, l \in 1..Len(t) : m < l => pre(m) + Len(b(m)) <= pre(l)
  BY PositionOrder
<1>6. b(n) = <<Mark>>
  <2>1. t[n] \in Tokens /\ Mark \notin Keys
    BY OnceAssumption
  <2>2. Chars(t[n]) = <<t[n]>>
    BY <1>1, <2>1, CharsFacts
  <2> QED
    BY <2>2 DEF Block
<1>7. Len(b(n)) = 1 /\ b(n)[1] = Mark
  BY <1>6
<1>8. \A m \in 1..Len(t) - 1 : t[m] = Mark => t[m + 1] \notin {Mark, Escaped}
  BY DEF Allowed
<1> HIDE DEF pre, b, p
<1>9. p \in Nat /\ p < Len(x) /\ x[p + 1] = Mark /\ x \in Seq(Symbols) /\ Len(x) \in Nat
  <2>1. /\ x \in Seq(Symbols) /\ p \in Nat /\ p + Len(b(n)) <= Len(x)
        /\ \A j \in 1..Len(b(n)) : x[p + j] = b(n)[j]
    BY <1>2, Zenon DEF p
  <2>2. 1 \in 1..Len(b(n))
    BY <1>7
  <2>3. x[p + 1] = Mark
    BY <1>7, <2>1, <2>2, Zenon
  <2>4. Len(x) \in Nat
    BY <2>1
  <2> QED
    BY <1>7, <2>1, <2>3, <2>4
<1>10. ASSUME p + 1 < Len(x), x[p + 2] = Mark PROVE FALSE
  <2>1. p + 2 \in 1..Len(x)
    BY <1>9, <1>10
  <2>2. PICK m \in 1..Len(t) : \E j \in 1..Len(b(m)) : p + 2 = pre(m) + j /\ x[p + 2] = b(m)[j]
    BY <1>4, <2>1
  <2>3. PICK j \in 1..Len(b(m)) : p + 2 = pre(m) + j /\ x[p + 2] = b(m)[j]
    BY <2>2
  <2>4. t[m] \in {Mark, Escaped}
    BY <1>3, <1>10, <2>3
  <2>5. CASE m < n
    <3>1. pre(m) + Len(b(m)) <= pre(n)
      BY <1>5, <2>5
    <3> QED
      BY <1>2, <1>9, <2>3, <3>1 DEF p
  <2>6. CASE m = n
    <3>1. j = 1
      <4>1. j \in 1..1
        BY <1>7, <2>3, <2>6, Zenon
      <4> QED
        BY <4>1
    <3> QED
      BY <1>9, <2>3, <2>6, <3>1 DEF p
  <2>7. CASE m = n + 1
    BY <1>1, <1>8, <2>4, <2>7
  <2>8. CASE n + 1 < m
    <3> DEFINE l == n + 1
    <3>1. l \in 1..Len(t) /\ n < l /\ l < m
      BY <1>1, <2>8
    <3> HIDE DEF l
    <3>2. pre(n) + 1 <= pre(l) /\ pre(l) + Len(b(l)) <= pre(m)
      BY <1>5, <1>7, <3>1
    <3>3. pre(l) \in Nat /\ Len(b(l)) \in Nat /\ Len(b(l)) > 0 /\ pre(m) \in Nat
      BY <1>2, <1>3, <3>1
    <3> QED
      BY <1>9, <2>3, <3>2, <3>3 DEF p
  <2> QED
    BY <1>1, <2>5, <2>6, <2>7, <2>8
<1> QED
  BY <1>6, <1>9, <1>10 DEF p, pre, b

\* use(value) finds the first mark that is left.
LEMMA FirstMark ==
  ASSUME Unambiguous, NEW t \in Seq(Tokens), Allowed(t), NEW h \in Uses, IsText(text, t, h),
         NEW n \in 1..Len(t), t[n] = Mark, Count(t, Mark, n) = Len(h[Mark]) + 1,
         start \in Nat, start <= Len(FlattenSeq(MarkBlocks(t, h)))
  PROVE  /\ NextMark(start) = Len(Prefix(Blocks(t, h), n - 1))
         /\ NextMark(start) < Len(text)
<1> DEFINE pre(m) == Len(Prefix(Blocks(t, h), m - 1))  p == pre(n)  b(m) == Block(t, h, m)
<1>1. /\ Len(t) \in Nat /\ n \in Nat /\ Mark \in Placeholders /\ Mark # Escaped
      /\ \A m \in 1..Len(t) : t[m] = Mark => (Filled(t, h, m) <=> m < n)
  BY UsedInOrder DEF Placeholders, Mark, Escaped
<1>2. \A m \in 1..Len(t) : /\ text \in Seq(Symbols) /\ pre(m) \in Nat /\ Len(b(m)) \in Nat
                           /\ pre(m) + Len(b(m)) <= Len(text)
                           /\ \A j \in 1..Len(b(m)) : text[pre(m) + j] = b(m)[j]
  BY TextAround
<1>3. \A m \in 1..Len(t) : /\ Len(b(m)) > 0
                           /\ \A j \in 1..Len(b(m)) :
                                b(m)[j] = Mark => ~Filled(t, h, m) /\ t[m] \in {Mark, Escaped}
  BY BlockFacts
<1>4. \A i \in 1..Len(text) : \E m \in 1..Len(t) : \E j \in 1..Len(b(m)) : i = pre(m) + j /\ text[i] = b(m)[j]
  <2>1. Placed(text, t, h)
    BY AllPlaced
  <2> QED
    BY <2>1, Zenon DEF Placed
<1>5. \A m, l \in 1..Len(t) : m < l => pre(m) + Len(b(m)) <= pre(l)
  BY PositionOrder
<1>0. /\ Block(t, h, n) = <<Mark>>
      /\ Len(Prefix(Blocks(t, h), n - 1)) \in Nat /\ Len(Prefix(Blocks(t, h), n - 1)) < Len(text)
      /\ text[Len(Prefix(Blocks(t, h), n - 1)) + 1] = Mark
      /\ Len(Prefix(Blocks(t, h), n - 1)) + 1 < Len(text) => text[Len(Prefix(Blocks(t, h), n - 1)) + 2] # Mark
  <2>1. ~Filled(t, h, n)
    BY <1>1
  <2> QED
    BY <2>1, MarkAlone
<1>6. b(n) = <<Mark>>
  BY <1>0
<1>7. Len(b(n)) = 1 /\ b(n)[1] = Mark
  BY <1>6
<1>8. /\ \A m \in 1..Len(t) - 1 : t[m] = Mark => t[m + 1] \notin {Mark, Escaped}
      /\ \A i, j \in 1..Len(t) : i < j => ~(t[i] = Escaped /\ t[j] = Mark)
  BY DEF Allowed, Unambiguous
<1> HIDE DEF pre, b, p
<1>9. p \in Nat /\ p < Len(text) /\ text[p + 1] = Mark /\ text \in Seq(Symbols) /\ Len(text) \in Nat
  <2>1. /\ text \in Seq(Symbols) /\ p \in Nat /\ p + Len(b(n)) <= Len(text)
        /\ \A j \in 1..Len(b(n)) : text[p + j] = b(n)[j]
    BY <1>2, Zenon DEF p
  <2>2. 1 \in 1..Len(b(n))
    BY <1>7
  <2>3. text[p + 1] = Mark
    BY <1>7, <2>1, <2>2, Zenon
  <2>4. Len(text) \in Nat
    BY <2>1
  <2> QED
    BY <1>7, <2>1, <2>3, <2>4
<1>10. ASSUME NEW q \in start + 1..p, text[q] = Mark PROVE FALSE
  <2>1. q \in 1..Len(text) /\ q \in Nat /\ q <= p
    BY <1>9
  <2>2. PICK m \in 1..Len(t) : \E j \in 1..Len(b(m)) : q = pre(m) + j /\ text[q] = b(m)[j]
    BY <1>4, <2>1
  <2>3. PICK j \in 1..Len(b(m)) : q = pre(m) + j /\ text[q] = b(m)[j]
    BY <2>2
  <2>4. ~Filled(t, h, m) /\ t[m] \in {Mark, Escaped}
    BY <1>3, <1>10, <2>3
  <2>5. m < n
    <3>1. CASE m = n
      BY <1>2, <2>1, <2>3, <3>1 DEF p
    <3>2. CASE n < m
      <4>1. pre(n) + Len(b(n)) <= pre(m)
        BY <1>5, <3>2
      <4> QED
        BY <1>2, <1>7, <2>1, <2>3, <4>1 DEF p
    <3> QED
      BY <1>1, <3>1, <3>2
  <2> QED
    BY <1>1, <1>8, <2>4, <2>5
<1>11. p + 1 < Len(text) => text[p + 2] # Mark
  BY <1>0 DEF p, pre
<1>12. start <= p
  <2>1. \A m \in n..Len(t) : ~(t[m] = Mark /\ Filled(t, h, m))
    <3> TAKE m \in n..Len(t)
    <3>1. m \in 1..Len(t) /\ ~(m < n)
      BY <1>1
    <3> QED
      BY <1>1, <3>1
  <2>2. Len(FlattenSeq(MarkBlocks(t, h))) <= p
    BY <2>1, MarksBefore DEF p, pre
  <2>3. Len(FlattenSeq(MarkBlocks(t, h))) \in Nat
    <3>1. FlattenSeq(MarkBlocks(t, h)) \in Seq(Symbols)
      BY BlockType, FlattenType
    <3> QED
      BY <3>1
  <2> QED
    BY <1>9, <2>2, <2>3
<1>13. NextMark(start) = p
  <2>1. p \in 0..Len(text) - 1 /\ start \in 0..p
    BY <1>9, <1>12
  <2> QED
    BY <1>9, <1>10, <1>11, <2>1, MarkFound
<1> QED
  BY <1>9, <1>13 DEF p, pre

\* When every mark was used, use(value) finds none: all that are left stand in pairs, and
\* start is not within one.
LEMMA NoMark ==
  ASSUME Unambiguous, NEW t \in Seq(Tokens), Allowed(t), NEW h \in Uses, IsText(text, t, h),
         Count(t, Mark, Len(t)) <= Len(h[Mark]),
         start \in Nat, start <= Len(FlattenSeq(MarkBlocks(t, h)))
  PROVE  NextMark(start) = Len(text)
<1> DEFINE pre(m) == Len(Prefix(Blocks(t, h), m - 1))  b(m) == Block(t, h, m)
           E == {m \in 1..Len(t) : t[m] = Escaped}
           P == {pre(m) + 1 : m \in E}
<1>1. Len(t) \in Nat /\ Mark \in Placeholders /\ Escaped \notin Placeholders /\ Mark # Escaped
  BY OnceAssumption DEF Placeholders, Mark, Escaped
<1>2. ASSUME NEW m \in 1..Len(t), t[m] = Mark PROVE Filled(t, h, m)
  <2>1. m \in Nat /\ m <= Len(t) /\ h[Mark] \in Seq(Values)
    BY <1>1 DEF Uses
  <2>2. Count(t, Mark, m) <= Count(t, Mark, Len(t)) /\ Count(t, Mark, m) \in Nat /\ Count(t, Mark, Len(t)) \in Nat
    BY <1>1, <2>1, CountGrows, CountFacts
  <2>3. Len(h[Mark]) \in Nat
    BY <2>1
  <2> QED
    BY <1>1, <1>2, <2>2, <2>3 DEF Filled
<1>3. \A m \in 1..Len(t) : /\ text \in Seq(Symbols) /\ pre(m) \in Nat /\ Len(b(m)) \in Nat
                           /\ pre(m) + Len(b(m)) <= Len(text)
                           /\ \A j \in 1..Len(b(m)) : text[pre(m) + j] = b(m)[j]
  BY TextAround
<1>4. \A m \in 1..Len(t) : \A j \in 1..Len(b(m)) : b(m)[j] = Mark => ~Filled(t, h, m) /\ t[m] \in {Mark, Escaped}
  BY BlockFacts
<1>5. \A i \in 1..Len(text) : \E m \in 1..Len(t) : \E j \in 1..Len(b(m)) : i = pre(m) + j /\ text[i] = b(m)[j]
  <2>1. Placed(text, t, h)
    BY AllPlaced
  <2> HIDE DEF P, E
  <2> QED
    BY <2>1, Zenon DEF Placed
<1>6. \A m, l \in 1..Len(t) : m < l => pre(m) + Len(b(m)) <= pre(l)
  BY PositionOrder
<1>7. ASSUME NEW m \in E PROVE m \in 1..Len(t) /\ Len(b(m)) = 2 /\ b(m)[1] = Mark /\ b(m)[2] = Mark
  <2>1. m \in 1..Len(t) /\ t[m] \in Tokens /\ t[m] = Escaped
    OBVIOUS
  <2>2. Chars(t[m]) = <<Mark, Mark>>
    BY <2>1, CharsFacts
  <2>3. b(m) = <<Mark, Mark>>
    BY <1>1, <2>1, <2>2 DEF Block, Filled
  <2> HIDE DEF b
  <2> QED
    BY <2>1, <2>3
<1>8. \A i, j \in 1..Len(t) : i < j => ~(t[i] = Escaped /\ t[j] = Mark)
  BY DEF Allowed, Unambiguous
<1>9. start \notin P
  <2> SUFFICES ASSUME NEW n \in E, start = pre(n) + 1 PROVE FALSE
    OBVIOUS
  <2>1. n \in 1..Len(t) /\ t[n] = Escaped /\ pre(n) \in Nat
    BY <1>3
  <2>2. \A m \in n..Len(t) : ~(t[m] = Mark /\ Filled(t, h, m))
    <3> TAKE m \in n..Len(t)
    <3>1. m \in 1..Len(t) /\ (m = n \/ n < m)
      BY <1>1, <2>1
    <3> QED
      BY <1>1, <1>8, <2>1, <3>1
  <2>3. Len(FlattenSeq(MarkBlocks(t, h))) <= pre(n)
    BY <2>1, <2>2, MarksBefore
  <2>4. Len(FlattenSeq(MarkBlocks(t, h))) \in Nat
    <3>1. FlattenSeq(MarkBlocks(t, h)) \in Seq(Symbols)
      BY BlockType, FlattenType
    <3> QED
      BY <3>1
  <2> HIDE DEF pre
  <2> QED
    BY <2>1, <2>3, <2>4
<1>10. text \in Seq(Symbols) /\ Len(text) \in Nat
  <2>1. text \in Seq(Symbols)
    BY BlockType, FlattenType DEF IsText
  <2> QED
    BY <2>1
<1> HIDE DEF pre, b
<1>11. \A p \in P : p \in Nat /\ p < Len(text)
  <2> TAKE p \in P
  <2>1. PICK m \in E : p = pre(m) + 1
    OBVIOUS
  <2>2. m \in 1..Len(t) /\ Len(b(m)) = 2
    BY <1>7
  <2>3. pre(m) \in Nat /\ pre(m) + Len(b(m)) <= Len(text)
    BY <1>3, <2>2
  <2> QED
    BY <1>10, <2>1, <2>2, <2>3
<1>12. \A p \in P : p + 1 \notin P
  <2> SUFFICES ASSUME NEW m \in E, NEW l \in E, pre(m) + 1 + 1 = pre(l) + 1 PROVE FALSE
    OBVIOUS
  <2>1. m \in 1..Len(t) /\ l \in 1..Len(t) /\ Len(b(m)) = 2 /\ Len(b(l)) = 2
    BY <1>7
  <2>2. pre(m) \in Nat /\ pre(l) \in Nat
    BY <1>3, <2>1
  <2>3. CASE m < l
    <3>1. pre(m) + 2 <= pre(l)
      BY <1>6, <2>1, <2>3
    <3> QED
      BY <2>2, <3>1
  <2>4. CASE l < m
    <3>1. pre(l) + 2 <= pre(m)
      BY <1>6, <2>1, <2>4
    <3> QED
      BY <2>2, <3>1
  <2>5. CASE m = l
    BY <2>2, <2>5
  <2> QED
    BY <2>1, <2>3, <2>4, <2>5
<1>13. ASSUME NEW q \in 1..Len(text), text[q] = Mark PROVE q \in P \/ q - 1 \in P
  <2>1. PICK m \in 1..Len(t) : \E j \in 1..Len(b(m)) : q = pre(m) + j /\ text[q] = b(m)[j]
    BY <1>5
  <2>2. PICK j \in 1..Len(b(m)) : q = pre(m) + j /\ text[q] = b(m)[j]
    BY <2>1
  <2>3. ~Filled(t, h, m) /\ t[m] \in {Mark, Escaped}
    BY <1>4, <1>13, <2>2
  <2>4. m \in E
    BY <1>2, <2>3
  <2>5. Len(b(m)) = 2 /\ pre(m) \in Nat
    BY <1>3, <1>7, <2>4
  <2>6. j = 1 \/ j = 2
    <3>1. j \in 1..2
      BY <2>5, Zenon
    <3> QED
      BY <3>1
  <2>7. q = pre(m) + 1 \/ q - 1 = pre(m) + 1
    BY <2>2, <2>5, <2>6
  <2> QED
    BY <2>4, <2>7
<1>14. ASSUME NEW p \in P PROVE text[p] = Mark /\ text[p + 1] = Mark
  <2>1. PICK m \in E : p = pre(m) + 1
    OBVIOUS
  <2>2. m \in 1..Len(t) /\ Len(b(m)) = 2 /\ b(m)[1] = Mark /\ b(m)[2] = Mark
    BY <1>7
  <2>3. pre(m) \in Nat /\ \A j \in 1..Len(b(m)) : text[pre(m) + j] = b(m)[j]
    BY <1>3, <2>2
  <2>4. 1 \in 1..Len(b(m)) /\ 2 \in 1..Len(b(m)) /\ p + 1 = pre(m) + 2
    BY <2>1, <2>2, <2>3
  <2> QED
    BY <2>1, <2>2, <2>3, <2>4, Zenon
<1> HIDE DEF P
<1>15. \A q \in 1..Len(text) : text[q] = Mark <=> q \in P \/ q - 1 \in P
  <2> TAKE q \in 1..Len(text)
  <2>1. q - 1 + 1 = q
    OBVIOUS
  <2>2. q - 1 \in P => text[q] = Mark
    BY <1>14, <2>1
  <2> QED
    BY <1>13, <1>14, <2>2
<1> QED
  BY <1>9, <1>10, <1>11, <1>12, <1>15, NoMarkFound

------------------------------------------------------------------------------
(* The placeholder that use(key, value) finds.                             *)

\* ${key} stands where a placeholder of the key is left, and nowhere else.
LEMMA KeyStands ==
  ASSUME Unambiguous, NEW t \in Seq(Tokens), NEW h \in Uses, NEW x, IsText(x, t, h),
         NEW c \in Keys, NEW p \in Nat
  PROVE  Stands(Chars(c), x, p) <=>
           \E m \in 1..Len(t) : t[m] = c /\ ~Filled(t, h, m) /\ p = Len(Prefix(Blocks(t, h), m - 1))
<1> DEFINE pre(m) == Len(Prefix(Blocks(t, h), m - 1))  b(m) == Block(t, h, m)  q == Chars(c)
<1>1. \A m \in 1..Len(t) : /\ x \in Seq(Symbols) /\ pre(m) \in Nat /\ Len(b(m)) \in Nat
                           /\ pre(m) + Len(b(m)) <= Len(x)
                           /\ \A j \in 1..Len(b(m)) : x[pre(m) + j] = b(m)[j]
  BY TextAround
<1>2. \A m \in 1..Len(t) : \A j \in 1..Len(b(m)) : b(m)[j] = "$" => ~Filled(t, h, m) /\ t[m] \in Keys /\ j = 1
  BY BlockFacts
<1>3. \A i \in 1..Len(x) : \E m \in 1..Len(t) : \E j \in 1..Len(b(m)) : i = pre(m) + j /\ x[i] = b(m)[j]
  <2>1. Placed(x, t, h)
    BY AllPlaced
  <2> QED
    BY <2>1, Zenon DEF Placed
<1>4. ASSUME NEW k \in Keys PROVE Chars(k) = <<"$", "{", k, "}">>
  BY <1>4, OnceAssumption DEF Chars
<1>5. /\ \A m \in 1..Len(t) : ~Filled(t, h, m) => b(m) = Chars(t[m])
      /\ x \in Seq(Symbols) /\ Len(x) \in Nat
  <2>1. x \in Seq(Symbols)
    BY BlockType, FlattenType DEF IsText
  <2> QED
    BY <2>1 DEF Block
<1>6. ASSUME NEW k \in Keys PROVE Len(Chars(k)) = 4 /\ Chars(k)[1] = "$" /\ Chars(k)[3] = k
  <2> DEFINE r == Chars(k)
  <2>1. r = <<"$", "{", k, "}">>
    BY <1>4, Zenon
  <2> HIDE DEF r
  <2>2. Len(r) = 4 /\ r[1] = "$" /\ r[3] = k
    BY <2>1, FourLong
  <2> QED
    BY <2>2 DEF r
<1>0. Len(q) = 4 /\ q[1] = "$" /\ q[3] = c
  BY <1>6, Zenon
<1> HIDE DEF pre, b, q
<1>7. ASSUME Stands(q, x, p)
      PROVE  \E m \in 1..Len(t) : t[m] = c /\ ~Filled(t, h, m) /\ p = pre(m)
  <2>1. p + 4 <= Len(x) /\ x[p + 1] = "$" /\ x[p + 3] = c
    BY <1>0, <1>7 DEF Stands
  <2>2. p + 1 \in 1..Len(x)
    BY <1>5, <2>1
  <2>3. PICK m \in 1..Len(t) : \E j \in 1..Len(b(m)) : p + 1 = pre(m) + j /\ x[p + 1] = b(m)[j]
    BY <1>3, <2>2
  <2>4. PICK j \in 1..Len(b(m)) : p + 1 = pre(m) + j /\ x[p + 1] = b(m)[j]
    BY <2>3
  <2>5. ~Filled(t, h, m) /\ t[m] \in Keys /\ j = 1
    BY <1>2, <2>1, <2>4
  <2>6. p = pre(m)
    BY <1>1, <2>4, <2>5
  <2>7. Len(b(m)) = 4 /\ b(m)[3] = t[m]
    BY <1>5, <1>6, <2>5
  <2>8. x[p + 3] = b(m)[3]
    <3>1. 3 \in 1..Len(b(m))
      BY <2>7
    <3> QED
      BY <1>1, <2>6, <3>1
  <2> QED
    BY <2>1, <2>5, <2>6, <2>7, <2>8
<1>8. ASSUME NEW m \in 1..Len(t), t[m] = c, ~Filled(t, h, m), p = pre(m)
      PROVE  Stands(q, x, p)
  <2>1. b(m) = q
    BY <1>5, <1>8 DEF q
  <2>2. p + Len(q) <= Len(x) /\ \A j \in 1..Len(q) : x[p + j] = q[j]
    BY <1>1, <1>8, <2>1
  <2> QED
    BY <2>2 DEF Stands
<1> QED
  BY <1>7, <1>8 DEF pre, q

\* The first ${key} is that of the first placeholder of the key that is left.
LEMMA FirstKey ==
  ASSUME Unambiguous, NEW t \in Seq(Tokens), NEW h \in Uses, NEW x, IsText(x, t, h),
         NEW c \in Keys, NEW n \in 1..Len(t), t[n] = c, Count(t, c, n) = Len(h[c]) + 1
  PROVE  LET p == Len(Prefix(Blocks(t, h), n - 1))
         IN  p \in Nat /\ Stands(Chars(c), x, p) /\ \A q \in Nat : Stands(Chars(c), x, q) => p <= q
<1> DEFINE pre(m) == Len(Prefix(Blocks(t, h), m - 1))  b(m) == Block(t, h, m)
<1>1. c \in Placeholders /\ \A m \in 1..Len(t) : t[m] = c => (Filled(t, h, m) <=> m < n)
  BY UsedInOrder DEF Placeholders
<1>2. \A p \in Nat : Stands(Chars(c), x, p) <=> \E m \in 1..Len(t) : t[m] = c /\ ~Filled(t, h, m) /\ p = pre(m)
  BY KeyStands
<1>3. \A m \in 1..Len(t) : pre(m) \in Nat /\ Len(b(m)) \in Nat
  BY TextAround
<1>4. \A m, l \in 1..Len(t) : m < l => pre(m) + Len(b(m)) <= pre(l)
  BY PositionOrder
<1> HIDE DEF pre, b
<1>5. Stands(Chars(c), x, pre(n))
  BY <1>1, <1>2, <1>3
<1>6. ASSUME NEW q \in Nat, Stands(Chars(c), x, q) PROVE pre(n) <= q
  <2>1. PICK m \in 1..Len(t) : t[m] = c /\ ~Filled(t, h, m) /\ q = pre(m)
    BY <1>2, <1>6
  <2>2. n = m \/ n < m
    BY <1>1, <2>1
  <2>3. CASE n < m
    <3>1. pre(n) + Len(b(n)) <= pre(m)
      BY <1>4, <2>3
    <3> QED
      BY <1>3, <2>1, <3>1
  <2>4. CASE n = m
    BY <1>3, <2>1, <2>4
  <2> QED
    BY <2>2, <2>3, <2>4
<1> QED
  BY <1>3, <1>5, <1>6 DEF pre

------------------------------------------------------------------------------
(* A placeholder is filled.                                                *)

LEMMA ProductGrows ==
  ASSUME NEW a \in Nat, NEW b \in Nat, NEW l \in Nat, a + 1 <= b
  PROVE  /\ (a + 1) * l = a * l + l /\ (a + 1) * l <= b * l
         /\ a * l \in Nat /\ (a + 1) * l \in Nat /\ b * l \in Nat
<1>1. a * l \in Nat /\ (a + 1) * l = a * l + l
  OBVIOUS
<1>2. b - (a + 1) \in Nat /\ (b - (a + 1)) * l \in Nat
  OBVIOUS
<1>3. b * l = (b - (a + 1)) * l + (a + 1) * l
  OBVIOUS
<1> QED
  BY <1>1, <1>2, <1>3

LEMMA LongestFacts ==
  ASSUME Unambiguous
  PROVE  /\ Longest \in Nat /\ MaxUses * Longest < SizeLimit
         /\ \A v \in Values : Len(v) <= Longest
<1>1. \E n \in 0..SizeLimit : MaxUses * n < SizeLimit /\ \A v \in Values : Len(v) <= n
  BY Zenon DEF Unambiguous
<1>2. /\ Longest \in 0..SizeLimit /\ MaxUses * Longest < SizeLimit
      /\ \A v \in Values : Len(v) <= Longest
  BY <1>1, Zenon DEF Longest
<1> QED
  BY <1>2

\* What a use does to the pieces of the text, and to those of the marks' values.
LEMMA FillBlocks ==
  ASSUME NEW t \in Seq(Tokens), NEW h \in Uses, NEW c \in Placeholders, NEW v \in Values,
         NEW k, OneMore(k, h, c, v),
         NEW n \in 1..Len(t), t[n] = c, Count(t, c, n) = Len(h[c]) + 1
  PROVE  LET B == Blocks(t, h)  M == MarkBlocks(t, h)
         IN /\ k \in Uses
            /\ B[n] = Chars(c) /\ Blocks(t, k)[n] = v
            /\ \A m \in 1..Len(t) : m # n => Blocks(t, k)[m] = B[m]
            /\ M[n] = <<>> /\ MarkBlocks(t, k)[n] = IF c = Mark THEN v ELSE <<>>
            /\ \A m \in 1..Len(t) : m # n => MarkBlocks(t, k)[m] = M[m]
<1>1. /\ k \in Uses
      /\ ~Filled(t, h, n) /\ Filled(t, k, n) /\ Value(t, k, n) = v
      /\ \A m \in 1..Len(t) : m # n => /\ Filled(t, k, m) <=> Filled(t, h, m)
                                       /\ Filled(t, h, m) => Value(t, k, m) = Value(t, h, m)
  BY FillsOne
<1>2. \A m \in 1..Len(t) : Blocks(t, h)[m] = Block(t, h, m) /\ MarkBlocks(t, h)[m] = MarkBlock(t, h, m)
  BY BlockType
<1>3. \A m \in 1..Len(t) : Blocks(t, k)[m] = Block(t, k, m) /\ MarkBlocks(t, k)[m] = MarkBlock(t, k, m)
  BY <1>1, BlockType
<1>4. Block(t, h, n) = Chars(c) /\ Block(t, k, n) = v
  BY <1>1 DEF Block
<1>5. MarkBlock(t, h, n) = <<>> /\ MarkBlock(t, k, n) = IF c = Mark THEN v ELSE <<>>
  BY <1>1 DEF MarkBlock
<1>6. ASSUME NEW m \in 1..Len(t), m # n
      PROVE  Block(t, k, m) = Block(t, h, m) /\ MarkBlock(t, k, m) = MarkBlock(t, h, m)
  BY <1>1, <1>6 DEF Block, MarkBlock
<1> QED
  BY <1>1, <1>2, <1>3, <1>4, <1>5, <1>6, Zenon

LEMMA FillBuilt ==
  ASSUME Unambiguous, NEW t, NEW h, NEW x, NEW s, Built(t, h, x, s),
         NEW c \in Placeholders, NEW v \in Values,
         NEW k, OneMore(k, h, c, v),
         NEW n \in 1..Len(t), t[n] = c, Count(t, c, n) = Len(h[c]) + 1,
         NEW y, y = Replaced(x, Len(Prefix(Blocks(t, h), n - 1)), Len(Chars(c)), v),
         NEW z, c # Mark => z = s,
         c = Mark => Len(h[Mark]) < MaxUses /\ z = (s + Len(v) - 1) % SizeLimit
  PROVE  Built(t, k, y, z)
<1>1. /\ t \in Seq(Tokens) /\ Allowed(t) /\ h \in Uses /\ IsText(x, t, h)
      /\ \A d \in Placeholders : Len(h[d]) <= Count(t, d, Len(t))
      /\ s \in Nat /\ s <= Len(FlattenSeq(MarkBlocks(t, h)))
      /\ s <= Len(h[Mark]) * Longest /\ Len(h[Mark]) <= MaxUses
  BY DEF Built
<1> DEFINE B == Blocks(t, h)  M == MarkBlocks(t, h)  C == Blocks(t, k)  L == MarkBlocks(t, k)
<1>2. /\ k \in Uses
      /\ B[n] = Chars(c) /\ C[n] = v
      /\ \A m \in 1..Len(t) : m # n => C[m] = B[m]
      /\ M[n] = <<>> /\ L[n] = IF c = Mark THEN v ELSE <<>>
      /\ \A m \in 1..Len(t) : m # n => L[m] = M[m]
  BY <1>1, FillBlocks
<1>3. /\ B \in Seq(Seq(Symbols)) /\ Len(B) = Len(t) /\ M \in Seq(Seq(Symbols)) /\ Len(M) = Len(t)
      /\ C \in Seq(Seq(Symbols)) /\ Len(C) = Len(t) /\ L \in Seq(Seq(Symbols)) /\ Len(L) = Len(t)
  BY <1>1, <1>2, BlockType
<1>4. /\ Len(t) \in Nat /\ n \in Nat /\ n <= Len(t)
      /\ \A d \in Placeholders : h[d] \in Seq(Values) /\ Len(h[d]) \in Nat
  <2>1. \A d \in Placeholders : h[d] \in Seq(Values)
    BY <1>1 DEF Uses
  <2> QED
    BY <1>1, <2>1
<1>5. Len(k[c]) = Len(h[c]) + 1 /\ \A d \in Placeholders : d # c => k[d] = h[d]
  <2>1. k[c] = Append(h[c], v) /\ \A d \in Placeholders : d # c => k[d] = h[d]
    BY <1>1 DEF Uses, OneMore
  <2> QED
    BY <1>4, <2>1, AppendProperties
<1> HIDE DEF B, M, C, L
<1>6. IsText(y, t, k)
  <2>1. n \in 1..Len(B) /\ \A m \in 1..Len(B) : m # n => C[m] = B[m]
    BY <1>2, <1>3
  <2>2. FlattenSeq(C) = Replaced(FlattenSeq(B), Len(Prefix(B, n - 1)), Len(B[n]), C[n])
    BY <1>3, <2>1, ReplacedBlock
  <2>3. x = FlattenSeq(B)
    BY <1>1 DEF IsText, B
  <2> QED
    BY <1>2, <2>2, <2>3, Zenon DEF IsText, B, C
<1>7. \A d \in Placeholders : Len(k[d]) <= Count(t, d, Len(t))
  <2>1. Count(t, c, n) <= Count(t, c, Len(t))
    BY <1>4, CountGrows
  <2>2. Len(k[c]) <= Count(t, c, Len(t))
    BY <1>5, <2>1
  <2> QED
    BY <1>1, <1>5, <2>2
<1>8. FlattenSeq(M) \in Seq(Symbols) /\ Len(FlattenSeq(M)) \in Nat
  <2>1. FlattenSeq(M) \in Seq(Symbols)
    BY <1>3, FlattenType
  <2> QED
    BY <2>1
<1>9. CASE c = Mark
  <2>1. Len(FlattenSeq(L)) = Len(FlattenSeq(M)) + Len(v)
    <3>1. n \in 1..Len(M) /\ \A m \in 1..Len(M) : m # n => L[m] = M[m]
      BY <1>2, <1>3
    <3>2. Len(FlattenSeq(L)) + Len(M[n]) = Len(FlattenSeq(M)) + Len(L[n])
      BY <1>3, <3>1, ReplacedBlock
    <3>3. Len(M[n]) = 0 /\ L[n] = v
      <4>1. Len(<<>>) = 0
        OBVIOUS
      <4> QED
        BY <1>2, <1>9, <4>1, Zenon
    <3>4. Len(FlattenSeq(L)) \in Nat
      <4>1. FlattenSeq(L) \in Seq(Symbols)
        BY <1>3, FlattenType
      <4> QED
        BY <4>1
    <3> DEFINE a == Len(FlattenSeq(L))  b == Len(FlattenSeq(M))  e == Len(M[n])
    <3> HIDE DEF a, b, e
    <3>5. a + e = b + Len(v) /\ e = 0 /\ a \in Nat
      BY <3>2, <3>3, <3>4, Zenon DEF a, b, e
    <3>6. a = b + Len(v)
      BY <3>5
    <3> QED
      BY <3>6 DEF a, b
  <2> DEFINE u == Len(h[Mark])  w == u + 1
  <2>2. /\ u \in Nat /\ MaxUses \in Nat /\ SizeLimit \in Nat /\ u + 1 <= MaxUses /\ u < MaxUses
        /\ Len(v) \in Nat /\ Len(v) > 0 /\ Len(v) <= Longest
        /\ Longest \in Nat /\ MaxUses * Longest < SizeLimit
    BY <1>4, <1>9, OnceAssumption, ValueFacts, LongestFacts
  <2>3. s <= u * Longest
    BY <1>1
  <2>4. Len(k[Mark]) = w /\ w <= MaxUses
    BY <1>5, <1>9, <2>2
  <2> HIDE DEF u
  <2>5. /\ (u + 1) * Longest = u * Longest + Longest /\ (u + 1) * Longest <= MaxUses * Longest
        /\ u * Longest \in Nat /\ (u + 1) * Longest \in Nat /\ MaxUses * Longest \in Nat
    BY <2>2, ProductGrows
  <2> DEFINE al == u * Longest  bl == w * Longest  cl == MaxUses * Longest  z0 == s + Len(v) - 1
  <2>6. /\ al \in Nat /\ bl \in Nat /\ cl \in Nat /\ bl = al + Longest /\ bl <= cl /\ cl < SizeLimit /\ s <= al
    BY <2>2, <2>3, <2>5
  <2> HIDE DEF al, bl, cl, w
  <2>7. z0 \in Nat /\ z0 < SizeLimit /\ z0 <= bl
    BY <1>1, <2>2, <2>6
  <2>8. z0 <= Len(FlattenSeq(L))
    BY <1>1, <1>8, <2>1, <2>2 DEF M
  <2>9. z = z0
    <3>1. z = z0 % SizeLimit
      BY <1>9
    <3> HIDE DEF z0
    <3> QED
      BY <2>2, <2>7, <3>1
  <2>10. /\ z \in Nat /\ z <= Len(FlattenSeq(L)) /\ z <= Len(k[Mark]) * Longest /\ Len(k[Mark]) <= MaxUses
    BY <2>4, <2>7, <2>8, <2>9, Zenon DEF bl
  <2> QED
    BY <1>1, <1>2, <1>6, <1>7, <2>10, Zenon DEF Built, L
<1>10. CASE c # Mark
  <2>1. L = M
    <3>1. \A m \in 1..Len(t) : L[m] = M[m]
      BY <1>2, <1>10
    <3> QED
      BY <1>3, <3>1, SeqEqual
  <2>2. k[Mark] = h[Mark] /\ z = s
    BY <1>5, <1>10 DEF Placeholders
  <2> QED
    BY <1>1, <1>2, <1>6, <1>7, <2>1, <2>2, Zenon DEF Built, L, M
<1> QED
  BY <1>9, <1>10

------------------------------------------------------------------------------
(* TextInv is kept.                                                        *)

LEMMA UsedFacts ==
  ASSUME NEW g \in Seq(Values), NEW q \in [Keys -> Seq(Values)]
  PROVE  /\ Used(g, q) \in Uses /\ Used(g, q)[Mark] = g
         /\ \A k \in Keys : k # Mark /\ Used(g, q)[k] = q[k]
<1>1. \A k \in Keys : k # Mark
  BY OnceAssumption
<1> QED
  BY <1>1 DEF Used, Uses, Placeholders

LEMMA UsedMark ==
  ASSUME NEW g \in Seq(Values), NEW q \in [Keys -> Seq(Values)], NEW v \in Values
  PROVE  OneMore(Used(Append(g, v), q), Used(g, q), Mark, v)
<1>1. Mark \in Placeholders
  BY DEF Placeholders
<1> DEFINE h == Used(g, q)  k == Used(Append(g, v), q)  a == Append(g, v)
<1>2. DOMAIN h = Placeholders /\ \A c \in Placeholders : h[c] = IF c = Mark THEN g ELSE q[c]
  BY DEF Used
<1>3. k = [c \in Placeholders |-> IF c = Mark THEN a ELSE q[c]]
  BY DEF Used
<1> HIDE DEF h, k
<1>4. k = [h EXCEPT ![Mark] = Append(@, v)]
  BY <1>1, <1>2, <1>3
<1> QED
  BY <1>4 DEF OneMore, h, k

LEMMA UsedKey ==
  ASSUME NEW g \in Seq(Values), NEW q \in [Keys -> Seq(Values)], NEW k \in Keys, NEW v \in Values
  PROVE  OneMore(Used(g, [q EXCEPT ![k] = Append(@, v)]), Used(g, q), k, v)
<1>1. k \in Placeholders /\ k # Mark
  BY OnceAssumption DEF Placeholders
<1> DEFINE r == [q EXCEPT ![k] = Append(@, v)]  h == Used(g, q)  i == Used(g, r)
<1>2. DOMAIN h = Placeholders /\ \A c \in Placeholders : h[c] = IF c = Mark THEN g ELSE q[c]
  BY DEF Used
<1>3. i = [c \in Placeholders |-> IF c = Mark THEN g ELSE r[c]]
  BY DEF Used
<1>4. r[k] = Append(q[k], v) /\ \A c \in Keys : c # k => r[c] = q[c]
  OBVIOUS
<1> HIDE DEF h, i, r
<1>5. \A c \in Placeholders : i[c] = IF c = k THEN Append(h[k], v) ELSE h[c]
  BY <1>1, <1>2, <1>3, <1>4 DEF Placeholders
<1>6. i = [c \in Placeholders |-> IF c = k THEN Append(h[k], v) ELSE h[c]]
  BY <1>3, <1>5
<1>7. i = [h EXCEPT ![k] = Append(@, v)]
  BY <1>1, <1>2, <1>6
<1> QED
  BY <1>7 DEF OneMore, h, i, r

LEMMA NothingBuilt ==
  ASSUME Unambiguous, NEW g, NEW q, g = <<>>, q = [k \in Keys |-> <<>>]
  PROVE  Built(<<>>, Used(g, q), <<>>, 0)
<1> DEFINE h == Used(g, q)  B == Blocks(<<>>, h)  M == MarkBlocks(<<>>, h)
<1>1. <<>> \in Seq(Tokens) /\ Len(<<>>) = 0 /\ g \in Seq(Values) /\ q \in [Keys -> Seq(Values)]
  OBVIOUS
<1>2. h \in Uses /\ h[Mark] = g /\ \A k \in Keys : h[k] = q[k]
  BY <1>1, UsedFacts
<1>3. \A c \in Placeholders : Len(h[c]) = 0
  BY <1>1, <1>2 DEF Placeholders
<1>4. B \in Seq(Seq(Symbols)) /\ Len(B) = 0 /\ M \in Seq(Seq(Symbols)) /\ Len(M) = 0
  BY <1>1, <1>2, BlockType
<1> HIDE DEF h, B, M
<1>5. B = <<>> /\ M = <<>>
  BY <1>4
<1>6. IsText(<<>>, <<>>, h)
  BY <1>5, FlattenEmpty, Zenon DEF IsText, B
<1>7. 0 <= Len(FlattenSeq(M))
  BY <1>1, <1>5, FlattenEmpty
<1>8. Allowed(<<>>)
  BY DEF Allowed
<1>9. \A c \in Placeholders : Len(h[c]) <= Count(<<>>, c, Len(<<>>))
  <2> TAKE c \in Placeholders
  <2>1. Count(<<>>, c, 0) = 0
    BY CountFacts
  <2> QED
    BY <1>1, <1>3, <2>1
<1>10. 0 <= Len(h[Mark]) * Longest /\ Len(h[Mark]) <= MaxUses
  <2>1. Len(h[Mark]) = 0
    BY <1>3 DEF Placeholders
  <2>2. 0 * Longest = 0
    BY LongestFacts
  <2> QED
    BY <2>1, <2>2, OnceAssumption
<1> QED
  BY <1>1, <1>2, <1>6, <1>7, <1>8, <1>9, <1>10, Zenon DEF Built, h, M

\* What TypeOK and TextInv say of a statement under way.
LEMMA InvFacts ==
  ASSUME TypeOK, TextInv
  PROVE  /\ given \in Seq(Values) /\ keyed \in [Keys -> Seq(Values)] /\ text \in Seq(Symbols)
         /\ template \in Seq(Tokens) /\ Allowed(template)
         /\ Used(given, keyed) \in Uses /\ Used(given, keyed)[Mark] = given
         /\ \A k \in Keys : k # Mark /\ Used(given, keyed)[k] = keyed[k]
         /\ IsText(text, template, Used(given, keyed))
         /\ start \in Nat /\ start <= Len(FlattenSeq(MarkBlocks(template, Used(given, keyed))))
         /\ Len(template) \in Nat /\ Len(given) \in Nat
<1>1. given \in Seq(Values) /\ keyed \in [Keys -> Seq(Values)] /\ text \in Seq(Symbols)
  BY DEF TypeOK
<1>2. /\ template \in Seq(Tokens) /\ Allowed(template)
      /\ IsText(text, template, Used(given, keyed))
      /\ start \in Nat /\ start <= Len(FlattenSeq(MarkBlocks(template, Used(given, keyed))))
  BY DEF TextInv, Built
<1>3. Len(template) \in Nat /\ Len(given) \in Nat
  BY <1>1, <1>2
<1> QED
  BY <1>1, <1>2, <1>3, UsedFacts, Zenon

LEMMA EndText ==
  ASSUME Unambiguous, EndStatement
  PROVE  TextInv'
<1>1. Nothing'
  BY DEF EndStatement, Nothing
<1>2. Built(<<>>, Used(given', keyed'), <<>>, 0)
  BY NothingBuilt DEF EndStatement
<1>3. template' = <<>> /\ text' = <<>> /\ start' = 0
  BY DEF EndStatement
<1>4. Built(template', Used(given', keyed'), text', start')
  BY <1>2, <1>3, Zenon
<1> QED
  BY <1>1, <1>4 DEF TextInv

LEMMA BeginText ==
  ASSUME TypeOK, TextInv, NEW o \in Objects, NEW p \in Pieces, Begin(o, p)
  PROVE  TextInv'
<1>1. Nothing /\ Built(template, Used(given, keyed), text, start)
  BY DEF TextInv, Begin
<1>2. p \in Seq(Tokens) /\ Streamed(p) \in Seq(Symbols)
  BY PieceType, StreamedType
<1>3. Joins(p, template, p) /\ Joins(Streamed(p), text, Streamed(p))
  BY <1>1, <1>2, ConcatEmptySeq, Zenon DEF Nothing, Joins
<1>4. Allowed(p) /\ template' = p /\ text' = Streamed(p) /\ UNCHANGED <<start, given, keyed>>
  BY DEF Begin
<1>5. Built(p, Used(given, keyed), Streamed(p), start)
  BY <1>1, <1>2, <1>3, <1>4, StreamBuilt
<1>6. Built(template', Used(given', keyed'), text', start')
  BY <1>4, <1>5, Zenon
<1>7. once' # NULL
  BY OnceAssumption DEF Begin
<1> QED
  BY <1>6, <1>7 DEF TextInv

LEMMA StreamText ==
  ASSUME TypeOK, TextInv, NEW p \in Pieces, Stream(p)
  PROVE  TextInv'
<1>1. Built(template, Used(given, keyed), text, start)
  BY DEF TextInv
<1>2. p \in Seq(Tokens)
  BY PieceType
<1>3. /\ Allowed(template') /\ Joins(template', template, p) /\ Joins(text', text, Streamed(p))
      /\ UNCHANGED <<once, start, given, keyed>> /\ once # NULL
  BY Zenon DEF Stream, Joins
<1>4. Built(template', Used(given, keyed), text', start)
  BY <1>1, <1>2, <1>3, StreamBuilt
<1>5. Built(template', Used(given', keyed'), text', start')
  BY <1>3, <1>4, Zenon
<1> QED
  BY <1>3, <1>5 DEF TextInv

\* The first placeholder of a kind that is left.
LEMMA FirstLeft ==
  ASSUME NEW t, Len(t) \in Nat, NEW c, NEW n \in Nat, n < Count(t, c, Len(t))
  PROVE  \E m \in 1..Len(t) : t[m] = c /\ Count(t, c, m) = n + 1
<1>1. n + 1 \in 1..Count(t, c, Len(t))
  BY CountFacts
<1> QED
  BY <1>1, CountReached

LEMMA PositionalText ==
  ASSUME Unambiguous, TypeOK, TextInv, NEW v \in Values, UsePositional(v)
  PROVE  TextInv'
<1> DEFINE h == Used(given, keyed)  i == NextMark(start)
<1>1. /\ given \in Seq(Values) /\ keyed \in [Keys -> Seq(Values)] /\ text \in Seq(Symbols)
      /\ template \in Seq(Tokens) /\ Allowed(template)
      /\ h \in Uses /\ h[Mark] = given
      /\ IsText(text, template, h)
      /\ start \in Nat /\ start <= Len(FlattenSeq(MarkBlocks(template, h)))
      /\ Len(template) \in Nat /\ Len(given) \in Nat
  BY InvFacts
<1>2. Built(template, h, text, start)
  BY DEF TextInv
<1>3. Marks = Count(template, Mark, Len(template))
  <2>1. DOMAIN template = 1..Len(template)
    BY <1>1
  <2> QED
    BY <2>1 DEF Marks, Count
<1>4. /\ once # NULL /\ Len(given) < MaxUses /\ UNCHANGED <<once, template, keyed>>
      /\ i < Len(text) => text' = Spliced(i, 1, v) /\ start' = (start + Len(v) - 1) % SizeLimit
      /\ ~(i < Len(text)) => UNCHANGED <<text, start>>
      /\ Len(given) < Marks => given' = Append(given, v)
      /\ ~(Len(given) < Marks) => given' = given
  BY DEF UsePositional, stringVars
<1> HIDE DEF h, i
<1>5. CASE Len(given) < Marks
  <2>1. PICK n \in 1..Len(template) : template[n] = Mark /\ Count(template, Mark, n) = Len(h[Mark]) + 1
    <3>1. Len(given) < Count(template, Mark, Len(template))
      BY <1>3, <1>5, Zenon
    <3> QED
      BY <1>1, <3>1, FirstLeft
  <2>2. i = Len(Prefix(Blocks(template, h), n - 1)) /\ i < Len(text)
    BY <1>1, <2>1, FirstMark DEF i
  <2>3. /\ text' = Spliced(i, 1, v) /\ start' = (start + Len(v) - 1) % SizeLimit
        /\ given' = Append(given, v)
    BY <1>4, <1>5, <2>2
  <2>4. Len(Chars(Mark)) = 1
    <3>1. Mark # Escaped /\ Mark \notin Keys
      BY OnceAssumption DEF Mark, Escaped
    <3>2. Chars(Mark) = <<Mark>>
      BY <3>1 DEF Chars
    <3> QED
      BY <3>2
  <2>5. text' = Replaced(text, Len(Prefix(Blocks(template, h), n - 1)), Len(Chars(Mark)), v)
    BY <2>2, <2>3, <2>4, Zenon DEF Spliced, Replaced
  <2> DEFINE k == Used(given', keyed')
  <2>6. OneMore(k, h, Mark, v)
    <3>1. OneMore(Used(Append(given, v), keyed), Used(given, keyed), Mark, v)
      BY <1>1, UsedMark
    <3> QED
      BY <1>4, <2>3, <3>1, Zenon DEF h
  <2> HIDE DEF k
  <2>7. Mark \in Placeholders /\ Len(h[Mark]) < MaxUses
    BY <1>1, <1>4 DEF Placeholders
  <2>8. Built(template, k, text', start')
    BY <1>2, <2>1, <2>3, <2>5, <2>6, <2>7, FillBuilt
  <2>9. Built(template', Used(given', keyed'), text', start')
    BY <1>4, <2>8, Zenon DEF k
  <2> QED
    BY <1>4, <2>9 DEF TextInv
<1>6. CASE ~(Len(given) < Marks)
  <2>1. Count(template, Mark, Len(template)) <= Len(h[Mark])
    BY <1>1, <1>3, <1>6, CountFacts
  <2>2. i = Len(text)
    BY <1>1, <2>1, NoMark DEF i
  <2>3. UNCHANGED <<once, template, keyed, given, text, start>>
    BY <1>1, <1>4, <1>6, <2>2
  <2>4. Built(template', Used(given', keyed'), text', start')
    BY <1>2, <2>3, Zenon DEF h
  <2> QED
    BY <1>4, <2>4 DEF TextInv
<1> QED
  BY <1>5, <1>6

LEMMA KeyedText ==
  ASSUME Unambiguous, TypeOK, TextInv, NEW c \in Keys, NEW v \in Values, UseKeyed(c, v)
  PROVE  TextInv'
<1> DEFINE h == Used(given, keyed)
<1>1. /\ given \in Seq(Values) /\ keyed \in [Keys -> Seq(Values)] /\ text \in Seq(Symbols)
      /\ template \in Seq(Tokens) /\ Allowed(template)
      /\ h \in Uses /\ c # Mark /\ h[c] = keyed[c]
      /\ IsText(text, template, h)
      /\ Len(template) \in Nat
  BY InvFacts
<1>2. Built(template, h, text, start) /\ c \in Placeholders
  BY DEF TextInv, Placeholders
<1>3. CASE Throw
  BY <1>3, EndText DEF Throw
<1>4. CASE ~Throw
  <2> DEFINE s == Chars(c)  S == {Mark, "$", "{", c, "}"}  U == Symbols \cup S
  <2>1. /\ once # NULL /\ s \in SubSeqs(text) /\ text' = ReplaceFirstSubSeq(v, s, text)
        /\ keyed' = [keyed EXCEPT ![c] = Append(@, v)]
        /\ UNCHANGED <<once, start, template, given>>
    BY <1>4 DEF UseKeyed
  <2>2. s \in Seq(S) /\ s # <<>>
    BY CharsType
  <2>3. s \in Seq(U) /\ text \in Seq(U)
    <3>1. S \subseteq U /\ Symbols \subseteq U
      OBVIOUS
    <3> QED
      BY <1>1, <2>2, <3>1, SeqMonotonic
  <2> HIDE DEF h, s, S, U
  <2>4. PICK q \in Nat : Stands(s, text, q)
    BY <2>1, <2>2, <2>3, Occurs
  <2>5. PICK m \in 1..Len(template) : template[m] = c /\ ~Filled(template, h, m)
    BY <1>1, <2>4, KeyStands DEF s
  <2>6. Len(h[c]) \in Nat /\ Len(h[c]) < Count(template, c, Len(template))
    <3>1. h[c] \in Seq(Values)
      BY <1>1, <1>2 DEF Uses
    <3>2. Len(h[c]) \in Nat /\ ~(Count(template, c, m) <= Len(h[c]))
      BY <1>2, <2>5, <3>1 DEF Filled
    <3>3. m \in Nat /\ m <= Len(template)
      BY <1>1
    <3>4. Count(template, c, m) <= Count(template, c, Len(template))
      BY <1>1, <3>3, CountGrows
    <3>5. Count(template, c, m) \in Nat /\ Count(template, c, Len(template)) \in Nat
      BY <1>1, <3>3, CountFacts
    <3> QED
      BY <3>2, <3>4, <3>5
  <2>7. PICK n \in 1..Len(template) : template[n] = c /\ Count(template, c, n) = Len(h[c]) + 1
    BY <1>1, <2>6, FirstLeft
  <2> DEFINE p == Len(Prefix(Blocks(template, h), n - 1))
  <2>8. p \in Nat /\ Stands(s, text, p) /\ \A r \in Nat : Stands(s, text, r) => p <= r
    BY <1>1, <2>7, FirstKey DEF s
  <2> HIDE DEF p
  <2>9. text' = Replaced(text, p, Len(s), v)
    BY <2>1, <2>2, <2>3, <2>8, ReplaceFirst
  <2> DEFINE k == Used(given', keyed')
  <2>10. OneMore(k, h, c, v)
    <3>1. OneMore(Used(given, [keyed EXCEPT ![c] = Append(@, v)]), Used(given, keyed), c, v)
      BY <1>1, UsedKey
    <3> QED
      BY <2>1, <3>1, Zenon DEF h
  <2> HIDE DEF k
  <2>11. Built(template, k, text', start)
    BY <1>1, <1>2, <2>7, <2>9, <2>10, FillBuilt DEF p, s
  <2>12. Built(template', Used(given', keyed'), text', start')
    BY <2>1, <2>11, Zenon DEF k
  <2> QED
    BY <2>1, <2>12 DEF TextInv
<1> QED
  BY <1>3, <1>4

LEMMA NextText ==
  ASSUME Unambiguous, TypeOK, TextInv, [Next]_vars
  PROVE  TextInv'
<1>1. CASE UNCHANGED <<once, stringVars, historyVars>>
  BY <1>1, Zenon DEF stringVars, historyVars, TextInv, Nothing
<1>2. CASE UNCHANGED vars
  BY <1>1, <1>2 DEF vars
<1>3. ASSUME NEW o \in Objects, NEW p \in Pieces, Begin(o, p) PROVE TextInv'
  BY <1>3, BeginText
<1>4. ASSUME NEW p \in Pieces, Stream(p) PROVE TextInv'
  BY <1>4, StreamText
<1>5. ASSUME NEW v \in Values, UsePositional(v) PROVE TextInv'
  BY <1>5, PositionalText
<1>6. ASSUME NEW k \in Keys, NEW v \in Values, UseKeyed(k, v) PROVE TextInv'
  BY <1>6, KeyedText
<1>7. ASSUME NEW target \in Targets, IntoReleases(target) PROVE TextInv'
  BY <1>7, EndText DEF IntoReleases
<1>8. ASSUME NEW target \in Targets, IntoThrows(target) PROVE TextInv'
  BY <1>8, EndText DEF IntoThrows, Throw
<1>9. ASSUME NEW target \in Targets, IntoCrashes(target) PROVE TextInv'
  BY <1>1, <1>9 DEF IntoCrashes
<1> QED
  BY <1>2, <1>3, <1>4, <1>5, <1>6, <1>7, <1>8, <1>9 DEF Next

------------------------------------------------------------------------------
(* The text is what is meant.                                              *)

\* What Meant says, from the history of any use.
LEMMA MeantIs ==
  ASSUME TypeOK, template \in Seq(Tokens)
  PROVE  /\ DOMAIN template = 1..Len(template)
         /\ \A n \in DOMAIN template :
              /\ Rank(n) = Count(template, template[n], n)
              /\ Rank(n) <= Len(Fillers(n)) <=> Filled(template, Used(given, keyed), n)
              /\ Filled(template, Used(given, keyed), n) =>
                   Fillers(n)[Rank(n)] = Value(template, Used(given, keyed), n)
<1> DEFINE h == Used(given, keyed)
<1>1. /\ h[Mark] = given /\ \A k \in Keys : k # Mark /\ h[k] = keyed[k]
  BY UsedFacts DEF TypeOK
<1> HIDE DEF h
<1>2. DOMAIN template = 1..Len(template)
  OBVIOUS
<1>3. ASSUME NEW n \in DOMAIN template
      PROVE  /\ Rank(n) = Count(template, template[n], n)
             /\ Rank(n) <= Len(Fillers(n)) <=> Filled(template, h, n)
             /\ Filled(template, h, n) => Fillers(n)[Rank(n)] = Value(template, h, n)
  <2>1. Rank(n) = Count(template, template[n], n)
    BY Zenon DEF Rank, Count
  <2>2. CASE template[n] \in Placeholders
    <3>1. Fillers(n) = h[template[n]]
      BY <1>1, <2>2 DEF Fillers, Placeholders
    <3> QED
      BY <2>1, <2>2, <3>1, Zenon DEF Filled, Value
  <2>3. CASE template[n] \notin Placeholders
    <3>1. Len(Fillers(n)) = 0
      <4>1. Fillers(n) = <<>> /\ Len(<<>>) = 0
        BY <2>3 DEF Fillers, Placeholders
      <4> QED
        BY <4>1, Zenon
    <3>2. n \in 1..Len(template)
      BY <1>2
    <3>3. Count(template, template[n], n) \in Nat /\ Count(template, template[n], n) > 0
      <4>1. n \in Nat /\ n - 1 \in Nat /\ n - 1 <= n /\ n - 1 < n
        BY <3>2
      <4>2. Count(template, template[n], n - 1) < Count(template, template[n], n)
        BY <4>1, CountGrows
      <4>3. Count(template, template[n], n) \in Nat /\ Count(template, template[n], n - 1) \in Nat
        BY <4>1, CountFacts
      <4> QED
        BY <4>2, <4>3
    <3>4. ~(Rank(n) <= Len(Fillers(n)))
      BY <2>1, <3>1, <3>3
    <3> QED
      BY <2>1, <2>3, <3>4, Zenon DEF Filled
  <2> QED
    BY <2>1, <2>2, <2>3
<1> QED
  BY <1>2, <1>3 DEF h

LEMMA MeantText ==
  ASSUME TypeOK, template \in Seq(Tokens)
  PROVE  Meant(Chars) = FlattenSeq(Blocks(template, Used(given, keyed)))
<1> DEFINE h == Used(given, keyed)
           m == [n \in DOMAIN template |->
                   IF Rank(n) <= Len(Fillers(n)) THEN Fillers(n)[Rank(n)] ELSE Chars(template[n])]
<1>1. /\ DOMAIN template = 1..Len(template)
      /\ \A n \in DOMAIN template :
           /\ Rank(n) <= Len(Fillers(n)) <=> Filled(template, h, n)
           /\ Filled(template, h, n) => Fillers(n)[Rank(n)] = Value(template, h, n)
  BY MeantIs
<1> HIDE DEF h
<1>2. m = Blocks(template, h)
  BY <1>1, Zenon DEF Blocks, Block
<1>3. Meant(Chars) = FlattenSeq(m)
  BY Zenon DEF Meant
<1> QED
  BY <1>2, <1>3, Zenon DEF h

LEMMA InitText ==
  ASSUME Unambiguous, Init
  PROVE  TypeOK /\ TextInv
<1>1. TypeOK
  BY InitType
<1>2. Built(<<>>, Used(given, keyed), <<>>, 0)
  BY NothingBuilt DEF Init
<1>3. template = <<>> /\ text = <<>> /\ start = 0 /\ Nothing
  BY DEF Init, Nothing
<1> QED
  BY <1>1, <1>2, <1>3, Zenon DEF TextInv

\* Once.h:45-46: in an application whose texts and values can be told apart, the text of
\* the object is what was streamed with the n-th mark replaced by the n-th use(value) and
\* the n-th placeholder of a key by its n-th use(key, value), in whatever order the calls
\* came, however long the values and however many the tokens are.
THEOREM TextIsMeant ==
  ASSUME Unambiguous
  PROVE  Spec => []TextAsMeant
<1>1. Init => TypeOK /\ TextInv
  BY InitText
<1>2. TypeOK /\ TextInv /\ [Next]_vars => TypeOK' /\ TextInv'
  BY NextType, NextText
<1>3. TypeOK /\ TextInv => TextAsMeant
  <2> SUFFICES ASSUME TypeOK, TextInv PROVE text = Meant(Chars)
    BY DEF TextAsMeant
  <2>1. template \in Seq(Tokens) /\ IsText(text, template, Used(given, keyed))
    BY InvFacts
  <2> QED
    BY <2>1, MeantText, Zenon DEF IsText
<1> QED
  BY <1>1, <1>2, <1>3, PTL DEF Spec

------------------------------------------------------------------------------
(* GetSQL.                                                                 *)

\* What its recursion makes of one position.
SqlAt(f, s, i) ==
  IF i > Len(s) THEN <<>>
  ELSE IF i < Len(s) /\ s[i] = Mark /\ s[i + 1] = Mark THEN <<Mark>> \o f[i + 2]
  ELSE <<s[i]>> \o f[i + 1]

Sqls(f, s) == f = [i \in 1..Len(s) + 2 |-> SqlAt(f, s, i)]

LEMMA OneMoreInFront ==
  ASSUME NEW S, NEW e \in S, NEW w \in Seq(S)
  PROVE  <<e>> \o w \in Seq(S)
<1>1. <<e>> \in Seq(S)
  OBVIOUS
<1> QED
  BY <1>1, ConcatProperties

LEMMA SqlAtType ==
  ASSUME NEW S, NEW s \in Seq(S), NEW i \in 1..Len(s) + 2, NEW f,
         \A j \in i + 1..Len(s) + 2 : f[j] \in Seq(S)
  PROVE  SqlAt(f, s, i) \in Seq(S)
<1>1. Len(s) \in Nat
  OBVIOUS
<1>2. CASE i > Len(s)
  <2>1. <<>> \in Seq(S)
    OBVIOUS
  <2> QED
    BY <1>2, <2>1, Zenon DEF SqlAt
<1>3. CASE i < Len(s) /\ s[i] = Mark /\ s[i + 1] = Mark
  <2>1. i + 2 \in i + 1..Len(s) + 2 /\ ~(i > Len(s)) /\ s[i] \in S
    BY <1>1, <1>3
  <2>2. f[i + 2] \in Seq(S) /\ Mark \in S
    BY <1>3, <2>1
  <2>3. <<Mark>> \o f[i + 2] \in Seq(S)
    BY <2>2, OneMoreInFront
  <2> QED
    BY <1>3, <2>1, <2>3, Zenon DEF SqlAt
<1>4. CASE ~(i > Len(s)) /\ ~(i < Len(s) /\ s[i] = Mark /\ s[i + 1] = Mark)
  <2>1. i + 1 \in i + 1..Len(s) + 2 /\ s[i] \in S
    BY <1>1, <1>4
  <2>2. f[i + 1] \in Seq(S)
    BY <2>1
  <2>3. <<s[i]>> \o f[i + 1] \in Seq(S)
    BY <2>1, <2>2, OneMoreInFront
  <2> QED
    BY <1>4, <2>3, Zenon DEF SqlAt
<1> QED
  BY <1>1, <1>2, <1>3, <1>4

LEMMA SqlAtSame ==
  ASSUME NEW S, NEW s \in Seq(S), NEW i \in Nat, NEW f, NEW g,
         i <= Len(s) => f[i + 1] = g[i + 1] /\ f[i + 2] = g[i + 2]
  PROVE  SqlAt(f, s, i) = SqlAt(g, s, i)
<1>1. Len(s) \in Nat
  OBVIOUS
<1>2. CASE i > Len(s)
  BY <1>2, Zenon DEF SqlAt
<1>3. CASE i <= Len(s)
  <2>1. f[i + 1] = g[i + 1] /\ f[i + 2] = g[i + 2]
    BY <1>3
  <2> QED
    BY <2>1, Zenon DEF SqlAt
<1> QED
  BY <1>1, <1>2, <1>3

LEMMA SqlExists ==
  ASSUME NEW S, NEW s \in Seq(S)
  PROVE  \E f : Sqls(f, s)
<1> DEFINE N == Len(s)
           Down(f, m) == \A i \in m + 1..N + 2 : f[i] = SqlAt(f, s, i) /\ f[i] \in Seq(S)
           Up(f, m) == DOMAIN f = m + 1..N + 2 /\ f = [i \in m + 1..N + 2 |-> f[i]]
           G == {m \in 0..N + 2 : \E f : Up(f, m) /\ Down(f, m)}
<1>1. N \in Nat /\ N + 2 \in Nat
  OBVIOUS
<1>2. N + 2 \in G
  <2> DEFINE f == [i \in N + 2 + 1..N + 2 |-> <<>>]
  <2>1. Up(f, N + 2)
    OBVIOUS
  <2>2. Down(f, N + 2)
    <3>1. \A i \in N + 2 + 1..N + 2 : FALSE
      BY <1>1
    <3> HIDE DEF f
    <3> QED
      BY <3>1
  <2> HIDE DEF f, Up, Down
  <2> QED
    BY <1>1, <2>1, <2>2
<1>3. ASSUME NEW m \in 0..N + 2 - 1, m + 1 \in G PROVE m \in G
  <2>1. PICK f : Up(f, m + 1) /\ Down(f, m + 1)
    BY <1>3
  <2> DEFINE k == m + 1  new == SqlAt(f, s, k)  g == [i \in k..N + 2 |-> IF i = k THEN new ELSE f[i]]
  <2>2. k \in 1..N + 2 /\ m \in 0..N + 2 /\ k = m + 1 /\ k \in Nat
    BY <1>1
  <2>3. \A i \in k + 1..N + 2 : f[i] = SqlAt(f, s, i) /\ f[i] \in Seq(S)
    BY <2>1
  <2> HIDE DEF k
  <2>4. new \in Seq(S)
    BY <2>2, <2>3, SqlAtType
  <2>5. /\ \A i \in k..N + 2 : g[i] = IF i = k THEN new ELSE f[i]
        /\ DOMAIN g = k..N + 2 /\ g = [i \in k..N + 2 |-> g[i]]
    <3> HIDE DEF new
    <3> QED
      OBVIOUS
  <2> HIDE DEF g, Up, Down
  <2>6. ASSUME NEW i \in k..N + 2 PROVE g[i] = SqlAt(g, s, i) /\ g[i] \in Seq(S)
    <3>1. i \in Nat /\ (i <= N => /\ i + 1 \in k..N + 2 /\ i + 2 \in k..N + 2 /\ i + 1 # k /\ i + 2 # k)
      BY <1>1, <2>2
    <3>2. i <= N => f[i + 1] = g[i + 1] /\ f[i + 2] = g[i + 2]
      BY <2>5, <3>1
    <3>3. SqlAt(f, s, i) = SqlAt(g, s, i)
      <4> HIDE DEF new
      <4> QED
        BY <3>1, <3>2, SqlAtSame
    <3>4. CASE i = k
      <4>1. g[k] = new
        BY <2>5, <3>4
      <4> QED
        BY <2>4, <3>3, <3>4, <4>1, Zenon DEF new
    <3>5. CASE i # k
      <4>1. i \in k + 1..N + 2 /\ g[i] = f[i]
        BY <2>2, <2>5, <3>5
      <4> QED
        BY <2>3, <3>3, <4>1, Zenon
    <3> QED
      BY <3>4, <3>5
  <2>7. Up(g, m) /\ Down(g, m)
    BY <2>2, <2>5, <2>6, Zenon DEF Up, Down
  <2> HIDE DEF N
  <2> QED
    BY <2>2, <2>7
<1>4. \A m \in 0..N + 2 - 1 : m + 1 \in G => m \in G
  BY <1>3
<1> HIDE DEF G
<1>5. \A m \in 0..N + 2 : m \in G
  BY <1>1, <1>2, <1>4, Downwards
<1>6. 0 \in G
  BY <1>1, <1>5
<1>7. PICK f : Up(f, 0) /\ Down(f, 0)
  BY <1>6 DEF G
<1>8. f = [i \in 1..N + 2 |-> SqlAt(f, s, i)]
  <2>1. 0 + 1 = 1
    OBVIOUS
  <2>2. f = [i \in 1..N + 2 |-> f[i]] /\ \A i \in 1..N + 2 : f[i] = SqlAt(f, s, i)
    BY <1>7, <2>1, Zenon
  <2> HIDE DEF N
  <2> QED
    BY <2>2, Zenon
<1> QED
  BY <1>8, Zenon DEF Sqls

\* The function that GetSQL defines.
LEMMA SqlFunction ==
  ASSUME NEW S, NEW s \in Seq(S)
  PROVE  \E f : /\ GetSQL(s) = f[1]
                /\ \A i \in 1..Len(s) + 2 : f[i] = SqlAt(f, s, i) /\ f[i] \in Seq(S)
<1> DEFINE f == CHOOSE f : Sqls(f, s)  N == Len(s)
<1>1. Sqls(f, s)
  BY SqlExists
<1>2. GetSQL(s) = f[1]
  BY Zenon DEF GetSQL, Sqls, SqlAt
<1> HIDE DEF f
<1>3. \A i \in 1..N + 2 : f[i] = SqlAt(f, s, i)
  BY <1>1, Zenon DEF Sqls
<1>4. \A i \in 1..N + 2 : f[i] \in Seq(S)
  <2> DEFINE G == {m \in 0..N + 2 : \A i \in m + 1..N + 2 : f[i] \in Seq(S)}
  <2>1. N \in Nat /\ N + 2 \in Nat
    OBVIOUS
  <2>2. N + 2 \in G
    BY <2>1
  <2>3. ASSUME NEW m \in 0..N + 2 - 1, m + 1 \in G PROVE m \in G
    <3> DEFINE k == m + 1
    <3>1. k \in 1..N + 2 /\ \A i \in k + 1..N + 2 : f[i] \in Seq(S)
      BY <2>1, <2>3
    <3>2. m \in 0..N + 2 /\ \A i \in m + 1..N + 2 : i = k \/ i \in k + 1..N + 2
      BY <2>1
    <3> HIDE DEF k
    <3>3. f[k] \in Seq(S)
      <4>1. SqlAt(f, s, k) \in Seq(S)
        BY <3>1, SqlAtType
      <4> QED
        BY <1>3, <3>1, <4>1, Zenon
    <3> QED
      BY <3>1, <3>2, <3>3
  <2>4. \A m \in 0..N + 2 - 1 : m + 1 \in G => m \in G
    BY <2>3
  <2> HIDE DEF G
  <2>5. \A m \in 0..N + 2 : m \in G
    BY <2>1, <2>2, <2>4, Downwards
  <2>6. 0 \in G /\ 0 + 1 = 1
    BY <2>1, <2>5
  <2> QED
    BY <2>6, Zenon DEF G
<1> QED
  BY <1>2, <1>3, <1>4, Zenon

\* That f is that recursion on s.
SqlOf(f, s, S) == \A i \in 1..Len(s) + 2 : f[i] = SqlAt(f, s, i) /\ f[i] \in Seq(S)

\* Part of a text in which no mark is directly followed by another is copied.
LEMMA SqlCopies ==
  ASSUME NEW S, NEW s \in Seq(S), NEW f, SqlOf(f, s, S),
         NEW p \in Nat, NEW b \in Seq(S), p + Len(b) <= Len(s),
         \A j \in 1..Len(b) : s[p + j] = b[j],
         \A j \in 1..Len(b) : ~(p + j < Len(s) /\ s[p + j] = Mark /\ s[p + j + 1] = Mark)
  PROVE  f[p + 1] = b \o f[p + Len(b) + 1]
<1> DEFINE N == Len(b)
           G == {m \in 0..N : f[p + 1] = SubSeq(b, 1, m) \o f[p + m + 1]}
<1>1. N \in Nat /\ Len(s) \in Nat /\ p + N <= Len(s)
  OBVIOUS
<1>2. 0 \in G
  <2>1. p + 1 \in 1..Len(s) + 2 /\ p + 0 + 1 = p + 1 /\ 0 \in 0..N
    BY <1>1
  <2>2. f[p + 1] \in Seq(S)
    BY <2>1 DEF SqlOf
  <2>3. SubSeq(b, 1, 0) = <<>> /\ <<>> \o f[p + 1] = f[p + 1]
    BY <2>2, SubSeqEmpty, ConcatEmptySeq
  <2> QED
    BY <2>1, <2>3
<1>3. ASSUME NEW m \in 0..N - 1, m \in G PROVE m + 1 \in G
  <2> DEFINE k == p + m + 1  a == SubSeq(b, 1, m)  e == b[m + 1]  w == f[k + 1]
  <2>1. /\ k \in 1..Len(s) /\ k \in 1..Len(s) + 2 /\ k + 1 \in 1..Len(s) + 2
        /\ m + 1 \in 1..N /\ m + 1 \in 0..N /\ p + (m + 1) = k /\ p + (m + 1) + 1 = k + 1 /\ ~(k > Len(s))
    BY <1>1
  <2>2. a \in Seq(S) /\ e \in S /\ SubSeq(b, 1, m + 1) = Append(a, e)
    BY PrefixGrows
  <2>3. f[p + 1] = a \o f[k]
    BY <1>3
  <2>4. s[k] = e /\ ~(k < Len(s) /\ s[k] = Mark /\ s[k + 1] = Mark)
    <3>1. s[p + (m + 1)] = b[m + 1]
      BY <2>1
    <3>2. ~(p + (m + 1) < Len(s) /\ s[p + (m + 1)] = Mark /\ s[p + (m + 1) + 1] = Mark)
      BY <2>1
    <3> HIDE DEF k
    <3> QED
      BY <2>1, <3>1, <3>2, Zenon
  <2> HIDE DEF G, k, a, e
  <2>5. f[k] = SqlAt(f, s, k) /\ w \in Seq(S)
    BY <2>1 DEF SqlOf
  <2>6. f[k] = <<e>> \o w
    BY <2>1, <2>4, <2>5, Zenon DEF SqlAt
  <2> HIDE DEF w
  <2>7. <<e>> \in Seq(S) /\ Append(a, e) = a \o <<e>>
    BY <2>2, AppendIsConcat
  <2>8. Associates(a, <<e>>, w)
    BY <2>2, <2>5, <2>7, Associative
  <2>9. f[p + 1] = SubSeq(b, 1, m + 1) \o w
    BY <2>2, <2>3, <2>6, <2>7, <2>8, Zenon DEF Associates
  <2>10. w = f[p + (m + 1) + 1]
    BY <2>1, Zenon DEF w
  <2> QED
    BY <2>1, <2>9, <2>10, Zenon DEF G
<1>4. \A m \in 0..N - 1 : m \in G => m + 1 \in G
  BY <1>3
<1> HIDE DEF G
<1>5. \A m \in 0..N : m \in G
  BY <1>1, <1>2, <1>4, Upwards
<1>6. N \in G
  BY <1>1, <1>5
<1>7. SubSeq(b, 1, N) = b
  BY SubSeqFull
<1> QED
  BY <1>6, <1>7, Zenon DEF G

\* Of two marks one is left.
LEMMA SqlErases ==
  ASSUME NEW S, NEW s \in Seq(S), NEW f, SqlOf(f, s, S),
         NEW p \in Nat, p + 2 <= Len(s), s[p + 1] = Mark, s[p + 2] = Mark
  PROVE  f[p + 1] = <<Mark>> \o f[p + 2 + 1]
<1> DEFINE k == p + 1
<1>1. /\ k \in 1..Len(s) + 2 /\ k < Len(s) /\ ~(k > Len(s)) /\ s[k] = Mark /\ s[k + 1] = Mark
      /\ k + 2 = p + 2 + 1
  <2>1. Len(s) \in Nat /\ k + 1 = p + 2
    OBVIOUS
  <2> QED
    BY <2>1
<1>2. f[k] = SqlAt(f, s, k)
  BY <1>1 DEF SqlOf
<1> HIDE DEF k
<1>3. f[k] = <<Mark>> \o f[k + 2]
  BY <1>1, <1>2, Zenon DEF SqlAt
<1> QED
  BY <1>1, <1>3, Zenon DEF k

\* Block by block.
LEMMA SqlOfBlocks ==
  ASSUME NEW S, NEW B \in Seq(Seq(S)), NEW C \in Seq(Seq(S)), Len(C) = Len(B),
         NEW s \in Seq(S), s = FlattenSeq(B), NEW f, SqlOf(f, s, S),
         \A n \in 1..Len(B) : f[Len(Prefix(B, n - 1)) + 1] = C[n] \o f[Len(Prefix(B, n)) + 1]
  PROVE  f[1] = FlattenSeq(C)
<1> DEFINE N == Len(B)  pre(m) == Len(Prefix(B, m))  w(m) == f[pre(m) + 1]
           G == {m \in 0..N : f[1] = Prefix(C, m) \o w(m)}
<1>1. N \in Nat /\ Len(s) \in Nat
  OBVIOUS
<1>2. /\ pre(0) = 0 /\ pre(N) = Len(s)
      /\ Prefix(C, 0) = <<>> /\ Prefix(C, N) = FlattenSeq(C)
      /\ \A m \in 0..N : pre(m) \in Nat /\ pre(m) <= Len(s)
      /\ \A m \in 0..N : Prefix(C, m) \in Seq(S)
      /\ \A m \in 0..N - 1 : Prefix(C, m + 1) = Prefix(C, m) \o C[m + 1]
  <2>1. Prefix(B, 0) = <<>> /\ Prefix(B, N) = s /\ Len(<<>>) = 0
    BY PrefixFacts
  <2>2. \A m \in 0..N : pre(m) \in Nat /\ pre(m) <= pre(N)
    <3> TAKE m \in 0..N
    <3>1. pre(m) \in Nat
      BY PrefixFacts
    <3>2. N \in m..N
      BY <1>1
    <3>3. pre(m) <= pre(N)
      BY <3>2, PrefixLonger
    <3> QED
      BY <3>1, <3>3
  <2>3. /\ Prefix(C, 0) = <<>> /\ Prefix(C, N) = FlattenSeq(C)
        /\ \A m \in 0..N : Prefix(C, m) \in Seq(S)
        /\ \A m \in 0..N - 1 : Prefix(C, m + 1) = Prefix(C, m) \o C[m + 1]
    BY PrefixFacts
  <2> QED
    BY <2>1, <2>2, <2>3
<1> HIDE DEF N, pre
<1>3. \A m \in 0..N : w(m) \in Seq(S)
  <2> TAKE m \in 0..N
  <2>1. pre(m) + 1 \in 1..Len(s) + 2
    BY <1>1, <1>2
  <2> QED
    BY <2>1 DEF SqlOf
<1>4. \A m \in 0..N - 1 : w(m) = C[m + 1] \o w(m + 1)
  <2> TAKE m \in 0..N - 1
  <2> DEFINE n == m + 1
  <2>1. n \in 1..Len(B) /\ n - 1 = m
    BY <1>1 DEF N
  <2> HIDE DEF n
  <2>2. f[Len(Prefix(B, n - 1)) + 1] = C[n] \o f[Len(Prefix(B, n)) + 1]
    BY <2>1
  <2> QED
    BY <2>1, <2>2, Zenon DEF n, pre
<1>5. \A m \in 0..N - 1 : C[m + 1] \in Seq(S) /\ m \in 0..N /\ m + 1 \in 0..N
  BY <1>1 DEF N
<1>6. 0 \in G
  <2>1. pre(0) + 1 = 1 /\ 0 \in 0..N
    BY <1>1, <1>2
  <2>2. <<>> \o w(0) = w(0)
    BY <1>3, <2>1, ConcatEmptySeq
  <2>3. f[1] = w(0)
    BY <2>1, Zenon
  <2> HIDE DEF w
  <2> QED
    BY <1>2, <2>1, <2>2, <2>3, Zenon
<1> HIDE DEF w
<1>7. ASSUME NEW m \in 0..N - 1, m \in G PROVE m + 1 \in G
  <2>1. f[1] = Prefix(C, m) \o w(m)
    BY <1>7
  <2>2. m \in 0..N /\ m + 1 \in 0..N /\ C[m + 1] \in Seq(S)
    BY <1>5
  <2>3. Prefix(C, m) \in Seq(S) /\ w(m + 1) \in Seq(S)
    BY <1>2, <1>3, <2>2
  <2>4. Associates(Prefix(C, m), C[m + 1], w(m + 1))
    BY <2>2, <2>3, Associative
  <2>5. Prefix(C, m + 1) = Prefix(C, m) \o C[m + 1] /\ w(m) = C[m + 1] \o w(m + 1)
    BY <1>2, <1>4
  <2>6. f[1] = Prefix(C, m + 1) \o w(m + 1)
    BY <2>1, <2>4, <2>5, Zenon DEF Associates
  <2> QED
    BY <2>2, <2>6
<1>8. \A m \in 0..N - 1 : m \in G => m + 1 \in G
  BY <1>7
<1> HIDE DEF G
<1>9. \A m \in 0..N : m \in G
  BY <1>1, <1>6, <1>8, Upwards
<1>10. w(N) = <<>>
  <2> DEFINE k == Len(s) + 1
  <2>1. k \in 1..Len(s) + 2 /\ k > Len(s)
    BY <1>1
  <2> HIDE DEF k
  <2>2. f[k] = SqlAt(f, s, k)
    BY <2>1 DEF SqlOf
  <2>3. f[k] = <<>>
    BY <2>1, <2>2, Zenon DEF SqlAt
  <2> QED
    BY <1>2, <2>3, Zenon DEF w, k
<1>11. N \in 0..N /\ N \in G
  BY <1>1, <1>9
<1>12. FlattenSeq(C) \o <<>> = FlattenSeq(C)
  <2>1. FlattenSeq(C) \in Seq(S)
    BY FlattenType
  <2> QED
    BY <2>1, ConcatEmptySeq
<1> QED
  BY <1>2, <1>10, <1>11, <1>12, Zenon DEF G

------------------------------------------------------------------------------
(* What into() sends.                                                      *)

\* The pieces of the text with each escaped question mark written once.
Plain(t, h, n)  == IF Filled(t, h, n) THEN Value(t, h, n) ELSE Unescaped(t[n])
Plains(t, h)    == [n \in 1..Len(t) |-> Plain(t, h, n)]

LEMMA PlainType ==
  ASSUME NEW t \in Seq(Tokens), NEW h \in Uses
  PROVE  /\ Plains(t, h) \in Seq(Seq(Symbols)) /\ Len(Plains(t, h)) = Len(t)
         /\ \A n \in 1..Len(t) :
              /\ Plains(t, h)[n] = Plain(t, h, n)
              /\ t[n] # Escaped \/ Filled(t, h, n) => Plain(t, h, n) = Block(t, h, n)
              /\ t[n] = Escaped /\ ~Filled(t, h, n) => Plain(t, h, n) = <<Mark>> /\ Block(t, h, n) = <<Mark, Mark>>
<1>1. Len(t) \in Nat /\ \A n \in 1..Len(t) : t[n] \in Tokens
  OBVIOUS
<1>2. ASSUME NEW n \in 1..Len(t)
      PROVE  /\ t[n] # Escaped \/ Filled(t, h, n) => Plain(t, h, n) = Block(t, h, n)
             /\ t[n] = Escaped /\ ~Filled(t, h, n) => Plain(t, h, n) = <<Mark>> /\ Block(t, h, n) = <<Mark, Mark>>
  BY Zenon DEF Plain, Block, Unescaped, Chars
<1>3. ASSUME NEW n \in 1..Len(t) PROVE Plain(t, h, n) \in Seq(Symbols)
  <2>1. CASE t[n] # Escaped \/ Filled(t, h, n)
    <3>1. Block(t, h, n) \in Seq(Symbols)
      BY BlockType
    <3> QED
      BY <1>2, <2>1, <3>1, Zenon
  <2>2. CASE t[n] = Escaped /\ ~Filled(t, h, n)
    <3>1. Plain(t, h, n) = <<Mark>> /\ Block(t, h, n) = <<Mark, Mark>>
      BY <1>2, <2>2, Zenon
    <3>2. Block(t, h, n) \in Seq(Symbols)
      BY BlockType
    <3>3. Mark \in Symbols
      BY <3>1, <3>2
    <3>4. <<Mark>> \in Seq(Symbols)
      BY <3>3
    <3> QED
      BY <3>1, <3>4, Zenon
  <2> QED
    BY <2>1, <2>2
<1>4. Plains(t, h) \in [1..Len(t) -> Seq(Symbols)] /\ \A n \in 1..Len(t) : Plains(t, h)[n] = Plain(t, h, n)
  BY <1>3 DEF Plains
<1> QED
  BY <1>1, <1>2, <1>4, SeqOfFunction, Zenon

\* The text of a statement is sent with its escaped question marks written once, and with
\* nothing else changed: no other mark is followed by a mark.
LEMMA SqlOfText ==
  ASSUME Unambiguous, NEW t \in Seq(Tokens), Allowed(t), NEW h \in Uses, NEW x, IsText(x, t, h)
  PROVE  GetSQL(x) = FlattenSeq(Plains(t, h))
<1> DEFINE B == Blocks(t, h)  C == Plains(t, h)  pre(m) == Len(Prefix(Blocks(t, h), m - 1))
           b(m) == Block(t, h, m)  next(m) == Len(Prefix(Blocks(t, h), m))
<1>1. /\ B \in Seq(Seq(Symbols)) /\ Len(B) = Len(t) /\ C \in Seq(Seq(Symbols)) /\ Len(C) = Len(B)
      /\ x = FlattenSeq(B) /\ x \in Seq(Symbols) /\ Len(x) \in Nat
  <2>1. /\ B \in Seq(Seq(Symbols)) /\ Len(B) = Len(t) /\ C \in Seq(Seq(Symbols)) /\ Len(C) = Len(t)
    BY BlockType, PlainType
  <2>2. x = FlattenSeq(B)
    BY DEF IsText
  <2> HIDE DEF B, C
  <2>3. FlattenSeq(B) \in Seq(Symbols)
    BY <2>1, FlattenType
  <2> QED
    BY <2>1, <2>2, <2>3
<1>2. PICK f : GetSQL(x) = f[1] /\ SqlOf(f, x, Symbols)
  <2>1. \E f : /\ GetSQL(x) = f[1]
               /\ \A i \in 1..Len(x) + 2 : f[i] = SqlAt(f, x, i) /\ f[i] \in Seq(Symbols)
    BY <1>1, SqlFunction
  <2> QED
    BY <2>1, Zenon DEF SqlOf
<1>3. \A m \in 1..Len(t) : /\ pre(m) \in Nat /\ Len(b(m)) \in Nat
                           /\ pre(m) + Len(b(m)) <= Len(x) /\ next(m) = pre(m) + Len(b(m))
                           /\ \A j \in 1..Len(b(m)) : x[pre(m) + j] = b(m)[j]
  BY TextAround
<1>4. \A m \in 1..Len(t) : /\ b(m) \in Seq(Symbols)
                           /\ \A j \in 1..Len(b(m)) :
                                b(m)[j] = Mark => ~Filled(t, h, m) /\ t[m] \in {Mark, Escaped}
  BY BlockType, BlockFacts
<1>5. \A m \in 1..Len(t) : t[m] = Mark /\ ~Filled(t, h, m) =>
        b(m) = <<Mark>> /\ (pre(m) + 1 < Len(x) => x[pre(m) + 2] # Mark)
  BY MarkAlone
<1>6. \A m \in 1..Len(t) :
        /\ C[m] = Plain(t, h, m)
        /\ t[m] # Escaped \/ Filled(t, h, m) => Plain(t, h, m) = b(m)
        /\ t[m] = Escaped /\ ~Filled(t, h, m) => Plain(t, h, m) = <<Mark>> /\ b(m) = <<Mark, Mark>>
  BY PlainType
<1> HIDE DEF B, C, pre, b, next
<1>7. ASSUME NEW n \in 1..Len(t) PROVE f[pre(n) + 1] = C[n] \o f[next(n) + 1]
  <2>1. CASE t[n] = Escaped /\ ~Filled(t, h, n)
    <3>1. C[n] = <<Mark>> /\ b(n) = <<Mark, Mark>>
      BY <1>6, <2>1, Zenon
    <3>2. Len(b(n)) = 2 /\ b(n)[1] = Mark /\ b(n)[2] = Mark
      BY <3>1
    <3> DEFINE p == pre(n)
    <3>3. /\ p \in Nat /\ p + Len(b(n)) <= Len(x) /\ next(n) = p + Len(b(n))
          /\ \A j \in 1..Len(b(n)) : x[p + j] = b(n)[j]
      BY <1>3
    <3> HIDE DEF p
    <3>4. 1 \in 1..Len(b(n)) /\ 2 \in 1..Len(b(n))
      BY <3>2
    <3>5. p + 2 <= Len(x) /\ x[p + 1] = Mark /\ x[p + 2] = Mark /\ next(n) = p + 2
      BY <3>2, <3>3, <3>4, Zenon
    <3>6. f[p + 1] = <<Mark>> \o f[p + 2 + 1]
      BY <1>1, <1>2, <3>3, <3>5, SqlErases
    <3> QED
      BY <3>1, <3>5, <3>6, Zenon DEF p
  <2>2. CASE t[n] # Escaped \/ Filled(t, h, n)
    <3> DEFINE p == pre(n)  c == b(n)
    <3>1. C[n] = c
      BY <1>6, <2>2, Zenon
    <3>2. /\ p \in Nat /\ Len(c) \in Nat /\ p + Len(c) <= Len(x) /\ next(n) = p + Len(c)
          /\ \A j \in 1..Len(c) : x[p + j] = c[j]
      BY <1>3
    <3>3. /\ c \in Seq(Symbols)
          /\ \A j \in 1..Len(c) : c[j] = Mark => ~Filled(t, h, n) /\ t[n] \in {Mark, Escaped}
      BY <1>4
    <3>4. t[n] = Mark /\ ~Filled(t, h, n) => c = <<Mark>> /\ (p + 1 < Len(x) => x[p + 2] # Mark)
      BY <1>5
    <3> HIDE DEF p, c
    <3>5. ASSUME NEW j \in 1..Len(c), p + j < Len(x), x[p + j] = Mark, x[p + j + 1] = Mark PROVE FALSE
      <4>1. c[j] = Mark
        BY <3>2, <3>5
      <4>2. t[n] = Mark /\ ~Filled(t, h, n)
        BY <2>2, <3>3, <4>1
      <4>3. c = <<Mark>> /\ (p + 1 < Len(x) => x[p + 2] # Mark)
        BY <3>4, <4>2
      <4>4. j = 1
        BY <4>3
      <4>5. p + j + 1 = p + 2
        BY <3>2, <4>4
      <4> QED
        BY <3>5, <4>3, <4>4, <4>5, Zenon
    <3>6. \A j \in 1..Len(c) : ~(p + j < Len(x) /\ x[p + j] = Mark /\ x[p + j + 1] = Mark)
      BY <3>5
    <3>7. f[p + 1] = c \o f[p + Len(c) + 1]
      <4>1. x \in Seq(Symbols) /\ SqlOf(f, x, Symbols)
        BY <1>1, <1>2
      <4>2. p \in Nat /\ p + Len(c) <= Len(x) /\ c \in Seq(Symbols)
        BY <3>2, <3>3
      <4>3. \A j \in 1..Len(c) : x[p + j] = c[j]
        BY <3>2
      <4> QED
        BY <3>6, <4>1, <4>2, <4>3, SqlCopies
    <3> QED
      BY <3>1, <3>2, <3>7, Zenon DEF p
  <2> QED
    BY <2>1, <2>2
<1>8. \A n \in 1..Len(B) : f[Len(Prefix(B, n - 1)) + 1] = C[n] \o f[Len(Prefix(B, n)) + 1]
  BY <1>1, <1>7, Zenon DEF pre, next, B
<1>9. f[1] = FlattenSeq(C)
  BY <1>1, <1>2, <1>8, SqlOfBlocks
<1> QED
  BY <1>2, <1>9, Zenon DEF C

LEMMA MeantSql ==
  ASSUME TypeOK, template \in Seq(Tokens)
  PROVE  Meant(Unescaped) = FlattenSeq(Plains(template, Used(given, keyed)))
<1> DEFINE h == Used(given, keyed)
           m == [n \in DOMAIN template |->
                   IF Rank(n) <= Len(Fillers(n)) THEN Fillers(n)[Rank(n)] ELSE Unescaped(template[n])]
<1>1. /\ DOMAIN template = 1..Len(template)
      /\ \A n \in DOMAIN template :
           /\ Rank(n) <= Len(Fillers(n)) <=> Filled(template, h, n)
           /\ Filled(template, h, n) => Fillers(n)[Rank(n)] = Value(template, h, n)
  BY MeantIs
<1> HIDE DEF h
<1>2. m = Plains(template, h)
  BY <1>1, Zenon DEF Plains, Plain
<1>3. Meant(Unescaped) = FlattenSeq(m)
  BY Zenon DEF Meant
<1> QED
  BY <1>2, <1>3, Zenon DEF h

\* Once.cpp getSQL(): whenever into() comes, what is sent is the template with its
\* placeholders filled in as far as they were used and each escaped question mark written
\* once; no mark of another token is taken for part of an escaped one.
THEOREM SqlIsMeant ==
  ASSUME Unambiguous
  PROVE  Spec => []SqlAsMeant
<1>1. Init => TypeOK /\ TextInv
  BY InitText
<1>2. TypeOK /\ TextInv /\ [Next]_vars => TypeOK' /\ TextInv'
  BY NextType, NextText
<1>3. TypeOK /\ TextInv => SqlAsMeant
  <2> SUFFICES ASSUME TypeOK, TextInv PROVE GetSQL(text) = Meant(Unescaped)
    BY DEF SqlAsMeant
  <2>1. /\ template \in Seq(Tokens) /\ Allowed(template) /\ Used(given, keyed) \in Uses
        /\ IsText(text, template, Used(given, keyed))
    BY InvFacts
  <2> QED
    BY <2>1, SqlOfText, MeantSql, Zenon
<1> QED
  BY <1>1, <1>2, <1>3, PTL DEF Spec

============================================================================
