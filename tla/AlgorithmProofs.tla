-------------------------- MODULE AlgorithmProofs --------------------------
(* Theorems about SelectionList, Passes and Waves.  For any candidates that  *)
(* differ in their hashes, in whatever order they arrive, the lists select   *)
(* what the rule on sets names; the passes do what LLFC takes them for, and  *)
(* the waves are kept, for any bounds, terms and sets of engines.            *)
EXTENDS SelectionList, Passes, Waves, FiniteSetTheorems, TLAPS

-----------------------------------------------------------------------------
(* Induction and recursion up to a number, for sets and functions.           *)

LEMMA Reaches ==
    ASSUME NEW n \in Nat, NEW T,
           0 \in T, \A i \in 0 .. n - 1 : i \in T => i + 1 \in T
    PROVE  0 .. n \subseteq T
<1> SUFFICES ASSUME NEW k \in 0 .. n, k \notin T PROVE FALSE
    OBVIOUS
<1> DEFINE U == {s \in SUBSET (0 .. n) :
                    \E j \in 0 .. n : s = 0 .. j /\ j \notin T}
           R == StrictSubsetOrdering(0 .. n)
<1>1. IsWellFoundedOn(R, FiniteSubsetsOf(0 .. n))
    BY FS_StrictSubsetOrderingWellFounded
<1>2. U \subseteq FiniteSubsetsOf(0 .. n)
    BY FS_Interval, FS_Subset DEF FiniteSubsetsOf
<1>3. 0 .. k \in U
    OBVIOUS
<1> HIDE DEF U, R
<1>4. PICK s \in U : \A u \in U : ~ (<<u, s>> \in R)
    BY <1>1, <1>2, <1>3, WFMin
<1>5. PICK j \in 0 .. n : s = 0 .. j /\ j \notin T
    BY DEF U
<1>6. j - 1 \in 0 .. n - 1 /\ j - 1 \notin T
    BY <1>5
<1>7. 0 .. j - 1 \in U
    BY <1>6 DEF U
<1>8. <<0 .. j - 1, s>> \in R
    BY <1>5, <1>6 DEF R, StrictSubsetOrdering
<1> QED BY <1>4, <1>7, <1>8

\* f obeys g up to k.
Obeys(f, g, a, k) == f[0] = a /\ \A i \in 1 .. k : f[i] = g[<<f[i - 1], i>>]

LEMMA Recursion ==
    ASSUME NEW n \in Nat, NEW A, NEW a \in A, NEW g \in [A \X (1 .. n) -> A]
    PROVE  \E f \in [0 .. n -> A] : Obeys(f, g, a, n)
<1> DEFINE T == {k \in 0 .. n : \E f \in [0 .. n -> A] : Obeys(f, g, a, k)}
<1>1. 0 \in T
  <2> DEFINE h == [i \in 0 .. n |-> a]
  <2>1. h \in [0 .. n -> A] /\ h[0] = a
    OBVIOUS
  <2>2. Obeys(h, g, a, 0)
    BY <2>1 DEF Obeys
  <2> QED BY <2>1, <2>2
<1>2. ASSUME NEW k \in 0 .. n - 1, k \in T PROVE k + 1 \in T
  <2>1. PICK f \in [0 .. n -> A] : Obeys(f, g, a, k)
    BY <1>2
  <2> DEFINE h == [f EXCEPT ![k + 1] = g[<<f[k], k + 1>>]]
  <2>2. k \in 0 .. n /\ k + 1 \in 1 .. n /\ k + 1 \in 0 .. n
    OBVIOUS
  <2>3. f[k] \in A /\ <<f[k], k + 1>> \in A \X (1 .. n)
    BY <2>2
  <2>4. g[<<f[k], k + 1>>] \in A
    BY <2>3
  <2>5. /\ h \in [0 .. n -> A]
        /\ h[k + 1] = g[<<f[k], k + 1>>]
        /\ \A i \in 0 .. k : h[i] = f[i]
    BY <2>2, <2>4
  <2> HIDE DEF h
  <2>6. ASSUME NEW i \in 1 .. k + 1 PROVE h[i] = g[<<h[i - 1], i>>]
    <3>1. CASE i = k + 1
      <4>1. i - 1 = k /\ h[k] = f[k]
        BY <3>1, <2>5
      <4> QED BY <3>1, <4>1, <2>5
    <3>2. CASE i \in 1 .. k
      <4>1. h[i] = f[i] /\ h[i - 1] = f[i - 1]
        BY <3>2, <2>5
      <4> QED BY <4>1, <3>2, <2>1 DEF Obeys
    <3> QED BY <3>1, <3>2
  <2>7. h[0] = a
    BY <2>1, <2>5 DEF Obeys
  <2>8. Obeys(h, g, a, k + 1)
    BY <2>6, <2>7 DEF Obeys
  <2> QED BY <2>2, <2>5, <2>8
<1> HIDE DEF T
<1>3. 0 .. n \subseteq T
    BY <1>1, <1>2, Reaches
<1>4. n \in T
    BY <1>3
<1> QED BY <1>4 DEF T


-----------------------------------------------------------------------------
(* The greatest and the least of some numbers.                               *)

Bounded(s) == \E x \in s : \A y \in s : x >= y
Founded(s) == \E x \in s : \A y \in s : x <= y

LEMMA Bounds ==
    ASSUME NEW S \in SUBSET Int, IsFiniteSet(S), S # {}
    PROVE  Bounded(S) /\ Founded(S)
<1> SUFFICES ASSUME ~ (Bounded(S) /\ Founded(S)) PROVE FALSE
    OBVIOUS
<1> DEFINE U == {s \in SUBSET S : s # {} /\ ~ (Bounded(s) /\ Founded(s))}
           R == StrictSubsetOrdering(S)
<1>1. IsWellFoundedOn(R, FiniteSubsetsOf(S))
    BY FS_StrictSubsetOrderingWellFounded
<1>2. U \subseteq FiniteSubsetsOf(S) /\ S \in U
    BY FS_Subset DEF FiniteSubsetsOf
<1> HIDE DEF U, R
<1>3. PICK s \in U : \A u \in U : ~ (<<u, s>> \in R)
    BY <1>1, <1>2, WFMin
<1>4. s \in SUBSET S /\ s # {} /\ ~ (Bounded(s) /\ Founded(s))
    BY DEF U
<1>5. PICK x \in s : TRUE
    BY <1>4
<1>6. <<s \ {x}, s>> \in R
    BY <1>4 DEF R, StrictSubsetOrdering
<1>7. s \ {x} = {} \/ (Bounded(s \ {x}) /\ Founded(s \ {x}))
    BY <1>3, <1>4, <1>6 DEF U
<1>8. CASE s \ {x} = {}
  <2>1. s = {x}
    BY <1>8
  <2> QED BY <2>1, <1>4 DEF Bounded, Founded
<1>9. CASE Bounded(s \ {x}) /\ Founded(s \ {x})
  <2>1. PICK m \in s \ {x} : \A y \in s \ {x} : m >= y
    BY <1>9 DEF Bounded
  <2>2. PICK l \in s \ {x} : \A y \in s \ {x} : l <= y
    BY <1>9 DEF Founded
  <2>3. Bounded(s)
    <3>1. CASE m >= x
      BY <2>1, <3>1 DEF Bounded
    <3>2. CASE ~ (m >= x)
      <4>1. \A y \in s : x >= y
        BY <2>1, <3>2, <1>4
      <4> QED BY <4>1 DEF Bounded
    <3> QED BY <3>1, <3>2
  <2>4. Founded(s)
    <3>1. CASE l <= x
      BY <2>2, <3>1 DEF Founded
    <3>2. CASE ~ (l <= x)
      <4>1. \A y \in s : x <= y
        BY <2>2, <3>2, <1>4
      <4> QED BY <4>1 DEF Founded
    <3> QED BY <3>1, <3>2
  <2> QED BY <2>3, <2>4, <1>4
<1> QED BY <1>7, <1>8, <1>9

LEMMA Extremes ==
    ASSUME NEW S \in SUBSET Int, IsFiniteSet(S), S # {}
    PROVE  /\ Max(S) \in S /\ \A x \in S : Max(S) >= x
           /\ Min(S) \in S /\ \A x \in S : Min(S) <= x
<1>1. Bounded(S) /\ Founded(S)
    BY Bounds
<1> QED BY <1>1 DEF Bounded, Founded, Max, Min

-----------------------------------------------------------------------------
(* The traces of passes.                                                     *)

Others ==
    {"clear_pool", "create_candidate_block", "get_propose_block_from_pool",
     "create_vote", "create_finalize_block", "select_conflict_tolerance"}

Name ==
    Checks \cup Others \cup
        {"increase_height", "retry_round", "time_start", "update_stage",
         "select_timecompatibility"}

Stage == {"PROPOSE", "COLLECT_CANDIDATE", "COLLECT_VOTE", "WAIT_FOR_FINALIZE"}

Nowhere == ""

CallSet == [name : Name, arg : Stage \cup {Nowhere}]

Trace == Seq(CallSet)

LEMMA MaxIs ==
    ASSUME NEW S \in SUBSET Int, NEW m \in S, \A x \in S : m >= x
    PROVE  Max(S) = m
<1>1. \A x \in S : (\A y \in S : x >= y) => x = m
    OBVIOUS
<1> QED BY <1>1, Zenon DEF Max

LEMMA CallIsIn ==
    ASSUME NEW name \in Name, NEW arg \in Stage \cup {Nowhere}
    PROVE  /\ Call(name, arg) \in CallSet /\ <<Call(name, arg)>> \in Trace
           /\ Call(name, arg).name = name /\ Call(name, arg).arg = arg
<1>1. /\ Call(name, arg) \in CallSet
      /\ Call(name, arg).name = name /\ Call(name, arg).arg = arg
    BY DEF Call, CallSet
<1> QED BY <1>1 DEF Trace

LEMMA TraceFacts ==
    ASSUME NEW t \in Trace
    PROVE  /\ Len(t) \in Nat /\ DOMAIN t = 1 .. Len(t)
           /\ \A i \in DOMAIN t : t[i] \in CallSet
           /\ \A name : /\ Calls(t, name) \subseteq 1 .. Len(t)
                        /\ Calls(t, name) \subseteq Int
                        /\ IsFiniteSet(Calls(t, name))
                        /\ Count(t, name) \in Nat
<1>1. /\ Len(t) \in Nat /\ DOMAIN t = 1 .. Len(t)
      /\ \A i \in DOMAIN t : t[i] \in CallSet
    BY DEF Trace
<1>2. ASSUME NEW name
      PROVE  /\ Calls(t, name) \subseteq 1 .. Len(t)
             /\ Calls(t, name) \subseteq Int
             /\ IsFiniteSet(Calls(t, name))
             /\ Count(t, name) \in Nat
  <2>1. Calls(t, name) \subseteq 1 .. Len(t)
    BY <1>1 DEF Calls
  <2>2. IsFiniteSet(Calls(t, name))
    <3>1. IsFiniteSet(1 .. Len(t))
      BY <1>1, FS_Interval
    <3> QED BY <2>1, <3>1, FS_Subset
  <2>3. Count(t, name) \in Nat
    BY <2>2, FS_CardinalityType DEF Count
  <2> QED BY <1>1, <2>1, <2>2, <2>3
<1>3. \A name : /\ Calls(t, name) \subseteq 1 .. Len(t)
                /\ Calls(t, name) \subseteq Int
                /\ IsFiniteSet(Calls(t, name))
                /\ Count(t, name) \in Nat
    BY <1>2
<1> QED BY <1>1, <1>3

\* The calls of one trace after another
LEMMA CallsOfBoth ==
    ASSUME NEW s \in Trace, NEW t \in Trace, NEW name
    PROVE  /\ s \o t \in Trace
           /\ Len(s \o t) = Len(s) + Len(t)
           /\ \A i \in 1 .. Len(s) : (s \o t)[i] = s[i]
           /\ \A i \in 1 .. Len(t) : (s \o t)[Len(s) + i] = t[i]
           /\ Calls(s \o t, name) =
                  Calls(s, name) \cup {Len(s) + i : i \in Calls(t, name)}
<1>1. /\ s \o t \in Trace
      /\ Len(s \o t) = Len(s) + Len(t)
      /\ \A i \in 1 .. Len(s) : (s \o t)[i] = s[i]
      /\ \A i \in 1 .. Len(t) : (s \o t)[Len(s) + i] = t[i]
    BY DEF Trace
<1> DEFINE u == s \o t
<1>2. u \in Trace /\ Len(u) = Len(s) + Len(t)
    BY <1>1
<1>3. \A i \in 1 .. Len(s) : u[i] = s[i]
    BY <1>1
<1>4. \A i \in 1 .. Len(t) : u[Len(s) + i] = t[i]
    BY <1>1
<1>5. /\ Len(s) \in Nat /\ DOMAIN s = 1 .. Len(s)
      /\ Len(t) \in Nat /\ DOMAIN t = 1 .. Len(t)
      /\ DOMAIN u = 1 .. Len(s) + Len(t)
    BY <1>2, TraceFacts
<1> HIDE DEF u
<1>6. ASSUME NEW i \in Calls(u, name)
      PROVE  i \in Calls(s, name) \/ \E j \in Calls(t, name) : i = Len(s) + j
  <2>1. i \in 1 .. Len(s) + Len(t) /\ u[i].name = name
    BY <1>5 DEF Calls
  <2>2. CASE i \in 1 .. Len(s)
    BY <2>1, <2>2, <1>3, <1>5 DEF Calls
  <2>3. CASE i \notin 1 .. Len(s)
    <3>1. i - Len(s) \in 1 .. Len(t) /\ i = Len(s) + (i - Len(s))
      BY <2>1, <2>3, <1>5
    <3>2. PICK j \in 1 .. Len(t) : i = Len(s) + j
      BY <3>1
    <3>3. j \in Calls(t, name)
      BY <2>1, <3>2, <1>4, <1>5 DEF Calls
    <3> QED BY <3>2, <3>3
  <2> QED BY <2>2, <2>3
<1>7. ASSUME NEW i \in Calls(s, name) PROVE i \in Calls(u, name)
  <2>1. i \in 1 .. Len(s) /\ s[i].name = name
    BY <1>5 DEF Calls
  <2> QED BY <2>1, <1>3, <1>5 DEF Calls
<1>8. ASSUME NEW j \in Calls(t, name) PROVE Len(s) + j \in Calls(u, name)
  <2>1. j \in 1 .. Len(t) /\ t[j].name = name
    BY <1>5 DEF Calls
  <2> QED BY <2>1, <1>4, <1>5 DEF Calls
<1>9. Calls(u, name) = Calls(s, name) \cup {Len(s) + i : i \in Calls(t, name)}
    BY <1>6, <1>7, <1>8
<1> QED BY <1>1, <1>9 DEF u

LEMMA CountOfBoth ==
    ASSUME NEW s \in Trace, NEW t \in Trace, NEW name
    PROVE  /\ Count(s \o t, name) = Count(s, name) + Count(t, name)
           /\ Does(s \o t, name) <=> Does(s, name) \/ Does(t, name)
<1> DEFINE A == Calls(s, name)
           B == Calls(t, name)
           C == {Len(s) + i : i \in B}
<1>1. Calls(s \o t, name) = A \cup C
    BY CallsOfBoth
<1>2. /\ Len(s) \in Nat
      /\ A \subseteq 1 .. Len(s) /\ IsFiniteSet(A)
      /\ B \subseteq 1 .. Len(t) /\ IsFiniteSet(B) /\ B \subseteq Int
    BY TraceFacts
<1> HIDE DEF A, B
<1>3. IsFiniteSet(C) /\ Cardinality(C) = Cardinality(B)
  <2> DEFINE f == [i \in B |-> Len(s) + i]
  <2>1. f \in Bijection(B, C)
    BY <1>2 DEF Bijection, Injection, Surjection, IsInjective
  <2> QED BY <2>1, <1>2, FS_Bijection DEF ExistsBijection
<1>4. A \cap C = {}
    BY <1>2
<1>5. Cardinality(A \cup C) = Cardinality(A) + Cardinality(C)
  <2>1. Cardinality(A \cap C) = 0
    BY <1>4, FS_EmptySet
  <2>2. Cardinality(A) \in Nat /\ Cardinality(C) \in Nat
    BY <1>2, <1>3, FS_CardinalityType
  <2>3. Cardinality(A \cup C)
            = Cardinality(A) + Cardinality(C) - Cardinality(A \cap C)
    BY <1>2, <1>3, FS_Union
  <2> QED BY <2>1, <2>2, <2>3
<1>6. A \cup C = {} <=> A = {} /\ B = {}
    OBVIOUS
<1> QED BY <1>1, <1>3, <1>5, <1>6 DEF Count, Does, A, B

\* The last update_stage of both is that of the second, if it has one.
LEMMA LastOfBoth ==
    ASSUME NEW s \in Trace, NEW t \in Trace, NEW from
    PROVE  LastStage(s \o t, from) = LastStage(t, LastStage(s, from))
<1> DEFINE A == Calls(s, "update_stage")
           B == Calls(t, "update_stage")
           C == {Len(s) + i : i \in B}
           u == s \o t
<1>1. Calls(u, "update_stage") = A \cup C
    BY CallsOfBoth
<1>2. /\ Len(s) \in Nat /\ A \subseteq Int /\ B \subseteq Int
      /\ A \subseteq 1 .. Len(s) /\ IsFiniteSet(A)
      /\ B \subseteq 1 .. Len(t) /\ IsFiniteSet(B)
    BY TraceFacts
<1>3. /\ \A i \in 1 .. Len(s) : u[i] = s[i]
      /\ \A i \in 1 .. Len(t) : u[Len(s) + i] = t[i]
    BY CallsOfBoth
<1> HIDE DEF A, B, u
<1>4. CASE B = {}
  <2>1. A \cup C = A
    BY <1>4
  <2>2. A # {} => u[Max(A)] = s[Max(A)]
    BY <1>2, <1>3, Extremes
  <2>3. LastStage(t, LastStage(s, from)) = LastStage(s, from)
    BY <1>4 DEF LastStage, Does, B
  <2>4. LastStage(u, from) = IF A # {} THEN u[Max(A)].arg ELSE from
    BY <1>1, <2>1 DEF LastStage, Does
  <2>5. LastStage(s, from) = IF A # {} THEN s[Max(A)].arg ELSE from
    BY DEF LastStage, Does, A
  <2>6. LastStage(u, from) = LastStage(s, from)
    BY <2>2, <2>4, <2>5
  <2> QED BY <2>3, <2>6 DEF u
<1>5. CASE B # {}
  <2>1. Max(B) \in B /\ \A i \in B : Max(B) >= i
    BY <1>2, <1>5, Extremes
  <2>2. Max(B) \in 1 .. Len(t)
    BY <2>1, <1>2
  <2>3. /\ Len(s) + Max(B) \in A \cup C /\ A \cup C \in SUBSET Int
        /\ \A x \in A \cup C : Len(s) + Max(B) >= x
    <3>1. Len(s) + Max(B) \in C
      BY <2>1
    <3> HIDE DEF C
    <3>4. C \subseteq Int
      BY <1>2 DEF C
    <3>5. A \cup C \in SUBSET Int
      BY <1>2, <3>4
    <3> USE DEF C
    <3>2. ASSUME NEW x \in A PROVE Len(s) + Max(B) >= x
      <4>1. x \in 1 .. Len(s)
        BY <1>2
      <4>2. Max(B) \in Int /\ Max(B) >= 1
        BY <2>1, <2>2, <1>2
      <4> QED BY <4>1, <4>2, <1>2
    <3>3. ASSUME NEW i \in B PROVE Len(s) + Max(B) >= Len(s) + i
      <4>1. Max(B) >= i /\ i \in Int /\ Max(B) \in Int
        BY <2>1, <1>2
      <4> QED BY <4>1, <1>2
    <3> QED BY <3>1, <3>5, <3>2, <3>3
  <2>4. Max(A \cup C) = Len(s) + Max(B)
    <3> HIDE DEF C
    <3> QED BY <2>3, MaxIs
  <2>5. u[Max(A \cup C)] = t[Max(B)]
    BY <2>2, <2>4, <1>3
  <2>6. A \cup C # {}
    BY <1>5
  <2>7. LastStage(u, from) = u[Max(A \cup C)].arg
    BY <1>1, <2>6 DEF LastStage, Does
  <2>8. LastStage(t, LastStage(s, from)) = t[Max(B)].arg
    BY <1>5 DEF LastStage, Does, B
  <2> QED BY <2>5, <2>7, <2>8 DEF u
<1> QED BY <1>4, <1>5

-----------------------------------------------------------------------------
(* The results of nodes, in terms of what a pass does to the engine.         *)

ResultSet == [value : BOOLEAN, trace : Trace]

\* r is "True" or "False", it opens heights, retries and starts the clock as
\* often as given, and goes to the stage "to", if it goes anywhere.
Gives(r, v, heights, retries, starts, to) ==
    /\ r \in ResultSet /\ (r.value <=> v = "True")
    /\ Count(r.trace, "increase_height") = heights
    /\ Count(r.trace, "retry_round") = retries
    /\ Count(r.trace, "time_start") = starts
    /\ Does(r.trace, "update_stage") <=> to # Nowhere
    /\ \A from : LastStage(r.trace, from) = IF to = Nowhere THEN from ELSE to

\* A step of the loop over the children
After(stop, r, c) ==
    IF r.value = stop THEN r
      ELSE [value |-> c.value, trace |-> r.trace \o c.trace]

LEMMA GivesBoth ==
    ASSUME NEW r, NEW v, NEW h, NEW k, NEW n, NEW to,
           Gives(r, v, h, k, n, to),
           NEW c, NEW w, NEW i, NEW l, NEW m, NEW at,
           Gives(c, w, i, l, m, at)
    PROVE  Gives([value |-> c.value, trace |-> r.trace \o c.trace],
                 w, h + i, k + l, n + m, IF at = Nowhere THEN to ELSE at)
<1> DEFINE u == r.trace \o c.trace
           a == [value |-> c.value, trace |-> u]
<1>1. /\ r \in ResultSet /\ r.trace \in Trace
      /\ c \in ResultSet /\ c.trace \in Trace /\ c.value \in BOOLEAN
    BY DEF Gives, ResultSet
<1>2. u \in Trace
    BY <1>1, CallsOfBoth
<1>3. a \in ResultSet /\ a.value = c.value /\ a.trace = u
  <2> HIDE DEF u
  <2> QED BY <1>1, <1>2 DEF ResultSet
<1> HIDE DEF a
<1>4. a.value <=> w = "True"
    BY <1>3 DEF Gives
<1>5. /\ Count(u, "increase_height") = h + i
      /\ Count(u, "retry_round") = k + l
      /\ Count(u, "time_start") = n + m
      /\ Does(u, "update_stage") <=> to # Nowhere \/ at # Nowhere
    BY <1>1, CountOfBoth DEF Gives
<1>6. ASSUME NEW from
      PROVE  LastStage(u, from) = IF at # Nowhere THEN at
                                    ELSE IF to # Nowhere THEN to ELSE from
  <2>1. LastStage(u, from) = LastStage(c.trace, LastStage(r.trace, from))
    BY <1>1, LastOfBoth
  <2>2. LastStage(r.trace, from) = IF to = Nowhere THEN from ELSE to
    BY DEF Gives
  <2>3. LastStage(c.trace, LastStage(r.trace, from))
            = IF at = Nowhere THEN LastStage(r.trace, from) ELSE at
    BY DEF Gives
  <2> QED BY <2>1, <2>2, <2>3
<1> HIDE DEF u
<1> DEFINE next == IF at = Nowhere THEN to ELSE at
<1>7. /\ next # Nowhere <=> to # Nowhere \/ at # Nowhere
      /\ \A from : LastStage(u, from) = IF next = Nowhere THEN from ELSE next
  <2>1. CASE at = Nowhere
    BY <1>6, <2>1
  <2>2. CASE at # Nowhere
    BY <1>6, <2>2
  <2> QED BY <2>1, <2>2
<1> HIDE DEF next
<1>8. Gives(a, w, h + i, k + l, n + m, next)
    BY <1>3, <1>4, <1>5, <1>7 DEF Gives
<1> QED BY <1>8 DEF a, next, u

\* A Sequencer goes on after True, a Selector after False.
AndThen(r, c) == After(FALSE, r, c)
OrElse(r, c) == After(TRUE, r, c)

LEMMA SequencerGoes ==
    ASSUME NEW r, NEW h, NEW k, NEW n, NEW to, Gives(r, "True", h, k, n, to),
           NEW c, NEW w, NEW i, NEW l, NEW m, NEW at, Gives(c, w, i, l, m, at)
    PROVE  Gives(AndThen(r, c), w, h + i, k + l, n + m,
                 IF at = Nowhere THEN to ELSE at)
<1>1. r.value = TRUE
    BY DEF Gives, ResultSet
<1>2. AndThen(r, c) = [value |-> c.value, trace |-> r.trace \o c.trace]
    BY <1>1 DEF AndThen, After
<1>3. Gives([value |-> c.value, trace |-> r.trace \o c.trace], w,
            h + i, k + l, n + m, IF at = Nowhere THEN to ELSE at)
    BY GivesBoth
<1> QED BY <1>2, <1>3

LEMMA SequencerStops ==
    ASSUME NEW r, NEW h, NEW k, NEW n, NEW to, Gives(r, "False", h, k, n, to),
           NEW c
    PROVE  Gives(AndThen(r, c), "False", h, k, n, to)
<1>1. r.value = FALSE
    BY DEF Gives, ResultSet
<1> QED BY <1>1 DEF AndThen, After

LEMMA SelectorGoes ==
    ASSUME NEW r, NEW h, NEW k, NEW n, NEW to, Gives(r, "False", h, k, n, to),
           NEW c, NEW w, NEW i, NEW l, NEW m, NEW at, Gives(c, w, i, l, m, at)
    PROVE  Gives(OrElse(r, c), w, h + i, k + l, n + m,
                 IF at = Nowhere THEN to ELSE at)
<1>1. r.value = FALSE
    BY DEF Gives, ResultSet
<1>2. OrElse(r, c) = [value |-> c.value, trace |-> r.trace \o c.trace]
    BY <1>1 DEF OrElse, After
<1>3. Gives([value |-> c.value, trace |-> r.trace \o c.trace], w,
            h + i, k + l, n + m, IF at = Nowhere THEN to ELSE at)
    BY GivesBoth
<1> QED BY <1>2, <1>3

LEMMA SelectorStops ==
    ASSUME NEW r, NEW h, NEW k, NEW n, NEW to, Gives(r, "True", h, k, n, to),
           NEW c
    PROVE  Gives(OrElse(r, c), "True", h, k, n, to)
<1>1. r.value = TRUE
    BY DEF Gives, ResultSet
<1> QED BY <1>1 DEF OrElse, After

\* The start of the loop, and the single actions
Start(stop) == [value |-> ~stop, trace |-> <<>>]
Yes == Start(FALSE)
No == Start(TRUE)

LEMMA Starts ==
    /\ Gives(Yes, "True", 0, 0, 0, Nowhere)
    /\ Gives(No, "False", 0, 0, 0, Nowhere)
<1>1. <<>> \in Trace /\ \A name : Calls(<<>>, name) = {}
    BY DEF Trace, Calls
<1>2. \A name : ~ Does(<<>>, name) /\ Count(<<>>, name) = 0
    BY <1>1, FS_EmptySet DEF Does, Count
<1>3. \A from : LastStage(<<>>, from) = from
    BY <1>2 DEF LastStage
<1>4. /\ Yes \in ResultSet /\ Yes.value = TRUE /\ Yes.trace = <<>>
      /\ No \in ResultSet /\ No.value = FALSE /\ No.trace = <<>>
    BY <1>1 DEF Yes, No, Start, ResultSet
<1> QED BY <1>2, <1>3, <1>4 DEF Gives

LEMMA GivesAction ==
    ASSUME NEW found \in [Checks -> BOOLEAN], NEW name \in Name,
           NEW arg \in Stage \cup {Nowhere},
           name = "update_stage" => arg # Nowhere,
           NEW v,
           Returns(found, name) <=> v = "True",
           NEW h, h = IF name = "increase_height" THEN 1 ELSE 0,
           NEW k, k = IF name = "retry_round" THEN 1 ELSE 0,
           NEW n, n = IF name = "time_start" THEN 1 ELSE 0,
           NEW to, to = IF name = "update_stage" THEN arg ELSE Nowhere
    PROVE  Gives(Action(found, name, arg), v, h, k, n, to)
<1> DEFINE t == <<Call(name, arg)>>
<1>1. t \in Trace /\ Len(t) = 1 /\ t[1].name = name /\ t[1].arg = arg
    BY CallIsIn
<1>2. DOMAIN t = {1}
    OBVIOUS
<1> HIDE DEF t
<1>3. \A other : Calls(t, other) = IF other = name THEN {1} ELSE {}
    BY <1>1, <1>2 DEF Calls
<1>4. ASSUME NEW other
      PROVE  /\ Does(t, other) <=> other = name
             /\ Count(t, other) = IF other = name THEN 1 ELSE 0
    BY <1>3, FS_EmptySet, FS_Singleton DEF Does, Count
<1>5. ASSUME NEW from
      PROVE  LastStage(t, from) = IF to = Nowhere THEN from ELSE to
  <2>1. CASE name = "update_stage"
    <3>1. Max({1}) = 1
      BY MaxIs
    <3>2. LastStage(t, from) = t[1].arg
      BY <1>3, <1>4, <2>1, <3>1 DEF LastStage
    <3> QED BY <1>1, <2>1, <3>2
  <2>2. CASE name # "update_stage"
    BY <1>4, <2>2 DEF LastStage
  <2> QED BY <2>1, <2>2
<1>6. Returns(found, name) \in BOOLEAN
    BY DEF Returns
<1>7. Action(found, name, arg) = [value |-> Returns(found, name), trace |-> t]
    BY DEF Action, t
<1> DEFINE a == Action(found, name, arg)
<1>8. a \in ResultSet /\ a.value = Returns(found, name) /\ a.trace = t
    BY <1>1, <1>6, <1>7 DEF ResultSet
<1>9. Does(t, "update_stage") <=> to # Nowhere
    BY <1>4
<1> HIDE DEF a
<1>10. Gives(a, v, h, k, n, to)
    BY <1>4, <1>5, <1>8, <1>9 DEF Gives
<1> QED BY <1>10 DEF a

-----------------------------------------------------------------------------
(* The loop of Selectors and Sequencers.                                     *)

\* f has the results of the first children.
Runs(f, stop, child) ==
    f = [i \in 0 .. Len(child) |->
            IF i = 0 THEN Start(stop)
              ELSE IF f[i - 1].value = stop THEN f[i - 1]
              ELSE [value |-> child[i].value,
                    trace |-> f[i - 1].trace \o child[i].trace]]

LEMMA AfterIsResult ==
    ASSUME NEW r \in ResultSet, NEW c \in ResultSet, NEW stop
    PROVE  After(stop, r, c) \in ResultSet
<1>1. r.trace \o c.trace \in Trace /\ c.value \in BOOLEAN
    BY DEF ResultSet, Trace
<1> QED BY <1>1 DEF After, ResultSet

\* The loop takes one child after the other.
LEMMA UntilLoop ==
    ASSUME NEW stop \in BOOLEAN, NEW child \in Seq(ResultSet)
    PROVE  \E f : /\ f[0] = Start(stop)
                  /\ \A i \in 1 .. Len(child) :
                         f[i] = After(stop, f[i - 1], child[i])
                  /\ InvokeUntil(stop, child) = f[Len(child)]
<1> DEFINE n == Len(child)
           g == [p \in ResultSet \X (1 .. n) |-> After(stop, p[1], child[p[2]])]
<1>1. n \in Nat /\ \A i \in 1 .. n : child[i] \in ResultSet
    OBVIOUS
<1>2. g \in [ResultSet \X (1 .. n) -> ResultSet]
    BY <1>1, AfterIsResult
<1>3. Start(stop) \in ResultSet
    BY DEF Start, ResultSet, Trace
<1>4. PICK f \in [0 .. n -> ResultSet] : Obeys(f, g, Start(stop), n)
  <2> HIDE DEF g
  <2> QED BY <1>1, <1>2, <1>3, Recursion
<1>5. f[0] = Start(stop) /\ f = [i \in 0 .. n |-> f[i]]
    BY <1>4 DEF Obeys
<1>6. ASSUME NEW i \in 1 .. n PROVE f[i] = After(stop, f[i - 1], child[i])
  <2>1. f[i - 1] \in ResultSet
    BY <1>1
  <2>2. <<f[i - 1], i>> \in ResultSet \X (1 .. n)
    BY <2>1
  <2> QED BY <1>4, <2>2 DEF Obeys
<1> HIDE DEF g
<1>7. Runs(f, stop, child)
  <2>1. \A i \in 0 .. n :
            f[i] = IF i = 0 THEN Start(stop)
                     ELSE IF f[i - 1].value = stop THEN f[i - 1]
                     ELSE [value |-> child[i].value,
                           trace |-> f[i - 1].trace \o child[i].trace]
    <3>1. \A i \in 0 .. n : i = 0 \/ (i # 0 /\ i \in 1 .. n)
      BY <1>1
    <3> QED BY <1>5, <1>6, <3>1, Zenon DEF After
  <2> QED BY <1>5, <2>1, Zenon DEF Runs
<1> DEFINE k == CHOOSE h : Runs(h, stop, child)
<1>8. Runs(k, stop, child)
    BY <1>7
<1>9. InvokeUntil(stop, child) = k[n]
    BY DEF InvokeUntil, Runs, Start
<1> HIDE DEF k
<1>10. k[0] = Start(stop)
  <2>1. 0 \in 0 .. n
    BY <1>1
  <2> QED BY <1>8, <2>1, Zenon DEF Runs
<1>11. ASSUME NEW i \in 1 .. n PROVE k[i] = After(stop, k[i - 1], child[i])
  <2>1. i \in 0 .. n /\ i # 0
    BY <1>1
  <2> QED BY <1>8, <2>1, Zenon DEF Runs, After
<1> QED BY <1>9, <1>10, <1>11

LEMMA SequencerLoop ==
    ASSUME NEW child \in Seq(ResultSet)
    PROVE  \E f : /\ f[0] = Yes
                  /\ \A i \in 1 .. Len(child) : f[i] = AndThen(f[i - 1], child[i])
                  /\ Sequencer(child) = f[Len(child)]
BY UntilLoop, FALSE \in BOOLEAN, Zenon DEF Sequencer, AndThen, Yes

LEMMA SelectorLoop ==
    ASSUME NEW child \in Seq(ResultSet)
    PROVE  \E f : /\ f[0] = No
                  /\ \A i \in 1 .. Len(child) : f[i] = OrElse(f[i - 1], child[i])
                  /\ Selector(child) = f[Len(child)]
BY UntilLoop, TRUE \in BOOLEAN, Zenon DEF Selector, OrElse, No

-----------------------------------------------------------------------------
(* The trees.                                                                *)

LEMMA Leaves ==
    ASSUME NEW found \in [Checks -> BOOLEAN]
    PROVE  /\ \A name \in Checks, arg \in Stage \cup {Nowhere} :
                  /\ found[name] =>
                         Gives(Action(found, name, arg), "True", 0, 0, 0, Nowhere)
                  /\ ~ found[name] =>
                         Gives(Action(found, name, arg), "False", 0, 0, 0, Nowhere)
           /\ \A name \in Others : Gives(Do(found, name), "True", 0, 0, 0, Nowhere)
           /\ Gives(Do(found, "select_timecompatibility"), "False", 0, 0, 0, Nowhere)
           /\ Gives(Do(found, "increase_height"), "True", 1, 0, 0, Nowhere)
           /\ Gives(Do(found, "retry_round"), "True", 0, 1, 0, Nowhere)
           /\ Gives(Do(found, "time_start"), "True", 0, 0, 1, Nowhere)
           /\ \A to \in Stage :
                  Gives(Action(found, "update_stage", to), "True", 0, 0, 0, to)
<1> DEFINE Special == {"increase_height", "retry_round", "time_start",
                       "update_stage", "select_timecompatibility"}
<1>1. ASSUME NEW name \in Checks, NEW arg \in Stage \cup {Nowhere}, NEW v,
             found[name] <=> v = "True"
      PROVE  Gives(Action(found, name, arg), v, 0, 0, 0, Nowhere)
  <2>1. name \in Name
    BY DEF Name
  <2>2. name \notin Special
    BY DEF Checks
  <2>3. Returns(found, name) <=> v = "True"
    BY <1>1, <2>2 DEF Returns
  <2> QED BY <2>1, <2>2, <2>3, GivesAction
<1>2. ASSUME NEW name \in Others
      PROVE  Gives(Do(found, name), "True", 0, 0, 0, Nowhere)
  <2>1. name \in Name
    BY DEF Name
  <2>2. name \notin Special
    BY DEF Others
  <2>3. name \notin Checks
    BY DEF Others, Checks
  <2>4. Returns(found, name)
    BY <2>2, <2>3 DEF Returns
  <2> QED BY <2>1, <2>2, <2>4, GivesAction DEF Do, Nowhere
<1>3. \A name \in Special : name \in Name /\ name \notin Checks
    BY DEF Name, Checks
<1>4. Gives(Do(found, "select_timecompatibility"), "False", 0, 0, 0, Nowhere)
  <2>1. ~ Returns(found, "select_timecompatibility")
    BY DEF Returns
  <2> QED BY <1>3, <2>1, GivesAction DEF Do, Nowhere
<1>5. Gives(Do(found, "increase_height"), "True", 1, 0, 0, Nowhere)
  <2>1. Returns(found, "increase_height")
    BY <1>3 DEF Returns
  <2> QED BY <1>3, <2>1, GivesAction DEF Do, Nowhere
<1>6. Gives(Do(found, "retry_round"), "True", 0, 1, 0, Nowhere)
  <2>1. Returns(found, "retry_round")
    BY <1>3 DEF Returns
  <2> QED BY <1>3, <2>1, GivesAction DEF Do, Nowhere
<1>7. Gives(Do(found, "time_start"), "True", 0, 0, 1, Nowhere)
  <2>1. Returns(found, "time_start")
    BY <1>3 DEF Returns
  <2> QED BY <1>3, <2>1, GivesAction DEF Do, Nowhere
<1>8. ASSUME NEW to \in Stage
      PROVE  Gives(Action(found, "update_stage", to), "True", 0, 0, 0, to)
  <2>1. Returns(found, "update_stage")
    BY <1>3 DEF Returns
  <2>2. to # Nowhere
    BY DEF Stage, Nowhere
  <2> QED BY <1>3, <2>1, <2>2, GivesAction
<1>9. ASSUME NEW name \in Checks, NEW arg \in Stage \cup {Nowhere}
      PROVE  /\ found[name] =>
                    Gives(Action(found, name, arg), "True", 0, 0, 0, Nowhere)
             /\ ~ found[name] =>
                    Gives(Action(found, name, arg), "False", 0, 0, 0, Nowhere)
    BY <1>1
<1> QED BY <1>2, <1>4, <1>5, <1>6, <1>7, <1>8, <1>9

LEMMA AreResults ==
    ASSUME NEW r, NEW v, NEW h, NEW k, NEW n, NEW to, Gives(r, v, h, k, n, to)
    PROVE  r \in ResultSet
BY DEF Gives

\* A first child that settles it; the trees have up to six.
LEMMA SequencerFails ==
    ASSUME NEW s \in Seq(ResultSet), Len(s) \in 1 .. 6,
           Gives(s[1], "False", 0, 0, 0, Nowhere)
    PROVE  Gives(Sequencer(s), "False", 0, 0, 0, Nowhere)
<1> DEFINE G(r) == Gives(r, "False", 0, 0, 0, Nowhere)
<1>1. PICK f : /\ f[0] = Yes
               /\ \A i \in 1 .. Len(s) : f[i] = AndThen(f[i - 1], s[i])
               /\ Sequencer(s) = f[Len(s)]
    BY SequencerLoop
<1>2. G(f[1])
  <2>1. f[1] = AndThen(f[0], s[1])
    BY <1>1
  <2> QED BY <2>1, <1>1, Starts, SequencerGoes
<1>3. ASSUME NEW r, NEW c, G(r) PROVE G(AndThen(r, c))
    BY <1>3, SequencerStops
<1> HIDE DEF G
<1>4. ASSUME NEW i \in 2 .. Len(s), G(f[i - 1]) PROVE G(f[i])
    BY <1>1, <1>3, <1>4
<1>5. Len(s) >= 2 => G(f[2])
    BY <1>2, <1>4
<1>6. Len(s) >= 3 => G(f[3])
    BY <1>4, <1>5
<1>7. Len(s) >= 4 => G(f[4])
    BY <1>4, <1>6
<1>8. Len(s) >= 5 => G(f[5])
    BY <1>4, <1>7
<1>9. Len(s) >= 6 => G(f[6])
    BY <1>4, <1>8
<1>10. G(f[Len(s)])
  <2>1. \/ Len(s) = 1 \/ Len(s) = 2 \/ Len(s) = 3
        \/ Len(s) = 4 \/ Len(s) = 5 \/ Len(s) = 6
    OBVIOUS
  <2>2. CASE Len(s) = 1
    BY <1>2, <2>2
  <2>3. CASE Len(s) = 2
    BY <1>5, <2>3
  <2>4. CASE Len(s) = 3
    BY <1>6, <2>4
  <2>5. CASE Len(s) = 4
    BY <1>7, <2>5
  <2>6. CASE Len(s) = 5
    BY <1>8, <2>6
  <2>7. CASE Len(s) = 6
    BY <1>9, <2>7
  <2> QED BY <2>1, <2>2, <2>3, <2>4, <2>5, <2>6, <2>7
<1> QED BY <1>1, <1>10 DEF G

LEMMA SelectorHits ==
    ASSUME NEW s \in Seq(ResultSet), Len(s) \in 1 .. 4,
           NEW h \in Nat, NEW k \in Nat, NEW n \in Nat, NEW to,
           Gives(s[1], "True", h, k, n, to)
    PROVE  Gives(Selector(s), "True", h, k, n, to)
<1> DEFINE G(r) == Gives(r, "True", h, k, n, to)
<1>1. PICK f : /\ f[0] = No
               /\ \A i \in 1 .. Len(s) : f[i] = OrElse(f[i - 1], s[i])
               /\ Selector(s) = f[Len(s)]
    BY SelectorLoop
<1>2. G(f[1])
  <2>1. f[1] = OrElse(f[0], s[1])
    BY <1>1
  <2>2. Gives(f[1], "True", 0 + h, 0 + k, 0 + n,
              IF to = Nowhere THEN Nowhere ELSE to)
    BY <2>1, <1>1, Starts, SelectorGoes
  <2>3. 0 + h = h /\ 0 + k = k /\ 0 + n = n
    OBVIOUS
  <2> QED BY <2>2, <2>3
<1>3. ASSUME NEW r, NEW c, G(r) PROVE G(OrElse(r, c))
    BY <1>3, SelectorStops
<1> HIDE DEF G
<1>4. ASSUME NEW i \in 2 .. Len(s), G(f[i - 1]) PROVE G(f[i])
    BY <1>1, <1>3, <1>4
<1>5. Len(s) >= 2 => G(f[2])
    BY <1>2, <1>4
<1>6. Len(s) >= 3 => G(f[3])
    BY <1>4, <1>5
<1>7. Len(s) >= 4 => G(f[4])
    BY <1>4, <1>6
<1>8. G(f[Len(s)])
  <2>1. Len(s) = 1 \/ Len(s) = 2 \/ Len(s) = 3 \/ Len(s) = 4
    OBVIOUS
  <2>2. CASE Len(s) = 1
    BY <1>2, <2>2
  <2>3. CASE Len(s) = 2
    BY <1>5, <2>3
  <2>4. CASE Len(s) = 3
    BY <1>6, <2>4
  <2>5. CASE Len(s) = 4
    BY <1>7, <2>5
  <2> QED BY <2>1, <2>2, <2>3, <2>4, <2>5
<1> QED BY <1>1, <1>8 DEF G

\* The second of two children, after one that does nothing
LEMMA SelectorSkips ==
    ASSUME NEW a, Gives(a, "False", 0, 0, 0, Nowhere),
           NEW b, NEW w, NEW h \in Nat, NEW k \in Nat, NEW n \in Nat, NEW to,
           Gives(b, w, h, k, n, to)
    PROVE  Gives(Selector(<<a, b>>), w, h, k, n, to)
<1> DEFINE s == <<a, b>>
<1>1. s \in Seq(ResultSet) /\ Len(s) = 2 /\ s[1] = a /\ s[2] = b
    BY AreResults
<1> HIDE DEF s
<1>2. PICK f : /\ f[0] = No
               /\ \A i \in 1 .. 2 : f[i] = OrElse(f[i - 1], s[i])
               /\ Selector(s) = f[2]
    BY <1>1, SelectorLoop
<1>3. f[1] = OrElse(f[0], a) /\ f[2] = OrElse(f[1], b)
    BY <1>1, <1>2
<1>4. Gives(f[1], "False", 0, 0, 0, Nowhere)
    BY <1>2, <1>3, Starts, SelectorGoes
<1>5. Gives(f[2], w, 0 + h, 0 + k, 0 + n, IF to = Nowhere THEN Nowhere ELSE to)
    BY <1>3, <1>4, SelectorGoes
<1>6. 0 + h = h /\ 0 + k = k /\ 0 + n = n
    OBVIOUS
<1> QED BY <1>2, <1>5, <1>6 DEF s

\* Two children that both go through
LEMMA SequencerOfTwo ==
    ASSUME NEW a, Gives(a, "True", 0, 0, 0, Nowhere),
           NEW b, NEW w, NEW h \in Nat, NEW k \in Nat, NEW n \in Nat, NEW to,
           Gives(b, w, h, k, n, to)
    PROVE  Gives(Sequencer(<<a, b>>), w, h, k, n, to)
<1> DEFINE s == <<a, b>>
<1>1. s \in Seq(ResultSet) /\ Len(s) = 2 /\ s[1] = a /\ s[2] = b
    BY AreResults
<1> HIDE DEF s
<1>2. PICK f : /\ f[0] = Yes
               /\ \A i \in 1 .. 2 : f[i] = AndThen(f[i - 1], s[i])
               /\ Sequencer(s) = f[2]
    BY <1>1, SequencerLoop
<1>3. f[1] = AndThen(f[0], a) /\ f[2] = AndThen(f[1], b)
    BY <1>1, <1>2
<1>4. Gives(f[1], "True", 0, 0, 0, Nowhere)
    BY <1>2, <1>3, Starts, SequencerGoes
<1>5. Gives(f[2], w, 0 + h, 0 + k, 0 + n, IF to = Nowhere THEN Nowhere ELSE to)
    BY <1>3, <1>4, SequencerGoes
<1>6. 0 + h = h /\ 0 + k = k /\ 0 + n = n
    OBVIOUS
<1> QED BY <1>2, <1>5, <1>6 DEF s

LEMMA Somewhere == \A to \in Stage : to # Nowhere
BY DEF Stage, Nowhere

LEMMA NewRoundTree ==
    ASSUME NEW found \in [Checks -> BOOLEAN]
    PROVE  Gives(new_round_tree(found), "True", 1, 0, 0, "PROPOSE")
<1> DEFINE a == Do(found, "increase_height")
           b == Do(found, "clear_pool")
           c == Action(found, "update_stage", "PROPOSE")
           s == <<a, b, c>>
<1>1. /\ Gives(a, "True", 1, 0, 0, Nowhere)
      /\ Gives(b, "True", 0, 0, 0, Nowhere)
      /\ Gives(c, "True", 0, 0, 0, "PROPOSE")
      /\ "PROPOSE" # Nowhere
    BY Leaves, Somewhere DEF Others, Stage
<1>2. new_round_tree(found) = Sequencer(s)
    BY DEF new_round_tree
<1> HIDE DEF a, b, c
<1>3. a \in ResultSet /\ b \in ResultSet /\ c \in ResultSet
    BY <1>1, AreResults
<1>4. /\ s \in Seq(ResultSet) /\ Len(s) = 3
      /\ s[1] = a /\ s[2] = b /\ s[3] = c
    BY <1>3
<1> HIDE DEF s
<1>5. PICK f : /\ f[0] = Yes
               /\ \A i \in 1 .. 3 : f[i] = AndThen(f[i - 1], s[i])
               /\ Sequencer(s) = f[3]
    BY <1>4, SequencerLoop
<1>6. /\ f[1] = AndThen(f[0], a) /\ f[2] = AndThen(f[1], b)
      /\ f[3] = AndThen(f[2], c)
    BY <1>4, <1>5
<1>7. Gives(f[1], "True", 1, 0, 0, Nowhere)
    BY <1>1, <1>5, <1>6, Starts, SequencerGoes
<1>8. Gives(f[2], "True", 1, 0, 0, Nowhere)
    BY <1>1, <1>6, <1>7, SequencerGoes
<1>9. Gives(f[3], "True", 1, 0, 0, "PROPOSE")
    BY <1>1, <1>6, <1>8, SequencerGoes
<1> QED BY <1>2, <1>5, <1>9

LEMMA CheckFinalizeTree ==
    ASSUME NEW found \in [Checks -> BOOLEAN]
    PROVE  /\ found["check_diff_height"] =>
                  Gives(check_finalize_tree(found), "True", 1, 0, 0, "PROPOSE")
           /\ ~ found["check_diff_height"] =>
                  Gives(check_finalize_tree(found), "False", 0, 0, 0, Nowhere)
<1> DEFINE a == Do(found, "check_diff_height")
           b == new_round_tree(found)
           q == Sequencer(<<a, b>>)
<1>1. /\ found["check_diff_height"] => Gives(a, "True", 0, 0, 0, Nowhere)
      /\ ~ found["check_diff_height"] => Gives(a, "False", 0, 0, 0, Nowhere)
      /\ Gives(b, "True", 1, 0, 0, "PROPOSE")
  <2>1. "check_diff_height" \in Checks /\ Nowhere \in Stage \cup {Nowhere}
    BY DEF Checks
  <2> QED BY <2>1, Leaves, NewRoundTree DEF Do, Nowhere
<1>2. check_finalize_tree(found) = Selector(<<q>>)
    BY DEF check_finalize_tree
<1> HIDE DEF a, b
<1>3. a \in ResultSet /\ b \in ResultSet
    BY <1>1, AreResults
<1>4. found["check_diff_height"] => Gives(q, "True", 1, 0, 0, "PROPOSE")
    BY <1>1, SequencerOfTwo
<1>5. ~ found["check_diff_height"] => Gives(q, "False", 0, 0, 0, Nowhere)
  <2> DEFINE s == <<a, b>>
  <2>1. s \in Seq(ResultSet) /\ Len(s) \in 1 .. 6 /\ s[1] = a
    BY <1>3
  <2> HIDE DEF s
  <2>2. ~ found["check_diff_height"] =>
            Gives(Sequencer(s), "False", 0, 0, 0, Nowhere)
    BY <1>1, <2>1, SequencerFails
  <2> QED BY <2>2 DEF s
<1> HIDE DEF q
<1> DEFINE s == <<q>>
<1>6. s \in Seq(ResultSet) /\ Len(s) = 1 /\ Len(s) \in 1 .. 4 /\ s[1] = q
    BY <1>4, <1>5, AreResults
<1> HIDE DEF s
<1>7. CASE found["check_diff_height"]
  <2>1. Gives(Selector(s), "True", 1, 0, 0, "PROPOSE")
    BY <1>4, <1>6, <1>7, SelectorHits
  <2> QED BY <2>1, <1>2, <1>7 DEF s
<1>8. CASE ~ found["check_diff_height"]
  <2>1. PICK f : /\ f[0] = No
                 /\ \A i \in 1 .. 1 : f[i] = OrElse(f[i - 1], s[i])
                 /\ Selector(s) = f[1]
    BY <1>6, SelectorLoop
  <2>2. f[1] = OrElse(f[0], q)
    BY <1>6, <2>1
  <2>3. Gives(f[1], "False", 0, 0, 0, Nowhere)
    BY <1>5, <1>8, <2>1, <2>2, Starts, SelectorGoes
  <2> QED BY <2>1, <2>3, <1>2, <1>8 DEF s
<1> QED BY <1>7, <1>8

LEMMA ProposeBlockTree ==
    ASSUME NEW found \in [Checks -> BOOLEAN]
    PROVE  /\ found["check_exist_transaction"] =>
                  Gives(propose_block_tree(found), "True", 0, 0, 1,
                        "COLLECT_CANDIDATE")
           /\ ~ found["check_exist_transaction"] =>
                  Gives(propose_block_tree(found), "False", 0, 0, 0, Nowhere)
<1> DEFINE a == Do(found, "check_exist_transaction")
           b == Do(found, "time_start")
           c == Do(found, "create_candidate_block")
           d == Action(found, "update_stage", "COLLECT_CANDIDATE")
           s == <<a, b, c, d>>
<1>1. /\ found["check_exist_transaction"] => Gives(a, "True", 0, 0, 0, Nowhere)
      /\ ~ found["check_exist_transaction"] => Gives(a, "False", 0, 0, 0, Nowhere)
  <2>1. "check_exist_transaction" \in Checks /\ Nowhere \in Stage \cup {Nowhere}
    BY DEF Checks
  <2> QED BY <2>1, Leaves DEF Do, Nowhere
<1>2. /\ Gives(b, "True", 0, 0, 1, Nowhere)
      /\ Gives(c, "True", 0, 0, 0, Nowhere)
      /\ Gives(d, "True", 0, 0, 0, "COLLECT_CANDIDATE")
      /\ "COLLECT_CANDIDATE" # Nowhere
    BY Leaves, Somewhere DEF Others, Stage
<1>3. propose_block_tree(found) = Sequencer(s)
    BY DEF propose_block_tree
<1> HIDE DEF a, b, c, d
<1>4. a \in ResultSet /\ b \in ResultSet /\ c \in ResultSet /\ d \in ResultSet
    BY <1>1, <1>2, AreResults
<1>5. /\ s \in Seq(ResultSet) /\ Len(s) = 4 /\ Len(s) \in 1 .. 6
      /\ s[1] = a /\ s[2] = b /\ s[3] = c /\ s[4] = d
    BY <1>4
<1> HIDE DEF s
<1>6. CASE ~ found["check_exist_transaction"]
    BY <1>1, <1>3, <1>5, <1>6, SequencerFails
<1>7. CASE found["check_exist_transaction"]
  <2>1. PICK f : /\ f[0] = Yes
                 /\ \A i \in 1 .. 4 : f[i] = AndThen(f[i - 1], s[i])
                 /\ Sequencer(s) = f[4]
    BY <1>5, SequencerLoop
  <2>2. /\ f[1] = AndThen(f[0], a) /\ f[2] = AndThen(f[1], b)
        /\ f[3] = AndThen(f[2], c) /\ f[4] = AndThen(f[3], d)
    BY <1>5, <2>1
  <2>3. Gives(f[1], "True", 0, 0, 0, Nowhere)
    BY <1>1, <1>7, <2>1, <2>2, Starts, SequencerGoes
  <2>4. Gives(f[2], "True", 0, 0, 1, Nowhere)
    BY <1>2, <2>2, <2>3, SequencerGoes
  <2>5. Gives(f[3], "True", 0, 0, 1, Nowhere)
    BY <1>2, <2>2, <2>4, SequencerGoes
  <2>6. Gives(f[4], "True", 0, 0, 1, "COLLECT_CANDIDATE")
    BY <1>2, <2>2, <2>5, SequencerGoes
  <2> QED BY <1>3, <1>7, <2>1, <2>6
<1> QED BY <1>6, <1>7

LEMMA SelectBlockTree ==
    ASSUME NEW found \in [Checks -> BOOLEAN]
    PROVE  Gives(select_block_tree(found), "True", 0, 0, 0, Nowhere)
<1> DEFINE a == Do(found, "select_maximum_tx")
           b == Do(found, "select_oldest_tx")
           c == Do(found, "select_timecompatibility")
           d == Do(found, "select_conflict_tolerance")
           s == <<a, b, c, d>>
<1>1. /\ found["select_maximum_tx"] => Gives(a, "True", 0, 0, 0, Nowhere)
      /\ ~ found["select_maximum_tx"] => Gives(a, "False", 0, 0, 0, Nowhere)
      /\ found["select_oldest_tx"] => Gives(b, "True", 0, 0, 0, Nowhere)
      /\ ~ found["select_oldest_tx"] => Gives(b, "False", 0, 0, 0, Nowhere)
  <2>1. /\ "select_maximum_tx" \in Checks /\ "select_oldest_tx" \in Checks
        /\ Nowhere \in Stage \cup {Nowhere}
    BY DEF Checks
  <2> QED BY <2>1, Leaves DEF Do, Nowhere
<1>2. /\ Gives(c, "False", 0, 0, 0, Nowhere)
      /\ Gives(d, "True", 0, 0, 0, Nowhere)
    BY Leaves DEF Others
<1>3. select_block_tree(found) = Selector(s)
    BY DEF select_block_tree
<1> HIDE DEF a, b, c, d
<1>4. a \in ResultSet /\ b \in ResultSet /\ c \in ResultSet /\ d \in ResultSet
    BY <1>1, <1>2, AreResults
<1>5. /\ s \in Seq(ResultSet) /\ Len(s) = 4 /\ Len(s) \in 1 .. 4
      /\ s[1] = a /\ s[2] = b /\ s[3] = c /\ s[4] = d
    BY <1>4
<1> HIDE DEF s
<1>6. CASE found["select_maximum_tx"]
    BY <1>1, <1>3, <1>5, <1>6, SelectorHits
<1>7. CASE ~ found["select_maximum_tx"]
  <2>1. PICK f : /\ f[0] = No
                 /\ \A i \in 1 .. 4 : f[i] = OrElse(f[i - 1], s[i])
                 /\ Selector(s) = f[4]
    BY <1>5, SelectorLoop
  <2>2. /\ f[1] = OrElse(f[0], a) /\ f[2] = OrElse(f[1], b)
        /\ f[3] = OrElse(f[2], c) /\ f[4] = OrElse(f[3], d)
    BY <1>5, <2>1
  <2>3. Gives(f[1], "False", 0, 0, 0, Nowhere)
    BY <1>1, <1>7, <2>1, <2>2, Starts, SelectorGoes
  <2>4. CASE found["select_oldest_tx"]
    <3>1. Gives(f[2], "True", 0, 0, 0, Nowhere)
      BY <1>1, <2>2, <2>3, <2>4, SelectorGoes
    <3>2. Gives(f[3], "True", 0, 0, 0, Nowhere)
      BY <2>2, <3>1, SelectorStops
    <3>3. Gives(f[4], "True", 0, 0, 0, Nowhere)
      BY <2>2, <3>2, SelectorStops
    <3> QED BY <1>3, <2>1, <3>3
  <2>5. CASE ~ found["select_oldest_tx"]
    <3>1. Gives(f[2], "False", 0, 0, 0, Nowhere)
      BY <1>1, <2>2, <2>3, <2>5, SelectorGoes
    <3>2. Gives(f[3], "False", 0, 0, 0, Nowhere)
      BY <1>2, <2>2, <3>1, SelectorGoes
    <3>3. Gives(f[4], "True", 0, 0, 0, Nowhere)
      BY <1>2, <2>2, <3>2, SelectorGoes
    <3> QED BY <1>3, <2>1, <3>3
  <2> QED BY <2>4, <2>5
<1> QED BY <1>6, <1>7

LEMMA SelectTree ==
    ASSUME NEW found \in [Checks -> BOOLEAN]
    PROVE  /\ found["wait"] =>
                  Gives(select_tree(found), "True", 0, 0, 1, "COLLECT_VOTE")
           /\ ~ found["wait"] =>
                  Gives(select_tree(found), "False", 0, 0, 0, Nowhere)
<1> DEFINE a == Action(found, "wait", "COLLECT_CANDIDATE")
           b == Do(found, "time_start")
           c == Do(found, "get_propose_block_from_pool")
           d == select_block_tree(found)
           e == Do(found, "create_vote")
           g == Action(found, "update_stage", "COLLECT_VOTE")
           s == <<a, b, c, d, e, g>>
<1>1. /\ found["wait"] => Gives(a, "True", 0, 0, 0, Nowhere)
      /\ ~ found["wait"] => Gives(a, "False", 0, 0, 0, Nowhere)
  <2>1. "wait" \in Checks /\ "COLLECT_CANDIDATE" \in Stage \cup {Nowhere}
    BY DEF Checks, Stage
  <2> QED BY <2>1, Leaves
<1>2. /\ Gives(b, "True", 0, 0, 1, Nowhere)
      /\ Gives(c, "True", 0, 0, 0, Nowhere)
      /\ Gives(d, "True", 0, 0, 0, Nowhere)
      /\ Gives(e, "True", 0, 0, 0, Nowhere)
      /\ Gives(g, "True", 0, 0, 0, "COLLECT_VOTE")
      /\ "COLLECT_VOTE" # Nowhere
    BY Leaves, Somewhere, SelectBlockTree DEF Others, Stage
<1>3. select_tree(found) = Sequencer(s)
    BY DEF select_tree
<1> HIDE DEF a, b, c, d, e, g
<1>4. /\ a \in ResultSet /\ b \in ResultSet /\ c \in ResultSet
      /\ d \in ResultSet /\ e \in ResultSet /\ g \in ResultSet
    BY <1>1, <1>2, AreResults
<1>5. /\ s \in Seq(ResultSet) /\ Len(s) = 6 /\ Len(s) \in 1 .. 6
      /\ s[1] = a /\ s[2] = b /\ s[3] = c /\ s[4] = d /\ s[5] = e /\ s[6] = g
    BY <1>4
<1> HIDE DEF s
<1>6. CASE ~ found["wait"]
    BY <1>1, <1>3, <1>5, <1>6, SequencerFails
<1>7. CASE found["wait"]
  <2>1. PICK f : /\ f[0] = Yes
                 /\ \A i \in 1 .. 6 : f[i] = AndThen(f[i - 1], s[i])
                 /\ Sequencer(s) = f[6]
    BY <1>5, SequencerLoop
  <2>2. /\ f[1] = AndThen(f[0], a) /\ f[2] = AndThen(f[1], b)
        /\ f[3] = AndThen(f[2], c) /\ f[4] = AndThen(f[3], d)
        /\ f[5] = AndThen(f[4], e) /\ f[6] = AndThen(f[5], g)
    BY <1>5, <2>1
  <2>3. Gives(f[1], "True", 0, 0, 0, Nowhere)
    BY <1>1, <1>7, <2>1, <2>2, Starts, SequencerGoes
  <2>4. Gives(f[2], "True", 0, 0, 1, Nowhere)
    BY <1>2, <2>2, <2>3, SequencerGoes
  <2>5. Gives(f[3], "True", 0, 0, 1, Nowhere)
    BY <1>2, <2>2, <2>4, SequencerGoes
  <2>6. Gives(f[4], "True", 0, 0, 1, Nowhere)
    BY <1>2, <2>2, <2>5, SequencerGoes
  <2>7. Gives(f[5], "True", 0, 0, 1, Nowhere)
    BY <1>2, <2>2, <2>6, SequencerGoes
  <2>8. Gives(f[6], "True", 0, 0, 1, "COLLECT_VOTE")
    BY <1>2, <2>2, <2>7, SequencerGoes
  <2> QED BY <1>3, <1>7, <2>1, <2>8
<1> QED BY <1>6, <1>7

LEMMA FinalizeTree ==
    ASSUME NEW found \in [Checks -> BOOLEAN]
    PROVE  Gives(finalize_tree(found), "True", 0, 0, 1, "WAIT_FOR_FINALIZE")
<1> DEFINE a == Do(found, "check_block_creator")
           b == Do(found, "create_finalize_block")
           c == Action(found, "update_stage", "WAIT_FOR_FINALIZE")
           d == Do(found, "time_start")
           s == <<a, b, c, d>>
           t == <<c, d>>
           q == Sequencer(s)
           p == Sequencer(t)
<1>1. /\ found["check_block_creator"] => Gives(a, "True", 0, 0, 0, Nowhere)
      /\ ~ found["check_block_creator"] => Gives(a, "False", 0, 0, 0, Nowhere)
  <2>1. "check_block_creator" \in Checks /\ Nowhere \in Stage \cup {Nowhere}
    BY DEF Checks
  <2> QED BY <2>1, Leaves DEF Do, Nowhere
<1>2. /\ Gives(b, "True", 0, 0, 0, Nowhere)
      /\ Gives(c, "True", 0, 0, 0, "WAIT_FOR_FINALIZE")
      /\ Gives(d, "True", 0, 0, 1, Nowhere)
      /\ "WAIT_FOR_FINALIZE" # Nowhere
    BY Leaves, Somewhere DEF Others, Stage
<1>3. finalize_tree(found) = Selector(<<q, p>>)
    BY DEF finalize_tree
<1> HIDE DEF a, b, c, d
<1>4. a \in ResultSet /\ b \in ResultSet /\ c \in ResultSet /\ d \in ResultSet
    BY <1>1, <1>2, AreResults
<1>5. /\ s \in Seq(ResultSet) /\ Len(s) = 4
      /\ s[1] = a /\ s[2] = b /\ s[3] = c /\ s[4] = d
    BY <1>4
<1>6. Len(s) \in 1 .. 6
    BY <1>5
<1>7. t \in Seq(ResultSet) /\ Len(t) = 2 /\ t[1] = c /\ t[2] = d
    BY <1>4
<1> HIDE DEF s, t
<1>8. ~ found["check_block_creator"] => Gives(q, "False", 0, 0, 0, Nowhere)
    BY <1>1, <1>5, <1>6, SequencerFails
<1>9. found["check_block_creator"] =>
          Gives(q, "True", 0, 0, 1, "WAIT_FOR_FINALIZE")
  <2> SUFFICES ASSUME found["check_block_creator"]
               PROVE  Gives(q, "True", 0, 0, 1, "WAIT_FOR_FINALIZE")
    OBVIOUS
  <2>1. PICK f : /\ f[0] = Yes
                 /\ \A i \in 1 .. 4 : f[i] = AndThen(f[i - 1], s[i])
                 /\ q = f[4]
    BY <1>5, SequencerLoop
  <2>2. /\ f[1] = AndThen(f[0], a) /\ f[2] = AndThen(f[1], b)
        /\ f[3] = AndThen(f[2], c) /\ f[4] = AndThen(f[3], d)
    BY <1>5, <2>1
  <2>3. Gives(f[1], "True", 0, 0, 0, Nowhere)
    BY <1>1, <2>1, <2>2, Starts, SequencerGoes
  <2>4. Gives(f[2], "True", 0, 0, 0, Nowhere)
    BY <1>2, <2>2, <2>3, SequencerGoes
  <2>5. Gives(f[3], "True", 0, 0, 0, "WAIT_FOR_FINALIZE")
    BY <1>2, <2>2, <2>4, SequencerGoes
  <2>6. Gives(f[4], "True", 0, 0, 1, "WAIT_FOR_FINALIZE")
    BY <1>2, <2>2, <2>5, SequencerGoes
  <2> QED BY <2>1, <2>6
<1>10. Gives(p, "True", 0, 0, 1, "WAIT_FOR_FINALIZE")
  <2>1. PICK f : /\ f[0] = Yes
                 /\ \A i \in 1 .. 2 : f[i] = AndThen(f[i - 1], t[i])
                 /\ p = f[2]
    BY <1>7, SequencerLoop
  <2>2. f[1] = AndThen(f[0], c) /\ f[2] = AndThen(f[1], d)
    BY <1>7, <2>1
  <2>3. Gives(f[1], "True", 0, 0, 0, "WAIT_FOR_FINALIZE")
    BY <1>2, <2>1, <2>2, Starts, SequencerGoes
  <2>4. Gives(f[2], "True", 0, 0, 1, "WAIT_FOR_FINALIZE")
    BY <1>2, <2>2, <2>3, SequencerGoes
  <2> QED BY <2>1, <2>4
<1> HIDE DEF q, p
<1>11. CASE found["check_block_creator"]
  <2> DEFINE u == <<q, p>>
  <2>1. u \in Seq(ResultSet) /\ Len(u) \in 1 .. 4 /\ u[1] = q
    BY <1>9, <1>10, <1>11, AreResults
  <2> HIDE DEF u
  <2>2. Gives(Selector(u), "True", 0, 0, 1, "WAIT_FOR_FINALIZE")
    BY <1>9, <1>11, <2>1, SelectorHits
  <2> QED BY <1>3, <2>2 DEF u
<1>12. CASE ~ found["check_block_creator"]
    BY <1>3, <1>8, <1>10, <1>12, SelectorSkips
<1> QED BY <1>11, <1>12

LEMMA CollectVoteTree ==
    ASSUME NEW found \in [Checks -> BOOLEAN]
    PROVE  /\ found["check_select_vote"] =>
                  Gives(collect_vote_tree(found), "True", 0, 0, 1,
                        "WAIT_FOR_FINALIZE")
           /\ ~ found["check_select_vote"] /\ found["wait"] =>
                  Gives(collect_vote_tree(found), "True", 0, 1, 0, "PROPOSE")
           /\ ~ found["check_select_vote"] /\ ~ found["wait"] =>
                  Gives(collect_vote_tree(found), "False", 0, 0, 0, Nowhere)
<1> DEFINE a == Do(found, "check_select_vote")
           b == finalize_tree(found)
           c == Action(found, "wait", "COLLECT_VOTE")
           d == Do(found, "retry_round")
           e == Action(found, "update_stage", "PROPOSE")
           s == <<a, b>>
           t == <<c, d, e>>
           q == Sequencer(s)
           p == Sequencer(t)
<1>1. /\ found["check_select_vote"] => Gives(a, "True", 0, 0, 0, Nowhere)
      /\ ~ found["check_select_vote"] => Gives(a, "False", 0, 0, 0, Nowhere)
      /\ found["wait"] => Gives(c, "True", 0, 0, 0, Nowhere)
      /\ ~ found["wait"] => Gives(c, "False", 0, 0, 0, Nowhere)
  <2>1. /\ "check_select_vote" \in Checks /\ Nowhere \in Stage \cup {Nowhere}
        /\ "wait" \in Checks /\ "COLLECT_VOTE" \in Stage \cup {Nowhere}
    BY DEF Checks, Stage
  <2> QED BY <2>1, Leaves DEF Do, Nowhere
<1>2. /\ Gives(b, "True", 0, 0, 1, "WAIT_FOR_FINALIZE")
      /\ Gives(d, "True", 0, 1, 0, Nowhere)
      /\ Gives(e, "True", 0, 0, 0, "PROPOSE")
      /\ "PROPOSE" # Nowhere
    BY Leaves, Somewhere, FinalizeTree DEF Stage
<1>3. collect_vote_tree(found) = Selector(<<q, p>>)
    BY DEF collect_vote_tree
<1> HIDE DEF a, b, c, d, e
<1>4. /\ a \in ResultSet /\ b \in ResultSet /\ c \in ResultSet
      /\ d \in ResultSet /\ e \in ResultSet
    BY <1>1, <1>2, AreResults
<1>5. /\ s \in Seq(ResultSet) /\ Len(s) \in 1 .. 6 /\ s[1] = a
      /\ t \in Seq(ResultSet) /\ Len(t) = 3 /\ Len(t) \in 1 .. 6
      /\ t[1] = c /\ t[2] = d /\ t[3] = e
    BY <1>4
<1>6. found["check_select_vote"] =>
          Gives(q, "True", 0, 0, 1, "WAIT_FOR_FINALIZE")
    BY <1>1, <1>2, SequencerOfTwo
<1> HIDE DEF s, t
<1>7. ~ found["check_select_vote"] => Gives(q, "False", 0, 0, 0, Nowhere)
    BY <1>1, <1>5, SequencerFails
<1>8. ~ found["wait"] => Gives(p, "False", 0, 0, 0, Nowhere)
    BY <1>1, <1>5, SequencerFails
<1>9. found["wait"] => Gives(p, "True", 0, 1, 0, "PROPOSE")
  <2> SUFFICES ASSUME found["wait"] PROVE Gives(p, "True", 0, 1, 0, "PROPOSE")
    OBVIOUS
  <2>1. PICK f : /\ f[0] = Yes
                 /\ \A i \in 1 .. 3 : f[i] = AndThen(f[i - 1], t[i])
                 /\ p = f[3]
    BY <1>5, SequencerLoop
  <2>2. /\ f[1] = AndThen(f[0], c) /\ f[2] = AndThen(f[1], d)
        /\ f[3] = AndThen(f[2], e)
    BY <1>5, <2>1
  <2>3. Gives(f[1], "True", 0, 0, 0, Nowhere)
    BY <1>1, <2>1, <2>2, Starts, SequencerGoes
  <2>4. Gives(f[2], "True", 0, 1, 0, Nowhere)
    BY <1>2, <2>2, <2>3, SequencerGoes
  <2>5. Gives(f[3], "True", 0, 1, 0, "PROPOSE")
    BY <1>2, <2>2, <2>4, SequencerGoes
  <2> QED BY <2>1, <2>5
<1> HIDE DEF q, p
<1>10. CASE found["check_select_vote"]
  <2> DEFINE u == <<q, p>>
  <2>1. u \in Seq(ResultSet) /\ Len(u) \in 1 .. 4 /\ u[1] = q
    BY <1>6, <1>8, <1>9, <1>10, AreResults
  <2> HIDE DEF u
  <2>2. Gives(Selector(u), "True", 0, 0, 1, "WAIT_FOR_FINALIZE")
    BY <1>6, <1>10, <2>1, SelectorHits
  <2> QED BY <1>3, <1>10, <2>2 DEF u
<1>11. CASE ~ found["check_select_vote"] /\ found["wait"]
    BY <1>3, <1>7, <1>9, <1>11, SelectorSkips
<1>12. CASE ~ found["check_select_vote"] /\ ~ found["wait"]
    BY <1>3, <1>7, <1>8, <1>12, SelectorSkips
<1> QED BY <1>10, <1>11, <1>12

LEMMA IndexerIsResult ==
    ASSUME NEW found \in [Checks -> BOOLEAN], NEW at \in Stage
    PROVE  Indexer(found)[at] \in ResultSet
<1>1. /\ propose_block_tree(found) \in ResultSet
      /\ select_tree(found) \in ResultSet
      /\ collect_vote_tree(found) \in ResultSet
    BY ProposeBlockTree, SelectTree, CollectVoteTree, AreResults
<1>2. Action(found, "wait", "WAIT_FOR_FINALIZE") \in ResultSet
  <2>1. "wait" \in Checks /\ "WAIT_FOR_FINALIZE" \in Stage \cup {Nowhere}
    BY DEF Checks, Stage
  <2> QED BY <2>1, Leaves, AreResults
<1> QED BY <1>1, <1>2 DEF Indexer, Stage

\* A pass that finds its height on the chain, and one that does not
LEMMA RootFinalizes ==
    ASSUME NEW found \in [Checks -> BOOLEAN], NEW at \in Stage,
           found["check_diff_height"]
    PROVE  Gives(create_root(at, found), "True", 1, 0, 0, "PROPOSE")
<1> DEFINE a == check_finalize_tree(found)
           b == Indexer(found)[at]
           s == <<a, b>>
<1>1. create_root(at, found) = Selector(s)
    BY DEF create_root
<1>2. b \in ResultSet
    BY IndexerIsResult
<1>3. Gives(a, "True", 1, 0, 0, "PROPOSE")
    BY CheckFinalizeTree
<1> HIDE DEF a, b
<1>4. s \in Seq(ResultSet) /\ Len(s) \in 1 .. 4 /\ s[1] = a
    BY <1>2, <1>3, AreResults
<1> HIDE DEF s
<1> QED BY <1>1, <1>3, <1>4, SelectorHits

LEMMA RootGoesOn ==
    ASSUME NEW found \in [Checks -> BOOLEAN], NEW at \in Stage,
           ~ found["check_diff_height"],
           NEW v, NEW h \in Nat, NEW k \in Nat, NEW n \in Nat, NEW to,
           Gives(Indexer(found)[at], v, h, k, n, to)
    PROVE  Gives(create_root(at, found), v, h, k, n, to)
<1> DEFINE a == check_finalize_tree(found)
           b == Indexer(found)[at]
<1>1. create_root(at, found) = Selector(<<a, b>>)
    BY DEF create_root
<1>2. Gives(a, "False", 0, 0, 0, Nowhere)
    BY CheckFinalizeTree
<1>3. Gives(b, v, h, k, n, to)
    OBVIOUS
<1> HIDE DEF a, b
<1> QED BY <1>1, <1>2, <1>3, SelectorSkips

\* What a pass does, whatever the checks find
LEMMA PassGives ==
    ASSUME NEW found \in [Checks -> BOOLEAN], NEW at \in Stage
    PROVE  LET r == create_root(at, found)
           IN  \/ /\ found["check_diff_height"]
                  /\ Gives(r, "True", 1, 0, 0, "PROPOSE")
               \/ /\ at = "PROPOSE" /\ found["check_exist_transaction"]
                  /\ Gives(r, "True", 0, 0, 1, "COLLECT_CANDIDATE")
               \/ /\ at = "COLLECT_CANDIDATE" /\ found["wait"]
                  /\ Gives(r, "True", 0, 0, 1, "COLLECT_VOTE")
               \/ /\ at = "COLLECT_VOTE" /\ found["check_select_vote"]
                  /\ Gives(r, "True", 0, 0, 1, "WAIT_FOR_FINALIZE")
               \/ /\ at = "COLLECT_VOTE" /\ found["wait"]
                  /\ Gives(r, "True", 0, 1, 0, "PROPOSE")
               \/ /\ at = "PROPOSE" => ~ found["check_exist_transaction"]
                  /\ at \in {"COLLECT_CANDIDATE", "COLLECT_VOTE"} => ~ found["wait"]
                  /\ \E v : Gives(r, v, 0, 0, 0, Nowhere)
<1> DEFINE r == create_root(at, found)
           b == Indexer(found)[at]
<1>1. CASE found["check_diff_height"]
    BY <1>1, RootFinalizes
<1>2. CASE ~ found["check_diff_height"]
  <2>1. ASSUME NEW v, NEW h \in Nat, NEW k \in Nat, NEW n \in Nat, NEW to,
               Gives(b, v, h, k, n, to)
        PROVE  Gives(r, v, h, k, n, to)
    BY <1>2, <2>1, RootGoesOn
  <2>2. CASE at = "PROPOSE"
    <3>1. b = propose_block_tree(found)
      BY <2>2 DEF Indexer
    <3> HIDE DEF r, b
    <3>2. found["check_exist_transaction"] =>
              Gives(r, "True", 0, 0, 1, "COLLECT_CANDIDATE")
      BY <2>1, <3>1, ProposeBlockTree
    <3>3. ~ found["check_exist_transaction"] => Gives(r, "False", 0, 0, 0, Nowhere)
      BY <2>1, <3>1, ProposeBlockTree
    <3> QED BY <2>2, <3>2, <3>3 DEF r
  <2>3. CASE at = "COLLECT_CANDIDATE"
    <3>1. b = select_tree(found)
      BY <2>3 DEF Indexer
    <3> HIDE DEF r, b
    <3>2. found["wait"] => Gives(r, "True", 0, 0, 1, "COLLECT_VOTE")
      BY <2>1, <3>1, SelectTree
    <3>3. ~ found["wait"] => Gives(r, "False", 0, 0, 0, Nowhere)
      BY <2>1, <3>1, SelectTree
    <3> QED BY <2>3, <3>2, <3>3 DEF r
  <2>4. CASE at = "COLLECT_VOTE"
    <3>1. b = collect_vote_tree(found)
      BY <2>4 DEF Indexer
    <3> HIDE DEF r, b
    <3>2. found["check_select_vote"] =>
              Gives(r, "True", 0, 0, 1, "WAIT_FOR_FINALIZE")
      BY <2>1, <3>1, CollectVoteTree
    <3>3. ~ found["check_select_vote"] /\ found["wait"] =>
              Gives(r, "True", 0, 1, 0, "PROPOSE")
      BY <2>1, <3>1, CollectVoteTree
    <3>4. ~ found["check_select_vote"] /\ ~ found["wait"] =>
              Gives(r, "False", 0, 0, 0, Nowhere)
      BY <2>1, <3>1, CollectVoteTree
    <3> QED BY <2>4, <3>2, <3>3, <3>4 DEF r
  <2>5. CASE at = "WAIT_FOR_FINALIZE"
    <3>1. b = Action(found, "wait", "WAIT_FOR_FINALIZE")
      BY <2>5 DEF Indexer
    <3>2. "wait" \in Checks /\ "WAIT_FOR_FINALIZE" \in Stage \cup {Nowhere}
      BY DEF Checks, Stage
    <3> HIDE DEF r, b
    <3>3. \E v : Gives(b, v, 0, 0, 0, Nowhere)
      BY <3>1, <3>2, Leaves
    <3>4. \E v : Gives(r, v, 0, 0, 0, Nowhere)
      BY <2>1, <3>3
    <3> QED BY <2>5, <3>4 DEF r
  <2> QED BY <2>2, <2>3, <2>4, <2>5 DEF Stage
<1> QED BY <1>1, <1>2

-----------------------------------------------------------------------------
(* The passes, one after the other.                                          *)

PassesTypeOK ==
    /\ stage \in Stage
    /\ num_height \in Nat
    /\ num_retry_count \in Nat

LEMMA PassesStep ==
    ASSUME PassesTypeOK, PassesNext
    PROVE  PassesTypeOK' /\ (Abstract!Next \/ UNCHANGED passes)
<1>1. PICK found \in [Checks -> BOOLEAN] :
          LET t == create_root(stage, found).trace
          IN  /\ num_height' = num_height + Count(t, "increase_height")
              /\ num_retry_count' = num_retry_count + Count(t, "retry_round")
              /\ stage' = LastStage(t, stage)
    BY DEF PassesNext
<1> DEFINE r == create_root(stage, found)
<1>2. ASSUME NEW v, NEW h, NEW k, NEW n, NEW to, Gives(r, v, h, k, n, to)
      PROVE  /\ num_height' = num_height + h
             /\ num_retry_count' = num_retry_count + k
             /\ stage' = IF to = Nowhere THEN stage ELSE to
    BY <1>1, <1>2 DEF Gives
<1> HIDE DEF r
<1>3. stage \in Stage /\ num_height \in Nat /\ num_retry_count \in Nat
    BY DEF PassesTypeOK
<1>4. /\ "PROPOSE" # Nowhere /\ "COLLECT_CANDIDATE" # Nowhere
      /\ "COLLECT_VOTE" # Nowhere /\ "WAIT_FOR_FINALIZE" # Nowhere
    BY Somewhere DEF Stage
<1>5. CASE Gives(r, "True", 1, 0, 0, "PROPOSE")
  <2>1. /\ stage' = "PROPOSE" /\ num_height' = num_height + 1
        /\ num_retry_count' = num_retry_count
    BY <1>2, <1>3, <1>4, <1>5
  <2> QED BY <1>3, <2>1 DEF PassesTypeOK, Stage, Abstract!Next, Abstract!NewRound
<1>6. CASE /\ stage = "PROPOSE"
           /\ Gives(r, "True", 0, 0, 1, "COLLECT_CANDIDATE")
  <2>1. /\ stage' = "COLLECT_CANDIDATE" /\ num_height' = num_height
        /\ num_retry_count' = num_retry_count
    BY <1>2, <1>3, <1>4, <1>6
  <2> QED BY <1>3, <1>6, <2>1
          DEF PassesTypeOK, Stage, Abstract!Next, Abstract!Propose, Abstract!Moves
<1>7. CASE /\ stage = "COLLECT_CANDIDATE"
           /\ Gives(r, "True", 0, 0, 1, "COLLECT_VOTE")
  <2>1. /\ stage' = "COLLECT_VOTE" /\ num_height' = num_height
        /\ num_retry_count' = num_retry_count
    BY <1>2, <1>3, <1>4, <1>7
  <2> QED BY <1>3, <1>7, <2>1
          DEF PassesTypeOK, Stage, Abstract!Next, Abstract!SelectAndVote,
              Abstract!Moves
<1>8. CASE /\ stage = "COLLECT_VOTE"
           /\ Gives(r, "True", 0, 0, 1, "WAIT_FOR_FINALIZE")
  <2>1. /\ stage' = "WAIT_FOR_FINALIZE" /\ num_height' = num_height
        /\ num_retry_count' = num_retry_count
    BY <1>2, <1>3, <1>4, <1>8
  <2> QED BY <1>3, <1>8, <2>1
          DEF PassesTypeOK, Stage, Abstract!Next, Abstract!Elect, Abstract!Moves
<1>9. CASE stage = "COLLECT_VOTE" /\ Gives(r, "True", 0, 1, 0, "PROPOSE")
  <2>1. /\ stage' = "PROPOSE" /\ num_height' = num_height
        /\ num_retry_count' = num_retry_count + 1
    BY <1>2, <1>3, <1>4, <1>9
  <2> QED BY <1>3, <1>9, <2>1
          DEF PassesTypeOK, Stage, Abstract!Next, Abstract!RetryRound,
              Abstract!Moves
<1>10. CASE \E v : Gives(r, v, 0, 0, 0, Nowhere)
  <2>1. UNCHANGED passes
    BY <1>2, <1>3, <1>10 DEF passes
  <2> QED BY <2>1 DEF PassesTypeOK, passes
<1> QED BY <1>3, <1>5, <1>6, <1>7, <1>8, <1>9, <1>10, PassGives DEF r

(* The fields keep their types over any number of passes.                    *)
THEOREM PassesTyped == PassesSpec => []PassesTypeOK
<1>1. PassesInit => PassesTypeOK
    BY DEF PassesInit, PassesTypeOK, Stage
<1>2. PassesTypeOK /\ [PassesNext]_passes => PassesTypeOK'
  <2>1. PassesTypeOK /\ UNCHANGED passes => PassesTypeOK'
    BY DEF PassesTypeOK, passes
  <2> QED BY <2>1, PassesStep
<1> QED BY <1>1, <1>2, PTL DEF PassesSpec

(* Every run of passes of the behaviour tree is a run of Rounds: whatever    *)
(* the checks find, a pass changes stage, height and retries as one action   *)
(* of LLFC does, or not at all.                                              *)
THEOREM PassesImplementRounds == PassesSpec => ImplementsRounds
<1>1. PassesInit => Abstract!Init
    BY DEF PassesInit, Abstract!Init
<1>2. PassesTypeOK /\ [PassesNext]_passes => [Abstract!Next]_(Abstract!vars)
  <2>1. UNCHANGED passes => UNCHANGED Abstract!vars
    BY DEF passes, Abstract!vars
  <2> QED BY <2>1, PassesStep
<1> QED BY <1>1, <1>2, PassesTyped, PTL
        DEF PassesSpec, ImplementsRounds, Abstract!Spec

-----------------------------------------------------------------------------
(* The waves of engines without a quorum.                                    *)

Over(n) == now - timestamp_of[n] > LLFCTerm

\* The passes of an engine that finds no quorum
LEMMA WavePass ==
    ASSUME NEW n \in Engine, stage_of[n] \in Stage
    PROVE  LET t == Actions(n)
           IN  \/ /\ stage_of[n] = "PROPOSE" /\ Moves(n)
                  /\ LastStage(t, stage_of[n]) = "COLLECT_CANDIDATE"
                  /\ Count(t, "retry_round") = 0 /\ Does(t, "time_start")
               \/ /\ stage_of[n] = "COLLECT_CANDIDATE" /\ Over(n) /\ Moves(n)
                  /\ LastStage(t, stage_of[n]) = "COLLECT_VOTE"
                  /\ Count(t, "retry_round") = 0 /\ Does(t, "time_start")
               \/ /\ stage_of[n] = "COLLECT_VOTE" /\ Over(n) /\ Moves(n)
                  /\ LastStage(t, stage_of[n]) = "PROPOSE"
                  /\ Count(t, "retry_round") = 1 /\ ~ Does(t, "time_start")
               \/ /\ ~ Moves(n) /\ stage_of[n] # "PROPOSE"
                  /\ stage_of[n] \in {"COLLECT_CANDIDATE", "COLLECT_VOTE"} => ~ Over(n)
<1> DEFINE at == stage_of[n]
           found == Found(n)
           r == create_root(at, found)
           t == r.trace
<1>1. Actions(n) = t /\ (Moves(n) <=> Does(t, "update_stage"))
    BY DEF Actions, Moves
<1>2. /\ found \in [Checks -> BOOLEAN]
      /\ found["wait"] <=> Over(n)
      /\ ~ found["check_diff_height"] /\ ~ found["check_select_vote"]
      /\ found["check_exist_transaction"]
  <2>1. found \in [Checks -> BOOLEAN]
    <3>1. ASSUME NEW c \in Checks PROVE found[c] \in BOOLEAN
      <4>1. CASE c = "wait"
        BY <4>1 DEF Found
      <4>2. CASE c \in {"check_diff_height", "check_select_vote"}
        BY <4>2 DEF Found
      <4>3. CASE c \notin {"wait", "check_diff_height", "check_select_vote"}
        BY <4>3 DEF Found
      <4> QED BY <4>1, <4>2, <4>3
    <3>2. found = [c \in Checks |-> found[c]]
      BY DEF Found
    <3> HIDE DEF found
    <3> QED BY <3>1, <3>2
  <2>2. /\ "wait" \in Checks /\ "check_diff_height" \in Checks
        /\ "check_select_vote" \in Checks /\ "check_exist_transaction" \in Checks
    BY DEF Checks
  <2> QED BY <2>1, <2>2 DEF Found, Over
<1> HIDE DEF found
<1>3. ASSUME NEW v, NEW h, NEW k, NEW s \in {0, 1}, NEW to, Gives(r, v, h, k, s, to)
      PROVE  /\ Moves(n) <=> to # Nowhere
             /\ LastStage(t, at) = IF to = Nowhere THEN at ELSE to
             /\ Count(t, "retry_round") = k
             /\ Does(t, "time_start") <=> s = 1
  <2>1. /\ Does(t, "update_stage") <=> to # Nowhere
        /\ LastStage(t, at) = IF to = Nowhere THEN at ELSE to
        /\ Count(t, "retry_round") = k
        /\ Count(t, "time_start") = s
        /\ t \in Trace
    BY <1>3 DEF Gives, ResultSet
  <2>2. Does(t, "time_start") <=> s = 1
    <3>1. IsFiniteSet(Calls(t, "time_start"))
      BY <2>1, TraceFacts
    <3>2. Cardinality(Calls(t, "time_start")) = 0 <=> Calls(t, "time_start") = {}
      BY <3>1, FS_EmptySet
    <3> QED BY <2>1, <3>2 DEF Does, Count
  <2> QED BY <1>1, <2>1, <2>2
<1>4. at \in Stage
    OBVIOUS
<1> HIDE DEF at, r
<1>5. /\ "PROPOSE" # Nowhere /\ "COLLECT_CANDIDATE" # Nowhere
      /\ "COLLECT_VOTE" # Nowhere
    BY Somewhere DEF Stage
<1>6. CASE at = "PROPOSE" /\ Gives(r, "True", 0, 0, 1, "COLLECT_CANDIDATE")
    BY <1>1, <1>3, <1>5, <1>6 DEF at
<1>7. CASE /\ at = "COLLECT_CANDIDATE" /\ found["wait"]
           /\ Gives(r, "True", 0, 0, 1, "COLLECT_VOTE")
    BY <1>1, <1>2, <1>3, <1>5, <1>7 DEF at
<1>8. CASE /\ at = "COLLECT_VOTE" /\ found["wait"]
           /\ Gives(r, "True", 0, 1, 0, "PROPOSE")
  <2>1. /\ Moves(n) /\ LastStage(t, at) = "PROPOSE"
        /\ Count(t, "retry_round") = 1 /\ ~ Does(t, "time_start")
    <3>1. 0 \in {0, 1} /\ ~ (0 = 1)
      OBVIOUS
    <3>2. Gives(r, "True", 0, 1, 0, "PROPOSE")
      BY <1>8
    <3>3. Does(t, "time_start") <=> 0 = 1
      BY <1>3, <3>1, <3>2, Zenon
    <3> QED BY <1>3, <1>5, <3>1, <3>2, <3>3
  <2> QED BY <1>1, <1>2, <1>8, <2>1 DEF at
<1>9. CASE /\ at = "PROPOSE" => ~ found["check_exist_transaction"]
           /\ at \in {"COLLECT_CANDIDATE", "COLLECT_VOTE"} => ~ found["wait"]
           /\ \E v : Gives(r, v, 0, 0, 0, Nowhere)
  <2>1. ~ Moves(n)
    BY <1>3, <1>9
  <2> QED BY <1>1, <1>2, <1>9, <2>1 DEF at
<1>10. \/ at = "PROPOSE" /\ Gives(r, "True", 0, 0, 1, "COLLECT_CANDIDATE")
       \/ /\ at = "COLLECT_CANDIDATE" /\ found["wait"]
          /\ Gives(r, "True", 0, 0, 1, "COLLECT_VOTE")
       \/ /\ at = "COLLECT_VOTE" /\ found["wait"]
          /\ Gives(r, "True", 0, 1, 0, "PROPOSE")
       \/ /\ at = "PROPOSE" => ~ found["check_exist_transaction"]
          /\ at \in {"COLLECT_CANDIDATE", "COLLECT_VOTE"} => ~ found["wait"]
          /\ \E v : Gives(r, v, 0, 0, 0, Nowhere)
    BY <1>2, <1>4, PassGives DEF r
<1> QED BY <1>6, <1>7, <1>8, <1>9, <1>10

LEMMA Products ==
    ASSUME NEW w \in Nat, w > 0, NEW r \in Nat, NEW s \in Nat
    PROVE  /\ r * w \in Nat /\ (r + 1) * w = r * w + w
           /\ 0 * w = 0
           /\ r <= s => r * w <= s * w
           /\ r > s => r * w >= s * w + w
           /\ r > s + 1 => r * w >= s * w + w + w
<1>1. /\ r * w \in Nat /\ (r + 1) * w = r * w + w /\ 0 * w = 0
    OBVIOUS
<1>2. ASSUME NEW a \in Nat, NEW b \in Nat, a <= b PROVE a * w <= b * w
  <2>1. PICK d \in Nat : b = a + d
    <3>1. b - a \in Nat /\ b = a + (b - a)
      BY <1>2
    <3> QED BY <3>1
  <2>2. (a + d) * w = a * w + d * w /\ d * w \in Nat /\ a * w \in Nat
    OBVIOUS
  <2> QED BY <2>1, <2>2
<1>3. r > s => r * w >= s * w + w
  <2>1. (s + 1) * w = s * w + w
    OBVIOUS
  <2> QED BY <1>2, <2>1
<1>4. r > s + 1 => r * w >= s * w + w + w
  <2>1. (s + 1 + 1) * w = s * w + w + w
    OBVIOUS
  <2>2. r > s + 1 => s + 1 + 1 <= r /\ s + 1 + 1 \in Nat
    OBVIOUS
  <2> QED BY <1>2, <2>1, <2>2
<1> QED BY <1>1, <1>2, <1>3, <1>4

\* When the wave opened in which an engine is
Opened(n) == first[n] + retries_of[n] * WaveLength

WavesTypeOK ==
    /\ now \in Nat
    /\ stage_of \in [Engine -> Stage]
    /\ retries_of \in [Engine -> Nat]
    /\ timestamp_of \in [Engine -> Nat]
    /\ first \in [Engine -> Nat \cup {Never}]

\* Where in its wave the clock finds an engine, before it has proposed and after
WaveOf(n) ==
    IF first[n] = Never
      THEN stage_of[n] = "PROPOSE" /\ retries_of[n] = 0
      ELSE \/ stage_of[n] = "PROPOSE" /\ now = Opened(n)
           \/ /\ stage_of[n] = "COLLECT_CANDIDATE"
              /\ timestamp_of[n] = Opened(n)
              /\ Opened(n) <= now /\ now <= Opened(n) + LLFCTerm + 1
           \/ /\ stage_of[n] = "COLLECT_VOTE"
              /\ timestamp_of[n] = Opened(n) + LLFCTerm + 1
              /\ timestamp_of[n] <= now /\ now <= Opened(n) + WaveLength

WavesInv == WavesTypeOK /\ \A n \in Engine : WaveOf(n)

LEMMA WaveLengthIs == /\ LLFCTerm \in Nat /\ WaveLength \in Nat /\ WaveLength > 0
                      /\ WaveLength = LLFCTerm + 1 + LLFCTerm + 1
                      /\ Never \notin Nat
BY TermAssumption DEF WaveLength

\* Two engines in their waves are as far apart as the invariant allows.
LEMMA WavesKeepStep == WavesInv => KeepStep
<1> SUFFICES ASSUME WavesInv, NEW m \in Engine, NEW n \in Engine,
                    first[m] # Never, first[n] # Never
             PROVE  LET ahead == retries_of[m] - retries_of[n]
                        apart == first[n] - first[m]
                    IN  /\ (apart \in -LLFCTerm .. LLFCTerm /\ ahead > 0) =>
                               (ahead = 1 /\ stage_of[n] = "COLLECT_VOTE")
                        /\ apart > WaveLength => ahead > 0
    BY DEF KeepStep
<1> DEFINE w == WaveLength
           a == retries_of[m]
           b == retries_of[n]
           f == first[m]
           g == first[n]
<1>1. /\ now \in Nat /\ a \in Nat /\ b \in Nat /\ f \in Nat /\ g \in Nat
      /\ LLFCTerm \in Nat /\ w \in Nat /\ w > 0 /\ w = LLFCTerm + 1 + LLFCTerm + 1
    BY WaveLengthIs DEF WavesInv, WavesTypeOK
<1>2. PICK x \in Nat : x = a * w
    BY <1>1, Products
<1>3. PICK y \in Nat : y = b * w
    BY <1>1, Products
<1>4. /\ f + x <= now /\ now <= f + x + w
      /\ g + y <= now /\ now <= g + y + w
      /\ stage_of[n] = "COLLECT_VOTE" \/ now <= g + y + LLFCTerm + 1
    BY <1>1, <1>2, <1>3 DEF WavesInv, WaveOf, Opened
<1>5. /\ a <= b => x <= y
      /\ a > b => x >= y + w
      /\ a > b + 1 => x >= y + w + w
  <2> HIDE DEF w, a, b
  <2> QED BY <1>1, <1>2, <1>3, Products
<1> HIDE DEF w, a, b, f, g
<1>6. (g - f \in -LLFCTerm .. LLFCTerm /\ a - b > 0) =>
          (a - b = 1 /\ stage_of[n] = "COLLECT_VOTE")
    BY <1>1, <1>4, <1>5
<1>7. g - f > w => a - b > 0
    BY <1>1, <1>4, <1>5
<1> QED BY <1>6, <1>7 DEF w, a, b, f, g

\* What a pass leaves alone
LEMMA PassOf ==
    ASSUME WavesTypeOK, NEW n \in Engine, Pass(n)
    PROVE  /\ Moves(n) /\ now' = now
           /\ stage_of' = [stage_of EXCEPT ![n] = LastStage(Actions(n), stage_of[n])]
           /\ retries_of' = [retries_of EXCEPT ![n] =
                                retries_of[n] + Count(Actions(n), "retry_round")]
           /\ timestamp_of' = [timestamp_of EXCEPT ![n] =
                                  IF Does(Actions(n), "time_start")
                                    THEN now ELSE timestamp_of[n]]
BY DEF Pass, WavesTypeOK

LEMMA WaveStep ==
    ASSUME WavesInv, NEW n \in Engine, Pass(n),
           \/ first[n] = Never /\ first' = [first EXCEPT ![n] = now]
           \/ first[n] # Never /\ first' = first
    PROVE  WavesInv'
<1> DEFINE w == WaveLength
           t == Actions(n)
           f == IF first[n] = Never THEN now ELSE first[n]
<1>1. /\ WavesTypeOK /\ WaveOf(n) /\ \A e \in Engine : WaveOf(e)
      /\ LLFCTerm \in Nat /\ w \in Nat /\ w > 0
      /\ w = LLFCTerm + 1 + LLFCTerm + 1 /\ Never \notin Nat
    BY WaveLengthIs DEF WavesInv
<1>2. /\ now \in Nat /\ stage_of[n] \in Stage /\ retries_of[n] \in Nat
      /\ timestamp_of[n] \in Nat /\ first[n] \in Nat \cup {Never}
    BY <1>1 DEF WavesTypeOK
<1>3. /\ now' = now /\ Moves(n)
      /\ stage_of' = [stage_of EXCEPT ![n] = LastStage(t, stage_of[n])]
      /\ retries_of' = [retries_of EXCEPT ![n] =
                           retries_of[n] + Count(t, "retry_round")]
      /\ timestamp_of' = [timestamp_of EXCEPT ![n] =
                             IF Does(t, "time_start") THEN now ELSE timestamp_of[n]]
      /\ first' = [first EXCEPT ![n] = f]
  <2>1. first' = [first EXCEPT ![n] = f]
    BY <1>1 DEF WavesTypeOK
  <2> QED BY <1>1, <2>1, PassOf
<1> DEFINE open == f + retries_of[n] * w
<1>4. \/ /\ stage_of[n] = "PROPOSE" /\ now = open
         /\ LastStage(t, stage_of[n]) = "COLLECT_CANDIDATE"
         /\ Count(t, "retry_round") = 0 /\ Does(t, "time_start")
      \/ /\ stage_of[n] = "COLLECT_CANDIDATE" /\ timestamp_of[n] = open
         /\ now = open + LLFCTerm + 1
         /\ LastStage(t, stage_of[n]) = "COLLECT_VOTE"
         /\ Count(t, "retry_round") = 0 /\ Does(t, "time_start")
      \/ /\ stage_of[n] = "COLLECT_VOTE" /\ timestamp_of[n] = open + LLFCTerm + 1
         /\ now = open + w
         /\ LastStage(t, stage_of[n]) = "PROPOSE"
         /\ Count(t, "retry_round") = 1 /\ ~ Does(t, "time_start")
  <2>1. PICK x \in Nat : x = retries_of[n] * w
    BY <1>1, <1>2, Products
  <2>2. 0 * w = 0
    BY <1>1, Products
  <2>3. \/ stage_of[n] = "PROPOSE" /\ now = f + x
        \/ /\ stage_of[n] = "COLLECT_CANDIDATE"
           /\ timestamp_of[n] = f + x
           /\ f + x <= now /\ now <= f + x + LLFCTerm + 1
        \/ /\ stage_of[n] = "COLLECT_VOTE"
           /\ timestamp_of[n] = f + x + LLFCTerm + 1
           /\ timestamp_of[n] <= now /\ now <= f + x + w
    <3>1. CASE first[n] = Never
      <4>1. x = 0 /\ f = now /\ stage_of[n] = "PROPOSE"
        BY <3>1, <1>1, <2>1, <2>2 DEF WaveOf
      <4> QED BY <4>1, <1>2
    <3>2. CASE first[n] # Never
      <4>1. f = first[n] /\ Opened(n) = f + x
        BY <3>2, <2>1 DEF Opened
      <4> QED BY <4>1, <3>2, <1>1 DEF WaveOf
    <3> QED BY <3>1, <3>2
  <2>4. /\ open = f + x /\ f \in Nat
    BY <2>1, <1>2
  <2> HIDE DEF f, t, w, open
  <2>5. Over(n) <=> now - timestamp_of[n] > LLFCTerm
    BY DEF Over
  <2>6. CASE stage_of[n] = "PROPOSE"
    BY <2>6, <2>3, <2>4, <1>2, <1>3, WavePass DEF t
  <2>7. CASE stage_of[n] = "COLLECT_CANDIDATE"
    <3>1. /\ Over(n)
          /\ LastStage(t, stage_of[n]) = "COLLECT_VOTE"
          /\ Count(t, "retry_round") = 0 /\ Does(t, "time_start")
      BY <2>7, <1>2, <1>3, WavePass DEF t
    <3>2. timestamp_of[n] = open /\ now = open + LLFCTerm + 1
      BY <2>3, <2>4, <2>5, <2>7, <3>1, <2>1, <1>1, <1>2
    <3> QED BY <2>7, <3>1, <3>2
  <2>8. CASE stage_of[n] = "COLLECT_VOTE"
    <3>1. /\ Over(n)
          /\ LastStage(t, stage_of[n]) = "PROPOSE"
          /\ Count(t, "retry_round") = 1 /\ ~ Does(t, "time_start")
      BY <2>8, <1>2, <1>3, WavePass DEF t
    <3>2. timestamp_of[n] = open + LLFCTerm + 1 /\ now <= open + w
      BY <2>3, <2>4, <2>8
    <3>3. open \in Nat
      BY <2>1, <2>4
    <3>4. now = open + w
      BY <2>5, <3>1, <3>2, <3>3, <1>1, <1>2
    <3> QED BY <2>8, <3>1, <3>2, <3>4
  <2> QED BY <2>3, <2>6, <2>7, <2>8
<1>5. /\ f \in Nat /\ f # Never /\ open \in Nat
      /\ f + (retries_of[n] + 1) * w = open + w
      /\ f + (retries_of[n] + 0) * w = open
  <2>1. f \in Nat
    BY <1>2
  <2>2. /\ retries_of[n] * w \in Nat
        /\ (retries_of[n] + 1) * w = retries_of[n] * w + w
    BY <1>1, <1>2, Products
  <2> HIDE DEF f, w
  <2>3. PICK x \in Nat : x = retries_of[n] * w
    BY <2>2
  <2>4. (retries_of[n] + 1) * w = x + w /\ open = f + x
    BY <2>2, <2>3
  <2>5. retries_of[n] + 0 = retries_of[n]
    BY <1>2
  <2>6. f + (x + w) = (f + x) + w
    BY <2>1, <1>1
  <2> QED BY <2>1, <2>3, <2>4, <2>5, <2>6, <1>1
<1>6. WavesTypeOK'
  <2>1. /\ LastStage(t, stage_of[n]) \in Stage
        /\ retries_of[n] + Count(t, "retry_round") \in Nat
        /\ (IF Does(t, "time_start") THEN now ELSE timestamp_of[n]) \in Nat
    BY <1>2, <1>4 DEF Stage
  <2> HIDE DEF f, t, open, w
  <2> QED BY <1>1, <1>2, <1>3, <1>5, <2>1 DEF WavesTypeOK
<1>7. WaveOf(n)'
  <2> HIDE DEF open
  <2>1. /\ stage_of'[n] = LastStage(t, stage_of[n])
        /\ retries_of'[n] = retries_of[n] + Count(t, "retry_round")
        /\ timestamp_of'[n] = IF Does(t, "time_start") THEN now ELSE timestamp_of[n]
        /\ first'[n] = f
    BY <1>1, <1>3 DEF WavesTypeOK
  <2>2. Opened(n)' = f + (retries_of[n] + Count(t, "retry_round")) * w
    <3>1. Opened(n)' = first'[n] + retries_of'[n] * w
      BY DEF Opened, WaveLength
    <3> QED BY <2>1, <3>1
  <2> HIDE DEF f, t
  <2>3. CASE Count(t, "retry_round") = 0
    <3>1. Opened(n)' = open
      BY <2>2, <2>3, <1>5
    <3> QED BY <3>1, <2>1, <2>3, <1>1, <1>2, <1>3, <1>4, <1>5 DEF WaveOf
  <2>4. CASE Count(t, "retry_round") = 1
    <3>1. Opened(n)' = open + w
      BY <2>2, <2>4, <1>5
    <3> QED BY <3>1, <2>1, <2>4, <1>1, <1>2, <1>3, <1>4, <1>5 DEF WaveOf
  <2> QED BY <1>4, <2>3, <2>4
<1>8. ASSUME NEW e \in Engine, e # n PROVE WaveOf(e)'
  <2>1. /\ stage_of'[e] = stage_of[e] /\ retries_of'[e] = retries_of[e]
        /\ timestamp_of'[e] = timestamp_of[e] /\ first'[e] = first[e]
        /\ now' = now
    BY <1>1, <1>3, <1>8 DEF WavesTypeOK
  <2>2. Opened(e)' = Opened(e)
    BY <2>1 DEF Opened, WaveLength
  <2> QED BY <1>1, <2>1, <2>2 DEF WaveOf, WaveLength
<1> QED BY <1>6, <1>7, <1>8 DEF WavesInv

LEMMA TickStep ==
    ASSUME WavesInv, Tick
    PROVE  WavesInv'
<1>1. /\ WavesTypeOK /\ \A e \in Engine : WaveOf(e)
      /\ LLFCTerm \in Nat /\ WaveLength \in Nat
      /\ WaveLength = LLFCTerm + 1 + LLFCTerm + 1
    BY WaveLengthIs DEF WavesInv
<1>2. /\ now' = now + 1 /\ stage_of' = stage_of /\ retries_of' = retries_of
      /\ timestamp_of' = timestamp_of /\ first' = first
      /\ \A e \in Engine : first[e] # Never => ~ Moves(e)
    BY DEF Tick
<1>3. WavesTypeOK'
    BY <1>1, <1>2 DEF WavesTypeOK
<1>4. ASSUME NEW e \in Engine PROVE WaveOf(e)'
  <2>1. Opened(e)' = Opened(e)
    BY <1>2 DEF Opened, WaveLength
  <2>2. CASE first[e] = Never
    BY <2>2, <1>1, <1>2 DEF WaveOf
  <2>3. CASE first[e] # Never
    <3>1. /\ stage_of[e] \in Stage /\ ~ Moves(e) /\ now \in Nat
          /\ timestamp_of[e] \in Nat /\ first[e] \in Nat /\ retries_of[e] \in Nat
      BY <2>3, <1>1, <1>2 DEF WavesTypeOK
    <3>2. /\ stage_of[e] # "PROPOSE"
          /\ stage_of[e] \in {"COLLECT_CANDIDATE", "COLLECT_VOTE"}
                 => ~ (now - timestamp_of[e] > LLFCTerm)
      BY <3>1, WavePass DEF Over
    <3>3. PICK o \in Nat : o = Opened(e)
      <4>1. retries_of[e] * WaveLength \in Nat
        BY <3>1, WaveLengthIs, Products
      <4> HIDE DEF WaveLength
      <4> QED BY <3>1, <4>1 DEF Opened
    <3>4. \/ /\ stage_of[e] = "COLLECT_CANDIDATE"
             /\ timestamp_of[e] = o /\ o <= now
          \/ /\ stage_of[e] = "COLLECT_VOTE"
             /\ timestamp_of[e] = o + LLFCTerm + 1 /\ timestamp_of[e] <= now
      BY <2>3, <1>1, <3>2, <3>3 DEF WaveOf
    <3>5. \/ /\ stage_of[e] = "COLLECT_CANDIDATE" /\ timestamp_of[e] = o
             /\ o <= now + 1 /\ now + 1 <= o + LLFCTerm + 1
          \/ /\ stage_of[e] = "COLLECT_VOTE"
             /\ timestamp_of[e] = o + LLFCTerm + 1 /\ timestamp_of[e] <= now + 1
             /\ now + 1 <= o + WaveLength
      BY <3>1, <3>2, <3>3, <3>4, <1>1
    <3>6. WaveLength' = WaveLength
      BY DEF WaveLength
    <3> QED BY <2>1, <2>3, <1>2, <3>3, <3>5, <3>6 DEF WaveOf
  <2> QED BY <2>2, <2>3
<1> QED BY <1>3, <1>4 DEF WavesInv

(* The types, and where the clock finds every engine in its wave.            *)
THEOREM WavesInductive == WavesSpec => []WavesInv
<1>1. WavesInit => WavesInv
    BY TermAssumption DEF WavesInit, WavesInv, WavesTypeOK, WaveOf, Stage
<1>2. WavesInv /\ [WavesNext]_waves => WavesInv'
  <2> SUFFICES ASSUME WavesInv, [WavesNext]_waves PROVE WavesInv'
    OBVIOUS
  <2>1. CASE Tick
    BY <2>1, TickStep
  <2>2. ASSUME NEW n \in Engine, Begin(n) PROVE WavesInv'
    BY <2>2, WaveStep DEF Begin
  <2>3. ASSUME NEW n \in Engine, Continue(n) PROVE WavesInv'
    BY <2>3, WaveStep DEF Continue
  <2>4. CASE UNCHANGED waves
    BY <2>4 DEF waves, WavesInv, WavesTypeOK, WaveOf, Opened, WaveLength
  <2> QED BY <2>1, <2>2, <2>3, <2>4 DEF WavesNext
<1> QED BY <1>1, <1>2, PTL DEF WavesSpec

(* Engines that first propose within a term of each other share every wave:  *)
(* none is a wave ahead before the others collect votes in it.  Engines more *)
(* than a wave apart never share one, however long they go on.               *)
THEOREM WavesAreKept == WavesSpec => []KeepStep
BY WavesInductive, WavesKeepStep, PTL

USE TxAssumption, CandidateAssumption, HashAssumption

-----------------------------------------------------------------------------
(* The loops over a list.                                                    *)

\* A list of different candidates
Lists == {s \in Seq(Candidate) : IsInjective(s)}

\* What of the first i elements of list is in keep
Among(list, keep, i) == {list[j] : j \in 1 .. i} \cap keep

LEMMA ListElements ==
    ASSUME NEW s \in Seq(Candidate)
    PROVE  /\ Len(s) \in Nat /\ DOMAIN s = 1 .. Len(s)
           /\ ToSet(s) = {s[j] : j \in 1 .. Len(s)}
           /\ ToSet(s) \subseteq Candidate
           /\ \A j \in 1 .. Len(s) : s[j] \in ToSet(s)
           /\ IsFiniteSet(ToSet(s))
<1>1. Len(s) \in Nat /\ DOMAIN s = 1 .. Len(s)
    OBVIOUS
<1>2. ToSet(s) = {s[j] : j \in 1 .. Len(s)}
    BY <1>1 DEF ToSet
<1>3. s \in Surjection(1 .. Len(s), ToSet(s))
    BY <1>1, <1>2 DEF Surjection
<1>4. IsFiniteSet(1 .. Len(s))
    BY <1>1, FS_Interval
<1>5. IsFiniteSet(ToSet(s))
    BY <1>3, <1>4, FS_Surjection
<1>6. \A j \in 1 .. Len(s) : s[j] \in Candidate
    BY <1>1
<1> QED BY <1>1, <1>2, <1>5, <1>6

LEMMA AppendNew ==
    ASSUME NEW s \in Lists, NEW c \in Candidate, c \notin ToSet(s)
    PROVE  /\ Append(s, c) \in Lists
           /\ ToSet(Append(s, c)) = ToSet(s) \cup {c}
<1> DEFINE t == Append(s, c)
<1>1. s \in Seq(Candidate) /\ IsInjective(s)
    BY DEF Lists
<1>2. /\ t \in Seq(Candidate) /\ Len(t) = Len(s) + 1
      /\ t[Len(s) + 1] = c /\ \A j \in 1 .. Len(s) : t[j] = s[j]
    BY <1>1
<1> HIDE DEF t
<1>3. DOMAIN s = 1 .. Len(s) /\ DOMAIN t = 1 .. Len(s) + 1 /\ Len(s) \in Nat
    BY <1>1, <1>2
<1>4. ToSet(t) = ToSet(s) \cup {c}
  <2>1. ASSUME NEW j \in DOMAIN t PROVE t[j] \in ToSet(s) \cup {c}
    <3>1. CASE j = Len(s) + 1
      BY <1>2, <3>1
    <3>2. CASE j \in DOMAIN s
      BY <1>2, <1>3, <3>2 DEF ToSet
    <3> QED BY <1>3, <3>1, <3>2
  <2>2. ASSUME NEW j \in DOMAIN s PROVE s[j] \in ToSet(t)
    <3>1. j \in DOMAIN t /\ s[j] = t[j]
      BY <1>2, <1>3
    <3> QED BY <3>1 DEF ToSet
  <2>3. Len(s) + 1 \in DOMAIN t
    BY <1>3
  <2>4. c \in ToSet(t)
    BY <1>2, <2>3 DEF ToSet
  <2> QED BY <2>1, <2>2, <2>4 DEF ToSet
<1>5. \A j \in 1 .. Len(s) : s[j] # c
    BY <1>3 DEF ToSet
<1>6. ASSUME NEW i \in DOMAIN t, NEW j \in DOMAIN t, t[i] = t[j] PROVE i = j
  <2>1. CASE i = Len(s) + 1
    BY <1>2, <1>3, <1>5, <1>6, <2>1
  <2>2. CASE j = Len(s) + 1
    BY <1>2, <1>3, <1>5, <1>6, <2>2
  <2>3. CASE i \in 1 .. Len(s) /\ j \in 1 .. Len(s)
    <3>1. s[i] = s[j]
      BY <1>2, <1>6, <2>3
    <3> QED BY <1>1, <1>3, <2>3, <3>1 DEF IsInjective
  <2> QED BY <1>3, <2>1, <2>2, <2>3
<1>7. IsInjective(t)
    BY <1>6 DEF IsInjective
<1> QED BY <1>2, <1>4, <1>7 DEF Lists, t

\* f has what is kept of the first blocks of list.
Keeps(f, list, keep) ==
    f = [i \in 0 .. Len(list) |->
            IF i = 0 THEN <<>>
              ELSE IF list[i] \in keep THEN Append(f[i - 1], list[i])
              ELSE f[i - 1]]

LEMMA KeepsSteps ==
    ASSUME NEW f, NEW list, Len(list) \in Nat, NEW keep
    PROVE  Keeps(f, list, keep) <=>
               /\ f = [i \in 0 .. Len(list) |-> f[i]]
               /\ f[0] = <<>>
               /\ \A i \in 1 .. Len(list) :
                      f[i] = IF list[i] \in keep THEN Append(f[i - 1], list[i])
                                                 ELSE f[i - 1]
<1>1. Len(list) \in Nat
    OBVIOUS
<1>2. \A i \in 0 .. Len(list) : i = 0 \/ i \in 1 .. Len(list)
    BY <1>1
<1>3. 0 \in 0 .. Len(list) /\ \A i \in 1 .. Len(list) : i \in 0 .. Len(list) /\ i # 0
    BY <1>1
<1>4. ASSUME Keeps(f, list, keep)
      PROVE  /\ f = [i \in 0 .. Len(list) |-> f[i]]
             /\ f[0] = <<>>
             /\ \A i \in 1 .. Len(list) :
                    f[i] = IF list[i] \in keep THEN Append(f[i - 1], list[i])
                                               ELSE f[i - 1]
    BY <1>3, <1>4, Zenon DEF Keeps
<1>5. ASSUME f = [i \in 0 .. Len(list) |-> f[i]], f[0] = <<>>,
             \A i \in 1 .. Len(list) :
                 f[i] = IF list[i] \in keep THEN Append(f[i - 1], list[i])
                                            ELSE f[i - 1]
      PROVE  Keeps(f, list, keep)
  <2>1. \A i \in 0 .. Len(list) :
            f[i] = IF i = 0 THEN <<>>
                     ELSE IF list[i] \in keep THEN Append(f[i - 1], list[i])
                     ELSE f[i - 1]
    BY <1>2, <1>3, <1>5, Zenon
  <2> QED BY <1>5, <2>1, Zenon DEF Keeps
<1> QED BY <1>4, <1>5

\* k is what the loop has kept after each step.
KeptSoFar(k, list, keep) ==
    /\ Kept(list, keep) = k[Len(list)] /\ k[0] = <<>>
    /\ \A i \in 1 .. Len(list) :
           k[i] = IF list[i] \in keep THEN Append(k[i - 1], list[i]) ELSE k[i - 1]

LEMMA KeptSteps ==
    ASSUME NEW C, NEW list \in Seq(C), NEW keep
    PROVE  \E k : KeptSoFar(k, list, keep)
<1> DEFINE n == Len(list)
           A == Seq(C)
           g == [p \in A \X (1 .. n) |->
                   IF list[p[2]] \in keep THEN Append(p[1], list[p[2]]) ELSE p[1]]
<1>1. n \in Nat
    OBVIOUS
<1>2. g \in [A \X (1 .. n) -> A] /\ <<>> \in A
    BY <1>1
<1>3. \E f : Keeps(f, list, keep)
  <2>1. PICK f \in [0 .. n -> A] : Obeys(f, g, <<>>, n)
    <3> HIDE DEF g
    <3> QED BY <1>1, <1>2, Recursion
  <2>2. ASSUME NEW i \in 1 .. n
        PROVE  f[i] = IF list[i] \in keep THEN Append(f[i - 1], list[i])
                                          ELSE f[i - 1]
    <3> HIDE DEF A
    <3>1. i - 1 \in 0 .. n
      BY <1>1
    <3>2. f[i - 1] \in A
      BY <3>1
    <3>3. <<f[i - 1], i>> \in A \X (1 .. n)
      BY <3>2
    <3> QED BY <2>1, <3>3 DEF Obeys
  <2>3. f[0] = <<>> /\ f = [i \in 0 .. n |-> f[i]]
    BY <2>1 DEF Obeys
  <2>4. Keeps(f, list, keep)
    BY <1>1, <2>2, <2>3, KeepsSteps, Zenon
  <2> QED BY <2>4
<1> HIDE DEF g, A
<1> DEFINE k == CHOOSE f : Keeps(f, list, keep)
<1>4. Keeps(k, list, keep)
    BY <1>3
<1>5. Kept(list, keep) = k[n]
    BY DEF Kept, Keeps
<1> HIDE DEF k
<1>6. KeptSoFar(k, list, keep)
    BY <1>1, <1>4, <1>5, KeepsSteps DEF KeptSoFar
<1> QED BY <1>6

\* The loop of a narrowing child leaves each block it keeps once.
LEMMA KeptBlocks ==
    ASSUME NEW list \in Lists, NEW keep
    PROVE  /\ Kept(list, keep) \in Lists
           /\ ToSet(Kept(list, keep)) = ToSet(list) \cap keep
<1> DEFINE n == Len(list)
<1>1. list \in Seq(Candidate) /\ IsInjective(list) /\ n \in Nat
    BY DEF Lists
<1>2. PICK k : KeptSoFar(k, list, keep)
    BY <1>1, KeptSteps
<1>5. Kept(list, keep) = k[n]
    BY <1>2 DEF KeptSoFar
<1>6. /\ k[0] = <<>>
      /\ \A i \in 1 .. n : k[i] = IF list[i] \in keep
                                    THEN Append(k[i - 1], list[i]) ELSE k[i - 1]
    BY <1>2 DEF KeptSoFar
<1> DEFINE T == {i \in 0 .. n : k[i] \in Lists /\ ToSet(k[i]) = Among(list, keep, i)}
<1>7. 0 \in T
  <2>1. <<>> \in Lists /\ ToSet(<<>>) = {}
    BY DEF Lists, ToSet, IsInjective
  <2> QED BY <1>1, <1>6, <2>1 DEF Among
<1>8. ASSUME NEW i \in 0 .. n - 1, i \in T PROVE i + 1 \in T
  <2>1. i \in 0 .. n /\ i + 1 \in 1 .. n /\ (i + 1) - 1 = i
    BY <1>1
  <2>2. list[i + 1] \in Candidate
    BY <1>1, <2>1
  <2>3. \A j \in 1 .. i : list[j] # list[i + 1]
    BY <1>1, <2>1 DEF IsInjective
  <2>4. list[i + 1] \notin ToSet(k[i])
    BY <1>8, <2>3 DEF Among
  <2>5. CASE list[i + 1] \in keep
    <3>1. k[i + 1] = Append(k[i], list[i + 1])
      BY <1>6, <2>1, <2>5
    <3>2. /\ k[i + 1] \in Lists
          /\ ToSet(k[i + 1]) = ToSet(k[i]) \cup {list[i + 1]}
      BY <1>8, <2>2, <2>4, <3>1, AppendNew
    <3>3. Among(list, keep, i + 1) = Among(list, keep, i) \cup {list[i + 1]}
      BY <2>1, <2>5 DEF Among
    <3>4. ToSet(k[i + 1]) = Among(list, keep, i + 1)
      BY <1>8, <3>2, <3>3
    <3>5. i + 1 \in 0 .. n
      BY <2>1
    <3> QED BY <3>2, <3>4, <3>5
  <2>6. CASE list[i + 1] \notin keep
    <3>1. k[i + 1] = k[i]
      BY <1>6, <2>1, <2>6
    <3>2. Among(list, keep, i + 1) = Among(list, keep, i)
      BY <2>1, <2>6 DEF Among
    <3> QED BY <1>8, <2>1, <3>1, <3>2
  <2> QED BY <2>5, <2>6
<1> HIDE DEF T
<1>9. n \in T
  <2>1. 0 .. n \subseteq T
    BY <1>1, <1>7, <1>8, Reaches
  <2> QED BY <1>1, <2>1
<1>10. ToSet(list) \cap keep = Among(list, keep, n)
    BY <1>1, ListElements DEF Among
<1> QED BY <1>5, <1>9, <1>10 DEF T

\* The scan ends with the greatest hash.
LEMMA GreatestIsGreatest ==
    ASSUME NEW list \in Seq(Candidate), list # <<>>
    PROVE  /\ GreatestHash(list) \in ToSet(list)
           /\ \A d \in ToSet(list) : HashRank[d] <= HashRank[GreatestHash(list)]
<1> DEFINE n == Len(list)
           g == [p \in Candidate \X (1 .. n - 1) |->
                   IF HashRank[p[1]] < HashRank[list[p[2] + 1]]
                     THEN list[p[2] + 1] ELSE p[1]]
           Scan(f) == f = [i \in 1 .. n |->
                             IF i = 1 THEN list[1]
                               ELSE IF HashRank[f[i - 1]] < HashRank[list[i]]
                                 THEN list[i]
                               ELSE f[i - 1]]
<1>1. n \in Nat \ {0} /\ \A i \in 1 .. n : list[i] \in Candidate
    OBVIOUS
<1>2. g \in [Candidate \X (1 .. n - 1) -> Candidate]
    BY <1>1
<1>3. \E f : Scan(f)
  <2>1. PICK f \in [0 .. n - 1 -> Candidate] : Obeys(f, g, list[1], n - 1)
    <3> HIDE DEF g
    <3>1. list[1] \in Candidate /\ n - 1 \in Nat
      BY <1>1
    <3> QED BY <1>2, <3>1, Recursion
  <2> DEFINE h == [i \in 1 .. n |-> f[i - 1]]
  <2>2. ASSUME NEW i \in 2 .. n
        PROVE  h[i] = IF HashRank[h[i - 1]] < HashRank[list[i]] THEN list[i]
                                                                ELSE h[i - 1]
    <3>1. /\ i - 1 \in 1 .. n - 1 /\ (i - 1) - 1 \in 0 .. n - 1
          /\ (i - 1) + 1 = i /\ i \in 1 .. n /\ i - 1 \in 1 .. n
      BY <1>1
    <3>2. <<f[(i - 1) - 1], i - 1>> \in Candidate \X (1 .. n - 1)
      BY <3>1
    <3>3. f[i - 1] = g[<<f[(i - 1) - 1], i - 1>>]
      BY <2>1, <3>1 DEF Obeys
    <3>4. h[i] = f[i - 1] /\ h[i - 1] = f[(i - 1) - 1]
      BY <3>1
    <3> QED BY <3>1, <3>2, <3>3, <3>4
  <2>3. h[1] = list[1]
    BY <1>1, <2>1 DEF Obeys
  <2>4. Scan(h)
    <3> HIDE DEF h
    <3>1. h = [i \in 1 .. n |-> h[i]]
      BY DEF h
    <3>2. \A i \in 1 .. n : i = 1 \/ i \in 2 .. n
      BY <1>1
    <3> QED BY <2>2, <2>3, <3>1, <3>2
  <2> QED BY <2>4
<1> DEFINE k == CHOOSE f : Scan(f)
<1>4. Scan(k)
    BY <1>3
<1>5. GreatestHash(list) = k[n]
    BY DEF GreatestHash
<1> HIDE DEF k, g
<1>6. /\ k[1] = list[1]
      /\ \A i \in 2 .. n : k[i] = IF HashRank[k[i - 1]] < HashRank[list[i]]
                                    THEN list[i] ELSE k[i - 1]
  <2>1. 1 \in 1 .. n /\ \A i \in 2 .. n : i \in 1 .. n /\ i # 1
    BY <1>1
  <2>2. \A i \in 1 .. n : k[i] = IF i = 1 THEN list[1]
                                  ELSE IF HashRank[k[i - 1]] < HashRank[list[i]]
                                    THEN list[i]
                                  ELSE k[i - 1]
    BY <1>4, Zenon
  <2> HIDE DEF Scan
  <2> QED BY <2>1, <2>2, Zenon
<1> DEFINE T == {i \in 0 .. n - 1 :
                   /\ \E j \in 1 .. n : k[i + 1] = list[j]
                   /\ \A j \in 1 .. i + 1 : HashRank[list[j]] <= HashRank[k[i + 1]]}
<1>7. 0 \in T
    BY <1>1, <1>6
<1>8. ASSUME NEW i \in 0 .. (n - 1) - 1, i \in T PROVE i + 1 \in T
  <2>1. /\ i + 1 \in 0 .. n - 1 /\ i + 2 \in 2 .. n /\ (i + 2) - 1 = i + 1
        /\ (i + 1) + 1 = i + 2 /\ i + 2 \in 1 .. n
    BY <1>1
  <2>2. k[i + 2] = IF HashRank[k[i + 1]] < HashRank[list[i + 2]]
                     THEN list[i + 2] ELSE k[i + 1]
    BY <1>6, <2>1
  <2>3. k[i + 1] \in Candidate /\ \A j \in 1 .. n : HashRank[list[j]] \in Nat
    BY <1>1, <1>8
  <2>4. \E j \in 1 .. n : k[i + 2] = list[j]
    BY <1>8, <2>1, <2>2
  <2>5. HashRank[k[i + 1]] \in Nat
    BY <2>3
  <2>6. ASSUME NEW j \in 1 .. i + 2
        PROVE  HashRank[list[j]] <= HashRank[k[i + 2]]
    <3>1. CASE j = i + 2
      BY <2>1, <2>2, <2>3, <2>5, <3>1
    <3>2. CASE j \in 1 .. i + 1
      <4>1. \A m \in 1 .. i + 1 : HashRank[list[m]] <= HashRank[k[i + 1]]
        BY <1>8
      <4>2. j \in 1 .. n /\ HashRank[list[j]] <= HashRank[k[i + 1]]
        BY <1>1, <2>1, <3>2, <4>1
      <4> QED BY <2>1, <2>2, <2>3, <2>5, <4>2
    <3> QED BY <3>1, <3>2
  <2> QED BY <2>1, <2>4, <2>6
<1> HIDE DEF T
<1>9. n - 1 \in T
  <2>0. n - 1 \in Nat
    BY <1>1
  <2>1. PICK m \in Nat : m = n - 1
    BY <2>0
  <2>2. \A i \in 0 .. m - 1 : i \in T => i + 1 \in T
    BY <1>8, <2>1
  <2>3. 0 .. m \subseteq T
    BY <1>7, <2>2, Reaches
  <2> QED BY <2>1, <2>3
<1>10. (n - 1) + 1 = n
    BY <1>1
<1>11. /\ \E j \in 1 .. n : k[n] = list[j]
       /\ \A j \in 1 .. n : HashRank[list[j]] <= HashRank[k[n]]
    BY <1>9, <1>10 DEF T
<1> QED BY <1>5, <1>11, ListElements
-----------------------------------------------------------------------------
(* Each child of select_tree computes its part of the rule.                  *)

LEMMA Finite == \A S \in SUBSET Candidate : \A c \in S : IsFiniteSet(c.txs)
BY FS_Subset

LEMMA TxCountType == \A c \in Candidate : TxCount(c) \in Nat
BY Finite, FS_CardinalityType DEF TxCount

LEMMA OldestTimeIsOldest ==
    ASSUME NEW c \in Candidate
    PROVE  /\ OldestTime(c) \in Int
           /\ \E t \in c.txs : OldestTime(c) = TxTime[t]
           /\ \A t \in c.txs : OldestTime(c) <= TxTime[t]
<1> DEFINE times == {TxTime[t] : t \in c.txs}
           f == [t \in c.txs |-> TxTime[t]]
<1>1. c.txs \in SUBSET Tx /\ c.txs # {} /\ IsFiniteSet(c.txs)
    BY Finite
<1>2. f \in Surjection(c.txs, times)
    BY DEF Surjection
<1>3. times \in SUBSET Int /\ times # {}
    BY <1>1
<1>4. IsFiniteSet(times)
  <2> HIDE DEF f, times
  <2> QED BY <1>1, <1>2, FS_Surjection
<1>5. OldestTime(c) = Min(times)
    BY DEF OldestTime
<1>6. Min(times) \in times /\ \A x \in times : Min(times) <= x
  <2> HIDE DEF times
  <2> QED BY <1>3, <1>4, Extremes
<1>7. \E t \in c.txs : OldestTime(c) = TxTime[t]
    BY <1>5, <1>6
<1>8. \A t \in c.txs : TxTime[t] \in times
    OBVIOUS
<1> HIDE DEF times
<1>9. OldestTime(c) \in Int
    BY <1>3, <1>5, <1>6
<1> QED BY <1>5, <1>6, <1>7, <1>8, <1>9

LEMMA AsOldTime ==
    \A c, d \in Candidate : AsOld(c, d) <=> OldestTime(c) <= OldestTime(d)
<1> SUFFICES ASSUME NEW c \in Candidate, NEW d \in Candidate
             PROVE  AsOld(c, d) <=> OldestTime(c) <= OldestTime(d)
    OBVIOUS
<1>1. PICK t \in c.txs : OldestTime(c) = TxTime[t]
    BY OldestTimeIsOldest
<1>2. PICK u \in d.txs : OldestTime(d) = TxTime[u]
    BY OldestTimeIsOldest
<1>3. \A v \in c.txs \cup d.txs : TxTime[v] \in Int
    BY DEF TxAssumption, CandidateAssumption
<1>4. ASSUME AsOld(c, d) PROVE OldestTime(c) <= OldestTime(d)
  <2>1. PICK v \in c.txs : \A w \in d.txs : TxTime[v] <= TxTime[w]
    BY <1>4 DEF AsOld
  <2>2. OldestTime(c) <= TxTime[v] /\ TxTime[v] <= TxTime[u]
    BY <2>1, OldestTimeIsOldest
  <2> QED BY <1>1, <1>2, <1>3, <2>2
<1>5. ASSUME OldestTime(c) <= OldestTime(d) PROVE AsOld(c, d)
  <2>1. ASSUME NEW w \in d.txs PROVE TxTime[t] <= TxTime[w]
    <3>1. TxTime[u] <= TxTime[w]
      BY <1>2, OldestTimeIsOldest
    <3> QED BY <1>1, <1>2, <1>3, <1>5, <3>1
  <2> QED BY <2>1 DEF AsOld
<1> QED BY <1>4, <1>5

LEMMA MostLeft ==
    ASSUME NEW list \in Seq(Candidate), list # <<>>
    PROVE  LET S    == ToSet(list)
               most == Max({TxCount(c) : c \in S})
           IN  /\ {c \in S : most <= TxCount(c)} = MaximumTx(S)
               /\ MaximumTx(S) # {}
<1> DEFINE S == ToSet(list)
           counts == {TxCount(c) : c \in S}
           f == [c \in S |-> TxCount(c)]
<1>1. S \subseteq Candidate /\ IsFiniteSet(S) /\ S # {}
    BY ListElements
<1> HIDE DEF S
<1>2. f \in Surjection(S, counts)
    BY DEF Surjection
<1>3. counts \in SUBSET Int /\ counts # {}
    BY <1>1, TxCountType
<1>4. IsFiniteSet(counts)
  <2> HIDE DEF f, counts
  <2> QED BY <1>1, <1>2, FS_Surjection
<1>5. Max(counts) \in counts /\ \A x \in counts : Max(counts) >= x
  <2> HIDE DEF counts
  <2> QED BY <1>3, <1>4, Extremes
<1>6. PICK m \in S : Max(counts) = TxCount(m)
    BY <1>5
<1>7. \A c \in S : TxCount(c) \in Nat /\ TxCount(c) <= TxCount(m)
    BY <1>1, <1>5, <1>6, TxCountType
<1>8. MaximumTx(S) = {c \in S : \A d \in S : TxCount(d) <= TxCount(c)}
    BY DEF MaximumTx, TxCount
<1>9. {c \in S : Max(counts) <= TxCount(c)} = MaximumTx(S)
  <2> HIDE DEF counts, f
  <2>1. ASSUME NEW c \in S
        PROVE  Max(counts) <= TxCount(c) <=> \A d \in S : TxCount(d) <= TxCount(c)
    BY <1>6, <1>7
  <2> QED BY <1>8, <2>1
<1>10. m \in MaximumTx(S)
    BY <1>7, <1>8
<1> QED BY <1>9, <1>10 DEF S

LEMMA OldestLeft ==
    ASSUME NEW list \in Seq(Candidate), list # <<>>
    PROVE  LET S      == ToSet(list)
               oldest == Min({OldestTime(c) : c \in S})
           IN  /\ {c \in S : oldest >= OldestTime(c)} = OldestTx(S)
               /\ OldestTx(S) # {}
<1> DEFINE S == ToSet(list)
           times == {OldestTime(c) : c \in S}
           f == [c \in S |-> OldestTime(c)]
<1>1. S \subseteq Candidate /\ IsFiniteSet(S) /\ S # {}
    BY ListElements
<1> HIDE DEF S
<1>2. f \in Surjection(S, times)
    BY DEF Surjection
<1>3. times \in SUBSET Int /\ times # {}
    BY <1>1, OldestTimeIsOldest
<1>4. IsFiniteSet(times)
  <2> HIDE DEF f, times
  <2> QED BY <1>1, <1>2, FS_Surjection
<1>5. Min(times) \in times /\ \A x \in times : Min(times) <= x
  <2> HIDE DEF times
  <2> QED BY <1>3, <1>4, Extremes
<1>6. PICK m \in S : Min(times) = OldestTime(m)
    BY <1>5
<1>7. \A c \in S : OldestTime(c) \in Int /\ OldestTime(m) <= OldestTime(c)
  <2>1. \A c \in S : OldestTime(c) \in Int /\ OldestTime(c) \in times
    BY <1>1, OldestTimeIsOldest
  <2> HIDE DEF times, f
  <2> QED BY <1>5, <1>6, <2>1
<1>8. OldestTx(S) = {c \in S : \A d \in S : OldestTime(c) <= OldestTime(d)}
    BY <1>1, AsOldTime DEF OldestTx
<1>9. {c \in S : Min(times) >= OldestTime(c)} = OldestTx(S)
  <2> HIDE DEF times, f
  <2>1. ASSUME NEW c \in S
        PROVE  Min(times) >= OldestTime(c)
                   <=> \A d \in S : OldestTime(c) <= OldestTime(d)
    BY <1>6, <1>7
  <2> QED BY <1>8, <2>1
<1>10. m \in OldestTx(S)
    BY <1>7, <1>8
<1> QED BY <1>9, <1>10 DEF S

LEMMA GreatestLeft ==
    ASSUME NEW list \in Seq(Candidate), list # <<>>
    PROVE  /\ ConflictTolerance(ToSet(list)) = {GreatestHash(list)}
           /\ GreatestHash(list) \in ToSet(list)
<1>1. ToSet(list) \subseteq Candidate
    BY ListElements
<1>2. /\ GreatestHash(list) \in ToSet(list)
      /\ \A d \in ToSet(list) : HashRank[d] <= HashRank[GreatestHash(list)]
    BY GreatestIsGreatest
<1>3. ASSUME NEW c \in ConflictTolerance(ToSet(list))
      PROVE  c = GreatestHash(list)
  <2>1. c \in ToSet(list) /\ HashRank[GreatestHash(list)] <= HashRank[c]
    BY <1>2, <1>3 DEF ConflictTolerance
  <2>2. HashRank[c] = HashRank[GreatestHash(list)]
    <3>1. HashRank[c] \in Nat /\ HashRank[GreatestHash(list)] \in Nat
      BY <1>1, <1>2, <2>1
    <3> QED BY <1>2, <2>1, <3>1
  <2> QED BY <1>1, <1>2, <2>1, <2>2
<1>4. GreatestHash(list) \in ConflictTolerance(ToSet(list))
    BY <1>2 DEF ConflictTolerance
<1> QED BY <1>2, <1>3, <1>4

\* One block in the list is one block in its set.
LEMMA OneLeft ==
    ASSUME NEW s \in Lists
    PROVE  /\ Len(s) = 1 <=> Decided(ToSet(s))
           /\ Len(s) = 1 => ToSet(s) = {s[1]}
           /\ ToSet(s) # {} => s # <<>>
<1>1. s \in Seq(Candidate) /\ IsInjective(s)
    BY DEF Lists
<1>2. /\ Len(s) \in Nat /\ DOMAIN s = 1 .. Len(s) /\ IsFiniteSet(ToSet(s))
      /\ ToSet(s) = {s[j] : j \in 1 .. Len(s)}
    BY <1>1, ListElements
<1>3. Len(s) = 1 => ToSet(s) = {s[1]}
    BY <1>2
<1>4. Decided(ToSet(s)) <=> \E x : ToSet(s) = {x}
    BY <1>2, FS_Singleton DEF Decided
<1>5. ASSUME NEW x, ToSet(s) = {x} PROVE Len(s) = 1
  <2>1. Len(s) # 0
    BY <1>2, <1>5
  <2>2. ASSUME Len(s) # 1 PROVE FALSE
    <3>1. 1 \in DOMAIN s /\ 2 \in DOMAIN s
      BY <1>2, <2>1, <2>2
    <3>2. s[1] = x /\ s[2] = x
      BY <1>2, <1>5, <3>1
    <3> QED BY <1>1, <3>1, <3>2 DEF IsInjective
  <2> QED BY <2>2
<1>6. ToSet(s) # {} => s # <<>>
    BY <1>2
<1> QED BY <1>3, <1>4, <1>5, <1>6

-----------------------------------------------------------------------------
(* SelectsTheRule.                                                           *)

Steps == {"collect", "maximum", "oldest", "conflict", "selected"}

ListType ==
    /\ stage_list \in [Node -> Lists]
    /\ list_selected_block \in [Node -> Lists]
    /\ step \in [Node -> Steps]

\* What is left of the pooled candidates before each child
LeftBefore(n) ==
    LET S    == ToSet(stage_list[n])
        left == ToSet(list_selected_block[n])
        most == MaximumTx(S)
    IN  /\ step[n] = "maximum" => left = S /\ left # {}
        /\ step[n] = "oldest" => left = most /\ left # {} /\ ~Decided(most)
        /\ step[n] = "conflict" =>
               /\ left = OldestTx(most) /\ left # {}
               /\ ~Decided(most) /\ ~Decided(OldestTx(most))
        /\ step[n] = "selected" => left = Select(S) /\ Len(list_selected_block[n]) = 1

LeftInv == ListType /\ \A n \in Node : LeftBefore(n)

LEMMA LeftInit == SelectionInit => LeftInv
<1> SUFFICES ASSUME SelectionInit PROVE LeftInv
    OBVIOUS
<1>1. <<>> \in Lists
    BY DEF Lists, IsInjective
<1> QED BY <1>1 DEF SelectionInit, LeftInv, ListType, Steps, LeftBefore

\* What a child does when it keeps a set of blocks.
LEMMA NarrowStep ==
    ASSUME LeftInv, NEW n \in Node, NEW kept \in Lists, NEW next \in Steps,
           Narrow(n, kept, next)
    PROVE  /\ ListType'
           /\ stage_list' = stage_list
           /\ list_selected_block'[n] = kept
           /\ step'[n] = IF Len(kept) = 1 THEN "selected" ELSE next
           /\ \A m \in Node \ {n} : LeftBefore(m)'
<1>1. /\ list_selected_block' = [list_selected_block EXCEPT ![n] = kept]
      /\ step' = [step EXCEPT ![n] = IF Len(kept) = 1 THEN "selected" ELSE next]
      /\ stage_list' = stage_list
    BY DEF Narrow
<1>2. ListType'
    BY <1>1 DEF LeftInv, ListType, Steps
<1>3. list_selected_block'[n] = kept
    BY <1>1 DEF LeftInv, ListType
<1>4. step'[n] = IF Len(kept) = 1 THEN "selected" ELSE next
    BY <1>1 DEF LeftInv, ListType
<1>5. ASSUME NEW m \in Node \ {n} PROVE LeftBefore(m)'
  <2>1. /\ stage_list'[m] = stage_list[m] /\ step'[m] = step[m]
        /\ list_selected_block'[m] = list_selected_block[m]
    BY <1>1 DEF LeftInv, ListType
  <2>2. LeftBefore(m)
    BY DEF LeftInv
  <2> QED BY <2>1, <2>2 DEF LeftBefore
<1> QED BY <1>1, <1>2, <1>3, <1>4, <1>5

LEMMA MaximumStep ==
    ASSUME LeftInv, NEW n \in Node, SelectMaximumTx(n)
    PROVE  LeftInv'
<1> DEFINE list == list_selected_block[n]
           S == ToSet(stage_list[n])
           most == Max({TxCount(c) : c \in ToSet(list)})
           keep == {c \in ToSet(list) : most <= TxCount(c)}
           kept == Kept(list, keep)
<1>1. step[n] = "maximum" /\ Narrow(n, kept, "oldest")
    BY DEF SelectMaximumTx
<1>2. list \in Lists /\ ToSet(list) = S /\ list # <<>> /\ list \in Seq(Candidate)
    BY <1>1, OneLeft DEF LeftInv, ListType, LeftBefore, Lists
<1>3. keep = MaximumTx(S) /\ MaximumTx(S) # {}
    BY <1>2, MostLeft
<1>4. kept \in Lists /\ ToSet(kept) = MaximumTx(S)
  <2>1. kept \in Lists /\ ToSet(kept) = ToSet(list) \cap keep
    <3> HIDE DEF keep, list
    <3> QED BY <1>2, KeptBlocks
  <2> QED BY <1>3, <2>1
<1> HIDE DEF kept, S
<1>5. /\ ListType' /\ stage_list' = stage_list /\ list_selected_block'[n] = kept
      /\ step'[n] = IF Len(kept) = 1 THEN "selected" ELSE "oldest"
      /\ \A m \in Node \ {n} : LeftBefore(m)'
    BY <1>1, <1>4, NarrowStep DEF Steps
<1>6. Len(kept) = 1 <=> Decided(MaximumTx(S))
    BY <1>4, OneLeft
<1>7. Len(kept) = 1 => Select(S) = MaximumTx(S)
    BY <1>6 DEF Select
<1>8. LeftBefore(n)'
    BY <1>3, <1>4, <1>5, <1>6, <1>7 DEF LeftBefore, S
<1> QED BY <1>5, <1>8 DEF LeftInv

LEMMA OldestStep ==
    ASSUME LeftInv, NEW n \in Node, SelectOldestTx(n)
    PROVE  LeftInv'
<1> DEFINE list == list_selected_block[n]
           S == ToSet(stage_list[n])
           oldest == Min({OldestTime(c) : c \in ToSet(list)})
           keep == {c \in ToSet(list) : oldest >= OldestTime(c)}
           kept == Kept(list, keep)
           old == OldestTx(MaximumTx(S))
<1>1. step[n] = "oldest" /\ Narrow(n, kept, "conflict")
    BY DEF SelectOldestTx
<1>2. /\ list \in Lists /\ ToSet(list) = MaximumTx(S) /\ list # <<>>
      /\ list \in Seq(Candidate) /\ ~Decided(MaximumTx(S))
    BY <1>1, OneLeft DEF LeftInv, ListType, LeftBefore, Lists
<1>3. keep = old /\ old # {}
    BY <1>2, OldestLeft
<1>4. kept \in Lists /\ ToSet(kept) = old
  <2>1. kept \in Lists /\ ToSet(kept) = ToSet(list) \cap keep
    <3> HIDE DEF keep, list
    <3> QED BY <1>2, KeptBlocks
  <2> QED BY <1>3, <2>1
<1> HIDE DEF kept, S
<1>5. /\ ListType' /\ stage_list' = stage_list /\ list_selected_block'[n] = kept
      /\ step'[n] = IF Len(kept) = 1 THEN "selected" ELSE "conflict"
      /\ \A m \in Node \ {n} : LeftBefore(m)'
    BY <1>1, <1>4, NarrowStep DEF Steps
<1>6. Len(kept) = 1 <=> Decided(old)
  <2> HIDE DEF old
  <2> QED BY <1>4, OneLeft
<1>7. Len(kept) = 1 => Select(S) = old
    BY <1>2, <1>6 DEF Select
<1>8. LeftBefore(n)'
    BY <1>2, <1>3, <1>4, <1>5, <1>6, <1>7 DEF LeftBefore, S
<1> QED BY <1>5, <1>8 DEF LeftInv

LEMMA ConflictStep ==
    ASSUME LeftInv, NEW n \in Node, SelectConflictTolerance(n)
    PROVE  LeftInv'
<1> DEFINE list == list_selected_block[n]
           S == ToSet(stage_list[n])
           old == OldestTx(MaximumTx(S))
           kept == <<GreatestHash(list)>>
<1>1. step[n] = "conflict" /\ Narrow(n, kept, "selected")
    BY DEF SelectConflictTolerance
<1>2. /\ ToSet(list) = old /\ list # <<>> /\ list \in Seq(Candidate)
      /\ ~Decided(MaximumTx(S)) /\ ~Decided(old)
    BY <1>1, OneLeft DEF LeftInv, ListType, LeftBefore, Lists
<1>3. ConflictTolerance(old) = {GreatestHash(list)} /\ GreatestHash(list) \in Candidate
  <2> HIDE DEF list, old
  <2> QED BY <1>2, GreatestLeft, ListElements
<1>4. kept \in Lists /\ Len(kept) = 1 /\ ToSet(kept) = {GreatestHash(list)}
    BY <1>3 DEF Lists, IsInjective, ToSet
<1>5. Select(S) = {GreatestHash(list)}
    BY <1>2, <1>3 DEF Select
<1> HIDE DEF kept, S
<1>6. /\ ListType' /\ stage_list' = stage_list /\ list_selected_block'[n] = kept
      /\ step'[n] = "selected"
      /\ \A m \in Node \ {n} : LeftBefore(m)'
    BY <1>1, <1>4, NarrowStep DEF Steps
<1>7. LeftBefore(n)'
    BY <1>4, <1>5, <1>6 DEF LeftBefore, S
<1> QED BY <1>6, <1>7 DEF LeftInv

LEMMA LeftStep == LeftInv /\ [SelectionNext]_selection => LeftInv'
<1> SUFFICES ASSUME LeftInv, [SelectionNext]_selection PROVE LeftInv'
    OBVIOUS
<1>1. ASSUME NEW n \in Node, NEW c \in Candidate, PutCandidate(n, c)
      PROVE  LeftInv'
  <2>1. /\ stage_list' = [stage_list EXCEPT ![n] = Append(@, c)]
        /\ step' = [step EXCEPT ![n] = "collect"]
        /\ list_selected_block' = list_selected_block
        /\ stage_list[n] \in Lists /\ c \notin ToSet(stage_list[n])
    BY <1>1 DEF PutCandidate, LeftInv, ListType
  <2>2. Append(stage_list[n], c) \in Lists
    BY <2>1, AppendNew
  <2>3. ListType'
    BY <2>1, <2>2 DEF LeftInv, ListType, Steps
  <2>4. step'[n] = "collect"
    BY <2>1 DEF LeftInv, ListType
  <2>5. ASSUME NEW m \in Node \ {n} PROVE LeftBefore(m)'
    <3>1. /\ stage_list'[m] = stage_list[m] /\ step'[m] = step[m]
          /\ list_selected_block'[m] = list_selected_block[m]
      BY <2>1 DEF LeftInv, ListType
    <3>2. LeftBefore(m)
      BY DEF LeftInv
    <3> QED BY <3>1, <3>2 DEF LeftBefore
  <2>6. LeftBefore(n)'
    BY <2>4 DEF LeftBefore
  <2> QED BY <2>3, <2>5, <2>6 DEF LeftInv
<1>2. ASSUME NEW n \in Node, GetProposeBlocks(n) PROVE LeftInv'
  <2>1. /\ list_selected_block' =
              [list_selected_block EXCEPT ![n] = stage_list[n]]
        /\ step' = [step EXCEPT ![n] = "maximum"]
        /\ stage_list' = stage_list
        /\ stage_list[n] \in Lists /\ stage_list[n] # <<>>
    BY <1>2 DEF GetProposeBlocks, LeftInv, ListType
  <2>2. ListType'
    BY <2>1 DEF LeftInv, ListType, Steps
  <2>3. step'[n] = "maximum" /\ list_selected_block'[n] = stage_list'[n]
    BY <2>1 DEF LeftInv, ListType
  <2>4. ToSet(stage_list[n]) # {}
    <3>1. stage_list[n] \in Seq(Candidate)
      BY <2>1 DEF Lists
    <3>2. 1 \in 1 .. Len(stage_list[n])
      BY <2>1, <3>1
    <3> QED BY <3>1, <3>2, ListElements
  <2>5. ASSUME NEW m \in Node \ {n} PROVE LeftBefore(m)'
    <3>1. /\ stage_list'[m] = stage_list[m] /\ step'[m] = step[m]
          /\ list_selected_block'[m] = list_selected_block[m]
      BY <2>1 DEF LeftInv, ListType
    <3>2. LeftBefore(m)
      BY DEF LeftInv
    <3> QED BY <3>1, <3>2 DEF LeftBefore
  <2>6. LeftBefore(n)'
    BY <2>1, <2>3, <2>4 DEF LeftBefore
  <2> QED BY <2>2, <2>5, <2>6 DEF LeftInv
<1>3. CASE UNCHANGED selection
    BY <1>3 DEF selection, LeftInv, ListType, LeftBefore
<1> QED BY <1>1, <1>2, <1>3, MaximumStep, OldestStep, ConflictStep
        DEF SelectionNext

LEMMA LeftAlways == SelectionSpec => []LeftInv
BY LeftInit, LeftStep, PTL DEF SelectionSpec

LEMMA LeftIsRule == LeftInv => SelectsTheRule
<1> SUFFICES ASSUME LeftInv, NEW n \in Node, step[n] = "selected"
             PROVE  Select(Pooled(n)) = {Winner(n)}
    BY DEF SelectsTheRule
<1>1. /\ list_selected_block[n] \in Lists /\ Len(list_selected_block[n]) = 1
      /\ ToSet(list_selected_block[n]) = Select(ToSet(stage_list[n]))
    BY DEF LeftInv, ListType, LeftBefore
<1> QED BY <1>1, OneLeft DEF Pooled, Winner

(* Whatever the candidates and the order in which they reach a node, the     *)
(* lists of select_maximum_tx, select_oldest_tx and                          *)
(* select_conflict_tolerance come down to THE block the rule on sets names.  *)
THEOREM Selects == SelectionSpec => []SelectsTheRule
BY LeftAlways, LeftIsRule, PTL

-----------------------------------------------------------------------------
(* RefusedStaysRefused.                                                      *)

\* A block that wins among more candidates wins among fewer.
LEMMA WinsAmongFewer ==
    ASSUME NEW P \in SUBSET Candidate, NEW Q \in SUBSET Candidate,
           P \subseteq Q, IsFiniteSet(Q),
           NEW v, NEW w \in P, Select(P) = {v}, Select(Q) = {w}
    PROVE  w = v
<1> DEFINE mostP == MaximumTx(P)
           mostQ == MaximumTx(Q)
           oldP == OldestTx(mostP)
           oldQ == OldestTx(mostQ)
<1>1. w \in mostQ
  <2>1. oldQ \subseteq mostQ /\ ConflictTolerance(oldQ) \subseteq oldQ
    BY DEF OldestTx, ConflictTolerance
  <2>2. w \in mostQ \/ w \in oldQ \/ w \in ConflictTolerance(oldQ)
    <3> HIDE DEF oldP, mostP
    <3> QED BY DEF Select
  <2> QED BY <2>1, <2>2
<1>2. mostP = mostQ \cap P
  <2>1. \A c \in Candidate : Cardinality(c.txs) \in Nat
    BY TxCountType DEF TxCount
  <2>2. \A d \in Q : Cardinality(d.txs) <= Cardinality(w.txs)
    BY <1>1 DEF MaximumTx
  <2>3. ASSUME NEW c \in mostP PROVE c \in mostQ
    <3>1. c \in P /\ Cardinality(w.txs) <= Cardinality(c.txs)
      BY DEF MaximumTx
    <3>2. \A d \in Q : Cardinality(d.txs) <= Cardinality(c.txs)
      BY <2>1, <2>2, <3>1
    <3> QED BY <3>1, <3>2 DEF MaximumTx
  <2> QED BY <2>3 DEF MaximumTx
<1>3. IsFiniteSet(P) /\ IsFiniteSet(mostP) /\ IsFiniteSet(mostQ)
      /\ IsFiniteSet(oldP) /\ IsFiniteSet(oldQ)
  <2>1. mostP \subseteq Q /\ mostQ \subseteq Q /\ oldP \subseteq Q /\ oldQ \subseteq Q
    BY DEF MaximumTx, OldestTx
  <2> QED BY <2>1, FS_Subset
<1>4. \A S : IsFiniteSet(S) => (Decided(S) <=> \E x : S = {x})
    BY FS_Singleton DEF Decided
<1>5. w \in mostP
    BY <1>1, <1>2
<1>6. CASE Decided(mostP)
  <2>1. Select(P) = mostP
    BY <1>6 DEF Select
  <2> QED BY <1>5, <2>1
<1>7. CASE ~Decided(mostP)
  <2>1. ~Decided(mostQ)
    <3>1. ASSUME NEW x, mostQ = {x} PROVE mostP = {x}
      BY <1>2, <1>5, <3>1
    <3> QED BY <1>3, <1>4, <1>7, <3>1
  <2>2. w \in oldQ
    BY <2>1 DEF Select, ConflictTolerance
  <2>3. oldP = oldQ \cap P
    <3>1. \A c \in mostQ : c \in Candidate /\ OldestTime(c) \in Int
      BY OldestTimeIsOldest DEF MaximumTx
    <3>2. \A c \in mostQ : c \in oldQ <=> \A d \in mostQ : OldestTime(c) <= OldestTime(d)
      BY <3>1, AsOldTime DEF OldestTx
    <3>3. \A c \in mostP : c \in oldP <=> \A d \in mostP : OldestTime(c) <= OldestTime(d)
      BY <1>2, <3>1, AsOldTime DEF OldestTx
    <3>4. oldP \subseteq mostP /\ oldQ \subseteq mostQ
      BY DEF OldestTx
    <3> HIDE DEF mostP, mostQ, oldP, oldQ
    <3>5. ASSUME NEW c \in oldP PROVE c \in oldQ
      <4>1. c \in mostP /\ c \in mostQ /\ OldestTime(c) <= OldestTime(w)
        BY <1>2, <1>5, <3>3, <3>4
      <4>2. \A d \in mostQ : OldestTime(w) <= OldestTime(d)
        BY <2>2, <3>2, <3>4
      <4>3. \A d \in mostQ : OldestTime(c) <= OldestTime(d)
        BY <1>1, <3>1, <4>1, <4>2
      <4> QED BY <3>2, <4>1, <4>3
    <3>6. ASSUME NEW c \in oldQ, c \in P PROVE c \in oldP
      BY <1>2, <3>2, <3>3, <3>4, <3>6
    <3>7. oldP \subseteq P
      BY <1>2, <3>4
    <3> QED BY <3>5, <3>6, <3>7
  <2>4. w \in oldP
    BY <2>2, <2>3
  <2>5. CASE Decided(oldP)
    <3>1. Select(P) = oldP
      BY <1>7, <2>5 DEF Select
    <3> QED BY <2>4, <3>1
  <2>6. CASE ~Decided(oldP)
    <3>1. ~Decided(oldQ)
      <4> HIDE DEF oldP, oldQ
      <4>1. ASSUME NEW x, oldQ = {x} PROVE oldP = {x}
        BY <2>3, <2>4, <4>1
      <4>2. /\ Decided(oldQ) <=> \E x : oldQ = {x}
            /\ Decided(oldP) <=> \E x : oldP = {x}
        BY <1>3, <1>4
      <4> QED BY <2>6, <4>1, <4>2
    <3>2. w \in ConflictTolerance(oldQ)
      BY <2>1, <3>1 DEF Select
    <3>3. w \in ConflictTolerance(oldP)
      <4> HIDE DEF oldP, oldQ
      <4> QED BY <2>3, <2>4, <3>2 DEF ConflictTolerance
    <3>4. Select(P) = ConflictTolerance(oldP)
      BY <1>7, <2>6 DEF Select
    <3> QED BY <3>3, <3>4
  <2> QED BY <2>5, <2>6
<1> QED BY <1>6, <1>7

LEMMA RuleRefuses == LeftInv /\ SelectsTheRule => RefusedStaysRefused
<1> SUFFICES ASSUME LeftInv, SelectsTheRule, NEW m \in Node, NEW n \in Node,
                    step[m] = "selected", step[n] = "selected",
                    Pooled(m) \subseteq Pooled(n), Winner(n) \in Pooled(m)
             PROVE  Winner(n) = Winner(m)
    BY DEF RefusedStaysRefused
<1>1. /\ Select(Pooled(m)) = {Winner(m)} /\ Select(Pooled(n)) = {Winner(n)}
    BY DEF SelectsTheRule
<1>2. \A k \in Node : Pooled(k) \subseteq Candidate /\ IsFiniteSet(Pooled(k))
    BY ListElements DEF LeftInv, ListType, Lists, Pooled
<1> DEFINE P == Pooled(m)
           Q == Pooled(n)
           w == Winner(n)
           v == Winner(m)
<1>3. /\ P \in SUBSET Candidate /\ Q \in SUBSET Candidate /\ IsFiniteSet(Q)
      /\ P \subseteq Q /\ w \in P /\ Select(P) = {v} /\ Select(Q) = {w}
    BY <1>1, <1>2
<1> HIDE DEF P, Q, v, w
<1>4. w = v
    BY <1>3, WinsAmongFewer
<1> QED BY <1>4 DEF v, w

(* A block that was refused is not selected again over a larger pool, and    *)
(* two nodes with the same candidates select the same block.                 *)
THEOREM NeverTakenBack == SelectionSpec => []RefusedStaysRefused
BY LeftAlways, LeftIsRule, RuleRefuses, PTL

=============================================================================
