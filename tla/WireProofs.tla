------------------------------ MODULE WireProofs ------------------------------
(***************************************************************************)
(* Proofs about the bytes of the three wires, for bytes and lengths of     *)
(* every kind the code can send, not the few of the run.  gRPC-Web: a call *)
(* returns the whole message or fails, and the clock learned from the      *)
(* answers is never ahead.  NATS: however the bytes are cut, the same      *)
(* messages are taken; what is sent is read, and what is written in        *)
(* protobuf.  BLE: what is sent in packets is assembled, passes its CRC    *)
(* and is read field by field.                                             *)
(*                                                                         *)
(* The codecs are functions that are defined from their values at later    *)
(* (or earlier) places: that they exist, and induction over a set of       *)
(* places, come first.                                                     *)
(***************************************************************************)
EXTENDS MCWire, FiniteSetTheorems, TLAPS

-----------------------------------------------------------------------------
(* Recursion: functions that are defined from their values at other places *)

\* A set of numbers that is not empty has a least one.
LEMMA Least ==
    ASSUME NEW S \in SUBSET Nat, S # {}
    PROVE  \E n \in S : \A m \in S : n <= m
<1>1. PICK k \in S : TRUE
  OBVIOUS
<1> DEFINE T == {0 .. n : n \in {n \in S : n <= k}}
           R == StrictSubsetOrdering(0 .. k)
<1>2. IsWellFoundedOn(R, FiniteSubsetsOf(0 .. k))
  BY FS_StrictSubsetOrderingWellFounded
<1>3. T \subseteq FiniteSubsetsOf(0 .. k)
  <2>1. ASSUME NEW n \in S, n <= k PROVE 0 .. n \in FiniteSubsetsOf(0 .. k)
    <3>1. IsFiniteSet(0 .. n)
      BY FS_Interval
    <3> QED  BY <2>1, <3>1 DEF FiniteSubsetsOf
  <2> QED  BY <2>1
<1>4. T # {}
  BY <1>1
<1>5. PICK x \in T : \A y \in T : ~(<<y, x>> \in R)
  <2> HIDE DEF T, R
  <2> QED  BY <1>2, <1>3, <1>4, WFMin
<1>6. PICK n \in S : n <= k /\ x = 0 .. n
  BY <1>5
<1>7. ASSUME NEW m \in S, m < n PROVE FALSE
  <2>1. 0 .. m \in T /\ 0 .. m \subseteq 0 .. n /\ 0 .. m # 0 .. n
    BY <1>6, <1>7
  <2>2. <<0 .. m, x>> \in R
    BY <1>6, <2>1 DEF StrictSubsetOrdering
  <2> QED  BY <1>5, <2>1, <2>2
<1> QED  BY <1>6, <1>7

\* Induction, over a set instead of a predicate.
LEMMA Induction ==
    ASSUME NEW S, 0 \in S, \A n \in Nat : n \in S => n + 1 \in S
    PROVE  \A n \in Nat : n \in S
<1> DEFINE T == {n \in Nat : n \notin S}
<1>1. SUFFICES ASSUME T # {} PROVE FALSE
  OBVIOUS
<1>2. PICK n \in T : \A m \in T : n <= m
  BY <1>1, Least
<1>3. n - 1 \in Nat /\ n - 1 \notin T
  BY <1>2
<1> QED  BY <1>2, <1>3

\* A way to get a value at a place from those at lower places only, or at higher ones.
LooksDown(F, D, V) ==
    /\ \E m \in Nat : D \subseteq 0 .. m
    /\ V # {}
    /\ F \in [[D -> V] \X D -> V]
    /\ \A g, h \in [D -> V], at \in D :
         (\A j \in D : j < at => g[j] = h[j]) => F[<<g, at>>] = F[<<h, at>>]
LooksUp(F, D, V) ==
    /\ \E m \in Nat : D \subseteq 0 .. m
    /\ V # {}
    /\ F \in [[D -> V] \X D -> V]
    /\ \A g, h \in [D -> V], at \in D :
         (\A j \in D : j > at => g[j] = h[j]) => F[<<g, at>>] = F[<<h, at>>]

\* The function that has the values it gets so.
Recursive(F, D, V) == \E g \in [D -> V] : \A at \in D : g[at] = F[<<g, at>>]

\* A function that is defined from its values at lower places exists.
LEMMA RecursionUp ==
    ASSUME NEW F, NEW D, NEW V, LooksDown(F, D, V)
    PROVE  Recursive(F, D, V)
<1>m. PICK m \in Nat : D \subseteq 0 .. m
  BY DEF LooksDown
<1>0. /\ V # {} /\ F \in [[D -> V] \X D -> V]
      /\ \A g, h \in [D -> V], at \in D :
           (\A j \in D : j < at => g[j] = h[j]) => F[<<g, at>>] = F[<<h, at>>]
  BY DEF LooksDown
<1> DEFINE S == {k \in Nat : \E g \in [D -> V] : \A at \in D : at < k => g[at] = F[<<g, at>>]}
<1>1. 0 \in S
  <2>1. PICK v \in V : TRUE
    BY <1>0
  <2> DEFINE g == [at \in D |-> v]
  <2>2. g \in [D -> V] /\ \A at \in D : ~(at < 0)
    BY <1>m
  <2> HIDE DEF g
  <2> QED  BY <2>2
<1>2. ASSUME NEW k \in Nat, k \in S PROVE k + 1 \in S
  <2>1. PICK g \in [D -> V] : \A at \in D : at < k => g[at] = F[<<g, at>>]
    BY <1>2
  <2>2. CASE k \notin D
    <3>1. \A at \in D : at < k + 1 => at < k
      BY <1>m, <2>2
    <3> QED  BY <2>1, <3>1
  <2>3. CASE k \in D
    <3> DEFINE h == [g EXCEPT ![k] = F[<<g, k>>]]
    <3>1. h \in [D -> V] /\ h[k] = F[<<g, k>>] /\ \A j \in D : j # k => h[j] = g[j]
      BY <1>0, <2>3
    <3> HIDE DEF h
    <3>2. ASSUME NEW at \in D, at < k + 1 PROVE h[at] = F[<<h, at>>]
      <4>1. \A j \in D : j < at => g[j] = h[j]
        <5>1. k \in Int /\ m \in Int /\ at \in Int /\ \A j \in D : j \in Int
          BY <1>m
        <5> QED  BY <3>1, <3>2, <5>1
      <4>2. F[<<g, at>>] = F[<<h, at>>]
        BY <2>1, <3>1, <4>1, <1>0
      <4>3. CASE at = k
        BY <3>1, <4>2, <4>3
      <4>4. CASE at # k
        <5>1. at \in Int /\ D \subseteq 0 .. m
          BY <1>m
        <5>2. g[at] = F[<<g, at>>]
          BY <2>1, <3>2, <4>4, <5>1
        <5> QED  BY <3>1, <4>2, <4>4, <5>2
      <4> QED  BY <4>3, <4>4
    <3> QED  BY <3>1, <3>2
  <2> QED  BY <2>2, <2>3
<1>3. m + 1 \in S
  <2> HIDE DEF S
  <2> QED  BY <1>1, <1>2, <1>m, Induction
<1>4. PICK g \in [D -> V] : \A at \in D : at < m + 1 => g[at] = F[<<g, at>>]
  BY <1>3
<1>5. \A at \in D : at < m + 1 /\ at > m - (m + 1)
  BY <1>m
<1> QED  BY <1>4, <1>5 DEF Recursive

\* And one that is defined from those at higher places.
LEMMA RecursionDown ==
    ASSUME NEW F, NEW D, NEW V, LooksUp(F, D, V)
    PROVE  Recursive(F, D, V)
<1>m. PICK m \in Nat : D \subseteq 0 .. m
  BY DEF LooksUp
<1>0. /\ V # {} /\ F \in [[D -> V] \X D -> V]
      /\ \A g, h \in [D -> V], at \in D :
           (\A j \in D : j > at => g[j] = h[j]) => F[<<g, at>>] = F[<<h, at>>]
  BY DEF LooksUp
<1> DEFINE S == {k \in Nat : \E g \in [D -> V] : \A at \in D : at > m - k => g[at] = F[<<g, at>>]}
<1>1. 0 \in S
  <2>1. PICK v \in V : TRUE
    BY <1>0
  <2> DEFINE g == [at \in D |-> v]
  <2>2. g \in [D -> V] /\ \A at \in D : ~(at > m - 0)
    <3>1. \A at \in D : at \in 0 .. m
      BY <1>m
    <3> QED  BY <3>1
  <2> HIDE DEF g
  <2> QED  BY <2>2
<1>2. ASSUME NEW k \in Nat, k \in S PROVE k + 1 \in S
  <2>1. PICK g \in [D -> V] : \A at \in D : at > m - k => g[at] = F[<<g, at>>]
    BY <1>2
  <2>2. CASE m - k \notin D
    <3>1. \A at \in D : at > m - (k + 1) => at > m - k
      BY <1>m, <2>2
    <3> QED  BY <2>1, <3>1
  <2>3. CASE m - k \in D
    <3> DEFINE h == [g EXCEPT ![m - k] = F[<<g, m - k>>]]
    <3>1. h \in [D -> V] /\ h[m - k] = F[<<g, m - k>>] /\ \A j \in D : j # m - k => h[j] = g[j]
      BY <1>0, <2>3
    <3> HIDE DEF h
    <3>2. ASSUME NEW at \in D, at > m - (k + 1) PROVE h[at] = F[<<h, at>>]
      <4>1. \A j \in D : j > at => g[j] = h[j]
        <5>1. k \in Int /\ m \in Int /\ at \in Int /\ \A j \in D : j \in Int
          BY <1>m
        <5> QED  BY <3>1, <3>2, <5>1
      <4>2. F[<<g, at>>] = F[<<h, at>>]
        BY <2>1, <3>1, <4>1, <1>0
      <4>3. CASE at = m - k
        BY <3>1, <4>2, <4>3
      <4>4. CASE at # m - k
        <5>1. at \in Int /\ D \subseteq 0 .. m
          BY <1>m
        <5>2. g[at] = F[<<g, at>>]
          BY <2>1, <3>2, <4>4, <5>1
        <5> QED  BY <3>1, <4>2, <4>4, <5>2
      <4> QED  BY <4>3, <4>4
    <3> QED  BY <3>1, <3>2
  <2> QED  BY <2>2, <2>3
<1>3. m + 1 \in S
  <2> HIDE DEF S
  <2> QED  BY <1>1, <1>2, <1>m, Induction
<1>4. PICK g \in [D -> V] : \A at \in D : at > m - (m + 1) => g[at] = F[<<g, at>>]
  BY <1>3
<1>5. \A at \in D : at < m + 1 /\ at > m - (m + 1)
  BY <1>m
<1> QED  BY <1>4, <1>5 DEF Recursive

-----------------------------------------------------------------------------
(* Sequences that are put together *)

\* What the first of some sequences come to.
Joins(C, s) ==
    /\ DOMAIN C = 0 .. Len(s)
    /\ C[0] = <<>>
    /\ \A i \in 1 .. Len(s) : C[i] = C[i - 1] \o s[i]

\* What FlattenSeq comes to, one sequence after the other.
LEMMA Flattened ==
    ASSUME NEW T, NEW s \in Seq(Seq(T))
    PROVE  \E C \in [0 .. Len(s) -> Seq(T)] : Joins(C, s) /\ Grpc!FlattenSeq(s) = C[Len(s)]
<1> DEFINE D == 1 .. Len(s)
           E(g, i) == IF i = 1 THEN s[i] ELSE g[i - 1] \o s[i]
           flatten == CHOOSE g : g = [i \in D |-> E(g, i)]
<1>0. Len(s) \in Nat /\ \A i \in D : s[i] \in Seq(T)
  OBVIOUS
<1>1. CASE Len(s) = 0
  <2>1. Grpc!FlattenSeq(s) = <<>>
    BY <1>1 DEF Grpc!FlattenSeq
  <2> DEFINE C == [i \in 0 .. 0 |-> <<>>]
  <2>2. C \in [0 .. Len(s) -> Seq(T)] /\ C[0] = <<>> /\ DOMAIN C = 0 .. Len(s)
    BY <1>1
  <2>3. Joins(C, s)
    BY <1>1, <2>2 DEF Joins
  <2> HIDE DEF C
  <2> QED  BY <1>1, <2>1, <2>2, <2>3 DEF Joins
<1>2. CASE Len(s) # 0
  <2>1. Grpc!FlattenSeq(s) = flatten[Len(s)]
    BY <1>2 DEF Grpc!FlattenSeq
  <2> DEFINE F == [p \in [D -> Seq(T)] \X D |-> E(p[1], p[2])]
  <2>2. F \in [[D -> Seq(T)] \X D -> Seq(T)]
    <3>1. ASSUME NEW g \in [D -> Seq(T)], NEW i \in D PROVE E(g, i) \in Seq(T)
      <4>1. s[i] \in Seq(T)
        OBVIOUS
      <4>2. CASE i # 1
        <5>1. i - 1 \in D
          BY <1>0, <4>2
        <5>2. g[i - 1] \in Seq(T)
          BY <5>1
        <5> QED  BY <4>1, <4>2, <5>2
      <4> QED  BY <4>1, <4>2
    <3> QED  BY <3>1
  <2>3. \A g \in [D -> Seq(T)], i \in D : F[<<g, i>>] = E(g, i)
    OBVIOUS
  <2>4. LooksDown(F, D, Seq(T))
    <3> HIDE DEF F
    <3>1. ASSUME NEW g \in [D -> Seq(T)], NEW h \in [D -> Seq(T)], NEW at \in D,
                 \A j \in D : j < at => g[j] = h[j]
          PROVE  F[<<g, at>>] = F[<<h, at>>]
      <4>1. E(g, at) = E(h, at)
        <5>1. CASE at # 1
          <6>1. at - 1 \in D /\ at - 1 < at
            BY <5>1
          <6> QED  BY <3>1, <5>1, <6>1
        <5> QED  BY <5>1
      <4> HIDE DEF E
      <4> QED  BY <2>3, <4>1
    <3>2. Seq(T) # {} /\ \E m \in Nat : D \subseteq 0 .. m
      <4>1. <<>> \in Seq(T) /\ D \subseteq 0 .. Len(s) /\ Len(s) \in Nat
        OBVIOUS
      <4> QED  BY <4>1
    <3> HIDE DEF D
    <3> QED  BY <2>2, <3>1, <3>2 DEF LooksDown
  <2>5. PICK g \in [D -> Seq(T)] : \A i \in D : g[i] = F[<<g, i>>]
    <3> HIDE DEF F, D
    <3> QED  BY <2>4, RecursionUp DEF Recursive
  <2>6. g = [i \in D |-> E(g, i)]
    <3> HIDE DEF F
    <3> QED  BY <2>3, <2>5
  <2>7. flatten = [i \in D |-> E(flatten, i)]
    <3> HIDE DEF E
    <3> QED  BY <2>6
  <2> HIDE DEF flatten
  <2> DEFINE C == [i \in 0 .. Len(s) |-> IF i = 0 THEN <<>> ELSE flatten[i]]
  <2>8. Joins(C, s) /\ C[Len(s)] = flatten[Len(s)]
    <3>1. ASSUME NEW i \in 1 .. Len(s) PROVE C[i] = C[i - 1] \o s[i]
      <4>0. i \in D /\ i \in 0 .. Len(s) /\ i # 0
        BY <1>0
      <4>1. C[i] = flatten[i] /\ flatten[i] = E(flatten, i)
        <5>1. C[i] = flatten[i]
          BY <4>0
        <5>2. flatten[i] = E(flatten, i)
          <6> HIDE DEF E
          <6> QED  BY <2>7, <4>0
        <5> QED  BY <5>1, <5>2
      <4>2. CASE i = 1
        <5>1. C[i - 1] = <<>> /\ <<>> \o s[i] = s[i]
          BY <1>0, <4>2
        <5> QED  BY <4>1, <4>2, <5>1
      <4>3. CASE i # 1
        <5>1. C[i - 1] = flatten[i - 1]
          BY <1>0, <4>3
        <5> QED  BY <4>1, <4>3, <5>1
      <4> QED  BY <4>2, <4>3
    <3>2. C[0] = <<>> /\ DOMAIN C = 0 .. Len(s) /\ C[Len(s)] = flatten[Len(s)]
      BY <1>0, <1>2
    <3> HIDE DEF C
    <3> QED  BY <3>1, <3>2 DEF Joins
  <2> HIDE DEF C
  <2>9. \A i \in 0 .. Len(s) : C[i] \in Seq(T)
    <3> DEFINE S == {i \in Nat : i <= Len(s) => C[i] \in Seq(T)}
    <3>1. 0 \in S
      <4>1. C[0] = <<>> /\ <<>> \in Seq(T)
        BY <2>8 DEF Joins
      <4> QED  BY <4>1
    <3>2. ASSUME NEW n \in Nat, n \in S PROVE n + 1 \in S
      <4>1. SUFFICES ASSUME n + 1 <= Len(s) PROVE C[n + 1] \in Seq(T)
        BY <3>2
      <4>2. C[n] \in Seq(T) /\ n + 1 \in 1 .. Len(s) /\ C[n + 1] = C[(n + 1) - 1] \o s[n + 1]
        <5>1. n + 1 \in 1 .. Len(s) /\ n <= Len(s)
          BY <1>0, <4>1
        <5>2. C[n + 1] = C[(n + 1) - 1] \o s[n + 1]
          BY <2>8, <5>1 DEF Joins
        <5> QED  BY <3>2, <5>1, <5>2
      <4>3. s[n + 1] \in Seq(T) /\ (n + 1) - 1 = n
        BY <1>0, <4>2
      <4> QED  BY <4>2, <4>3
    <3>3. \A n \in Nat : n \in S
      <4> HIDE DEF S
      <4> QED  BY <3>1, <3>2, Induction
    <3> QED  BY <1>0, <3>3
  <2>10. C \in [0 .. Len(s) -> Seq(T)]
    BY <2>8, <2>9 DEF Joins, C
  <2> QED  BY <2>1, <2>8, <2>10
<1> QED  BY <1>1, <1>2

-----------------------------------------------------------------------------
(* gRPC-Web: frames, and what unframe makes of a body (transport.py:80-103) *)

Begins(x, y) == Len(x) <= Len(y) /\ \A k \in 1 .. Len(x) : y[k] = x[k]

\* What the first ones come to is the beginning of what they all come to.
LEMMA Beginnings ==
    ASSUME NEW T, NEW s \in Seq(Seq(T)), NEW C \in [0 .. Len(s) -> Seq(T)], Joins(C, s),
           NEW i \in 0 .. Len(s), NEW j \in 0 .. Len(s), i <= j
    PROVE  Begins(C[i], C[j])
<1> DEFINE S == {d \in Nat : i + d <= Len(s) => Begins(C[i], C[i + d])}
<1>0. Len(s) \in Nat
  OBVIOUS
<1>1. 0 \in S
  <2>1. C[i] \in Seq(T) /\ i + 0 = i
    BY <1>0
  <2> QED  BY <2>1 DEF Begins
<1>2. ASSUME NEW d \in Nat, d \in S PROVE d + 1 \in S
  <2> SUFFICES ASSUME i + (d + 1) <= Len(s) PROVE Begins(C[i], C[i + (d + 1)])
    OBVIOUS
  <2>1. i + (d + 1) \in 1 .. Len(s) /\ i + d \in 0 .. Len(s) /\ (i + (d + 1)) - 1 = i + d
    BY <1>0
  <2>2. C[i + (d + 1)] = C[i + d] \o s[i + (d + 1)]
    BY <2>1 DEF Joins
  <2>3. C[i] \in Seq(T) /\ C[i + d] \in Seq(T) /\ s[i + (d + 1)] \in Seq(T)
    <3>1. \A n \in 1 .. Len(s) : s[n] \in Seq(T)
      OBVIOUS
    <3>2. \A n \in 0 .. Len(s) : C[n] \in Seq(T)
      OBVIOUS
    <3> QED  BY <2>1, <3>1, <3>2
  <2>4. Begins(C[i], C[i + d])
    BY <1>2, <2>1
  <2>5. ASSUME NEW x \in Seq(T), NEW y \in Seq(T), NEW z \in Seq(T), Begins(x, y)
        PROVE  Begins(x, y \o z)
    BY <2>5 DEF Begins
  <2> QED  BY <2>2, <2>3, <2>4, <2>5
<1>3. \A d \in Nat : d \in S
  <2> HIDE DEF S
  <2> QED  BY <1>1, <1>2, Induction
<1>4. j - i \in Nat /\ i + (j - i) = j /\ j <= Len(s)
  BY <1>0
<1>5. j - i \in S
  <2> HIDE DEF S
  <2> QED  BY <1>3, <1>4
<1> QED  BY <1>4, <1>5

\* Each of them is found behind those before it.
Follows(C, s, i) ==
    /\ Len(C[i]) = Len(C[i - 1]) + Len(s[i])
    /\ Len(C[i]) <= Len(C[Len(s)])
    /\ \A k \in 1 .. Len(s[i]) : C[Len(s)][Len(C[i - 1]) + k] = s[i][k]

\* Each of some sequences lies in what they all come to, behind those before it.
LEMMA Within ==
    ASSUME NEW T, NEW s \in Seq(Seq(T)), NEW C \in [0 .. Len(s) -> Seq(T)], Joins(C, s),
           NEW i \in 1 .. Len(s)
    PROVE  Follows(C, s, i)
<1>0. Len(s) \in Nat /\ i - 1 \in 0 .. Len(s) /\ i \in 0 .. Len(s) /\ Len(s) \in 0 .. Len(s) /\ i <= Len(s)
  OBVIOUS
<1>1. C[i] = C[i - 1] \o s[i]
  BY DEF Joins
<1>2. C[i - 1] \in Seq(T) /\ s[i] \in Seq(T) /\ C[i] \in Seq(T)
  <2>1. \A n \in 1 .. Len(s) : s[n] \in Seq(T)
    OBVIOUS
  <2>2. \A n \in 0 .. Len(s) : C[n] \in Seq(T)
    OBVIOUS
  <2> QED  BY <1>0, <2>1, <2>2
<1>3. Len(C[i]) <= Len(C[Len(s)]) /\ \A k \in 1 .. Len(C[i]) : C[Len(s)][k] = C[i][k]
  <2>1. Begins(C[i], C[Len(s)])
    BY <1>0, Beginnings
  <2> QED  BY <2>1 DEF Begins
<1>4. Len(C[i]) = Len(C[i - 1]) + Len(s[i])
  BY <1>1, <1>2
<1>5. ASSUME NEW k \in 1 .. Len(s[i]) PROVE C[Len(s)][Len(C[i - 1]) + k] = s[i][k]
  <2> DEFINE x == C[i - 1]
             y == s[i]
  <2>0. x \in Seq(T) /\ y \in Seq(T) /\ C[i] = x \o y /\ Len(C[i]) = Len(x) + Len(y) /\ k \in 1 .. Len(y)
    BY <1>1, <1>2, <1>4
  <2> HIDE DEF x, y
  <2>1. Len(x) + k \in 1 .. Len(C[i])
    BY <2>0
  <2>2. C[i][Len(x) + k] = y[k]
    BY <2>0
  <2> USE DEF x, y
  <2> QED  BY <1>3, <2>1, <2>2
<1> QED  BY <1>3, <1>4, <1>5 DEF Follows

-----------------------------------------------------------------------------
(* Frames of a call *)

\* Two sequences put together.
InTurn(x, y, T) ==
    /\ x \o y \in Seq(T)
    /\ Len(x \o y) = Len(x) + Len(y)
    /\ \A k \in 1 .. Len(x) : (x \o y)[k] = x[k]
    /\ \A k \in 1 .. Len(y) : (x \o y)[Len(x) + k] = y[k]

\* What two sequences come to.
LEMMA Both ==
    ASSUME NEW T, NEW x \in Seq(T), NEW y \in Seq(T)
    PROVE  InTurn(x, y, T)
  BY DEF InTurn

\* A part of a sequence has its members.
LEMMA Part ==
    ASSUME NEW T, NEW s \in Seq(T), NEW a \in Int, NEW b \in Int, a >= 1, b <= Len(s)
    PROVE  /\ SubSeq(s, a, b) \in Seq(T)
           /\ \A i \in DOMAIN SubSeq(s, a, b) : SubSeq(s, a, b)[i] \in T
<1>1. \A i \in a .. b : s[i] \in T
  OBVIOUS
<1> QED  BY <1>1

IsFrame(f, flags, chunk) ==
    /\ f \in Seq(Nat)
    /\ Len(f) = 5 + Len(chunk)
    /\ f[1] = flags /\ f[5] = Len(chunk)
    /\ \A k \in 1 .. Len(chunk) : f[5 + k] = chunk[k]
    /\ SubSeq(f, 6, Len(f)) = chunk

\* A frame: its flags, the length of its bytes, its bytes.
LEMMA FrameIs ==
    ASSUME NEW flags \in Nat, NEW chunk \in Seq(Nat)
    PROVE  IsFrame(Grpc!Frame(flags, chunk), flags, chunk)
<1> DEFINE h == <<flags, 0, 0, 0, Len(chunk)>>
           f == h \o chunk
<1>1. h \in Seq(Nat) /\ Len(h) = 5 /\ h[1] = flags /\ h[5] = Len(chunk) /\ Len(chunk) \in Nat
  OBVIOUS
<1> HIDE DEF h
<1>2. f \in Seq(Nat) /\ Len(f) = 5 + Len(chunk) /\ f[1] = flags /\ f[5] = Len(chunk)
  <2>1. /\ f \in Seq(Nat) /\ Len(f) = Len(h) + Len(chunk)
        /\ \A k \in 1 .. Len(h) : f[k] = h[k]
    BY <1>1, Both DEF InTurn
  <2> HIDE DEF f
  <2> QED  BY <1>1, <2>1
<1>3. \A k \in 1 .. Len(chunk) : f[5 + k] = chunk[k]
  <2>0. h \in Seq(Nat) /\ chunk \in Seq(Nat)
    BY <1>1
  <2>1. \A k \in 1 .. Len(chunk) : f[Len(h) + k] = chunk[k]
    BY <2>0, Both DEF InTurn
  <2> QED  BY <1>1, <2>1
<1>4. SubSeq(f, 6, Len(f)) = chunk
  BY <1>1, <1>2, <1>3
<1>5. f = Grpc!Frame(flags, chunk)
  BY DEF Grpc!Frame, h
<1> HIDE DEF f
<1> QED  BY <1>2, <1>3, <1>4, <1>5 DEF IsFrame

\* What is told once a frame of trailers is read before the rest.
StatusesOf(chunk) == {c - 100 : c \in {chunk[i] : i \in DOMAIN chunk} \ 0 .. 99}
LastStatus(known, statuses) ==
    IF known = Grpc!NO_STATUS /\ statuses # {} THEN CHOOSE s \in statuses : TRUE ELSE known
Trailed(rest, chunk) == [rest EXCEPT !.trailers = LastStatus(@, StatusesOf(chunk))]

\* What unframe makes of what is left from a place on, from what it makes of less.
Unframed(body, from, at) ==
    LET end == at + 4 + body[at + 4]
        chunk == SubSeq(body, at + 5, end)
    IN IF at = Len(body) + 1 THEN {[data |-> <<>>, trailers |-> Grpc!NO_STATUS]}
       ELSE IF at + 4 > Len(body) \/ end > Len(body) \/ body[at] = Grpc!FLAG_COMPRESSED THEN {}
       ELSE IF body[at] = Grpc!FLAG_TRAILERS THEN {Trailed(rest, chunk) : rest \in from[end + 1]}
       ELSE {[rest EXCEPT !.data = chunk \o @] : rest \in from[end + 1]}

Told == [data : Seq(Nat), trailers : Int]

\* Trailers that are read leave what is told well typed.
LEMMA TrailedIs ==
    ASSUME NEW rest \in Told, NEW chunk \in Seq(Nat)
    PROVE  Trailed(rest, chunk) \in Told
<1> DEFINE cells == {chunk[i] : i \in DOMAIN chunk} \ 0 .. 99
           t == LastStatus(rest.trailers, StatusesOf(chunk))
<1>0. \A i \in DOMAIN chunk : chunk[i] \in Nat
  OBVIOUS
<1>1. \A c \in cells : c \in Nat
  BY <1>0
<1>2. StatusesOf(chunk) \subseteq Int
  <2>1. StatusesOf(chunk) = {c - 100 : c \in cells}
    BY DEF StatusesOf
  <2> HIDE DEF cells
  <2> QED  BY <1>1, <2>1
<1>3. t \in Int
  BY <1>2 DEF Told, LastStatus
<1>4. [rest EXCEPT !.trailers = t] \in Told
  <2> HIDE DEF t
  <2> QED  BY <1>3 DEF Told
<1> QED  BY <1>4 DEF Trailed

\* So does a step of unframe.
LEMMA UnframedIs ==
    ASSUME NEW body \in Seq(Nat), NEW from \in [1 .. Len(body) + 1 -> SUBSET Told],
           NEW at \in 1 .. Len(body) + 1
    PROVE  Unframed(body, from, at) \subseteq Told
<1> DEFINE end == at + 4 + body[at + 4]
           chunk == SubSeq(body, at + 5, end)
<1>1. CASE at = Len(body) + 1
  BY <1>1 DEF Unframed, Told, Grpc!NO_STATUS
<1>2. CASE at # Len(body) + 1 /\ (at + 4 > Len(body) \/ end > Len(body) \/ body[at] = Grpc!FLAG_COMPRESSED)
  BY <1>2 DEF Unframed
<1>3. CASE at # Len(body) + 1 /\ at + 4 <= Len(body) /\ end <= Len(body) /\ body[at] # Grpc!FLAG_COMPRESSED
  <2>1. body[at + 4] \in Nat
    BY <1>3
  <2>2. chunk \in Seq(Nat) /\ \A i \in DOMAIN chunk : chunk[i] \in Nat
    <3>1. at + 5 \in Int /\ end \in Int /\ at + 5 >= 1 /\ end <= Len(body)
      BY <1>3, <2>1
    <3> HIDE DEF end
    <3> QED  BY <3>1, Part
  <2>3. end + 1 \in 1 .. Len(body) + 1
    BY <1>3, <2>1
  <2>4. from[end + 1] \subseteq Told
    BY <2>3
  <2>5. ASSUME NEW rest \in Told PROVE Trailed(rest, chunk) \in Told
    BY <2>2, TrailedIs
  <2>6. ASSUME NEW rest \in Told PROVE [rest EXCEPT !.data = chunk \o @] \in Told
    <3> HIDE DEF chunk
    <3> DEFINE d == chunk \o rest.data
    <3>1. d \in Seq(Nat)
      BY <2>2, <2>6 DEF Told
    <3> HIDE DEF d
    <3>2. [rest EXCEPT !.data = d] \in Told
      BY <2>6, <3>1 DEF Told
    <3> QED  BY <3>2 DEF d
  <2>7. ~(at + 4 > Len(body) \/ end > Len(body) \/ body[at] = Grpc!FLAG_COMPRESSED)
    BY <1>3, <2>1
  <2> HIDE DEF chunk, end
  <2>8. CASE body[at] = Grpc!FLAG_TRAILERS
    <3>1. Unframed(body, from, at) = {Trailed(rest, chunk) : rest \in from[end + 1]}
      BY <1>3, <2>7, <2>8 DEF Unframed, chunk, end
    <3> QED  BY <2>4, <2>5, <3>1
  <2>9. CASE body[at] # Grpc!FLAG_TRAILERS
    <3>1. Unframed(body, from, at) = {[rest EXCEPT !.data = chunk \o @] : rest \in from[end + 1]}
      BY <1>3, <2>7, <2>9 DEF Unframed, chunk, end
    <3> QED  BY <2>4, <2>6, <3>1
  <2> QED  BY <2>8, <2>9
<1> HIDE DEF end
<1>4. body[at + 4] \in Nat \/ at + 4 > Len(body)
  OBVIOUS
<1>5. at + 4 > Len(body) \/ end > Len(body) \/ end <= Len(body)
  BY <1>4 DEF end
<1> QED  BY <1>1, <1>2, <1>3, <1>5

\* unframe, from each place of a body on.
LEMMA UnframeFrom ==
    ASSUME NEW body \in Seq(Nat)
    PROVE  \E from :
             /\ Grpc!Unframe(body) = from[1]
             /\ \A at \in 1 .. Len(body) + 1 : from[at] = Unframed(body, from, at)
<1> DEFINE D == 1 .. Len(body) + 1
           V == SUBSET Told
           F == [p \in [D -> V] \X D |-> Unframed(body, p[1], p[2])]
           from == CHOOSE g : g = [at \in D |-> Unframed(body, g, at)]
<1>1. Grpc!Unframe(body) = from[1]
  BY DEF Grpc!Unframe, Unframed, Trailed, StatusesOf, LastStatus
<1>2. F \in [[D -> V] \X D -> V]
  BY UnframedIs
<1>3. \A g \in [D -> V], at \in D : F[<<g, at>>] = Unframed(body, g, at)
  OBVIOUS
<1>4. LooksUp(F, D, V)
  <2> HIDE DEF F
  <2>1. V # {} /\ \E m \in Nat : D \subseteq 0 .. m
    <3>1. D \subseteq 0 .. Len(body) + 1 /\ Len(body) + 1 \in Nat
      OBVIOUS
    <3> QED  BY <3>1
  <2>2. ASSUME NEW g \in [D -> V], NEW h \in [D -> V], NEW at \in D,
               \A j \in D : j > at => g[j] = h[j]
        PROVE  F[<<g, at>>] = F[<<h, at>>]
    <3> DEFINE end == at + 4 + body[at + 4]
    <3>1. CASE ~(at + 4 > Len(body) \/ end > Len(body))
      <4>1. body[at + 4] \in Nat
        BY <3>1
      <4>2. end + 1 \in D /\ end + 1 > at
        BY <3>1, <4>1
      <4>3. g[end + 1] = h[end + 1]
        BY <2>2, <4>2
      <4>4. Unframed(body, g, at) = Unframed(body, h, at)
        BY <4>3 DEF Unframed
      <4> QED  BY <1>3, <4>4
    <3>2. CASE at + 4 > Len(body) \/ end > Len(body)
      <4>1. Unframed(body, g, at) = Unframed(body, h, at)
        BY <3>2 DEF Unframed
      <4> QED  BY <1>3, <4>1
    <3> QED  BY <3>1, <3>2
  <2> HIDE DEF D, V
  <2> QED  BY <1>2, <2>1, <2>2 DEF LooksUp
<1>5. PICK g \in [D -> V] : \A at \in D : g[at] = F[<<g, at>>]
  <2> HIDE DEF F, D, V
  <2> QED  BY <1>4, RecursionDown DEF Recursive
<1>6. g = [at \in D |-> Unframed(body, g, at)]
  <2> HIDE DEF F
  <2> QED  BY <1>3, <1>5
<1>7. from = [at \in D |-> Unframed(body, from, at)]
  BY <1>6
<1>8. \A at \in D : from[at] = Unframed(body, from, at)
  <2> HIDE DEF from
  <2> QED  BY <1>7
<1> QED  BY <1>1, <1>8

\* A part of a sequence that is known member by member.
LEMMA Cutting ==
    ASSUME NEW T, NEW s \in Seq(T), NEW x \in Seq(T), NEW a \in Nat, NEW b \in Nat,
           b = a + Len(x), b <= Len(s), \A k \in 1 .. Len(x) : s[a + k] = x[k]
    PROVE  SubSeq(s, a + 1, b) = x
<1>1. Len(SubSeq(s, a + 1, b)) = Len(x) /\ \A k \in 1 .. Len(x) : SubSeq(s, a + 1, b)[k] = s[a + k]
  OBVIOUS
<1>2. SubSeq(s, a + 1, b) \in Seq(T)
  <2>1. a + 1 >= 1 /\ a + 1 \in Int
    OBVIOUS
  <2> QED  BY <2>1, Part
<1> QED  BY <1>1, <1>2

\* What unframe makes of a body from one of its frames on, where the body is cut or not.
ReadOn(C, i, body, from, flags, chunk) ==
    Unframed(body, from, Len(C[i - 1]) + 1) =
      IF Len(C[i]) > Len(body) \/ flags = Grpc!FLAG_COMPRESSED THEN {}
      ELSE IF flags = Grpc!FLAG_TRAILERS THEN {Trailed(rest, chunk) : rest \in from[Len(C[i]) + 1]}
      ELSE {[rest EXCEPT !.data = chunk \o @] : rest \in from[Len(C[i]) + 1]}

\* With a frame there whole, unframe goes on behind it; with one that is cut it ends.
LEMMA NextFrame ==
    ASSUME NEW fs \in Seq(Seq(Nat)), NEW C \in [0 .. Len(fs) -> Seq(Nat)], Joins(C, fs),
           NEW body \in Seq(Nat), Begins(body, C[Len(fs)]),
           NEW i \in 1 .. Len(fs), NEW flags \in Nat, NEW chunk \in Seq(Nat),
           fs[i] = Grpc!Frame(flags, chunk), Len(C[i - 1]) < Len(body),
           NEW from
    PROVE  ReadOn(C, i, body, from, flags, chunk)
<1> DEFINE f == fs[i]
           b == C[Len(fs)]
           p == Len(C[i - 1])
           q == Len(C[i])
           l == Len(body)
           m == Len(chunk)
           at == p + 1
           end == at + 4 + body[at + 4]
<1>1. /\ f \in Seq(Nat) /\ Len(f) = 5 + m /\ f[1] = flags /\ f[5] = m
      /\ \A k \in 1 .. m : f[5 + k] = chunk[k]
  <2>1. IsFrame(f, flags, chunk)
    BY FrameIs
  <2> QED  BY <2>1 DEF IsFrame
<1>2. /\ q = p + Len(f) /\ q <= Len(b)
      /\ \A k \in 1 .. Len(f) : b[p + k] = f[k]
  <2>1. Follows(C, fs, i)
    BY Within
  <2> QED  BY <2>1 DEF Follows
<1>3. p \in Nat /\ q \in Nat /\ l \in Nat /\ m \in Nat /\ Len(b) \in Nat
  <2>1. i - 1 \in 0 .. Len(fs) /\ i \in 0 .. Len(fs) /\ Len(fs) \in 0 .. Len(fs)
    OBVIOUS
  <2>2. C[i - 1] \in Seq(Nat) /\ C[i] \in Seq(Nat) /\ C[Len(fs)] \in Seq(Nat)
    <3>1. \A k \in 0 .. Len(fs) : C[k] \in Seq(Nat)
      OBVIOUS
    <3> QED  BY <2>1, <3>1
  <2>3. \A s \in Seq(Nat) : Len(s) \in Nat
    OBVIOUS
  <2> QED  BY Zenon, <2>2, <2>3
<1>4. p < l /\ l <= Len(b) /\ \A k \in 1 .. l : body[k] = b[k]
  BY DEF Begins
<1>5. body \in Seq(Nat) /\ l = Len(body) /\ chunk \in Seq(Nat) /\ m = Len(chunk) /\ p = Len(C[i - 1]) /\ q = Len(C[i])
  OBVIOUS
<1> HIDE DEF f, b, p, q, l, m
<1>6. \A k \in 1 .. 5 + m : p + k <= l => body[p + k] = f[k]
  <2> SUFFICES ASSUME NEW k \in 1 .. 5 + m, p + k <= l PROVE body[p + k] = f[k]
    OBVIOUS
  <2>1. p + k \in 1 .. l /\ k \in 1 .. Len(f)
    BY <1>1, <1>3
  <2> QED  BY <1>2, <1>4, <2>1
<1>7. at \in Nat /\ at # l + 1 /\ q = at + 4 + m
  BY <1>1, <1>2, <1>3, <1>4
<1>8. at + 4 <= l => body[at + 4] = m
  <2>1. 5 \in 1 .. 5 + m /\ p + 5 = at + 4
    BY <1>3
  <2> QED  BY <1>1, <1>6, <2>1
<1>9. CASE q > l
  <2>1. CASE at + 4 > l
    BY <1>5, <1>7, <1>9, <2>1 DEF Unframed, ReadOn
  <2>2. CASE at + 4 <= l
    <3>1. end > l
      BY <1>7, <1>8, <1>9, <2>2
    <3> QED  BY <1>5, <1>7, <1>9, <3>1 DEF Unframed, ReadOn
  <2> QED  BY <1>3, <2>1, <2>2
<1>10. CASE q <= l
  <2>0. at + 4 <= l /\ at <= l /\ ~(q > l) /\ at + 4 \in Nat
    BY <1>3, <1>7, <1>10
  <2>1. end = q
    BY <1>7, <1>8, <2>0
  <2>2. body[at] = flags
    <3>1. 1 \in 1 .. 5 + m
      BY <1>3
    <3> QED  BY <1>1, <1>6, <2>0, <3>1
  <2>3. SubSeq(body, at + 5, end) = chunk
    <3> DEFINE a == at + 4
    <3>1. ASSUME NEW k \in 1 .. m PROVE body[a + k] = chunk[k]
      <4>1. 5 + k \in 1 .. 5 + m /\ p + (5 + k) = a + k /\ p + (5 + k) <= l
        BY <1>3, <1>7, <1>10
      <4> QED  BY <1>1, <1>6, <4>1
    <3> HIDE DEF end
    <3>2. a \in Nat /\ q = a + m /\ at + 5 = a + 1
      <4>1. a \in Nat /\ q = a + m
        BY <1>7, SMTT(30)
      <4>2. at \in Nat
        BY <1>7
      <4> HIDE DEF at
      <4>3. at + 5 = a + 1
        BY <4>2
      <4> QED  BY <4>1, <4>3
    <3> HIDE DEF a, at
    <3>3. SubSeq(body, a + 1, q) = chunk
      BY <1>3, <1>5, <1>10, <3>1, <3>2, Cutting
    <3> QED  BY <2>1, <3>2, <3>3
  <2>4. ~(at + 4 > l \/ end > l)
    BY <1>3, <1>10, <2>0, <2>1
  <2> DEFINE next == from[end + 1]
  <2> HIDE DEF at, end
  <2>5. Unframed(body, from, at) =
          IF flags = Grpc!FLAG_COMPRESSED THEN {}
          ELSE IF flags = Grpc!FLAG_TRAILERS
            THEN {Trailed(rest, chunk) : rest \in next}
          ELSE {[rest EXCEPT !.data = chunk \o @] : rest \in next}
    <3>1. CASE flags = Grpc!FLAG_COMPRESSED
      BY <1>5, <1>7, <2>2, <2>4, <3>1 DEF Unframed, end
    <3>2. CASE flags # Grpc!FLAG_COMPRESSED /\ flags = Grpc!FLAG_TRAILERS
      BY <1>5, <1>7, <2>2, <2>3, <2>4, <3>2 DEF Unframed, end
    <3>3. CASE flags # Grpc!FLAG_COMPRESSED /\ flags # Grpc!FLAG_TRAILERS
      BY <1>5, <1>7, <2>2, <2>3, <2>4, <3>3 DEF Unframed, end
    <3> QED  BY <3>1, <3>2, <3>3
  <2>6. next = from[q + 1]
    BY <2>1
  <2> HIDE DEF next
  <2> QED  BY <1>5, <2>0, <2>5, <2>6 DEF at, ReadOn
<1> QED  BY <1>3, <1>9, <1>10

Messages == Seq([flags : {0, 1}, chunk : Seq(Nat)])
Frames(message, status) == Grpc!Framed(message) \o <<Grpc!Trailers(status)>>
TrailersChunk(status) == <<7>> \o IF status = Grpc!NO_STATUS THEN <<>> ELSE <<100 + status>>

\* Statuses are numbers.
LEMMA StatusesAre == Grpc!Statuses \subseteq Nat
  BY DEF Grpc!Statuses, Grpc!GRPC_OK, Grpc!GRPC_DEADLINE_EXCEEDED, Grpc!GRPC_UNAVAILABLE,
         Grpc!GRPC_UNAUTHENTICATED, Grpc!BAD_STATUS, Grpc!NO_STATUS

\* The trailers of a status tell it.
LEMMA TrailersAre ==
    ASSUME NEW status \in Grpc!Statuses
    PROVE  /\ TrailersChunk(status) \in Seq(Nat)
           /\ Trailed([data |-> <<>>, trailers |-> Grpc!NO_STATUS], TrailersChunk(status))
                = [data |-> <<>>, trailers |-> status]
<1>1. status \in Nat
  BY StatusesAre
<1> DEFINE chunk == TrailersChunk(status)
           cells == {chunk[i] : i \in DOMAIN chunk} \ 0 .. 99
<1>2. StatusesOf(chunk) = {c - 100 : c \in cells}
  BY DEF StatusesOf
<1>3. chunk \in Seq(Nat) /\ LastStatus(Grpc!NO_STATUS, StatusesOf(chunk)) = status
  <2>1. CASE status = Grpc!NO_STATUS
    <3>1. chunk = <<7>>
      BY <2>1 DEF TrailersChunk
    <3>2. cells = {}
      BY <3>1
    <3> HIDE DEF cells
    <3>3. StatusesOf(chunk) = {}
      BY <1>2, <3>2
    <3> QED  BY <2>1, <3>1, <3>3 DEF LastStatus
  <2>2. CASE status # Grpc!NO_STATUS
    <3>1. chunk = <<7>> \o <<100 + status>>
      BY <2>2 DEF TrailersChunk
    <3>2. chunk \in Seq(Nat) /\ DOMAIN chunk = {1, 2} /\ chunk[1] = 7 /\ chunk[2] = 100 + status
      <4>1. 100 + status \in Nat
        BY <1>1
      <4> HIDE DEF chunk
      <4> QED  BY <3>1, <4>1
    <3>3. cells = {100 + status}
      <4> HIDE DEF chunk
      <4> DEFINE all == {chunk[i] : i \in DOMAIN chunk}
      <4>1. all = {7, 100 + status}
        BY <3>2
      <4> HIDE DEF all
      <4>2. all \ 0 .. 99 = {100 + status}
        BY <1>1, <4>1
      <4> QED  BY <4>2 DEF all
    <3> HIDE DEF cells
    <3>4. StatusesOf(chunk) = {status}
      BY <1>1, <1>2, <3>3
    <3> QED  BY <3>2, <3>4 DEF LastStatus
  <2> QED  BY <2>1, <2>2
<1> HIDE DEF chunk, cells
<1>4. Trailed([data |-> <<>>, trailers |-> Grpc!NO_STATUS], chunk)
        = [data |-> <<>>, trailers |-> LastStatus(Grpc!NO_STATUS, StatusesOf(chunk))]
  BY DEF Trailed
<1> QED  BY <1>3, <1>4 DEF chunk

\* The frames of a message, and the one with its trailers.
LEMMA FramesAre ==
    ASSUME NEW message \in Messages, NEW status \in Grpc!Statuses
    PROVE  LET fs == Frames(message, status)
           IN /\ fs \in Seq(Seq(Nat)) /\ Len(fs) = Len(message) + 1
              /\ \A i \in 1 .. Len(message) :
                   /\ message[i].flags \in {0, 1} /\ message[i].chunk \in Seq(Nat)
                   /\ fs[i] = Grpc!Frame(message[i].flags, message[i].chunk)
              /\ fs[Len(fs)] = Grpc!Frame(Grpc!FLAG_TRAILERS, TrailersChunk(status))
<1> DEFINE n == Len(message)
           x == Grpc!Framed(message)
           y == <<Grpc!Trailers(status)>>
<1>1. \A i \in 1 .. n : message[i] \in [flags : {0, 1}, chunk : Seq(Nat)]
  <2> DEFINE R == [flags : {0, 1}, chunk : Seq(Nat)]
  <2>1. message \in Seq(R)
    BY DEF Messages
  <2> HIDE DEF R
  <2>2. \A i \in 1 .. n : message[i] \in R
    BY <2>1
  <2> QED  BY <2>2 DEF R
<1>2. n \in Nat /\ DOMAIN message = 1 .. n
  BY DEF Messages
<1>3. ASSUME NEW i \in 1 .. n
      PROVE  /\ message[i].flags \in {0, 1} /\ message[i].chunk \in Seq(Nat)
             /\ Grpc!Frame(message[i].flags, message[i].chunk) \in Seq(Nat)
  <2>1. message[i].flags \in {0, 1} /\ message[i].flags \in Nat /\ message[i].chunk \in Seq(Nat)
    BY <1>1
  <2>2. IsFrame(Grpc!Frame(message[i].flags, message[i].chunk), message[i].flags, message[i].chunk)
    BY <2>1, FrameIs
  <2> QED  BY <2>1, <2>2 DEF IsFrame
<1>4. x = [i \in 1 .. n |-> Grpc!Frame(message[i].flags, message[i].chunk)]
  BY <1>2 DEF Grpc!Framed
<1>5. x \in Seq(Seq(Nat)) /\ Len(x) = n /\ \A i \in 1 .. n : x[i] = Grpc!Frame(message[i].flags, message[i].chunk)
  <2> DEFINE F(i) == Grpc!Frame(message[i].flags, message[i].chunk)
  <2>1. \A i \in 1 .. n : F(i) \in Seq(Nat)
    BY <1>3
  <2> HIDE DEF x, F, n
  <2>2. x = [i \in 1 .. n |-> F(i)]
    BY <1>4 DEF F
  <2> QED  BY <1>2, <2>1, <2>2 DEF F
<1>6. Grpc!Trailers(status) = Grpc!Frame(Grpc!FLAG_TRAILERS, TrailersChunk(status))
  BY DEF Grpc!Trailers, TrailersChunk
<1>7. y \in Seq(Seq(Nat)) /\ Len(y) = 1 /\ y[1] = Grpc!Frame(Grpc!FLAG_TRAILERS, TrailersChunk(status))
  <2>1. TrailersChunk(status) \in Seq(Nat) /\ Grpc!FLAG_TRAILERS \in Nat
    BY TrailersAre DEF Grpc!FLAG_TRAILERS
  <2>2. IsFrame(Grpc!Frame(Grpc!FLAG_TRAILERS, TrailersChunk(status)), Grpc!FLAG_TRAILERS, TrailersChunk(status))
    BY <2>1, FrameIs
  <2> QED  BY <1>6, <2>2 DEF IsFrame
<1> HIDE DEF x, y, n
<1>8. x \o y \in Seq(Seq(Nat)) /\ Len(x \o y) = n + 1 /\ (\A i \in 1 .. n : (x \o y)[i] = x[i]) /\ (x \o y)[n + 1] = y[1]
  <2>1. /\ x \o y \in Seq(Seq(Nat)) /\ Len(x \o y) = Len(x) + Len(y)
        /\ \A i \in 1 .. Len(x) : (x \o y)[i] = x[i]
        /\ \A i \in 1 .. Len(y) : (x \o y)[Len(x) + i] = y[i]
    <3>1. InTurn(x, y, Seq(Nat))
      BY <1>5, <1>7, Both
    <3> QED  BY <3>1 DEF InTurn
  <2> QED  BY <1>2, <1>5, <1>7, <2>1
<1>9. x \o y = Frames(message, status)
  BY DEF x, y, Frames
<1> QED  BY <1>3, <1>5, <1>7, <1>8, <1>9 DEF n

\* What a call's frames come to, one after the other.
Answered(message, status, C) ==
    /\ C \in [0 .. Len(message) + 1 -> Seq(Nat)]
    /\ Joins(C, Frames(message, status))

Lost == {u \in Told : u.trailers = Grpc!NO_STATUS}

\* Bytes before a body that tells no status make none that does.
LEMMA DataKept ==
    ASSUME NEW chunk \in Seq(Nat), NEW z \in SUBSET Lost
    PROVE  {[rest EXCEPT !.data = chunk \o @] : rest \in z} \subseteq Lost
<1> SUFFICES ASSUME NEW rest \in Lost PROVE [rest EXCEPT !.data = chunk \o @] \in Lost
  OBVIOUS
<1> DEFINE d == chunk \o rest.data
<1>1. d \in Seq(Nat)
  BY DEF Lost, Told
<1> HIDE DEF d
<1>2. [rest EXCEPT !.data = d] \in Lost
  BY <1>1 DEF Lost, Told
<1> QED  BY <1>2 DEF d

\* A body that is cut tells no status in its trailers.
LEMMA CutShort ==
    ASSUME NEW message \in Messages, NEW status \in Grpc!Statuses,
           NEW C, Answered(message, status, C),
           NEW body \in Seq(Nat), Begins(body, C[Len(message) + 1]),
           Len(body) < Len(C[Len(message) + 1])
    PROVE  Grpc!Unframe(body) \subseteq Lost
<1> DEFINE n == Len(message) + 1
           fs == Frames(message, status)
           l == Len(body)
           Good(from, i) == Len(C[i]) <= l => from[Len(C[i]) + 1] \subseteq Lost
<1>0. /\ n \in Nat /\ n >= 1 /\ l \in Nat /\ fs \in Seq(Seq(Nat)) /\ Len(fs) = n
      /\ C \in [0 .. Len(fs) -> Seq(Nat)] /\ Joins(C, fs)
      /\ \A i \in 1 .. n - 1 :
           /\ message[i].flags \in {0, 1} /\ message[i].chunk \in Seq(Nat)
           /\ fs[i] = Grpc!Frame(message[i].flags, message[i].chunk)
      /\ fs[n] = Grpc!Frame(Grpc!FLAG_TRAILERS, TrailersChunk(status))
  <2>1. Len(message) \in Nat
    BY DEF Messages
  <2> QED  BY <2>1, FramesAre DEF Answered
<1>1. \A i \in 0 .. n : Len(C[i]) \in Nat
  <2>1. \A i \in 0 .. Len(fs) : C[i] \in Seq(Nat)
    BY <1>0
  <2> QED  BY <1>0, <2>1
<1>2. PICK from : /\ Grpc!Unframe(body) = from[1]
                  /\ \A at \in 1 .. l + 1 : from[at] = Unframed(body, from, at)
  BY UnframeFrom
<1> HIDE DEF n, fs, l
<1> DEFINE S == {d \in Nat : d <= n => Good(from, n - d)}
<1>3. 0 \in S
  BY <1>0, <1>1 DEF l, n
<1>4. ASSUME NEW d \in Nat, d \in S PROVE d + 1 \in S
  <2> SUFFICES ASSUME d + 1 <= n PROVE Good(from, n - (d + 1))
    OBVIOUS
  <2> DEFINE i == n - d
             at == Len(C[i - 1]) + 1
  <2>1. i \in 1 .. n /\ i - 1 = n - (d + 1) /\ i - 1 \in 0 .. n /\ i \in 0 .. n /\ Good(from, i)
    BY <1>0, <1>4
  <2> SUFFICES ASSUME Len(C[i - 1]) <= l PROVE from[at] \subseteq Lost
    BY <2>1
  <2>2. Len(C[i - 1]) \in Nat /\ Len(C[i]) \in Nat
    BY <1>1, <2>1
  <2>3. from[at] = Unframed(body, from, at)
    BY <1>0, <1>2, <2>2
  <2>4. CASE Len(C[i - 1]) = l
    <3>1. Unframed(body, from, at) = {[data |-> <<>>, trailers |-> Grpc!NO_STATUS]}
      BY <2>4 DEF Unframed, l
    <3>2. [data |-> <<>>, trailers |-> Grpc!NO_STATUS] \in Lost
      BY DEF Lost, Told, Grpc!NO_STATUS
    <3> QED  BY <2>3, <3>1, <3>2
  <2>5. CASE Len(C[i - 1]) < l
    <3> DEFINE flags == IF i = n THEN Grpc!FLAG_TRAILERS ELSE message[i].flags
               chunk == IF i = n THEN TrailersChunk(status) ELSE message[i].chunk
    <3>1. flags \in Nat /\ chunk \in Seq(Nat) /\ fs[i] = Grpc!Frame(flags, chunk) /\ (i # n => flags \in {0, 1})
      <4>1. CASE i = n
        BY <1>0, <4>1, TrailersAre DEF Grpc!FLAG_TRAILERS
      <4>2. CASE i # n
        <5>1. i \in 1 .. n - 1
          BY <1>0, <2>1, <4>2
        <5>2. /\ message[i].flags \in {0, 1} /\ message[i].chunk \in Seq(Nat)
              /\ fs[i] = Grpc!Frame(message[i].flags, message[i].chunk)
          BY <1>0, <5>1
        <5>3. flags = message[i].flags /\ chunk = message[i].chunk
          BY <4>2
        <5> HIDE DEF flags, chunk, i
        <5> QED  BY <5>2, <5>3
      <4> QED  BY <4>1, <4>2
    <3>2. i \in 1 .. Len(fs) /\ Begins(body, C[Len(fs)]) /\ Len(C[i - 1]) < Len(body)
      BY <1>0, <2>1, <2>5 DEF n, l
    <3> HIDE DEF flags, chunk, i, at
    <3>3. ReadOn(C, i, body, from, flags, chunk)
      BY <1>0, <3>1, <3>2, NextFrame
    <3>4. CASE Len(C[i]) > l \/ flags = Grpc!FLAG_COMPRESSED
      BY <2>3, <3>3, <3>4 DEF at, l, ReadOn
    <3>5. CASE Len(C[i]) <= l /\ flags # Grpc!FLAG_COMPRESSED
      <4>1. i # n /\ ~(Len(C[i]) > Len(body))
        BY <1>0, <1>1, <2>2, <3>5 DEF n, l
      <4>2. flags # Grpc!FLAG_TRAILERS
        BY <3>1, <4>1 DEF Grpc!FLAG_TRAILERS
      <4>3. from[at] = {[rest EXCEPT !.data = chunk \o @] : rest \in from[Len(C[i]) + 1]}
        BY <2>3, <3>3, <3>5, <4>1, <4>2 DEF at, ReadOn
      <4>4. from[Len(C[i]) + 1] \in SUBSET Lost
        BY <2>1, <3>5 DEF i
      <4> HIDE DEF Lost
      <4>5. {[rest EXCEPT !.data = chunk \o @] : rest \in from[Len(C[i]) + 1]} \subseteq Lost
        BY ZenonT(30), <3>1, <4>4, DataKept
      <4> QED  BY <4>3, <4>5
    <3>6. Len(C[i]) <= l \/ Len(C[i]) > l
      BY <1>0, <2>2
    <3> QED  BY <3>4, <3>5, <3>6
  <2> QED  BY <1>0, <2>2, <2>4, <2>5
<1>5. n \in S
  <2> HIDE DEF S
  <2> QED  BY <1>0, <1>3, <1>4, Induction
<1>6. Good(from, 0)
  BY <1>0, <1>5
<1>7. C[0] = <<>>
  BY <1>0 DEF Joins
<1> QED  BY <1>0, <1>2, <1>6, <1>7

-----------------------------------------------------------------------------
(* gRPC-Web: whole messages (transport.py:135-214) *)

\* The bytes of the message in each frame.
Chunks(frames) ==
    [i \in DOMAIN frames |->
       IF frames[i][1] = Grpc!FLAG_TRAILERS THEN <<>> ELSE SubSeq(frames[i], 6, Len(frames[i]))]

Compressed(message) == \E i \in 1 .. Len(message) : message[i].flags = Grpc!FLAG_COMPRESSED

\* The frames of a message carry its bytes, the trailers none.
LEMMA ChunksAre ==
    ASSUME NEW message \in Messages, NEW status \in Grpc!Statuses
    PROVE  LET fs == Frames(message, status)
               n == Len(message) + 1
           IN /\ Chunks(fs) \in Seq(Seq(Nat)) /\ Len(Chunks(fs)) = n
              /\ \A i \in 1 .. n - 1 : Chunks(fs)[i] = message[i].chunk
              /\ Chunks(fs)[n] = <<>>
              /\ (\E i \in DOMAIN fs : fs[i][1] = Grpc!FLAG_COMPRESSED) <=> Compressed(message)
<1> DEFINE fs == Frames(message, status)
           n == Len(message) + 1
<1>1. /\ n \in Nat /\ n >= 1 /\ fs \in Seq(Seq(Nat)) /\ Len(fs) = n
      /\ \A i \in 1 .. n - 1 :
           /\ message[i].flags \in {0, 1} /\ message[i].chunk \in Seq(Nat)
           /\ fs[i] = Grpc!Frame(message[i].flags, message[i].chunk)
      /\ fs[n] = Grpc!Frame(Grpc!FLAG_TRAILERS, TrailersChunk(status))
  <2>1. Len(message) \in Nat
    BY DEF Messages
  <2> QED  BY <2>1, FramesAre
<1>2. DOMAIN fs = 1 .. n
  BY <1>1
<1> HIDE DEF fs, n
<1>3. \A i \in 1 .. n - 1 : /\ fs[i][1] = message[i].flags
                            /\ SubSeq(fs[i], 6, Len(fs[i])) = message[i].chunk
  <2> SUFFICES ASSUME NEW i \in 1 .. n - 1
               PROVE  fs[i][1] = message[i].flags /\ SubSeq(fs[i], 6, Len(fs[i])) = message[i].chunk
    OBVIOUS
  <2>0. message[i].flags \in {0, 1} /\ message[i].chunk \in Seq(Nat)
    BY <1>1
  <2>1. message[i].flags \in Nat /\ message[i].chunk \in Seq(Nat)
    BY <2>0
  <2>2. IsFrame(Grpc!Frame(message[i].flags, message[i].chunk), message[i].flags, message[i].chunk)
    BY <2>1, FrameIs
  <2>3. fs[i] = Grpc!Frame(message[i].flags, message[i].chunk)
    BY <1>1
  <2> QED  BY <2>2, <2>3 DEF IsFrame
<1>4. fs[n][1] = Grpc!FLAG_TRAILERS
  <2>1. TrailersChunk(status) \in Seq(Nat) /\ Grpc!FLAG_TRAILERS \in Nat
    BY TrailersAre DEF Grpc!FLAG_TRAILERS
  <2>2. IsFrame(Grpc!Frame(Grpc!FLAG_TRAILERS, TrailersChunk(status)), Grpc!FLAG_TRAILERS, TrailersChunk(status))
    BY <2>1, FrameIs
  <2> QED  BY <1>1, <2>2 DEF IsFrame
<1> DEFINE c == Chunks(fs)
<1>5. DOMAIN c = 1 .. n
  BY <1>2 DEF Chunks
<1>6. \A i \in 1 .. n - 1 : c[i] = message[i].chunk
  <2> SUFFICES ASSUME NEW i \in 1 .. n - 1 PROVE c[i] = message[i].chunk
    OBVIOUS
  <2>0. message[i].flags \in {0, 1} /\ fs[i][1] = message[i].flags
    BY <1>1, <1>3
  <2>1. i \in 1 .. n /\ fs[i][1] # Grpc!FLAG_TRAILERS
    BY <1>1, <2>0 DEF Grpc!FLAG_TRAILERS
  <2> QED  BY <1>2, <1>3, <2>1 DEF Chunks
<1>7. c[n] = <<>>
  <2>1. n \in 1 .. n
    BY <1>1
  <2> QED  BY <1>2, <1>4, <2>1 DEF Chunks
<1>8. c \in Seq(Seq(Nat)) /\ Len(c) = n
  <2>1. \A i \in 1 .. n : c[i] \in Seq(Nat)
    <3> SUFFICES ASSUME NEW i \in 1 .. n PROVE c[i] \in Seq(Nat)
      OBVIOUS
    <3>1. CASE i = n
      <4>1. <<>> \in Seq(Nat)
        OBVIOUS
      <4> HIDE DEF c
      <4> QED  BY <1>7, <3>1, <4>1
    <3>2. CASE i # n
      <4>1. i \in 1 .. n - 1
        BY <1>1, <3>2
      <4> QED  BY <1>1, <1>6, <4>1
    <3> QED  BY <3>1, <3>2
  <2>2. c = [i \in 1 .. n |-> c[i]]
    <3>1. c = [i \in DOMAIN c |-> c[i]]
      BY DEF Chunks
    <3> HIDE DEF c
    <3> QED  BY <1>5, <3>1
  <2>3. n \in Nat
    BY <1>1
  <2> HIDE DEF c
  <2>4. c \in [1 .. n -> Seq(Nat)]
    BY <2>1, <2>2
  <2> QED  BY <2>3, <2>4
<1>9. (\E i \in DOMAIN fs : fs[i][1] = Grpc!FLAG_COMPRESSED) <=> Compressed(message)
  <2>1. Grpc!FLAG_TRAILERS # Grpc!FLAG_COMPRESSED /\ 1 .. Len(message) = 1 .. n - 1
    BY <1>1 DEF Grpc!FLAG_TRAILERS, Grpc!FLAG_COMPRESSED, n
  <2>2. \A i \in 1 .. n : i = n \/ i \in 1 .. n - 1
    BY <1>1
  <2>3. ASSUME NEW i \in DOMAIN fs, fs[i][1] = Grpc!FLAG_COMPRESSED PROVE Compressed(message)
    <3>1. i \in 1 .. n - 1
      BY <1>2, <1>4, <2>1, <2>2, <2>3
    <3> QED  BY <1>3, <2>1, <2>3, <3>1 DEF Compressed
  <2>4. ASSUME NEW i \in 1 .. Len(message), message[i].flags = Grpc!FLAG_COMPRESSED
        PROVE  \E k \in DOMAIN fs : fs[k][1] = Grpc!FLAG_COMPRESSED
    <3>1. i \in 1 .. n - 1 /\ i \in DOMAIN fs
      BY <1>1, <1>2, <2>1, <2>4
    <3> QED  BY <1>3, <2>4, <3>1
  <2> QED  BY <2>3, <2>4 DEF Compressed
<1> QED  BY <1>6, <1>7, <1>8, <1>9 DEF n, fs

Associate(x, y, z) == (x \o y) \o z = x \o (y \o z)

\* Three sequences, one after the other.
LEMMA Associative ==
    ASSUME NEW T, NEW x \in Seq(T), NEW y \in Seq(T), NEW z \in Seq(T)
    PROVE  Associate(x, y, z)
  BY DEF Associate

\* What remains from the end of a frame on, of a body that is whole.
Remains(z, M, message, status, i) ==
    IF \E k \in i + 1 .. Len(message) : message[k].flags = Grpc!FLAG_COMPRESSED THEN z = {}
    ELSE \E x \in Seq(Nat) : z = {[data |-> x, trailers |-> status]} /\ M[i] \o x = M[Len(message) + 1]

\* A body that comes to its end tells the message and its status.
LEMMA ReadToEnd ==
    ASSUME NEW message \in Messages, NEW status \in Grpc!Statuses,
           NEW C, Answered(message, status, C), NEW body \in Seq(Nat), body = C[Len(message) + 1],
           NEW M \in [0 .. Len(message) + 1 -> Seq(Nat)], Joins(M, Chunks(Frames(message, status)))
    PROVE  Grpc!Unframe(body) =
             IF Compressed(message) THEN {}
             ELSE {[data |-> M[Len(message) + 1], trailers |-> status]}
<1> DEFINE n == Len(message) + 1
           fs == Frames(message, status)
           c == Chunks(fs)
           l == Len(body)
<1>0. /\ n \in Nat /\ n >= 1 /\ l \in Nat /\ fs \in Seq(Seq(Nat)) /\ Len(fs) = n
      /\ C \in [0 .. Len(fs) -> Seq(Nat)] /\ Joins(C, fs)
      /\ \A i \in 1 .. n - 1 :
           /\ message[i].flags \in {0, 1} /\ message[i].chunk \in Seq(Nat)
           /\ fs[i] = Grpc!Frame(message[i].flags, message[i].chunk)
      /\ fs[n] = Grpc!Frame(Grpc!FLAG_TRAILERS, TrailersChunk(status))
  <2>1. Len(message) \in Nat
    BY DEF Messages
  <2> QED  BY <2>1, FramesAre DEF Answered
<1>1. /\ Len(c) = n /\ (\A i \in 1 .. n - 1 : c[i] = message[i].chunk) /\ c[n] = <<>>
      /\ \A i \in 0 .. n : M[i] \in Seq(Nat)
      /\ M[0] = <<>> /\ \A i \in 1 .. n : M[i] = M[i - 1] \o c[i]
  BY ChunksAre DEF Joins
<1>2. \A i \in 0 .. n : Len(C[i]) \in Nat /\ Len(C[i]) <= l
  <2> SUFFICES ASSUME NEW i \in 0 .. n PROVE Len(C[i]) \in Nat /\ Len(C[i]) <= l
    OBVIOUS
  <2>1. n \in 0 .. Len(fs) /\ i \in 0 .. Len(fs) /\ i <= n /\ n = Len(fs)
    BY <1>0
  <2>2. C[i] \in Seq(Nat)
    BY <1>0, <2>1
  <2>3. Begins(C[i], C[n])
    <3> HIDE DEF n, fs
    <3> QED  BY <1>0, <2>1, Beginnings
  <2> QED  BY <2>2, <2>3 DEF Begins
<1>3. PICK from : /\ Grpc!Unframe(body) = from[1]
                  /\ \A at \in 1 .. l + 1 : from[at] = Unframed(body, from, at)
  BY UnframeFrom
<1>4. Begins(body, C[n]) /\ l = Len(C[n]) /\ l = Len(body)
  BY DEF Begins
<1> HIDE DEF n, fs, l, c
<1>5. ASSUME NEW i \in 1 .. n, NEW flags \in Nat, NEW chunk \in Seq(Nat), fs[i] = Grpc!Frame(flags, chunk)
      PROVE  from[Len(C[i - 1]) + 1] =
               IF flags = Grpc!FLAG_COMPRESSED THEN {}
               ELSE IF flags = Grpc!FLAG_TRAILERS THEN {Trailed(rest, chunk) : rest \in from[Len(C[i]) + 1]}
               ELSE {[rest EXCEPT !.data = chunk \o @] : rest \in from[Len(C[i]) + 1]}
  <2>1. i \in 1 .. Len(fs) /\ Begins(body, C[Len(fs)]) /\ i - 1 \in 0 .. n /\ i \in 0 .. n
    BY <1>0, <1>4
  <2>2. Len(C[i]) = Len(C[i - 1]) + Len(fs[i]) /\ Len(fs[i]) > 0 /\ Len(fs[i]) \in Nat
    <3>1. Follows(C, fs, i)
      BY <1>0, <2>1, Within
    <3>2. IsFrame(fs[i], flags, chunk)
      BY <1>5, FrameIs
    <3>3. Len(chunk) \in Nat
      OBVIOUS
    <3> QED  BY <3>1, <3>2, <3>3 DEF Follows, IsFrame
  <2>3. Len(C[i - 1]) < Len(body) /\ ~(Len(C[i]) > Len(body)) /\ Len(C[i - 1]) + 1 \in 1 .. l + 1
    <3>1. Len(C[i - 1]) \in Nat /\ Len(C[i]) \in Nat /\ Len(C[i]) <= l
      BY <1>2, <2>1
    <3>2. l \in Nat /\ l = Len(body)
      BY <1>0, <1>4
    <3> DEFINE p == Len(C[i - 1])
               q == Len(C[i])
               f == Len(fs[i])
    <3>3. q = p + f /\ f > 0 /\ f \in Nat /\ p \in Nat /\ q \in Nat /\ q <= l
      BY <2>2, <3>1
    <3> HIDE DEF p, q, f
    <3>4. p < l /\ ~(q > l) /\ p + 1 \in 1 .. l + 1
      BY <3>2, <3>3
    <3> QED  BY <3>2, <3>4 DEF p, q
  <2>4. ReadOn(C, i, body, from, flags, chunk)
    BY <1>0, <1>5, <2>1, <2>3, NextFrame
  <2> QED  BY <1>3, <2>3, <2>4 DEF ReadOn
<1> DEFINE Z(i) == from[Len(C[i]) + 1]
           Good(i) == Remains(Z(i), M, message, status, i)
           S == {d \in Nat : d <= n - 1 => Good(n - 1 - d)}
<1>6. Good(n - 1)
  <2>1. from[l + 1] = {[data |-> <<>>, trailers |-> Grpc!NO_STATUS]}
    <3>1. l + 1 \in 1 .. l + 1
      BY <1>0
    <3>2. Unframed(body, from, l + 1) = {[data |-> <<>>, trailers |-> Grpc!NO_STATUS]}
      BY <1>4 DEF Unframed
    <3> QED  BY <1>3, <3>1, <3>2
  <2>2. Z(n - 1) = {Trailed(rest, TrailersChunk(status)) : rest \in Z(n)}
    <3>1. n \in 1 .. n /\ fs[n] = Grpc!Frame(Grpc!FLAG_TRAILERS, TrailersChunk(status))
      BY <1>0
    <3>2. Grpc!FLAG_TRAILERS \in Nat /\ Grpc!FLAG_TRAILERS # Grpc!FLAG_COMPRESSED
      BY DEF Grpc!FLAG_TRAILERS, Grpc!FLAG_COMPRESSED
    <3>3. TrailersChunk(status) \in Seq(Nat)
      BY TrailersAre
    <3> QED  BY <1>5, <3>1, <3>2, <3>3
  <2>3. Z(n - 1) = {[data |-> <<>>, trailers |-> status]}
    <3>1. Trailed([data |-> <<>>, trailers |-> Grpc!NO_STATUS], TrailersChunk(status)) = [data |-> <<>>, trailers |-> status]
      BY TrailersAre
    <3>2. Z(n) = {[data |-> <<>>, trailers |-> Grpc!NO_STATUS]}
      BY <1>4, <2>1
    <3> HIDE DEF Z
    <3> QED  BY <2>2, <3>1, <3>2
  <2>4. M[n - 1] \o <<>> = M[n]
    <3>1. n \in 1 .. n
      BY <1>0
    <3> QED  BY <1>1, <3>1
  <2>5. <<>> \in Seq(Nat) /\ (n - 1) + 1 .. Len(message) = {} /\ n = Len(message) + 1
    BY <1>0 DEF n
  <2> HIDE DEF Z
  <2> QED  BY <2>3, <2>4, <2>5 DEF Remains
<1>7. ASSUME NEW i \in 1 .. n - 1, Good(i) PROVE Good(i - 1)
  <2> DEFINE chunk == message[i].chunk
  <2>1. i \in 1 .. n /\ i \in 0 .. n /\ i - 1 \in 0 .. n
    BY <1>0
  <2>2. message[i].flags \in {0, 1} /\ chunk \in Seq(Nat) /\ fs[i] = Grpc!Frame(message[i].flags, chunk)
    BY <1>0
  <2>3. M[i - 1] \in Seq(Nat) /\ M[i] = M[i - 1] \o chunk
    BY <1>1, <2>1
  <2> HIDE DEF chunk
  <2>4. Z(i - 1) = IF message[i].flags = Grpc!FLAG_COMPRESSED THEN {}
                   ELSE {[rest EXCEPT !.data = chunk \o @] : rest \in Z(i)}
    <3>1. message[i].flags # Grpc!FLAG_TRAILERS /\ message[i].flags \in Nat
      BY <2>2 DEF Grpc!FLAG_TRAILERS
    <3> QED  BY ZenonT(30), <1>5, <2>1, <2>2, <3>1
  <2>5. \A k \in (i - 1) + 1 .. n - 1 : k = i \/ k \in i + 1 .. n - 1
    BY <1>0, <2>1
  <2>6. i \in (i - 1) + 1 .. n - 1 /\ \A k \in i + 1 .. n - 1 : k \in (i - 1) + 1 .. n - 1
    BY <1>0, <2>1
  <2>7. Len(message) = n - 1 /\ Len(message) + 1 = n
    BY <1>0 DEF n
  <2> HIDE DEF Z
  <2>8. CASE message[i].flags = Grpc!FLAG_COMPRESSED
    BY <2>4, <2>6, <2>7, <2>8 DEF Remains
  <2>9. CASE message[i].flags # Grpc!FLAG_COMPRESSED /\ \E k \in i + 1 .. n - 1 : message[k].flags = Grpc!FLAG_COMPRESSED
    <3>1. Z(i) = {}
      BY <1>7, <2>7, <2>9 DEF Remains
    <3>2. Z(i - 1) = {}
      BY <2>4, <2>9, <3>1
    <3> QED  BY <2>6, <2>7, <2>9, <3>2 DEF Remains
  <2>10. CASE message[i].flags # Grpc!FLAG_COMPRESSED /\ ~\E k \in i + 1 .. n - 1 : message[k].flags = Grpc!FLAG_COMPRESSED
    <3>1. PICK x \in Seq(Nat) : Z(i) = {[data |-> x, trailers |-> status]} /\ M[i] \o x = M[n]
      BY <1>7, <2>7, <2>10 DEF Remains
    <3> DEFINE y == chunk \o x
    <3>2. Z(i - 1) = {[data |-> y, trailers |-> status]}
      <4>1. Z(i - 1) = {[rest EXCEPT !.data = chunk \o @] : rest \in {[data |-> x, trailers |-> status]}}
        BY <2>4, <2>10, <3>1
      <4>2. [[data |-> x, trailers |-> status] EXCEPT !.data = chunk \o @] = [data |-> y, trailers |-> status]
        <5>1. [data |-> x, trailers |-> status].data = x
          OBVIOUS
        <5> HIDE DEF y
        <5>2. [[data |-> x, trailers |-> status] EXCEPT !.data = y] = [data |-> y, trailers |-> status]
          OBVIOUS
        <5> QED  BY <5>1, <5>2 DEF y
      <4> HIDE DEF y
      <4> QED  BY <4>1, <4>2
    <3>3. y \in Seq(Nat)
      BY <2>2
    <3>4. M[i - 1] \o y = M[n]
      <4> DEFINE m == M[i - 1]
      <4>1. m \in Seq(Nat) /\ chunk \in Seq(Nat) /\ (m \o chunk) \o x = M[n]
        BY <2>2, <2>3, <3>1
      <4> HIDE DEF m
      <4>2. Associate(m, chunk, x)
        BY <4>1, Associative
      <4> QED  BY <4>1, <4>2 DEF m, Associate
    <3>5. ~\E k \in (i - 1) + 1 .. n - 1 : message[k].flags = Grpc!FLAG_COMPRESSED
      BY <2>5, <2>10
    <3> HIDE DEF y
    <3> QED  BY <2>7, <3>2, <3>3, <3>4, <3>5 DEF Remains
  <2> QED  BY <2>8, <2>9, <2>10
<1> HIDE DEF Good
<1>8. 0 \in S /\ \A d \in Nat : d \in S => d + 1 \in S
  <2>1. n - 1 - 0 = n - 1
    BY <1>0
  <2>2. ASSUME NEW d \in Nat, d \in S, d + 1 <= n - 1 PROVE Good(n - 1 - (d + 1))
    <3>1. n - 1 - d \in 1 .. n - 1 /\ (n - 1 - d) - 1 = n - 1 - (d + 1) /\ Good(n - 1 - d)
      BY <1>0, <2>2
    <3> QED  BY <1>7, <3>1
  <2> QED  BY <1>6, <2>1, <2>2
<1>9. Good(0)
  <2>1. n - 1 \in Nat /\ n - 1 - (n - 1) = 0 /\ n - 1 <= n - 1
    BY <1>0
  <2>2. n - 1 \in S
    <3> HIDE DEF S
    <3> QED  BY <1>8, <2>1, Induction
  <2> QED  BY <2>1, <2>2
<1>10. Z(0) = Grpc!Unframe(body)
  <2>1. C[0] = <<>>
    BY <1>0 DEF Joins
  <2> QED  BY <1>3, <2>1
<1>11. (\E k \in 0 + 1 .. Len(message) : message[k].flags = Grpc!FLAG_COMPRESSED) <=> Compressed(message)
  BY DEF Compressed
<1>12. M[n] \in Seq(Nat) /\ \A x \in Seq(Nat) : M[0] \o x = x
  <2>1. n \in 0 .. n
    BY <1>0
  <2> QED  BY <1>1, <2>1
<1> QED  BY <1>9, <1>10, <1>11, <1>12 DEF n, Good, Remains

\* WholeAnswer, of an answer, whether it was read to its end, and what came out.
WholeOf(answer, whole, outcome) ==
    LET frames == answer.frames
        well == /\ frames # <<>> /\ Grpc!Last(frames) = Grpc!Trailers(Grpc!GRPC_OK)
                /\ \A i \in DOMAIN frames : frames[i][1] # Grpc!FLAG_COMPRESSED
    IN /\ outcome.kind = "ok" => well /\ whole /\ outcome.data = Grpc!FlattenSeq(Chunks(frames))
       /\ well /\ whole => outcome.kind = "ok"
       /\ outcome.kind = "auth" =>
            \/ answer.http = 401 \/ answer.head = Grpc!GRPC_UNAUTHENTICATED
            \/ frames # <<>> /\ Grpc!Last(frames) = Grpc!Trailers(Grpc!GRPC_UNAUTHENTICATED)

\* The statuses and flags, told apart.
LEMMA Numbers ==
    /\ Grpc!GRPC_OK = 0 /\ Grpc!GRPC_DEADLINE_EXCEEDED = 4 /\ Grpc!GRPC_UNAVAILABLE = 14
    /\ Grpc!GRPC_UNAUTHENTICATED = 16 /\ Grpc!BAD_STATUS = 99 /\ Grpc!NO_STATUS = 98
    /\ Grpc!FLAG_COMPRESSED = 1 /\ Grpc!FLAG_TRAILERS = 128
  BY DEF Grpc!GRPC_OK, Grpc!GRPC_DEADLINE_EXCEEDED, Grpc!GRPC_UNAVAILABLE,
         Grpc!GRPC_UNAUTHENTICATED, Grpc!BAD_STATUS, Grpc!NO_STATUS, Grpc!FLAG_COMPRESSED, Grpc!FLAG_TRAILERS

\* Different statuses have different trailers.
LEMMA TrailersTell ==
    ASSUME NEW s \in Grpc!Statuses, NEW t \in Grpc!Statuses, Grpc!Trailers(s) = Grpc!Trailers(t)
    PROVE  s = t
<1>1. \A u \in Grpc!Statuses : Grpc!Trailers(u) = Grpc!Frame(Grpc!FLAG_TRAILERS, TrailersChunk(u))
  BY DEF Grpc!Trailers, TrailersChunk
<1>2. \A u \in Grpc!Statuses : LET f == Grpc!Trailers(u) IN SubSeq(f, 6, Len(f)) = TrailersChunk(u)
  <2> SUFFICES ASSUME NEW u \in Grpc!Statuses
               PROVE  LET f == Grpc!Trailers(u) IN SubSeq(f, 6, Len(f)) = TrailersChunk(u)
    OBVIOUS
  <2>1. TrailersChunk(u) \in Seq(Nat) /\ Grpc!FLAG_TRAILERS \in Nat
    BY TrailersAre DEF Grpc!FLAG_TRAILERS
  <2>2. IsFrame(Grpc!Frame(Grpc!FLAG_TRAILERS, TrailersChunk(u)), Grpc!FLAG_TRAILERS, TrailersChunk(u))
    BY <2>1, FrameIs
  <2> QED  BY <1>1, <2>2 DEF IsFrame
<1>3. TrailersChunk(s) = TrailersChunk(t)
  BY <1>2
<1>4. \A u \in Grpc!Statuses :
        Trailed([data |-> <<>>, trailers |-> Grpc!NO_STATUS], TrailersChunk(u)) = [data |-> <<>>, trailers |-> u]
  BY TrailersAre
<1>5. [data |-> <<>>, trailers |-> s] = [data |-> <<>>, trailers |-> t]
  BY <1>3, <1>4
<1>6. [data |-> <<>>, trailers |-> s].trailers = s /\ [data |-> <<>>, trailers |-> t].trailers = t
  OBVIOUS
<1> QED  BY <1>5, <1>6

\* A body without bytes tells nothing.
LEMMA UnframeNothing == Grpc!Unframe(<<>>) = {[data |-> <<>>, trailers |-> Grpc!NO_STATUS]}
<1>1. <<>> \in Seq(Nat) /\ Len(<<>>) = 0
  OBVIOUS
<1>2. PICK from : /\ Grpc!Unframe(<<>>) = from[1]
                  /\ \A at \in 1 .. Len(<<>>) + 1 : from[at] = Unframed(<<>>, from, at)
  BY <1>1, UnframeFrom
<1>3. from[1] = Unframed(<<>>, from, 1)
  BY <1>1, <1>2
<1> QED  BY <1>1, <1>2, <1>3 DEF Unframed

\* How a call ends by its status.
EndsBy(outcome, status, data) ==
    /\ outcome.kind = "ok" <=> status = Grpc!GRPC_OK
    /\ outcome.kind = "ok" => outcome.data = data
    /\ outcome.kind = "auth" <=> status = Grpc!GRPC_UNAUTHENTICATED

\* What comes of an answer whose body unframes to something, or to nothing.
LEMMA OutcomeOfNothing ==
    ASSUME NEW answer, NEW body, answer.http = 200, Grpc!Unframe(body) = {}
    PROVE  Grpc!Outcome(answer, body).kind = "api"
  BY DEF Grpc!Outcome

\* A body that unframes ends the call by its status.
LEMMA OutcomeOfSome ==
    ASSUME NEW answer, NEW body, answer.http = 200, Grpc!Unframe(body) # {}
    PROVE  LET u == CHOOSE v \in Grpc!Unframe(body) : TRUE
           IN EndsBy(Grpc!Outcome(answer, body), Grpc!Status(answer.head, u.trailers), u.data)
<1> DEFINE u == CHOOSE v \in Grpc!Unframe(body) : TRUE
           status == Grpc!Status(answer.head, u.trailers)
           outcome == Grpc!Outcome(answer, body)
<1>0. ~(answer.http = 401) /\ ~(answer.http >= 500) /\ ~(answer.http < 500 /\ answer.http \notin {200, 401})
  OBVIOUS
<1>1. outcome = CASE status = Grpc!GRPC_OK -> [kind |-> "ok", data |-> u.data]
                  [] status = Grpc!GRPC_UNAUTHENTICATED -> [kind |-> "auth", data |-> <<>>]
                  [] status \in {Grpc!GRPC_DEADLINE_EXCEEDED, Grpc!GRPC_UNAVAILABLE} ->
                       [kind |-> "connection", data |-> <<>>]
                  [] OTHER -> [kind |-> "api", data |-> <<>>]
  BY <1>0, Zenon DEF Grpc!Outcome
<1> HIDE DEF status, outcome, u
<1> QED  BY <1>1, Numbers DEF EndsBy, status, outcome, u

\* The same, of a body that unframes in one way.
LEMMA OutcomeOfOne ==
    ASSUME NEW answer, NEW body, answer.http = 200, NEW u, Grpc!Unframe(body) = {u}
    PROVE  EndsBy(Grpc!Outcome(answer, body), Grpc!Status(answer.head, u.trailers), u.data)
<1>1. (CHOOSE v \in {u} : TRUE) = u
  OBVIOUS
<1> QED  BY <1>1, OutcomeOfSome

\* Without a status, of the headers or the trailers, no call goes well.
LEMMA OutcomeOfLost ==
    ASSUME NEW answer, NEW body, answer.http = 200, answer.head = Grpc!NO_STATUS, Grpc!Unframe(body) \subseteq Lost
    PROVE  Grpc!Outcome(answer, body).kind \notin {"ok", "auth"}
<1>1. CASE Grpc!Unframe(body) = {}
  BY <1>1, OutcomeOfNothing
<1>2. CASE Grpc!Unframe(body) # {}
  <2> DEFINE u == CHOOSE v \in Grpc!Unframe(body) : TRUE
  <2>1. u.trailers = Grpc!NO_STATUS
    <3>1. u \in Grpc!Unframe(body)
      BY <1>2
    <3> HIDE DEF u
    <3> QED  BY <3>1 DEF Lost
  <2>2. EndsBy(Grpc!Outcome(answer, body), Grpc!Status(answer.head, u.trailers), u.data)
    BY <1>2, OutcomeOfSome
  <2> HIDE DEF u
  <2> QED  BY <2>1, <2>2, Numbers DEF EndsBy, Grpc!Status
<1> QED  BY <1>1, <1>2

\* Whatever is read of whatever answer, up to wherever: WholeAnswer.
LEMMA ReadIsWhole ==
    ASSUME NEW answer \in Grpc!Answers,
           NEW end \in 0 .. Len(Grpc!FlattenSeq(answer.frames))
    PROVE  LET body == Grpc!FlattenSeq(answer.frames)
           IN WholeOf(answer, end = Len(body), Grpc!Outcome(answer, SubSeq(body, 1, end)))
<1> DEFINE body == Grpc!FlattenSeq(answer.frames)
           outcome == Grpc!Outcome(answer, SubSeq(body, 1, end))
<1>1. ASSUME NEW message \in Messages, NEW status \in Grpc!Statuses,
             answer.http = 200, answer.head = Grpc!NO_STATUS, answer.frames = Frames(message, status)
      PROVE  WholeOf(answer, end = Len(body), outcome)
  <2> DEFINE fs == Frames(message, status)
             n == Len(message) + 1
             read == SubSeq(body, 1, end)
  <2>1. fs \in Seq(Seq(Nat)) /\ Len(fs) = n /\ n \in Nat /\ n >= 1
    BY FramesAre DEF Messages
  <2>2. PICK C \in [0 .. n -> Seq(Nat)] : Joins(C, fs) /\ body = C[n]
    <3>1. \E C \in [0 .. n -> Seq(Nat)] : Joins(C, fs) /\ Grpc!FlattenSeq(fs) = C[n]
      <4> HIDE DEF fs, n
      <4> QED  BY <2>1, Flattened
    <3> QED  BY <1>1, <3>1
  <2>3. PICK M \in [0 .. n -> Seq(Nat)] : Joins(M, Chunks(fs)) /\ Grpc!FlattenSeq(Chunks(fs)) = M[n]
    <3>1. Chunks(fs) \in Seq(Seq(Nat)) /\ Len(Chunks(fs)) = n
      BY ChunksAre
    <3> HIDE DEF fs, n
    <3> QED  BY <3>1, Flattened
  <2>4. body \in Seq(Nat) /\ Len(body) \in Nat
    <3>1. n \in 0 .. n
      BY <2>1
    <3> HIDE DEF n, body
    <3>2. body \in Seq(Nat)
      BY <2>2, <3>1
    <3> QED  BY <3>2
  <2>5. read \in Seq(Nat) /\ Len(read) = end /\ end \in Nat /\ end <= Len(body) /\ Begins(read, body)
    <3> HIDE DEF body
    <3>1. end \in Nat /\ end <= Len(body) /\ 1 \in Int /\ 1 >= 1
      BY <2>4 DEF body
    <3>2. read \in Seq(Nat)
      BY <2>4, <3>1, Part
    <3>3. Len(read) = end /\ \A k \in 1 .. end : read[k] = body[k]
      BY <2>4, <3>1
    <3> QED  BY <3>1, <3>2, <3>3 DEF Begins
  <2>6. Answered(message, status, C)
    BY <2>2 DEF Answered
  <2>7. fs # <<>> /\ Grpc!Last(fs) = Grpc!Trailers(status)
    <3>1. fs[n] = Grpc!Trailers(status)
      BY FramesAre DEF Grpc!Trailers, TrailersChunk
    <3> HIDE DEF fs, n
    <3> QED  BY <2>1, <3>1 DEF Grpc!Last
  <2>8. (\A i \in DOMAIN fs : fs[i][1] # Grpc!FLAG_COMPRESSED) <=> ~Compressed(message)
    BY ChunksAre
  <2> HIDE DEF body, fs, n, read
  <2>9. CASE end < Len(body)
    <3>1. Grpc!Unframe(read) \subseteq Lost
      BY <2>2, <2>5, <2>6, <2>9, CutShort DEF n
    <3>2. outcome.kind \notin {"ok", "auth"}
      BY <1>1, <3>1, OutcomeOfLost DEF read
    <3>3. end # Len(body)
      BY <2>4, <2>5, <2>9
    <3> HIDE DEF outcome
    <3> QED  BY <3>2, <3>3 DEF WholeOf
  <2>10. CASE end = Len(body)
    <3>1. read = body
      BY <2>4, <2>5, <2>10 DEF Begins
    <3>2. Grpc!Unframe(read) = IF Compressed(message) THEN {} ELSE {[data |-> M[n], trailers |-> status]}
      BY <2>2, <2>3, <2>4, <2>6, <3>1, ReadToEnd DEF n, fs
    <3>3. CASE Compressed(message)
      <4>1. outcome.kind = "api"
        BY <1>1, <3>2, <3>3, OutcomeOfNothing DEF read
      <4> HIDE DEF outcome
      <4> QED  BY <1>1, <2>8, <3>3, <4>1 DEF WholeOf, fs
    <3>4. CASE ~Compressed(message)
      <4>1. Grpc!Status(answer.head, status) = status
        BY <1>1 DEF Grpc!Status
      <4>2. EndsBy(outcome, status, M[n])
        <5> DEFINE u == [data |-> M[n], trailers |-> status]
        <5>1. u.data = M[n] /\ u.trailers = status
          OBVIOUS
        <5> HIDE DEF u
        <5>2. Grpc!Unframe(read) = {u}
          BY <3>2, <3>4 DEF u
        <5>3. EndsBy(Grpc!Outcome(answer, read), Grpc!Status(answer.head, u.trailers), u.data)
          BY <1>1, <5>2, OutcomeOfOne
        <5> QED  BY <4>1, <5>1, <5>3 DEF read
      <4>3. Grpc!Trailers(status) = Grpc!Trailers(Grpc!GRPC_OK) => status = Grpc!GRPC_OK
        <5>1. Grpc!GRPC_OK \in Grpc!Statuses
          BY DEF Grpc!Statuses
        <5> QED  BY <5>1, TrailersTell
      <4> HIDE DEF outcome
      <4> QED  BY <1>1, <2>3, <2>7, <2>8, <2>10, <3>4, <4>2, <4>3 DEF WholeOf, fs, EndsBy
    <3> QED  BY <3>3, <3>4
  <2> QED  BY <2>4, <2>5, <2>9, <2>10
<1>2. ASSUME answer.frames = <<>>, answer.http \in {200, 401, 404, 503}, answer.http = 200 => answer.head # Grpc!GRPC_OK
      PROVE  WholeOf(answer, end = Len(body), outcome)
  <2>1. body = <<>>
    <3>1. <<>> \in Seq(Seq(Nat)) /\ Len(<<>>) = 0
      OBVIOUS
    <3>2. PICK C \in [0 .. Len(<<>>) -> Seq(Nat)] : Joins(C, <<>>) /\ Grpc!FlattenSeq(<<>>) = C[Len(<<>>)]
      BY <3>1, Flattened
    <3> QED  BY <1>2, <3>1, <3>2 DEF Joins
  <2>2. SubSeq(body, 1, end) = <<>>
    BY <2>1
  <2>3. CASE answer.http = 200
    <3>1. Grpc!Unframe(SubSeq(body, 1, end)) = {[data |-> <<>>, trailers |-> Grpc!NO_STATUS]}
      BY <2>2, UnframeNothing
    <3>2. Grpc!Status(answer.head, Grpc!NO_STATUS) = answer.head
      BY DEF Grpc!Status
    <3>3. EndsBy(outcome, answer.head, <<>>)
      <4> HIDE DEF body
      <4> DEFINE u == [data |-> <<>>, trailers |-> Grpc!NO_STATUS]
      <4>1. u.data = <<>> /\ u.trailers = Grpc!NO_STATUS
        OBVIOUS
      <4> HIDE DEF u
      <4>2. Grpc!Unframe(SubSeq(body, 1, end)) = {u}
        BY <3>1 DEF u
      <4>3. EndsBy(outcome, Grpc!Status(answer.head, u.trailers), u.data)
        BY <2>3, <4>2, OutcomeOfOne
      <4> QED  BY <3>2, <4>1, <4>3
    <3> HIDE DEF outcome
    <3> QED  BY <1>2, <2>3, <3>3 DEF WholeOf, EndsBy
  <2>4. CASE answer.http # 200
    <3>1. outcome.kind # "ok" /\ (outcome.kind = "auth" => answer.http = 401)
      BY <1>2, <2>4 DEF Grpc!Outcome
    <3> HIDE DEF outcome
    <3> QED  BY <1>2, <3>1 DEF WholeOf
  <2> QED  BY <2>3, <2>4
<1>3. \/ \E message \in Messages, status \in Grpc!Statuses :
           answer.http = 200 /\ answer.head = Grpc!NO_STATUS /\ answer.frames = Frames(message, status)
      \/ answer.frames = <<>> /\ answer.http = 200 /\ answer.head # Grpc!GRPC_OK
      \/ answer.frames = <<>> /\ answer.http \in {401, 404, 503}
  <2> DEFINE A(http, stamp, head, frames, by) ==
               [http |-> http, stamp |-> stamp, head |-> head, frames |-> frames, by |-> by]
             Whole == {A(200, stamp, Grpc!NO_STATUS, Frames(message, status), "server") :
                         message \in Bodies, stamp \in {"ms", "date"}, status \in Grpc!Statuses}
             Headers == {A(200, "none", status, <<>>, "server") : status \in Grpc!Statuses \ {Grpc!GRPC_OK}}
             Proxy == {A(http, "date", Grpc!NO_STATUS, <<>>, by) :
                         http \in {401, 404, 503}, by \in {"server", "proxy"}}
  <2>1. Grpc!Answers = Whole \cup Headers \cup Proxy
    BY DEF Grpc!Answers, Frames
  <2>2. CASE answer \in Whole
    <3>1. PICK message \in Bodies, stamp \in {"ms", "date"}, status \in Grpc!Statuses :
            answer = A(200, stamp, Grpc!NO_STATUS, Frames(message, status), "server")
      BY <2>2
    <3>2. message \in Messages
      BY BodiesAssumption DEF Messages
    <3>3. answer.http = 200 /\ answer.head = Grpc!NO_STATUS /\ answer.frames = Frames(message, status)
      BY <3>1
    <3> QED  BY <3>2, <3>3
  <2>3. CASE answer \in Headers
    BY <2>3
  <2>4. CASE answer \in Proxy
    BY <2>4
  <2> HIDE DEF Whole, Headers, Proxy
  <2> QED  BY <2>1, <2>2, <2>3, <2>4
<1> QED  BY <1>1, <1>2, <1>3

\* The times of a call that is under way, and what was learned from an earlier one: as
\* long as both clocks go on, what the learned one is behind by stays the same.
Times ==
    /\ now \in Nat /\ local \in Int /\ offset \in Int
    /\ call \in [phase : {"idle", "sent", "answered", "reading", "done"}, sent : Nat, stamped : Int,
                 answer : Grpc!Answers \cup {Grpc!NoAnswer}, whole : BOOLEAN]
    /\ call.phase \notin {"idle", "done"} => call.sent <= now /\ now <= call.sent + REQUEST_TIMEOUT
    /\ call.phase \in {"answered", "reading"} /\ call.answer.by = "server"
         => call.sent <= call.stamped + 1 /\ call.stamped <= now
    /\ learned = "server" => local + offset <= now /\ now <= local + offset + REQUEST_TIMEOUT + 1

\* It holds at first.
LEMMA InitTimes == Grpc!Init => Times
  BY TimeAssumption DEF Grpc!Init, Grpc!Idle, Times

\* The server stamps its answer by its own clock, rounded down to the second at most.
LEMMA StampsAre ==
    ASSUME now \in Nat, NEW answer, NEW stamped \in Grpc!Stamps(answer)
    PROVE  /\ stamped \in Int
           /\ answer.by = "server" => now <= stamped + 1 /\ stamped <= now
<1> DEFINE clocks == IF answer.by = "proxy" THEN {now - drift : drift \in Drifts} ELSE {now}
<1>1. PICK clock \in clocks :
        stamped = IF answer.stamp = "date" THEN clock - (clock % 2) ELSE clock
  BY DEF Grpc!Stamps
<1>2. clock \in Int /\ (answer.by = "server" => clock = now)
  BY TimeAssumption
<1>3. clock - (clock % 2) \in Int /\ clock <= clock - (clock % 2) + 1 /\ clock - (clock % 2) <= clock
  BY <1>2
<1> QED  BY <1>1, <1>2, <1>3

\* Every step keeps it.
LEMMA NextTimes ==
    ASSUME Times, [Grpc!Next]_(Grpc!vars)
    PROVE  Times'
<1>0. REQUEST_TIMEOUT \in Nat
  BY TimeAssumption
<1> USE <1>0 DEF Times
<1>1. CASE Grpc!Call
  <2>1. call' = [phase |-> "sent", sent |-> now, stamped |-> 0, answer |-> Grpc!NoAnswer, whole |-> FALSE]
        /\ UNCHANGED <<now, local, offset, learned>>
    BY <1>1 DEF Grpc!Call, Grpc!Idle
  <2> QED
    BY <2>1
<1>2. CASE Grpc!Answer
  <2>0. PICK answer \in Grpc!Answers : \E stamped \in Grpc!Stamps(answer) :
          call' = [call EXCEPT !.phase = "answered", !.answer = answer, !.stamped = stamped]
    BY <1>2 DEF Grpc!Answer
  <2>1. PICK stamped \in Grpc!Stamps(answer) :
          call' = [call EXCEPT !.phase = "answered", !.answer = answer, !.stamped = stamped]
    BY <2>0
  <2>2. UNCHANGED <<now, local, offset, learned>> /\ call.phase = "sent"
    BY <1>2 DEF Grpc!Answer
  <2>3. stamped \in Int
    BY StampsAre
  <2>4. answer.by = "server" => now <= stamped + 1 /\ stamped <= now
    BY StampsAre
  <2>6. /\ call'.phase = "answered" /\ call'.sent = call.sent /\ call'.stamped = stamped
        /\ call'.answer = answer
        /\ call' \in [phase : {"idle", "sent", "answered", "reading", "done"}, sent : Nat, stamped : Int,
                      answer : Grpc!Answers \cup {Grpc!NoAnswer}, whole : BOOLEAN]
    BY <2>1, <2>3
  <2> QED
    BY <2>2, <2>3, <2>4, <2>6
<1>3. CASE Grpc!Headers
  <2>1. /\ call.phase = "answered" /\ call' = [call EXCEPT !.phase = "reading"]
        /\ UNCHANGED <<now, local>>
        /\ \/ UNCHANGED <<offset, learned>>
           \/ offset' = call.stamped - local /\ learned' = call.answer.by
    BY <1>3 DEF Grpc!Headers, Grpc!Learns
  <2>2. /\ call'.phase = "reading" /\ call'.sent = call.sent /\ call'.stamped = call.stamped
        /\ call'.answer = call.answer
        /\ call' \in [phase : {"idle", "sent", "answered", "reading", "done"}, sent : Nat, stamped : Int,
                      answer : Grpc!Answers \cup {Grpc!NoAnswer}, whole : BOOLEAN]
    BY <2>1
  <2> QED
    BY <2>1, <2>2
<1>4. CASE Grpc!Read
  BY <1>4 DEF Grpc!Read
<1>5. CASE Grpc!Fail
  BY <1>5 DEF Grpc!Fail
<1>6. CASE Grpc!Tick
  BY <1>6 DEF Grpc!Tick
<1>7. CASE UNCHANGED Grpc!vars
  BY <1>7 DEF Grpc!vars
<1> QED
  BY <1>1, <1>2, <1>3, <1>4, <1>5, <1>6, <1>7 DEF Grpc!Next

\* What a call has by each phase, and that what it returned was the whole answer.
Calls ==
    /\ call.phase \in {"answered", "reading"} => call.answer \in Grpc!Answers
    /\ call.phase \in {"sent", "answered", "reading"} => ~call.whole
    /\ Grpc!WholeAnswer

\* The run's property, in these terms.
LEMMA WholeIs == Grpc!WholeAnswer <=> (call.phase = "done" => WholeOf(call.answer, call.whole, result))
  BY DEF Grpc!WholeAnswer, WholeOf, Chunks

\* It holds at first.
LEMMA InitCalls == Grpc!Init => Calls
  BY DEF Grpc!Init, Grpc!Idle, Calls, Grpc!WholeAnswer

\* A call that failed returned nothing, and did not read to the end.
LEMMA FailedIsWhole ==
    ASSUME NEW answer
    PROVE  WholeOf(answer, FALSE, [kind |-> "connection", data |-> <<>>])
  BY DEF WholeOf

\* Every step keeps it.
LEMMA NextCalls ==
    ASSUME Times, Calls, [Grpc!Next]_(Grpc!vars)
    PROVE  Calls'
<1>0. /\ call \in [phase : {"idle", "sent", "answered", "reading", "done"}, sent : Nat, stamped : Int,
                   answer : Grpc!Answers \cup {Grpc!NoAnswer}, whole : BOOLEAN]
      /\ call.phase \in {"answered", "reading"} => call.answer \in Grpc!Answers
      /\ call.phase \in {"sent", "answered", "reading"} => ~call.whole
      /\ call.phase = "done" => WholeOf(call.answer, call.whole, result)
  BY WholeIs DEF Times, Calls
<1> SUFFICES /\ (call.phase \in {"answered", "reading"} => call.answer \in Grpc!Answers)'
             /\ (call.phase \in {"sent", "answered", "reading"} => ~call.whole)'
             /\ (call.phase = "done" => WholeOf(call.answer, call.whole, result))'
  <2>1. (Grpc!WholeAnswer <=> (call.phase = "done" => WholeOf(call.answer, call.whole, result)))'
    BY DEF Grpc!WholeAnswer, WholeOf, Chunks
  <2> QED  BY <2>1 DEF Calls
<1>1. CASE Grpc!Call
  <2>1. call' = [phase |-> "sent", sent |-> now, stamped |-> 0, answer |-> Grpc!NoAnswer, whole |-> FALSE]
    BY <1>1 DEF Grpc!Call, Grpc!Idle
  <2> QED  BY <2>1
<1>2. CASE Grpc!Answer
  <2>0. PICK answer \in Grpc!Answers : \E stamped \in Grpc!Stamps(answer) :
          call' = [call EXCEPT !.phase = "answered", !.answer = answer, !.stamped = stamped]
    BY <1>2 DEF Grpc!Answer
  <2>1. PICK stamped \in Grpc!Stamps(answer) :
          call' = [call EXCEPT !.phase = "answered", !.answer = answer, !.stamped = stamped]
    BY <2>0
  <2>2. call.phase = "sent"
    BY <1>2 DEF Grpc!Answer
  <2> QED  BY <1>0, <2>1, <2>2
<1>3. CASE Grpc!Headers
  <2>1. call.phase = "answered" /\ call' = [call EXCEPT !.phase = "reading"]
    BY <1>3 DEF Grpc!Headers
  <2> QED  BY <1>0, <2>1
<1>4. CASE Grpc!Read
  <2> DEFINE body == Grpc!FlattenSeq(call.answer.frames)
  <2>1. PICK end \in 0 .. Len(body) :
          /\ call.phase = "reading"
          /\ call' = [call EXCEPT !.phase = "done", !.whole = (end = Len(body))]
          /\ result' = Grpc!Outcome(call.answer, SubSeq(body, 1, end))
    BY <1>4 DEF Grpc!Read
  <2>2. WholeOf(call.answer, end = Len(body), Grpc!Outcome(call.answer, SubSeq(body, 1, end)))
    BY <1>0, <2>1, ReadIsWhole
  <2> HIDE DEF body
  <2>3. call'.phase = "done" /\ call'.answer = call.answer /\ call'.whole = (end = Len(body))
    BY <1>0, <2>1
  <2> QED  BY <2>1, <2>2, <2>3
<1>5. CASE Grpc!Fail
  <2>1. /\ call.phase \in {"sent", "answered", "reading"}
        /\ call' = [call EXCEPT !.phase = "done"] /\ result' = [kind |-> "connection", data |-> <<>>]
    BY <1>5 DEF Grpc!Fail
  <2>2. call'.phase = "done" /\ call'.answer = call.answer /\ call'.whole = FALSE
    BY <1>0, <2>1
  <2> QED  BY <2>1, <2>2, FailedIsWhole
<1>6. CASE Grpc!Tick
  BY <1>0, <1>6 DEF Grpc!Tick
<1>7. CASE UNCHANGED Grpc!vars
  BY <1>0, <1>7 DEF Grpc!vars
<1> QED  BY <1>1, <1>2, <1>3, <1>4, <1>5, <1>6, <1>7 DEF Grpc!Next

\* Both are invariants.
LEMMA CallsInvariant == WireSpec => [](Times /\ Calls)
<1>1. WireInit => Times /\ Calls
  BY InitTimes, InitCalls DEF WireInit
<1>2. Times /\ Calls /\ [WireNext]_<<side, nats, grpc, ble>> => (Times /\ Calls)'
  <2> SUFFICES ASSUME Times, Calls, [WireNext]_<<side, nats, grpc, ble>> PROVE (Times /\ Calls)'
    OBVIOUS
  <2>1. [Grpc!Next]_(Grpc!vars)
    BY DEF WireNext, grpc, nats, ble, Grpc!vars
  <2> QED  BY <2>1, NextTimes, NextCalls
<1> QED  BY <1>1, <1>2, PTL DEF WireSpec

\* Whatever message is sent in however many frames, wherever its bytes are cut, and
\* whatever a proxy answers instead: async_call returns data only if it is the whole
\* message of a call that went well, and doubts the login only if the server does
\* (transport.py, unframe and async_call).
THEOREM AnswersAreWhole == WireSpec => []WholeAnswer
<1>1. Times /\ Calls => WholeAnswer
  BY DEF Calls, WholeAnswer
<1> QED  BY <1>1, CallsInvariant, PTL

\* Once an answer of the server has told it, and until one of a proxy tells another, the
\* clock that signs requests and dates room writes is never ahead of the server's, and
\* behind it by a call and a second at most, however far the local clock and the
\* proxy's are behind or ahead, and whatever the timeout (transport.py,
\* _update_server_time).
THEOREM ClockIsBehind == WireSpec => []ClockLags
<1>1. Times /\ Calls => ClockLags
  <2>1. REQUEST_TIMEOUT \in Nat
    BY TimeAssumption
  <2> QED  BY <2>1 DEF Times, ClockLags, Grpc!ClockLags, Grpc!ServerTime
<1> QED  BY <1>1, CallsInvariant, PTL

-----------------------------------------------------------------------------
(* NATS: what the parser makes of a buffer (nats.py:235-268) *)

\* Induction from above, each step from all those above it.
LEMMA Downward ==
    ASSUME NEW m \in Nat, NEW n \in Nat, NEW S,
           \A i \in m .. n : (\A j \in i + 1 .. n : j \in S) => i \in S
    PROVE  \A i \in m .. n : i \in S
<1> DEFINE T == {k \in Nat : \A j \in m .. n : j > n - k => j \in S}
<1>1. 0 \in T
  OBVIOUS
<1>2. ASSUME NEW k \in Nat, k \in T PROVE k + 1 \in T
  <2> SUFFICES ASSUME NEW j \in m .. n, j > n - (k + 1) PROVE j \in S
    OBVIOUS
  <2>1. \A i \in j + 1 .. n : i \in m .. n /\ i > n - k
    OBVIOUS
  <2> QED  BY <1>2, <2>1
<1>3. n + 1 \in T
  <2> HIDE DEF T
  <2> QED  BY <1>1, <1>2, Induction
<1>4. \A i \in m .. n : i > n - (n + 1)
  OBVIOUS
<1> QED  BY <1>3, <1>4

-----------------------------------------------------------------------------
(* The stream of a NATS connection *)

\* Where a line that begins at a place may end, and where it does.
LineEnds(buffer, at) == {i \in at .. Len(buffer) - 1 : buffer[i] = Nats!CR /\ buffer[i + 1] = Nats!LF}
LineEnd(buffer, at) == Nats!Min(LineEnds(buffer, at))

\* What the line tells, and the message it announces.
Cell(buffer, at) == IF LineEnd(buffer, at) + 2 = at + 3 THEN buffer[at] ELSE 0
Op(buffer, at) == Cell(buffer, at) % 10
Subject(buffer, at) == (Cell(buffer, at) \div 10) % 10
HeadLen(buffer, at) == IF Op(buffer, at) = Nats!HMSG THEN (Cell(buffer, at) \div 100) % 10 ELSE 0
TotalLen(buffer, at) == (Cell(buffer, at) \div 1000) % 1000
Taken(buffer, at) ==
    [subject |-> Subject(buffer, at),
     body |-> Nats!Body(buffer, LineEnd(buffer, at) + 2, HeadLen(buffer, at), TotalLen(buffer, at))]

\* What is read from a place on, from what is read from later ones.
ReadOp(buffer, from, at) ==
    LET start == LineEnd(buffer, at) + 2
        total == TotalLen(buffer, at)
        Stop(broken) == [messages |-> <<>>, rest |-> at, broken |-> broken]
    IN IF LineEnds(buffer, at) = {} THEN Stop(FALSE)
       ELSE IF Op(buffer, at) \notin {Nats!MSG, Nats!HMSG} THEN from[start]
       ELSE IF HeadLen(buffer, at) > total THEN Stop(TRUE)
       ELSE IF Len(buffer) < start + total + 1 THEN Stop(FALSE)
       ELSE [from[start + total + 2] EXCEPT !.messages = <<Taken(buffer, at)>> \o @]

NatsMessage == [subject : Nat, body : Seq(Nat)]
OpsRead == [messages : Seq(NatsMessage), rest : Nat, broken : BOOLEAN]

\* The least of some numbers.
LEMMA MinIs ==
    ASSUME NEW S \in SUBSET Nat, S # {}
    PROVE  Nats!Min(S) \in S /\ \A y \in S : Nats!Min(S) <= y
  BY Least DEF Nats!Min

\* A line that ends does so within the buffer, and tells numbers.
LEMMA LineIs ==
    ASSUME NEW buffer \in Seq(Nat), NEW at \in 1 .. Len(buffer) + 1, LineEnds(buffer, at) # {}
    PROVE  /\ LineEnd(buffer, at) \in LineEnds(buffer, at)
           /\ \A i \in LineEnds(buffer, at) : LineEnd(buffer, at) <= i
           /\ LineEnd(buffer, at) \in Nat /\ at <= LineEnd(buffer, at) /\ LineEnd(buffer, at) < Len(buffer)
           /\ Cell(buffer, at) \in Nat
           /\ Op(buffer, at) \in Nat /\ Subject(buffer, at) \in Nat
           /\ HeadLen(buffer, at) \in Nat /\ TotalLen(buffer, at) \in Nat
<1>1. LineEnds(buffer, at) \subseteq at .. Len(buffer) - 1 /\ LineEnds(buffer, at) \in SUBSET Nat /\ at \in Nat /\ Len(buffer) \in Nat
  BY DEF LineEnds
<1>2. LineEnd(buffer, at) \in LineEnds(buffer, at) /\ \A i \in LineEnds(buffer, at) : LineEnd(buffer, at) <= i
  BY <1>1, MinIs DEF LineEnd
<1>3. LineEnd(buffer, at) \in Nat /\ at <= LineEnd(buffer, at) /\ LineEnd(buffer, at) < Len(buffer)
  BY <1>1, <1>2
<1>4. Cell(buffer, at) \in Nat
  <2>1. at \in 1 .. Len(buffer)
    BY <1>1, <1>3
  <2> QED  BY <2>1 DEF Cell
<1>5. Op(buffer, at) \in Nat /\ Subject(buffer, at) \in Nat /\ TotalLen(buffer, at) \in Nat
  BY <1>4 DEF Op, Subject, TotalLen
<1>6. HeadLen(buffer, at) \in Nat
  BY <1>4 DEF HeadLen
<1> QED  BY <1>2, <1>3, <1>4, <1>5, <1>6

\* A message that has arrived whole lies in the buffer.
LEMMA TakenIs ==
    ASSUME NEW buffer \in Seq(Nat), NEW at \in 1 .. Len(buffer) + 1, LineEnds(buffer, at) # {},
           LineEnd(buffer, at) + 2 + TotalLen(buffer, at) + 1 <= Len(buffer)
    PROVE  Taken(buffer, at) \in NatsMessage
<1> DEFINE start == LineEnd(buffer, at) + 2
           head == HeadLen(buffer, at)
           total == TotalLen(buffer, at)
<1>1. start \in Nat /\ head \in Nat /\ total \in Nat /\ start >= 1 /\ start + total + 1 <= Len(buffer)
      /\ Subject(buffer, at) \in Nat /\ Len(buffer) \in Nat
  BY SMTT(30), LineIs
<1> HIDE DEF start, head, total
<1>2. start + head \in Int /\ start + head >= 1 /\ start + total - 1 \in Int /\ start + total - 1 <= Len(buffer)
  BY <1>1
<1>3. SubSeq(buffer, start + head, start + total - 1) \in Seq(Nat)
  BY <1>2, Part
<1> QED  BY <1>1, <1>3 DEF Taken, Nats!Body, NatsMessage, start, head, total

\* A step of the parser is well typed.
LEMMA ReadOpIs ==
    ASSUME NEW buffer \in Seq(Nat), NEW at \in 1 .. Len(buffer) + 1, NEW from,
           \A j \in at + 1 .. Len(buffer) + 1 : from[j] \in OpsRead
    PROVE  ReadOp(buffer, from, at) \in OpsRead
<1> DEFINE start == LineEnd(buffer, at) + 2
           total == TotalLen(buffer, at)
<1>1. \A broken \in BOOLEAN : [messages |-> <<>>, rest |-> at, broken |-> broken] \in OpsRead
  BY DEF OpsRead
<1>2. CASE LineEnds(buffer, at) = {}
  BY <1>1, <1>2 DEF ReadOp
<1>3. CASE LineEnds(buffer, at) # {}
  <2>1. start \in Nat /\ total \in Nat /\ start > at /\ start <= Len(buffer) + 1 /\ Len(buffer) \in Nat /\ at \in Nat
    BY <1>3, LineIs
  <2> HIDE DEF start, total
  <2>2. from[start] \in OpsRead
    BY <2>1
  <2>3. CASE Len(buffer) < start + total + 1
    BY <1>1, <1>3, <2>2, <2>3 DEF ReadOp, start, total
  <2>4. CASE ~(Len(buffer) < start + total + 1)
    <3>1. start + total + 2 \in at + 1 .. Len(buffer) + 1 /\ start + total + 1 <= Len(buffer)
      BY <2>1, <2>4
    <3> DEFINE x == from[start + total + 2]
               t == Taken(buffer, at)
    <3>2. t \in NatsMessage
      BY <1>3, <3>1, TakenIs DEF start, total
    <3>3. x \in OpsRead
      BY <3>1
    <3> HIDE DEF x, t
    <3>4. <<t>> \o x.messages \in Seq(NatsMessage)
      BY <3>2, <3>3 DEF OpsRead
    <3>5. [x EXCEPT !.messages = <<t>> \o @] \in OpsRead
      <4> DEFINE m == <<t>> \o x.messages
      <4> HIDE DEF m
      <4>1. [x EXCEPT !.messages = m] \in OpsRead
        BY <3>3, <3>4 DEF OpsRead, m
      <4> QED  BY <4>1 DEF m
    <3> QED  BY <1>1, <1>3, <2>2, <2>4, <3>5 DEF ReadOp, start, total, x, t
  <2> QED  BY <2>3, <2>4
<1> QED  BY <1>2, <1>3

\* The parser, from each place of a buffer on.
LEMMA OpsFrom ==
    ASSUME NEW buffer \in Seq(Nat)
    PROVE  \E from : /\ Nats!Ops(buffer) = from[1]
                     /\ \A at \in 1 .. Len(buffer) + 1 :
                          from[at] = ReadOp(buffer, from, at) /\ from[at] \in OpsRead
<1> DEFINE D == 1 .. Len(buffer) + 1
           V == OpsRead
           F == [p \in [D -> V] \X D |-> ReadOp(buffer, p[1], p[2])]
           from == CHOOSE g : g = [at \in D |-> ReadOp(buffer, g, at)]
<1>0. Len(buffer) \in Nat
  OBVIOUS
<1>1. Nats!Ops(buffer) = from[1]
  BY DEF Nats!Ops, ReadOp, LineEnds, LineEnd, Cell, Op, Subject, HeadLen, TotalLen, Taken
<1>2. F \in [[D -> V] \X D -> V]
  <2>1. ASSUME NEW g \in [D -> V], NEW at \in D PROVE ReadOp(buffer, g, at) \in V
    <3>1. \A j \in at + 1 .. Len(buffer) + 1 : j \in D
      BY <1>0
    <3>2. \A j \in D : g[j] \in V
      OBVIOUS
    <3> HIDE DEF V
    <3> QED  BY <3>1, <3>2, ReadOpIs DEF V
  <2> HIDE DEF V, D
  <2> QED  BY <2>1
<1>3. \A g \in [D -> V], at \in D : F[<<g, at>>] = ReadOp(buffer, g, at)
  OBVIOUS
<1>4. LooksUp(F, D, V)
  <2> HIDE DEF F
  <2>1. V # {} /\ \E m \in Nat : D \subseteq 0 .. m
    <3>1. D \subseteq 0 .. Len(buffer) + 1 /\ Len(buffer) + 1 \in Nat
      BY <1>0
    <3>2. [messages |-> <<>>, rest |-> 0, broken |-> FALSE] \in V
      BY DEF OpsRead
    <3> QED  BY <3>1, <3>2
  <2>2. ASSUME NEW g \in [D -> V], NEW h \in [D -> V], NEW at \in D,
               \A j \in D : j > at => g[j] = h[j]
        PROVE  F[<<g, at>>] = F[<<h, at>>]
    <3> DEFINE start == LineEnd(buffer, at) + 2
               total == TotalLen(buffer, at)
    <3>1. CASE LineEnds(buffer, at) = {}
      BY <1>3, <3>1 DEF ReadOp
    <3>2. CASE LineEnds(buffer, at) # {}
      <4>1. start \in D /\ start > at /\ total \in Nat /\ start \in Nat /\ at \in Nat
        BY <1>0, <3>2, LineIs
      <4>2. ~(Len(buffer) < start + total + 1) => start + total + 2 \in D /\ start + total + 2 > at
        BY <1>0, <4>1
      <4> HIDE DEF D, V, start, total
      <4>3. g[start] = h[start] /\ (~(Len(buffer) < start + total + 1) => g[start + total + 2] = h[start + total + 2])
        BY <2>2, <4>1, <4>2
      <4>4. ReadOp(buffer, g, at) = ReadOp(buffer, h, at)
        BY <4>3 DEF ReadOp, start, total
      <4> QED  BY <1>3, <4>4
    <3> QED  BY <3>1, <3>2
  <2> HIDE DEF D, V
  <2> QED  BY <1>2, <2>1, <2>2 DEF LooksUp
<1>5. PICK g \in [D -> V] : \A at \in D : g[at] = F[<<g, at>>]
  <2> HIDE DEF F, D, V
  <2> QED  BY <1>4, RecursionDown DEF Recursive
<1>6. g = [at \in D |-> ReadOp(buffer, g, at)]
  <2> HIDE DEF F
  <2> QED  BY <1>3, <1>5
<1>7. from = [at \in D |-> ReadOp(buffer, from, at)]
  BY <1>6
<1> HIDE DEF from
<1>8. \A at \in D : from[at] = ReadOp(buffer, from, at)
  BY <1>7
<1>9. \A at \in D : from[at] \in OpsRead
  <2> DEFINE S == {at \in D : from[at] \in OpsRead}
  <2>1. ASSUME NEW at \in D, \A j \in at + 1 .. Len(buffer) + 1 : j \in S PROVE at \in S
    <3>1. ReadOp(buffer, from, at) \in OpsRead
      BY <2>1, ReadOpIs
    <3> QED  BY <1>8, <3>1
  <2>2. 1 \in Nat /\ Len(buffer) + 1 \in Nat
    BY <1>0
  <2>3. \A at \in D : at \in S
    <3> HIDE DEF S
    <3> QED  BY <2>1, <2>2, Downward
  <2> QED  BY <2>3
<1> QED  BY <1>1, <1>8, <1>9

\* A line that has arrived stays the line it is, whatever arrives after it.
LEMMA LineStays ==
    ASSUME NEW x \in Seq(Nat), NEW y \in Seq(Nat), Begins(x, y), NEW at \in 1 .. Len(x) + 1, LineEnds(x, at) # {}
    PROVE  /\ LineEnds(y, at) # {}
           /\ LineEnd(y, at) = LineEnd(x, at)
           /\ Cell(y, at) = Cell(x, at) /\ Op(y, at) = Op(x, at) /\ Subject(y, at) = Subject(x, at)
           /\ HeadLen(y, at) = HeadLen(x, at) /\ TotalLen(y, at) = TotalLen(x, at)
<1>0. Len(x) \in Nat /\ Len(y) \in Nat /\ Len(x) <= Len(y) /\ \A k \in 1 .. Len(x) : y[k] = x[k]
  BY DEF Begins
<1> DEFINE m == LineEnd(x, at)
           n == LineEnd(y, at)
<1>1. m \in LineEnds(x, at) /\ m \in Nat /\ at <= m /\ m < Len(x) /\ \A i \in LineEnds(x, at) : m <= i
  BY LineIs
<1> HIDE DEF m, n
<1>2. m \in LineEnds(y, at)
  <2>1. x[m] = Nats!CR /\ x[m + 1] = Nats!LF
    BY <1>1 DEF LineEnds
  <2>2. y[m] = x[m] /\ y[m + 1] = x[m + 1] /\ m \in at .. Len(y) - 1
    BY <1>0, <1>1
  <2> QED  BY <2>1, <2>2 DEF LineEnds
<1>3. at \in 1 .. Len(y) + 1 /\ LineEnds(y, at) # {}
  BY <1>0, <1>2
<1>4. n \in LineEnds(y, at) /\ n \in Nat /\ at <= n /\ n < Len(y) /\ \A i \in LineEnds(y, at) : n <= i
  BY <1>3, LineIs DEF n
<1>5. n <= m
  BY <1>2, <1>4
<1>6. n \in LineEnds(x, at)
  <2>1. y[n] = Nats!CR /\ y[n + 1] = Nats!LF
    BY <1>4 DEF LineEnds
  <2>2. y[n] = x[n] /\ y[n + 1] = x[n + 1] /\ n \in at .. Len(x) - 1
    BY <1>0, <1>1, <1>4, <1>5
  <2> QED  BY <2>1, <2>2 DEF LineEnds
<1>7. n = m
  BY <1>1, <1>4, <1>5, <1>6
<1>8. y[at] = x[at]
  BY <1>0, <1>1
<1>9. Cell(y, at) = Cell(x, at)
  BY <1>7, <1>8 DEF Cell, m, n
<1>10. Op(y, at) = Op(x, at) /\ Subject(y, at) = Subject(x, at) /\ TotalLen(y, at) = TotalLen(x, at)
  BY <1>9 DEF Op, Subject, TotalLen
<1>11. HeadLen(y, at) = HeadLen(x, at)
  BY <1>9, <1>10 DEF HeadLen
<1> QED  BY <1>3, <1>7, <1>9, <1>10, <1>11 DEF m, n

\* And so does a message that has arrived whole.
LEMMA MessageStays ==
    ASSUME NEW x \in Seq(Nat), NEW y \in Seq(Nat), Begins(x, y), NEW at \in 1 .. Len(x) + 1, LineEnds(x, at) # {},
           LineEnd(x, at) + 2 + TotalLen(x, at) + 1 <= Len(x)
    PROVE  Taken(y, at) = Taken(x, at)
<1> DEFINE end == LineEnd(x, at)
           head == HeadLen(x, at)
           total == TotalLen(x, at)
           from == end + 2 + head
           to == end + 2 + total - 1
<1>0. end \in Nat /\ head \in Nat /\ total \in Nat /\ end + 2 + total + 1 <= Len(x)
  BY LineIs
<1> HIDE DEF end, head, total
<1>1. from \in Int /\ to \in Int /\ from >= 1 /\ to <= Len(x) /\ Len(x) \in Nat /\ Len(x) <= Len(y)
  BY <1>0 DEF Begins
<1>2. SubSeq(y, from, to) = SubSeq(x, from, to)
  <2> HIDE DEF from, to
  <2>1. \A i \in 1 .. to - from + 1 : y[from + i - 1] = x[from + i - 1]
    <3>1. \A k \in 1 .. Len(x) : y[k] = x[k]
      BY DEF Begins
    <3>2. \A i \in 1 .. to - from + 1 : from + i - 1 \in 1 .. Len(x)
      BY <1>1
    <3> QED  BY <3>1, <3>2
  <2>2. SubSeq(x, from, to) = [i \in 1 .. to - from + 1 |-> x[from + i - 1]]
    BY <1>1
  <2>3. SubSeq(y, from, to) = [i \in 1 .. to - from + 1 |-> y[from + i - 1]]
    BY <1>1
  <2> QED  BY <2>1, <2>2, <2>3
<1> QED  BY <1>2, LineStays DEF Taken, Nats!Body, end, head, total

\* What the parser makes of a buffer, place by place.
Reads(buffer, from) ==
    \A at \in 1 .. Len(buffer) + 1 : from[at] = ReadOp(buffer, from, at) /\ from[at] \in OpsRead

\* From a place on, what is read of a buffer is what is read of its beginning, and then
\* what is read from where that ended.
GoesOn(x, f, g, at) ==
    /\ f[at].rest \in at .. Len(x) + 1
    /\ f[at].broken => g[at] = f[at]
    /\ ~f[at].broken => /\ g[at].messages = f[at].messages \o g[f[at].rest].messages
                        /\ g[at].rest = g[f[at].rest].rest
                        /\ g[at].broken = g[f[at].rest].broken

\* Where the parser stops for want of bytes, it goes on with more of them.
LEMMA StopGoesOn ==
    ASSUME NEW x \in Seq(Nat), NEW y \in Seq(Nat), NEW f, NEW g, Reads(y, g), NEW at \in 1 .. Len(x) + 1,
           Len(x) <= Len(y), f[at] = [messages |-> <<>>, rest |-> at, broken |-> FALSE]
    PROVE  GoesOn(x, f, g, at)
<1>1. at \in 1 .. Len(y) + 1 /\ at \in at .. Len(x) + 1
  OBVIOUS
<1>2. g[at] \in OpsRead
  BY <1>1 DEF Reads
<1>3. <<>> \o g[at].messages = g[at].messages
  BY <1>2 DEF OpsRead
<1>4. f[at].messages = <<>> /\ f[at].rest = at /\ ~f[at].broken
  OBVIOUS
<1> QED  BY <1>1, <1>3, <1>4 DEF GoesOn

\* It does so at a place if it does from all later ones.
LEMMA GoesOnAt ==
    ASSUME NEW x \in Seq(Nat), NEW y \in Seq(Nat), Begins(x, y), NEW f, NEW g, Reads(x, f), Reads(y, g),
           NEW at \in 1 .. Len(x) + 1, \A j \in at + 1 .. Len(x) + 1 : GoesOn(x, f, g, j)
    PROVE  GoesOn(x, f, g, at)
<1> DEFINE start == LineEnd(x, at) + 2
           total == TotalLen(x, at)
<1>0. Len(x) \in Nat /\ Len(y) \in Nat /\ Len(x) <= Len(y) /\ at \in Nat /\ at \in 1 .. Len(y) + 1
  BY DEF Begins
<1>1. f[at] = ReadOp(x, f, at) /\ g[at] = ReadOp(y, g, at)
  BY <1>0 DEF Reads
<1>2. CASE LineEnds(x, at) = {}
  BY <1>0, <1>1, <1>2, StopGoesOn DEF ReadOp
<1>3. CASE LineEnds(x, at) # {}
  <2>1. start \in Nat /\ total \in Nat /\ start \in at + 1 .. Len(x) + 1
    BY SMTT(30), <1>3, LineIs
  <2>2. /\ LineEnds(y, at) # {} /\ LineEnd(y, at) + 2 = start /\ Op(y, at) = Op(x, at)
        /\ HeadLen(y, at) = HeadLen(x, at) /\ TotalLen(y, at) = total
    BY <1>3, LineStays
  <2> HIDE DEF start, total
  <2>3. CASE Op(x, at) \notin {Nats!MSG, Nats!HMSG}
    <3>1. f[at] = f[start] /\ g[at] = g[start]
      BY <1>1, <1>3, <2>2, <2>3 DEF ReadOp, start
    <3>2. GoesOn(x, f, g, start)
      BY <2>1
    <3>3. start .. Len(x) + 1 \subseteq at .. Len(x) + 1
      BY <1>0, <2>1
    <3> QED  BY <3>1, <3>2, <3>3 DEF GoesOn
  <2>4. CASE Op(x, at) \in {Nats!MSG, Nats!HMSG} /\ HeadLen(x, at) > total
    <3>1. /\ f[at] = [messages |-> <<>>, rest |-> at, broken |-> TRUE]
          /\ g[at] = [messages |-> <<>>, rest |-> at, broken |-> TRUE]
      BY <1>1, <1>3, <2>2, <2>4 DEF ReadOp, total
    <3>2. at \in at .. Len(x) + 1
      BY <1>0
    <3> QED  BY <3>1, <3>2 DEF GoesOn
  <2>5. CASE Op(x, at) \in {Nats!MSG, Nats!HMSG} /\ ~(HeadLen(x, at) > total) /\ Len(x) < start + total + 1
    <3>1. f[at] = [messages |-> <<>>, rest |-> at, broken |-> FALSE]
      BY <1>1, <1>3, <2>5 DEF ReadOp, start, total
    <3> QED  BY <1>0, <3>1, StopGoesOn
  <2>6. CASE Op(x, at) \in {Nats!MSG, Nats!HMSG} /\ ~(HeadLen(x, at) > total) /\ ~(Len(x) < start + total + 1)
    <3> DEFINE next == start + total + 2
               t == Taken(x, at)
    <3>1. ~(Len(y) < start + total + 1) /\ next \in at + 1 .. Len(x) + 1 /\ next \in 1 .. Len(x) + 1
          /\ next \in 1 .. Len(y) + 1 /\ start + total + 1 <= Len(x)
      BY SMTT(30), <1>0, <2>1, <2>6
    <3>2. Taken(y, at) = t /\ t \in NatsMessage
      BY <1>3, <3>1, MessageStays, TakenIs DEF start, total
    <3> HIDE DEF t
    <3>3. f[at] = [f[next] EXCEPT !.messages = <<t>> \o @]
      BY <1>1, <1>3, <2>6 DEF ReadOp, start, total, t
    <3>4. g[at] = [g[next] EXCEPT !.messages = <<t>> \o @]
      BY <1>1, <2>2, <2>6, <3>1, <3>2 DEF ReadOp
    <3> HIDE DEF next
    <3>5. f[next] \in OpsRead /\ g[next] \in OpsRead /\ GoesOn(x, f, g, next)
      BY <3>1 DEF Reads
    <3>6. f[next].messages \in Seq(NatsMessage) /\ g[next].messages \in Seq(NatsMessage)
      BY <3>5 DEF OpsRead
    <3>7. /\ f[at].messages = <<t>> \o f[next].messages /\ f[at].rest = f[next].rest /\ f[at].broken = f[next].broken
          /\ g[at].messages = <<t>> \o g[next].messages /\ g[at].rest = g[next].rest /\ g[at].broken = g[next].broken
      <4> DEFINE u == <<t>> \o f[next].messages
                 v == <<t>> \o g[next].messages
      <4> HIDE DEF u, v
      <4>1. f[at] = [f[next] EXCEPT !.messages = u] /\ g[at] = [g[next] EXCEPT !.messages = v]
        BY <3>3, <3>4 DEF u, v
      <4>2. f[at].messages = u /\ g[at].messages = v /\ f[at].rest = f[next].rest /\ g[at].rest = g[next].rest
            /\ f[at].broken = f[next].broken /\ g[at].broken = g[next].broken
        BY <3>5, <4>1 DEF OpsRead
      <4> QED  BY <4>2 DEF u, v
    <3>8. f[next].rest \in next .. Len(x) + 1 /\ f[next].rest \in at .. Len(x) + 1 /\ f[next].rest \in 1 .. Len(y) + 1
      <4>1. next .. Len(x) + 1 \subseteq at .. Len(x) + 1 /\ next .. Len(x) + 1 \subseteq 1 .. Len(y) + 1
        BY <1>0, <3>1
      <4> QED  BY <3>5, <4>1 DEF GoesOn
    <3>9. CASE f[next].broken
      <4>1. g[next] = f[next]
        BY <3>5, <3>9 DEF GoesOn
      <4>2. g[at] = f[at]
        BY <3>3, <3>4, <4>1
      <4> QED  BY <3>7, <3>8, <3>9, <4>2 DEF GoesOn
    <3>10. CASE ~f[next].broken
      <4> DEFINE u == f[next].messages
                 v == g[f[next].rest].messages
      <4>1. g[next].messages = u \o v /\ g[next].rest = g[f[next].rest].rest /\ g[next].broken = g[f[next].rest].broken
        BY <3>5, <3>10 DEF GoesOn
      <4>2. u \in Seq(NatsMessage) /\ v \in Seq(NatsMessage) /\ <<t>> \in Seq(NatsMessage)
        <5>1. g[f[next].rest] \in OpsRead
          BY <3>8 DEF Reads
        <5> QED  BY <3>2, <3>6, <5>1 DEF OpsRead
      <4>3. f[at].messages = <<t>> \o u /\ g[at].messages = <<t>> \o g[next].messages
        BY <3>7
      <4>4. <<t>> \o (u \o v) = (<<t>> \o u) \o v
        <5> HIDE DEF u, v
        <5> QED  BY <4>2
      <4>5. g[at].messages = f[at].messages \o v
        BY <4>1, <4>3, <4>4
      <4> QED  BY <3>7, <3>8, <3>10, <4>1, <4>5 DEF GoesOn
    <3> QED  BY <3>9, <3>10
  <2> QED  BY <2>3, <2>4, <2>5, <2>6
<1> QED  BY <1>2, <1>3

\* So it does from every place.
LEMMA GoesOnAll ==
    ASSUME NEW x \in Seq(Nat), NEW y \in Seq(Nat), Begins(x, y), NEW f, NEW g, Reads(x, f), Reads(y, g)
    PROVE  \A at \in 1 .. Len(x) + 1 : GoesOn(x, f, g, at)
<1> DEFINE S == {at \in 1 .. Len(x) + 1 : GoesOn(x, f, g, at)}
<1>1. 1 \in Nat /\ Len(x) + 1 \in Nat
  OBVIOUS
<1>2. \A at \in 1 .. Len(x) + 1 : (\A j \in at + 1 .. Len(x) + 1 : j \in S) => at \in S
  <2>1. ASSUME NEW at \in 1 .. Len(x) + 1, \A j \in at + 1 .. Len(x) + 1 : GoesOn(x, f, g, j)
        PROVE  GoesOn(x, f, g, at)
    BY <2>1, GoesOnAt
  <2> QED  BY <2>1
<1>3. \A at \in 1 .. Len(x) + 1 : at \in S
  <2> HIDE DEF S
  <2> QED  BY <1>1, <1>2, Downward
<1> QED  BY <1>3

\* A buffer without its first bytes.
Without(y, k, r) ==
    /\ Len(r) = Len(y) - k
    /\ \A i \in 1 .. Len(r) : r[i] = y[i + k]

\* The lines of such a buffer are the lines of the whole one.
LEMMA LineMoves ==
    ASSUME NEW y \in Seq(Nat), NEW k \in Nat, NEW r \in Seq(Nat), Without(y, k, r),
           NEW at \in 1 .. Len(r) + 1
    PROVE  /\ LineEnds(y, at + k) = {} <=> LineEnds(r, at) = {}
           /\ LineEnds(r, at) # {} =>
                /\ LineEnd(y, at + k) = LineEnd(r, at) + k
                /\ Cell(y, at + k) = Cell(r, at) /\ Op(y, at + k) = Op(r, at)
                /\ Subject(y, at + k) = Subject(r, at)
                /\ HeadLen(y, at + k) = HeadLen(r, at) /\ TotalLen(y, at + k) = TotalLen(r, at)
<1>0. /\ Len(r) \in Nat /\ Len(y) \in Nat /\ Len(y) = Len(r) + k /\ at \in Nat
      /\ \A i \in 1 .. Len(r) : r[i] = y[i + k]
  BY DEF Without
<1>1. ASSUME NEW i \in LineEnds(r, at) PROVE i + k \in LineEnds(y, at + k)
  <2>1. i \in at .. Len(r) - 1 /\ r[i] = Nats!CR /\ r[i + 1] = Nats!LF
    BY DEF LineEnds
  <2> DEFINE n == Len(r)
  <2>2. i \in Nat /\ n \in Nat /\ at <= i /\ i <= n - 1 /\ at \in Nat /\ at >= 1 /\ Len(y) = n + k
    BY <1>0, <2>1
  <2>3. i \in 1 .. n /\ i + 1 \in 1 .. n
    <3> HIDE DEF n
    <3> QED  BY <2>2
  <2>4. y[i + k] = r[i] /\ y[(i + 1) + k] = r[i + 1]
    BY <1>0, <2>3
  <2>5. i + k \in at + k .. Len(y) - 1 /\ (i + 1) + k = (i + k) + 1
    <3> HIDE DEF n
    <3> QED  BY <2>2
  <2> QED  BY <2>1, <2>4, <2>5 DEF LineEnds
<1>2. ASSUME NEW j \in LineEnds(y, at + k) PROVE j \in Nat /\ j - k \in LineEnds(r, at)
  <2>1. j \in at + k .. Len(y) - 1 /\ y[j] = Nats!CR /\ y[j + 1] = Nats!LF
    BY DEF LineEnds
  <2>2. j - k \in 1 .. Len(r) /\ j + 1 - k \in 1 .. Len(r) /\ j - k \in at .. Len(r) - 1 /\ j \in Nat
    <3> DEFINE n == Len(r)
    <3>1. n \in Nat /\ at \in Nat /\ at >= 1 /\ j \in at + k .. (n + k) - 1
      BY <1>0, <2>1
    <3> HIDE DEF n
    <3>2. j - k \in 1 .. n /\ j + 1 - k \in 1 .. n /\ j - k \in at .. n - 1 /\ j \in Nat
      BY <3>1
    <3> QED  BY <3>2 DEF n
  <2>3. r[j - k] = y[j] /\ r[(j - k) + 1] = y[j + 1]
    <3>1. (j - k) + k = j /\ (j + 1 - k) + k = j + 1 /\ (j - k) + 1 = j + 1 - k
      BY <2>2
    <3>2. r[j - k] = y[(j - k) + k] /\ r[j + 1 - k] = y[(j + 1 - k) + k]
      BY <1>0, <2>2
    <3> QED  BY <3>1, <3>2
  <2> QED  BY <2>1, <2>2, <2>3 DEF LineEnds
<1>3. LineEnds(y, at + k) = {} <=> LineEnds(r, at) = {}
  BY <1>1, <1>2
<1>4. SUFFICES ASSUME LineEnds(r, at) # {}
               PROVE  /\ LineEnd(y, at + k) = LineEnd(r, at) + k
                      /\ Cell(y, at + k) = Cell(r, at) /\ Op(y, at + k) = Op(r, at)
                      /\ Subject(y, at + k) = Subject(r, at)
                      /\ HeadLen(y, at + k) = HeadLen(r, at) /\ TotalLen(y, at + k) = TotalLen(r, at)
  BY <1>3
<1> DEFINE m == LineEnd(r, at)
           n == LineEnd(y, at + k)
<1>5. m \in LineEnds(r, at) /\ m \in Nat /\ at <= m /\ m < Len(r) /\ \A i \in LineEnds(r, at) : m <= i
  BY <1>4, LineIs
<1>6. n \in LineEnds(y, at + k) /\ n \in Nat /\ \A i \in LineEnds(y, at + k) : n <= i
  <2>1. at + k \in 1 .. Len(y) + 1 /\ LineEnds(y, at + k) # {}
    BY <1>0, <1>3, <1>4
  <2> QED  BY <2>1, LineIs
<1> HIDE DEF m, n
<1>7. n = m + k
  <2>1. n <= m + k
    BY <1>1, <1>5, <1>6
  <2>2. n - k \in LineEnds(r, at)
    BY <1>2, <1>6
  <2>3. m <= n - k
    BY <1>5, <2>2
  <2> QED  BY <1>5, <1>6, <2>1, <2>3
<1>8. y[at + k] = r[at]
  BY <1>0, <1>5
<1>9. Cell(y, at + k) = Cell(r, at)
  <2>1. n + 2 = (at + k) + 3 <=> m + 2 = at + 3
    BY <1>0, <1>5, <1>7
  <2> QED  BY <1>8, <2>1 DEF Cell, m, n
<1>10. Op(y, at + k) = Op(r, at) /\ Subject(y, at + k) = Subject(r, at) /\ TotalLen(y, at + k) = TotalLen(r, at)
  BY <1>9 DEF Op, Subject, TotalLen
<1>11. HeadLen(y, at + k) = HeadLen(r, at)
  BY <1>9, <1>10 DEF HeadLen
<1> QED  BY <1>7, <1>9, <1>10, <1>11 DEF m, n

\* And so are its messages.
LEMMA MessageMoves ==
    ASSUME NEW y \in Seq(Nat), NEW k \in Nat, NEW r \in Seq(Nat), Without(y, k, r),
           NEW at \in 1 .. Len(r) + 1, LineEnds(r, at) # {},
           LineEnd(r, at) + 2 + TotalLen(r, at) + 1 <= Len(r)
    PROVE  Taken(y, at + k) = Taken(r, at)
<1> DEFINE end == LineEnd(r, at)
           head == HeadLen(r, at)
           total == TotalLen(r, at)
           from == end + 2 + head
           to == end + 2 + total - 1
           far == (end + k) + 2 + head
           farther == (end + k) + 2 + total - 1
<1>0. end \in Nat /\ head \in Nat /\ total \in Nat /\ end + 2 + total + 1 <= Len(r) /\ Len(r) \in Nat
      /\ Len(y) \in Nat /\ Len(y) = Len(r) + k
  BY LineIs DEF Without
<1> HIDE DEF end, head, total
<1>1. /\ from \in Nat /\ to \in Int /\ from >= 1 /\ to <= Len(r)
      /\ far = from + k /\ farther = to + k
  BY <1>0
<1>2. SubSeq(y, far, farther) = SubSeq(r, from, to)
  <2> HIDE DEF from, to, far, farther
  <2>1. ASSUME NEW i \in 1 .. to - from + 1 PROVE y[from + k + i - 1] = r[from + i - 1]
    <3>1. from + i - 1 \in 1 .. Len(r) /\ (from + i - 1) + k = from + k + i - 1
      BY <1>0, <1>1
    <3> QED  BY <3>1 DEF Without
  <2>2. SubSeq(r, from, to) = [i \in 1 .. to - from + 1 |-> r[from + i - 1]]
    BY <1>1
  <2>3. SubSeq(y, far, farther) = [i \in 1 .. to - from + 1 |-> y[from + k + i - 1]]
    <3>1. farther - far + 1 = to - from + 1
      BY <1>0, <1>1
    <3> QED  BY <1>1, <3>1
  <2> QED  BY <2>1, <2>2, <2>3
<1>3. /\ LineEnd(y, at + k) = end + k /\ HeadLen(y, at + k) = head /\ TotalLen(y, at + k) = total
      /\ Subject(y, at + k) = Subject(r, at)
  BY LineMoves DEF end, head, total
<1> QED  BY <1>2, <1>3 DEF Taken, Nats!Body, end, head, total

\* From a place on, what is read of the whole buffer is what is read of the shorter one.
Moves(k, g, h, at) ==
    /\ g[at + k].messages = h[at].messages
    /\ g[at + k].rest = h[at].rest + k
    /\ g[at + k].broken = h[at].broken

\* This holds of a place if it does of all later ones.
LEMMA MovesAt ==
    ASSUME NEW y \in Seq(Nat), NEW k \in Nat, NEW r \in Seq(Nat), Without(y, k, r),
           NEW g, NEW h, Reads(y, g), Reads(r, h),
           NEW at \in 1 .. Len(r) + 1, \A j \in at + 1 .. Len(r) + 1 : Moves(k, g, h, j)
    PROVE  Moves(k, g, h, at)
<1> DEFINE start == LineEnd(r, at) + 2
           total == TotalLen(r, at)
<1>0. Len(r) \in Nat /\ Len(y) \in Nat /\ Len(y) = Len(r) + k /\ at \in Nat /\ at + k \in 1 .. Len(y) + 1
  BY DEF Without
<1>1. h[at] = ReadOp(r, h, at) /\ g[at + k] = ReadOp(y, g, at + k)
  BY <1>0 DEF Reads
<1>2. CASE LineEnds(r, at) = {}
  <2>1. LineEnds(y, at + k) = {}
    BY <1>2, LineMoves
  <2> QED  BY <1>1, <1>2, <2>1 DEF ReadOp, Moves
<1>3. CASE LineEnds(r, at) # {}
  <2>1. start \in Nat /\ total \in Nat /\ start \in at + 1 .. Len(r) + 1
    BY SMTT(30), <1>3, LineIs
  <2>2. /\ LineEnds(y, at + k) # {} /\ Op(y, at + k) = Op(r, at)
        /\ HeadLen(y, at + k) = HeadLen(r, at) /\ TotalLen(y, at + k) = total
        /\ LineEnd(y, at + k) = LineEnd(r, at) + k
    BY <1>3, LineMoves
  <2>3. LineEnd(y, at + k) + 2 = start + k
    <3>1. LineEnd(r, at) \in Nat
      BY <1>3, LineIs
    <3> QED  BY <2>2, <3>1
  <2> HIDE DEF start, total
  <2>4. CASE Op(r, at) \notin {Nats!MSG, Nats!HMSG}
    <3>1. h[at] = h[start] /\ g[at + k] = g[start + k]
      BY <1>1, <1>3, <2>2, <2>3, <2>4 DEF ReadOp, start
    <3> QED  BY <2>1, <3>1 DEF Moves
  <2>5. CASE Op(r, at) \in {Nats!MSG, Nats!HMSG} /\ HeadLen(r, at) > total
    <3>1. /\ h[at] = [messages |-> <<>>, rest |-> at, broken |-> TRUE]
          /\ g[at + k] = [messages |-> <<>>, rest |-> at + k, broken |-> TRUE]
      BY <1>1, <1>3, <2>2, <2>5 DEF ReadOp, total
    <3> QED  BY <3>1 DEF Moves
  <2>6. CASE Op(r, at) \in {Nats!MSG, Nats!HMSG} /\ ~(HeadLen(r, at) > total) /\ Len(r) < start + total + 1
    <3>1. Len(y) < (start + k) + total + 1
      BY <1>0, <2>1, <2>6
    <3>2. /\ h[at] = [messages |-> <<>>, rest |-> at, broken |-> FALSE]
          /\ g[at + k] = [messages |-> <<>>, rest |-> at + k, broken |-> FALSE]
      BY <1>1, <1>3, <2>2, <2>3, <2>6, <3>1 DEF ReadOp, start, total
    <3> QED  BY <3>2 DEF Moves
  <2>7. CASE Op(r, at) \in {Nats!MSG, Nats!HMSG} /\ ~(HeadLen(r, at) > total) /\ ~(Len(r) < start + total + 1)
    <3> DEFINE next == start + total + 2
               t == Taken(r, at)
    <3>1. /\ ~(Len(y) < (start + k) + total + 1) /\ next \in at + 1 .. Len(r) + 1 /\ next \in 1 .. Len(r) + 1
          /\ next + k \in 1 .. Len(y) + 1 /\ start + total + 1 <= Len(r) /\ (start + k) + total + 2 = next + k
      <4> DEFINE n == Len(r)
                 m == Len(y)
      <4>1. n \in Nat /\ m = n + k /\ start \in Nat /\ total \in Nat /\ at \in Nat /\ at >= 1 /\ at + 1 <= start
            /\ ~(n < start + total + 1)
        BY <1>0, <2>1, <2>7
      <4> HIDE DEF n, m
      <4>2. ~(m < (start + k) + total + 1) /\ start + total + 1 <= n /\ (start + k) + total + 2 = next + k
        BY <4>1
      <4>3. next \in at + 1 .. n + 1
        BY <4>1
      <4>4. next \in 1 .. n + 1
        BY <4>1
      <4>5. next + k \in 1 .. m + 1
        BY <4>1
      <4> QED  BY <4>2, <4>3, <4>4, <4>5 DEF n, m
    <3>2. Taken(y, at + k) = t
      BY <1>3, <3>1, MessageMoves DEF start, total
    <3> HIDE DEF t
    <3>3. h[at] = [h[next] EXCEPT !.messages = <<t>> \o @]
      BY <1>1, <1>3, <2>7 DEF ReadOp, start, total, t
    <3>4. g[at + k] = [g[next + k] EXCEPT !.messages = <<t>> \o @]
      BY <1>1, <2>2, <2>3, <2>7, <3>1, <3>2 DEF ReadOp
    <3> HIDE DEF next
    <3>5. h[next] \in OpsRead /\ g[next + k] \in OpsRead /\ Moves(k, g, h, next)
      BY <3>1 DEF Reads
    <3> DEFINE u == <<t>> \o h[next].messages
               v == <<t>> \o g[next + k].messages
    <3>6. u = v
      BY <3>5 DEF Moves
    <3> HIDE DEF u, v
    <3>7. h[at] = [h[next] EXCEPT !.messages = u] /\ g[at + k] = [g[next + k] EXCEPT !.messages = v]
      BY <3>3, <3>4 DEF u, v
    <3>8. h[at].messages = u /\ g[at + k].messages = v /\ h[at].rest = h[next].rest /\ g[at + k].rest = g[next + k].rest
          /\ h[at].broken = h[next].broken /\ g[at + k].broken = g[next + k].broken
      BY <3>5, <3>7 DEF OpsRead
    <3> QED  BY <3>5, <3>6, <3>8 DEF Moves
  <2> QED  BY <2>4, <2>5, <2>6, <2>7
<1> QED  BY <1>2, <1>3

\* So it holds of every place.
LEMMA MovesAll ==
    ASSUME NEW y \in Seq(Nat), NEW k \in Nat, NEW r \in Seq(Nat), Without(y, k, r),
           NEW g, NEW h, Reads(y, g), Reads(r, h)
    PROVE  \A at \in 1 .. Len(r) + 1 : Moves(k, g, h, at)
<1> DEFINE S == {at \in 1 .. Len(r) + 1 : Moves(k, g, h, at)}
<1>1. 1 \in Nat /\ Len(r) + 1 \in Nat
  OBVIOUS
<1>2. \A at \in 1 .. Len(r) + 1 : (\A j \in at + 1 .. Len(r) + 1 : j \in S) => at \in S
  <2>1. ASSUME NEW at \in 1 .. Len(r) + 1, \A j \in at + 1 .. Len(r) + 1 : Moves(k, g, h, j)
        PROVE  Moves(k, g, h, at)
    BY <2>1, MovesAt
  <2> QED  BY <2>1
<1>3. \A at \in 1 .. Len(r) + 1 : at \in S
  <2> HIDE DEF S
  <2> QED  BY <1>1, <1>2, Downward
<1> QED  BY <1>3

-----------------------------------------------------------------------------

Left(buffer) == SubSeq(buffer, Nats!Ops(buffer).rest, Len(buffer))

\* nats.py:235-268, whatever comes and however it is cut: to read a buffer, keep what is
\* left of it, and read that with the bytes that come next gives the messages, what is
\* left and the error that all the bytes at once would have given.
THEOREM CutsDoNotMatter ==
    ASSUME NEW a \in Seq(Nat), NEW b \in Seq(Nat)
    PROVE  IF Nats!Ops(a).broken THEN Nats!Ops(a \o b) = Nats!Ops(a)
           ELSE /\ Nats!Ops(a \o b).messages = Nats!Ops(a).messages \o Nats!Ops(Left(a) \o b).messages
                /\ Nats!Ops(a \o b).broken = Nats!Ops(Left(a) \o b).broken
                /\ Left(a \o b) = Left(Left(a) \o b)
<1> DEFINE y == a \o b
<1>0. y \in Seq(Nat) /\ Begins(a, y) /\ Len(y) = Len(a) + Len(b) /\ Len(a) \in Nat /\ Len(b) \in Nat
      /\ \A i \in 1 .. Len(b) : y[Len(a) + i] = b[i]
  BY DEF Begins
<1> HIDE DEF y
<1>1. PICK f : Nats!Ops(a) = f[1] /\ Reads(a, f)
  BY OpsFrom DEF Reads
<1>2. PICK g : Nats!Ops(y) = g[1] /\ Reads(y, g)
  BY <1>0, OpsFrom DEF Reads
<1>3. GoesOn(a, f, g, 1)
  <2>1. 1 \in 1 .. Len(a) + 1
    BY <1>0
  <2> QED  BY <1>0, <1>1, <1>2, <2>1, GoesOnAll
<1>4. CASE f[1].broken
  BY <1>1, <1>2, <1>3, <1>4 DEF GoesOn, y
<1>5. CASE ~f[1].broken
  <2> DEFINE p == f[1].rest
             k == p - 1
             l == SubSeq(a, p, Len(a))
             r == l \o b
  <2>1. p \in 1 .. Len(a) + 1 /\ p \in Nat /\ k \in Nat
    BY <1>0, <1>3 DEF GoesOn
  <2>2. l \in Seq(Nat) /\ Len(l) = Len(a) - k /\ \A i \in 1 .. Len(l) : l[i] = a[i + k]
    <3> HIDE DEF p
    <3> QED  BY <1>0, <2>1
  <2> HIDE DEF p, l
  <2>2a. InTurn(l, b, Nat)
    BY <2>2, Both
  <2>3. r \in Seq(Nat) /\ Without(y, k, r)
    <3>1. r \in Seq(Nat) /\ Len(r) = Len(y) - k
      <4>1. r \in Seq(Nat) /\ Len(r) = Len(l) + Len(b)
        BY <2>2a DEF InTurn
      <4> QED  BY <1>0, <2>1, <2>2, <4>1
    <3>2. ASSUME NEW i \in 1 .. Len(r) PROVE r[i] = y[i + k]
      <4>1. CASE i <= Len(l)
        <5>1. i + k \in 1 .. Len(a) /\ r[i] = l[i] /\ i \in 1 .. Len(l)
          BY <1>0, <2>1, <2>2, <4>1
        <5> QED  BY <1>0, <2>2, <5>1 DEF Begins
      <4>2. CASE ~(i <= Len(l))
        <5>1. i - Len(l) \in 1 .. Len(b) /\ r[i] = b[i - Len(l)] /\ Len(a) + (i - Len(l)) = i + k
          <6> DEFINE n == Len(l)
                     m == Len(a)
                     c == Len(b)
                     j == i - n
          <6>1. n \in Nat /\ m \in Nat /\ c \in Nat /\ n = m - k /\ k \in Nat /\ i \in 1 .. n + c /\ ~(i <= n)
            <7>1. Len(r) = Len(l) + Len(b)
              BY <2>2a DEF InTurn
            <7> QED  BY <1>0, <2>1, <2>2, <4>2, <7>1
          <6>2. \A q \in 1 .. c : r[n + q] = b[q]
            BY Zenon, <2>2a DEF InTurn
          <6> HIDE DEF n, m, c, r
          <6>3. j \in 1 .. c /\ n + j = i /\ m + j = i + k
            BY <6>1
          <6> HIDE DEF j
          <6>4. r[i] = b[j]
            BY Zenon, <6>2, <6>3
          <6> QED  BY Zenon, <6>3, <6>4 DEF n, m, c, j
        <5>2. y[Len(a) + (i - Len(l))] = b[i - Len(l)]
          BY <1>0, <5>1
        <5> QED  BY <5>1, <5>2
      <4> QED  BY <4>1, <4>2
    <3> QED  BY <3>1, <3>2 DEF Without
  <2> HIDE DEF r
  <2>4. PICK h : Nats!Ops(r) = h[1] /\ Reads(r, h)
    BY <2>3, OpsFrom DEF Reads
  <2>5. Moves(k, g, h, 1)
    <3>1. 1 \in 1 .. Len(r) + 1
      BY <2>3
    <3>2. Reads(y, g) /\ Reads(r, h)
      BY <1>2, <2>4
    <3> HIDE DEF k
    <3>3. \A at \in 1 .. Len(r) + 1 : Moves(k, g, h, at)
      BY <1>0, <2>1, <2>3, <3>2, MovesAll
    <3> QED  BY <3>1, <3>3
  <2>6. h[1].rest \in 1 .. Len(r) + 1
    <3>1. Begins(r, r) /\ 1 \in 1 .. Len(r) + 1
      BY <2>3 DEF Begins
    <3>2. GoesOn(r, h, h, 1)
      BY <2>3, <2>4, <3>1, GoesOnAll
    <3> QED  BY <3>2 DEF GoesOn
  <2>7. 1 + k = p
    BY <2>1
  <2>8. /\ g[1].messages = f[1].messages \o h[1].messages /\ g[1].broken = h[1].broken
        /\ g[1].rest = h[1].rest + k
    BY <1>3, <1>5, <2>5, <2>7 DEF GoesOn, Moves, p
  <2>9. SubSeq(y, h[1].rest + k, Len(y)) = SubSeq(r, h[1].rest, Len(r))
    <3> DEFINE q == h[1].rest
    <3>0. q \in 1 .. Len(r) + 1 /\ q \in Nat /\ Len(r) \in Nat /\ Len(y) = Len(r) + k /\ k \in Nat
      BY <1>0, <2>1, <2>3, <2>6 DEF Without
    <3> HIDE DEF q
    <3>1. ASSUME NEW i \in 1 .. Len(r) - q + 1 PROVE y[q + k + i - 1] = r[q + i - 1]
      <4>1. q + i - 1 \in 1 .. Len(r) /\ (q + i - 1) + k = q + k + i - 1
        BY <3>0
      <4> QED  BY <2>3, <4>1 DEF Without
    <3>2. SubSeq(r, q, Len(r)) = [i \in 1 .. Len(r) - q + 1 |-> r[q + i - 1]]
      BY <3>0
    <3>3. SubSeq(y, q + k, Len(y)) = [i \in 1 .. Len(r) - q + 1 |-> y[q + k + i - 1]]
      <4>1. Len(y) - (q + k) + 1 = Len(r) - q + 1
        BY <3>0
      <4> QED  BY SMTT(30), <3>0, <4>1
    <3> QED  BY <3>1, <3>2, <3>3 DEF q
  <2>10. Left(a) = l /\ Left(y) = SubSeq(y, g[1].rest, Len(y)) /\ Left(r) = SubSeq(r, h[1].rest, Len(r))
    BY <1>1, <1>2, <2>4 DEF Left, l, p
  <2>11. Nats!Ops(a) = f[1] /\ Nats!Ops(y) = g[1] /\ Nats!Ops(r) = h[1] /\ y = a \o b /\ r = Left(a) \o b
    BY <1>1, <1>2, <2>4, <2>10 DEF y, r
  <2> QED  BY <1>5, <2>8, <2>9, <2>10, <2>11
<1> QED  BY <1>1, <1>4, <1>5

-----------------------------------------------------------------------------
(* NATS: the client that takes the messages (cloud.py:446-521) *)

\* The clients a connection has, and one with another buffer.
IsClient(c) == c = [profile |-> c.profile, dps |-> c.dps, buffer |-> c.buffer, waiting |-> c.waiting, result |-> c.result]
With(c, buffer) == [c EXCEPT !.buffer = buffer]
AfterMessage(c, message) == Nats!OnDeviceMessage(c, message.subject, message.body)

\* What a message does has nothing to do with the bytes that wait.
AsideOf(c, message) ==
    /\ IsClient(AfterMessage(c, message))
    /\ AfterMessage(c, message).buffer = c.buffer
    /\ \A buffer : AfterMessage(With(c, buffer), message) = With(AfterMessage(c, message), buffer)

\* OnDeviceMessage neither reads nor changes the buffer.
LEMMA BufferAside ==
    ASSUME NEW c, IsClient(c), NEW message
    PROVE  AsideOf(c, message)
<1> DEFINE reports == IF message.subject = Nats!REPORT THEN Nats!DecodeStateReport(message.body) ELSE {}
           answers == IF message.subject = Nats!ANSWER THEN Nats!DecodeUpdateResponse(message.body) ELSE {}
           report == CHOOSE r \in reports : TRUE
           answer == CHOOSE r \in answers : TRUE
           Do(k) == CASE reports # {} -> [k EXCEPT !.dps = Nats!Merge(@, report.dps)]
                      [] answers # {} -> Nats!Resolve([k EXCEPT !.dps = IF answer.success THEN Nats!Merge(@, answer.dps) ELSE @],
                                                      answer.command, answer.success)
                      [] OTHER -> k
<1>1. \A k : AfterMessage(k, message) = Do(k)
  BY DEF AfterMessage, Nats!OnDeviceMessage
<1>0. reports = {} \/ answers = {}
  BY DEF Nats!REPORT, Nats!ANSWER
<1> HIDE DEF reports, answers, report, answer
<1>2. \A buffer : With(c, buffer) = [profile |-> c.profile, dps |-> c.dps, buffer |-> buffer,
                                     waiting |-> c.waiting, result |-> c.result]
  BY DEF IsClient, With
<1>3. CASE reports # {}
  <2> DEFINE dps == Nats!Merge(c.dps, report.dps)
             Then(buffer) == [profile |-> c.profile, dps |-> dps, buffer |-> buffer,
                              waiting |-> c.waiting, result |-> c.result]
  <2>1. ASSUME NEW buffer PROVE Do(With(c, buffer)) = Then(buffer)
    <3> DEFINE k == With(c, buffer)
    <3>1. k = [profile |-> c.profile, dps |-> c.dps, buffer |-> buffer, waiting |-> c.waiting, result |-> c.result]
      BY <1>2
    <3>2. k.dps = c.dps
      BY <3>1
    <3>3. Do(k) = [k EXCEPT !.dps = dps]
      <4> HIDE DEF k
      <4>1. Do(k) = [k EXCEPT !.dps = Nats!Merge(@, report.dps)]
        BY <1>0, <1>3
      <4> HIDE DEF Do
      <4> QED  BY <3>2, <4>1
    <3> HIDE DEF Do, dps, k
    <3>4. [k EXCEPT !.dps = dps] = Then(buffer)
      BY <3>1
    <3> QED  BY <3>3, <3>4 DEF k
  <2>2. c = With(c, c.buffer)
    BY <1>2 DEF IsClient
  <2>3. Do(c) = Then(c.buffer)
    <3> HIDE DEF Do, Then
    <3> QED  BY <2>1, <2>2
  <2> HIDE DEF Do, dps
  <2> QED  BY <1>1, <2>1, <2>3 DEF AsideOf, IsClient, With
<1>4. CASE reports = {} /\ answers # {}
  <2> DEFINE dps == IF answer.success THEN Nats!Merge(c.dps, answer.dps) ELSE c.dps
             mine == c.waiting # 0 /\ c.waiting = answer.command
             waiting == IF mine THEN 0 ELSE c.waiting
             verdict == IF mine THEN IF answer.success THEN "ok" ELSE "refused" ELSE c.result
             Then(buffer) == [profile |-> c.profile, dps |-> dps, buffer |-> buffer,
                              waiting |-> waiting, result |-> verdict]
  <2>1. ASSUME NEW buffer PROVE Do(With(c, buffer)) = Then(buffer)
    <3> DEFINE k == [profile |-> c.profile, dps |-> dps, buffer |-> buffer, waiting |-> c.waiting, result |-> c.result]
    <3>1. Do(With(c, buffer)) = Nats!Resolve(k, answer.command, answer.success)
      BY <1>2, <1>4
    <3> HIDE DEF dps
    <3>2. Nats!Resolve(k, answer.command, answer.success) = Then(buffer)
      BY DEF Nats!Resolve
    <3> QED  BY <3>1, <3>2
  <2>2. c = With(c, c.buffer)
    BY <1>2 DEF IsClient
  <2>3. Do(c) = Then(c.buffer)
    <3> HIDE DEF Do, Then
    <3> QED  BY <2>1, <2>2
  <2> HIDE DEF Do, dps, waiting, verdict
  <2> QED  BY <1>1, <2>1, <2>3 DEF AsideOf, IsClient, With
<1>5. CASE reports = {} /\ answers = {}
  <2>1. \A k : Do(k) = k
    BY <1>5
  <2> HIDE DEF Do
  <2> QED  BY <1>1, <2>1 DEF AsideOf
<1> QED  BY <1>3, <1>4, <1>5

\* Messages that are taken one after another.
Takes(c, messages, after) ==
    /\ after[0] = c
    /\ \A i \in 1 .. Len(messages) : after[i] = AfterMessage(after[i - 1], messages[i])

\* _feed: the messages in their turn, by a client that keeps what is left.
LEMMA FeedIs ==
    ASSUME NEW c, c.buffer \in Seq(Nat)
    PROVE  \E after :
             /\ Takes(With(c, Left(c.buffer)), Nats!Ops(c.buffer).messages, after)
             /\ Nats!Feed(c) = [client |-> after[Len(Nats!Ops(c.buffer).messages)],
                                broken |-> Nats!Ops(c.buffer).broken]
<1> DEFINE messages == Nats!Ops(c.buffer).messages
           n == Len(messages)
           first == With(c, Left(c.buffer))
           E(g, i) == IF i = 0 THEN first ELSE AfterMessage(g[i - 1], messages[i])
           after == CHOOSE g : g = [i \in 0 .. n |-> E(g, i)]
<1>1. n \in Nat
  <2>1. PICK from : Nats!Ops(c.buffer) = from[1] /\ Reads(c.buffer, from)
    BY OpsFrom DEF Reads
  <2>2. 1 \in 1 .. Len(c.buffer) + 1
    OBVIOUS
  <2>3. Nats!Ops(c.buffer) \in OpsRead
    BY <2>1, <2>2 DEF Reads
  <2> QED  BY <2>3 DEF OpsRead
<1>2. Nats!Feed(c) = [client |-> after[n], broken |-> Nats!Ops(c.buffer).broken]
  BY DEF Nats!Feed, With, Left, AfterMessage
<1> HIDE DEF n, messages, first
<1>3. \E g : g = [i \in 0 .. n |-> E(g, i)]
  <2> DEFINE S == {m \in Nat : \E g : g = [i \in 0 .. m |-> E(g, i)]}
  <2>1. 0 \in S
    <3> DEFINE g == [i \in 0 .. 0 |-> first]
    <3>1. g = [i \in 0 .. 0 |-> E(g, i)]
      OBVIOUS
    <3> HIDE DEF g
    <3> QED  BY <3>1
  <2>2. ASSUME NEW m \in Nat, m \in S PROVE m + 1 \in S
    <3>1. PICK g : g = [i \in 0 .. m |-> E(g, i)]
      BY <2>2
    <3> DEFINE h == [i \in 0 .. m + 1 |-> IF i = m + 1 THEN AfterMessage(g[m], messages[m + 1]) ELSE g[i]]
    <3>2. ASSUME NEW i \in 0 .. m + 1 PROVE h[i] = E(h, i)
      <4>1. CASE i = m + 1
        <5>1. h[i] = AfterMessage(g[m], messages[m + 1]) /\ h[m] = g[m] /\ i - 1 = m /\ i # 0
          BY <4>1
        <5> HIDE DEF h
        <5> QED  BY <4>1, <5>1
      <4>2. CASE i # m + 1
        <5>1. h[i] = g[i] /\ i \in 0 .. m /\ (i # 0 => h[i - 1] = g[i - 1])
          BY <4>2
        <5>2. g[i] = E(g, i)
          <6> HIDE DEF E
          <6> QED  BY <3>1, <5>1
        <5> HIDE DEF h
        <5> QED  BY <5>1, <5>2
      <4> QED  BY <4>1, <4>2
    <3>3. h = [i \in 0 .. m + 1 |-> h[i]]
      OBVIOUS
    <3>4. h = [i \in 0 .. m + 1 |-> E(h, i)]
      <4> HIDE DEF h, E
      <4> QED  BY <3>2, <3>3
    <3> HIDE DEF h, E
    <3> QED  BY <3>4
  <2>3. \A m \in Nat : m \in S
    <3> HIDE DEF S
    <3> QED  BY <2>1, <2>2, Induction
  <2> QED  BY <1>1, <2>3
<1>4. after = [i \in 0 .. n |-> E(after, i)]
  <2> HIDE DEF E
  <2> QED  BY <1>3
<1> HIDE DEF after
<1>5. \A i \in 0 .. n : after[i] = E(after, i)
  <2> HIDE DEF E
  <2> QED  BY <1>4
<1>6. Takes(first, messages, after)
  <2>1. after[0] = first
    <3>1. 0 \in 0 .. n
      BY <1>1
    <3> QED  BY <1>5, <3>1
  <2>2. ASSUME NEW i \in 1 .. n PROVE after[i] = AfterMessage(after[i - 1], messages[i])
    <3>1. i \in 0 .. n /\ i # 0
      OBVIOUS
    <3> QED  BY <1>5, <3>1
  <2> QED  BY <2>1, <2>2 DEF Takes, n
<1> QED  BY <1>2, <1>6 DEF n, messages, first

\* The buffer of a client that takes messages stays, and another one makes no difference.
Alike(c, buffer, messages, f, g) ==
    \A i \in 0 .. Len(messages) : IsClient(f[i]) /\ f[i].buffer = c.buffer /\ g[i] = With(f[i], buffer)

\* The same messages make the same of both.
LEMMA TakesAlike ==
    ASSUME NEW c, IsClient(c), NEW buffer, NEW messages \in Seq(NatsMessage), NEW more \in Seq(NatsMessage),
           Begins(messages, more), NEW f, Takes(c, messages, f), NEW g, Takes(With(c, buffer), more, g)
    PROVE  Alike(c, buffer, messages, f, g)
<1> DEFINE m == Len(messages)
           n == Len(more)
<1>0. m \in Nat /\ n \in Nat /\ m <= n /\ \A i \in 1 .. m : more[i] = messages[i]
  BY DEF Begins
<1>00. (\A i \in 1 .. m : f[i] = AfterMessage(f[i - 1], messages[i])) /\ \A i \in 1 .. n : g[i] = AfterMessage(g[i - 1], more[i])
  BY DEF Takes
<1> HIDE DEF m, n
<1> DEFINE Holds(i) == IsClient(f[i]) /\ f[i].buffer = c.buffer /\ g[i] = With(f[i], buffer)
           S == {i \in Nat : i <= m => Holds(i)}
<1>1. 0 \in S
  BY DEF Takes
<1>2. ASSUME NEW i \in Nat, i \in S PROVE i + 1 \in S
  <2> SUFFICES ASSUME i + 1 <= m PROVE Holds(i + 1)
    OBVIOUS
  <2>1. i + 1 \in 1 .. m /\ i + 1 \in 1 .. n /\ (i + 1) - 1 = i
    BY <1>0
  <2>2. Holds(i)
    BY <1>0, <1>2
  <2>3. f[i + 1] = AfterMessage(f[i], messages[i + 1]) /\ g[i + 1] = AfterMessage(g[i], messages[i + 1])
    BY <1>0, <1>00, <2>1
  <2>4. AsideOf(f[i], messages[i + 1])
    BY <2>2, BufferAside
  <2> QED  BY <2>2, <2>3, <2>4 DEF AsideOf
<1>3. \A i \in Nat : i \in S
  <2> HIDE DEF S
  <2> QED  BY <1>1, <1>2, Induction
<1> QED  BY <1>0, <1>3 DEF Alike, m

\* nats.py:235-268 with cloud.py:446-521: to a client it is all one how its bytes are cut,
\* what it knows and what it waits for is the same; and so it is when a line that is no
\* NATS ends the connection, whose buffer is dropped.
THEOREM FedInPieces ==
    ASSUME NEW c, IsClient(c), NEW a \in Seq(Nat), NEW b \in Seq(Nat)
    PROVE  LET first == Nats!Feed(With(c, a))
               whole == Nats!Feed(With(c, a \o b))
           IN IF first.broken THEN whole.broken /\ With(whole.client, <<>>) = With(first.client, <<>>)
              ELSE whole = Nats!Feed(With(first.client, first.client.buffer \o b))
<1> DEFINE y == a \o b
           ma == Nats!Ops(a).messages
           my == Nats!Ops(y).messages
           na == Len(ma)
           ny == Len(my)
<1>1. y \in Seq(Nat)
  OBVIOUS
<1>2. \A x : With(c, x).buffer = x /\ IsClient(With(c, x)) /\ \A z : With(With(c, x), z) = With(c, z)
  <2> TAKE x
  <2> DEFINE k == [profile |-> c.profile, dps |-> c.dps, buffer |-> x, waiting |-> c.waiting, result |-> c.result]
  <2>1. ASSUME NEW z
        PROVE  With(c, z) = [profile |-> c.profile, dps |-> c.dps, buffer |-> z,
                             waiting |-> c.waiting, result |-> c.result]
    BY DEF IsClient, With
  <2>2. With(c, x) = k
    BY <2>1
  <2>3. ASSUME NEW z PROVE With(k, z) = With(c, z)
    <3>1. With(k, z) = [profile |-> c.profile, dps |-> c.dps, buffer |-> z,
                        waiting |-> c.waiting, result |-> c.result]
      BY DEF With
    <3> QED  BY <2>1, <3>1
  <2>4. k.buffer = x /\ IsClient(k)
    BY DEF IsClient
  <2> HIDE DEF k
  <2> QED  BY <2>2, <2>3, <2>4
<1>3. PICK f : /\ Takes(With(c, Left(a)), ma, f)
               /\ Nats!Feed(With(c, a)) = [client |-> f[na], broken |-> Nats!Ops(a).broken]
  <2> DEFINE k == With(c, a)
  <2>1. k.buffer = a /\ With(k, Left(a)) = With(c, Left(a))
    BY <1>2
  <2> HIDE DEF k
  <2>2. \E after : /\ Takes(With(k, Left(k.buffer)), Nats!Ops(k.buffer).messages, after)
                   /\ Nats!Feed(k) = [client |-> after[Len(Nats!Ops(k.buffer).messages)],
                                      broken |-> Nats!Ops(k.buffer).broken]
    BY <2>1, FeedIs
  <2> QED  BY <2>1, <2>2 DEF k
<1>4. PICK g : /\ Takes(With(c, Left(y)), my, g)
               /\ Nats!Feed(With(c, y)) = [client |-> g[ny], broken |-> Nats!Ops(y).broken]
  <2> DEFINE k == With(c, y)
  <2>1. k.buffer = y /\ With(k, Left(y)) = With(c, Left(y))
    BY <1>2
  <2> HIDE DEF k, y
  <2>2. \E after : /\ Takes(With(k, Left(k.buffer)), Nats!Ops(k.buffer).messages, after)
                   /\ Nats!Feed(k) = [client |-> after[Len(Nats!Ops(k.buffer).messages)],
                                      broken |-> Nats!Ops(k.buffer).broken]
    BY <1>1, <2>1, FeedIs
  <2> QED  BY <2>1, <2>2 DEF k
<1>5. ma \in Seq(NatsMessage) /\ my \in Seq(NatsMessage) /\ na \in Nat /\ ny \in Nat
  <2>1. \A x \in Seq(Nat) : Nats!Ops(x) \in OpsRead
    <3> TAKE x \in Seq(Nat)
    <3>1. PICK from : Nats!Ops(x) = from[1] /\ Reads(x, from)
      BY OpsFrom DEF Reads
    <3>2. 1 \in 1 .. Len(x) + 1
      OBVIOUS
    <3> QED  BY <3>1, <3>2 DEF Reads
  <2>2. Nats!Ops(a) \in OpsRead /\ Nats!Ops(y) \in OpsRead
    BY <1>1, <2>1
  <2>3. ma \in Seq(NatsMessage) /\ my \in Seq(NatsMessage)
    BY <2>2 DEF OpsRead
  <2> HIDE DEF ma, my
  <2> QED  BY <2>3
<1>6. ASSUME na <= ny, \A i \in 1 .. na : my[i] = ma[i]
      PROVE  \A i \in 0 .. na : IsClient(f[i]) /\ f[i].buffer = Left(a) /\ g[i] = With(f[i], Left(y))
  <2> DEFINE k == With(c, Left(a))
  <2>1. IsClient(k) /\ k.buffer = Left(a) /\ With(k, Left(y)) = With(c, Left(y))
    BY <1>2
  <2> HIDE DEF k, y, ma, my, na, ny
  <2>2. Takes(k, ma, f) /\ Takes(With(k, Left(y)), my, g)
    BY <1>3, <1>4, <2>1 DEF k
  <2>3. Begins(ma, my)
    BY <1>6 DEF na, ny, Begins
  <2>4. Alike(k, Left(y), ma, f, g)
    BY <1>5, <2>1, <2>2, <2>3, TakesAlike
  <2> QED  BY <2>1, <2>4 DEF Alike, na
<1>7. CASE Nats!Ops(a).broken
  <2>1. Nats!Ops(y) = Nats!Ops(a)
    BY <1>7, CutsDoNotMatter
  <2>2. g[na] = With(f[na], Left(y)) /\ IsClient(f[na])
    BY <1>5, <1>6, <2>1
  <2>3. With(g[na], <<>>) = With(f[na], <<>>)
    BY <2>2 DEF With, IsClient
  <2>4. Nats!Feed(With(c, y)) = [client |-> g[na], broken |-> TRUE]
    BY <1>4, <1>7, <2>1
  <2> HIDE DEF y, na, ma, ny, my
  <2> QED  BY <1>3, <1>7, <2>3, <2>4 DEF y
<1>8. CASE ~Nats!Ops(a).broken
  <2> DEFINE r == Left(a) \o b
             mr == Nats!Ops(r).messages
             nr == Len(mr)
             k == With(f[na], r)
  <2>0. Left(a) \in Seq(Nat) /\ r \in Seq(Nat)
    <3>1. PICK from : Nats!Ops(a) = from[1] /\ Reads(a, from)
      BY OpsFrom DEF Reads
    <3>2. GoesOn(a, from, from, 1)
      <4>1. 1 \in 1 .. Len(a) + 1 /\ Begins(a, a)
        BY DEF Begins
      <4> QED  BY <3>1, <4>1, GoesOnAll
    <3>3. from[1].rest \in Int /\ from[1].rest >= 1 /\ Len(a) \in Int
      BY <3>2 DEF GoesOn
    <3>4. Left(a) \in Seq(Nat)
      BY <3>1, <3>3, Part DEF Left
    <3> QED  BY <3>4
  <2>1. my = ma \o mr /\ Nats!Ops(y).broken = Nats!Ops(r).broken /\ Left(y) = Left(r)
    BY <1>8, CutsDoNotMatter
  <2>2. mr \in Seq(NatsMessage) /\ nr \in Nat
    <3>1. PICK from : Nats!Ops(r) = from[1] /\ Reads(r, from)
      BY <2>0, OpsFrom DEF Reads
    <3>2. 1 \in 1 .. Len(r) + 1
      BY <2>0
    <3>3. Nats!Ops(r) \in OpsRead
      BY <3>1, <3>2 DEF Reads
    <3> QED  BY <3>3 DEF OpsRead
  <2> HIDE DEF r
  <2>3. ny = na + nr /\ (\A i \in 1 .. na : my[i] = ma[i]) /\ \A i \in 1 .. nr : my[na + i] = mr[i]
    <3>1. InTurn(ma, mr, NatsMessage)
      <4> HIDE DEF ma, mr
      <4> QED  BY <1>5, <2>2, Both
    <3> QED  BY <2>1, <3>1 DEF InTurn
  <2>4. IsClient(f[na]) /\ f[na].buffer = Left(a) /\ g[na] = With(f[na], Left(y))
    <3>1. na <= ny /\ na \in 0 .. na
      <4> HIDE DEF na, ny, nr
      <4> QED  BY <1>5, <2>2, <2>3
    <3> QED  BY <1>6, <2>3, <3>1
  <2>5. k.buffer = r /\ With(k, Left(r)) = g[na]
    BY <2>1, <2>4 DEF With, IsClient
  <2> HIDE DEF k, y, ma, my, mr, na, ny, nr
  <2>6. PICK h : /\ Takes(With(k, Left(r)), mr, h)
                 /\ Nats!Feed(k) = [client |-> h[nr], broken |-> Nats!Ops(r).broken]
    <3>1. \E after : /\ Takes(With(k, Left(k.buffer)), Nats!Ops(k.buffer).messages, after)
                     /\ Nats!Feed(k) = [client |-> after[Len(Nats!Ops(k.buffer).messages)],
                                        broken |-> Nats!Ops(k.buffer).broken]
      BY <2>0, <2>5, FeedIs
    <3> QED  BY <2>5, <3>1 DEF mr, nr
  <2>7. \A i \in 0 .. nr : g[na + i] = h[i]
    <3> DEFINE S == {i \in Nat : i <= nr => g[na + i] = h[i]}
    <3>1. 0 \in S
      <4>1. na + 0 = na /\ h[0] = g[na]
        BY <1>5, <2>5, <2>6 DEF Takes
      <4> QED  BY <4>1
    <3>2. ASSUME NEW i \in Nat, i \in S PROVE i + 1 \in S
      <4> SUFFICES ASSUME i + 1 <= nr PROVE g[na + (i + 1)] = h[i + 1]
        OBVIOUS
      <4>1. i + 1 \in 1 .. nr /\ na + (i + 1) \in 1 .. ny /\ (i + 1) - 1 = i /\ (na + (i + 1)) - 1 = na + i
        BY <1>5, <2>2, <2>3
      <4>2. g[na + i] = h[i]
        BY <2>2, <3>2
      <4>3. h[i + 1] = AfterMessage(h[i], mr[i + 1])
        BY <2>6, <4>1 DEF Takes, nr
      <4>4. g[na + (i + 1)] = AfterMessage(g[na + i], my[na + (i + 1)])
        BY <1>4, <4>1 DEF Takes, ny
      <4> QED  BY <2>3, <4>1, <4>2, <4>3, <4>4
    <3>3. \A i \in Nat : i \in S
      <4> HIDE DEF S
      <4> QED  BY <3>1, <3>2, Induction
    <3> QED  BY <3>3
  <2>8. Nats!Feed(With(c, y)) = Nats!Feed(k)
    <3>1. g[ny] = h[nr]
      BY <2>2, <2>3, <2>7
    <3> QED  BY <1>4, <2>1, <2>6, <3>1
  <2>9. k = With(f[na], f[na].buffer \o b)
    BY <2>4 DEF k, r
  <2>10. ~Nats!Feed(With(c, a)).broken /\ Nats!Feed(With(c, a)).client = f[na]
    BY <1>3, <1>8
  <2> QED  BY <2>8, <2>9, <2>10 DEF y
<1> QED  BY <1>7, <1>8

-----------------------------------------------------------------------------
(* NATS: what is sent *)

\* A line, headers and a body, as they come.
Packet(cell, headers, body) == (((<<cell>> \o Nats!CRLF) \o headers) \o body) \o Nats!CRLF

\* Where its parts lie.
Packs(x, cell, headers, body) ==
    /\ x \in Seq(Nat) /\ Len(x) = (3 + Len(headers) + Len(body)) + 2
    /\ x[1] = cell /\ x[2] = Nats!CR /\ x[3] = Nats!LF
    /\ SubSeq(x, 4 + Len(headers), 3 + Len(headers) + Len(body)) = body

LEMMA PacketIs ==
    ASSUME NEW cell \in Nat, NEW headers \in Seq(Nat), NEW body \in Seq(Nat)
    PROVE  Packs(Packet(cell, headers, body), cell, headers, body)
<1> DEFINE u == <<cell>> \o Nats!CRLF
           v == u \o headers
           w == v \o body
           x == w \o Nats!CRLF
           n == Len(headers)
           b == Len(body)
<1>0. n \in Nat /\ b \in Nat /\ Nats!CRLF \in Seq(Nat) /\ Len(Nats!CRLF) = 2 /\ Nats!CR \in Nat /\ Nats!LF \in Nat
  BY DEF Nats!CRLF, Nats!CR, Nats!LF
<1>1. u \in Seq(Nat) /\ Len(u) = 3 /\ u[1] = cell /\ u[2] = Nats!CR /\ u[3] = Nats!LF
  BY <1>0 DEF Nats!CRLF
<1> HIDE DEF u
<1>2. v \in Seq(Nat) /\ Len(v) = 3 + n /\ \A i \in 1 .. 3 : v[i] = u[i]
  <2>1. InTurn(u, headers, Nat)
    BY <1>1, Both
  <2> HIDE DEF n, b
  <2> QED  BY <1>1, <2>1 DEF InTurn, n
<1> HIDE DEF v
<1>3. w \in Seq(Nat) /\ Len(w) = 3 + n + b /\ (\A i \in 1 .. 3 + n : w[i] = v[i]) /\ \A i \in 1 .. b : w[3 + n + i] = body[i]
  <2>1. InTurn(v, body, Nat)
    BY <1>2, Both
  <2> HIDE DEF n, b
  <2> QED  BY <1>2, <2>1 DEF InTurn, b
<1> HIDE DEF w
<1>4. x \in Seq(Nat) /\ Len(x) = 3 + n + b + 2 /\ \A i \in 1 .. 3 + n + b : x[i] = w[i]
  <2>1. InTurn(w, Nats!CRLF, Nat)
    BY <1>0, <1>3, Both
  <2> HIDE DEF n, b
  <2> QED  BY <1>0, <1>3, <2>1 DEF InTurn
<1> HIDE DEF x, n, b
<1>5. x[1] = cell /\ x[2] = Nats!CR /\ x[3] = Nats!LF
  <2>1. 1 \in 1 .. 3 /\ 2 \in 1 .. 3 /\ 3 \in 1 .. 3 /\ \A i \in 1 .. 3 : i \in 1 .. 3 + n /\ i \in 1 .. 3 + n + b
    BY <1>0
  <2> QED  BY <1>1, <1>2, <1>3, <1>4, <2>1
<1>6. SubSeq(x, 4 + n, 3 + n + b) = body
  <2>1. ASSUME NEW i \in 1 .. b PROVE x[4 + n + i - 1] = body[i]
    <3>1. 3 + n + i \in 1 .. 3 + n + b /\ 4 + n + i - 1 = 3 + n + i
      BY <1>0
    <3> QED  BY <1>3, <1>4, <3>1
  <2>2. SubSeq(x, 4 + n, 3 + n + b) = [i \in 1 .. b |-> x[4 + n + i - 1]]
    <3>1. (3 + n + b) - (4 + n) + 1 = b
      BY <1>0
    <3> QED  BY <1>0, <3>1
  <2>3. body = [i \in 1 .. b |-> body[i]]
    BY DEF b
  <2> QED  BY <2>1, <2>2, <2>3
<1>7. x = Packet(cell, headers, body)
  BY DEF Packet, u, v, w, x
<1>8. Packs(x, cell, headers, body)
  <2>1. Len(x) = (3 + n + b) + 2
    BY <1>4
  <2> QED  BY <1>4, <1>5, <1>6, <2>1 DEF Packs, n, b
<1> QED  BY <1>7, <1>8

\* A line tells what it was made of.
Tells(cell, op, subject, head, total) ==
    /\ cell \in Nat /\ cell # Nats!CR
    /\ cell % 10 = op /\ (cell \div 10) % 10 = subject
    /\ (cell \div 100) % 10 = head /\ (cell \div 1000) % 1000 = total

\* The line of an op with its numbers.
LEMMA LineTells ==
    ASSUME NEW op \in 0 .. 9, NEW subject \in 0 .. 9, NEW head \in 0 .. 9, NEW total \in 0 .. 999
    PROVE  Tells(Nats!Line(op, subject, head, total), op, subject, head, total)
<1> DEFINE cell == Nats!Line(op, subject, head, total)
<1>1. cell = 1000000 + op + 10 * subject + 100 * head + 1000 * total
  <2>1. 10^6 = 1000000
    OBVIOUS
  <2> QED  BY <2>1 DEF Nats!Line
<1> HIDE DEF cell
<1>2. cell \in Nat /\ cell > 13
  BY <1>1
<1>3. cell = 10 * (100000 + subject + 10 * head + 100 * total) + op
  BY <1>1
<1>4. cell % 10 = op /\ cell \div 10 = 100000 + subject + 10 * head + 100 * total
  BY <1>3
<1>5. cell \div 10 = 10 * (10000 + head + 10 * total) + subject
  BY <1>4
<1>6. (cell \div 10) % 10 = subject
  BY <1>5
<1>7. cell = 100 * (10000 + head + 10 * total) + (op + 10 * subject) /\ op + 10 * subject \in 0 .. 99
  BY <1>1
<1>8. cell \div 100 = 10 * (1000 + total) + head
  BY <1>7
<1>9. (cell \div 100) % 10 = head
  BY <1>8
<1>10. cell = 1000 * (1000 + total) + (op + 10 * subject + 100 * head) /\ op + 10 * subject + 100 * head \in 0 .. 999
  BY <1>1
<1>11. cell \div 1000 = 1000 + total
  BY <1>10
<1>12. (cell \div 1000) % 1000 = total
  BY <1>11
<1> QED  BY <1>2, <1>4, <1>6, <1>9, <1>12 DEF cell, Nats!CR, Tells

\* What begins with a line has that line.
LEMMA FirstLine ==
    ASSUME NEW x \in Seq(Nat), Len(x) >= 3, x[1] # Nats!CR, x[2] = Nats!CR, x[3] = Nats!LF
    PROVE  /\ 1 \in 1 .. Len(x) + 1 /\ LineEnds(x, 1) # {} /\ LineEnd(x, 1) = 2
           /\ Cell(x, 1) = x[1]
<1>0. Len(x) \in Nat
  OBVIOUS
<1>1. 2 \in LineEnds(x, 1) /\ 1 \notin LineEnds(x, 1) /\ 1 \in 1 .. Len(x) + 1
  BY <1>0 DEF LineEnds
<1>2. LineEnd(x, 1) \in LineEnds(x, 1) /\ LineEnd(x, 1) \in Nat /\ 1 <= LineEnd(x, 1)
      /\ \A i \in LineEnds(x, 1) : LineEnd(x, 1) <= i
  BY <1>1, LineIs
<1>3. LineEnd(x, 1) <= 2 /\ LineEnd(x, 1) # 1
  BY <1>1, <1>2
<1>4. LineEnd(x, 1) = 2
  BY <1>2, <1>3
<1> QED  BY <1>1, <1>4 DEF Cell

\* A message that comes alone is read as it was sent.
LEMMA PacketIsRead ==
    ASSUME NEW op \in {Nats!MSG, Nats!HMSG}, NEW subject \in 0 .. 9, NEW headers \in Seq(Nat), NEW body \in Seq(Nat),
           Len(headers) <= 9, Len(headers) + Len(body) <= 999, op = Nats!MSG => headers = <<>>
    PROVE  LET x == Packet(Nats!Line(op, subject, Len(headers), Len(headers) + Len(body)), headers, body)
           IN /\ x \in Seq(Nat)
              /\ Nats!Ops(x) = [messages |-> << [subject |-> subject, body |-> body] >>,
                                rest |-> Len(x) + 1, broken |-> FALSE]
<1> DEFINE n == Len(headers)
           t == Len(headers) + Len(body)
           cell == Nats!Line(op, subject, n, t)
           x == Packet(cell, headers, body)
<1>0. n \in 0 .. 9 /\ t \in 0 .. 999 /\ n <= t /\ op \in 0 .. 9 /\ (op = Nats!MSG => n = 0)
  <2>1. Len(body) \in Nat /\ n \in Nat /\ (op = Nats!MSG => n = 0)
    OBVIOUS
  <2>2. n <= t /\ n <= 9 /\ t <= 999 /\ t \in Nat
    BY <2>1
  <2>3. op \in 0 .. 9
    BY DEF Nats!MSG, Nats!HMSG
  <2> HIDE DEF n, t
  <2> QED  BY <2>1, <2>2, <2>3
<1>1. /\ cell \in Nat /\ cell # Nats!CR
      /\ cell % 10 = op /\ (cell \div 10) % 10 = subject
      /\ (cell \div 100) % 10 = n /\ (cell \div 1000) % 1000 = t
  <2> HIDE DEF n, t
  <2>1. Tells(cell, op, subject, n, t)
    BY ZenonT(30), <1>0, LineTells
  <2> HIDE DEF cell
  <2> QED  BY <2>1 DEF Tells
<1>2. /\ x \in Seq(Nat) /\ Len(x) = 5 + t
      /\ x[1] = cell /\ x[2] = Nats!CR /\ x[3] = Nats!LF
      /\ SubSeq(x, 4 + n, 3 + t) = body
  <2>1. /\ x \in Seq(Nat) /\ Len(x) = (3 + Len(headers) + Len(body)) + 2
        /\ x[1] = cell /\ x[2] = Nats!CR /\ x[3] = Nats!LF
        /\ SubSeq(x, 4 + Len(headers), 3 + Len(headers) + Len(body)) = body
    <3>1. cell \in Nat
      BY <1>1
    <3> HIDE DEF cell, n, t
    <3>2. Packs(x, cell, headers, body)
      BY <3>1, PacketIs
    <3> HIDE DEF x
    <3> QED  BY <3>2 DEF Packs
  <2>2. (3 + Len(headers) + Len(body)) + 2 = 5 + t /\ 3 + Len(headers) + Len(body) = 3 + t
    OBVIOUS
  <2> HIDE DEF x
  <2> QED  BY <2>1, <2>2
<1> HIDE DEF x, cell, n, t
<1>3. 1 \in 1 .. Len(x) + 1 /\ LineEnds(x, 1) # {} /\ LineEnd(x, 1) = 2 /\ Cell(x, 1) = cell
  <2>1. Len(x) >= 3 /\ x[1] # Nats!CR
    BY <1>0, <1>1, <1>2
  <2>2. 1 \in 1 .. Len(x) + 1 /\ LineEnds(x, 1) # {} /\ LineEnd(x, 1) = 2 /\ Cell(x, 1) = x[1]
    BY <1>2, <2>1, FirstLine
  <2> QED  BY <1>2, <2>2
<1>4. Op(x, 1) = op /\ Subject(x, 1) = subject /\ HeadLen(x, 1) = n /\ TotalLen(x, 1) = t
  <2>1. Op(x, 1) = op /\ Subject(x, 1) = subject /\ TotalLen(x, 1) = t
    BY ZenonT(30), <1>1, <1>3 DEF Op, Subject, TotalLen
  <2>2. HeadLen(x, 1) = n
    <3>1. CASE op = Nats!HMSG
      BY SMTT(30), <1>1, <1>3, <2>1, <3>1 DEF HeadLen
    <3>2. CASE op # Nats!HMSG
      <4>1. op = Nats!MSG
        BY <3>2
      <4> QED  BY <1>0, <2>1, <3>2, <4>1 DEF HeadLen
    <3> QED  BY <3>1, <3>2
  <2> QED  BY <2>1, <2>2
<1>5. PICK f : Nats!Ops(x) = f[1] /\ Reads(x, f)
  BY <1>2, OpsFrom DEF Reads
<1>6. f[Len(x) + 1] = [messages |-> <<>>, rest |-> Len(x) + 1, broken |-> FALSE]
  <2>1. LineEnds(x, Len(x) + 1) = {} /\ Len(x) + 1 \in 1 .. Len(x) + 1
    BY SMTT(30), <1>2 DEF LineEnds
  <2> QED  BY <1>5, <2>1 DEF Reads, ReadOp
<1>7. Taken(x, 1) = [subject |-> subject, body |-> body]
  <2>1. 2 + 2 + n = 4 + n /\ 2 + 2 + t - 1 = 3 + t
    BY <1>0
  <2> QED  BY <1>2, <1>3, <1>4, <2>1 DEF Taken, Nats!Body
<1>8. f[1] = [f[Len(x) + 1] EXCEPT !.messages = << Taken(x, 1) >> \o @]
  <2>1. ~(Len(x) < (2 + 2) + t + 1) /\ (2 + 2) + t + 2 = Len(x) + 1 /\ ~(n > t)
    BY <1>0, <1>2
  <2>2. f[1] = ReadOp(x, f, 1)
    BY <1>3, <1>5 DEF Reads
  <2>3. Op(x, 1) \in {Nats!MSG, Nats!HMSG}
    BY <1>4
  <2> QED  BY <1>3, <1>4, <2>1, <2>2, <2>3 DEF ReadOp
<1>9. f[1] = [messages |-> << Taken(x, 1) >>, rest |-> Len(x) + 1, broken |-> FALSE]
  <2> DEFINE m == << Taken(x, 1) >> \o <<>>
  <2>1. m = << Taken(x, 1) >>
    OBVIOUS
  <2> DEFINE e == [messages |-> <<>>, rest |-> Len(x) + 1, broken |-> FALSE]
  <2>2. f[1] = [e EXCEPT !.messages = << Taken(x, 1) >> \o @]
    <3> HIDE DEF e
    <3>1. f[Len(x) + 1] = e
      BY <1>6 DEF e
    <3> QED  BY <1>8, <3>1
  <2>3. f[1] = [e EXCEPT !.messages = m]
    BY <2>2
  <2> HIDE DEF m
  <2>4. f[1] = [messages |-> m, rest |-> Len(x) + 1, broken |-> FALSE]
    BY <2>3
  <2> QED  BY <2>1, <2>4
<1> QED  BY <1>2, <1>5, <1>7, <1>9 DEF x, cell, n, t

\* What is read alone and leaves nothing is read before whatever comes after it.
LEMMA ReadBefore ==
    ASSUME NEW x \in Seq(Nat), NEW z \in Seq(Nat), ~Nats!Ops(x).broken, Nats!Ops(x).rest = Len(x) + 1
    PROVE  /\ Nats!Ops(x \o z).messages = Nats!Ops(x).messages \o Nats!Ops(z).messages
           /\ Nats!Ops(x \o z).broken = Nats!Ops(z).broken
           /\ Left(x \o z) = Left(z)
<1>1. Left(x) = <<>>
  BY DEF Left
<1>2. Left(x) \o z = z
  BY <1>1
<1> QED  BY <1>2, CutsDoNotMatter

-----------------------------------------------------------------------------
(* Protobuf: varints (protobuf.py:24-39, 84-96) *)

Byte == 0 .. 255
Number == 0 .. Nats!Word - 1

\* Bytes are numbers below 256.
LEMMA BytesAre ==
    ASSUME NEW s \in Seq(Byte)
    PROVE  s \in Seq(Nat) /\ Len(s) \in Nat /\ \A i \in 1 .. Len(s) : s[i] \in Nat /\ s[i] < 256
<1>1. \A i \in 1 .. Len(s) : s[i] \in Byte
  OBVIOUS
<1>2. \A x \in Byte : x \in Nat /\ x < 256
  BY DEF Byte
<1> HIDE DEF Byte
<1>3. \A i \in 1 .. Len(s) : s[i] \in Nat
  BY <1>1, <1>2
<1> QED  BY <1>1, <1>2, <1>3

\* A number in groups of seven bits: as few as hold it, the last below 128.
IsVarint(s, v) ==
    /\ s \in Seq(Byte)
    /\ Len(s) \in 1 .. 3
    /\ s[Len(s)] < 128 /\ \A i \in 1 .. Len(s) - 1 : s[i] >= 128
    /\ Len(s) = 1 => s[1] % 128 = v
    /\ Len(s) = 2 => (s[1] % 128) + (s[2] % 128) * 128 = v
    /\ Len(s) = 3 => (s[1] % 128) + (s[2] % 128) * 128 + (s[3] % 128) * 16384 = v

Makes(a, b, c, v) ==
    /\ a \in 0 .. 127 /\ b \in 0 .. 127 /\ c \in 0 .. 1
    /\ v = a + b * 128 + c * 16384
    /\ v < 16384 => v = a + b * 128
    /\ v < 128 => v = a

Splits(v, i, j, k) == v \in 0 .. 32767 /\ i = v % 128 /\ j = (v \div 128) % 128 /\ k = (v \div 16384) % 128

\* A number lies in one of the two halves.
Above(v, p, m) == p \in 0 .. 1 /\ m \in 0 .. 16383 /\ v = 16384 * p + m

LEMMA AboveIs ==
    ASSUME NEW v, NEW p, NEW m, Above(v, p, m)
    PROVE  v \div 16384 = p
<1>1. (p = 0 \/ p = 1) /\ m \in Nat /\ m <= 16383 /\ v = 16384 * p + m
  BY DEF Above
<1>2. CASE p = 0
  <2>1. v \in Nat /\ v <= 16383
    BY <1>1, <1>2
  <2> QED  BY <1>2, <2>1
<1>3. CASE p = 1
  <2>1. v \in Nat /\ 16384 <= v /\ v <= 32767
    BY <1>1, <1>3
  <2> QED  BY <1>3, <2>1
<1> QED  BY <1>1, <1>2, <1>3

\* A number is seven bits and what is above them.
Sevens(x) == x = 128 * (x \div 128) + (x % 128) /\ x % 128 \in 0 .. 127 /\ x \div 128 \in 0 .. 255

Fifteen == 0 .. 32767

LEMMA SevensAre ==
    ASSUME NEW x \in Fifteen
    PROVE  Sevens(x)
<1>0. x \in 0 .. 32767
  BY DEF Fifteen
<1>1. x = 128 * (x \div 128) + (x % 128) /\ x % 128 \in 0 .. 127
  BY <1>0
<1>d. x \div 128 \in Nat
  BY <1>0
<1>2. x \div 128 \in 0 .. 255
  <2> DEFINE d == x \div 128
             r == x % 128
  <2>1. x = 128 * d + r /\ r \in 0 .. 127 /\ d \in Nat
    BY <1>1, <1>d
  <2> HIDE DEF d, r
  <2>2. x \in Nat /\ x <= 32767
    BY <1>0
  <2>3. ~(d > 255)
    BY SMTT(30), <2>1, <2>2
  <2>4. d \in 0 .. 255
    BY <2>1, <2>3
  <2> QED  BY <2>4 DEF d
<1> QED  BY <1>1, <1>2 DEF Sevens

\* The three groups of seven bits of a number, and how few make it.
LEMMA Groups ==
    ASSUME NEW i, NEW j, NEW k, NEW v, Splits(v, i, j, k)
    PROVE  Makes(i, j, k, v)
<1>0. v \in 0 .. 32767 /\ i = v % 128 /\ j = (v \div 128) % 128 /\ k = (v \div 16384) % 128
  BY DEF Splits
<1> DEFINE q == v \div 128
           a == v % 128
<1>1. v = 128 * q + a /\ a \in 0 .. 127 /\ q \in 0 .. 255
  <2>0. v \in Fifteen
    BY <1>0 DEF Fifteen
  <2>1. Sevens(v)
    BY <2>0, SevensAre
  <2> QED  BY <2>1 DEF Sevens
<1> DEFINE p == q \div 128
           b == q % 128
<1>2. q = 128 * p + b /\ b \in 0 .. 127 /\ p \in 0 .. 1
  <2> HIDE DEF q
  <2> QED  BY <1>1
<1>3. v \div 16384 = p
  <2> HIDE DEF q, a, p, b
  <2> DEFINE m == 128 * b + a
  <2>1. m \in 0 .. 16383 /\ v = 16384 * p + m
    BY <1>1, <1>2
  <2> HIDE DEF m
  <2>2. Above(v, p, m)
    BY <1>2, <2>1 DEF Above
  <2> QED  BY <2>2, AboveIs
<1>3a. i = a /\ j = b /\ k = p % 128
  BY <1>0, <1>3
<1> HIDE DEF p, q, a, b
<1>4. p % 128 = p /\ v = a + b * 128 + p * 16384 /\ (v < 16384 => p = 0) /\ (v < 128 => p = 0 /\ b = 0)
  BY <1>1, <1>2
<1> QED  BY <1>1, <1>2, <1>3, <1>3a, <1>4 DEF Makes

\* _varint writes such groups.
LEMMA VarintIs ==
    ASSUME NEW v \in Number
    PROVE  IsVarint(Nats!Varint(v), v)
<1> DEFINE sizes == {n \in 1 .. Nats!MaxVarintBytes : n = Nats!MaxVarintBytes \/ v < Nats!Weight[n + 1]}
           size == Nats!Min(sizes)
           s == Nats!Varint(v)
           a == v % 128
           b == (v \div 128) % 128
           c == (v \div 16384) % 128
<1>0. v \in 0 .. 32767
  <2>1. 2^15 = 32768
    OBVIOUS
  <2>2. Nats!Word = 32768
    BY <2>1 DEF Nats!Word
  <2> QED  BY <2>2 DEF Number
<1>1. Nats!Weight[1] = 1 /\ Nats!Weight[2] = 128 /\ Nats!Weight[3] = 16384
  BY DEF Nats!Weight
<1>2. size \in sizes /\ size \in 1 .. 3 /\ \A n \in sizes : size <= n
  <2>1. 3 \in sizes /\ sizes \in SUBSET Nat /\ sizes \subseteq 1 .. 3
    BY DEF Nats!MaxVarintBytes
  <2> HIDE DEF sizes
  <2> QED  BY <2>1, MinIs
<1>3. /\ size = 1 => v < 128
      /\ size = 2 => v < 16384
      /\ size > 1 => v >= 128
      /\ size > 2 => v >= 16384
  <2>1. 1 \in sizes <=> v < 128
    BY <1>1 DEF Nats!MaxVarintBytes
  <2>2. 2 \in sizes <=> v < 16384
    BY <1>1 DEF Nats!MaxVarintBytes
  <2> HIDE DEF sizes, size
  <2> QED  BY <1>0, <1>2, <2>1, <2>2
<1>4. s = [i \in 1 .. size |-> ((v \div Nats!Weight[i]) % 128) + IF i < size THEN 128 ELSE 0]
  BY DEF Nats!Varint
<1> HIDE DEF size, s, sizes
<1>5. Makes(a, b, c, v)
  <2>1. Splits(v, a, b, c)
    BY <1>0 DEF Splits
  <2> HIDE DEF a, b, c
  <2> QED  BY <2>1, Groups
<1>6. /\ s[1] = a + IF 1 < size THEN 128 ELSE 0
      /\ 2 <= size => s[2] = b + IF 2 < size THEN 128 ELSE 0
      /\ 3 <= size => s[3] = c
  <2>1. v \div 1 = v
    BY <1>0
  <2>2. /\ s[1] = ((v \div Nats!Weight[1]) % 128) + IF 1 < size THEN 128 ELSE 0
        /\ 2 <= size => s[2] = ((v \div Nats!Weight[2]) % 128) + IF 2 < size THEN 128 ELSE 0
        /\ 3 <= size => s[3] = ((v \div Nats!Weight[3]) % 128) + IF 3 < size THEN 128 ELSE 0
    BY <1>2, <1>4
  <2>3. c + 0 = c /\ ~(3 < size)
    BY <1>0, <1>2
  <2> QED  BY <1>1, <2>1, <2>2, <2>3
<1> HIDE DEF a, b, c
<1>7. /\ a \in 0 .. 127 /\ b \in 0 .. 127 /\ c \in 0 .. 127
      /\ v = a + b * 128 + c * 16384
      /\ v < 16384 => v = a + b * 128
      /\ v < 128 => v = a
  BY <1>5 DEF Makes
<1>8. DOMAIN s = 1 .. size /\ \A i \in 1 .. size : s[i] \in Byte
  <2>1. DOMAIN s = 1 .. size
    BY <1>4
  <2>2. s[1] \in Byte /\ (2 <= size => s[2] \in Byte) /\ (3 <= size => s[3] \in Byte)
    BY <1>2, <1>6, <1>7 DEF Byte
  <2> QED  BY <1>2, <2>1, <2>2
<1>9. s \in Seq(Byte) /\ Len(s) = size
  <2>1. s = [i \in 1 .. size |-> s[i]]
    BY <1>4
  <2> HIDE DEF s
  <2> QED  BY <1>2, <1>8, <2>1
<1>10. ASSUME size = 1 PROVE IsVarint(s, v)
  <2>0. v < 128 /\ ~(1 < size)
    BY <1>3, <1>10
  <2>00. s[1] = a /\ a = v
    <3>1. a + 0 = a
      BY <1>7
    <3> QED  BY <1>6, <1>7, <2>0, <3>1
  <2>1. s[1] = v /\ s[1] < 128 /\ s[1] % 128 = v
    <3>1. v % 128 = v
      BY <1>0, <2>0
    <3> QED  BY <2>0, <2>00, <3>1
  <2> QED  BY <1>9, <1>10, <2>1 DEF IsVarint
<1>11. ASSUME size = 2 PROVE IsVarint(s, v)
  <2>1. s[1] = a + 128 /\ s[2] = b
    BY <1>6, <1>7, <1>11
  <2>2. s[1] >= 128 /\ s[2] < 128 /\ s[1] % 128 = a /\ s[2] % 128 = b
    BY <1>7, <2>1
  <2>3. v = (s[1] % 128) + (s[2] % 128) * 128
    BY <1>3, <1>7, <1>11, <2>2
  <2>4. \A i \in 1 .. Len(s) - 1 : i = 1
    BY <1>9, <1>11
  <2> QED  BY <1>9, <1>11, <2>2, <2>3, <2>4 DEF IsVarint
<1>12. ASSUME size = 3 PROVE IsVarint(s, v)
  <2>1. s[1] = a + 128 /\ s[2] = b + 128 /\ s[3] = c
    BY <1>6, <1>7, <1>12
  <2>2. s[1] >= 128 /\ s[2] >= 128 /\ s[3] < 128 /\ s[1] % 128 = a /\ s[2] % 128 = b /\ s[3] % 128 = c
    BY <1>7, <2>1
  <2>3. v = (s[1] % 128) + (s[2] % 128) * 128 + (s[3] % 128) * 16384
    BY <1>7, <2>2
  <2>4. \A i \in 1 .. Len(s) - 1 : i = 1 \/ i = 2
    BY <1>9, <1>12
  <2> QED  BY <1>9, <1>12, <2>2, <2>3, <2>4 DEF IsVarint
<1> QED  BY <1>2, <1>10, <1>11, <1>12 DEF s

\* Bytes that lie in a buffer at a place.
Lies(x, buf, pos) ==
    /\ pos \in Nat /\ pos >= 1 /\ pos + Len(x) <= Len(buf) + 1
    /\ \A i \in 1 .. Len(x) : buf[pos + i - 1] = x[i]

\* A number that was written is read, and the place behind it.
LEMMA VarintIsRead ==
    ASSUME NEW v \in Number, NEW s, IsVarint(s, v), NEW buf \in Seq(Byte), NEW pos, Lies(s, buf, pos)
    PROVE  Nats!ReadVarint(buf, pos) = {[value |-> v, pos |-> pos + Len(s)]}
<1> DEFINE n == Len(s)
           l == Len(buf)
           ends == {i \in pos .. pos + Nats!MaxVarintBytes - 1 : i <= l /\ buf[i] < 128}
           last == Nats!Min(ends)
           G(i) == IF pos + i > last + 1 THEN 0 ELSE (buf[pos + i - 1] % 128) * Nats!Weight[i]
           value == G(1) + G(2) + G(3)
<1>0. /\ n \in 1 .. 3 /\ l \in Nat /\ pos \in Nat /\ pos >= 1 /\ pos + n <= l + 1
      /\ \A i \in 1 .. n : buf[pos + i - 1] = s[i]
      /\ s[n] < 128 /\ \A i \in 1 .. n - 1 : s[i] >= 128
      /\ v \in Nat /\ v < Nats!Word
  <2>1. 2^15 = 32768
    OBVIOUS
  <2>2. v \in Nat /\ v < Nats!Word
    BY <2>1 DEF Number, Nats!Word
  <2> QED  BY <2>2 DEF IsVarint, Lies
<1>00. \A i \in 1 .. n : s[i] \in Nat
  <2>1. s \in Seq(Byte)
    BY DEF IsVarint
  <2> QED  BY <2>1, BytesAre DEF n
<1>1. Nats!ReadVarint(buf, pos) = IF ends = {} THEN {}
                                  ELSE IF value < Nats!Word THEN {[value |-> value, pos |-> last + 1]} ELSE {}
  BY DEF Nats!ReadVarint
<1> HIDE DEF n, l
<1>2. pos + n - 1 \in ends /\ \A i \in ends : pos + n - 1 <= i
  <2>1. pos + n - 1 \in pos .. pos + 2 /\ pos + n - 1 <= l /\ buf[pos + n - 1] < 128
    <3>1. n \in 1 .. n
      BY <1>0
    <3> QED  BY <1>0, <3>1
  <2>2. ASSUME NEW i \in pos .. pos + 2, i < pos + n - 1 PROVE ~(buf[i] < 128)
    <3>1. i - pos + 1 \in 1 .. n - 1 /\ i - pos + 1 \in 1 .. n /\ pos + (i - pos + 1) - 1 = i
      BY <1>0, <2>2
    <3> DEFINE k == i - pos + 1
    <3>2. buf[pos + k - 1] = s[k] /\ s[k] >= 128 /\ s[k] \in Nat
      <4> HIDE DEF k
      <4> QED  BY <1>0, <1>00, <3>1 DEF k
    <3> QED  BY <3>1, <3>2
  <2> QED  BY <1>0, <2>1, <2>2 DEF Nats!MaxVarintBytes
<1>3. last = pos + n - 1
  <2>1. ends \in SUBSET Nat /\ ends # {}
    BY <1>0, <1>2
  <2>2. last \in ends /\ \A i \in ends : last <= i
    <3> HIDE DEF ends
    <3> QED  BY <2>1, MinIs
  <2>3. last \in Nat
    BY <2>1, <2>2
  <2> HIDE DEF last, ends
  <2> QED  BY <1>0, <1>2, <2>2, <2>3
<1> HIDE DEF last
<1>4. \A i \in 1 .. 3 : G(i) = IF i > n THEN 0 ELSE (s[i] % 128) * Nats!Weight[i]
  <2> TAKE i \in 1 .. 3
  <2>1. pos + i > last + 1 <=> i > n
    BY <1>0, <1>3
  <2>2. ~(i > n) => buf[pos + i - 1] = s[i]
    BY <1>0
  <2> QED  BY <2>1, <2>2
<1>5. Nats!Weight[1] = 1 /\ Nats!Weight[2] = 128 /\ Nats!Weight[3] = 16384
  BY DEF Nats!Weight
<1>6. value = v
  <2> HIDE DEF G
  <2>1. CASE n = 1
    <3>1. s[1] % 128 = v /\ G(1) = (s[1] % 128) * 1 /\ G(2) = 0 /\ G(3) = 0
      BY <1>4, <1>5, <2>1 DEF IsVarint, n
    <3> QED  BY <1>0, <3>1
  <2>2. CASE n = 2
    <3>1. (s[1] % 128) + (s[2] % 128) * 128 = v /\ G(1) = (s[1] % 128) * 1 /\ G(2) = (s[2] % 128) * 128 /\ G(3) = 0
      BY <1>4, <1>5, <2>2 DEF IsVarint, n
    <3>2. s[1] \in Nat /\ s[2] \in Nat
      BY <1>00, <2>2
    <3> QED  BY <1>0, <3>1, <3>2
  <2>3. CASE n = 3
    <3>1. (s[1] % 128) + (s[2] % 128) * 128 + (s[3] % 128) * 16384 = v
          /\ G(1) = (s[1] % 128) * 1 /\ G(2) = (s[2] % 128) * 128 /\ G(3) = (s[3] % 128) * 16384
      BY <1>4, <1>5, <2>3 DEF IsVarint, n
    <3>2. s[1] \in Nat /\ s[2] \in Nat /\ s[3] \in Nat
      BY <1>00, <2>3
    <3> QED  BY <1>0, <3>1, <3>2
  <2> QED  BY <1>0, <2>1, <2>2, <2>3
<1> HIDE DEF value, ends
<1>7. last + 1 = pos + n /\ ends # {}
  BY <1>0, <1>2, <1>3
<1> QED  BY <1>0, <1>1, <1>6, <1>7 DEF n

\* Whatever is read ends behind its beginning, and within the buffer.
ReadAt(buf, pos) == [value : Nat, pos : pos + 1 .. Len(buf) + 1]

\* _read_varint reads within the buffer, and goes on.
LEMMA VarintsRead ==
    ASSUME NEW buf \in Seq(Byte), NEW pos \in 1 .. Len(buf) + 1
    PROVE  Nats!ReadVarint(buf, pos) \subseteq ReadAt(buf, pos)
<1> DEFINE l == Len(buf)
           ends == {i \in pos .. pos + Nats!MaxVarintBytes - 1 : i <= l /\ buf[i] < 128}
           last == Nats!Min(ends)
           G(i) == IF pos + i > last + 1 THEN 0 ELSE (buf[pos + i - 1] % 128) * Nats!Weight[i]
           value == G(1) + G(2) + G(3)
<1>1. Nats!ReadVarint(buf, pos) = IF ends = {} THEN {}
                                  ELSE IF value < Nats!Word THEN {[value |-> value, pos |-> last + 1]} ELSE {}
  BY DEF Nats!ReadVarint
<1>2. SUFFICES ASSUME ends # {} PROVE value \in Nat /\ last + 1 \in pos + 1 .. l + 1
  <2> HIDE DEF value, last, ends
  <2> QED  BY <1>1, <1>2 DEF ReadAt, l
<1>3. l \in Nat /\ pos \in Nat /\ pos >= 1
  OBVIOUS
<1>4. last \in ends
  <2>1. ends \in SUBSET Nat
    BY <1>3
  <2> HIDE DEF ends
  <2> QED  BY <1>2, <2>1, MinIs
<1>5. last \in pos .. l
  <2> HIDE DEF last, l
  <2> QED  BY <1>3, <1>4
<1>6. Nats!Weight[1] = 1 /\ Nats!Weight[2] = 128 /\ Nats!Weight[3] = 16384
  BY DEF Nats!Weight
<1>7. \A i \in 1 .. 3 : G(i) \in Nat
  <2> TAKE i \in 1 .. 3
  <2>1. CASE ~(pos + i > last + 1)
    <3>1. pos + i - 1 \in 1 .. l
      <4> HIDE DEF last, l
      <4> QED  BY <1>3, <1>5, <2>1
    <3>2. buf[pos + i - 1] \in Nat
      <4>2. \A k \in 1 .. l : buf[k] \in Nat
        BY BytesAre
      <4> QED  BY <3>1, <4>2
    <3> HIDE DEF last
    <3>3. Nats!Weight[i] \in {1, 128, 16384}
      BY <1>6
    <3> QED  BY <2>1, <3>2, <3>3
  <2> QED  BY <2>1
<1>8. value \in Nat
  <2> HIDE DEF G
  <2> QED  BY <1>7
<1>9. last + 1 \in pos + 1 .. l + 1
  <2> HIDE DEF last, l
  <2> QED  BY <1>3, <1>5
<1> QED  BY <1>8, <1>9

-----------------------------------------------------------------------------
(* Protobuf: fields and messages (protobuf.py:42-54, 106-138) *)

\* A field as it is read, and where what is read at a place may end.
FieldRead == [field : Nat, numeric : BOOLEAN, num : Nat, bytes : Seq(Byte), pos : Nat]
Beyond(buf, pos) == {f \in FieldRead : f.pos \in pos + 1 .. Len(buf) + 1}

\* So does what reads a field.
LEMMA FieldsRead ==
    ASSUME NEW buf \in Seq(Byte), NEW pos \in 1 .. Len(buf) + 1
    PROVE  Nats!ReadField(buf, pos) \subseteq Beyond(buf, pos)
<1> SUFFICES ASSUME NEW key \in Nats!ReadVarint(buf, pos), NEW f \in Nats!FieldOf(buf, key)
             PROVE  f \in Beyond(buf, pos)
  BY DEF Nats!ReadField
<1> DEFINE l == Len(buf)
           wire == key.value % 8
           Field(numeric, num, bytes, next) ==
             [field |-> key.value \div 8, numeric |-> numeric, num |-> num, bytes |-> bytes, pos |-> next]
<1>0. l \in Nat /\ pos \in Nat /\ key.value \in Nat /\ key.pos \in pos + 1 .. l + 1 /\ key.pos \in 1 .. l + 1
  <2>1. key \in ReadAt(buf, pos)
    BY VarintsRead
  <2> QED  BY <2>1 DEF ReadAt
<1>00. key.value \div 8 \in Nat
  BY <1>0
<1>1. Nats!ReadVarint(buf, key.pos) \subseteq ReadAt(buf, key.pos)
  BY <1>0, VarintsRead
<1>2. ASSUME NEW numeric \in BOOLEAN, NEW num \in Nat, NEW bytes \in Seq(Byte), NEW next \in pos + 1 .. l + 1
      PROVE  Field(numeric, num, bytes, next) \in Beyond(buf, pos)
  <2>1. next \in Nat
    BY <1>0
  <2> DEFINE d == key.value \div 8
  <2>2. d \in Nat
    BY <1>00
  <2> HIDE DEF d
  <2>3. [field |-> d, numeric |-> numeric, num |-> num, bytes |-> bytes, pos |-> next] \in Beyond(buf, pos)
    BY <1>2, <2>1, <2>2 DEF Beyond, FieldRead, l
  <2> QED  BY <2>3 DEF d
<1>3. ASSUME key.value >= 8, wire = Nats!VARINT PROVE f \in Beyond(buf, pos)
  <2>1. PICK v \in Nats!ReadVarint(buf, key.pos) : f = Field(TRUE, v.value, <<>>, v.pos)
    BY <1>0, <1>3 DEF Nats!FieldOf, Nats!VARINT, Nats!BYTES, Nats!FIXED64, Nats!FIXED32
  <2>2. v.value \in Nat /\ v.pos \in key.pos + 1 .. l + 1
    BY <1>1 DEF ReadAt
  <2>3. v.pos \in pos + 1 .. l + 1
    BY <1>0, <2>2
  <2>4. <<>> \in Seq(Byte)
    OBVIOUS
  <2> HIDE DEF Field, l
  <2> QED  BY <1>2, <2>1, <2>2, <2>3, <2>4
<1>4. ASSUME key.value >= 8, wire = Nats!BYTES PROVE f \in Beyond(buf, pos)
  <2>1. PICK v \in Nats!ReadVarint(buf, key.pos) :
          /\ v.pos + v.value <= l + 1
          /\ f = Field(FALSE, 0, SubSeq(buf, v.pos, v.pos + v.value - 1), v.pos + v.value)
    BY <1>0, <1>4 DEF Nats!FieldOf, Nats!VARINT, Nats!BYTES, Nats!FIXED64, Nats!FIXED32
  <2>2. v.value \in Nat /\ v.pos \in key.pos + 1 .. l + 1
    BY <1>1 DEF ReadAt
  <2> DEFINE a == v.pos
             b == v.pos + v.value - 1
             bytes == SubSeq(buf, a, b)
             next == v.pos + v.value
  <2>3. next \in pos + 1 .. l + 1 /\ a \in Int /\ b \in Int /\ a >= 1 /\ b <= l
    <3> HIDE DEF l
    <3>1. v.value \in Nat /\ v.pos \in Nat /\ v.pos + v.value <= l + 1
      BY <1>0, <2>1, <2>2, SMTT(30)
    <3>2. v.pos >= key.pos + 1 /\ key.pos \in Nat /\ key.pos >= pos + 1 /\ pos \in Nat /\ pos >= 1 /\ l \in Nat
      BY <1>0, <2>2, SMTT(30)
    <3> QED  BY <3>1, <3>2, SMTT(30)
  <2>4. bytes \in Seq(Byte)
    <3> HIDE DEF a, b
    <3> QED  BY <2>3, Part
  <2>5. f = Field(FALSE, 0, bytes, next)
    BY <2>1
  <2> HIDE DEF Field, l, bytes, next
  <2> QED  BY <1>2, <2>3, <2>4, <2>5
<1>5. ASSUME key.value >= 8, wire \in {Nats!FIXED64, Nats!FIXED32} PROVE f \in Beyond(buf, pos)
  <2>1. PICK size \in {4, 8} : key.pos + size <= l + 1 /\ f = Field(TRUE, 0, <<>>, key.pos + size)
    BY <1>0, <1>5 DEF Nats!FieldOf, Nats!VARINT, Nats!BYTES, Nats!FIXED64, Nats!FIXED32
  <2>2. key.pos + size \in pos + 1 .. l + 1
    <3> HIDE DEF l
    <3> QED  BY <1>0, <2>1
  <2>3. <<>> \in Seq(Byte)
    OBVIOUS
  <2> HIDE DEF Field, l
  <2> QED  BY <1>2, <2>1, <2>2, <2>3
<1>6. key.value >= 8 /\ wire \in {Nats!VARINT, Nats!BYTES, Nats!FIXED64, Nats!FIXED32}
  <2>1. key.value < 8 \/ key.value >= 8
    BY <1>0
  <2> QED  BY <2>1 DEF Nats!FieldOf
<1> QED  BY <1>3, <1>4, <1>5, <1>6

-----------------------------------------------------------------------------
(* What was written is read *)

\* Of two sequences that lie in turn, each lies where it lies.
LieInTurn(x, y, z, buf, pos) ==
    /\ Lies(x, buf, pos) /\ Lies(y, buf, pos + Len(x))
    /\ Len(z) = Len(x) + Len(y) /\ z \in Seq(Byte)

\* Where two sequences lie in turn, both lie.
LEMMA LiesInTurn ==
    ASSUME NEW x \in Seq(Byte), NEW y \in Seq(Byte), NEW z, z = x \o y, NEW buf \in Seq(Byte), NEW pos, Lies(z, buf, pos)
    PROVE  LieInTurn(x, y, z, buf, pos)
<1> DEFINE m == Len(x)
           n == Len(y)
           l == Len(buf)
<1>1. InTurn(x, y, Byte) /\ z \in Seq(Byte)
  BY Both
<1>2. /\ m \in Nat /\ n \in Nat /\ l \in Nat /\ Len(z) = m + n
      /\ (\A k \in 1 .. m : z[k] = x[k]) /\ \A k \in 1 .. n : z[m + k] = y[k]
  BY <1>1 DEF InTurn
<1>3. pos \in Nat /\ pos >= 1 /\ pos + (m + n) <= l + 1 /\ \A i \in 1 .. m + n : buf[pos + i - 1] = z[i]
  BY <1>2 DEF Lies
<1> HIDE DEF m, n, l
<1>4. ASSUME NEW i \in 1 .. m PROVE buf[pos + i - 1] = x[i]
  <2>1. i \in 1 .. m + n
    BY <1>2
  <2> QED  BY <1>2, <1>3, <2>1
<1>5. ASSUME NEW i \in 1 .. n PROVE buf[(pos + m) + i - 1] = y[i]
  <2>1. m + i \in 1 .. m + n /\ (pos + m) + i - 1 = pos + (m + i) - 1
    BY <1>2, <1>3
  <2> QED  BY <1>2, <1>3, <2>1
<1>6. pos + m <= l + 1 /\ pos + m \in Nat /\ pos + m >= 1 /\ (pos + m) + n <= l + 1
  BY <1>2, <1>3
<1> QED  BY <1>1, <1>2, <1>3, <1>4, <1>5, <1>6 DEF LieInTurn, Lies, m, n, l

\* The width of a word.
LEMMA WordIs == Nats!Word = 32768 /\ Nats!Word \div 2 = 16384
<1>1. 2^15 = 32768
  OBVIOUS
<1> QED  BY <1>1 DEF Nats!Word

\* A number that fits a varint.
LEMMA NumberIs ==
    ASSUME NEW v \in Int, v >= 0, v < Nats!Word
    PROVE  v \in Number
<1> DEFINE w == Nats!Word
<1>1. w \in Int
  BY WordIs
<1> HIDE DEF w
<1>2. v \in 0 .. w - 1
  <2>1. v >= 0 /\ v < w
    BY DEF w
  <2> QED  BY <1>1, <2>1
<1> QED  BY <1>2 DEF Number, w

\* The numbers of fields whose key fits in a word.
FieldNumber == 1 .. 4095

\* A key tells the field and the wire type.
LEMMA Keys ==
    ASSUME NEW field \in FieldNumber, NEW wire \in 0 .. 7
    PROVE  /\ 8 * field + wire \in Number
           /\ (8 * field + wire) % 8 = wire /\ (8 * field + wire) \div 8 = field /\ 8 * field + wire >= 8
<1>3. field \in 1 .. 4095
  BY DEF FieldNumber
<1> DEFINE key == 8 * field + wire
<1>4. key \in Nat /\ key >= 8 /\ ~(key > 32767)
  BY SMTT(30), <1>3
<1>5. key % 8 = wire
  BY SMTT(30), <1>3
<1>6. key \div 8 = field
  BY SMTT(30), <1>3
<1> HIDE DEF key
<1>7. key \in Int /\ key >= 0 /\ key < Nats!Word
  BY <1>4, WordIs
<1>8. key \in Number
  BY <1>7, NumberIs
<1>9. key >= 8
  BY <1>4
<1> QED  BY <1>5, <1>6, <1>8, <1>9 DEF key

\* A field with a number, where it lies.
LEMMA NumberIsRead ==
    ASSUME NEW field \in FieldNumber, NEW value \in Number, NEW buf \in Seq(Byte), NEW pos,
           Lies(Nats!EncodeVarint(field, value), buf, pos)
    PROVE  /\ Nats!EncodeVarint(field, value) \in Seq(Byte)
           /\ Len(Nats!EncodeVarint(field, value)) \in Nat /\ Len(Nats!EncodeVarint(field, value)) > 0
           /\ Nats!ReadField(buf, pos) = {[field |-> field, numeric |-> TRUE, num |-> value, bytes |-> <<>>,
                                           pos |-> pos + Len(Nats!EncodeVarint(field, value))]}
<1> DEFINE k == 8 * field + Nats!VARINT
           t == Nats!Varint(k)
           s == Nats!Varint(value)
           x == t \o s
           next == pos + Len(x)
<1>0. k \in Number /\ k % 8 = Nats!VARINT /\ k \div 8 = field /\ k >= 8
  <2>1. Nats!VARINT \in 0 .. 7
    BY DEF Nats!VARINT
  <2> QED  BY <2>1, Keys
<1>1. x = Nats!EncodeVarint(field, value)
  BY DEF Nats!EncodeVarint, Nats!Tag
<1> HIDE DEF k
<1>2. IsVarint(t, k) /\ IsVarint(s, value)
  BY <1>0, VarintIs
<1> HIDE DEF t, s
<1>3. t \in Seq(Byte) /\ s \in Seq(Byte) /\ Len(t) \in 1 .. 3 /\ Len(s) \in 1 .. 3
  BY <1>2 DEF IsVarint
<1>4. Lies(t, buf, pos) /\ Lies(s, buf, pos + Len(t)) /\ Len(x) = Len(t) + Len(s) /\ x \in Seq(Byte)
  <2>1. x = t \o s /\ Lies(x, buf, pos)
    BY <1>1
  <2> HIDE DEF x
  <2>2. LieInTurn(t, s, x, buf, pos)
    BY <1>3, <2>1, LiesInTurn
  <2> QED  BY <2>2 DEF LieInTurn
<1>5. Nats!ReadVarint(buf, pos) = {[value |-> k, pos |-> pos + Len(t)]}
  BY <1>0, <1>2, <1>4, VarintIsRead
<1>6. Nats!ReadVarint(buf, pos + Len(t)) = {[value |-> value, pos |-> (pos + Len(t)) + Len(s)]}
  BY <1>2, <1>4, VarintIsRead
<1>7. (pos + Len(t)) + Len(s) = next
  <2>1. pos \in Nat
    BY <1>4 DEF Lies
  <2> QED  BY <1>3, <1>4, <2>1
<1> DEFINE key == [value |-> k, pos |-> pos + Len(t)]
<1>8. key.value = k /\ key.pos = pos + Len(t)
  OBVIOUS
<1>9. Nats!ReadField(buf, pos) = Nats!FieldOf(buf, key)
  BY <1>5 DEF Nats!ReadField
<1> HIDE DEF key, next
<1>10. Nats!FieldOf(buf, key) = {[field |-> field, numeric |-> TRUE, num |-> value, bytes |-> <<>>, pos |-> next]}
  <2>1. ~(k < 8)
    <3>1. k \in Int
      BY <1>0 DEF Number
    <3> QED  BY <1>0, <3>1
  <2> DEFINE read == Nats!ReadVarint(buf, key.pos)
  <2>2. read = {[value |-> value, pos |-> next]}
    BY <1>6, <1>7, <1>8
  <2> HIDE DEF read
  <2>3. Nats!FieldOf(buf, key) = {[field |-> field, numeric |-> TRUE, num |-> v.value, bytes |-> <<>>, pos |-> v.pos] :
                                    v \in read}
    BY <1>0, <1>8, <2>1 DEF Nats!FieldOf, Nats!VARINT, Nats!BYTES, Nats!FIXED64, Nats!FIXED32, read
  <2> QED  BY <2>2, <2>3
<1>11. x \in Seq(Byte) /\ Len(x) \in Nat /\ Len(x) > 0
  <2> DEFINE a == Len(t)
             b == Len(s)
             c == Len(x)
  <2>1. a \in 1 .. 3 /\ b \in 1 .. 3 /\ c = a + b
    BY <1>3, <1>4
  <2>2. c \in Nat /\ c > 0
    <3> HIDE DEF a, b, c
    <3> QED  BY <2>1
  <2> QED  BY <1>4, <2>2
<1> QED  BY <1>1, <1>9, <1>10, <1>11 DEF next

\* A field with bytes, where it lies.
LEMMA BytesAreRead ==
    ASSUME NEW field \in FieldNumber, NEW value \in Seq(Byte), Len(value) \in Number, NEW buf \in Seq(Byte), NEW pos,
           Lies(Nats!EncodeBytes(field, value), buf, pos)
    PROVE  /\ Nats!EncodeBytes(field, value) \in Seq(Byte)
           /\ Len(Nats!EncodeBytes(field, value)) \in Nat /\ Len(Nats!EncodeBytes(field, value)) > 0
           /\ Nats!ReadField(buf, pos) = {[field |-> field, numeric |-> FALSE, num |-> 0, bytes |-> value,
                                           pos |-> pos + Len(Nats!EncodeBytes(field, value))]}
<1> DEFINE k == 8 * field + Nats!BYTES
           n == Len(value)
           t == Nats!Varint(k)
           s == Nats!Varint(n)
           y == t \o s
           x == y \o value
           next == pos + Len(x)
<1>0. k \in Number /\ k % 8 = Nats!BYTES /\ k \div 8 = field /\ k >= 8
  <2>1. Nats!BYTES \in 0 .. 7
    BY DEF Nats!BYTES
  <2> QED  BY <2>1, Keys
<1>1. x = Nats!EncodeBytes(field, value)
  BY DEF Nats!EncodeBytes, Nats!Tag
<1>2. IsVarint(t, k) /\ IsVarint(s, n) /\ n \in Nat
  <2> HIDE DEF k, n
  <2>1. n \in Number
    BY DEF n
  <2>2. IsVarint(t, k) /\ IsVarint(s, n)
    BY <1>0, <2>1, VarintIs
  <2> QED  BY <2>2 DEF n
<1> HIDE DEF k, t, s
<1>3. t \in Seq(Byte) /\ s \in Seq(Byte) /\ Len(t) \in 1 .. 3 /\ Len(s) \in 1 .. 3
  BY <1>2 DEF IsVarint
<1>3a. y \in Seq(Byte)
  BY <1>3
<1> HIDE DEF y
<1>4. Lies(y, buf, pos) /\ Lies(value, buf, pos + Len(y)) /\ Len(x) = Len(y) + Len(value) /\ x \in Seq(Byte)
  <2>1. x = y \o value /\ Lies(x, buf, pos)
    BY <1>1
  <2> HIDE DEF x
  <2>2. LieInTurn(y, value, x, buf, pos)
    BY <1>3a, <2>1, LiesInTurn
  <2> QED  BY <2>2 DEF LieInTurn
<1>4a. Lies(t, buf, pos) /\ Lies(s, buf, pos + Len(t)) /\ Len(y) = Len(t) + Len(s)
  <2>1. y = t \o s
    BY DEF y
  <2>2. LieInTurn(t, s, y, buf, pos)
    BY <1>3, <1>4, <2>1, LiesInTurn
  <2> QED  BY <2>2 DEF LieInTurn
<1> HIDE DEF n
<1>5. Nats!ReadVarint(buf, pos) = {[value |-> k, pos |-> pos + Len(t)]}
  BY <1>0, <1>2, <1>4a, VarintIsRead
<1>6. Nats!ReadVarint(buf, pos + Len(t)) = {[value |-> n, pos |-> (pos + Len(t)) + Len(s)]}
  <2>1. n \in Number
    BY DEF n
  <2> QED  BY <1>2, <1>4a, <2>1, VarintIsRead
<1> DEFINE p == pos + Len(y)
<1>7. /\ (pos + Len(t)) + Len(s) = p /\ p + n = next
      /\ p \in Nat /\ p >= 1 /\ next <= Len(buf) + 1 /\ Len(buf) \in Nat
      /\ \A i \in 1 .. n : buf[p + i - 1] = value[i]
  <2>1. pos \in Nat
    BY <1>4 DEF Lies
  <2>2. (pos + Len(t)) + Len(s) = p /\ p + n = next
    BY <1>2, <1>3, <1>4, <1>4a, <2>1 DEF n
  <2>3. /\ p \in Nat /\ p >= 1 /\ p + n <= Len(buf) + 1
        /\ \A i \in 1 .. n : buf[p + i - 1] = value[i]
    BY <1>4 DEF Lies, n
  <2> QED  BY <2>2, <2>3
<1> DEFINE key == [value |-> k, pos |-> pos + Len(t)]
<1>8. key.value = k /\ key.pos = pos + Len(t)
  OBVIOUS
<1>9. Nats!ReadField(buf, pos) = Nats!FieldOf(buf, key)
  BY <1>5 DEF Nats!ReadField
<1> HIDE DEF key, next, p
<1>10. SubSeq(buf, p, p + n - 1) = value
  <2>1. SubSeq(buf, p, p + n - 1) = [i \in 1 .. n |-> buf[p + i - 1]]
    <3>1. (p + n - 1) - p + 1 = n
      BY <1>2, <1>7
    <3> QED  BY <1>2, <1>7, <3>1
  <2>2. value = [i \in 1 .. n |-> value[i]]
    BY DEF n
  <2> QED  BY <1>7, <2>1, <2>2
<1>11. Nats!FieldOf(buf, key) = {[field |-> field, numeric |-> FALSE, num |-> 0, bytes |-> value, pos |-> next]}
  <2>1. ~(k < 8)
    <3>1. k \in Int
      BY <1>0 DEF Number
    <3> QED  BY <1>0, <3>1
  <2> DEFINE read == Nats!ReadVarint(buf, key.pos)
  <2>2. read = {[value |-> n, pos |-> p]}
    BY <1>6, <1>7, <1>8
  <2> HIDE DEF read
  <2>3. Nats!FieldOf(buf, key) =
          {[field |-> field, numeric |-> FALSE, num |-> 0, bytes |-> SubSeq(buf, v.pos, v.pos + v.value - 1),
            pos |-> v.pos + v.value] : v \in {v \in read : v.pos + v.value <= Len(buf) + 1}}
    BY <1>0, <1>8, <2>1 DEF Nats!FieldOf, Nats!VARINT, Nats!BYTES, Nats!FIXED64, Nats!FIXED32, read
  <2>4. {v \in read : v.pos + v.value <= Len(buf) + 1} = {[value |-> n, pos |-> p]}
    BY <1>7, <2>2
  <2> DEFINE fit == {v \in read : v.pos + v.value <= Len(buf) + 1}
             one == [value |-> n, pos |-> p]
  <2>5. one.value = n /\ one.pos = p
    OBVIOUS
  <2> HIDE DEF fit, one
  <2>6. Nats!FieldOf(buf, key) =
          {[field |-> field, numeric |-> FALSE, num |-> 0, bytes |-> SubSeq(buf, one.pos, one.pos + one.value - 1),
            pos |-> one.pos + one.value]}
    BY <2>3, <2>4 DEF fit, one
  <2> QED  BY <1>7, <1>10, <2>5, <2>6
<1>12. x \in Seq(Byte) /\ Len(x) \in Nat /\ Len(x) > 0
  <2>1. Len(y) \in Nat /\ Len(y) > 0 /\ Len(value) \in Nat
    <3> DEFINE a == Len(t)
               b == Len(s)
               c == Len(y)
    <3>1. a \in 1 .. 3 /\ b \in 1 .. 3 /\ c = a + b
      BY <1>3, <1>4a
    <3>2. c \in Nat /\ c > 0
      <4> HIDE DEF a, b, c
      <4> QED  BY <3>1
    <3> QED  BY <3>2
  <2> DEFINE d == Len(x)
  <2>2. d \in Nat /\ d > 0
    <3>1. d = Len(y) + Len(value)
      BY <1>4
    <3> HIDE DEF d
    <3> QED  BY <2>1, <3>1
  <2> QED  BY <1>4, <2>2
<1> QED  BY <1>1, <1>9, <1>11, <1>12 DEF next

\* What is read of a message from a place on, from what is read from later ones.
Parsed(buf, from, pos) ==
    IF pos = Len(buf) + 1 THEN {<<>>}
    ELSE UNION {{<<f>> \o rest : rest \in from[f.pos]} : f \in Nats!ReadField(buf, pos)}

\* A step of parse is well typed.
LEMMA ParsedIs ==
    ASSUME NEW buf \in Seq(Byte), NEW g \in [1 .. Len(buf) + 1 -> SUBSET Seq(FieldRead)], NEW pos \in 1 .. Len(buf) + 1
    PROVE  Parsed(buf, g, pos) \subseteq Seq(FieldRead)
<1> DEFINE read == Nats!ReadField(buf, pos)
<1>1. ASSUME NEW f \in read, NEW rest \in g[f.pos] PROVE <<f>> \o rest \in Seq(FieldRead)
  <2>1. f \in Beyond(buf, pos)
    BY FieldsRead
  <2>2. f \in FieldRead /\ f.pos \in 1 .. Len(buf) + 1
    BY <2>1 DEF Beyond
  <2>3. rest \in Seq(FieldRead)
    BY <2>2
  <2> QED  BY <2>2, <2>3
<1>2. CASE pos = Len(buf) + 1
  BY <1>2 DEF Parsed
<1>3. CASE pos # Len(buf) + 1
  <2>1. Parsed(buf, g, pos) = UNION {{<<f>> \o rest : rest \in g[f.pos]} : f \in read}
    BY <1>3 DEF Parsed
  <2> HIDE DEF read
  <2> SUFFICES ASSUME NEW z \in Parsed(buf, g, pos) PROVE z \in Seq(FieldRead)
    OBVIOUS
  <2>2. PICK f \in read : z \in {<<f>> \o rest : rest \in g[f.pos]}
    BY <2>1
  <2>3. PICK rest \in g[f.pos] : z = <<f>> \o rest
    BY <2>2
  <2> QED  BY <1>1, <2>3
<1> QED  BY <1>2, <1>3

\* A step of parse asks for later places only.
LEMMA ParsedAlike ==
    ASSUME NEW buf \in Seq(Byte), NEW g, NEW h, NEW pos \in 1 .. Len(buf) + 1,
           \A j \in 1 .. Len(buf) + 1 : j > pos => g[j] = h[j]
    PROVE  Parsed(buf, g, pos) = Parsed(buf, h, pos)
<1> DEFINE read == Nats!ReadField(buf, pos)
<1>1. ASSUME NEW f \in read PROVE g[f.pos] = h[f.pos]
  <2>1. f \in Beyond(buf, pos)
    BY FieldsRead
  <2>2. f.pos \in 1 .. Len(buf) + 1 /\ f.pos > pos
    BY <2>1 DEF Beyond
  <2> QED  BY <2>2
<1> HIDE DEF read
<1>2. UNION {{<<f>> \o rest : rest \in g[f.pos]} : f \in read} = UNION {{<<f>> \o rest : rest \in h[f.pos]} : f \in read}
  BY <1>1
<1> QED  BY <1>2 DEF Parsed, read

\* parse, from each place of a message on.
LEMMA ParsedFrom ==
    ASSUME NEW buf \in Seq(Byte)
    PROVE  \E from : /\ Nats!Parse(buf) = from[1]
                     /\ \A pos \in 1 .. Len(buf) + 1 : from[pos] = Parsed(buf, from, pos)
<1> DEFINE D == 1 .. Len(buf) + 1
           V == SUBSET Seq(FieldRead)
           F == [p \in [D -> V] \X D |-> Parsed(buf, p[1], p[2])]
           from == CHOOSE g : g = [pos \in D |-> Parsed(buf, g, pos)]
<1>0. Len(buf) \in Nat
  OBVIOUS
<1>1. Nats!Parse(buf) = from[1]
  BY DEF Nats!Parse, Parsed
<1>2. F \in [[D -> V] \X D -> V]
  <2>1. ASSUME NEW g \in [D -> V], NEW pos \in D PROVE Parsed(buf, g, pos) \in V
    BY ParsedIs
  <2> HIDE DEF V, D
  <2> QED  BY <2>1
<1>3. \A g \in [D -> V], pos \in D : F[<<g, pos>>] = Parsed(buf, g, pos)
  OBVIOUS
<1>4. LooksUp(F, D, V)
  <2> HIDE DEF F
  <2>1. V # {} /\ \E m \in Nat : D \subseteq 0 .. m
    <3>1. D \subseteq 0 .. Len(buf) + 1 /\ Len(buf) + 1 \in Nat
      BY <1>0
    <3> QED  BY <3>1
  <2>2. ASSUME NEW g \in [D -> V], NEW h \in [D -> V], NEW pos \in D,
               \A j \in D : j > pos => g[j] = h[j]
        PROVE  F[<<g, pos>>] = F[<<h, pos>>]
    <3>2. Parsed(buf, g, pos) = Parsed(buf, h, pos)
      BY <2>2, ParsedAlike
    <3> QED  BY <1>3, <3>2
  <2> HIDE DEF D, V
  <2> QED  BY <1>2, <2>1, <2>2 DEF LooksUp
<1>5. PICK g \in [D -> V] : \A pos \in D : g[pos] = F[<<g, pos>>]
  <2> HIDE DEF F, D, V
  <2> QED  BY <1>4, RecursionDown DEF Recursive
<1>6. g = [pos \in D |-> Parsed(buf, g, pos)]
  <2> HIDE DEF F
  <2> QED  BY <1>3, <1>5
<1>7. from = [pos \in D |-> Parsed(buf, from, pos)]
  BY <1>6
<1> HIDE DEF from
<1>8. \A pos \in D : from[pos] = Parsed(buf, from, pos)
  BY <1>7
<1> QED  BY <1>1, <1>8

\* A field of a message, with a number or with bytes, and how it is written.
IsField(f) ==
    /\ f.field \in FieldNumber
    /\ f.numeric \in BOOLEAN
    /\ IF f.numeric THEN f.num \in Number ELSE f.bytes \in Seq(Byte) /\ Len(f.bytes) \in Number
Encoded(f) == IF f.numeric THEN Nats!EncodeVarint(f.field, f.num) ELSE Nats!EncodeBytes(f.field, f.bytes)
FieldTold(f, next) == [field |-> f.field, numeric |-> f.numeric, num |-> IF f.numeric THEN f.num ELSE 0,
                  bytes |-> IF f.numeric THEN <<>> ELSE f.bytes, pos |-> next]

\* A field that is written has bytes, at least one.
LEMMA EncodedIs ==
    ASSUME NEW f, IsField(f)
    PROVE  Encoded(f) \in Seq(Byte) /\ Len(Encoded(f)) \in Nat /\ Len(Encoded(f)) > 0
<1> DEFINE x == Encoded(f)
           n == Len(x)
<1>1. x \in Seq(Byte) /\ n \in Nat
  <2>1. ASSUME NEW v \in Number PROVE Nats!Varint(v) \in Seq(Byte)
    BY VarintIs DEF IsVarint
  <2>2. Nats!Tag(f.field, Nats!VARINT) \in Seq(Byte) /\ Nats!Tag(f.field, Nats!BYTES) \in Seq(Byte)
    <3>1. Nats!VARINT \in 0 .. 7 /\ Nats!BYTES \in 0 .. 7 /\ f.field \in FieldNumber
      BY DEF Nats!VARINT, Nats!BYTES, IsField
    <3>2. 8 * f.field + Nats!VARINT \in Number /\ 8 * f.field + Nats!BYTES \in Number
      BY <3>1, Keys
    <3> QED  BY <2>1, <3>2 DEF Nats!Tag
  <2>3. CASE f.numeric
    <3>1. Nats!Varint(f.num) \in Seq(Byte)
      BY <2>1, <2>3 DEF IsField
    <3> QED  BY <2>2, <2>3, <3>1 DEF Encoded, Nats!EncodeVarint
  <2>4. CASE ~f.numeric
    <3>1. Nats!Varint(Len(f.bytes)) \in Seq(Byte) /\ f.bytes \in Seq(Byte)
      BY <2>1, <2>4 DEF IsField
    <3> DEFINE t == Nats!Tag(f.field, Nats!BYTES)
               v == Nats!Varint(Len(f.bytes))
               b == f.bytes
    <3>2. x = t \o v \o b
      BY <2>4 DEF Encoded, Nats!EncodeBytes
    <3>3. t \in Seq(Byte) /\ v \in Seq(Byte) /\ b \in Seq(Byte)
      BY <2>2, <3>1
    <3> HIDE DEF t, v, b, x
    <3>4. x \in Seq(Byte)
      BY <3>2, <3>3
    <3> QED  BY <3>4
  <2> QED  BY <2>3, <2>4
<1>2. Lies(x, x, 1)
  BY <1>1 DEF Lies
<1>3. f.field \in FieldNumber /\ f.numeric \in BOOLEAN
  BY DEF IsField
<1>4. CASE f.numeric
  <2>1. x = Nats!EncodeVarint(f.field, f.num) /\ f.num \in Number
    BY <1>4 DEF Encoded, IsField
  <2> QED  BY <1>1, <1>2, <1>3, <2>1, NumberIsRead
<1>5. CASE ~f.numeric
  <2>1. x = Nats!EncodeBytes(f.field, f.bytes) /\ f.bytes \in Seq(Byte) /\ Len(f.bytes) \in Number
    BY <1>5 DEF Encoded, IsField
  <2> QED  BY <1>1, <1>2, <1>3, <2>1, BytesAreRead
<1> QED  BY <1>3, <1>4, <1>5

\* And is read where it lies.
LEMMA EncodedIsRead ==
    ASSUME NEW f, IsField(f), NEW buf \in Seq(Byte), NEW pos, Lies(Encoded(f), buf, pos)
    PROVE  Nats!ReadField(buf, pos) = {FieldTold(f, pos + Len(Encoded(f)))}
<1>1. f.field \in FieldNumber /\ f.numeric \in BOOLEAN
  BY DEF IsField
<1>2. CASE f.numeric
  <2>1. Encoded(f) = Nats!EncodeVarint(f.field, f.num) /\ f.num \in Number
    BY <1>2 DEF Encoded, IsField
  <2> QED  BY <1>1, <1>2, <2>1, NumberIsRead DEF FieldTold
<1>3. CASE ~f.numeric
  <2>1. Encoded(f) = Nats!EncodeBytes(f.field, f.bytes) /\ f.bytes \in Seq(Byte) /\ Len(f.bytes) \in Number
    BY <1>3 DEF Encoded, IsField
  <2> DEFINE b == f.bytes
             d == f.field
  <2>2. b \in Seq(Byte) /\ Len(b) \in Number /\ Lies(Nats!EncodeBytes(d, b), buf, pos) /\ d \in FieldNumber
    BY <1>1, <2>1
  <2> HIDE DEF b, d
  <2>3. Nats!ReadField(buf, pos) = {[field |-> d, numeric |-> FALSE, num |-> 0, bytes |-> b,
                                     pos |-> pos + Len(Nats!EncodeBytes(d, b))]}
    BY <2>2, BytesAreRead
  <2>4. Encoded(f) = Nats!EncodeBytes(d, b)
    BY <2>1 DEF b, d
  <2>5. \A next : FieldTold(f, next) = [field |-> d, numeric |-> FALSE, num |-> 0, bytes |-> b, pos |-> next]
    <3>1. f.numeric = FALSE
      BY <1>1, <1>3
    <3> QED  BY <3>1 DEF FieldTold, b, d
  <2> QED  BY <2>3, <2>4, <2>5
<1> QED  BY <1>1, <1>2, <1>3

\* protobuf.py: whatever fields are written one after another, in whatever order, with
\* whatever numbers and bytes, are the fields that are read, in that order and no others;
\* the bytes of a field are not looked into, whatever they are.
THEOREM WrittenIsRead ==
    ASSUME NEW fields, NEW n \in Nat, DOMAIN fields = 1 .. n, \A i \in 1 .. n : IsField(fields[i])
    PROVE  \E message :
             /\ Nats!Parse(Nats!FlattenSeq([i \in 1 .. n |-> Encoded(fields[i])])) = {message}
             /\ message \in Seq(FieldRead) /\ Len(message) = n
             /\ \A i \in 1 .. n : \E next : message[i] = FieldTold(fields[i], next)
<1> DEFINE s == [i \in 1 .. n |-> Encoded(fields[i])]
           buf == Nats!FlattenSeq(s)
<1>1. s \in Seq(Seq(Byte)) /\ Len(s) = n /\ \A i \in 1 .. n : s[i] = Encoded(fields[i])
  BY EncodedIs
<1>2. \A i \in 1 .. n : Len(s[i]) \in Nat /\ Len(s[i]) > 0
  BY <1>1, EncodedIs
<1> HIDE DEF s
<1>3. PICK C \in [0 .. n -> Seq(Byte)] : Joins(C, s) /\ buf = C[n]
  <2>1. Nats!FlattenSeq(s) = Grpc!FlattenSeq(s)
    BY DEF Nats!FlattenSeq, Grpc!FlattenSeq
  <2> QED  BY <1>1, <2>1, Flattened
<1> HIDE DEF buf
<1>4. buf \in Seq(Byte) /\ Len(buf) \in Nat
  BY <1>3
<1>5. PICK from : Nats!Parse(buf) = from[1] /\ \A pos \in 1 .. Len(buf) + 1 : from[pos] = Parsed(buf, from, pos)
  BY <1>4, ParsedFrom
<1> DEFINE At(i) == Len(C[i]) + 1
           M == [i \in 1 .. n |-> FieldTold(fields[i], At(i))]
           Rest(i) == [j \in 1 .. n - i |-> M[i + j]]
<1>6. ASSUME NEW i \in 1 .. n
      PROVE  /\ At(i - 1) \in 1 .. Len(buf) + 1 /\ At(i - 1) # Len(buf) + 1
             /\ Nats!ReadField(buf, At(i - 1)) = {M[i]} /\ M[i].pos = At(i)
  <2> DEFINE p == Len(C[i - 1])
             q == Len(C[i])
             e == Len(s[i])
             l == Len(buf)
  <2>0. i - 1 \in 0 .. n /\ i \in 0 .. n /\ n \in 0 .. n /\ i <= n
    OBVIOUS
  <2>1. C[i - 1] \in Seq(Byte) /\ C[i] \in Seq(Byte) /\ s[i] \in Seq(Byte) /\ C[i] = C[i - 1] \o s[i]
    <3>1. C[i - 1] \in Seq(Byte) /\ C[i] \in Seq(Byte)
      BY <1>3, <2>0
    <3>2. s[i] \in Seq(Byte)
      BY <1>1
    <3>3. C[i] = C[i - 1] \o s[i]
      BY <1>1, <1>3 DEF Joins
    <3> QED  BY <3>1, <3>2, <3>3
  <2>2. Begins(C[i], buf)
    BY <1>1, <1>3, <2>0, Beginnings
  <2>3. InTurn(C[i - 1], s[i], Byte)
    BY <2>1, Both
  <2>4. /\ p \in Nat /\ e \in Nat /\ e > 0 /\ q = p + e /\ q <= l /\ l \in Nat
        /\ \A k \in 1 .. q : buf[k] = C[i][k]
        /\ \A k \in 1 .. e : C[i][p + k] = s[i][k]
    <3>1. p \in Nat /\ e \in Nat /\ e > 0 /\ l \in Nat
      BY <1>2, <1>4, <2>1
    <3>2. q = p + e /\ \A k \in 1 .. e : C[i][p + k] = s[i][k]
      BY <2>1, <2>3 DEF InTurn
    <3>3. q <= l /\ \A k \in 1 .. q : buf[k] = C[i][k]
      BY <2>2 DEF Begins
    <3> QED  BY <3>1, <3>2, <3>3
  <2> HIDE DEF p, q, e, l
  <2>5. ASSUME NEW k \in 1 .. e PROVE buf[(p + 1) + k - 1] = s[i][k]
    <3>1. p + k \in 1 .. q /\ (p + 1) + k - 1 = p + k
      BY <2>4
    <3> QED  BY <2>4, <3>1
  <2>6. Lies(s[i], buf, p + 1)
    <3>1. p + 1 \in Nat /\ p + 1 >= 1 /\ (p + 1) + e <= l + 1
      BY <2>4
    <3> QED  BY <2>5, <3>1 DEF Lies, e, l
  <2>7. Nats!ReadField(buf, p + 1) = {FieldTold(fields[i], (p + 1) + e)}
    <3>1. IsField(fields[i]) /\ s[i] = Encoded(fields[i])
      BY <1>1
    <3> QED  BY <1>4, <2>6, <3>1, EncodedIsRead DEF e
  <2>8. (p + 1) + e = q + 1 /\ p + 1 \in 1 .. l + 1 /\ p + 1 # l + 1
    BY <2>4
  <2>9. M[i] = FieldTold(fields[i], q + 1) /\ M[i].pos = q + 1
    BY DEF FieldTold, q
  <2> QED  BY <2>7, <2>8, <2>9 DEF p, q, l
<1>7. \A i \in 1 .. n : M[i] = FieldTold(fields[i], At(i))
  OBVIOUS
<1>7b. \A i \in 1 .. n : M[i] \in FieldRead
  <2> TAKE i \in 1 .. n
  <2> DEFINE m == M[i]
             p == At(i - 1)
  <2>1. p \in 1 .. Len(buf) + 1 /\ Nats!ReadField(buf, p) = {m}
    BY <1>6
  <2> HIDE DEF m, p
  <2>2. {m} \subseteq Beyond(buf, p)
    BY <1>4, <2>1, FieldsRead
  <2> QED  BY <2>2 DEF Beyond, m
<1> DEFINE T == {M[i] : i \in 1 .. n}
<1>7a. M \in Seq(T) /\ Len(M) = n
  <2>1. M \in [1 .. n -> T]
    OBVIOUS
  <2> HIDE DEF M, T
  <2> QED  BY <2>1
<1>8. \A i \in 0 .. n : from[At(i)] = {Rest(i)}
  <2> DEFINE S == {i \in 0 .. n : from[At(i)] = {Rest(i)}}
  <2>1. n \in S
    <3>1. At(n) = Len(buf) + 1 /\ At(n) \in 1 .. Len(buf) + 1
      BY <1>3, <1>4
    <3>2. Rest(n) = <<>>
      <4> HIDE DEF M
      <4> QED  OBVIOUS
    <3>3. from[At(n)] = {<<>>}
      <4> HIDE DEF At
      <4> QED  BY <1>5, <3>1 DEF Parsed
    <3>4. n \in 0 .. n
      OBVIOUS
    <3> HIDE DEF At, Rest
    <3> QED  BY <3>2, <3>3, <3>4
  <2>2. ASSUME NEW i \in 0 .. n, i + 1 \in S, i < n PROVE i \in S
    <3> DEFINE k == i + 1
               m == M[k]
    <3>1. k \in 1 .. n /\ k - 1 = i
      BY <2>2
    <3>2. At(i) \in 1 .. Len(buf) + 1 /\ At(i) # Len(buf) + 1 /\ Nats!ReadField(buf, At(i)) = {m} /\ m.pos = At(k)
      BY <1>6, <3>1
    <3>3. from[At(k)] = {Rest(k)}
      BY <2>2
    <3>4. <<m>> \o Rest(k) = Rest(i)
      <4> DEFINE z == Rest(k)
                 o == n - k
      <4>0. \A j \in 1 .. n : M[j] \in T
        OBVIOUS
      <4> HIDE DEF M, T
      <4>1. z = [j \in 1 .. o |-> M[k + j]] /\ o \in Nat /\ n - i = o + 1
        BY <3>1
      <4>2. z \in Seq(T) /\ Len(z) = o /\ \A j \in 1 .. o : z[j] = M[k + j]
        <5>1. \A j \in 1 .. o : k + j \in 1 .. n
          BY <3>1
        <5> HIDE DEF z, o
        <5> QED  BY <4>0, <4>1, <5>1
      <4>3. InTurn(<<m>>, z, T) /\ m \in T
        <5>1. m \in T /\ <<m>> \in Seq(T)
          BY <3>1, <4>0
        <5> HIDE DEF z, m
        <5> QED  BY <4>2, <5>1, Both
      <4>4. /\ <<m>> \o z \in Seq(T) /\ Len(<<m>> \o z) = o + 1 /\ (<<m>> \o z)[1] = m
            /\ \A j \in 1 .. o : (<<m>> \o z)[1 + j] = M[k + j]
        <5> HIDE DEF z, o, m
        <5> QED  BY <4>1, <4>2, <4>3 DEF InTurn
      <4>5. ASSUME NEW j \in 1 .. o + 1 PROVE (<<m>> \o z)[j] = M[i + j]
        <5> HIDE DEF z, o
        <5>1. CASE j = 1
          BY <4>4, <5>1
        <5>2. CASE j # 1
          <6>1. j - 1 \in 1 .. o /\ 1 + (j - 1) = j /\ k + (j - 1) = i + j
            BY <4>1, <5>2
          <6> QED  BY <4>4, <6>1
        <5> QED  BY <5>1, <5>2
      <4>6. <<m>> \o z = [j \in 1 .. o + 1 |-> M[i + j]]
        <5> DEFINE y == <<m>> \o z
        <5>1. y = [j \in 1 .. o + 1 |-> y[j]]
          <6>1. y \in Seq(T) /\ Len(y) = o + 1
            BY <4>4
          <6> HIDE DEF y, o
          <6> QED  BY <6>1
        <5> HIDE DEF y, o
        <5>2. \A j \in 1 .. o + 1 : y[j] = M[i + j]
          BY <4>5 DEF y
        <5> QED  BY <5>1, <5>2 DEF y
      <4> QED  BY <4>1, <4>6
    <3> DEFINE p == At(i)
               q == At(k)
               z == Rest(k)
               y == Rest(i)
    <3>5. from[p] = Parsed(buf, from, p)
      BY <1>5, <3>2
    <3> HIDE DEF p, q, z, y, m
    <3>6. from[p] = {<<m>> \o z}
      <4>1. from[p] = UNION {{<<f>> \o rest : rest \in from[f.pos]} : f \in Nats!ReadField(buf, p)}
        BY <3>2, <3>5 DEF Parsed, p
      <4>2. Nats!ReadField(buf, p) = {m} /\ m.pos = q /\ from[q] = {z}
        BY <3>2, <3>3 DEF p, q, z
      <4>3. from[p] = {<<m>> \o rest : rest \in from[m.pos]}
        <5> DEFINE u == {<<m>> \o rest : rest \in from[m.pos]}
                   w == {{<<f>> \o rest : rest \in from[f.pos]} : f \in {m}}
        <5>1. from[p] = UNION w
          BY <4>1, <4>2
        <5>2. \A v : v \in w <=> v = u
          OBVIOUS
        <5> HIDE DEF u, w
        <5> QED  BY <5>1, <5>2 DEF u
      <4>4. from[m.pos] = {z}
        BY <4>2
      <4> QED  BY <4>3, <4>4
    <3>7. from[p] = {y}
      BY <3>4, <3>6 DEF y, z
    <3> QED  BY <3>7 DEF p, y
  <2>3. \A i \in 0 .. n : (\A j \in i + 1 .. n : j \in S) => i \in S
    <3> HIDE DEF S
    <3> TAKE i \in 0 .. n
    <3> HAVE \A j \in i + 1 .. n : j \in S
    <3>1. CASE i = n
      BY <2>1, <3>1
    <3>2. CASE i < n
      <4>1. i + 1 \in i + 1 .. n
        BY <3>2
      <4> QED  BY <2>2, <3>2, <4>1
    <3> QED  BY <3>1, <3>2
  <2>4. \A i \in 0 .. n : i \in S
    <3> HIDE DEF S
    <3> QED  BY <2>3, Downward
  <2> QED  BY <2>4
<1>9. At(0) = 1 /\ Rest(0) = M
  <2>1. C[0] = <<>>
    BY <1>3 DEF Joins
  <2>2. \A j \in 1 .. n : M[0 + j] = M[j]
    OBVIOUS
  <2> QED  BY <2>1, <2>2
<1>10. Nats!Parse(buf) = {M}
  <2>1. 0 \in 0 .. n
    OBVIOUS
  <2> QED  BY <1>5, <1>8, <1>9, <2>1
<1>11. M \in Seq(FieldRead)
  <2>1. M \in [1 .. n -> FieldRead]
    <3>1. M = [i \in 1 .. n |-> M[i]]
      OBVIOUS
    <3> HIDE DEF M
    <3> QED  BY <1>7b, <3>1
  <2> HIDE DEF M
  <2> QED  BY <2>1
<1> HIDE DEF M, At
<1> QED  BY <1>7, <1>7a, <1>10, <1>11 DEF buf, s

-----------------------------------------------------------------------------
(* NATS: what is sent is read *)

\* Up to the end of a sequence there is something left, unless one is past it.
LEMMA SomeLeft ==
    ASSUME NEW x \in Seq(Nat), NEW p \in Nat, NEW n \in Nat, 1 <= p, p <= n, n <= Len(x)
    PROVE  SubSeq(x, p, n) # <<>>
<1>1. SubSeq(x, p, n) = [i \in 1 .. n - p + 1 |-> x[p + i - 1]]
  OBVIOUS
<1> DEFINE d == n - p + 1
<1>2. d \in Nat /\ 1 <= d
  OBVIOUS
<1> HIDE DEF d
<1>3. SubSeq(x, p, n) = [i \in 1 .. d |-> x[p + i - 1]]
  BY <1>1 DEF d
<1>4. DOMAIN SubSeq(x, p, n) = 1 .. d
  BY <1>3
<1> QED  BY <1>2, <1>4

\* What is left begins within the buffer or behind it.
LEMMA RestIs ==
    ASSUME NEW x \in Seq(Nat)
    PROVE  /\ Nats!Ops(x) \in OpsRead /\ Nats!Ops(x).rest \in 1 .. Len(x) + 1
           /\ Left(x) = <<>> => Nats!Ops(x).rest = Len(x) + 1
<1>1. PICK from : Nats!Ops(x) = from[1] /\ Reads(x, from)
  BY OpsFrom DEF Reads
<1>2. 1 \in 1 .. Len(x) + 1 /\ Begins(x, x)
  BY DEF Begins
<1>3. GoesOn(x, from, from, 1)
  BY <1>1, <1>2, GoesOnAll
<1>4. Nats!Ops(x) \in OpsRead /\ Nats!Ops(x).rest \in 1 .. Len(x) + 1
  BY <1>1, <1>2, <1>3 DEF Reads, GoesOn
<1>5. ASSUME Left(x) = <<>> PROVE Nats!Ops(x).rest = Len(x) + 1
  <2> DEFINE p == Nats!Ops(x).rest
             n == Len(x)
  <2>1. p \in 1 .. n + 1 /\ n \in Nat /\ SubSeq(x, p, n) = <<>> /\ n = Len(x)
    BY <1>4, <1>5 DEF Left
  <2> HIDE DEF p, n
  <2>2. ASSUME p <= n PROVE FALSE
    <3>1. p \in Nat /\ 1 <= p /\ n <= Len(x)
      BY <2>1
    <3> QED  BY <2>1, <2>2, <3>1, SomeLeft
  <2>3. p = n + 1
    BY <2>1, <2>2
  <2> QED  BY <2>3 DEF p, n
<1> QED  BY <1>4, <1>5

\* A style of a message as it is read: of the service nobody knows, with what nobody can
\* read, or as it was sent.
Carried(style, subject, payload) ==
    [subject |-> IF style = "other" THEN Nats!OTHER_SERVICE ELSE subject,
     body |-> IF style = "unreadable" THEN payload \o Nats!Tag(15, 3) ELSE payload]

\* A message, as it is sent.
IsMessage(x, carried) ==
    /\ x \in Seq(Nat)
    /\ Nats!Ops(x) = [messages |-> <<carried>>, rest |-> Len(x) + 1, broken |-> FALSE]

\* Alone it comes out as it was sent, and leaves nothing.
LEMMA MessageIs ==
    ASSUME NEW style \in Nats!Styles, NEW subject \in 0 .. 9, NEW payload \in Seq(Nat), Len(payload) <= 990
    PROVE  IsMessage(Nats!Message(style, subject, payload), Carried(style, subject, payload))
<1> DEFINE x == Nats!Message(style, subject, payload)
           one == << Carried(style, subject, payload) >>
<1>0. Nats!CRLF \in Seq(Nat) /\ Nats!Tag(15, 3) \in Seq(Nat) /\ Len(Nats!Tag(15, 3)) \in 1 .. 3
  <2>1. 8 * 15 + 3 \in Number
    <3>1. 15 \in FieldNumber /\ 3 \in 0 .. 7
      BY DEF FieldNumber
    <3> QED  BY <3>1, Keys
  <2>2. IsVarint(Nats!Varint(8 * 15 + 3), 8 * 15 + 3)
    BY <2>1, VarintIs
  <2>3. Nats!Tag(15, 3) \in Seq(Byte) /\ Len(Nats!Tag(15, 3)) \in 1 .. 3
    BY <2>2 DEF IsVarint, Nats!Tag
  <2> QED  BY <2>3, BytesAre DEF Nats!CRLF, Nats!CR, Nats!LF
<1>1. SUFFICES x \in Seq(Nat) /\ Nats!Ops(x) = [messages |-> one, rest |-> Len(x) + 1, broken |-> FALSE]
  BY DEF IsMessage
\* A message without headers, and one with them.
<1> DEFINE Plain(service, body) == Packet(Nats!Line(Nats!MSG, service, 0, Len(body)), <<>>, body)
<1>2. ASSUME NEW service \in 0 .. 9, NEW body \in Seq(Nat), Len(body) <= 993
      PROVE  /\ Plain(service, body) \in Seq(Nat)
             /\ Nats!Ops(Plain(service, body)) = [messages |-> << [subject |-> service, body |-> body] >>,
                                                  rest |-> Len(Plain(service, body)) + 1, broken |-> FALSE]
             /\ Plain(service, body) =
                  <<Nats!Line(Nats!MSG, service, 0, Len(body))>> \o Nats!CRLF \o body \o Nats!CRLF
  <2> DEFINE n == Len(<<>>)
             b == Len(body)
             op == Nats!MSG
             m == Packet(Nats!Line(op, service, n, n + b), <<>>, body)
  <2>1. n = 0 /\ b \in Nat /\ b <= 993
    BY <1>2
  <2>2. n + b = b
    BY <2>1
  <2>3. /\ m \in Seq(Nat)
        /\ Nats!Ops(m) = [messages |-> << [subject |-> service, body |-> body] >>, rest |-> Len(m) + 1, broken |-> FALSE]
    <3>1. <<>> \in Seq(Nat) /\ n <= 9 /\ n + b <= 999 /\ op \in {Nats!MSG, Nats!HMSG}
      BY <2>1
    <3> QED  BY <3>1, PacketIsRead
  <2>4. Plain(service, body) = m
    BY <2>1, <2>2
  <2>5. (<<Nats!Line(Nats!MSG, service, 0, Len(body))>> \o Nats!CRLF) \o <<>> =
        <<Nats!Line(Nats!MSG, service, 0, Len(body))>> \o Nats!CRLF
    BY <1>0
  <2> HIDE DEF m
  <2> QED  BY <2>3, <2>4, <2>5 DEF Packet
<1>3. Len(payload) \in Nat
  OBVIOUS
<1>4. CASE style = "plain"
  <2> DEFINE m == Plain(subject, payload)
  <2>1. x = <<Nats!Line(Nats!MSG, subject, 0, Len(payload))>> \o Nats!CRLF \o payload \o Nats!CRLF
    BY <1>4 DEF Nats!Message
  <2>2. one = << [subject |-> subject, body |-> payload] >>
    BY <1>4 DEF Carried
  <2>3. Len(payload) <= 993
    BY <1>3
  <2> HIDE DEF Plain, x, one
  <2>4. m \in Seq(Nat) /\ m = x
        /\ Nats!Ops(m) = [messages |-> << [subject |-> subject, body |-> payload] >>, rest |-> Len(m) + 1, broken |-> FALSE]
    BY <1>2, <2>1, <2>3
  <2> HIDE DEF m
  <2> QED  BY <2>2, <2>4
<1>5. CASE style = "unreadable"
  <2> DEFINE body == payload \o Nats!Tag(15, 3)
  <2>1. body \in Seq(Nat) /\ Len(body) <= 993
    <3> DEFINE t == Nats!Tag(15, 3)
               a == Len(payload)
               b == Len(t)
               c == Len(body)
    <3>1. InTurn(payload, t, Nat)
      BY <1>0, Both
    <3>2. body \in Seq(Nat) /\ c = a + b /\ a \in Nat /\ a <= 990 /\ b \in 1 .. 3
      BY <1>0, <1>3, <3>1 DEF InTurn
    <3> HIDE DEF a, b, c, body
    <3> QED  BY <3>2 DEF c
  <2>2. one = << [subject |-> subject, body |-> body] >>
    BY <1>5 DEF Carried
  <2> HIDE DEF body
  <2>3. x = Plain(subject, body)
    BY <1>2, <1>5, <2>1 DEF Nats!Message, body
  <2> HIDE DEF Plain, x, one
  <2> QED  BY <1>2, <2>1, <2>2, <2>3
<1>6. CASE style = "headers"
  <2> DEFINE headers == <<78, 13, 10, 13, 10>>
             n == Len(headers)
             b == Len(payload)
             m == Packet(Nats!Line(Nats!HMSG, subject, n, n + b), headers, payload)
  <2>1. headers \in Seq(Nat) /\ n = 5 /\ n <= 9 /\ n + b <= 999 /\ Nats!HMSG \in {Nats!MSG, Nats!HMSG}
        /\ Nats!HMSG # Nats!MSG
    BY <1>3 DEF Nats!MSG, Nats!HMSG
  <2>2. /\ m \in Seq(Nat)
        /\ Nats!Ops(m) = [messages |-> << [subject |-> subject, body |-> payload] >>, rest |-> Len(m) + 1, broken |-> FALSE]
    <3> HIDE DEF headers
    <3> QED  BY <2>1, PacketIsRead
  <2>3. x = m /\ one = << [subject |-> subject, body |-> payload] >>
    BY <1>6, <2>1 DEF Nats!Message, Carried, Packet
  <2> HIDE DEF m, x, one
  <2> QED  BY <2>2, <2>3
<1>7. CASE style = "other"
  <2> DEFINE ping == <<Nats!Line(Nats!PING, 0, 0, 0)>> \o Nats!CRLF
             m == Plain(Nats!OTHER_SERVICE, payload)
  <2>0. Nats!OTHER_SERVICE \in 0 .. 9 /\ Len(payload) <= 993
    BY <1>3 DEF Nats!OTHER_SERVICE
  <2>1. /\ m \in Seq(Nat)
        /\ Nats!Ops(m) = [messages |-> << [subject |-> Nats!OTHER_SERVICE, body |-> payload] >>,
                          rest |-> Len(m) + 1, broken |-> FALSE]
        /\ m = <<Nats!Line(Nats!MSG, Nats!OTHER_SERVICE, 0, Len(payload))>> \o Nats!CRLF \o payload \o Nats!CRLF
    <3> HIDE DEF Plain
    <3> QED  BY <1>2, <2>0
  <2>2. one = << [subject |-> Nats!OTHER_SERVICE, body |-> payload] >>
    BY <1>7 DEF Carried
  <2>3. ping \in Seq(Nat) /\ Nats!Ops(ping) = [messages |-> <<>>, rest |-> Len(ping) + 1, broken |-> FALSE]
    <3> DEFINE cell == Nats!Line(Nats!PING, 0, 0, 0)
    <3>1. Tells(cell, Nats!PING, 0, 0, 0)
      <4>1. Nats!PING \in 0 .. 9 /\ 0 \in 0 .. 9 /\ 0 \in 0 .. 999
        BY DEF Nats!PING
      <4> QED  BY ZenonT(30), <4>1, LineTells
    <3> HIDE DEF cell
    <3>2a. cell \in Nat /\ cell # Nats!CR /\ cell % 10 = Nats!PING
      BY <3>1 DEF Tells
    <3>2. ping = <<cell>> \o Nats!CRLF
      BY DEF cell
    <3> HIDE DEF ping
    <3>3. ping \in Seq(Nat) /\ Len(ping) = 3 /\ ping[1] = cell /\ ping[2] = Nats!CR /\ ping[3] = Nats!LF
      <4>1. <<cell>> \in Seq(Nat) /\ Len(<<cell>>) = 1
        BY <3>2a
      <4>2. InTurn(<<cell>>, Nats!CRLF, Nat)
        BY <1>0, <4>1, Both
      <4>3. Len(Nats!CRLF) = 2 /\ Nats!CRLF[1] = Nats!CR /\ Nats!CRLF[2] = Nats!LF
        BY DEF Nats!CRLF
      <4>4. 1 \in 1 .. 1 /\ 1 \in 1 .. 2 /\ 2 \in 1 .. 2 /\ 1 + 1 = 2 /\ 1 + 2 = 3 /\ <<cell>>[1] = cell
        OBVIOUS
      <4>5. ping[1] = cell /\ ping[1 + 1] = Nats!CR /\ ping[1 + 2] = Nats!LF /\ Len(ping) = 1 + 2 /\ ping \in Seq(Nat)
        BY <3>2, <4>1, <4>2, <4>3, <4>4 DEF InTurn
      <4> QED  BY <4>4, <4>5
    <3>4. 1 \in 1 .. Len(ping) + 1 /\ LineEnds(ping, 1) # {} /\ LineEnd(ping, 1) = 2 /\ Cell(ping, 1) = cell
      <4>1. Len(ping) >= 3 /\ ping[1] # Nats!CR
        BY <3>2a, <3>3
      <4>2. 1 \in 1 .. Len(ping) + 1 /\ LineEnds(ping, 1) # {} /\ LineEnd(ping, 1) = 2 /\ Cell(ping, 1) = ping[1]
        BY <3>3, <4>1, FirstLine
      <4> QED  BY <3>3, <4>2
    <3>5. PICK f : Nats!Ops(ping) = f[1] /\ Reads(ping, f)
      BY <3>3, OpsFrom DEF Reads
    <3>6. f[4] = [messages |-> <<>>, rest |-> 4, broken |-> FALSE]
      <4>1. LineEnds(ping, 4) = {} /\ 4 \in 1 .. Len(ping) + 1
        BY <3>3 DEF LineEnds
      <4> QED  BY <3>5, <4>1 DEF Reads, ReadOp
    <3>7. f[1] = f[4]
      <4>1. Op(ping, 1) \notin {Nats!MSG, Nats!HMSG}
        <5>1. Op(ping, 1) = Nats!PING
          BY <3>2a, <3>4 DEF Op
        <5> QED  BY <5>1 DEF Nats!PING, Nats!MSG, Nats!HMSG
      <4>2. f[1] = ReadOp(ping, f, 1)
        BY <3>4, <3>5 DEF Reads
      <4> QED  BY <3>4, <4>1, <4>2 DEF ReadOp
    <3> QED  BY <3>3, <3>5, <3>6, <3>7
  <2>4. x = ping \o m
    <3> DEFINE line == Nats!Line(Nats!MSG, Nats!OTHER_SERVICE, 0, Len(payload))
               c == Nats!CRLF
    <3>1. line \in Nat
      <4>1. Tells(line, Nats!MSG, Nats!OTHER_SERVICE, 0, Len(payload))
        <5>1. Nats!MSG \in 0 .. 9 /\ 0 \in 0 .. 9
          BY DEF Nats!MSG
        <5>2. Len(payload) \in 0 .. 999
          <6> DEFINE b == Len(payload)
          <6>1. b \in Nat /\ b <= 990
            BY <1>3
          <6> HIDE DEF b
          <6>2. b \in 0 .. 999
            BY <6>1
          <6> QED  BY <6>2 DEF b
        <5> QED  BY ZenonT(30), <2>0, <5>1, <5>2, LineTells
      <4> HIDE DEF line
      <4> QED  BY <4>1 DEF Tells
    <3>2. x = ping \o <<line>> \o c \o payload \o c
      BY <1>7 DEF Nats!Message
    <3>3. m = <<line>> \o c \o payload \o c
      BY <2>1
    <3> HIDE DEF line, c, ping, x, m
    <3>4. c \in Seq(Nat) /\ ping \in Seq(Nat) /\ <<line>> \in Seq(Nat)
      BY <1>0, <2>3, <3>1 DEF c
    <3> DEFINE l == <<line>>
               A == l \o c
               B == A \o payload
    <3>5. l \in Seq(Nat) /\ A \in Seq(Nat) /\ B \in Seq(Nat)
      BY <3>4
    <3>6. x = ((((ping \o l) \o c) \o payload) \o c) /\ m = B \o c
      BY <3>2, <3>3
    <3>7. Associate(ping, l, c)
      BY <3>4, <3>5, Associative
    <3> HIDE DEF l
    <3>8. (ping \o l) \o c = ping \o A
      BY <3>7 DEF Associate
    <3> HIDE DEF A
    <3>9. Associate(ping, A, payload)
      BY <3>4, <3>5, Associative
    <3>10. (ping \o A) \o payload = ping \o B
      BY <3>9 DEF Associate
    <3> HIDE DEF B
    <3>11. Associate(ping, B, c)
      BY <3>4, <3>5, Associative
    <3>12. (ping \o B) \o c = ping \o m
      BY <3>6, <3>11 DEF Associate
    <3> QED  BY <3>6, <3>8, <3>10, <3>12
  <2> HIDE DEF ping, m, x, one
  <2>5. x \in Seq(Nat)
    BY <2>1, <2>3, <2>4
  <2>6. ~Nats!Ops(ping).broken /\ Nats!Ops(ping).rest = Len(ping) + 1 /\ Nats!Ops(ping).messages = <<>>
    BY <2>3
  <2>7. Nats!Ops(x).messages = <<>> \o Nats!Ops(m).messages /\ Nats!Ops(x).broken = Nats!Ops(m).broken
        /\ Left(x) = Left(m)
    BY <2>1, <2>3, <2>4, <2>6, ReadBefore
  <2>8. Left(m) = <<>>
    BY <2>1 DEF Left
  <2>9. Nats!Ops(x) \in OpsRead /\ Nats!Ops(x).rest = Len(x) + 1
    BY <2>5, <2>7, <2>8, RestIs
  <2>10. Nats!Ops(x).messages = one /\ Nats!Ops(x).broken = FALSE
    <3>1. Nats!Ops(m).messages = one /\ Nats!Ops(m).broken = FALSE /\ one \in Seq({one[1]})
      BY <2>1, <2>2
    <3>2. <<>> \o one = one
      BY <3>1
    <3> QED  BY <2>7, <3>1, <3>2
  <2> QED  BY <2>5, <2>9, <2>10 DEF OpsRead
<1> QED  BY <1>4, <1>5, <1>6, <1>7 DEF Nats!Styles

\* nats.py:235-268: a message that is sent in any of its styles, with any payload that its
\* length can tell, comes out as it was sent, and so does what is sent after it; a payload
\* may well hold line ends, and what looks like a line of NATS.
THEOREM SentIsRead ==
    ASSUME NEW style \in Nats!Styles, NEW subject \in 0 .. 9, NEW payload \in Seq(Nat),
           Len(payload) <= 990, NEW z \in Seq(Nat)
    PROVE  LET x == Nats!Message(style, subject, payload)
           IN /\ Nats!Ops(x \o z).messages = << Carried(style, subject, payload) >> \o Nats!Ops(z).messages
              /\ Nats!Ops(x \o z).broken = Nats!Ops(z).broken
              /\ Left(x \o z) = Left(z)
<1> DEFINE x == Nats!Message(style, subject, payload)
           one == << Carried(style, subject, payload) >>
<1>1. IsMessage(x, Carried(style, subject, payload))
  BY MessageIs
<1>2. x \in Seq(Nat) /\ Nats!Ops(x).messages = one /\ Nats!Ops(x).rest = Len(x) + 1 /\ ~Nats!Ops(x).broken
  BY <1>1 DEF IsMessage
<1> HIDE DEF x, one
<1> QED  BY <1>2, ReadBefore DEF x, one

-----------------------------------------------------------------------------
(* BLE: packets (ble_protocol.py:94-101, 118-141) *)

\* The first of some bytes, and some after them, are the first ones again.
LEMMA Pieces ==
    ASSUME NEW x \in Seq(Nat), NEW a \in Nat, NEW c \in Nat, a <= c, c <= Len(x)
    PROVE  /\ SubSeq(x, 1, a) \o SubSeq(x, a + 1, c) = SubSeq(x, 1, c)
           /\ SubSeq(x, 1, c) \in Seq(Nat) /\ SubSeq(x, a + 1, c) \in Seq(Nat)
<1> DEFINE d == c - a
<1>1. d \in Nat /\ a + d = c
  OBVIOUS
<1>2. SubSeq(x, 1, a) = [k \in 1 .. a |-> x[k]] /\ SubSeq(x, 1, c) = [k \in 1 .. c |-> x[k]]
  OBVIOUS
<1>3. SubSeq(x, a + 1, c) = [k \in 1 .. d |-> x[a + k]]
  OBVIOUS
<1> HIDE DEF d
<1>4. \A k \in 1 .. c : x[k] \in Nat
  OBVIOUS
<1>5. [k \in 1 .. a |-> x[k]] \in Seq(Nat) /\ [k \in 1 .. d |-> x[a + k]] \in Seq(Nat) /\ [k \in 1 .. c |-> x[k]] \in Seq(Nat)
  BY <1>1, <1>4
<1>6. [k \in 1 .. a |-> x[k]] \o [k \in 1 .. d |-> x[a + k]] = [k \in 1 .. c |-> x[k]]
  BY <1>1, <1>4, <1>5
<1> QED  BY <1>2, <1>3, <1>5, <1>6

\* How many packets a frame takes, and where the part of it in each of them ends.
Packets(frame) == (Len(frame) + Ble!PACKET_DATA_SIZE - 1) \div Ble!PACKET_DATA_SIZE
EndOf(frame, i) == IF i = Packets(frame) THEN Len(frame) ELSE i * Ble!PACKET_DATA_SIZE

\* What a packet is taken for, and the part of the frame in it.
Carries(packet, kind, data) == packet[1] = kind /\ Tail(packet) = data

\* A packet that is built carries its part.
LEMMA CarriesIs ==
    ASSUME NEW kind \in Nat, NEW data \in Seq(Nat)
    PROVE  Carries(<<kind>> \o data, kind, data)
  BY DEF Carries

\* split_packets: the kind of each packet, and its part of the frame.
LEMMA PacketsAre ==
    ASSUME NEW frame \in Seq(Nat), frame # <<>>
    PROVE  /\ Packets(frame) \in Nat /\ Packets(frame) >= 1 /\ Len(Ble!SplitPackets(frame)) = Packets(frame)
           /\ \A i \in 1 .. Packets(frame) :
                /\ (i - 1) * 19 < EndOf(frame, i) /\ EndOf(frame, i) <= Len(frame) /\ EndOf(frame, i) \in Nat
                /\ Carries(Ble!SplitPackets(frame)[i],
                           IF Packets(frame) = 1 THEN Ble!PACKET_SINGLE
                           ELSE IF i = 1 THEN Ble!PACKET_FIRST
                           ELSE IF i = Packets(frame) THEN Ble!PACKET_LAST ELSE Ble!PACKET_MIDDLE,
                           SubSeq(frame, (i - 1) * 19 + 1, EndOf(frame, i)))
<1> DEFINE n == Packets(frame)
           l == Len(frame)
           Kind(i) == IF n = 1 THEN Ble!PACKET_SINGLE
                      ELSE IF i = 1 THEN Ble!PACKET_FIRST
                      ELSE IF i = n THEN Ble!PACKET_LAST ELSE Ble!PACKET_MIDDLE
<1>0. l \in Nat /\ l >= 1 /\ n = (l + 18) \div 19
  BY DEF Packets, Ble!PACKET_DATA_SIZE
<1>1. n \in Nat /\ n >= 1 /\ 19 * n >= l /\ 19 * (n - 1) < l
  <2> HIDE DEF n, l
  <2> QED  BY <1>0
<1>2. \A i \in 1 .. n : (i - 1) * 19 < EndOf(frame, i) /\ EndOf(frame, i) <= l /\ EndOf(frame, i) \in Nat
  <2>1. \A i \in 1 .. n : EndOf(frame, i) = IF i = n THEN l ELSE i * 19
    BY DEF EndOf, Ble!PACKET_DATA_SIZE
  <2> HIDE DEF n, l
  <2> QED  BY <1>0, <1>1, <2>1
<1>3. Ble!SplitPackets(frame) =
        [i \in 1 .. n |-> <<Kind(i)>> \o SubSeq(frame, (i - 1) * 19 + 1, [j \in 1 .. n |-> IF j = n THEN l ELSE j * 19][i])]
  BY DEF Ble!SplitPackets, Packets, Ble!PACKET_DATA_SIZE
<1>4. ASSUME NEW i \in 1 .. n
      PROVE  Ble!SplitPackets(frame)[i] = <<Kind(i)>> \o SubSeq(frame, (i - 1) * 19 + 1, EndOf(frame, i))
  <2>1. [j \in 1 .. n |-> IF j = n THEN l ELSE j * 19][i] = EndOf(frame, i)
    BY DEF EndOf, Ble!PACKET_DATA_SIZE
  <2> HIDE DEF n, l, Kind
  <2> QED  BY <1>3, <2>1
<1>5. Len(Ble!SplitPackets(frame)) = n
  <2> HIDE DEF n, l, Kind
  <2> QED  BY <1>1, <1>3
<1>6. \A i \in 1 .. n : Kind(i) \in Nat
  BY DEF Ble!PACKET_SINGLE, Ble!PACKET_FIRST, Ble!PACKET_LAST, Ble!PACKET_MIDDLE
<1>7. ASSUME NEW i \in 1 .. n PROVE SubSeq(frame, (i - 1) * 19 + 1, EndOf(frame, i)) \in Seq(Nat)
  <2> DEFINE a == (i - 1) * 19
             c == EndOf(frame, i)
  <2>1. a \in Nat /\ c \in Nat /\ a <= c /\ c <= Len(frame)
    <3>1. i - 1 \in Nat
      BY <1>1
    <3> QED  BY <1>1, <1>2, <3>1
  <2> HIDE DEF a, c
  <2> QED  BY <2>1, Pieces DEF a, c
<1>8. ASSUME NEW i \in 1 .. n
      PROVE  Carries(Ble!SplitPackets(frame)[i], Kind(i), SubSeq(frame, (i - 1) * 19 + 1, EndOf(frame, i)))
  <2> HIDE DEF n, Kind
  <2> QED  BY <1>4, <1>6, <1>7, CarriesIs
<1> QED  BY <1>1, <1>2, <1>5, <1>8

\* What the assembler makes of a packet of each kind.
AfterPacket(buf, kind, data) ==
    [buf |-> IF kind = 0 THEN data ELSE IF kind = 64 THEN buf \o data ELSE <<>>,
     frames |-> IF kind = 128 THEN {data} ELSE IF kind = 192 THEN {buf \o data} ELSE {}]

\* PacketAssembler.feed, of a packet that is known so.
LEMMA Assembles ==
    ASSUME NEW buf, NEW packet, NEW data, NEW kind, kind \in {0, 64, 128, 192}, Carries(packet, kind, data)
    PROVE  Ble!Feed(buf, packet) = AfterPacket(buf, kind, data)
<1> DEFINE fed == CASE kind = 128 -> [buf |-> <<>>, frames |-> {data}]
                    [] kind = 0 -> [buf |-> data, frames |-> {}]
                    [] kind = 64 -> [buf |-> buf \o data, frames |-> {}]
                    [] kind = 192 -> [buf |-> <<>>, frames |-> {buf \o data}]
<1>1. Ble!Feed(buf, packet) = fed
  <2>1. packet[1] = kind /\ Tail(packet) = data
    BY DEF Carries
  <2> QED  BY <2>1 DEF Ble!Feed, Ble!PACKET_SINGLE, Ble!PACKET_FIRST, Ble!PACKET_LAST, Ble!PACKET_MIDDLE
<1>2. CASE kind = 0
  <2>1. fed = [buf |-> data, frames |-> {}]
    BY <1>2
  <2>2. AfterPacket(buf, kind, data) = [buf |-> data, frames |-> {}]
    BY <1>2 DEF AfterPacket
  <2> QED  BY <1>1, <2>1, <2>2
<1>3. CASE kind = 64
  <2>1. fed = [buf |-> buf \o data, frames |-> {}]
    BY <1>3
  <2>2. AfterPacket(buf, kind, data) = [buf |-> buf \o data, frames |-> {}]
    BY <1>3 DEF AfterPacket
  <2> QED  BY <1>1, <2>1, <2>2
<1>4. CASE kind = 128
  <2>1. fed = [buf |-> <<>>, frames |-> {data}]
    BY <1>4
  <2>2. AfterPacket(buf, kind, data) = [buf |-> <<>>, frames |-> {data}]
    BY <1>4 DEF AfterPacket
  <2> QED  BY <1>1, <2>1, <2>2
<1>5. CASE kind = 192
  <2>1. fed = [buf |-> <<>>, frames |-> {buf \o data}]
    BY <1>5
  <2>2. AfterPacket(buf, kind, data) = [buf |-> <<>>, frames |-> {buf \o data}]
    BY <1>5 DEF AfterPacket
  <2> QED  BY <1>1, <2>1, <2>2
<1> QED  BY <1>2, <1>3, <1>4, <1>5

\* Kind by kind.
LEMMA AfterPacketIs ==
    ASSUME NEW buf, NEW data
    PROVE  /\ AfterPacket(buf, 0, data) = [buf |-> data, frames |-> {}]
           /\ AfterPacket(buf, 64, data) = [buf |-> buf \o data, frames |-> {}]
           /\ AfterPacket(buf, 128, data) = [buf |-> <<>>, frames |-> {data}]
           /\ AfterPacket(buf, 192, data) = [buf |-> <<>>, frames |-> {buf \o data}]
  BY DEF AfterPacket

\* What the assembler keeps after each of some packets that come one after another.
Feeds(packets, kept) == \A i \in 1 .. Len(packets) : kept[i] = Ble!Feed(kept[i - 1], packets[i]).buf

\* ble_protocol.py, split_packets and PacketAssembler.feed: whatever the assembler has
\* kept of frames that came in part, from the packets of a frame that come one after
\* another it makes this frame, with the last of them and not before, and keeps nothing.
THEOREM FramesAreAssembled ==
    ASSUME NEW frame \in Seq(Nat), frame # <<>>, NEW kept, kept[0] \in Seq(Nat),
           Feeds(Ble!SplitPackets(frame), kept)
    PROVE  LET packets == Ble!SplitPackets(frame)
               n == Len(packets)
           IN /\ n >= 1
              /\ \A i \in 1 .. n : Ble!Feed(kept[i - 1], packets[i]).frames = IF i = n THEN {frame} ELSE {}
              /\ kept[n] = <<>>
<1> DEFINE packets == Ble!SplitPackets(frame)
           n == Packets(frame)
           Piece(i) == SubSeq(frame, (i - 1) * 19 + 1, EndOf(frame, i))
           S == {i \in Nat : 1 <= i /\ i < n => kept[i] = SubSeq(frame, 1, 19 * i)}
<1>0. /\ n \in Nat /\ n >= 1 /\ Len(packets) = n
      /\ \A i \in 1 .. n :
           /\ (i - 1) * 19 < EndOf(frame, i) /\ EndOf(frame, i) <= Len(frame) /\ EndOf(frame, i) \in Nat
           /\ Carries(packets[i],
                           IF n = 1 THEN Ble!PACKET_SINGLE
                           ELSE IF i = 1 THEN Ble!PACKET_FIRST
                           ELSE IF i = n THEN Ble!PACKET_LAST ELSE Ble!PACKET_MIDDLE, Piece(i))
  BY PacketsAre
<1>1. \A i \in 1 .. n : i # n => EndOf(frame, i) = 19 * i
  BY DEF EndOf, Ble!PACKET_DATA_SIZE
<1>2. EndOf(frame, n) = Len(frame)
  BY DEF EndOf
<1>k. \A i \in 1 .. n : kept[i] = Ble!Feed(kept[i - 1], packets[i]).buf
  BY <1>0 DEF Feeds
<1>w. SubSeq(frame, 1, Len(frame)) = frame
  OBVIOUS
<1> HIDE DEF n, packets
<1> USE DEF Ble!PACKET_SINGLE, Ble!PACKET_FIRST, Ble!PACKET_LAST, Ble!PACKET_MIDDLE
<1>3. ASSUME n = 1
      PROVE  Ble!Feed(kept[0], packets[1]) = [buf |-> <<>>, frames |-> {frame}]
  <2>1. Carries(packets[1], 128, Piece(1))
    BY <1>0, <1>3
  <2>2. Piece(1) = frame
    BY <1>2, <1>3, <1>w
  <2> HIDE DEF Piece
  <2>3. Ble!Feed(kept[0], packets[1]) = AfterPacket(kept[0], 128, Piece(1))
    BY <2>1, Assembles
  <2> QED  BY <2>2, <2>3, AfterPacketIs
<1>4. ASSUME n # 1
      PROVE  Ble!Feed(kept[0], packets[1]) = [buf |-> SubSeq(frame, 1, 19), frames |-> {}]
  <2>1. 1 \in 1 .. n /\ 1 # n
    BY <1>0, <1>4
  <2>2. Carries(packets[1], 0, Piece(1))
    BY <1>0, <1>4, <2>1
  <2>3. Piece(1) = SubSeq(frame, 1, 19)
    <3>1. EndOf(frame, 1) = 19 /\ (1 - 1) * 19 + 1 = 1
      BY <1>1, <2>1
    <3> QED  BY <3>1
  <2> HIDE DEF Piece
  <2>4. Ble!Feed(kept[0], packets[1]) = AfterPacket(kept[0], 0, Piece(1))
    BY <2>2, Assembles
  <2>5. AfterPacket(kept[0], 0, Piece(1)) = [buf |-> Piece(1), frames |-> {}]
    BY AfterPacketIs
  <2> QED  BY <2>3, <2>4, <2>5
<1>5. ASSUME NEW i \in 2 .. n, kept[i - 1] = SubSeq(frame, 1, 19 * (i - 1))
      PROVE  Ble!Feed(kept[i - 1], packets[i]) =
               IF i = n THEN [buf |-> <<>>, frames |-> {frame}] ELSE [buf |-> SubSeq(frame, 1, 19 * i), frames |-> {}]
  <2> DEFINE a == 19 * (i - 1)
             c == EndOf(frame, i)
  <2>1. i \in 1 .. n /\ n # 1 /\ i # 1 /\ a = (i - 1) * 19
    BY <1>0
  <2>2. a \in Nat /\ c \in Nat /\ a <= c /\ c <= Len(frame)
    BY <1>0, <2>1
  <2>3. Piece(i) = SubSeq(frame, a + 1, c)
    BY <2>1
  <2>4. Carries(packets[i], IF i = n THEN 192 ELSE 64, SubSeq(frame, a + 1, c))
    BY <1>0, <2>1, <2>3
  <2>5. c = IF i = n THEN Len(frame) ELSE 19 * i
    BY <1>1, <1>2, <2>1
  <2>6. kept[i - 1] = SubSeq(frame, 1, a)
    BY <1>5
  <2> HIDE DEF a, c
  <2>7. kept[i - 1] \o SubSeq(frame, a + 1, c) = SubSeq(frame, 1, c)
    BY SMTT(30), <2>2, <2>6, Pieces
  <2>8. CASE i = n
    <3>1. Carries(packets[i], 192, SubSeq(frame, a + 1, c)) /\ SubSeq(frame, 1, c) = frame
      BY <1>w, <2>4, <2>5, <2>8
    <3>a. Ble!Feed(kept[i - 1], packets[i]) = AfterPacket(kept[i - 1], 192, SubSeq(frame, a + 1, c))
      BY <3>1, Assembles
    <3>b. AfterPacket(kept[i - 1], 192, SubSeq(frame, a + 1, c)) =
            [buf |-> <<>>, frames |-> {kept[i - 1] \o SubSeq(frame, a + 1, c)}]
      BY AfterPacketIs
    <3>c. kept[i - 1] \o SubSeq(frame, a + 1, c) = frame
      BY <2>7, <3>1
    <3>2. Ble!Feed(kept[i - 1], packets[i]) = [buf |-> <<>>, frames |-> {frame}]
      BY <3>a, <3>b, <3>c
    <3> QED  BY <2>8, <3>2
  <2>9. CASE i # n
    <3>1. Carries(packets[i], 64, SubSeq(frame, a + 1, c)) /\ SubSeq(frame, 1, c) = SubSeq(frame, 1, 19 * i)
      BY <2>4, <2>5, <2>9
    <3>a. Ble!Feed(kept[i - 1], packets[i]) = AfterPacket(kept[i - 1], 64, SubSeq(frame, a + 1, c))
      BY <3>1, Assembles
    <3>b. AfterPacket(kept[i - 1], 64, SubSeq(frame, a + 1, c)) =
            [buf |-> kept[i - 1] \o SubSeq(frame, a + 1, c), frames |-> {}]
      BY AfterPacketIs
    <3>c. kept[i - 1] \o SubSeq(frame, a + 1, c) = SubSeq(frame, 1, 19 * i)
      BY <2>7, <3>1
    <3>2. Ble!Feed(kept[i - 1], packets[i]) = [buf |-> SubSeq(frame, 1, 19 * i), frames |-> {}]
      BY <3>a, <3>b, <3>c
    <3> QED  BY <2>9, <3>2
  <2> QED  BY <2>8, <2>9
<1>6. 0 \in S
  OBVIOUS
<1>7. ASSUME NEW i \in Nat, i \in S PROVE i + 1 \in S
  <2> SUFFICES ASSUME 1 <= i + 1, i + 1 < n PROVE kept[i + 1] = SubSeq(frame, 1, 19 * (i + 1))
    OBVIOUS
  <2>1. i + 1 \in 1 .. n /\ n # 1 /\ (i + 1) - 1 = i
    BY <1>0
  <2>2. kept[i + 1] = Ble!Feed(kept[i], packets[i + 1]).buf
    BY <1>k, <2>1
  <2>3. CASE i = 0
    <3>1. Ble!Feed(kept[0], packets[1]) = [buf |-> SubSeq(frame, 1, 19), frames |-> {}]
      BY <1>4, <2>1
    <3>3. 19 * (i + 1) = 19 /\ i + 1 = 1
      BY <2>3
    <3>2. kept[1] = Ble!Feed(kept[0], packets[1]).buf
      BY <2>2, <2>3, <3>3
    <3>4. SubSeq(frame, 1, 19 * (i + 1)) = SubSeq(frame, 1, 19) /\ kept[i + 1] = kept[1]
      BY <3>3
    <3>5. kept[1] = SubSeq(frame, 1, 19)
      BY <3>1, <3>2
    <3> QED  BY <3>4, <3>5
  <2>4. CASE i # 0
    <3>1. i + 1 \in 2 .. n /\ i + 1 # n
      BY <1>0, <2>1, <2>4
    <3>2. kept[i] = SubSeq(frame, 1, 19 * i)
      <4>1. 1 <= i /\ i < n
        BY <1>0, <2>4
      <4> QED  BY <1>7, <4>1
    <3>3. Ble!Feed(kept[i], packets[i + 1]) = [buf |-> SubSeq(frame, 1, 19 * (i + 1)), frames |-> {}]
      BY <1>5, <2>1, <3>1, <3>2
    <3> QED  BY <2>2, <3>3
  <2> QED  BY <2>3, <2>4
<1>8. \A i \in Nat : i \in S
  <2> HIDE DEF S
  <2> QED  BY <1>6, <1>7, Induction
<1>9. ASSUME NEW i \in 1 .. n
      PROVE  Ble!Feed(kept[i - 1], packets[i]).frames = (IF i = n THEN {frame} ELSE {})
             /\ (i = n => kept[i] = <<>>)
  <2>1. kept[i] = Ble!Feed(kept[i - 1], packets[i]).buf
    BY <1>k
  <2>2. CASE i = 1 /\ n = 1
    BY <1>3, <2>1, <2>2
  <2>3. CASE i = 1 /\ n # 1
    <3>1. Ble!Feed(kept[0], packets[1]) = [buf |-> SubSeq(frame, 1, 19), frames |-> {}]
      BY <1>4, <2>3
    <3>2. i # n /\ i - 1 = 0
      BY <2>3
    <3> QED  BY <2>3, <3>1, <3>2
  <2>4. CASE i # 1
    <3>1. i \in 2 .. n /\ i - 1 \in Nat /\ 1 <= i - 1 /\ i - 1 < n
      BY <1>0, <2>4
    <3>2. kept[i - 1] = SubSeq(frame, 1, 19 * (i - 1))
      BY <1>8, <3>1
    <3>3. Ble!Feed(kept[i - 1], packets[i]) =
            IF i = n THEN [buf |-> <<>>, frames |-> {frame}] ELSE [buf |-> SubSeq(frame, 1, 19 * i), frames |-> {}]
      BY <1>5, <3>1, <3>2
    <3> QED  BY <2>1, <3>3
  <2> QED  BY <2>2, <2>3, <2>4
<1>10. n \in 1 .. n
  BY <1>0
<1>11. Len(packets) = n /\ n >= 1
  BY <1>0
<1> QED
  <2> HIDE DEF S, Piece
  <2> QED  BY <1>9, <1>10, <1>11 DEF packets

-----------------------------------------------------------------------------
(* BLE: the CRC (ble_protocol.py:78-85) *)

\* What a value becomes in some steps, each by its number.
Steps(f, n, first, G) == f[0] = first /\ \A i \in 1 .. n : f[i] = G[<<i, f[i - 1]>>]

\* Such steps can be taken, whatever their number.
LEMMA Iteration ==
    ASSUME NEW n \in Nat, NEW V, NEW first \in V, NEW G \in [(1 .. n) \X V -> V]
    PROVE  \E f \in [0 .. n -> V] : Steps(f, n, first, G)
<1> DEFINE D == 0 .. n
           F == [p \in [D -> V] \X D |-> IF p[2] = 0 THEN first ELSE G[<<p[2], p[1][p[2] - 1]>>]]
<1>1. \A f \in [D -> V], i \in D : F[<<f, i>>] = IF i = 0 THEN first ELSE G[<<i, f[i - 1]>>]
  OBVIOUS
<1>2. F \in [[D -> V] \X D -> V]
  <2>1. ASSUME NEW f \in [D -> V], NEW i \in D PROVE (IF i = 0 THEN first ELSE G[<<i, f[i - 1]>>]) \in V
    <3>1. CASE i # 0
      <4>1. i \in 1 .. n /\ i - 1 \in D
        BY <3>1
      <4> QED  BY <3>1, <4>1
    <3> QED  BY <3>1
  <2> HIDE DEF D
  <2> QED  BY <2>1
<1> HIDE DEF F
<1>3. ASSUME NEW g \in [D -> V], NEW h \in [D -> V], NEW at \in D, \A j \in D : j < at => g[j] = h[j]
      PROVE  F[<<g, at>>] = F[<<h, at>>]
  <2>1. at # 0 => at - 1 \in D /\ at - 1 < at
    OBVIOUS
  <2> HIDE DEF D
  <2> QED  BY ZenonT(30), <1>1, <1>3, <2>1
<1>4. LooksDown(F, D, V)
  <2>1. V # {} /\ \E m \in Nat : D \subseteq 0 .. m
    OBVIOUS
  <2> HIDE DEF D
  <2> QED  BY <1>2, <1>3, <2>1 DEF LooksDown
<1>5. PICK f \in [D -> V] : \A i \in D : f[i] = F[<<f, i>>]
  <2> HIDE DEF D
  <2> QED  BY <1>4, RecursionUp DEF Recursive
<1>6. Steps(f, n, first, G)
  <2>1. 0 \in D /\ \A i \in 1 .. n : i \in D /\ i # 0
    OBVIOUS
  <2> HIDE DEF D
  <2>2. f[0] = first
    BY <1>1, <1>5, <2>1
  <2>3. ASSUME NEW i \in 1 .. n PROVE f[i] = G[<<i, f[i - 1]>>]
    <3>1. i \in D /\ i # 0
      BY <2>1
    <3> QED  BY <1>1, <1>5, <3>1
  <2> QED  BY <2>2, <2>3 DEF Steps
<1> QED  BY <1>5, <1>6

\* Numbers of sixteen bits, as the sets of their bits that are one.
Bits == SUBSET (0 .. 15)
HighByte == SUBSET (8 .. 15)

\* A shift makes sixteen bits of sixteen, and none of none.
LEMMA ShiftIs == Ble!Shift({}) = {} /\ \A crc \in Bits : Ble!Shift(crc) \in Bits
<1>1. ASSUME NEW crc \in Bits PROVE Ble!Shift(crc) \in Bits
  <2> DEFINE up == {bit + 1 : bit \in crc \ {15}}
  <2>1. up \subseteq 0 .. 15
    BY DEF Bits
  <2>2. Ble!Shift(crc) = IF 15 \in crc THEN Ble!Xor(up, {0, 5, 12}) ELSE up
    BY DEF Ble!Shift
  <2> HIDE DEF up
  <2>3. Ble!Xor(up, {0, 5, 12}) \subseteq 0 .. 15
    BY <2>1 DEF Ble!Xor
  <2> QED  BY <2>1, <2>2, <2>3 DEF Bits
<1>2. Ble!Shift({}) = {}
  <2>1. Ble!Shift({}) = IF 15 \in {} THEN Ble!Xor({bit + 1 : bit \in {} \ {15}}, {0, 5, 12})
                        ELSE {bit + 1 : bit \in {} \ {15}}
    BY DEF Ble!Shift
  <2>2. {bit + 1 : bit \in {} \ {15}} = {}
    OBVIOUS
  <2> QED  BY <2>1, <2>2
<1> QED  BY <1>1, <1>2

\* So do eight of them.
LEMMA ShiftedIs == Ble!Shifted[{}] = {} /\ \A high \in HighByte : Ble!Shifted[high] \in Bits
<1>1. ASSUME NEW high \in HighByte
      PROVE  \E shifts \in [0 .. 8 -> Bits] :
               /\ Ble!Shifted[high] = shifts[8] /\ shifts[0] = high
               /\ \A i \in 1 .. 8 : shifts[i] = Ble!Shift(shifts[i - 1])
  <2> DEFINE G == [p \in (1 .. 8) \X Bits |-> Ble!Shift(p[2])]
             some == CHOOSE g : g = [i \in 0 .. 8 |-> IF i = 0 THEN high ELSE Ble!Shift(g[i - 1])]
  <2>1. Ble!Shifted[high] = some[8]
    BY DEF Ble!Shifted, HighByte
  <2>2. G \in [(1 .. 8) \X Bits -> Bits] /\ \A i \in 1 .. 8, crc \in Bits : G[<<i, crc>>] = Ble!Shift(crc)
    BY ShiftIs
  <2>3. high \in Bits
    BY DEF Bits, HighByte
  <2> HIDE DEF G
  <2>4. PICK f \in [0 .. 8 -> Bits] : Steps(f, 8, high, G)
    BY <2>2, <2>3, Iteration
  <2>5. f[0] = high /\ \A i \in 1 .. 8 : f[i] = Ble!Shift(f[i - 1])
    <3>1. ASSUME NEW i \in 1 .. 8 PROVE f[i] = Ble!Shift(f[i - 1])
      <4>1. f[i - 1] \in Bits
        BY <2>4
      <4> QED  BY <2>2, <2>4, <4>1 DEF Steps
    <3> QED  BY <2>4, <3>1 DEF Steps
  <2>6. f = [i \in 0 .. 8 |-> IF i = 0 THEN high ELSE Ble!Shift(f[i - 1])]
    <3>1. \A i \in 0 .. 8 : f[i] = IF i = 0 THEN high ELSE Ble!Shift(f[i - 1])
      BY <2>5
    <3> QED  BY <3>1
  <2>7. some = [i \in 0 .. 8 |-> IF i = 0 THEN high ELSE Ble!Shift(some[i - 1])]
    BY <2>6
  <2> HIDE DEF some
  <2>8. some[0] = high /\ \A i \in 1 .. 8 : some[i] = Ble!Shift(some[i - 1])
    BY <2>7
  <2> DEFINE S == {i \in Nat : i <= 8 => some[i] = f[i]}
  <2>9. 0 \in S
    BY <2>5, <2>8
  <2>10. ASSUME NEW i \in Nat, i \in S PROVE i + 1 \in S
    <3> SUFFICES ASSUME i + 1 <= 8 PROVE some[i + 1] = f[i + 1]
      OBVIOUS
    <3>1. i + 1 \in 1 .. 8 /\ (i + 1) - 1 = i /\ some[i] = f[i]
      BY <2>10
    <3> QED  BY <2>5, <2>8, <3>1
  <2>11. 8 \in S
    <3> HIDE DEF S
    <3> QED  BY <2>9, <2>10, Induction
  <2> QED  BY <2>1, <2>5, <2>11
<1>2. {} \in HighByte
  BY DEF HighByte
<1>3. Ble!Shifted[{}] = {}
  <2>1. PICK shifts \in [0 .. 8 -> Bits] :
               /\ Ble!Shifted[{}] = shifts[8] /\ shifts[0] = {}
               /\ \A i \in 1 .. 8 : shifts[i] = Ble!Shift(shifts[i - 1])
    BY <1>1, <1>2
  <2> DEFINE S == {i \in Nat : i <= 8 => shifts[i] = {}}
  <2>2. 0 \in S
    BY <2>1
  <2>3. ASSUME NEW i \in Nat, i \in S PROVE i + 1 \in S
    <3> SUFFICES ASSUME i + 1 <= 8 PROVE shifts[i + 1] = {}
      OBVIOUS
    <3>1. i + 1 \in 1 .. 8 /\ (i + 1) - 1 = i /\ shifts[i] = {}
      BY <2>3
    <3> QED  BY <2>1, <3>1, ShiftIs
  <2>4. 8 \in S
    <3> HIDE DEF S
    <3> QED  BY <2>2, <2>3, Induction
  <2> QED  BY <2>1, <2>4
<1>4. ASSUME NEW high \in HighByte PROVE Ble!Shifted[high] \in Bits
  <2>1. PICK shifts \in [0 .. 8 -> Bits] : Ble!Shifted[high] = shifts[8]
    BY <1>1
  <2> QED  BY <2>1
<1> QED  BY <1>3, <1>4

\* The bits of a byte are those that it was made of.
LEMMA BitsOfSum ==
    ASSUME NEW a \in 0 .. 1, NEW b \in 0 .. 1, NEW c \in 0 .. 1, NEW d \in 0 .. 1,
           NEW e \in 0 .. 1, NEW f \in 0 .. 1, NEW g \in 0 .. 1, NEW h \in 0 .. 1,
           NEW n, n = a + 2 * b + 4 * c + 8 * d + 16 * e + 32 * f + 64 * g + 128 * h
    PROVE  /\ n \in 0 .. 255
           /\ n % 2 = a /\ (n \div 2) % 2 = b /\ (n \div 4) % 2 = c /\ (n \div 8) % 2 = d
           /\ (n \div 16) % 2 = e /\ (n \div 32) % 2 = f /\ (n \div 64) % 2 = g /\ (n \div 128) % 2 = h
<1>1. n \in 0 .. 255
  OBVIOUS
<1>2. n % 2 = a
  OBVIOUS
<1>3. (n \div 2) % 2 = b
  OBVIOUS
<1>4. (n \div 4) % 2 = c
  OBVIOUS
<1>5. (n \div 8) % 2 = d
  OBVIOUS
<1>6. (n \div 16) % 2 = e
  OBVIOUS
<1>7. (n \div 32) % 2 = f
  OBVIOUS
<1>8. (n \div 64) % 2 = g
  OBVIOUS
<1>9. (n \div 128) % 2 = h
  OBVIOUS
<1> QED  BY <1>1, <1>2, <1>3, <1>4, <1>5, <1>6, <1>7, <1>8, <1>9

\* Every set of bits of the upper byte is that of a byte.
LEMMA ByteOfIs ==
    ASSUME NEW bits \in HighByte
    PROVE  Ble!ByteOf[bits] \in Byte /\ Ble!HighBits[Ble!ByteOf[bits]] = bits
<1> DEFINE One(i) == IF i \in bits THEN 1 ELSE 0
<1>1. \A i \in 8 .. 15 : One(i) \in 0 .. 1 /\ (One(i) = 1 <=> i \in bits)
  OBVIOUS
<1> HIDE DEF One
<1>2. PICK a \in 0 .. 1, b \in 0 .. 1, c \in 0 .. 1, d \in 0 .. 1, e \in 0 .. 1, f \in 0 .. 1, g \in 0 .. 1, h \in 0 .. 1 :
        /\ a = One(8) /\ b = One(9) /\ c = One(10) /\ d = One(11)
        /\ e = One(12) /\ f = One(13) /\ g = One(14) /\ h = One(15)
  BY <1>1
<1> DEFINE n == a + 2 * b + 4 * c + 8 * d + 16 * e + 32 * f + 64 * g + 128 * h
<1>3. /\ n \in 0 .. 255
      /\ n % 2 = a /\ (n \div 2) % 2 = b /\ (n \div 4) % 2 = c /\ (n \div 8) % 2 = d
      /\ (n \div 16) % 2 = e /\ (n \div 32) % 2 = f /\ (n \div 64) % 2 = g /\ (n \div 128) % 2 = h
  BY BitsOfSum
<1> HIDE DEF n
<1>4. /\ Ble!Bit(n, 0) <=> a = 1
      /\ Ble!Bit(n, 1) <=> b = 1
      /\ Ble!Bit(n, 2) <=> c = 1
      /\ Ble!Bit(n, 3) <=> d = 1
      /\ Ble!Bit(n, 4) <=> e = 1
      /\ Ble!Bit(n, 5) <=> f = 1
      /\ Ble!Bit(n, 6) <=> g = 1
      /\ Ble!Bit(n, 7) <=> h = 1
  BY <1>3 DEF Ble!Bit, Ble!BitAt
<1>5. \A i \in 8 .. 15 : Ble!Bit(n, i - 8) <=> i \in bits
  <2> SUFFICES ASSUME NEW i \in 8 .. 15 PROVE Ble!Bit(n, i - 8) <=> i \in bits
    OBVIOUS
  <2>1. CASE i = 8
    BY <1>1, <1>2, <1>4, <2>1
  <2>2. CASE i = 9
    BY <1>1, <1>2, <1>4, <2>2
  <2>3. CASE i = 10
    BY <1>1, <1>2, <1>4, <2>3
  <2>4. CASE i = 11
    BY <1>1, <1>2, <1>4, <2>4
  <2>5. CASE i = 12
    BY <1>1, <1>2, <1>4, <2>5
  <2>6. CASE i = 13
    BY <1>1, <1>2, <1>4, <2>6
  <2>7. CASE i = 14
    BY <1>1, <1>2, <1>4, <2>7
  <2>8. CASE i = 15
    BY <1>1, <1>2, <1>4, <2>8
  <2> QED  BY <2>1, <2>2, <2>3, <2>4, <2>5, <2>6, <2>7, <2>8
<1>6. Ble!HighBits[n] = {i \in 8 .. 15 : Ble!Bit(n, i - 8)}
  BY <1>3 DEF Ble!HighBits
<1>7. Ble!HighBits[n] = bits
  <2>1. bits \subseteq 8 .. 15
    BY DEF HighByte
  <2> QED  BY <1>5, <1>6, <2>1
<1>8. Ble!ByteOf[bits] = CHOOSE byte \in 0 .. 255 : Ble!HighBits[byte] = bits
  BY DEF Ble!ByteOf, HighByte
<1> QED  BY <1>3, <1>7, <1>8 DEF Byte

\* The bits of a byte, moved up.
LEMMA HighBitsAre == \A byte \in Byte : Ble!HighBits[byte] \in HighByte
  BY DEF Ble!HighBits, Byte, HighByte

\* A byte more makes sixteen bits of sixteen.
LEMMA CrcByteIs == \A crc \in Bits, byte \in Byte : Ble!CrcByte(crc, byte) \in Bits
<1> SUFFICES ASSUME NEW crc \in Bits, NEW byte \in Byte PROVE Ble!CrcByte(crc, byte) \in Bits
  OBVIOUS
<1> DEFINE high == Ble!Xor(crc \cap (8 .. 15), Ble!HighBits[byte])
           low == {bit + 8 : bit \in crc \cap (0 .. 7)}
<1>1. high \in HighByte
  <2>1. Ble!HighBits[byte] \subseteq 8 .. 15
    BY HighBitsAre DEF HighByte
  <2> QED  BY <2>1 DEF Ble!Xor, HighByte
<1>2. low \subseteq 0 .. 15
  OBVIOUS
<1>3. Ble!CrcByte(crc, byte) = Ble!Xor(Ble!Shifted[high], low)
  BY DEF Ble!CrcByte
<1> HIDE DEF high, low
<1>4. Ble!Shifted[high] \subseteq 0 .. 15
  BY <1>1, ShiftedIs DEF Bits
<1> QED  BY <1>2, <1>3, <1>4 DEF Ble!Xor, Bits

\* The CRC of some bytes, byte by byte.
CrcSteps(bytes, crc) ==
    /\ crc \in [0 .. Len(bytes) -> Bits] /\ crc[0] = 0 .. 15
    /\ \A i \in 1 .. Len(bytes) : crc[i] = Ble!CrcByte(crc[i - 1], bytes[i])

\* The CRC after some bytes depends on no later ones.
LEMMA CrcAlike ==
    ASSUME NEW x \in Seq(Byte), NEW y \in Seq(Byte), NEW n \in Nat, n <= Len(x), n <= Len(y),
           \A i \in 1 .. n : x[i] = y[i],
           NEW f, CrcSteps(x, f), NEW g, CrcSteps(y, g)
    PROVE  f[n] = g[n]
<1> DEFINE S == {i \in Nat : i <= n => f[i] = g[i]}
<1>0. Len(x) \in Nat /\ Len(y) \in Nat
  OBVIOUS
<1>1. 0 \in S
  BY DEF CrcSteps
<1>2. ASSUME NEW i \in Nat, i \in S PROVE i + 1 \in S
  <2> SUFFICES ASSUME i + 1 <= n PROVE f[i + 1] = g[i + 1]
    OBVIOUS
  <2>1. i + 1 \in 1 .. n /\ i + 1 \in 1 .. Len(x) /\ i + 1 \in 1 .. Len(y) /\ (i + 1) - 1 = i /\ f[i] = g[i]
    BY <1>0, <1>2
  <2>2. f[i + 1] = Ble!CrcByte(f[i], x[i + 1]) /\ g[i + 1] = Ble!CrcByte(g[i], y[i + 1])
    BY <2>1 DEF CrcSteps
  <2> QED  BY <2>1, <2>2
<1>3. n \in S
  <2> HIDE DEF S
  <2> QED  BY <1>1, <1>2, Induction
<1> QED  BY <1>3

\* crc16_ccitt_false, byte by byte.
LEMMA CrcIs ==
    ASSUME NEW bytes \in Seq(Byte)
    PROVE  \E crc : CrcSteps(bytes, crc) /\ Ble!Crc(bytes) = crc[Len(bytes)]
<1> DEFINE n == Len(bytes)
           G == [p \in (1 .. n) \X Bits |-> Ble!CrcByte(p[2], bytes[p[1]])]
           some == CHOOSE g : g = [i \in 0 .. n |-> IF i = 0 THEN 0 .. 15
                                                     ELSE UNION {Ble!CrcByte(c, bytes[i]) : c \in {g[i - 1]}}]
<1>0. n \in Nat /\ \A i \in 1 .. n : bytes[i] \in Byte
  OBVIOUS
<1>1. Ble!Crc(bytes) = some[n]
  BY DEF Ble!Crc
<1>2. G \in [(1 .. n) \X Bits -> Bits] /\ \A i \in 1 .. n, crc \in Bits : G[<<i, crc>>] = Ble!CrcByte(crc, bytes[i])
  <2> HIDE DEF n
  <2> QED  BY <1>0, CrcByteIs
<1>3. 0 .. 15 \in Bits
  BY DEF Bits
<1> HIDE DEF G, n
<1>4. PICK f \in [0 .. n -> Bits] : Steps(f, n, 0 .. 15, G)
  BY <1>0, <1>2, <1>3, Iteration
<1>5. f[0] = 0 .. 15 /\ \A i \in 1 .. n : f[i] = Ble!CrcByte(f[i - 1], bytes[i])
  <2>1. ASSUME NEW i \in 1 .. n PROVE f[i] = Ble!CrcByte(f[i - 1], bytes[i])
    <3>1. f[i - 1] \in Bits
      <4>1. i - 1 \in 0 .. n
        BY <1>0
      <4> QED  BY <1>4, <4>1
    <3> QED  BY <1>2, <1>4, <3>1 DEF Steps
  <2> QED  BY <1>4, <2>1 DEF Steps
<1>6. \A c, i : UNION {Ble!CrcByte(x, bytes[i]) : x \in {c}} = Ble!CrcByte(c, bytes[i])
  OBVIOUS
<1>7. f = [i \in 0 .. n |-> IF i = 0 THEN 0 .. 15 ELSE UNION {Ble!CrcByte(c, bytes[i]) : c \in {f[i - 1]}}]
  <2>1. \A i \in 0 .. n : f[i] = IF i = 0 THEN 0 .. 15 ELSE Ble!CrcByte(f[i - 1], bytes[i])
    BY <1>0, <1>5
  <2>2. \A i \in 0 .. n : f[i] = IF i = 0 THEN 0 .. 15 ELSE UNION {Ble!CrcByte(c, bytes[i]) : c \in {f[i - 1]}}
    BY <1>6, <2>1
  <2> QED  BY <2>2
<1>8. some = [i \in 0 .. n |-> IF i = 0 THEN 0 .. 15 ELSE UNION {Ble!CrcByte(c, bytes[i]) : c \in {some[i - 1]}}]
  BY <1>7
<1> HIDE DEF some
<1>9. some[0] = 0 .. 15 /\ \A i \in 1 .. n : some[i] = Ble!CrcByte(some[i - 1], bytes[i])
  <2>1. some[0] = 0 .. 15
    BY <1>0, <1>8
  <2>2. ASSUME NEW i \in 1 .. n PROVE some[i] = Ble!CrcByte(some[i - 1], bytes[i])
    <3>1. some[i] = UNION {Ble!CrcByte(c, bytes[i]) : c \in {some[i - 1]}}
      <4> DEFINE then(j) == IF j = 0 THEN 0 .. 15 ELSE UNION {Ble!CrcByte(c, bytes[j]) : c \in {some[j - 1]}}
      <4>1. some = [j \in 0 .. n |-> then(j)]
        BY <1>8
      <4>2. i \in 0 .. n /\ i # 0
        BY <1>0
      <4>3. some[i] = then(i)
        <5> HIDE DEF then
        <5> QED  BY <4>1, <4>2
      <4> QED  BY <4>2, <4>3
    <3> QED  BY <1>6, <3>1
  <2> QED  BY <2>1, <2>2
<1> DEFINE S == {i \in Nat : i <= n => some[i] = f[i]}
<1>10. 0 \in S
  BY <1>5, <1>9
<1>11. ASSUME NEW i \in Nat, i \in S PROVE i + 1 \in S
  <2> SUFFICES ASSUME i + 1 <= n PROVE some[i + 1] = f[i + 1]
    OBVIOUS
  <2>1. i + 1 \in 1 .. n /\ (i + 1) - 1 = i /\ some[i] = f[i]
    BY <1>0, <1>11
  <2> QED  BY <1>5, <1>9, <2>1
<1>12. n \in S
  <2> HIDE DEF S
  <2> QED  BY <1>0, <1>10, <1>11, Induction
<1>13. CrcSteps(bytes, f) /\ Ble!Crc(bytes) = f[Len(bytes)]
  BY <1>0, <1>1, <1>4, <1>5, <1>12 DEF CrcSteps, n
<1> QED  BY <1>13

\* ble_protocol.py, build_frame: what ends in its own CRC has none.
CrcEnd(crc) == <<Ble!ByteOf[crc \cap (8 .. 15)], Ble!ByteOf[{bit + 8 : bit \in crc \cap (0 .. 7)}]>>
Seals(end, body) == end \in Seq(Byte) /\ Len(end) = 2 /\ Ble!Crc(body \o end) = {}

\* A byte of the CRC clears the upper byte of it, the second one the rest.
LEMMA OwnCrc ==
    ASSUME NEW body \in Seq(Byte)
    PROVE  Seals(CrcEnd(Ble!Crc(body)), body)
<1> DEFINE crc == Ble!Crc(body)
<1>0. crc = Ble!Crc(body)
  OBVIOUS
<1> HIDE DEF crc
<1> DEFINE high == crc \cap (8 .. 15)
           low == {bit + 8 : bit \in crc \cap (0 .. 7)}
           a == Ble!ByteOf[high]
           b == Ble!ByteOf[low]
           n == Len(body)
           frame == body \o <<a, b>>
<1>1. high \in HighByte /\ low \in HighByte
  BY DEF HighByte
<1>2. a \in Byte /\ b \in Byte /\ Ble!HighBits[a] = high /\ Ble!HighBits[b] = low
  <2> HIDE DEF high, low
  <2> QED  BY <1>1, ByteOfIs
<1>3. n \in Nat /\ frame \in Seq(Byte) /\ Len(frame) = n + 2 /\ frame[n + 1] = a /\ frame[n + 2] = b
      /\ \A i \in 1 .. n : frame[i] = body[i]
  <2> HIDE DEF a, b
  <2> QED  BY <1>2
<1> HIDE DEF frame, a, b
<1>4. PICK f : CrcSteps(body, f) /\ crc = f[n]
  BY <1>0, CrcIs
<1>5. PICK g : CrcSteps(frame, g) /\ Ble!Crc(frame) = g[n + 2]
  BY <1>3, CrcIs
<1>6. f[n] = g[n]
  <2> HIDE DEF n
  <2>1. n <= Len(body) /\ n <= Len(frame)
    BY <1>3 DEF n
  <2> QED  BY <1>3, <1>4, <1>5, <2>1, CrcAlike
<1> HIDE DEF n
<1>7. g[n + 1] = Ble!CrcByte(crc, a) /\ g[n + 2] = Ble!CrcByte(g[n + 1], b)
  <2>1. n + 1 \in 1 .. Len(frame) /\ n + 2 \in 1 .. Len(frame) /\ (n + 1) - 1 = n /\ (n + 2) - 1 = n + 1
    BY <1>3
  <2> QED  BY <1>3, <1>4, <1>5, <1>6, <2>1 DEF CrcSteps
<1>8. Ble!CrcByte(crc, a) = low
  <2>1. Ble!Xor(high, high) = {}
    BY DEF Ble!Xor
  <2>2. Ble!CrcByte(crc, a) = Ble!Xor(Ble!Shifted[Ble!Xor(high, Ble!HighBits[a])], low)
    BY DEF Ble!CrcByte
  <2> HIDE DEF high, low
  <2>3. Ble!CrcByte(crc, a) = Ble!Xor({}, low)
    BY <1>2, <2>1, <2>2, ShiftedIs
  <2> QED  BY <2>3 DEF Ble!Xor
<1>9. Ble!CrcByte(low, b) = {}
  <2>1. low \cap (8 .. 15) = low /\ {bit + 8 : bit \in low \cap (0 .. 7)} = {}
    <3>1. low \cap (8 .. 15) = low
      OBVIOUS
    <3>2. low \cap (0 .. 7) = {}
      OBVIOUS
    <3> QED  BY <3>1, <3>2
  <2>2. Ble!CrcByte(low, b) = Ble!Xor(Ble!Shifted[Ble!Xor(low \cap (8 .. 15), Ble!HighBits[b])], {bit + 8 : bit \in low \cap (0 .. 7)})
    BY DEF Ble!CrcByte
  <2> HIDE DEF low
  <2>3. Ble!Xor(low, low) = {}
    BY DEF Ble!Xor
  <2>4. Ble!CrcByte(low, b) = Ble!Xor({}, {})
    BY <1>2, <2>1, <2>2, <2>3, ShiftedIs
  <2> QED  BY <2>4 DEF Ble!Xor
<1>10. Ble!Crc(frame) = {}
  <2> HIDE DEF low
  <2> QED  BY <1>5, <1>7, <1>8, <1>9
<1>11. <<a, b>> \in Seq(Byte) /\ Len(<<a, b>>) = 2
  BY <1>2
<1>12. CrcEnd(crc) = <<a, b>>
  BY DEF CrcEnd, a, b
<1> QED  BY <1>0, <1>10, <1>11, <1>12 DEF frame, Seals

-----------------------------------------------------------------------------
(* BLE: frames (ble_protocol.py:88-115) *)

\* A number below some power of 256, low byte first, and the number that the bytes are.
IsLittle(s, n, size) ==
    /\ s \in Seq(Byte) /\ Len(s) = size
    /\ \A i \in 1 .. size : s[i] = (n \div Ble!ByteAt[i]) % 256

\* A number is packed so.
LEMMA LittleIs ==
    ASSUME NEW n \in Nat, NEW size \in 1 .. 4
    PROVE  IsLittle(Ble!Little(n, size), n, size)
<1>1. \A i \in 1 .. size : (n \div Ble!ByteAt[i]) % 256 \in Byte
  <2>1. \A i \in 1 .. 4 : Ble!ByteAt[i] \in Nat /\ Ble!ByteAt[i] > 0
    BY DEF Ble!ByteAt
  <2>2. ASSUME NEW p \in Nat, p > 0 PROVE (n \div p) % 256 \in 0 .. 255
    <3>1. n \div p \in Int
      BY <2>2
    <3> DEFINE q == n \div p
    <3> HIDE DEF q
    <3>2. q \in Int
      BY <3>1 DEF q
    <3>3. q % 256 \in 0 .. 255
      BY <3>2
    <3> QED  BY <3>3 DEF q
  <2> QED  BY <2>1, <2>2 DEF Byte
<1>2. Ble!Little(n, size) = [i \in 1 .. size |-> (n \div Ble!ByteAt[i]) % 256]
  BY DEF Ble!Little
<1> DEFINE At(i) == (n \div Ble!ByteAt[i]) % 256
<1> HIDE DEF At
<1>3. Ble!Little(n, size) = [i \in 1 .. size |-> At(i)] /\ \A i \in 1 .. size : At(i) \in Byte
  BY <1>1, <1>2 DEF At
<1>4. Ble!Little(n, size) \in Seq(Byte) /\ Len(Ble!Little(n, size)) = size /\ \A i \in 1 .. size : Ble!Little(n, size)[i] = At(i)
  BY <1>3
<1> QED  BY <1>4 DEF IsLittle, At

Word(n) == n \in Nat /\ n <= 65535

TellsTwo(s, n) == s[1] + 256 * s[2] = n /\ s[1] \in Byte /\ s[2] \in Byte

\* Two bytes hold a number below 2^16.
LEMMA TwoBytes ==
    ASSUME NEW n, Word(n), NEW s, IsLittle(s, n, 2)
    PROVE  TellsTwo(s, n)
<1>1. s[1] = (n \div 1) % 256 /\ s[2] = (n \div 256) % 256
  BY SMT DEF IsLittle, Ble!ByteAt
<1>2. n \in Nat /\ n <= 65535 /\ n \div 256 \in Int /\ n \div 1 = n
  BY SMT DEF Word
<1>3. ASSUME NEW q \in Int, q = n \div 256 PROVE q \in 0 .. 255 /\ q % 256 = q /\ n = 256 * q + (n % 256) /\ n % 256 \in 0 .. 255
  BY SMT, <1>2, <1>3
<1> DEFINE q == n \div 256
           r == n % 256
<1>4. q \in 0 .. 255 /\ r \in 0 .. 255 /\ s[1] = r /\ s[2] = q /\ n = 256 * q + r
  BY <1>1, <1>2, <1>3
<1> HIDE DEF q, r
<1> QED  BY SMT, <1>4 DEF Byte, TellsTwo

\* A number below 2^32 by its digits to the base 256.
LEMMA FourDigits ==
    ASSUME NEW n \in Nat, n <= 4294967295, NEW a \in Int, a = n \div 256, NEW b \in Int, b = a \div 256,
           NEW c \in Int, c = b \div 256
    PROVE  /\ b = n \div 65536 /\ c = n \div 16777216 /\ c % 256 = c
           /\ n % 256 \in 0 .. 255 /\ a % 256 \in 0 .. 255 /\ b % 256 \in 0 .. 255 /\ c \in 0 .. 255
           /\ n = (n % 256) + 256 * (a % 256) + 65536 * (b % 256) + 16777216 * c
<1>1. b = n \div 65536
  BY SMT
<1>2. c = n \div 16777216
  BY SMT, <1>1
<1>3. c \in 0 .. 255
  BY SMT, <1>2
<1>4. c % 256 = c
  BY SMT, <1>3
<1>5. n = 256 * a + (n % 256) /\ a = 256 * b + (a % 256) /\ b = 256 * c + (b % 256)
  BY SMT
<1>6. n % 256 \in 0 .. 255 /\ a % 256 \in 0 .. 255 /\ b % 256 \in 0 .. 255
  BY SMT
<1> QED  BY SMT, <1>1, <1>2, <1>3, <1>4, <1>5, <1>6

TellsFour(s, n) ==
    /\ s[1] + 256 * s[2] + 65536 * (s[3] + 256 * s[4]) = n
    /\ s[1] \in Byte /\ s[2] \in Byte /\ s[3] \in Byte /\ s[4] \in Byte

\* Four bytes hold it.
LEMMA FourBytes ==
    ASSUME NEW n \in Nat, n <= 4294967295, NEW s, IsLittle(s, n, 4)
    PROVE  TellsFour(s, n)
<1>1. s[1] = (n \div 1) % 256 /\ s[2] = (n \div 256) % 256 /\ s[3] = (n \div 65536) % 256
      /\ s[4] = (n \div 16777216) % 256
  <2>1. Ble!ByteAt[1] = 1 /\ Ble!ByteAt[2] = 256 /\ Ble!ByteAt[3] = 65536 /\ Ble!ByteAt[4] = 16777216
    BY SMT DEF Ble!ByteAt
  <2>2. \A i \in 1 .. 4 : s[i] = (n \div Ble!ByteAt[i]) % 256
    BY DEF IsLittle
  <2> QED  BY SMT, <2>1, <2>2
<1> DEFINE a == n \div 256
           b == a \div 256
           c == b \div 256
           p == n % 256
           q == a % 256
           r == b % 256
<1>2. a \in Int
  BY SMT
<1>3. b \in Int
  <2> HIDE DEF a
  <2> QED  BY SMT, <1>2
<1>4. c \in Int
  <2> HIDE DEF b
  <2> QED  BY SMT, <1>3
<1>5. /\ b = n \div 65536 /\ c = n \div 16777216 /\ c % 256 = c
      /\ p \in 0 .. 255 /\ q \in 0 .. 255 /\ r \in 0 .. 255 /\ c \in 0 .. 255
      /\ n = p + 256 * q + 65536 * r + 16777216 * c
  <2> HIDE DEF a, b, c
  <2>1. a = n \div 256 /\ b = a \div 256 /\ c = b \div 256
    BY DEF a, b, c
  <2> QED  BY SMT, <1>2, <1>3, <1>4, <2>1, FourDigits DEF p, q, r
<1>6. n \div 1 = n
  BY SMT
<1>7. s[1] = p /\ s[2] = q /\ s[3] = r /\ s[4] = c
  <2> HIDE DEF b, c
  <2> QED  BY SMT, <1>1, <1>5, <1>6
<1> HIDE DEF a, b, c, p, q, r
<1> QED  BY SMT, <1>5, <1>7 DEF Byte, TellsFour

\* Two sequences of known lengths, one after the other.
Follow(z, x, y, n, m) ==
    /\ z \in Seq(Byte) /\ Len(z) = n + m
    /\ \A k \in 1 .. n : z[k] = x[k]
    /\ \A k \in 1 .. m : z[n + k] = y[k]

\* One after the other they are so.
LEMMA Following ==
    ASSUME NEW x \in Seq(Byte), NEW y \in Seq(Byte), NEW n, n = Len(x), NEW m, m = Len(y)
    PROVE  Follow(x \o y, x, y, n, m)
<1>1. InTurn(x, y, Byte)
  BY Both
<1> QED  BY <1>1 DEF InTurn, Follow

\* A frame but for its CRC.
Unsealed(type, payload) ==
    Ble!Little(Ble!HeaderSize + Len(payload) + 2, 2) \o <<Ble!FRAME_MAGIC, Ble!FRAME_RANDOM>>
      \o Ble!Little(type, 2) \o Ble!Little(1, 4) \o payload

IsBody(body, type, payload) ==
    /\ body \in Seq(Byte) /\ Len(body) = Len(payload) + 10
    /\ body[1] + 256 * body[2] = Len(payload) + 12
    /\ body[3] = Ble!FRAME_MAGIC
    /\ body[5] + 256 * body[6] = type
    /\ \A k \in 1 .. Len(payload) : body[10 + k] = payload[k]

\* Its length, its magic byte, its type and its payload are where they are looked for.
LEMMA UnsealedIs ==
    ASSUME NEW type, Word(type), NEW payload \in Seq(Byte), Word(Len(payload) + 12)
    PROVE  IsBody(Unsealed(type, payload), type, payload)
<1> DEFINE n == Len(payload)
           a == Ble!Little(n + 12, 2)
           b == <<Ble!FRAME_MAGIC, Ble!FRAME_RANDOM>>
           c == Ble!Little(type, 2)
           d == Ble!Little(1, 4)
<1>1. n \in Nat /\ Word(n + 12) /\ n + 12 \in Nat /\ payload \in Seq(Byte) /\ type \in Nat /\ Word(type)
  BY DEF Word
<1>2. Unsealed(type, payload) = a \o b \o c \o d \o payload
  <2>1. Ble!HeaderSize + Len(payload) + 2 = n + 12
    BY <1>1 DEF Ble!HeaderSize
  <2> QED  BY <2>1 DEF Unsealed
<1>3. IsLittle(a, n + 12, 2) /\ IsLittle(c, type, 2) /\ IsLittle(d, 1, 4)
  <2>1. n + 12 \in Nat /\ type \in Nat /\ 1 \in Nat /\ 2 \in 1 .. 4 /\ 4 \in 1 .. 4
    BY <1>1
  <2> HIDE DEF n
  <2>2. IsLittle(a, n + 12, 2)
    BY <2>1, LittleIs
  <2>3. IsLittle(c, type, 2)
    BY <2>1, LittleIs
  <2>4. IsLittle(d, 1, 4)
    BY <2>1, LittleIs
  <2> QED  BY <2>2, <2>3, <2>4
<1>4. b \in Seq(Byte) /\ Len(b) = 2 /\ b[1] = Ble!FRAME_MAGIC
  BY DEF Byte, Ble!FRAME_MAGIC, Ble!FRAME_RANDOM
<1>n. n = Len(payload)
  OBVIOUS
<1> HIDE DEF n, a, b, c, d
<1>5. a[1] + 256 * a[2] = n + 12 /\ c[1] + 256 * c[2] = type
  <2>1. TellsTwo(a, n + 12)
    BY <1>1, <1>3, TwoBytes
  <2>2. TellsTwo(c, type)
    BY <1>1, <1>3, TwoBytes
  <2> QED  BY <2>1, <2>2 DEF TellsTwo
<1>6. /\ a \in Seq(Byte) /\ Len(a) = 2 /\ c \in Seq(Byte) /\ Len(c) = 2 /\ d \in Seq(Byte) /\ Len(d) = 4
  BY <1>3 DEF IsLittle
<1> DEFINE h == a \o b \o c \o d
<1>7. h \in Seq(Byte) /\ Len(h) = 10 /\ h[1] = a[1] /\ h[2] = a[2] /\ h[3] = b[1] /\ h[5] = c[1] /\ h[6] = c[2]
  <2> DEFINE ab == a \o b
             abc == ab \o c
  <2>1. ab \in Seq(Byte) /\ Len(ab) = 4 /\ ab[1] = a[1] /\ ab[2] = a[2] /\ ab[3] = b[1]
    <3>1. InTurn(a, b, Byte)
      BY <1>4, <1>6, Both
    <3> QED  BY <1>4, <1>6, <3>1 DEF InTurn
  <2> HIDE DEF ab
  <2>2. /\ abc \in Seq(Byte) /\ Len(abc) = 6 /\ abc[1] = ab[1] /\ abc[2] = ab[2] /\ abc[3] = ab[3]
        /\ abc[5] = c[1] /\ abc[6] = c[2]
    <3>1. InTurn(ab, c, Byte)
      BY <1>6, <2>1, Both
    <3> QED  BY <1>6, <2>1, <3>1 DEF InTurn
  <2> HIDE DEF abc
  <2>3. /\ abc \o d \in Seq(Byte) /\ Len(abc \o d) = 10
        /\ \A i \in 1 .. 6 : (abc \o d)[i] = abc[i]
    <3>1. InTurn(abc, d, Byte)
      BY <1>6, <2>2, Both
    <3>2. Len(d) = 4 /\ Len(abc) = 6
      BY <1>6, <2>2
    <3>3. abc \o d \in Seq(Byte) /\ Len(abc \o d) = Len(abc) + Len(d)
          /\ \A i \in 1 .. Len(abc) : (abc \o d)[i] = abc[i]
      BY <3>1 DEF InTurn
    <3> HIDE DEF d
    <3> QED  BY <3>2, <3>3
  <2>4. h = abc \o d
    BY DEF ab, abc
  <2> HIDE DEF h
  <2>5. h \in Seq(Byte) /\ Len(h) = 10 /\ \A i \in 1 .. 6 : h[i] = abc[i]
    BY Zenon, <2>3, <2>4
  <2>6. h[1] = abc[1] /\ h[2] = abc[2] /\ h[3] = abc[3] /\ h[5] = abc[5] /\ h[6] = abc[6]
    BY <2>5
  <2> QED  BY Zenon, <2>1, <2>2, <2>5, <2>6
<1> HIDE DEF h
<1>8. Unsealed(type, payload) = h \o payload
  BY <1>2 DEF h
<1>9. /\ h \o payload \in Seq(Byte) /\ Len(h \o payload) = n + 10
      /\ \A i \in 1 .. 10 : (h \o payload)[i] = h[i]
      /\ \A k \in 1 .. n : (h \o payload)[10 + k] = payload[k]
  <2>1. Len(payload) = n /\ 10 \in Nat
    BY <1>n
  <2>2. Follow(h \o payload, h, payload, 10, n)
    BY Zenon, <1>1, <1>7, <2>1, Following
  <2> DEFINE z == h \o payload
  <2> HIDE DEF z
  <2>3. Follow(z, h, payload, 10, n)
    BY <2>2 DEF z
  <2>4. z \in Seq(Byte) /\ Len(z) = n + 10 /\ (\A i \in 1 .. 10 : z[i] = h[i]) /\ \A k \in 1 .. n : z[10 + k] = payload[k]
    BY <1>1, <2>3 DEF Follow
  <2> QED  BY Zenon, <2>4 DEF z
<1> DEFINE z == Unsealed(type, payload)
<1>10. /\ z \in Seq(Byte) /\ Len(z) = n + 10
       /\ \A i \in 1 .. 10 : z[i] = h[i]
       /\ \A k \in 1 .. n : z[10 + k] = payload[k]
  BY Zenon, <1>8, <1>9
<1> HIDE DEF z
<1>11. z[1] + 256 * z[2] = n + 12 /\ z[3] = Ble!FRAME_MAGIC /\ z[5] + 256 * z[6] = type
  BY <1>4, <1>5, <1>7, <1>10
<1> QED  BY <1>10, <1>11 DEF n, z, IsBody

Read(frame, type, payload) ==
    frame \in Seq(Byte) /\ frame # <<>> /\ Ble!ParseFrame(frame) = {[type |-> type, payload |-> payload]}

\* ble_protocol.py, build_frame and parse_frame: every frame that is built is taken for
\* what it was built of.
THEOREM FramesAreRead ==
    ASSUME NEW type, Word(type), NEW payload \in Seq(Byte), Word(Len(payload) + 12)
    PROVE  Read(Ble!BuildFrame(type, payload), type, payload)
<1> DEFINE body == Unsealed(type, payload)
           n == Len(payload)
           end == CrcEnd(Ble!Crc(body))
           frame == Ble!BuildFrame(type, payload)
<1>1. frame = body \o end
  BY DEF Ble!BuildFrame, Unsealed, CrcEnd
<1>2. IsBody(body, type, payload)
  BY UnsealedIs
<1>3. n \in Nat /\ payload \in Seq(Byte) /\ n = Len(payload)
  OBVIOUS
<1> HIDE DEF body, frame, n
<1>4. body \in Seq(Byte) /\ Len(body) = n + 10
  BY <1>2, <1>3 DEF IsBody
<1>5. Seals(end, body)
  BY <1>4, OwnCrc
<1> HIDE DEF end
<1>6. end \in Seq(Byte) /\ Len(end) = 2 /\ Ble!Crc(frame) = {}
  BY <1>1, <1>5 DEF Seals
<1>7. Follow(frame, body, end, n + 10, 2)
  BY Zenon, <1>1, <1>4, <1>6, Following
<1>8. frame \in Seq(Byte) /\ Len(frame) = n + 12 /\ \A i \in 1 .. n + 10 : frame[i] = body[i]
  BY <1>3, <1>7 DEF Follow
<1>9. frame[1] + 256 * frame[2] = n + 12 /\ frame[3] = Ble!FRAME_MAGIC /\ frame[5] + 256 * frame[6] = type
      /\ \A k \in 1 .. n : frame[10 + k] = payload[k]
  <2>1. 1 \in 1 .. n + 10 /\ 2 \in 1 .. n + 10 /\ 3 \in 1 .. n + 10 /\ 5 \in 1 .. n + 10 /\ 6 \in 1 .. n + 10
        /\ \A k \in 1 .. n : 10 + k \in 1 .. n + 10
    BY <1>3
  <2>2. /\ body[1] + 256 * body[2] = n + 12 /\ body[3] = Ble!FRAME_MAGIC /\ body[5] + 256 * body[6] = type
        /\ \A k \in 1 .. n : body[10 + k] = payload[k]
    BY <1>2, <1>3 DEF IsBody
  <2> QED  BY <1>8, <2>1, <2>2
<1>10. Ble!Unsigned16(frame, 0) = Len(frame) /\ Ble!Unsigned16(frame, 4) = type /\ ~(Len(frame) < Ble!HeaderSize + 2)
  <2>1. Ble!Unsigned16(frame, 0) = frame[1] + 256 * frame[2] /\ Ble!Unsigned16(frame, 4) = frame[5] + 256 * frame[6]
    BY DEF Ble!Unsigned16
  <2> QED  BY <1>3, <1>8, <1>9, <2>1 DEF Ble!HeaderSize
<1>11. SubSeq(frame, Ble!HeaderSize + 1, Len(frame) - 2) = payload
  <2> DEFINE m == n + 10
  <2>1. m \in Nat /\ m <= Len(frame) /\ Ble!HeaderSize + 1 = 11 /\ Len(frame) - 2 = m
    BY <1>3, <1>8 DEF Ble!HeaderSize
  <2>2. SubSeq(frame, 11, m) = [i \in 1 .. n |-> frame[10 + i]]
    <3>1. m - 11 + 1 = n
      BY <1>3
    <3> HIDE DEF m
    <3>2. SubSeq(frame, 11, m) = [i \in 1 .. m - 11 + 1 |-> frame[11 + i - 1]]
      BY <1>8, <2>1
    <3>3. \A i \in 1 .. n : frame[11 + i - 1] = frame[10 + i]
      BY <1>3
    <3> QED  BY <3>1, <3>2, <3>3
  <2>3. payload = [i \in 1 .. n |-> payload[i]]
    BY <1>3
  <2> QED  BY <1>9, <2>1, <2>2, <2>3
<1>12. Ble!ParseFrame(frame) = {[type |-> type, payload |-> payload]}
  <2> DEFINE taken == {[type |-> Ble!Unsigned16(frame, 4),
                        payload |-> SubSeq(frame, Ble!HeaderSize + 1, Len(frame) - 2)]}
  <2>1. Ble!ParseFrame(frame) =
          IF Len(frame) < Ble!HeaderSize + 2 \/ frame[3] # Ble!FRAME_MAGIC \/ Ble!Unsigned16(frame, 0) # Len(frame)
               \/ Ble!Crc(frame) # {}
            THEN {} ELSE taken
    BY Zenon DEF Ble!ParseFrame
  <2>2. taken = {[type |-> type, payload |-> payload]}
    BY Zenon, <1>10, <1>11
  <2> HIDE DEF taken
  <2>3. Ble!ParseFrame(frame) = taken
    BY <1>6, <1>9, <1>10, <2>1
  <2> QED  BY <2>2, <2>3
<1>13. frame # <<>>
  BY <1>3, <1>8
<1>14. frame \in Seq(Byte)
  BY <1>8
<1> QED  BY <1>12, <1>13, <1>14 DEF frame, Read

\* What the client keeps after each of some packets that come one after another.
Assembling(packets, kept) == \A i \in 1 .. Len(packets) : kept[i] = Ble!Assembled(kept[i - 1], packets[i]).buf

\* What is taken with each of them, and what is kept in the end.
TakenWhole(packets, kept, type, payload) ==
    /\ Len(packets) >= 1
    /\ \A i \in 1 .. Len(packets) :
         Ble!Assembled(kept[i - 1], packets[i]).frames =
           IF i = Len(packets) THEN {[type |-> type, payload |-> payload]} ELSE {}
    /\ kept[Len(packets)] = <<>>

\* Assembled keeps what the assembler does, and takes what parses of what it makes.
LEMMA AssembledIs ==
    ASSUME NEW buf, NEW packet
    PROVE  /\ Ble!Assembled(buf, packet).buf = Ble!Feed(buf, packet).buf
           /\ Ble!Assembled(buf, packet).frames = UNION {Ble!ParseFrame(frame) : frame \in Ble!Feed(buf, packet).frames}
  BY Zenon DEF Ble!Assembled

\* ble_breezer.py, _on_notify: whatever pieces of other frames are left, a message whose
\* packets all come, one after another, is taken with the last of them as it was built,
\* nothing is taken before, and nothing is left for the next one.
THEOREM MessagesAreTaken ==
    ASSUME NEW type, Word(type), NEW payload \in Seq(Byte), Word(Len(payload) + 12),
           NEW kept, kept[0] \in Seq(Nat),
           Assembling(Ble!SplitPackets(Ble!BuildFrame(type, payload)), kept)
    PROVE  TakenWhole(Ble!SplitPackets(Ble!BuildFrame(type, payload)), kept, type, payload)
<1> DEFINE frame == Ble!BuildFrame(type, payload)
           packets == Ble!SplitPackets(frame)
           n == Len(packets)
<1>1. Read(frame, type, payload)
  BY FramesAreRead
<1> HIDE DEF frame
<1>2. frame \in Seq(Nat) /\ frame # <<>>
  <2>1. frame \in Seq(Byte) /\ frame # <<>>
    BY <1>1 DEF Read
  <2> QED  BY <2>1, BytesAre
<1>3. Feeds(packets, kept)
  BY Zenon, AssembledIs DEF Assembling, Feeds, frame
<1>4. /\ n >= 1
      /\ \A i \in 1 .. n : Ble!Feed(kept[i - 1], packets[i]).frames = IF i = n THEN {frame} ELSE {}
      /\ kept[n] = <<>>
  BY Zenon, <1>2, <1>3, FramesAreAssembled
<1>5. \A i \in 1 .. n :
        Ble!Assembled(kept[i - 1], packets[i]).frames = IF i = n THEN {[type |-> type, payload |-> payload]} ELSE {}
  <2> TAKE i \in 1 .. n
  <2> DEFINE fed == Ble!Feed(kept[i - 1], packets[i]).frames
  <2>1. Ble!Assembled(kept[i - 1], packets[i]).frames = UNION {Ble!ParseFrame(f) : f \in fed}
    BY Zenon, AssembledIs
  <2>2. fed = IF i = n THEN {frame} ELSE {}
    BY Zenon, <1>4
  <2>3. Ble!ParseFrame(frame) = {[type |-> type, payload |-> payload]}
    BY Zenon, <1>1 DEF Read
  <2> HIDE DEF fed, n, packets
  <2>4. CASE i = n
    <3>1. fed = {frame}
      BY Zenon, <2>2, <2>4
    <3>2. UNION {Ble!ParseFrame(f) : f \in fed} = Ble!ParseFrame(frame)
      BY Zenon, <3>1
    <3> QED  BY Zenon, <2>1, <2>3, <2>4, <3>2
  <2>5. CASE i # n
    <3>1. fed = {}
      BY Zenon, <2>2, <2>5
    <3>2. UNION {Ble!ParseFrame(f) : f \in fed} = {}
      BY Zenon, <3>1
    <3> QED  BY Zenon, <2>1, <2>5, <3>2
  <2> QED  BY Zenon, <2>4, <2>5
<1> QED  BY Zenon, <1>4, <1>5 DEF TakenWhole, frame

\* The bits of the flags of a command.
LEMMA FlagsOfSet ==
    ASSUME NEW p \in BOOLEAN, NEW s \in BOOLEAN, NEW l \in BOOLEAN, NEW h \in BOOLEAN,
           NEW flags, flags = 16 + Ble!If(p, 1) + Ble!If(s, 2) + Ble!If(l, 4) + Ble!If(~h, 8)
    PROVE  /\ flags \in Byte
           /\ Ble!Bit(flags, 0) = p /\ Ble!Bit(flags, 1) = s /\ Ble!Bit(flags, 2) = l /\ Ble!Bit(flags, 3) = ~h
<1> DEFINE a == IF p THEN 1 ELSE 0
           b == IF s THEN 1 ELSE 0
           c == IF l THEN 1 ELSE 0
           d == IF h THEN 0 ELSE 1
<1>1. a \in 0 .. 1 /\ b \in 0 .. 1 /\ c \in 0 .. 1 /\ d \in 0 .. 1
  OBVIOUS
<1>2. (a = 1 <=> p) /\ (b = 1 <=> s) /\ (c = 1 <=> l) /\ (d = 1 <=> ~h)
  OBVIOUS
<1>3. flags = a + 2 * b + 4 * c + 8 * d + 16 * 1 + 32 * 0 + 64 * 0 + 128 * 0
  BY DEF Ble!If
<1> HIDE DEF a, b, c, d
<1>4. 1 \in 0 .. 1 /\ 0 \in 0 .. 1
  OBVIOUS
<1>5. /\ flags \in 0 .. 255
      /\ flags % 2 = a /\ (flags \div 2) % 2 = b /\ (flags \div 4) % 2 = c /\ (flags \div 8) % 2 = d
  BY <1>1, <1>3, <1>4, BitsOfSum
<1>6. flags \div 1 = flags
  BY <1>5
<1>7. /\ Ble!Bit(flags, 0) <=> (flags \div 1) % 2 = 1
      /\ Ble!Bit(flags, 1) <=> (flags \div 2) % 2 = 1
      /\ Ble!Bit(flags, 2) <=> (flags \div 4) % 2 = 1
      /\ Ble!Bit(flags, 3) <=> (flags \div 8) % 2 = 1
  BY DEF Ble!Bit, Ble!BitAt
<1>8. /\ Ble!Bit(flags, 0) <=> p
      /\ Ble!Bit(flags, 1) <=> s
      /\ Ble!Bit(flags, 2) <=> l
      /\ Ble!Bit(flags, 3) <=> ~h
  BY <1>2, <1>5, <1>6, <1>7
<1>9. Ble!Bit(flags, 0) \in BOOLEAN /\ Ble!Bit(flags, 1) \in BOOLEAN /\ Ble!Bit(flags, 2) \in BOOLEAN /\ Ble!Bit(flags, 3) \in BOOLEAN
  BY DEF Ble!Bit
<1> QED  BY <1>5, <1>8, <1>9 DEF Byte

\* What the breezer reads is what was given, the numbers brought into range.
Obeys(set, want) ==
    /\ set.power = want.power /\ set.sound = want.sound /\ set.led = want.led
    /\ set.heater_enabled = want.heater_enabled
    /\ set.gate = (IF want.gate = Ble!GATE_INDOOR THEN Ble!GATE_INDOOR ELSE Ble!GATE_OUTDOOR)
    /\ set.target_temperature \in 1 .. 25 /\ set.fan_speed \in 1 .. 6
    /\ want.target_temperature \in 1 .. 25 => set.target_temperature = want.target_temperature
    /\ want.fan_speed \in 1 .. 6 => set.fan_speed = want.fan_speed

\* ble_protocol.py, build_state_set: whatever is asked for, a command has every switch as
\* it was asked for, and its numbers in the breezer's range, those in range as they were.
THEOREM CommandsAreRead ==
    ASSUME NEW id \in Nat, NEW want, want.power \in BOOLEAN, want.sound \in BOOLEAN, want.led \in BOOLEAN,
           want.heater_enabled \in BOOLEAN, want.target_temperature \in Int, want.fan_speed \in Int
    PROVE  Obeys(Ble!UnpackSet(Ble!BuildStateSet(id, want)), want)
<1> DEFINE flags == 16 + Ble!If(want.power, 1) + Ble!If(want.sound, 2) + Ble!If(want.led, 4)
                      + Ble!If(~want.heater_enabled, 8)
           gate == IF want.gate = Ble!GATE_INDOOR THEN Ble!GATE_INDOOR ELSE Ble!GATE_OUTDOOR
           target == Ble!Clamp(1, want.target_temperature, 25)
           speed == Ble!Clamp(1, want.fan_speed, 6)
           first == Ble!Little(id, 4)
           rest == <<flags, 0, gate, target, speed, 0, 0>>
           payload == Ble!BuildStateSet(id, want)
<1>1. payload = first \o rest
  BY Zenon DEF Ble!BuildStateSet
<1>2. IsLittle(first, id, 4)
  <2>1. 4 \in 1 .. 4
    OBVIOUS
  <2> QED  BY Zenon, <2>1, LittleIs
<1>3. /\ flags \in Byte
      /\ Ble!Bit(flags, 0) = want.power /\ Ble!Bit(flags, 1) = want.sound /\ Ble!Bit(flags, 2) = want.led
      /\ Ble!Bit(flags, 3) = ~want.heater_enabled
  BY FlagsOfSet
<1>4. target \in 1 .. 25 /\ (want.target_temperature \in 1 .. 25 => target = want.target_temperature)
  BY DEF Ble!Clamp
<1>5. speed \in 1 .. 6 /\ (want.fan_speed \in 1 .. 6 => speed = want.fan_speed)
  BY DEF Ble!Clamp
<1>6. gate \in Byte
  BY DEF Byte, Ble!GATE_INDOOR, Ble!GATE_OUTDOOR
<1>g. gate = IF want.gate = Ble!GATE_INDOOR THEN Ble!GATE_INDOOR ELSE Ble!GATE_OUTDOOR
  OBVIOUS
<1> HIDE DEF flags, gate, target, speed, first
<1>7. rest \in Seq(Byte) /\ Len(rest) = 7 /\ rest[1] = flags /\ rest[3] = gate /\ rest[4] = target /\ rest[5] = speed
  BY <1>3, <1>4, <1>5, <1>6 DEF Byte
<1> HIDE DEF rest, payload
<1>8. first \in Seq(Byte) /\ Len(first) = 4
  BY <1>2 DEF IsLittle
<1>9. Follow(payload, first, rest, 4, 7)
  BY Zenon, <1>1, <1>7, <1>8, Following
<1>10. payload[5] = flags /\ payload[7] = gate /\ payload[8] = target /\ payload[9] = speed
  <2>1. \A k \in 1 .. 7 : payload[4 + k] = rest[k]
    BY <1>9 DEF Follow
  <2>2. payload[4 + 1] = rest[1] /\ payload[4 + 3] = rest[3] /\ payload[4 + 4] = rest[4] /\ payload[4 + 5] = rest[5]
    BY <2>1
  <2> QED  BY <1>7, <2>2
<1>11. Ble!Signed(payload, 7) = target
  <2>1. Ble!Signed(payload, 7) = IF payload[7 + 1] > 127 THEN payload[7 + 1] - 256 ELSE payload[7 + 1]
    BY Zenon DEF Ble!Signed
  <2> QED  BY <1>4, <1>10, <2>1
<1> DEFINE set == Ble!UnpackSet(payload)
<1>12. /\ set.power = Ble!Bit(payload[5], 0) /\ set.sound = Ble!Bit(payload[5], 1) /\ set.led = Ble!Bit(payload[5], 2)
       /\ set.heater_enabled = ~Ble!Bit(payload[5], 3) /\ set.gate = payload[7]
       /\ set.target_temperature = Ble!Signed(payload, 7) /\ set.fan_speed = payload[9]
  BY Zenon DEF Ble!UnpackSet
<1> HIDE DEF set
<1>13. /\ set.power = want.power /\ set.sound = want.sound /\ set.led = want.led
       /\ set.heater_enabled = want.heater_enabled
  BY <1>3, <1>10, <1>12
<1>14. /\ set.gate = gate /\ set.target_temperature = target /\ set.fan_speed = speed
  BY <1>10, <1>11, <1>12
<1> QED  BY <1>4, <1>5, <1>g, <1>13, <1>14 DEF Obeys, set, payload

-----------------------------------------------------------------------------
(* BLE: states (ble_protocol.py:184-212) *)

\* A part of a sequence, from some place on.
Placed(z, x, at, n) == \A k \in 1 .. n : z[at + k] = x[k]

Long(n) == n \in Nat /\ n <= 4294967295

\* Four bytes at a place are read as the number they were packed of.
LEMMA LongAt ==
    ASSUME NEW z, NEW n, Long(n), NEW at \in Nat, NEW x, IsLittle(x, n, 4), Placed(z, x, at, 4)
    PROVE  Ble!Unsigned32(z, at) = n
<1>1. TellsFour(x, n)
  BY SMT, FourBytes DEF Long
<1>2. z[at + 1] = x[1] /\ z[at + 2] = x[2] /\ z[at + 3] = x[3] /\ z[at + 4] = x[4]
  BY DEF Placed
<1>3. (at + 2) + 1 = at + 3 /\ (at + 2) + 2 = at + 4
  OBVIOUS
<1>4. Ble!Unsigned32(z, at) = z[at + 1] + 256 * z[at + 2] + 65536 * (z[at + 3] + 256 * z[at + 4])
  BY SMT, <1>3 DEF Ble!Unsigned32, Ble!Unsigned16
<1> QED  BY SMT, <1>1, <1>2, <1>4 DEF TellsFour

\* So are two.
LEMMA WordAt ==
    ASSUME NEW z, NEW n, Word(n), NEW at \in Nat, NEW x, IsLittle(x, n, 2), Placed(z, x, at, 2)
    PROVE  Ble!Unsigned16(z, at) = n
<1>1. TellsTwo(x, n)
  BY TwoBytes
<1>2. z[at + 1] = x[1] /\ z[at + 2] = x[2]
  BY DEF Placed
<1> QED  BY SMT, <1>1, <1>2 DEF TellsTwo, Ble!Unsigned16

Small(t) == t \in -128 .. 127
IsSigned(z, t, at) == z[at + 1] = t % 256

\* And a byte with a sign.
LEMMA SignedAt ==
    ASSUME NEW z, NEW t, Small(t), NEW at \in Nat, IsSigned(z, t, at)
    PROVE  Ble!Signed(z, at) = t
<1>1. Ble!Signed(z, at) = IF z[at + 1] > 127 THEN z[at + 1] - 256 ELSE z[at + 1]
  BY Zenon DEF Ble!Signed
<1> QED  BY <1>1 DEF Small, IsSigned

\* A number with a sign fits a byte.
LEMMA SmallByte ==
    ASSUME NEW t, Small(t)
    PROVE  t % 256 \in Byte
  BY DEF Small, Byte

\* The flags of a state.
Watts(w) == w \in {0, 1000, 1400}
IsPresent(present, watts) == present \in 0 .. 2 /\ Ble!HeaterPower[present + 1] = watts

\* The index of the heater's power tells it.
LEMMA PresentIs ==
    ASSUME NEW watts, Watts(watts)
    PROVE  IsPresent(CHOOSE i \in 0 .. 2 : Ble!HeaterPower[i + 1] = watts, watts)
<1>1. \E i \in 0 .. 2 : Ble!HeaterPower[i + 1] = watts
  <2>1. Ble!HeaterPower[1] = 0 /\ Ble!HeaterPower[2] = 1000 /\ Ble!HeaterPower[3] = 1400
    BY SMT DEF Ble!HeaterPower
  <2>2. Ble!HeaterPower[0 + 1] = 0 /\ Ble!HeaterPower[1 + 1] = 1000 /\ Ble!HeaterPower[2 + 1] = 1400
    BY SMT, <2>1
  <2> QED  BY SMT, <2>2 DEF Watts
<1> QED  BY Zenon, <1>1 DEF IsPresent

IsSum(n, a, b, c, d, e, g, p, m, o) ==
    n = a + 2 * b + 4 * c + 8 * d + 16 * e + 64 * g + 128 * p + 1024 * m + 2048 * o

SumTells(n, a, b, c, d, e, g, p, m, o) ==
    /\ n \in Nat /\ n <= 4095
    /\ n % 2 = a /\ (n \div 2) % 2 = b /\ (n \div 4) % 2 = c /\ (n \div 8) % 2 = d
    /\ (n \div 16) % 2 = e /\ (n \div 64) % 2 = g /\ (n \div 128) % 8 = p
    /\ (n \div 1024) % 2 = m /\ (n \div 2048) % 2 = o

\* Nine flags and an index in twelve bits are all found again.
LEMMA SumOfFlags ==
    ASSUME NEW a \in 0 .. 1, NEW b \in 0 .. 1, NEW c \in 0 .. 1, NEW d \in 0 .. 1, NEW e \in 0 .. 1,
           NEW g \in 0 .. 1, NEW p \in 0 .. 2, NEW m \in 0 .. 1, NEW o \in 0 .. 1,
           NEW n, IsSum(n, a, b, c, d, e, g, p, m, o)
    PROVE  SumTells(n, a, b, c, d, e, g, p, m, o)
<1>0. n = a + 2 * b + 4 * c + 8 * d + 16 * e + 64 * g + 128 * p + 1024 * m + 2048 * o
  BY SMT DEF IsSum
<1>1. n \in Nat /\ n <= 4095
  BY SMT, <1>0
<1>2. n % 2 = a
  BY SMT, <1>0
<1>3. (n \div 2) % 2 = b
  BY SMT, <1>0
<1>4. (n \div 4) % 2 = c
  BY SMT, <1>0
<1>5. (n \div 8) % 2 = d
  BY SMT, <1>0
<1>6. (n \div 16) % 2 = e
  BY SMT, <1>0
<1>7. (n \div 64) % 2 = g
  BY SMT, <1>0
<1>8. (n \div 128) % 8 = p
  BY SMT, <1>0
<1>9. (n \div 1024) % 2 = m
  BY SMT, <1>0
<1>10. (n \div 2048) % 2 = o
  BY SMT, <1>0
<1> QED  BY SMT, <1>1, <1>2, <1>3, <1>4, <1>5, <1>6, <1>7, <1>8, <1>9, <1>10 DEF SumTells

FlagsOf(s, present) ==
    Ble!If(s.power, 1) + Ble!If(s.sound, 2) + Ble!If(s.led, 4) + Ble!If(s.heater_active, 8)
      + Ble!If(~s.heater_enabled, 16) + Ble!If(s.filter_warning, 64) + 128 * present
      + Ble!If(s.ma_connected, 1024) + Ble!If(s.ma_auto, 2048)

TellFlags(flags, s, present) ==
    /\ Word(flags) /\ (flags \div 128) % 8 = present
    /\ Ble!Bit(flags, 0) = s.power /\ Ble!Bit(flags, 1) = s.sound /\ Ble!Bit(flags, 2) = s.led
    /\ Ble!Bit(flags, 3) = s.heater_active /\ (~Ble!Bit(flags, 4)) = s.heater_enabled
    /\ Ble!Bit(flags, 6) = s.filter_warning /\ Ble!Bit(flags, 10) = s.ma_connected
    /\ Ble!Bit(flags, 11) = s.ma_auto

HasFlags(s) ==
    /\ s.power \in BOOLEAN /\ s.sound \in BOOLEAN /\ s.led \in BOOLEAN /\ s.heater_active \in BOOLEAN
    /\ s.heater_enabled \in BOOLEAN /\ s.filter_warning \in BOOLEAN /\ s.ma_connected \in BOOLEAN
    /\ s.ma_auto \in BOOLEAN

\* The flags of a state are.
LEMMA FlagsTell ==
    ASSUME NEW s, HasFlags(s), NEW present \in 0 .. 2
    PROVE  TellFlags(FlagsOf(s, present), s, present)
<1> DEFINE One(f) == IF f THEN 1 ELSE 0
           a == One(s.power)
           b == One(s.sound)
           c == One(s.led)
           d == One(s.heater_active)
           e == One(~s.heater_enabled)
           g == One(s.filter_warning)
           m == One(s.ma_connected)
           o == One(s.ma_auto)
           n == FlagsOf(s, present)
<1>1. /\ a \in 0 .. 1 /\ b \in 0 .. 1 /\ c \in 0 .. 1 /\ d \in 0 .. 1 /\ e \in 0 .. 1
      /\ g \in 0 .. 1 /\ m \in 0 .. 1 /\ o \in 0 .. 1
  BY SMT
<1>2. /\ (a = 1) = s.power /\ (b = 1) = s.sound /\ (c = 1) = s.led /\ (d = 1) = s.heater_active
      /\ (e # 1) = s.heater_enabled /\ (g = 1) = s.filter_warning /\ (m = 1) = s.ma_connected
      /\ (o = 1) = s.ma_auto
  BY SMT DEF HasFlags
<1>3. IsSum(n, a, b, c, d, e, g, present, m, o)
  BY SMT DEF FlagsOf, Ble!If, IsSum
<1> HIDE DEF a, b, c, d, e, g, m, o, n
<1>4. /\ n \in Nat /\ n <= 4095
      /\ n % 2 = a /\ (n \div 2) % 2 = b /\ (n \div 4) % 2 = c /\ (n \div 8) % 2 = d
      /\ (n \div 16) % 2 = e /\ (n \div 64) % 2 = g /\ (n \div 128) % 8 = present
      /\ (n \div 1024) % 2 = m /\ (n \div 2048) % 2 = o
  <2>1. SumTells(n, a, b, c, d, e, g, present, m, o)
    BY Zenon, <1>1, <1>3, SumOfFlags
  <2> QED  BY SMT, <2>1 DEF SumTells
<1>5. n \div 1 = n
  BY SMT, <1>4
<1>6. /\ Ble!Bit(n, 0) = ((n \div 1) % 2 = 1) /\ Ble!Bit(n, 1) = ((n \div 2) % 2 = 1)
      /\ Ble!Bit(n, 2) = ((n \div 4) % 2 = 1) /\ Ble!Bit(n, 3) = ((n \div 8) % 2 = 1)
      /\ Ble!Bit(n, 4) = ((n \div 16) % 2 = 1) /\ Ble!Bit(n, 6) = ((n \div 64) % 2 = 1)
      /\ Ble!Bit(n, 10) = ((n \div 1024) % 2 = 1) /\ Ble!Bit(n, 11) = ((n \div 2048) % 2 = 1)
  BY SMT DEF Ble!Bit, Ble!BitAt
<1>7. /\ Ble!Bit(n, 0) = (a = 1) /\ Ble!Bit(n, 1) = (b = 1) /\ Ble!Bit(n, 2) = (c = 1) /\ Ble!Bit(n, 3) = (d = 1)
      /\ Ble!Bit(n, 4) = (e = 1) /\ Ble!Bit(n, 6) = (g = 1) /\ Ble!Bit(n, 10) = (m = 1) /\ Ble!Bit(n, 11) = (o = 1)
  BY SMT, <1>4, <1>5, <1>6
<1>8. Word(n)
  BY SMT, <1>4 DEF Word
<1>9. (~Ble!Bit(n, 4)) = s.heater_enabled
  BY Zenon, <1>2, <1>7
<1>10. (n \div 128) % 8 = present
  BY SMT, <1>4
<1> QED  BY Zenon, <1>2, <1>7, <1>8, <1>9, <1>10 DEF TellFlags, n

\* A state whose fields are in the ranges of their places.
IsState(s) ==
    /\ HasFlags(s)
    /\ Long(s.request_id) /\ Long(s.work_time) /\ Long(s.fan_time) /\ Long(s.filter_time)
    /\ Long(s.airflow_counter) /\ Long(s.errors)
    /\ Watts(s.heater_power_w)
    /\ Small(s.target_temperature) /\ Small(s.outdoor_temperature) /\ Small(s.current_temperature)
    /\ s.gate \in Byte /\ s.fan_speed \in Byte /\ s.max_fan_speed \in Byte /\ s.heater_var \in Byte

\* The fields of a state.
States ==
    {s \in [request_id : Nat, power : BOOLEAN, sound : BOOLEAN, led : BOOLEAN, heater_active : BOOLEAN,
            heater_enabled : BOOLEAN, filter_warning : BOOLEAN, heater_power_w : Nat, ma_connected : BOOLEAN,
            ma_auto : BOOLEAN, gate : Byte, target_temperature : Int, fan_speed : Byte,
            outdoor_temperature : Int, current_temperature : Int, work_time : Nat, fan_time : Nat,
            filter_time : Nat, airflow_counter : Nat, errors : Nat, max_fan_speed : Byte, heater_var : Byte] :
       IsState(s)}

PresentOf(s) == CHOOSE i \in 0 .. 2 : Ble!HeaterPower[i + 1] = s.heater_power_w
Middle(s) == <<s.gate, s.target_temperature % 256, s.fan_speed, s.outdoor_temperature % 256,
               s.current_temperature % 256, 30, 31>>
Ending(s) == <<s.max_fan_speed, s.heater_var>>

\* Where the parts of a packed state are.
Laid(z, s) ==
    /\ z \in Seq(Byte) /\ Len(z) = 35
    /\ Placed(z, Ble!Little(s.request_id, 4), 0, 4)
    /\ Placed(z, Ble!Little(FlagsOf(s, PresentOf(s)), 2), 4, 2)
    /\ Placed(z, Middle(s), 6, 7)
    /\ Placed(z, Ble!Little(s.work_time, 4), 13, 4)
    /\ Placed(z, Ble!Little(s.fan_time, 4), 17, 4)
    /\ Placed(z, Ble!Little(s.filter_time, 4), 21, 4)
    /\ Placed(z, Ble!Little(s.airflow_counter, 4), 25, 4)
    /\ Placed(z, Ble!Little(s.errors, 4), 29, 4)
    /\ Placed(z, Ending(s), 33, 2)

\* A part that comes after n others and is m long.
IsPart(x, m) == x \in Seq(Byte) /\ Len(x) = m

\* A packed number has its length.
LEMMA LittlePart ==
    ASSUME NEW n \in Nat, NEW size \in 1 .. 4
    PROVE  IsPart(Ble!Little(n, size), size)
<1>1. IsLittle(Ble!Little(n, size), n, size)
  BY Zenon, LittleIs
<1> QED  BY <1>1 DEF IsLittle, IsPart

\* A part put behind others.
LEMMA Joined ==
    ASSUME NEW z, NEW y, NEW n \in Nat, NEW m \in Nat, IsPart(z, n), IsPart(y, m)
    PROVE  Follow(z \o y, z, y, n, m) /\ IsPart(z \o y, n + m)
<1>1. Follow(z \o y, z, y, n, m)
  BY Zenon, Following DEF IsPart
<1> QED  BY Zenon, <1>1 DEF Follow, IsPart

\* The parts of a state are packed one behind the other, none over another.
LEMMA StateLaid ==
    ASSUME NEW s, IsState(s)
    PROVE  Laid(Ble!PackState(s), s)
<1> DEFINE present == PresentOf(s)
           a == Ble!Little(s.request_id, 4)
           b == Ble!Little(FlagsOf(s, present), 2)
           c == Middle(s)
           d == Ble!Little(s.work_time, 4)
           e == Ble!Little(s.fan_time, 4)
           f == Ble!Little(s.filter_time, 4)
           g == Ble!Little(s.airflow_counter, 4)
           h == Ble!Little(s.errors, 4)
           i == Ending(s)
<1>1. Ble!PackState(s) = a \o b \o c \o d \o e \o f \o g \o h \o i
  BY Zenon DEF Ble!PackState, FlagsOf, PresentOf, Middle, Ending
<1>2. present \in 0 .. 2
  <2>1. IsPresent(present, s.heater_power_w)
    BY Zenon, PresentIs DEF IsState, PresentOf
  <2> QED  BY Zenon, <2>1 DEF IsPresent
<1> HIDE DEF present
<1>3. FlagsOf(s, present) \in Nat
  <2>1. TellFlags(FlagsOf(s, present), s, present)
    BY Zenon, <1>2, FlagsTell DEF IsState
  <2> QED  BY SMT, <2>1 DEF TellFlags, Word
<1>4. /\ s.request_id \in Nat /\ s.work_time \in Nat /\ s.fan_time \in Nat /\ s.filter_time \in Nat
      /\ s.airflow_counter \in Nat /\ s.errors \in Nat
  BY SMT DEF IsState, Long
<1>5. 4 \in 1 .. 4 /\ 2 \in 1 .. 4
  BY SMT
<1>6. /\ IsPart(a, 4) /\ IsPart(b, 2) /\ IsPart(d, 4) /\ IsPart(e, 4) /\ IsPart(f, 4) /\ IsPart(g, 4) /\ IsPart(h, 4)
  BY Zenon, <1>3, <1>4, <1>5, LittlePart
<1>7. IsPart(c, 7)
  <2>1. /\ s.target_temperature % 256 \in Byte /\ s.outdoor_temperature % 256 \in Byte
        /\ s.current_temperature % 256 \in Byte
    <3>1. Small(s.target_temperature) /\ Small(s.outdoor_temperature) /\ Small(s.current_temperature)
      BY SMT DEF IsState
    <3> QED  BY Zenon, <3>1, SmallByte
  <2>2. s.gate \in Byte /\ s.fan_speed \in Byte /\ 30 \in Byte /\ 31 \in Byte
    BY SMT DEF IsState, Byte
  <2> QED  BY SMT, <2>1, <2>2 DEF Middle, IsPart
<1>8. IsPart(i, 2)
  BY SMT DEF IsState, Ending, IsPart
<1> HIDE DEF a, b, c, d, e, f, g, h, i
<1> DEFINE ab == a \o b
           ac == ab \o c
           ad == ac \o d
           ae == ad \o e
           af == ae \o f
           ag == af \o g
           ah == ag \o h
           ai == ah \o i
<1>n. /\ 4 + 2 = 6 /\ 6 + 7 = 13 /\ 13 + 4 = 17 /\ 17 + 4 = 21 /\ 21 + 4 = 25 /\ 25 + 4 = 29 /\ 29 + 4 = 33
      /\ 33 + 2 = 35
  BY SMT
<1>m. /\ 0 \in Nat /\ 2 \in Nat /\ 4 \in Nat /\ 6 \in Nat /\ 7 \in Nat /\ 13 \in Nat /\ 17 \in Nat /\ 21 \in Nat /\ 25 \in Nat
      /\ 29 \in Nat /\ 33 \in Nat /\ 35 \in Nat
  BY SMT
<1>9. Follow(ab, a, b, 4, 2) /\ IsPart(ab, 6)
  BY Zenon, <1>6, <1>n, <1>m, Joined
<1> HIDE DEF ab
<1>10. Follow(ac, ab, c, 6, 7) /\ IsPart(ac, 13)
  BY Zenon, <1>7, <1>9, <1>n, <1>m, Joined
<1> HIDE DEF ac
<1>11. Follow(ad, ac, d, 13, 4) /\ IsPart(ad, 17)
  BY Zenon, <1>6, <1>10, <1>n, <1>m, Joined
<1> HIDE DEF ad
<1>12. Follow(ae, ad, e, 17, 4) /\ IsPart(ae, 21)
  BY Zenon, <1>6, <1>11, <1>n, <1>m, Joined
<1> HIDE DEF ae
<1>13. Follow(af, ae, f, 21, 4) /\ IsPart(af, 25)
  BY Zenon, <1>6, <1>12, <1>n, <1>m, Joined
<1> HIDE DEF af
<1>14. Follow(ag, af, g, 25, 4) /\ IsPart(ag, 29)
  BY Zenon, <1>6, <1>13, <1>n, <1>m, Joined
<1> HIDE DEF ag
<1>15. Follow(ah, ag, h, 29, 4) /\ IsPart(ah, 33)
  BY Zenon, <1>6, <1>14, <1>n, <1>m, Joined
<1> HIDE DEF ah
<1>16. Follow(ai, ah, i, 33, 2) /\ IsPart(ai, 35)
  BY Zenon, <1>8, <1>15, <1>n, <1>m, Joined
<1>17. Ble!PackState(s) = ai
  BY Zenon, <1>1 DEF ab, ac, ad, ae, af, ag, ah
<1> HIDE DEF ai
\* A prefix keeps its places.
<1>18. \A k \in 1 .. 33 : ai[k] = ah[k]
  BY Zenon, <1>16 DEF Follow
<1>19. \A k \in 1 .. 29 : ah[k] = ag[k]
  BY Zenon, <1>15 DEF Follow
<1>20. \A k \in 1 .. 25 : ag[k] = af[k]
  BY Zenon, <1>14 DEF Follow
<1>21. \A k \in 1 .. 21 : af[k] = ae[k]
  BY Zenon, <1>13 DEF Follow
<1>22. \A k \in 1 .. 17 : ae[k] = ad[k]
  BY Zenon, <1>12 DEF Follow
<1>23. \A k \in 1 .. 13 : ad[k] = ac[k]
  BY Zenon, <1>11 DEF Follow
<1>24. \A k \in 1 .. 6 : ac[k] = ab[k]
  BY Zenon, <1>10 DEF Follow
<1>25. \A k \in 1 .. 29 : ai[k] = ag[k]
  BY SMT, <1>18, <1>19
<1>26. \A k \in 1 .. 25 : ai[k] = af[k]
  BY SMT, <1>25, <1>20
<1>27. \A k \in 1 .. 21 : ai[k] = ae[k]
  BY SMT, <1>26, <1>21
<1>28. \A k \in 1 .. 17 : ai[k] = ad[k]
  BY SMT, <1>27, <1>22
<1>29. \A k \in 1 .. 13 : ai[k] = ac[k]
  BY SMT, <1>28, <1>23
<1>30. \A k \in 1 .. 6 : ai[k] = ab[k]
  BY SMT, <1>29, <1>24
<1>31. Placed(ai, a, 0, 4)
  <2>1. \A k \in 1 .. 4 : ab[k] = a[k]
    BY Zenon, <1>9 DEF Follow
  <2> QED  BY SMT, <1>30, <2>1 DEF Placed
<1>32. Placed(ai, b, 4, 2)
  <2>1. \A k \in 1 .. 2 : ab[4 + k] = b[k]
    BY Zenon, <1>9 DEF Follow
  <2> QED  BY SMT, <1>30, <2>1 DEF Placed
<1>33. Placed(ai, c, 6, 7)
  <2>1. \A k \in 1 .. 7 : ac[6 + k] = c[k]
    BY Zenon, <1>10 DEF Follow
  <2> QED  BY SMT, <1>29, <2>1 DEF Placed
<1>34. Placed(ai, d, 13, 4)
  <2>1. \A k \in 1 .. 4 : ad[13 + k] = d[k]
    BY Zenon, <1>11 DEF Follow
  <2> QED  BY SMT, <1>28, <2>1 DEF Placed
<1>35. Placed(ai, e, 17, 4)
  <2>1. \A k \in 1 .. 4 : ae[17 + k] = e[k]
    BY Zenon, <1>12 DEF Follow
  <2> QED  BY SMT, <1>27, <2>1 DEF Placed
<1>36. Placed(ai, f, 21, 4)
  <2>1. \A k \in 1 .. 4 : af[21 + k] = f[k]
    BY Zenon, <1>13 DEF Follow
  <2> QED  BY SMT, <1>26, <2>1 DEF Placed
<1>37. Placed(ai, g, 25, 4)
  <2>1. \A k \in 1 .. 4 : ag[25 + k] = g[k]
    BY Zenon, <1>14 DEF Follow
  <2> QED  BY SMT, <1>25, <2>1 DEF Placed
<1>38. Placed(ai, h, 29, 4)
  <2>1. \A k \in 1 .. 4 : ah[29 + k] = h[k]
    BY Zenon, <1>15 DEF Follow
  <2> QED  BY SMT, <1>18, <2>1 DEF Placed
<1>39. Placed(ai, i, 33, 2)
  BY Zenon, <1>16 DEF Follow, Placed
<1>40. ai \in Seq(Byte) /\ Len(ai) = 35
  BY Zenon, <1>16 DEF IsPart
<1> QED  BY Zenon, <1>17, <1>31, <1>32, <1>33, <1>34, <1>35, <1>36, <1>37, <1>38, <1>39, <1>40
         DEF Laid, a, b, c, d, e, f, g, h, i, present

\* ble_protocol.py, parse_state: whatever the breezer's state is, as long as its fields
\* fit their places, it is read field by field as it was packed.
THEOREM StatesAreRead ==
    ASSUME NEW s \in States
    PROVE  Ble!ParseState(Ble!PackState(s)) = {s}
<1> DEFINE z == Ble!PackState(s)
           flags == FlagsOf(s, PresentOf(s))
<1>0. IsState(s)
  BY Zenon DEF States
<1>1. Laid(z, s)
  BY Zenon, <1>0, StateLaid
<1> HIDE DEF z
<1>p. IsPresent(PresentOf(s), s.heater_power_w)
  BY Zenon, <1>0, PresentIs DEF IsState, PresentOf
<1>2. TellFlags(flags, s, PresentOf(s))
  <2>1. PresentOf(s) \in 0 .. 2 /\ HasFlags(s)
    BY SMT, <1>0, <1>p DEF IsPresent, IsState
  <2> QED  BY Zenon, <2>1, FlagsTell
<1> HIDE DEF flags
<1>3. /\ Long(s.request_id) /\ Long(s.work_time) /\ Long(s.fan_time) /\ Long(s.filter_time)
      /\ Long(s.airflow_counter) /\ Long(s.errors) /\ Word(flags)
      /\ Small(s.target_temperature) /\ Small(s.outdoor_temperature) /\ Small(s.current_temperature)
  BY SMT, <1>0, <1>2 DEF IsState, TellFlags
<1>4. /\ s.request_id \in Nat /\ s.work_time \in Nat /\ s.fan_time \in Nat /\ s.filter_time \in Nat
      /\ s.airflow_counter \in Nat /\ s.errors \in Nat /\ flags \in Nat
  BY SMT, <1>3 DEF Long, Word
<1>5. /\ 4 \in 1 .. 4 /\ 2 \in 1 .. 4
      /\ 0 \in Nat /\ 4 \in Nat /\ 7 \in Nat /\ 9 \in Nat /\ 10 \in Nat /\ 13 \in Nat /\ 17 \in Nat /\ 21 \in Nat /\ 25 \in Nat /\ 29 \in Nat
  BY SMT
<1>6. Ble!Unsigned32(z, 0) = s.request_id
  BY Zenon, <1>1, <1>3, <1>4, <1>5, LittleIs, LongAt DEF Laid
<1>7. Ble!Unsigned16(z, 4) = flags
  BY Zenon, <1>1, <1>3, <1>4, <1>5, LittleIs, WordAt DEF Laid, flags
<1>8. /\ Ble!Unsigned32(z, 13) = s.work_time
      /\ Ble!Unsigned32(z, 17) = s.fan_time
      /\ Ble!Unsigned32(z, 21) = s.filter_time
      /\ Ble!Unsigned32(z, 25) = s.airflow_counter
      /\ Ble!Unsigned32(z, 29) = s.errors
  BY ZenonT(30), <1>1, <1>3, <1>4, <1>5, LittleIs, LongAt DEF Laid
<1>9. /\ z[7] = s.gate /\ z[8] = s.target_temperature % 256 /\ z[9] = s.fan_speed
      /\ z[10] = s.outdoor_temperature % 256 /\ z[11] = s.current_temperature % 256
  <2>1. Placed(z, Middle(s), 6, 7)
    BY Zenon, <1>1 DEF Laid
  <2>2. /\ z[6 + 1] = Middle(s)[1] /\ z[6 + 2] = Middle(s)[2] /\ z[6 + 3] = Middle(s)[3]
        /\ z[6 + 4] = Middle(s)[4] /\ z[6 + 5] = Middle(s)[5]
    BY SMT, <2>1 DEF Placed
  <2> QED  BY SMT, <2>2 DEF Middle
<1>10. z[34] = s.max_fan_speed /\ z[35] = s.heater_var
  <2>1. Placed(z, Ending(s), 33, 2)
    BY Zenon, <1>1 DEF Laid
  <2>2. z[33 + 1] = Ending(s)[1] /\ z[33 + 2] = Ending(s)[2]
    BY SMT, <2>1 DEF Placed
  <2> QED  BY SMT, <2>2 DEF Ending
<1>11. /\ Ble!Signed(z, 7) = s.target_temperature
       /\ Ble!Signed(z, 9) = s.outdoor_temperature
       /\ Ble!Signed(z, 10) = s.current_temperature
  <2>1. /\ IsSigned(z, s.target_temperature, 7) /\ IsSigned(z, s.outdoor_temperature, 9)
        /\ IsSigned(z, s.current_temperature, 10)
    BY SMT, <1>9 DEF IsSigned
  <2>2. Ble!Signed(z, 7) = s.target_temperature
    BY Zenon, <1>3, <1>5, <2>1, SignedAt
  <2>3. Ble!Signed(z, 9) = s.outdoor_temperature
    BY Zenon, <1>3, <1>5, <2>1, SignedAt
  <2>4. Ble!Signed(z, 10) = s.current_temperature
    BY Zenon, <1>3, <1>5, <2>1, SignedAt
  <2> QED  BY <2>2, <2>3, <2>4
<1> DEFINE present == (flags \div 128) % 8
<1>12. (IF present \in 0 .. 2 THEN Ble!HeaterPower[present + 1] ELSE 0) = s.heater_power_w
  BY SMT, <1>2, <1>p DEF TellFlags, IsPresent
<1>13. /\ Ble!Bit(flags, 0) = s.power /\ Ble!Bit(flags, 1) = s.sound /\ Ble!Bit(flags, 2) = s.led
       /\ Ble!Bit(flags, 3) = s.heater_active /\ (~Ble!Bit(flags, 4)) = s.heater_enabled
       /\ Ble!Bit(flags, 6) = s.filter_warning /\ Ble!Bit(flags, 10) = s.ma_connected
       /\ Ble!Bit(flags, 11) = s.ma_auto
  BY Zenon, <1>2 DEF TellFlags
<1> DEFINE read == [request_id |-> Ble!Unsigned32(z, 0),
              power |-> Ble!Bit(Ble!Unsigned16(z, 4), 0), sound |-> Ble!Bit(Ble!Unsigned16(z, 4), 1),
              led |-> Ble!Bit(Ble!Unsigned16(z, 4), 2),
              heater_active |-> Ble!Bit(Ble!Unsigned16(z, 4), 3), heater_enabled |-> ~Ble!Bit(Ble!Unsigned16(z, 4), 4),
              filter_warning |-> Ble!Bit(Ble!Unsigned16(z, 4), 6),
              heater_power_w |-> IF (Ble!Unsigned16(z, 4) \div 128) % 8 \in 0 .. 2
                                   THEN Ble!HeaterPower[((Ble!Unsigned16(z, 4) \div 128) % 8) + 1] ELSE 0,
              ma_connected |-> Ble!Bit(Ble!Unsigned16(z, 4), 10), ma_auto |-> Ble!Bit(Ble!Unsigned16(z, 4), 11),
              gate |-> z[7], target_temperature |-> Ble!Signed(z, 7), fan_speed |-> z[9],
              outdoor_temperature |-> Ble!Signed(z, 9), current_temperature |-> Ble!Signed(z, 10),
              work_time |-> Ble!Unsigned32(z, 13), fan_time |-> Ble!Unsigned32(z, 17),
              filter_time |-> Ble!Unsigned32(z, 21), airflow_counter |-> Ble!Unsigned32(z, 25),
              errors |-> Ble!Unsigned32(z, 29), max_fan_speed |-> z[34],
              heater_var |-> z[35]]
<1>14. Ble!ParseState(z) = {read}
  <2>1. Ble!ParseState(z) = IF Len(z) # Ble!StateSize THEN {} ELSE {read}
    BY Zenon DEF Ble!ParseState
  <2>2. Len(z) = Ble!StateSize
    BY Zenon, <1>1 DEF Laid, Ble!StateSize
  <2> HIDE DEF read
  <2> QED  BY Zenon, <2>1, <2>2
<1>15. read =
         [request_id |-> s.request_id, power |-> s.power, sound |-> s.sound, led |-> s.led,
          heater_active |-> s.heater_active, heater_enabled |-> s.heater_enabled,
          filter_warning |-> s.filter_warning, heater_power_w |-> s.heater_power_w,
          ma_connected |-> s.ma_connected, ma_auto |-> s.ma_auto, gate |-> s.gate,
          target_temperature |-> s.target_temperature, fan_speed |-> s.fan_speed,
          outdoor_temperature |-> s.outdoor_temperature, current_temperature |-> s.current_temperature,
          work_time |-> s.work_time, fan_time |-> s.fan_time, filter_time |-> s.filter_time,
          airflow_counter |-> s.airflow_counter, errors |-> s.errors, max_fan_speed |-> s.max_fan_speed,
          heater_var |-> s.heater_var]
  BY Zenon, <1>6, <1>7, <1>8, <1>9, <1>10, <1>11, <1>12, <1>13
<1>16. s =
         [request_id |-> s.request_id, power |-> s.power, sound |-> s.sound, led |-> s.led,
          heater_active |-> s.heater_active, heater_enabled |-> s.heater_enabled,
          filter_warning |-> s.filter_warning, heater_power_w |-> s.heater_power_w,
          ma_connected |-> s.ma_connected, ma_auto |-> s.ma_auto, gate |-> s.gate,
          target_temperature |-> s.target_temperature, fan_speed |-> s.fan_speed,
          outdoor_temperature |-> s.outdoor_temperature, current_temperature |-> s.current_temperature,
          work_time |-> s.work_time, fan_time |-> s.fan_time, filter_time |-> s.filter_time,
          airflow_counter |-> s.airflow_counter, errors |-> s.errors, max_fan_speed |-> s.max_fan_speed,
          heater_var |-> s.heater_var]
  BY DEF States
<1> HIDE DEF read
<1>17. read = s
  BY Zenon, <1>15, <1>16
<1> QED  BY Zenon, <1>14, <1>17 DEF z

-----------------------------------------------------------------------------
(* Protobuf: the fields of one number *)

\* Of some sequences, put together in one, one part comes to its beginning and the
\* other to its end.
LEMMA Together ==
    ASSUME NEW T, NEW s \in Seq(Seq(T)), NEW t \in Seq(Seq(T))
    PROVE  /\ Nats!FlattenSeq(s \o t) = Nats!FlattenSeq(s) \o Nats!FlattenSeq(t)
           /\ Nats!FlattenSeq(s) \in Seq(T) /\ Nats!FlattenSeq(t) \in Seq(T)
<1> DEFINE u == s \o t
           n == Len(s)
           m == Len(t)
<1>1. InTurn(s, t, Seq(T)) /\ u \in Seq(Seq(T))
  BY Both
<1>2. n \in Nat /\ m \in Nat /\ Len(u) = n + m /\ (\A i \in 1 .. n : u[i] = s[i]) /\ \A i \in 1 .. m : u[n + i] = t[i]
  BY <1>1 DEF InTurn
<1>3. \A x : Nats!FlattenSeq(x) = Grpc!FlattenSeq(x)
  BY DEF Nats!FlattenSeq, Grpc!FlattenSeq
<1> HIDE DEF u
<1>4. PICK C \in [0 .. Len(s) -> Seq(T)] : Joins(C, s) /\ Nats!FlattenSeq(s) = C[Len(s)]
  BY <1>3, Flattened
<1>5. PICK D \in [0 .. Len(t) -> Seq(T)] : Joins(D, t) /\ Nats!FlattenSeq(t) = D[Len(t)]
  BY <1>3, Flattened
<1>6. PICK E \in [0 .. Len(u) -> Seq(T)] : Joins(E, u) /\ Nats!FlattenSeq(u) = E[Len(u)]
  BY <1>1, <1>3, Flattened
<1>7. /\ C[0] = <<>> /\ D[0] = <<>> /\ E[0] = <<>>
      /\ \A i \in 1 .. n : C[i] = C[i - 1] \o s[i]
      /\ \A i \in 1 .. m : D[i] = D[i - 1] \o t[i]
      /\ \A i \in 1 .. n + m : E[i] = E[i - 1] \o u[i]
  BY <1>2, <1>4, <1>5, <1>6 DEF Joins
<1>7a. (\A i \in 0 .. n : C[i] \in Seq(T)) /\ (\A i \in 0 .. m : D[i] \in Seq(T)) /\ \A i \in 1 .. m : t[i] \in Seq(T)
  <2>1. \A i \in 0 .. n : C[i] \in Seq(T)
    BY <1>4
  <2>2. \A i \in 0 .. m : D[i] \in Seq(T)
    BY <1>5
  <2>3. \A i \in 1 .. m : t[i] \in Seq(T)
    OBVIOUS
  <2> QED  BY <2>1, <2>2, <2>3
<1> HIDE DEF n, m
<1>8. \A i \in Nat : i <= n => E[i] = C[i]
  <2> DEFINE S == {i \in Nat : i <= n => E[i] = C[i]}
  <2>1. 0 \in S
    BY <1>7
  <2>2. ASSUME NEW i \in Nat, i \in S PROVE i + 1 \in S
    <3> SUFFICES ASSUME i + 1 <= n PROVE E[i + 1] = C[i + 1]
      OBVIOUS
    <3>1. i + 1 \in 1 .. n /\ i + 1 \in 1 .. n + m /\ (i + 1) - 1 = i /\ i <= n
      BY <1>2
    <3>2. E[i] = C[i] /\ u[i + 1] = s[i + 1]
      BY <1>2, <2>2, <3>1
    <3> QED  BY <1>7, <3>1, <3>2
  <2> HIDE DEF S
  <2>3. \A i \in Nat : i \in S
    BY <2>1, <2>2, Induction
  <2> QED  BY <2>3 DEF S
<1>9. \A j \in Nat : j <= m => E[n + j] = C[n] \o D[j]
  <2> DEFINE Q(j) == E[n + j] = C[n] \o D[j]
             S == {j \in Nat : j <= m => Q(j)}
  <2>0. n \in 0 .. n
    BY <1>2
  <2>1. 0 \in S
    <3>1. C[n] \in Seq(T) /\ E[n] = C[n]
      BY <1>2, <1>7a, <1>8, <2>0
    <3>2. C[n] \o <<>> = C[n]
      BY <3>1
    <3>3. n + 0 = n /\ D[0] = <<>>
      BY <1>2, <1>7
    <3>4. Q(0)
      BY <3>1, <3>2, <3>3
    <3> HIDE DEF Q
    <3> QED  BY <3>4
  <2>2. ASSUME NEW j \in Nat, j \in S PROVE j + 1 \in S
    <3> SUFFICES ASSUME j + 1 <= m PROVE E[n + (j + 1)] = C[n] \o D[j + 1]
      <4>1. ASSUME j + 1 <= m => Q(j + 1) PROVE j + 1 \in S
        <5> HIDE DEF Q
        <5> QED  BY <4>1
      <4> QED  BY <4>1
    <3>0. Q(j)
      <4>1. j <= m
        BY <1>2
      <4> HIDE DEF Q
      <4> QED  BY <2>2, <4>1
    <3>1. j + 1 \in 1 .. m /\ n + (j + 1) \in 1 .. n + m /\ (j + 1) - 1 = j /\ (n + (j + 1)) - 1 = n + j
          /\ j \in 0 .. m /\ j <= m
      BY <1>2
    <3>2. E[n + j] = C[n] \o D[j] /\ u[n + (j + 1)] = t[j + 1] /\ D[j + 1] = D[j] \o t[j + 1]
      BY <1>2, <1>7, <3>0, <3>1
    <3>3. E[n + (j + 1)] = E[n + j] \o u[n + (j + 1)]
      BY <1>7, <3>1
    <3> DEFINE x == C[n]
               y == D[j]
               z == t[j + 1]
    <3>4. x \in Seq(T) /\ y \in Seq(T) /\ z \in Seq(T)
      BY <1>7a, <2>0, <3>1
    <3> HIDE DEF x, y, z
    <3>5. Associate(x, y, z)
      BY <3>4, Associative
    <3> QED  BY <3>2, <3>3, <3>5 DEF Associate, x, y, z
  <2> HIDE DEF S
  <2>3. \A i \in Nat : i \in S
    BY <2>1, <2>2, Induction
  <2> HIDE DEF Q
  <2>4. \A i \in Nat : i <= m => Q(i)
    BY <2>3 DEF S
  <2> QED  BY <2>4 DEF Q
<1>10. E[n + m] = C[n] \o D[m]
  <2>1. m \in Nat /\ m <= m
    BY <1>2
  <2> QED  BY <1>9, <2>1
<1>11. n \in 0 .. n /\ m \in 0 .. m
  BY <1>2
<1> QED  BY <1>2, <1>4, <1>5, <1>6, <1>7a, <1>10, <1>11 DEF u, n, m

\* One sequence, put together with none.
LEMMA Alone ==
    ASSUME NEW T, NEW x \in Seq(T)
    PROVE  Nats!FlattenSeq(<<x>>) = x /\ Nats!FlattenSeq(<<>>) = <<>>
<1>1. \A y : Nats!FlattenSeq(y) = Grpc!FlattenSeq(y)
  BY DEF Nats!FlattenSeq, Grpc!FlattenSeq
<1>2. <<x>> \in Seq(Seq(T)) /\ Len(<<x>>) = 1 /\ <<x>>[1] = x
  OBVIOUS
<1> DEFINE s == <<x>>
<1>2a. s \in Seq(Seq(T)) /\ Len(s) = 1 /\ s[1] = x
  BY <1>2
<1> HIDE DEF s
<1>3. PICK C \in [0 .. Len(s) -> Seq(T)] : Joins(C, s) /\ Nats!FlattenSeq(s) = C[Len(s)]
  BY <1>1, <1>2a, Flattened
<1>4. C[0] = <<>> /\ C[1] = C[0] \o x
  <2>1. 1 \in 1 .. Len(s) /\ 1 - 1 = 0
    BY <1>2a
  <2> QED  BY <1>2a, <1>3, <2>1 DEF Joins
<1>5. <<>> \o x = x
  OBVIOUS
<1>6. Nats!FlattenSeq(<<>>) = <<>>
  BY DEF Nats!FlattenSeq
<1> QED  BY <1>2a, <1>3, <1>4, <1>5, <1>6 DEF s

\* Some elements of a sequence that are one after another.
Some(x, lo, hi) == [k \in 1 .. hi - lo |-> x[lo + k]]
Chosen(x, lo, hi) == [i \in 1 .. Len(x) |-> IF i \in lo + 1 .. hi THEN <<x[i]>> ELSE <<>>]

\* Of a sequence, those at some places, each on its own or none.
LEMMA ChosenAre ==
    ASSUME NEW T, NEW x \in Seq(T), NEW lo \in Nat, NEW hi \in Nat, lo <= hi, hi <= Len(x)
    PROVE  Nats!FlattenSeq(Chosen(x, lo, hi)) = Some(x, lo, hi)
<1> DEFINE s == Chosen(x, lo, hi)
           n == Len(x)
           Y(i) == [k \in 1 .. i |-> x[lo + k]]
           At(i) == IF i < lo THEN 0 ELSE IF i > hi THEN hi - lo ELSE i - lo
<1>0. n \in Nat /\ lo <= hi /\ hi <= n
  OBVIOUS
<1>1. s \in Seq(Seq(T)) /\ Len(s) = n /\ \A i \in 1 .. n : s[i] = IF i \in lo + 1 .. hi THEN <<x[i]>> ELSE <<>>
  BY DEF Chosen
<1>2. \A y : Nats!FlattenSeq(y) = Grpc!FlattenSeq(y)
  BY DEF Nats!FlattenSeq, Grpc!FlattenSeq
<1> HIDE DEF s
<1>3. PICK C \in [0 .. Len(s) -> Seq(T)] : Joins(C, s) /\ Nats!FlattenSeq(s) = C[Len(s)]
  BY <1>1, <1>2, Flattened
<1>4. C[0] = <<>> /\ \A i \in 1 .. n : C[i] = C[i - 1] \o s[i]
  BY <1>1, <1>3 DEF Joins
<1>5. \A i \in 0 .. hi - lo : Y(i) \in Seq(T) /\ Len(Y(i)) = i
  <2> TAKE i \in 0 .. hi - lo
  <2>1. \A k \in 1 .. i : x[lo + k] \in T
    <3> TAKE k \in 1 .. i
    <3>1. lo + k \in 1 .. n
      BY <1>0
    <3> QED  BY <3>1
  <2> QED  BY <2>1
<1>6. ASSUME NEW i \in 0 .. hi - lo, i + 1 \in 0 .. hi - lo PROVE Y(i) \o <<x[lo + (i + 1)]>> = Y(i + 1)
  <2> DEFINE v == x[lo + (i + 1)]
             y == Y(i)
             z == Y(i + 1)
             w == y \o <<v>>
  <2>0. v \in T
    <3>1. lo + (i + 1) \in 1 .. n
      BY <1>0, <1>6
    <3> QED  BY <3>1
  <2>1. /\ y \in Seq(T) /\ Len(y) = i /\ \A k \in 1 .. i : y[k] = x[lo + k]
        /\ z \in Seq(T) /\ Len(z) = i + 1 /\ \A k \in 1 .. i + 1 : z[k] = x[lo + k]
    BY <1>5, <1>6
  <2> HIDE DEF y, z
  <2>2. w \in Seq(T) /\ Len(w) = i + 1 /\ (\A k \in 1 .. i : w[k] = y[k]) /\ w[i + 1] = v
    <3> DEFINE one == <<v>>
    <3>1. one \in Seq(T) /\ Len(one) = 1 /\ one[1] = v
      BY <2>0
    <3> HIDE DEF one, v
    <3>2. InTurn(y, one, T)
      BY <2>1, <3>1, Both
    <3>3. 1 \in 1 .. 1
      OBVIOUS
    <3> QED  BY <2>1, <3>1, <3>2, <3>3 DEF InTurn, one
  <2>3. \A k \in 1 .. i + 1 : w[k] = z[k]
    <3> HIDE DEF w
    <3> TAKE k \in 1 .. i + 1
    <3>1. CASE k = i + 1
      BY <2>1, <2>2, <3>1
    <3>2. CASE k # i + 1
      <4>1. k \in 1 .. i
        BY <3>2
      <4> QED  BY <2>1, <2>2, <4>1
    <3> QED  BY <3>1, <3>2
  <2> HIDE DEF w
  <2>4. w = z
    <3>1. w = [k \in 1 .. i + 1 |-> w[k]]
      BY <2>2
    <3>2. z = [k \in 1 .. i + 1 |-> z[k]]
      BY <2>1
    <3> QED  BY <2>3, <3>1, <3>2
  <2> QED  BY <2>4 DEF w, y, z, v
<1> HIDE DEF Y, n
<1>7. \A i \in Nat : i <= n => C[i] = Y(At(i))
  <2> DEFINE S == {i \in Nat : i <= n => C[i] = Y(At(i))}
  <2>1. 0 \in S
    <3>1. At(0) = 0
      BY <1>0
    <3>2. Y(0) = <<>>
      BY DEF Y
    <3> HIDE DEF At
    <3> QED  BY <1>4, <3>1, <3>2
  <2>2. ASSUME NEW i \in Nat, i \in S PROVE i + 1 \in S
    <3> SUFFICES ASSUME i + 1 <= n PROVE C[i + 1] = Y(At(i + 1))
      OBVIOUS
    <3>1. i + 1 \in 1 .. n /\ (i + 1) - 1 = i
      BY <1>0
    <3>2. C[i + 1] = Y(At(i)) \o s[i + 1]
      <4> HIDE DEF At
      <4>1. C[i] = Y(At(i))
        BY <1>0, <2>2
      <4> QED  BY <1>4, <3>1, <4>1
    <3>3. CASE i + 1 \in lo + 1 .. hi
      <4>1. At(i) \in 0 .. hi - lo /\ At(i) + 1 \in 0 .. hi - lo /\ At(i + 1) = At(i) + 1 /\ lo + (At(i) + 1) = i + 1
        BY <1>0, <3>3
      <4>2. s[i + 1] = <<x[i + 1]>>
        BY <1>1, <3>1, <3>3
      <4> HIDE DEF At
      <4> QED  BY <1>6, <3>2, <4>1, <4>2
    <3>4. CASE i + 1 \notin lo + 1 .. hi
      <4>1. At(i) \in 0 .. hi - lo /\ At(i + 1) = At(i)
        BY <1>0, <3>4
      <4>2. s[i + 1] = <<>>
        BY <1>1, <3>1, <3>4
      <4> HIDE DEF At
      <4>3. Y(At(i)) \in Seq(T)
        BY <1>5, <4>1
      <4>4. Y(At(i)) \o <<>> = Y(At(i))
        BY <4>3
      <4> QED  BY <3>2, <4>1, <4>2, <4>4
    <3> QED  BY <3>3, <3>4
  <2> HIDE DEF S
  <2>3. \A i \in Nat : i \in S
    BY <2>1, <2>2, Induction
  <2> QED  BY <2>3 DEF S
<1>8. At(n) = hi - lo
  BY <1>0
<1>9. C[n] = Y(hi - lo)
  <2> HIDE DEF At
  <2> QED  BY <1>0, <1>7, <1>8
<1> QED  BY <1>1, <1>3, <1>9 DEF Y, Some, s

\* The fields of a message that have a number, if they are one after another.
Between(message, field, lo, hi) ==
    /\ lo \in Nat /\ hi \in Nat /\ lo <= hi /\ hi <= Len(message)
    /\ \A i \in 1 .. Len(message) : message[i].field = field <=> i \in lo + 1 .. hi

\* all: the fields of a number, if they lie together.
LEMMA AllAre ==
    ASSUME NEW message \in Seq(FieldRead), NEW field, NEW lo, NEW hi, Between(message, field, lo, hi)
    PROVE  Nats!All(message, field) = Some(message, lo, hi)
<1>1. /\ lo \in Nat /\ hi \in Nat /\ lo <= hi /\ hi <= Len(message)
      /\ \A i \in 1 .. Len(message) : message[i].field = field <=> i \in lo + 1 .. hi
  BY DEF Between
<1>2. [i \in DOMAIN message |-> IF message[i].field = field THEN <<message[i]>> ELSE <<>>] = Chosen(message, lo, hi)
  <2>1. DOMAIN message = 1 .. Len(message)
    OBVIOUS
  <2>2. \A i \in 1 .. Len(message) : (IF message[i].field = field THEN <<message[i]>> ELSE <<>>)
                                     = IF i \in lo + 1 .. hi THEN <<message[i]>> ELSE <<>>
    BY <1>1
  <2> QED  BY <2>1, <2>2 DEF Chosen
<1> QED  BY <1>1, <1>2, ChosenAre DEF Nats!All

\* A message has one field of some number, or none.
Once(message, field, f) == Nats!All(message, field) = <<f>>
Never(message, field) == Nats!All(message, field) = <<>>

\* If there is one of them.
LEMMA OnceIs ==
    ASSUME NEW message \in Seq(FieldRead), NEW k \in 1 .. Len(message), NEW field,
           \A i \in 1 .. Len(message) : message[i].field = field <=> i = k
    PROVE  Once(message, field, message[k])
<1>1. k - 1 \in Nat /\ k \in Nat /\ k - 1 <= k /\ k <= Len(message) /\ Len(message) \in Nat
  OBVIOUS
<1>2. \A i \in 1 .. Len(message) : i = k <=> i \in (k - 1) + 1 .. k
  BY <1>1
<1>3. Between(message, field, k - 1, k)
  BY <1>1, <1>2 DEF Between
<1>4. Nats!All(message, field) = Some(message, k - 1, k)
  BY <1>3, AllAre
<1>5. k - (k - 1) = 1 /\ (k - 1) + 1 = k
  BY <1>1
<1>6. Some(message, k - 1, k) = [j \in 1 .. 1 |-> message[(k - 1) + j]]
  BY <1>5 DEF Some
<1>7. [j \in 1 .. 1 |-> message[(k - 1) + j]] = <<message[k]>>
  <2> DEFINE m == message[k]
  <2>1. \A j \in 1 .. 1 : message[(k - 1) + j] = m
    BY <1>5
  <2>2. [j \in 1 .. 1 |-> message[(k - 1) + j]] = [j \in 1 .. 1 |-> m]
    BY <2>1
  <2> HIDE DEF m
  <2>3. [j \in 1 .. 1 |-> m] = <<m>>
    OBVIOUS
  <2> QED  BY <2>2, <2>3 DEF m
<1> QED  BY <1>4, <1>6, <1>7 DEF Once

\* If there is none.
LEMMA NeverIs ==
    ASSUME NEW message \in Seq(FieldRead), NEW field, \A i \in 1 .. Len(message) : message[i].field # field
    PROVE  Never(message, field)
<1>1. \A i \in 1 .. Len(message) : ~(i \in 0 + 1 .. 0)
  OBVIOUS
<1>2. Between(message, field, 0, 0)
  BY <1>1 DEF Between
<1>3. Nats!All(message, field) = Some(message, 0, 0)
  BY <1>2, AllAre
<1>4. Some(message, 0, 0) = <<>>
  BY DEF Some
<1> QED  BY <1>3, <1>4 DEF Never

\* What a number, bytes and a nested message of such a field are read as.
LEMMA GetsInt ==
    ASSUME NEW message, NEW field, NEW f, Once(message, field, f), f.numeric
    PROVE  Nats!GetInt(message, field) = {f.num} /\ Nats!Has(message, field)
  BY DEF Once, Nats!GetInt, Nats!Has

\* Its bytes.
LEMMA GetsBytes ==
    ASSUME NEW message, NEW field, NEW f, Once(message, field, f), ~f.numeric
    PROVE  Nats!GetBytes(message, field) = {f.bytes}
  BY DEF Once, Nats!GetBytes, Nats!Has

\* What none is read as.
LEMMA GetsNone ==
    ASSUME NEW message, NEW field, Never(message, field)
    PROVE  Nats!GetInt(message, field) = {0} /\ Nats!GetBytes(message, field) = {<<>>} /\ ~Nats!Has(message, field)
  BY DEF Never, Nats!GetInt, Nats!GetBytes, Nats!Has

-----------------------------------------------------------------------------
(* The value of a datapoint *)

\* What is written in one number: an unsigned one, a signed one and a switch.
Signed == 0 - (Nats!Word \div 2) .. (Nats!Word \div 2) - 1
Fits(kind, value) ==
    CASE kind = Nats!BOOL -> value \in {0, 1}
      [] kind = Nats!INT -> value \in Signed
      [] OTHER -> value \in Number
Kinds == {Nats!BOOL, Nats!INT, Nats!ENUM, Nats!FLAGS}
IsDp(dp) ==
    /\ dp = [id |-> dp.id, kind |-> dp.kind, value |-> dp.value]
    /\ dp.id \in Number /\ dp.kind \in Kinds /\ Fits(dp.kind, dp.value)

\* The fields of a message, each with a number.
NumberField(field, num) == [field |-> field, numeric |-> TRUE, num |-> num]
Raised(dp) == IF dp.kind = Nats!INT THEN dp.value % Nats!Word ELSE dp.value
DpFields(dp) == << NumberField(dp.kind, Raised(dp)), NumberField(Nats!DP_ID, dp.id), NumberField(Nats!VALID, 1) >>

\* Two's complement, there and back.
Lowered(num) == IF num >= Nats!Word \div 2 THEN num - Nats!Word ELSE num

\* A number that is not negative stays what it is,
LEMMA LowerHalf ==
    ASSUME NEW v \in Int, v >= 0, v <= 16383
    PROVE  v % 32768 = v
  OBVIOUS

\* and one that is negative comes to lie in the upper half.
LEMMA UpperHalf ==
    ASSUME NEW v \in Int, v < 0, v + 16384 >= 0
    PROVE  v % 32768 = v + 32768
<1> DEFINE S == 0 - 16384 .. 0 - 1
           Up(x) == x % 32768 = x + 32768
<1>1. \A x \in S : Up(x)
  OBVIOUS
<1>2. v \in S
  BY SMTT(30)
<1>3. Up(v)
  <2> HIDE DEF S, Up
  <2> QED  BY <1>1, <1>2
<1> QED  BY <1>3

\* get_sint64 makes of it what it was.
LEMMA SignedIs ==
    ASSUME NEW value \in Signed
    PROVE  value % Nats!Word \in Number /\ Lowered(value % Nats!Word) = value
<1>1. value \in Int /\ value + 16384 >= 0 /\ value <= 16383
  BY WordIs DEF Signed
<1>2. \A num : Lowered(num) = IF num >= 16384 THEN num - 32768 ELSE num
  BY WordIs DEF Lowered
<1> DEFINE r == value % Nats!Word
           n == value + 32768
<1>3. CASE value >= 0
  <2>1. value % 32768 = value
    BY <1>1, <1>3, LowerHalf
  <2>2. r = value
    BY <2>1, WordIs
  <2> HIDE DEF r
  <2>3. value < Nats!Word /\ ~(value >= 16384)
    BY <1>1, WordIs
  <2>4. value \in Number
    BY <1>1, <1>3, <2>3, NumberIs
  <2>5. Lowered(value) = value
    BY <1>2, <2>3
  <2>6. r \in Number /\ Lowered(r) = value
    BY <2>2, <2>4, <2>5
  <2> QED  BY <2>6 DEF r
<1>4. CASE value < 0
  <2>1. value % 32768 = n
    BY <1>1, <1>4, UpperHalf
  <2>2. r = n
    BY <2>1, WordIs
  <2> HIDE DEF r
  <2>3. n \in Int /\ n >= 16384 /\ n < 32768 /\ n - 32768 = value
    BY <1>1, <1>4
  <2> HIDE DEF n
  <2>4. n >= 0 /\ n < Nats!Word
    BY <2>3, WordIs
  <2>5. n \in Number
    BY <2>3, <2>4, NumberIs
  <2>6. Lowered(n) = value
    BY <1>2, <2>3
  <2>7. r \in Number /\ Lowered(r) = value
    BY <2>2, <2>5, <2>6
  <2> QED  BY <2>7 DEF r
<1> QED  BY <1>1, <1>3, <1>4

\* What is written of a value fits a varint.
LEMMA RaisedIs ==
    ASSUME NEW dp, IsDp(dp)
    PROVE  Raised(dp) \in Number
<1>1. dp.kind \in Kinds /\ Fits(dp.kind, dp.value)
  BY DEF IsDp
<1>2. CASE dp.kind = Nats!INT
  <2>1. dp.value \in Signed
    BY <1>1, <1>2 DEF Fits, Nats!INT, Nats!BOOL
  <2> QED  BY <1>2, <2>1, SignedIs DEF Raised
<1>3. CASE dp.kind # Nats!INT
  <2>1. dp.value \in Number
    <3>1. 0 \in Number /\ 1 \in Number
      BY WordIs DEF Number
    <3> QED  BY <1>1, <1>3, <3>1 DEF Fits
  <2> QED  BY <1>3, <2>1 DEF Raised
<1> QED  BY <1>2, <1>3

-----------------------------------------------------------------------------
(* Datapoints: values (datapoints.py:70-123) *)

\* What a sequence holds at its places.
LEMMA Members ==
    ASSUME NEW U, NEW s \in Seq(U)
    PROVE  \A i \in 1 .. Len(s) : s[i] \in U
  OBVIOUS

\* Three sequences, put together.
LEMMA ThreeJoined ==
    ASSUME NEW T, NEW s \in Seq(Seq(T)), Len(s) = 3
    PROVE  Nats!FlattenSeq(s) = (s[1] \o s[2]) \o s[3]
<1>1. Nats!FlattenSeq(s) = Grpc!FlattenSeq(s)
  BY DEF Nats!FlattenSeq, Grpc!FlattenSeq
<1>2. PICK C \in [0 .. Len(s) -> Seq(T)] : Joins(C, s) /\ Nats!FlattenSeq(s) = C[Len(s)]
  BY <1>1, Flattened
<1>3. C[0] = <<>> /\ C[1] = C[0] \o s[1] /\ C[2] = C[1] \o s[2] /\ C[3] = C[2] \o s[3]
  <2>1. 1 \in 1 .. Len(s) /\ 1 - 1 = 0 /\ 2 \in 1 .. Len(s) /\ 2 - 1 = 1 /\ 3 \in 1 .. Len(s) /\ 3 - 1 = 2
    OBVIOUS
  <2>2. \A i \in 1 .. Len(s) : C[i] = C[i - 1] \o s[i]
    BY <1>2 DEF Joins
  <2>3. C[0] = <<>>
    BY <1>2 DEF Joins
  <2> QED  BY <2>1, <2>2, <2>3
<1>4. s[1] \in Seq(T)
  <2>1. \A i \in 1 .. Len(s) : s[i] \in Seq(T)
    BY Members
  <2>2. 1 \in 1 .. Len(s)
    OBVIOUS
  <2> QED  BY <2>1, <2>2
<1>5. <<>> \o s[1] = s[1]
  BY <1>4
<1> QED  BY <1>2, <1>3, <1>5

\* A field with a number, as it is written.
IsShort(x) == x \in Seq(Byte) /\ Len(x) \in 2 .. 6

\* Three fields with a number have few bytes.
LEMMA ShortsJoined ==
    ASSUME NEW a, IsShort(a), NEW b, IsShort(b), NEW c, IsShort(c)
    PROVE  (a \o b) \o c \in Seq(Byte) /\ Len((a \o b) \o c) \in 6 .. 18
<1> DEFINE ab == a \o b
           abc == ab \o c
           i == Len(a)
           j == Len(b)
           k == Len(c)
           l == Len(abc)
<1>1. a \in Seq(Byte) /\ b \in Seq(Byte) /\ c \in Seq(Byte) /\ i \in 2 .. 6 /\ j \in 2 .. 6 /\ k \in 2 .. 6
  BY DEF IsShort
<1>2. ab \in Seq(Byte) /\ Len(ab) = i + j
  BY <1>1, Both DEF InTurn
<1> HIDE DEF ab
<1>3. abc \in Seq(Byte) /\ l = Len(ab) + k
  BY <1>1, <1>2, Both DEF InTurn
<1> HIDE DEF i, j, k, l
<1>4. l \in 6 .. 18
  BY <1>1, <1>2, <1>3
<1> QED  BY <1>3, <1>4 DEF ab, l

\* A field with a number is written so.
LEMMA NumberWritten ==
    ASSUME NEW field \in FieldNumber, NEW num \in Number
    PROVE  /\ IsField(NumberField(field, num))
           /\ Encoded(NumberField(field, num)) = Nats!EncodeVarint(field, num)
           /\ IsShort(Nats!EncodeVarint(field, num))
<1>1. IsField(NumberField(field, num)) /\ Encoded(NumberField(field, num)) = Nats!EncodeVarint(field, num)
  BY DEF IsField, NumberField, Encoded
<1>2. 8 * field + Nats!VARINT \in Number
  <2>1. Nats!VARINT \in 0 .. 7
    BY DEF Nats!VARINT
  <2> QED  BY <2>1, Keys
<1> DEFINE x == Nats!Tag(field, Nats!VARINT)
           y == Nats!Varint(num)
<1>3. x \in Seq(Byte) /\ y \in Seq(Byte) /\ Len(x) \in 1 .. 3 /\ Len(y) \in 1 .. 3
  BY <1>2, VarintIs DEF IsVarint, Nats!Tag
<1>4. Nats!EncodeVarint(field, num) = x \o y
  BY DEF Nats!EncodeVarint
<1> HIDE DEF x, y
<1>6. IsShort(x \o y)
  <2>1. x \o y \in Seq(Byte) /\ Len(x \o y) = Len(x) + Len(y)
    BY <1>3, Both DEF InTurn
  <2> DEFINE i == Len(x)
             j == Len(y)
  <2>2. i + j \in 2 .. 6
    <3>1. i \in 1 .. 3 /\ j \in 1 .. 3
      BY <1>3
    <3> HIDE DEF i, j
    <3> QED  BY <3>1
  <2> QED  BY <2>1, <2>2 DEF IsShort
<1> QED  BY <1>1, <1>4, <1>6

\* Small numbers fit a varint, and number a field.
LEMMA SmallNumbers == \A n \in 0 .. 100 : n \in Number /\ (n > 0 => n \in FieldNumber)
  BY WordIs DEF Number, FieldNumber

\* A datapoint is written in three fields with a number.
LEMMA DpWritten ==
    ASSUME NEW dp, IsDp(dp)
    PROVE  /\ Nats!EncodeDpValue(dp) = Nats!FlattenSeq([i \in 1 .. 3 |-> Encoded(DpFields(dp)[i])])
           /\ \A i \in 1 .. 3 : IsField(DpFields(dp)[i])
           /\ Nats!EncodeDpValue(dp) \in Seq(Byte) /\ Len(Nats!EncodeDpValue(dp)) \in Number
           /\ Len(Nats!EncodeDpValue(dp)) <= 18
<1> DEFINE f == DpFields(dp)
           s == [i \in 1 .. 3 |-> Encoded(f[i])]
           a == Nats!EncodeVarint(dp.kind, Raised(dp))
           b == Nats!EncodeVarint(Nats!DP_ID, dp.id)
           c == Nats!EncodeVarint(Nats!VALID, 1)
<1>1. dp.id \in Number /\ dp.kind \in Kinds /\ Raised(dp) \in Number /\ 1 \in Number
  <2>1. 1 \in 0 .. 100
    OBVIOUS
  <2> QED  BY <2>1, RaisedIs, SmallNumbers DEF IsDp
<1>2. dp.kind \in FieldNumber /\ Nats!DP_ID \in FieldNumber /\ Nats!VALID \in FieldNumber
  <2>1. Kinds \subseteq 1 .. 100 /\ Nats!DP_ID \in 1 .. 100 /\ Nats!VALID \in 1 .. 100
    BY DEF Kinds, Nats!BOOL, Nats!INT, Nats!ENUM, Nats!FLAGS, Nats!DP_ID, Nats!VALID
  <2>2. 1 .. 100 \subseteq FieldNumber
    BY SmallNumbers
  <2> QED  BY <1>1, <2>1, <2>2
<1>3. f[1] = NumberField(dp.kind, Raised(dp)) /\ f[2] = NumberField(Nats!DP_ID, dp.id) /\ f[3] = NumberField(Nats!VALID, 1)
  BY DEF DpFields
<1> HIDE DEF f
<1>4. IsField(f[1]) /\ Encoded(f[1]) = a /\ IsShort(a)
  BY <1>1, <1>2, <1>3, NumberWritten
<1>5. IsField(f[2]) /\ Encoded(f[2]) = b /\ IsShort(b)
  BY <1>1, <1>2, <1>3, NumberWritten
<1>6. IsField(f[3]) /\ Encoded(f[3]) = c /\ IsShort(c)
  BY <1>1, <1>2, <1>3, NumberWritten
<1>7. Nats!EncodeDpValue(dp) = (a \o b) \o c
  BY DEF Nats!EncodeDpValue, Nats!EncodeInt64, Nats!EncodeVarint, Raised
<1> HIDE DEF a, b, c
<1>8. \A i \in 1 .. 3 : i = 1 \/ i = 2 \/ i = 3
  OBVIOUS
<1>9. s \in Seq(Seq(Byte)) /\ Len(s) = 3 /\ s[1] = a /\ s[2] = b /\ s[3] = c
  <2>1. \A i \in 1 .. 3 : Encoded(f[i]) \in Seq(Byte)
    BY <1>4, <1>5, <1>6, <1>8 DEF IsShort
  <2>2. s \in Seq(Seq(Byte)) /\ Len(s) = 3
    BY <2>1
  <2>3. s[1] = Encoded(f[1]) /\ s[2] = Encoded(f[2]) /\ s[3] = Encoded(f[3])
    OBVIOUS
  <2> QED  BY <1>4, <1>5, <1>6, <2>2, <2>3
<1>10. Nats!EncodeDpValue(dp) = Nats!FlattenSeq(s)
  <2> HIDE DEF s
  <2> QED  BY <1>7, <1>9, ThreeJoined
<1>11. (a \o b) \o c \in Seq(Byte) /\ Len((a \o b) \o c) \in 6 .. 18
  BY <1>4, <1>5, <1>6, ShortsJoined
<1>12. Len(Nats!EncodeDpValue(dp)) \in Number /\ Len(Nats!EncodeDpValue(dp)) <= 18
  <2>1. Len(Nats!EncodeDpValue(dp)) \in 0 .. 100 /\ Len(Nats!EncodeDpValue(dp)) <= 18
    BY <1>7, <1>11
  <2> QED  BY <2>1, SmallNumbers
<1> QED  BY <1>4, <1>5, <1>6, <1>7, <1>8, <1>10, <1>11, <1>12 DEF f, s

\* And read as it was.
NumberAt(message, k, field, num) == message[k].field = field /\ message[k].numeric /\ message[k].num = num

\* A datapoint that is written is read as it was, whatever its kind.
LEMMA DpIsRead ==
    ASSUME NEW dp, IsDp(dp)
    PROVE  \E message : Nats!Parse(Nats!EncodeDpValue(dp)) = {message} /\ Nats!DecodeDpValue(message) = {<<dp>>}
<1> DEFINE fields == DpFields(dp)
<1>0. DOMAIN fields = 1 .. 3
  BY DEF DpFields
<1>1. PICK message :
        /\ Nats!Parse(Nats!EncodeDpValue(dp)) = {message}
        /\ message \in Seq(FieldRead) /\ Len(message) = 3
        /\ \A i \in 1 .. 3 : \E next : message[i] = FieldTold(fields[i], next)
  <2>1. Nats!EncodeDpValue(dp) = Nats!FlattenSeq([i \in 1 .. 3 |-> Encoded(fields[i])])
        /\ \A i \in 1 .. 3 : IsField(fields[i])
    BY DpWritten
  <2> HIDE DEF fields
  <2>2. 3 \in Nat
    OBVIOUS
  <2>3. \E message :
             /\ Nats!Parse(Nats!FlattenSeq([i \in 1 .. 3 |-> Encoded(fields[i])])) = {message}
             /\ message \in Seq(FieldRead) /\ Len(message) = 3
             /\ \A i \in 1 .. 3 : \E next : message[i] = FieldTold(fields[i], next)
    BY <1>0, <2>1, <2>2, WrittenIsRead
  <2> QED  BY <2>1, <2>3
<1>2. fields[1] = NumberField(dp.kind, Raised(dp)) /\ fields[2] = NumberField(Nats!DP_ID, dp.id)
      /\ fields[3] = NumberField(Nats!VALID, 1)
  BY DEF DpFields
<1> HIDE DEF fields
<1>3. \A i \in 1 .. 3 : message[i].field = fields[i].field /\ message[i].numeric = fields[i].numeric
                        /\ (fields[i].numeric => message[i].num = fields[i].num)
  BY <1>1 DEF FieldTold
<1>4. 1 \in 1 .. 3 /\ 2 \in 1 .. 3 /\ 3 \in 1 .. 3 /\ \A i \in 1 .. 3 : i = 1 \/ i = 2 \/ i = 3
  OBVIOUS
<1>5. /\ NumberAt(message, 1, dp.kind, Raised(dp)) /\ NumberAt(message, 2, Nats!DP_ID, dp.id)
      /\ NumberAt(message, 3, Nats!VALID, 1)
  <2>1. \A field, num : NumberField(field, num).field = field /\ NumberField(field, num).numeric
                        /\ NumberField(field, num).num = num
    BY DEF NumberField
  <2> QED  BY <1>2, <1>3, <1>4, <2>1 DEF NumberAt
<1>6. dp.kind \in Kinds /\ dp = [id |-> dp.id, kind |-> dp.kind, value |-> dp.value] /\ Fits(dp.kind, dp.value)
  BY DEF IsDp
<1>7. /\ dp.kind \in Nats!BOOL .. Nats!FLOAT /\ dp.kind # Nats!DP_ID /\ dp.kind # Nats!VALID /\ Nats!DP_ID # Nats!VALID
      /\ Nats!DP_ID \notin Nats!BOOL .. Nats!FLOAT /\ Nats!VALID \notin Nats!BOOL .. Nats!FLOAT
  BY <1>6 DEF Kinds, Nats!BOOL, Nats!INT, Nats!ENUM, Nats!FLAGS, Nats!FLOAT, Nats!DP_ID, Nats!VALID
<1>8. Once(message, dp.kind, message[1]) /\ Once(message, Nats!DP_ID, message[2]) /\ Once(message, Nats!VALID, message[3])
  <2>1. \A i \in 1 .. Len(message) : message[i].field = dp.kind <=> i = 1
    BY <1>1, <1>4, <1>5, <1>7 DEF NumberAt
  <2>2. \A i \in 1 .. Len(message) : message[i].field = Nats!DP_ID <=> i = 2
    BY <1>1, <1>4, <1>5, <1>7 DEF NumberAt
  <2>3. \A i \in 1 .. Len(message) : message[i].field = Nats!VALID <=> i = 3
    BY <1>1, <1>4, <1>5, <1>7 DEF NumberAt
  <2>4. 1 \in 1 .. Len(message) /\ 2 \in 1 .. Len(message) /\ 3 \in 1 .. Len(message)
    BY <1>1
  <2>5. Once(message, dp.kind, message[1])
    BY <1>1, <2>1, <2>4, OnceIs
  <2>6. Once(message, Nats!DP_ID, message[2])
    BY <1>1, <2>2, <2>4, OnceIs
  <2>7. Once(message, Nats!VALID, message[3])
    BY <1>1, <2>3, <2>4, OnceIs
  <2> QED  BY <2>5, <2>6, <2>7
<1>9. /\ Nats!GetInt(message, dp.kind) = {Raised(dp)} /\ Nats!Has(message, dp.kind)
      /\ Nats!GetInt(message, Nats!DP_ID) = {dp.id} /\ Nats!GetInt(message, Nats!VALID) = {1}
  BY <1>5, <1>8, GetsInt DEF NumberAt
<1>10. ASSUME NEW kind \in Nats!BOOL .. Nats!FLOAT, kind # dp.kind PROVE ~Nats!Has(message, kind)
  <2>1. \A i \in 1 .. Len(message) : message[i].field # kind
    BY <1>1, <1>4, <1>5, <1>7, <1>10 DEF NumberAt
  <2> QED  BY <1>1, <2>1, NeverIs, GetsNone
<1>11. {kind \in Nats!BOOL .. Nats!FLOAT : Nats!Has(message, kind)} = {dp.kind}
  BY <1>7, <1>9, <1>10
<1>12. Nats!Min({dp.kind}) = dp.kind
  <2>1. dp.kind \in Int
    BY <1>7
  <2> DEFINE k == dp.kind
  <2> HIDE DEF k
  <2>2. k \in Int => Nats!Min({k}) = k
    BY DEF Nats!Min
  <2> QED  BY <2>1, <2>2 DEF k
<1>13. Nats!ReadValue(message, dp.kind) = {dp.value}
  <2> DEFINE k == dp.kind
             u == {IF value THEN 1 ELSE 0 : value \in Nats!GetBool(message, k)}
             v == Nats!GetSint64(message, k)
             w == {0 : value \in Nats!GetBytes(message, k)}
             x == Nats!GetInt(message, k)
  <2>0. Nats!ReadValue(message, k) =
          CASE k = Nats!BOOL -> u [] k = Nats!INT -> v [] k \in {Nats!TEXT, Nats!RAW} -> w [] OTHER -> x
    BY DEF Nats!ReadValue
  <2>00. /\ k = Nats!BOOL => Nats!ReadValue(message, k) = u
         /\ k = Nats!INT => Nats!ReadValue(message, k) = v
         /\ k \in {Nats!ENUM, Nats!FLAGS} => Nats!ReadValue(message, k) = x
    <3> HIDE DEF k, u, v, w, x
    <3> QED  BY <2>0 DEF Nats!BOOL, Nats!INT, Nats!ENUM, Nats!FLAGS, Nats!TEXT, Nats!RAW
  <2>1. CASE dp.kind = Nats!BOOL
    <3>1. dp.value \in {0, 1} /\ Raised(dp) = dp.value
      BY <1>6, <2>1 DEF Fits, Raised, Nats!BOOL, Nats!INT
    <3>2. Nats!ReadValue(message, dp.kind) = {IF value THEN 1 ELSE 0 : value \in Nats!GetBool(message, dp.kind)}
      BY <2>00, <2>1
    <3>3. Nats!GetBool(message, dp.kind) = {dp.value # 0}
      BY <1>9, <3>1 DEF Nats!GetBool
    <3> QED  BY <3>1, <3>2, <3>3
  <2>2. CASE dp.kind = Nats!INT
    <3>1. dp.value \in Signed /\ Raised(dp) = dp.value % Nats!Word
      BY <1>6, <2>2 DEF Fits, Raised, Nats!BOOL, Nats!INT
    <3>2. Nats!ReadValue(message, dp.kind) = Nats!GetSint64(message, dp.kind)
      BY <2>00, <2>2
    <3>3. Nats!GetSint64(message, dp.kind) = {Lowered(Raised(dp))}
      BY <1>9 DEF Nats!GetSint64, Lowered
    <3> QED  BY <3>1, <3>2, <3>3, SignedIs
  <2>3. CASE dp.kind \in {Nats!ENUM, Nats!FLAGS}
    <3>1. Raised(dp) = dp.value
      BY <2>3 DEF Raised, Nats!INT, Nats!ENUM, Nats!FLAGS
    <3>2. Nats!ReadValue(message, dp.kind) = Nats!GetInt(message, dp.kind)
      BY <2>00, <2>3
    <3> QED  BY <1>9, <3>1, <3>2
  <2> QED  BY <1>6, <2>1, <2>2, <2>3 DEF Kinds
<1>14. Nats!DecodeDpValue(message) =
         {<<[id |-> id, kind |-> dp.kind, value |-> value]>> :
            id \in {dp.id}, value \in {dp.value}, valid \in {1}}
  <2> DEFINE kinds == {kind \in Nats!BOOL .. Nats!FLOAT : Nats!Has(message, kind)}
             R(k, ids, values, valids) ==
               {<<[id |-> id, kind |-> k, value |-> value]>> : id \in ids, value \in values, valid \in valids}
  <2>1. Nats!DecodeDpValue(message) =
          IF kinds = {} THEN {<<>>}
          ELSE R(Nats!Min(kinds), Nats!GetInt(message, Nats!DP_ID), Nats!ReadValue(message, Nats!Min(kinds)),
                 Nats!GetInt(message, Nats!VALID))
    BY DEF Nats!DecodeDpValue
  <2>2. kinds # {} /\ Nats!Min(kinds) = dp.kind
    BY <1>11, <1>12
  <2> HIDE DEF kinds, R
  <2>3. Nats!DecodeDpValue(message) = R(dp.kind, {dp.id}, {dp.value}, {1})
    BY <1>9, <1>13, <2>1, <2>2
  <2> QED  BY <2>3 DEF R
<1>15. Nats!DecodeDpValue(message) = {<<[id |-> dp.id, kind |-> dp.kind, value |-> dp.value]>>}
  BY <1>14
<1> QED  BY <1>1, <1>6, <1>15

-----------------------------------------------------------------------------
(* Protobuf: fields of both kinds *)

\* Fields as they are written, with a number or with bytes.
BytesField(field, bytes) == [field |-> field, numeric |-> FALSE, bytes |-> bytes]
Fields ==
    {f \in [field : FieldNumber, numeric : {TRUE}, num : Number]
             \cup [field : FieldNumber, numeric : {FALSE}, bytes : Seq(Byte)] : IsField(f)}
EncodedAll(fields) == [i \in 1 .. Len(fields) |-> Encoded(fields[i])]
Written(fields) == Nats!FlattenSeq(EncodedAll(fields))

\* Fields are written in bytes.
LEMMA EncodedAre ==
    ASSUME NEW fields \in Seq(Fields)
    PROVE  EncodedAll(fields) \in Seq(Seq(Byte)) /\ Len(EncodedAll(fields)) = Len(fields)
           /\ \A i \in 1 .. Len(fields) : EncodedAll(fields)[i] = Encoded(fields[i]) /\ IsField(fields[i])
<1>1. \A i \in 1 .. Len(fields) : IsField(fields[i])
  <2>1. \A i \in 1 .. Len(fields) : fields[i] \in Fields
    BY Members
  <2> QED  BY <2>1 DEF Fields
<1>2. \A i \in 1 .. Len(fields) : Encoded(fields[i]) \in Seq(Byte)
  BY <1>1, EncodedIs
<1>3. Len(fields) \in Nat
  OBVIOUS
<1> DEFINE n == Len(fields)
           s == EncodedAll(fields)
<1>4. s = [i \in 1 .. n |-> Encoded(fields[i])]
  BY DEF EncodedAll
<1> HIDE DEF s, n
<1>5. s \in Seq(Seq(Byte)) /\ Len(s) = n /\ \A i \in 1 .. n : s[i] = Encoded(fields[i])
  BY <1>2, <1>3, <1>4 DEF n
<1> QED  BY <1>1, <1>5 DEF s, n

\* Fields that are written together are written one part after the other.
LEMMA WrittenTogether ==
    ASSUME NEW f \in Seq(Fields), NEW g \in Seq(Fields)
    PROVE  f \o g \in Seq(Fields) /\ Written(f \o g) = Written(f) \o Written(g)
           /\ Written(f) \in Seq(Byte)
<1> DEFINE h == f \o g
           x == EncodedAll(f)
           y == EncodedAll(g)
           z == EncodedAll(h)
           n == Len(f)
           m == Len(g)
<1>1. InTurn(f, g, Fields) /\ h \in Seq(Fields) /\ n \in Nat /\ m \in Nat
  BY Both
<1>2. Len(h) = n + m /\ (\A i \in 1 .. n : h[i] = f[i]) /\ \A i \in 1 .. m : h[n + i] = g[i]
  BY <1>1 DEF InTurn
<1>3. /\ x \in Seq(Seq(Byte)) /\ Len(x) = n /\ \A i \in 1 .. n : x[i] = Encoded(f[i])
      /\ y \in Seq(Seq(Byte)) /\ Len(y) = m /\ \A i \in 1 .. m : y[i] = Encoded(g[i])
  BY EncodedAre
<1> HIDE DEF h, x, y
<1>4. z \in Seq(Seq(Byte)) /\ Len(z) = n + m /\ \A i \in 1 .. n + m : z[i] = Encoded(h[i])
  BY <1>1, <1>2, EncodedAre
<1> HIDE DEF z
<1> DEFINE w == x \o y
<1>5. InTurn(x, y, Seq(Byte)) /\ w \in Seq(Seq(Byte))
  BY <1>3, Both
<1>6. Len(w) = n + m /\ (\A i \in 1 .. n : w[i] = x[i]) /\ \A i \in 1 .. m : w[n + i] = y[i]
  BY <1>3, <1>5 DEF InTurn
<1> HIDE DEF w, n, m
<1>7. ASSUME NEW i \in 1 .. n + m PROVE w[i] = z[i]
  <2>1. CASE i <= n
    <3>1. i \in 1 .. n
      BY <1>1, <2>1
    <3> QED  BY <1>2, <1>3, <1>4, <1>6, <3>1
  <2>2. CASE i > n
    <3> DEFINE j == i - n
    <3>1. j \in 1 .. m /\ i = n + j
      BY <1>1, <2>2
    <3> HIDE DEF j
    <3> QED  BY <1>2, <1>3, <1>4, <1>6, <3>1
  <2> QED  BY <1>1, <2>1, <2>2
<1>8. w = z
  <2>1. w = [i \in 1 .. n + m |-> w[i]]
    BY <1>5, <1>6
  <2>2. z = [i \in 1 .. n + m |-> z[i]]
    BY <1>4
  <2> QED  BY <1>7, <2>1, <2>2
<1>9. Nats!FlattenSeq(w) = Nats!FlattenSeq(x) \o Nats!FlattenSeq(y) /\ Nats!FlattenSeq(x) \in Seq(Byte)
  BY <1>3, Together DEF w
<1> QED  BY <1>1, <1>8, <1>9 DEF Written, h, x, y, z

\* One field, and none.
LEMMA WrittenAlone ==
    ASSUME NEW f \in Fields
    PROVE  <<f>> \in Seq(Fields) /\ Written(<<f>>) = Encoded(f) /\ Written(<<>>) = <<>> /\ <<>> \in Seq(Fields)
<1>1. <<f>> \in Seq(Fields) /\ Len(<<f>>) = 1 /\ <<f>>[1] = f
  OBVIOUS
<1>2. Encoded(f) \in Seq(Byte)
  BY EncodedIs DEF Fields
<1>3. EncodedAll(<<f>>) = <<Encoded(f)>>
  BY DEF EncodedAll
<1>4. EncodedAll(<<>>) = <<>>
  BY DEF EncodedAll
<1> QED  BY <1>1, <1>2, <1>3, <1>4, Alone DEF Written

\* A field with a number,
LEMMA NumberFieldIs ==
    ASSUME NEW field \in FieldNumber, NEW num \in Number
    PROVE  NumberField(field, num) \in Fields /\ Encoded(NumberField(field, num)) = Nats!EncodeVarint(field, num)
<1>1. NumberField(field, num) \in [field : FieldNumber, numeric : {TRUE}, num : Number]
  BY DEF NumberField
<1>2. IsField(NumberField(field, num)) /\ Encoded(NumberField(field, num)) = Nats!EncodeVarint(field, num)
  BY NumberWritten
<1> QED  BY <1>1, <1>2 DEF Fields

\* and one with bytes.
LEMMA BytesFieldIs ==
    ASSUME NEW field \in FieldNumber, NEW bytes \in Seq(Byte), Len(bytes) \in Number
    PROVE  BytesField(field, bytes) \in Fields /\ Encoded(BytesField(field, bytes)) = Nats!EncodeBytes(field, bytes)
<1> DEFINE f == BytesField(field, bytes)
<1>1. f \in [field : FieldNumber, numeric : {FALSE}, bytes : Seq(Byte)]
  BY DEF BytesField
<1>2. f.field = field /\ f.numeric = FALSE /\ f.bytes = bytes
  BY DEF BytesField
<1> HIDE DEF f
<1>3. IsField(f) /\ Encoded(f) = Nats!EncodeBytes(field, bytes)
  BY <1>2 DEF IsField, Encoded
<1> QED  BY <1>1, <1>3 DEF Fields, f

\* A message that has the fields that were written.
Same(m, f) == m.field = f.field /\ m.numeric = f.numeric /\ (f.numeric => m.num = f.num) /\ (~f.numeric => m.bytes = f.bytes)
ReadAs(message, fields) ==
    /\ message \in Seq(FieldRead) /\ Len(message) = Len(fields)
    /\ \A i \in 1 .. Len(fields) : Same(message[i], fields[i])

\* Fields that are written are read, each as it was.
LEMMA WrittenAreRead ==
    ASSUME NEW fields \in Seq(Fields)
    PROVE  \E message : Nats!Parse(Written(fields)) = {message} /\ ReadAs(message, fields)
<1> DEFINE n == Len(fields)
<1>1. n \in Nat /\ DOMAIN fields = 1 .. n /\ \A i \in 1 .. n : IsField(fields[i])
  BY EncodedAre
<1>2. Written(fields) = Nats!FlattenSeq([i \in 1 .. n |-> Encoded(fields[i])])
  BY DEF Written, EncodedAll
<1> HIDE DEF n
<1>3. PICK message :
        /\ Nats!Parse(Nats!FlattenSeq([i \in 1 .. n |-> Encoded(fields[i])])) = {message}
        /\ message \in Seq(FieldRead) /\ Len(message) = n
        /\ \A i \in 1 .. n : \E next : message[i] = FieldTold(fields[i], next)
  BY <1>1, WrittenIsRead
<1>4. ASSUME NEW i \in 1 .. n PROVE Same(message[i], fields[i])
  <2>1. PICK next : message[i] = FieldTold(fields[i], next)
    BY <1>3
  <2> DEFINE f == fields[i]
  <2>2. f.numeric \in BOOLEAN
    BY <1>1 DEF IsField
  <2> HIDE DEF f
  <2>3. Same(FieldTold(f, next), f)
    BY <2>2 DEF FieldTold, Same
  <2> QED  BY <2>1, <2>3 DEF f
<1> QED  BY <1>2, <1>3, <1>4 DEF ReadAs, n

-----------------------------------------------------------------------------
(* Datapoints: messages (datapoints.py:93-165) *)

\* Results none of which raises are all taken.
LEMMA EachIs ==
    ASSUME NEW results, NEW f, DOMAIN results = DOMAIN f, f = [i \in DOMAIN f |-> f[i]],
           \A i \in DOMAIN f : results[i] = {f[i]}
    PROVE  Nats!Each(results) = {f}
<1> DEFINE D == DOMAIN f
           chosen == [i \in DOMAIN results |-> CHOOSE r \in results[i] : TRUE]
<1>1. ~\E i \in DOMAIN results : results[i] = {}
  OBVIOUS
<1>2. chosen = f
  <2>1. \A i \in D : (CHOOSE r \in results[i] : TRUE) = f[i]
    <3> TAKE i \in D
    <3> DEFINE v == f[i]
    <3>1. results[i] = {v}
      OBVIOUS
    <3> HIDE DEF v
    <3>2. (CHOOSE r \in {v} : TRUE) = v
      OBVIOUS
    <3> QED  BY <3>1, <3>2 DEF v
  <2>2. chosen = [i \in D |-> CHOOSE r \in results[i] : TRUE]
    OBVIOUS
  <2>3. chosen = [i \in D |-> f[i]]
    BY <2>1, <2>2
  <2> QED  BY <2>3
<1> HIDE DEF chosen
<1> QED  BY <1>1, <1>2 DEF Nats!Each, chosen

\* Datapoints, in the fields of one number.
AreDps(dps, n) == n \in Nat /\ dps = [i \in 1 .. n |-> dps[i]] /\ \A i \in 1 .. n : IsDp(dps[i])
Holds(message, at, field, dps, n) ==
    /\ Between(message, field, at, at + n)
    /\ \A i \in 1 .. n : ~message[at + i].numeric /\ message[at + i].bytes = Nats!EncodeDpValue(dps[i])

\* Datapoints in the fields of one number are read in their order.
LEMMA ValuesAreRead ==
    ASSUME NEW dps, NEW n, AreDps(dps, n), NEW message \in Seq(FieldRead), NEW field, NEW at \in Nat,
           Holds(message, at, field, dps, n)
    PROVE  Nats!DecodeValues(message, field) = {dps}
<1> DEFINE T == {dps[i] : i \in 1 .. n}
           values == Nats!All(message, field)
           IsRead(i, m) == Nats!Parse(Nats!EncodeDpValue(dps[i])) = {m} /\ Nats!DecodeDpValue(m) = {<<dps[i]>>}
           M == [i \in 1 .. n |-> CHOOSE m : IsRead(i, m)]
           parsed == [i \in DOMAIN values |-> IF values[i].numeric THEN {} ELSE Nats!Parse(values[i].bytes)]
           decoded == [i \in DOMAIN M |-> Nats!DecodeDpValue(M[i])]
           singles == [i \in 1 .. n |-> <<dps[i]>>]
<1>0. n \in Nat /\ dps \in Seq(T) /\ Len(dps) = n /\ (\A i \in 1 .. n : IsDp(dps[i])) /\ DOMAIN dps = 1 .. n
      /\ dps = [i \in 1 .. n |-> dps[i]]
  <2>1. dps = [i \in 1 .. n |-> dps[i]] /\ n \in Nat /\ \A i \in 1 .. n : IsDp(dps[i])
    BY DEF AreDps
  <2>2. dps \in [1 .. n -> T]
    BY <2>1
  <2> HIDE DEF T
  <2> QED  BY <2>1, <2>2
<1> HIDE DEF T
<1>1. \A i \in 1 .. n : IsRead(i, M[i])
  <2> TAKE i \in 1 .. n
  <2>1. \E m : IsRead(i, m)
    BY <1>0, DpIsRead
  <2> HIDE DEF IsRead
  <2>2. IsRead(i, CHOOSE m : IsRead(i, m))
    BY <2>1
  <2> QED  BY <2>2
<1>2. M = [i \in 1 .. n |-> M[i]] /\ DOMAIN M = 1 .. n
  OBVIOUS
<1> HIDE DEF M
<1>3. values = [k \in 1 .. n |-> message[at + k]]
  <2>1. Between(message, field, at, at + n) /\ (at + n) - at = n
    BY <1>0 DEF Holds
  <2>2. values = Some(message, at, at + n)
    BY <2>1, AllAre
  <2> QED  BY <2>1, <2>2 DEF Some
<1> HIDE DEF values
<1>4. Nats!GetMessages(message, field) = {M}
  <2>1. DOMAIN values = 1 .. n /\ \A i \in 1 .. n : values[i] = message[at + i]
    BY <1>3
  <2>2. \A i \in 1 .. n : parsed[i] = {M[i]}
    BY <1>1, <2>1 DEF Holds
  <2>3. DOMAIN parsed = 1 .. n
    BY <2>1
  <2> HIDE DEF parsed
  <2>4. Nats!Each(parsed) = {M}
    BY <1>2, <2>2, <2>3, EachIs
  <2>5. Nats!GetMessages(message, field) = Nats!Each(parsed)
    BY DEF Nats!GetMessages, values, parsed
  <2> QED  BY <2>4, <2>5
<1>5. Nats!Each(decoded) = {singles}
  <2>1. DOMAIN decoded = 1 .. n /\ \A i \in 1 .. n : decoded[i] = {singles[i]}
    BY <1>1, <1>2
  <2>2. DOMAIN singles = 1 .. n /\ singles = [i \in DOMAIN singles |-> singles[i]]
    OBVIOUS
  <2> HIDE DEF decoded, singles
  <2> QED  BY ZenonT(30), <2>1, <2>2, EachIs
<1>6. Nats!FlattenSeq(singles) = dps
  <2>1. singles = Chosen(dps, 0, n)
    <3>1. \A i \in 1 .. n : i \in 0 + 1 .. n
      OBVIOUS
    <3>2. Chosen(dps, 0, n) = [i \in 1 .. n |-> IF i \in 0 + 1 .. n THEN <<dps[i]>> ELSE <<>>]
      BY <1>0 DEF Chosen
    <3> QED  BY <3>1, <3>2
  <2>2. Some(dps, 0, n) = dps
    <3>1. Some(dps, 0, n) = [k \in 1 .. n |-> dps[k]]
      BY <1>0 DEF Some
    <3> QED  BY <1>0, <3>1
  <2>3. 0 \in Nat /\ 0 <= n /\ n <= Len(dps)
    BY <1>0
  <2> HIDE DEF singles
  <2>4. Nats!FlattenSeq(Chosen(dps, 0, n)) = Some(dps, 0, n)
    BY <1>0, <2>3, ChosenAre
  <2> QED  BY <2>1, <2>2, <2>4
<1> DEFINE R(nesteds) == {Nats!FlattenSeq(d) : d \in
                            UNION {Nats!Each([i \in DOMAIN nested |-> Nats!DecodeDpValue(nested[i])]) : nested \in nesteds}}
<1>7. Nats!DecodeValues(message, field) = R(Nats!GetMessages(message, field))
  BY DEF Nats!DecodeValues
<1>8. R({M}) = {Nats!FlattenSeq(d) : d \in Nats!Each(decoded)}
  OBVIOUS
<1> HIDE DEF R, decoded, singles
<1>9. Nats!DecodeValues(message, field) = {Nats!FlattenSeq(d) : d \in {singles}}
  BY <1>4, <1>5, <1>7, <1>8
<1> QED  BY <1>6, <1>9

DpsFields(field, dps, n) == [i \in 1 .. n |-> BytesField(field, Nats!EncodeDpValue(dps[i]))]

\* Datapoints are written in such fields.
LEMMA DpsWritten ==
    ASSUME NEW dps, NEW n, AreDps(dps, n), NEW field \in FieldNumber
    PROVE  /\ DpsFields(field, dps, n) \in Seq(Fields) /\ Len(DpsFields(field, dps, n)) = n
           /\ \A i \in 1 .. n : DpsFields(field, dps, n)[i] = BytesField(field, Nats!EncodeDpValue(dps[i]))
           /\ Written(DpsFields(field, dps, n)) = Nats!Values(field, dps)
<1> DEFINE f == DpsFields(field, dps, n)
<1>1. n \in Nat /\ dps = [i \in 1 .. n |-> dps[i]] /\ \A i \in 1 .. n : IsDp(dps[i])
  BY DEF AreDps
<1>2. \A i \in 1 .. n : BytesField(field, Nats!EncodeDpValue(dps[i])) \in Fields
                        /\ Encoded(BytesField(field, Nats!EncodeDpValue(dps[i]))) =
                           Nats!EncodeBytes(field, Nats!EncodeDpValue(dps[i]))
  <2> TAKE i \in 1 .. n
  <2>1. Nats!EncodeDpValue(dps[i]) \in Seq(Byte) /\ Len(Nats!EncodeDpValue(dps[i])) \in Number
    BY <1>1, DpWritten
  <2> QED  BY <2>1, BytesFieldIs
<1>3. f = [i \in 1 .. n |-> BytesField(field, Nats!EncodeDpValue(dps[i]))]
  BY DEF DpsFields
<1> HIDE DEF f
<1>4. f \in Seq(Fields) /\ Len(f) = n /\ \A i \in 1 .. n : f[i] = BytesField(field, Nats!EncodeDpValue(dps[i]))
  BY <1>1, <1>2, <1>3
<1>5. EncodedAll(f) = [i \in DOMAIN dps |-> Nats!EncodeBytes(field, Nats!EncodeDpValue(dps[i]))]
  <2>1. DOMAIN dps = 1 .. n
    BY <1>1
  <2>2. EncodedAll(f) = [i \in 1 .. n |-> Encoded(f[i])]
    BY <1>4 DEF EncodedAll
  <2> QED  BY <1>2, <1>4, <2>1, <2>2
<1> QED  BY <1>4, <1>5 DEF f, Written, Nats!Values

\* A message with datapoints between other fields.
Framed(message, head, field, n, tail) ==
    /\ message \in Seq(FieldRead) /\ Len(message) = Len(head) + n + Len(tail)
    /\ \A i \in 1 .. Len(head) : Same(message[i], head[i])
    /\ \A i \in 1 .. n : message[Len(head) + i].field = field
    /\ \A i \in 1 .. Len(tail) : Same(message[Len(head) + n + i], tail[i])

Lacks(fields, field) == \A i \in 1 .. Len(fields) : fields[i].field # field

\* Datapoints between other fields are read, and the fields are where they were.
LEMMA AmongOthers ==
    ASSUME NEW head \in Seq(Fields), NEW tail \in Seq(Fields), NEW dps, NEW n, AreDps(dps, n),
           NEW field \in FieldNumber, Lacks(head, field), Lacks(tail, field)
    PROVE  \E message :
             /\ Nats!Parse((Written(head) \o Nats!Values(field, dps)) \o Written(tail)) = {message}
             /\ Framed(message, head, field, n, tail)
             /\ Nats!DecodeValues(message, field) = {dps}
<1> DEFINE f == DpsFields(field, dps, n)
           g == head \o f
           h == g \o tail
           a == Len(head)
           b == Len(tail)
<1>1. /\ f \in Seq(Fields) /\ Len(f) = n /\ Written(f) = Nats!Values(field, dps)
      /\ \A i \in 1 .. n : f[i] = BytesField(field, Nats!EncodeDpValue(dps[i]))
  BY DpsWritten
<1>2. n \in Nat /\ a \in Nat /\ b \in Nat
  BY DEF AreDps
<1> HIDE DEF f
<1>3. g \in Seq(Fields) /\ Written(g) = Written(head) \o Written(f)
      /\ Len(g) = a + n /\ (\A i \in 1 .. a : g[i] = head[i]) /\ \A i \in 1 .. n : g[a + i] = f[i]
  <2>1. InTurn(head, f, Fields)
    BY <1>1, Both
  <2> QED  BY <1>1, <2>1, WrittenTogether DEF InTurn
<1> HIDE DEF g
<1>4. h \in Seq(Fields) /\ Written(h) = Written(g) \o Written(tail)
      /\ Len(h) = (a + n) + b /\ (\A i \in 1 .. a + n : h[i] = g[i]) /\ \A i \in 1 .. b : h[(a + n) + i] = tail[i]
  <2>1. InTurn(g, tail, Fields)
    BY <1>3, Both
  <2> QED  BY <1>3, <2>1, WrittenTogether DEF InTurn
<1> HIDE DEF h
<1>5. PICK message : Nats!Parse(Written(h)) = {message} /\ ReadAs(message, h)
  BY <1>4, WrittenAreRead
<1>6. message \in Seq(FieldRead) /\ Len(message) = (a + n) + b
      /\ \A i \in 1 .. (a + n) + b : Same(message[i], h[i])
  BY <1>4, <1>5 DEF ReadAs
<1> HIDE DEF a, b
<1>7. \A i \in 1 .. a : Same(message[i], head[i])
  <2> TAKE i \in 1 .. a
  <2>1. i \in 1 .. a + n /\ i \in 1 .. (a + n) + b
    BY <1>2
  <2> QED  BY <1>3, <1>4, <1>6, <2>1
<1>8. \A i \in 1 .. n : Same(message[a + i], BytesField(field, Nats!EncodeDpValue(dps[i])))
  <2> TAKE i \in 1 .. n
  <2>1. a + i \in 1 .. a + n /\ a + i \in 1 .. (a + n) + b
    BY <1>2
  <2>2. h[a + i] = g[a + i] /\ g[a + i] = f[i]
    BY <1>3, <1>4, <2>1
  <2> QED  BY <1>1, <1>6, <2>1, <2>2
<1>9. \A i \in 1 .. b : Same(message[(a + n) + i], tail[i])
  <2> TAKE i \in 1 .. b
  <2>1. (a + n) + i \in 1 .. (a + n) + b
    BY <1>2
  <2> QED  BY <1>4, <1>6, <2>1
<1>10. \A i \in 1 .. n : message[a + i].field = field /\ ~message[a + i].numeric
                         /\ message[a + i].bytes = Nats!EncodeDpValue(dps[i])
  BY <1>8 DEF Same, BytesField
<1>11. Framed(message, head, field, n, tail)
  BY <1>6, <1>7, <1>9, <1>10 DEF Framed, a, b
<1>12. Between(message, field, a, a + n)
  <2>1. ASSUME NEW i \in 1 .. (a + n) + b PROVE message[i].field = field <=> i \in a + 1 .. a + n
    <3>1. CASE i <= a
      <4>1. i \in 1 .. a /\ i \notin a + 1 .. a + n
        BY <1>2, <3>1
      <4>2. message[i].field # field
        BY <1>7, <4>1 DEF Same, Lacks, a
      <4> QED  BY <4>1, <4>2
    <3>2. CASE i > a /\ i <= a + n
      <4> DEFINE j == i - a
      <4>1. j \in 1 .. n /\ i = a + j /\ i \in a + 1 .. a + n
        BY <1>2, <3>2
      <4> HIDE DEF j
      <4> QED  BY <1>10, <4>1
    <3>3. CASE i > a + n
      <4> DEFINE j == i - (a + n)
      <4>1. j \in 1 .. b /\ i = (a + n) + j /\ i \notin a + 1 .. a + n
        BY <1>2, <3>3
      <4> HIDE DEF j
      <4>2. message[i].field # field
        BY <1>9, <4>1 DEF Same, Lacks, b
      <4> QED  BY <4>1, <4>2
    <3> QED  BY <1>2, <3>1, <3>2, <3>3
  <2>2. a \in Nat /\ a + n \in Nat /\ a <= a + n /\ a + n <= Len(message) /\ Len(message) = (a + n) + b
    BY <1>2, <1>6
  <2> QED  BY <2>1, <2>2 DEF Between
<1>13. Nats!DecodeValues(message, field) = {dps}
  <2>1. Holds(message, a, field, dps, n)
    BY <1>10, <1>12 DEF Holds
  <2> QED  BY <1>2, <1>6, <2>1, ValuesAreRead
<1>14. Written(h) = (Written(head) \o Nats!Values(field, dps)) \o Written(tail)
  BY <1>1, <1>3, <1>4
<1> QED  BY <1>5, <1>11, <1>13, <1>14

\* A field among the others of such a message.
InHead(message, head, field, n, tail, other, k, num) ==
    /\ k \in 1 .. Len(head) /\ head[k] = NumberField(other, num) /\ other # field
    /\ (\A i \in 1 .. Len(head) : i # k => head[i].field # other) /\ Lacks(tail, other)

\* What stands before them is found.
LEMMA FoundInHead ==
    ASSUME NEW head \in Seq(Fields), NEW tail \in Seq(Fields), NEW n \in Nat, NEW message, NEW field,
           Framed(message, head, field, n, tail), NEW other, NEW k, NEW num,
           InHead(message, head, field, n, tail, other, k, num)
    PROVE  Nats!GetInt(message, other) = {num}
<1> DEFINE a == Len(head)
           b == Len(tail)
<1>1. /\ a \in Nat /\ b \in Nat /\ message \in Seq(FieldRead) /\ Len(message) = a + n + b
      /\ (\A i \in 1 .. a : Same(message[i], head[i])) /\ (\A i \in 1 .. n : message[a + i].field = field)
      /\ \A i \in 1 .. b : Same(message[a + n + i], tail[i])
  BY DEF Framed
<1>2. /\ k \in 1 .. a /\ head[k] = NumberField(other, num) /\ other # field
      /\ (\A i \in 1 .. a : i # k => head[i].field # other) /\ \A i \in 1 .. b : tail[i].field # other
  BY DEF InHead, Lacks
<1> HIDE DEF a, b
<1>3. ASSUME NEW i \in 1 .. a + n + b PROVE message[i].field = other <=> i = k
  <2>1. CASE i <= a
    <3>1. i \in 1 .. a
      BY <2>1, <1>1
    <3> QED  BY SMTT(30), <1>1, <1>2, <3>1 DEF Same, NumberField
  <2>2. CASE i > a /\ i <= a + n
    <3> DEFINE j == i - a
    <3>1. j \in 1 .. n /\ i = a + j /\ i # k
      BY <1>1, <1>2, <2>2
    <3> HIDE DEF j
    <3> QED  BY <1>1, <1>2, <3>1
  <2>3. CASE i > a + n
    <3> DEFINE j == i - (a + n)
    <3>1. j \in 1 .. b /\ i = a + n + j /\ i # k
      BY <1>1, <1>2, <2>3
    <3> HIDE DEF j
    <3> QED  BY <1>1, <1>2, <3>1 DEF Same
  <2> QED  BY <1>1, <2>1, <2>2, <2>3
<1>4. k \in 1 .. Len(message)
  BY <1>1, <1>2
<1>5. Once(message, other, message[k])
  BY <1>1, <1>3, <1>4, OnceIs
<1>6. message[k].numeric /\ message[k].num = num
  BY <1>1, <1>2 DEF Same, NumberField
<1> QED  BY <1>5, <1>6, GetsInt

\* What comes last, if it comes at all.
Ends(tail, other, num) == IF num = 0 THEN tail = <<>> ELSE tail = <<NumberField(other, num)>>

\* So is what stands behind them.
LEMMA FoundLast ==
    ASSUME NEW head \in Seq(Fields), NEW n \in Nat, NEW message, NEW field, NEW tail,
           Framed(message, head, field, n, tail),
           NEW other, other # field, Lacks(head, other), NEW num, Ends(tail, other, num)
    PROVE  Nats!GetInt(message, other) = {num}
<1> DEFINE a == Len(head)
           last == a + n + 1
<1>0. (num = 0 /\ tail = <<>>) \/ (num # 0 /\ tail = <<NumberField(other, num)>>)
  BY DEF Ends
<1>1. /\ a \in Nat /\ message \in Seq(FieldRead) /\ Len(message) = a + n + Len(tail)
      /\ (\A i \in 1 .. a : Same(message[i], head[i])) /\ (\A i \in 1 .. n : message[a + i].field = field)
      /\ (\A i \in 1 .. Len(tail) : Same(message[a + n + i], tail[i])) /\ \A i \in 1 .. a : head[i].field # other
  BY DEF Framed, Lacks
<1> HIDE DEF a
<1>2. ASSUME NEW i \in 1 .. a + n PROVE message[i].field # other
  <2>1. CASE i <= a
    <3>1. i \in 1 .. a
      BY <2>1, <1>1
    <3> QED  BY <1>1, <3>1 DEF Same
  <2>2. CASE i > a
    <3> DEFINE j == i - a
    <3>1. j \in 1 .. n /\ i = a + j
      BY <1>1, <2>2
    <3> HIDE DEF j
    <3> QED  BY <1>1, <3>1
  <2> QED  BY <1>1, <2>1, <2>2
<1>3. CASE tail = <<>>
  <2>1. Len(message) = a + n
    BY <1>1, <1>3
  <2>2. \A i \in 1 .. Len(message) : message[i].field # other
    BY <1>2, <2>1
  <2>3. Never(message, other)
    BY <1>1, <2>2, NeverIs
  <2>4. num = 0
    BY <1>0, <1>3
  <2> QED  BY <2>3, <2>4, GetsNone
<1>4. CASE tail = <<NumberField(other, num)>>
  <2> DEFINE f == NumberField(other, num)
  <2>0. f.field = other /\ f.numeric /\ f.num = num
    BY DEF NumberField
  <2> HIDE DEF f
  <2>1. Len(tail) = 1 /\ tail[1] = f /\ tail # <<>>
    BY <1>4 DEF f
  <2>2. Len(message) = last /\ last \in 1 .. last /\ a + n + 1 = last /\ 1 \in 1 .. 1
    BY <1>1, <2>1
  <2> HIDE DEF last
  <2>3. Same(message[last], f)
    <3>1. Same(message[a + n + 1], tail[1])
      BY <1>1, <2>1, <2>2
    <3> QED  BY <2>1, <2>2, <3>1
  <2>4. message[last].field = other /\ message[last].numeric /\ message[last].num = num
    BY <2>0, <2>3 DEF Same
  <2>5. ASSUME NEW i \in 1 .. Len(message) PROVE message[i].field = other <=> i = last
    <3>1. i = last \/ i \in 1 .. a + n
      BY <1>1, <2>2
    <3>2. i \in 1 .. a + n => i # last
      BY <1>1, <2>2
    <3> QED  BY <1>2, <2>4, <3>1, <3>2
  <2>6. Once(message, other, message[last])
    BY <1>1, <2>2, <2>5, OnceIs
  <2> QED  BY <2>1, <2>4, <2>6, GetsInt
<1> QED  BY <1>0, <1>3, <1>4

\* Datapoints are written in bytes.
LEMMA DpsAreBytes ==
    ASSUME NEW dps, NEW n, AreDps(dps, n), NEW field \in FieldNumber
    PROVE  Nats!Values(field, dps) \in Seq(Byte)
<1>1. DpsFields(field, dps, n) \in Seq(Fields) /\ Written(DpsFields(field, dps, n)) = Nats!Values(field, dps)
  BY DpsWritten
<1> QED  BY <1>1, WrittenTogether

\* decode_state_report (datapoints.py:146-153): a report of any datapoints, the answer to a query or to
\* none, is decoded to the datapoints it was made of, in their order.
THEOREM ReportsAreRead ==
    ASSUME NEW dps, NEW n, AreDps(dps, n), NEW command \in Number
    PROVE  Nats!DecodeStateReport(Nats!Report(dps, command)) = {[command |-> command, dps |-> dps]}
<1> DEFINE four == 4
           five == 5
           first == BytesField(1, <<1>>)
           head == <<first>>
           tail == IF command = 0 THEN <<>> ELSE <<NumberField(five, command)>>
           values == Nats!Values(four, dps)
           report == Nats!Report(dps, command)
<1>1. 1 \in FieldNumber /\ four \in FieldNumber /\ five \in FieldNumber /\ four # five /\ four # 1 /\ five # 1 /\ n \in Nat
  <2>1. 1 \in 0 .. 100 /\ four \in 0 .. 100 /\ five \in 0 .. 100
    OBVIOUS
  <2> QED  BY <2>1, SmallNumbers DEF AreDps
<1> HIDE DEF four, five
<1>2. first \in Fields /\ Encoded(first) = Nats!EncodeBytes(1, <<1>>)
  <2>1. 1 \in Byte /\ Len(<<1>>) = 1 /\ 1 \in Number
    <3>1. 1 \in 0 .. 100
      OBVIOUS
    <3> QED  BY <3>1, SmallNumbers DEF Byte
  <2>2. <<1>> \in Seq(Byte) /\ Len(<<1>>) \in Number
    BY <2>1
  <2> QED  BY <1>1, <2>2, BytesFieldIs
<1>3. head \in Seq(Fields) /\ Written(head) = Nats!EncodeBytes(1, <<1>>)
  <2> HIDE DEF first
  <2> QED  BY <1>2, WrittenAlone
<1>4. tail \in Seq(Fields) /\ Written(tail) = (IF command = 0 THEN <<>> ELSE Nats!EncodeVarint(five, command))
  <2> DEFINE last == NumberField(five, command)
  <2>1. last \in Fields /\ Encoded(last) = Nats!EncodeVarint(five, command)
    BY <1>1, NumberFieldIs
  <2> HIDE DEF last
  <2>2. <<last>> \in Seq(Fields) /\ Written(<<last>>) = Encoded(last) /\ Written(<<>>) = <<>> /\ <<>> \in Seq(Fields)
    BY <2>1, WrittenAlone
  <2>3. tail = IF command = 0 THEN <<>> ELSE <<last>>
    BY DEF last
  <2> HIDE DEF tail
  <2> QED  BY <2>1, <2>2, <2>3
<1>5. report = (Written(head) \o values) \o Written(tail)
  <2> HIDE DEF head, tail
  <2> QED  BY <1>3, <1>4 DEF Nats!Report, four, five
<1>6. Len(head) = 1 /\ head[1] = first /\ first.field = 1 /\ ~first.numeric /\ first.bytes = <<1>>
  BY DEF BytesField
<1>7. Lacks(head, four) /\ Lacks(head, five)
  <2>1. \A i \in 1 .. Len(head) : head[i].field = 1
    BY <1>6
  <2> QED  BY <1>1, <2>1 DEF Lacks
<1>8. Lacks(tail, four) /\ Lacks(tail, 1)
  <2>1. CASE command = 0
    BY <2>1 DEF Lacks
  <2>2. CASE command # 0
    <3>1. tail = <<NumberField(five, command)>>
      BY <2>2
    <3>2. Len(tail) = 1 /\ tail[1].field = five
      BY <3>1 DEF NumberField
    <3> HIDE DEF tail
    <3>3. \A i \in 1 .. Len(tail) : tail[i].field = five
      BY <3>2
    <3> QED  BY <1>1, <3>3 DEF Lacks
  <2> QED  BY <2>1, <2>2
<1> HIDE DEF head, tail, values, first
<1>9. PICK message :
        /\ Nats!Parse((Written(head) \o values) \o Written(tail)) = {message}
        /\ Framed(message, head, four, n, tail)
        /\ Nats!DecodeValues(message, four) = {dps}
  BY SMTT(30), <1>1, <1>3, <1>4, <1>7, <1>8, AmongOthers DEF values
<1>10. Nats!GetInt(message, five) = {command}
  <2>1. Ends(tail, five, command)
    BY DEF tail, Ends
  <2> QED  BY <1>1, <1>3, <1>7, <1>9, <2>1, FoundLast
<1>11. Nats!GetBytes(message, 1) = {<<1>>}
  <2>1. /\ message \in Seq(FieldRead) /\ Len(message) = 1 + n + Len(tail) /\ Len(tail) \in Nat
        /\ Same(message[1], first)
        /\ (\A i \in 1 .. n : message[1 + i].field = four) /\ \A i \in 1 .. Len(tail) : Same(message[1 + n + i], tail[i])
    BY <1>4, <1>6, <1>9 DEF Framed
  <2>2. ASSUME NEW i \in 1 .. Len(message) PROVE message[i].field = 1 <=> i = 1
    <3>1. CASE i = 1
      BY <1>6, <2>1, <3>1 DEF Same
    <3>2. CASE i > 1 /\ i <= 1 + n
      <4> DEFINE j == i - 1
      <4>1. j \in 1 .. n /\ i = 1 + j
        BY <1>1, <3>2
      <4> HIDE DEF j
      <4>2. message[i].field = four
        BY <2>1, <4>1
      <4> QED  BY <1>1, <3>2, <4>2
    <3>3. CASE i > 1 + n
      <4> DEFINE j == i - (1 + n)
      <4>1. j \in 1 .. Len(tail) /\ i = 1 + n + j /\ i # 1
        BY <1>1, <2>1, <3>3
      <4> HIDE DEF j
      <4> QED  BY <1>8, <2>1, <4>1 DEF Same, Lacks
    <3> QED  BY <1>1, <2>1, <3>1, <3>2, <3>3
  <2>3. 1 \in 1 .. Len(message)
    BY <1>1, <2>1
  <2>4. Once(message, 1, message[1])
    BY <2>1, <2>2, <2>3, OnceIs
  <2>5. ~message[1].numeric /\ message[1].bytes = <<1>>
    BY <1>6, <2>1 DEF Same
  <2> QED  BY <2>4, <2>5, GetsBytes
<1> DEFINE R(m) == {[command |-> c, dps |-> d] : c \in Nats!GetInt(m, five), d \in Nats!DecodeValues(m, four),
                                                 e \in Nats!GetBytes(m, 1)}
           r == {[command |-> command, dps |-> dps]}
<1>12. Nats!DecodeStateReport(report) = UNION {R(m) : m \in Nats!Parse(report)}
  BY DEF Nats!DecodeStateReport, four, five
<1>13. R(message) = r
  <2> DEFINE Q(cs, ds, bs) == {[command |-> c, dps |-> d] : c \in cs, d \in ds, e \in bs}
  <2>1. R(message) = Q(Nats!GetInt(message, five), Nats!DecodeValues(message, four), Nats!GetBytes(message, 1))
    OBVIOUS
  <2>2. Q({command}, {dps}, {<<1>>}) = r
    OBVIOUS
  <2> HIDE DEF Q, R, r
  <2> QED  BY <1>9, <1>10, <1>11, <2>1, <2>2
<1>14. Nats!Parse(report) = {message}
  BY <1>5, <1>9
<1> HIDE DEF R, report, r
<1>15. Nats!DecodeStateReport(report) = r
  BY <1>12, <1>13, <1>14
<1> QED  BY <1>15 DEF report, r

\* Fields before datapoints, and nothing behind them.
Headed(message, head, field, dps, n) ==
    /\ Nats!Parse(Written(head) \o Nats!Values(field, dps)) = {message}
    /\ Framed(message, head, field, n, <<>>)
    /\ Nats!DecodeValues(message, field) = {dps}

\* Such a message is read.
LEMMA NumbersBefore ==
    ASSUME NEW head \in Seq(Fields), NEW dps, NEW n, AreDps(dps, n), NEW field \in FieldNumber, Lacks(head, field)
    PROVE  \E message : Headed(message, head, field, dps, n)
<1> DEFINE tail == <<>>
           values == Nats!Values(field, dps)
           both == Written(head) \o values
<1>1. tail \in Seq(Fields) /\ Lacks(tail, field)
  <2>1. Len(tail) = 0
    OBVIOUS
  <2> HIDE DEF tail
  <2>2. Lacks(tail, field)
    BY <2>1 DEF Lacks
  <2> QED  BY <2>2 DEF tail
<1>2. Written(tail) = <<>>
  <2>1. NumberField(field, 0) \in Fields
    <3>1. 0 \in Number
      <4>1. 0 \in 0 .. 100
        OBVIOUS
      <4> QED  BY <4>1, SmallNumbers
    <3> QED  BY <3>1, NumberFieldIs
  <2> QED  BY <2>1, WrittenAlone
<1>3. both \in Seq(Byte)
  <2>1. values \in Seq(Byte)
    BY DpsAreBytes
  <2>2. Written(head) \in Seq(Byte)
    BY WrittenTogether
  <2> HIDE DEF values
  <2> QED  BY <2>1, <2>2
<1>4. both \o <<>> = both
  <2> HIDE DEF both
  <2> QED  BY <1>3
<1> HIDE DEF tail
<1>5. PICK message :
        /\ Nats!Parse((Written(head) \o Nats!Values(field, dps)) \o Written(tail)) = {message}
        /\ Framed(message, head, field, n, tail)
        /\ Nats!DecodeValues(message, field) = {dps}
  BY <1>1, AmongOthers
<1>6. Nats!Parse(both) = {message}
  BY <1>2, <1>4, <1>5 DEF both, values
<1> QED  BY <1>5, <1>6 DEF tail, both, values, Headed

AtOnly(head, k, other, num) ==
    /\ k \in 1 .. Len(head) /\ head[k] = NumberField(other, num)
    /\ \A i \in 1 .. Len(head) : i # k => head[i].field # other

\* A number before them is found.
LEMMA InHeadIs ==
    ASSUME NEW head \in Seq(Fields), NEW dps, NEW n \in Nat, NEW message, NEW field, Headed(message, head, field, dps, n),
           NEW other, other # field, NEW num, NEW k, AtOnly(head, k, other, num)
    PROVE  Nats!GetInt(message, other) = {num}
<1> DEFINE tail == <<>>
<1>1. tail \in Seq(Fields) /\ Framed(message, head, field, n, tail)
  BY DEF Headed
<1>2. Lacks(tail, other)
  <2>1. Len(tail) = 0
    OBVIOUS
  <2> HIDE DEF tail
  <2> QED  BY <2>1 DEF Lacks
<1> HIDE DEF tail
<1>3. InHead(message, head, field, n, tail, other, k, num)
  BY <1>2 DEF InHead, AtOnly
<1> QED  BY <1>1, <1>3, FoundInHead

\* Three numbers before datapoints.
ReadOfThree(message, a, x, b, y, c, z, d, dps) ==
    /\ Nats!Parse(((Nats!EncodeVarint(a, x) \o Nats!EncodeVarint(b, y)) \o Nats!EncodeVarint(c, z))
                    \o Nats!Values(d, dps)) = {message}
    /\ Nats!GetInt(message, a) = {x} /\ Nats!GetInt(message, b) = {y} /\ Nats!GetInt(message, c) = {z}
    /\ Nats!DecodeValues(message, d) = {dps}

\* All three are found.
LEMMA ThreeBefore ==
    ASSUME NEW a \in FieldNumber, NEW b \in FieldNumber, NEW c \in FieldNumber, NEW d \in FieldNumber,
           a # b, a # c, b # c, d # a, d # b, d # c,
           NEW x \in Number, NEW y \in Number, NEW z \in Number, NEW dps, NEW n, AreDps(dps, n)
    PROVE  \E message : ReadOfThree(message, a, x, b, y, c, z, d, dps)
<1> DEFINE u == NumberField(a, x)
           v == NumberField(b, y)
           w == NumberField(c, z)
           head == (<<u>> \o <<v>>) \o <<w>>
<1>1. /\ u \in Fields /\ v \in Fields /\ w \in Fields /\ u.field = a /\ v.field = b /\ w.field = c
      /\ Encoded(u) = Nats!EncodeVarint(a, x) /\ Encoded(v) = Nats!EncodeVarint(b, y)
      /\ Encoded(w) = Nats!EncodeVarint(c, z)
  BY NumberFieldIs DEF NumberField
<1> HIDE DEF u, v, w
<1>2. head \in Seq(Fields) /\ Len(head) = 3
      /\ head[1] = u /\ head[2] = v /\ head[3] = w
  <2>1. <<u>> \in Seq(Fields) /\ <<v>> \in Seq(Fields) /\ <<w>> \in Seq(Fields)
    BY <1>1
  <2> QED  BY <2>1
<1>3. Written(head) = (Encoded(u) \o Encoded(v)) \o Encoded(w)
  <2>1. /\ <<u>> \in Seq(Fields) /\ <<v>> \in Seq(Fields) /\ <<w>> \in Seq(Fields)
        /\ Written(<<u>>) = Encoded(u) /\ Written(<<v>>) = Encoded(v) /\ Written(<<w>>) = Encoded(w)
    BY <1>1, WrittenAlone
  <2>2. <<u>> \o <<v>> \in Seq(Fields) /\ Written(<<u>> \o <<v>>) = Encoded(u) \o Encoded(v)
    BY <2>1, WrittenTogether
  <2>3. Written((<<u>> \o <<v>>) \o <<w>>) = Written(<<u>> \o <<v>>) \o Written(<<w>>)
    BY <2>1, <2>2, WrittenTogether
  <2> QED  BY <2>1, <2>2, <2>3
<1> HIDE DEF head
<1>4. \A i \in 1 .. Len(head) : i = 1 \/ i = 2 \/ i = 3
  BY <1>2
<1>5. Lacks(head, d)
  BY <1>1, <1>2, <1>4 DEF Lacks
<1>6. PICK message : Headed(message, head, d, dps, n)
  BY <1>2, <1>5, NumbersBefore
<1>7. n \in Nat /\ head \in Seq(Fields) /\ Nats!Parse(Written(head) \o Nats!Values(d, dps)) = {message}
      /\ Framed(message, head, d, n, <<>>) /\ Nats!DecodeValues(message, d) = {dps}
  BY <1>2, <1>6 DEF AreDps, Headed
<1>8. Nats!GetInt(message, a) = {x}
  <2> DEFINE k == 1
  <2>1. AtOnly(head, k, a, x)
    BY <1>1, <1>2, <1>4 DEF u, AtOnly
  <2> HIDE DEF k
  <2> QED  BY <1>6, <1>7, <2>1, InHeadIs
<1>9. Nats!GetInt(message, b) = {y}
  <2> DEFINE k == 2
  <2>1. AtOnly(head, k, b, y)
    BY <1>1, <1>2, <1>4 DEF v, AtOnly
  <2> HIDE DEF k
  <2> QED  BY <1>6, <1>7, <2>1, InHeadIs
<1>10. Nats!GetInt(message, c) = {z}
  <2> DEFINE k == 3
  <2>1. AtOnly(head, k, c, z)
    BY <1>1, <1>2, <1>4 DEF w, AtOnly
  <2> HIDE DEF k
  <2> QED  BY <1>6, <1>7, <2>1, InHeadIs
<1> QED  BY <1>1, <1>3, <1>7, <1>8, <1>9, <1>10 DEF ReadOfThree

\* Two of them.
ReadOfTwo(message, a, x, b, y, d, dps) ==
    /\ Nats!Parse((Nats!EncodeVarint(a, x) \o Nats!EncodeVarint(b, y)) \o Nats!Values(d, dps)) = {message}
    /\ Nats!GetInt(message, a) = {x} /\ Nats!DecodeValues(message, d) = {dps}

\* The first is found.
LEMMA TwoBefore ==
    ASSUME NEW a \in FieldNumber, NEW b \in FieldNumber, NEW d \in FieldNumber, a # b, d # a, d # b,
           NEW x \in Number, NEW y \in Number, NEW dps, NEW n, AreDps(dps, n)
    PROVE  \E message : ReadOfTwo(message, a, x, b, y, d, dps)
<1> DEFINE u == NumberField(a, x)
           v == NumberField(b, y)
           head == <<u>> \o <<v>>
<1>1. /\ u \in Fields /\ v \in Fields /\ u.field = a /\ v.field = b
      /\ Encoded(u) = Nats!EncodeVarint(a, x) /\ Encoded(v) = Nats!EncodeVarint(b, y)
  BY NumberFieldIs DEF NumberField
<1> HIDE DEF u, v
<1>2. head \in Seq(Fields) /\ Len(head) = 2 /\ head[1] = u /\ head[2] = v
  <2>1. <<u>> \in Seq(Fields) /\ <<v>> \in Seq(Fields)
    BY <1>1
  <2> QED  BY <2>1
<1>3. Written(head) = Encoded(u) \o Encoded(v)
  <2>1. /\ <<u>> \in Seq(Fields) /\ <<v>> \in Seq(Fields)
        /\ Written(<<u>>) = Encoded(u) /\ Written(<<v>>) = Encoded(v)
    BY <1>1, WrittenAlone
  <2>2. Written(<<u>> \o <<v>>) = Encoded(u) \o Encoded(v)
    BY <2>1, WrittenTogether
  <2> QED  BY <2>2
<1> HIDE DEF head
<1>4. \A i \in 1 .. Len(head) : i = 1 \/ i = 2
  BY <1>2
<1>5. Lacks(head, d)
  BY <1>1, <1>2, <1>4 DEF Lacks
<1>6. PICK message : Headed(message, head, d, dps, n)
  BY <1>2, <1>5, NumbersBefore
<1>7. n \in Nat /\ head \in Seq(Fields) /\ Nats!Parse(Written(head) \o Nats!Values(d, dps)) = {message}
      /\ Framed(message, head, d, n, <<>>) /\ Nats!DecodeValues(message, d) = {dps}
  BY <1>2, <1>6 DEF AreDps, Headed
<1>8. Nats!GetInt(message, a) = {x}
  <2> DEFINE k == 1
  <2>1. AtOnly(head, k, a, x)
    BY <1>1, <1>2, <1>4 DEF u, AtOnly
  <2> HIDE DEF k
  <2> QED  BY <1>6, <1>7, <2>1, InHeadIs
<1> QED  BY <1>1, <1>3, <1>7, <1>8 DEF ReadOfTwo

\* The command and the values that are read of a request.
ReadsRequest(bytes, command, values) ==
    \E message :
      /\ Nats!Parse(bytes) = {message}
      /\ Nats!GetInt(message, 2) = {command} /\ Nats!DecodeValues(message, 4) = {values}

\* encode_update_request (datapoints.py:135-143): of a request that is written the breezer reads the command
\* and the values that the client asks for, in their order.
THEOREM RequestsAreRead ==
    ASSUME NEW command \in Number, NEW time \in Number, NEW values, NEW n, AreDps(values, n)
    PROVE  ReadsRequest(Nats!EncodeUpdateRequest(command, time, values), command, values)
<1> DEFINE two == 2
           three == 3
           four == 4
<1>1. two \in FieldNumber /\ three \in FieldNumber /\ four \in FieldNumber
      /\ two # three /\ four # two /\ four # three
  <2>1. two \in 0 .. 100 /\ three \in 0 .. 100 /\ four \in 0 .. 100
    OBVIOUS
  <2> QED  BY <2>1, SmallNumbers
<1>2. Nats!EncodeUpdateRequest(command, time, values) =
        (Nats!EncodeVarint(two, command) \o Nats!EncodeVarint(three, time)) \o Nats!Values(four, values)
  BY DEF Nats!EncodeUpdateRequest, Nats!Values
<1> HIDE DEF two, three, four
<1>3. PICK message : ReadOfTwo(message, two, command, three, time, four, values)
  BY <1>1, TwoBefore
<1>4. /\ Nats!Parse(Nats!EncodeUpdateRequest(command, time, values)) = {message}
      /\ Nats!GetInt(message, two) = {command} /\ Nats!DecodeValues(message, four) = {values}
  BY <1>2, <1>3 DEF ReadOfTwo
<1> QED  BY <1>4 DEF ReadsRequest, two, four

\* decode_update_response (datapoints.py:156-165): of an answer the client reads the command it answers,
\* whether it was done, and the datapoints as they are now.
THEOREM ResponsesAreRead ==
    ASSUME NEW command \in Number, NEW success \in BOOLEAN, NEW dps, NEW n, AreDps(dps, n)
    PROVE  Nats!DecodeUpdateResponse(Nats!Response(command, success, dps)) =
             {[command |-> command, success |-> success, dps |-> dps]}
<1> DEFINE two == 2
           three == 3
           four == 4
           six == 6
           x == IF success THEN 1 ELSE 0
           y == IF success THEN 0 ELSE 7
           response == Nats!Response(command, success, dps)
<1>1. two \in FieldNumber /\ three \in FieldNumber /\ four \in FieldNumber /\ six \in FieldNumber
      /\ two # three /\ two # four /\ three # four /\ six # two /\ six # three /\ six # four
  <2>1. two \in 0 .. 100 /\ three \in 0 .. 100 /\ four \in 0 .. 100 /\ six \in 0 .. 100
    OBVIOUS
  <2> QED  BY <2>1, SmallNumbers
<1>2. x \in Number /\ y \in Number
  <2>1. x \in 0 .. 100 /\ y \in 0 .. 100
    OBVIOUS
  <2> HIDE DEF x, y
  <2> QED  BY <2>1, SmallNumbers
<1>3. response = ((Nats!EncodeVarint(two, command) \o Nats!EncodeVarint(three, x)) \o Nats!EncodeVarint(four, y))
                   \o Nats!Values(six, dps)
  BY DEF Nats!Response
<1>4. {value # 0 : value \in {x}} = {success}
  OBVIOUS
<1> DEFINE R(m) == {[command |-> c, success |-> s, dps |-> d] : c \in Nats!GetInt(m, two),
                      s \in Nats!GetBool(m, three), error \in Nats!GetInt(m, four), d \in Nats!DecodeValues(m, six)}
           r == {[command |-> command, success |-> success, dps |-> dps]}
<1>5. Nats!DecodeUpdateResponse(response) = UNION {R(m) : m \in Nats!Parse(response)}
  BY DEF Nats!DecodeUpdateResponse
<1> HIDE DEF two, three, four, six, x, y
<1>6. PICK message : ReadOfThree(message, two, command, three, x, four, y, six, dps)
  BY <1>1, <1>2, ThreeBefore
<1>7. Nats!GetBool(message, three) = {success}
  BY <1>4, <1>6 DEF Nats!GetBool, ReadOfThree
<1>8. R(message) = r
  <2> DEFINE Q(cs, ss, es, ds) == {[command |-> c, success |-> s, dps |-> d] : c \in cs, s \in ss, error \in es, d \in ds}
  <2>1. R(message) = Q(Nats!GetInt(message, two), Nats!GetBool(message, three), Nats!GetInt(message, four),
                       Nats!DecodeValues(message, six))
    OBVIOUS
  <2>2. Q({command}, {success}, {y}, {dps}) = r
    OBVIOUS
  <2> HIDE DEF Q, R, r
  <2> QED  BY <1>6, <1>7, <2>1, <2>2 DEF ReadOfThree
<1>9. Nats!Parse(response) = {message}
  BY <1>3, <1>6 DEF ReadOfThree
<1> HIDE DEF R, r, response
<1>10. Nats!DecodeUpdateResponse(response) = r
  BY <1>5, <1>8, <1>9
<1> QED  BY <1>10 DEF response, r

=============================================================================
