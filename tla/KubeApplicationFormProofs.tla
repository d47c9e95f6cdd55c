---------------------- MODULE KubeApplicationFormProofs ----------------------
(***************************************************************************)
(* What the functions over rows and routes of KubeApplicationForm compute, *)
(* for lists of any length.  Each is a recursive function over the natural *)
(* numbers; that one exists, and what it has at every number, follows from *)
(* NatCovered, which is stated with a set because the provers cannot       *)
(* instantiate an operator.                                                *)
(***************************************************************************)
EXTENDS KubeApplicationForm, WellFoundedInduction, SequenceTheorems, TLAPS

LEMMA Smallest ==
  ASSUME NEW T \in SUBSET Nat, T # {}
  PROVE  \E n \in T : \A m \in T : n <= m
<1>1. IsWellFoundedOn(OpToRel(<, Nat), Nat)
  BY NatLessThanWellFounded
<1>2. \A m, n \in Nat : <<m, n>> \in OpToRel(<, Nat) <=> m < n
  BY DEF OpToRel
<1>3. PICK n \in T : \A m \in T : ~(<<m, n>> \in OpToRel(<, Nat))
  BY <1>1, WFMin
<1>4. \A m \in T : ~(m < n)
  BY <1>2, <1>3
<1> QED BY <1>4

LEMMA NatCovered ==
  ASSUME NEW T, 0 \in T, \A n \in Nat : n \in T => n + 1 \in T
  PROVE  Nat \subseteq T
<1> SUFFICES ASSUME Nat \ T # {} PROVE FALSE
  OBVIOUS
<1>1. PICK n \in Nat \ T : \A m \in Nat \ T : n <= m
  BY Smallest
<1>2. n # 0 /\ n - 1 \in Nat
  BY <1>1
<1>3. n - 1 \in T
  BY <1>1, <1>2
<1> QED BY <1>1, <1>2, <1>3

LEMMA UpTo ==
  ASSUME NEW T, NEW N, N \in Nat, 0 \in T, \A n \in 1 .. N : n - 1 \in T => n \in T
  PROVE  N \in T
<1> DEFINE U == {k \in Nat : k <= N => k \in T}
<1>1. 0 \in U
  OBVIOUS
<1>2. ASSUME NEW k \in Nat, k \in U PROVE k + 1 \in U
  <2>1. CASE k + 1 <= N
    <3>1. k + 1 \in 1 .. N /\ (k + 1) - 1 = k /\ k \in T
      BY <1>2, <2>1
    <3> QED BY <3>1
  <2> QED BY <2>1
<1>3. Nat \subseteq U
  BY <1>1, <1>2, NatCovered
<1> QED BY <1>3

-----------------------------------------------------------------------------
(* Lists.                                                                  *)

IsSeq(s) == \E S : s \in Seq(S)

LEMMA SeqFacts ==
  ASSUME NEW s, IsSeq(s)
  PROVE  /\ Len(s) \in Nat /\ DOMAIN s = 1 .. Len(s)
         /\ ToSet(s) = {s[i] : i \in 1 .. Len(s)} /\ s \in Seq(ToSet(s))
         /\ s = <<>> <=> Len(s) = 0
<1>1. PICK S : s \in Seq(S)
  BY DEF IsSeq
<1>2. Len(s) \in Nat /\ DOMAIN s = 1 .. Len(s)
  BY <1>1
<1>3. ToSet(s) = {s[i] : i \in 1 .. Len(s)}
  BY <1>2 DEF ToSet
<1>4. s \in Seq(ToSet(s))
  BY <1>1, <1>3
<1>5. s = <<>> <=> Len(s) = 0
  BY <1>1
<1> QED BY <1>2, <1>3, <1>4, <1>5

LEMMA ToSetFacts ==
  ASSUME NEW s, IsSeq(s), NEW e
  PROVE  e \in ToSet(s) <=> \E i \in 1 .. Len(s) : s[i] = e
<1>1. ToSet(s) = {s[i] : i \in 1 .. Len(s)}
  BY SeqFacts
<1> QED BY <1>1

LEMMA SeqsEqual ==
  ASSUME NEW s, NEW t, IsSeq(s), IsSeq(t), Len(s) = Len(t), \A i \in 1 .. Len(s) : s[i] = t[i]
  PROVE  s = t
<1>1. PICK S : s \in Seq(S)
  BY DEF IsSeq
<1>2. PICK T : t \in Seq(T)
  BY DEF IsSeq
<1> QED BY <1>1, <1>2

LEMMA AppendFacts ==
  ASSUME NEW s, IsSeq(s), NEW e
  PROVE  /\ IsSeq(Append(s, e)) /\ Len(Append(s, e)) = Len(s) + 1
         /\ Append(s, e)[Len(s) + 1] = e
         /\ \A i \in 1 .. Len(s) : Append(s, e)[i] = s[i]
         /\ ToSet(Append(s, e)) = ToSet(s) \cup {e}
<1>1. PICK S : s \in Seq(S)
  BY DEF IsSeq
<1>2. s \in Seq(S \cup {e}) /\ e \in S \cup {e}
  BY <1>1
<1>3. Append(s, e) \in Seq(S \cup {e})
  BY <1>2
<1>4. /\ Len(Append(s, e)) = Len(s) + 1 /\ Append(s, e)[Len(s) + 1] = e
      /\ \A i \in 1 .. Len(s) : Append(s, e)[i] = s[i]
  BY <1>2
<1>5. IsSeq(Append(s, e))
  BY <1>3 DEF IsSeq
<1>6. ToSet(Append(s, e)) = ToSet(s) \cup {e}
  <2>1. ASSUME NEW d PROVE d \in ToSet(Append(s, e)) <=> d \in ToSet(s) \/ d = e
    <3>1. Len(s) \in Nat
      BY SeqFacts
    <3>a. \A t : IsSeq(t) => (d \in ToSet(t) <=> \E i \in 1 .. Len(t) : t[i] = d)
      BY ToSetFacts
    <3>2. d \in ToSet(Append(s, e)) <=> \E i \in 1 .. Len(s) + 1 : Append(s, e)[i] = d
      BY <1>4, <1>5, <3>a, Zenon
    <3>3. d \in ToSet(s) <=> \E i \in 1 .. Len(s) : s[i] = d
      BY ToSetFacts
    <3> QED BY <1>4, <3>1, <3>2, <3>3
  <2> QED BY <2>1
<1> QED BY <1>4, <1>5, <1>6

LEMMA EmptyFacts == IsSeq(<<>>) /\ Len(<<>>) = 0 /\ ToSet(<<>>) = {}
<1>1. <<>> \in Seq({})
  OBVIOUS
<1>2. IsSeq(<<>>) /\ Len(<<>>) = 0
  BY <1>1 DEF IsSeq
<1>3. \A e : e \notin ToSet(<<>>)
  BY <1>2, ToSetFacts
<1> QED BY <1>2, <1>3

LEMMA ConcatFacts ==
  ASSUME NEW s, NEW t, IsSeq(s), IsSeq(t)
  PROVE  /\ IsSeq(s \o t) /\ Len(s \o t) = Len(s) + Len(t)
         /\ \A i \in 1 .. Len(s) : (s \o t)[i] = s[i]
         /\ \A i \in 1 .. Len(t) : (s \o t)[Len(s) + i] = t[i]
         /\ ToSet(s \o t) = ToSet(s) \cup ToSet(t)
<1>1. PICK S : s \in Seq(S)
  BY DEF IsSeq
<1>2. PICK T : t \in Seq(T)
  BY DEF IsSeq
<1>3. s \in Seq(S \cup T) /\ t \in Seq(S \cup T)
  BY <1>1, <1>2
<1>4. s \o t \in Seq(S \cup T) /\ Len(s \o t) = Len(s) + Len(t)
  BY <1>3
<1>5. /\ \A i \in 1 .. Len(s) : (s \o t)[i] = s[i]
      /\ \A i \in 1 .. Len(t) : (s \o t)[Len(s) + i] = t[i]
  BY <1>3
<1>6. IsSeq(s \o t)
  BY <1>4 DEF IsSeq
<1>7. /\ Len(s) \in Nat /\ Len(t) \in Nat
      /\ \A i \in 1 .. Len(s) + Len(t) : i \notin 1 .. Len(s) => i - Len(s) \in 1 .. Len(t) /\ i = Len(s) + (i - Len(s))
  BY SeqFacts
<1>8. ToSet(s \o t) = ToSet(s) \cup ToSet(t)
  <2>1. ASSUME NEW e PROVE e \in ToSet(s \o t) <=> e \in ToSet(s) \/ e \in ToSet(t)
    <3>1. /\ e \in ToSet(s) <=> \E i \in 1 .. Len(s) : s[i] = e
          /\ e \in ToSet(t) <=> \E i \in 1 .. Len(t) : t[i] = e
      BY ToSetFacts
    <3>2. e \in ToSet(s \o t) <=> \E i \in 1 .. Len(s) + Len(t) : (s \o t)[i] = e
      BY <1>4, <1>6, ToSetFacts
    <3>3. /\ \A i \in 1 .. Len(s) : i \in 1 .. Len(s) + Len(t)
          /\ \A i \in 1 .. Len(t) : Len(s) + i \in 1 .. Len(s) + Len(t)
      BY <1>7
    <3>4. e \in ToSet(s) \/ e \in ToSet(t) => e \in ToSet(s \o t)
      BY <1>5, <3>1, <3>2, <3>3
    <3>5. ASSUME NEW i \in 1 .. Len(s) + Len(t), (s \o t)[i] = e PROVE e \in ToSet(s) \/ e \in ToSet(t)
      <4>1. CASE i \in 1 .. Len(s)
        BY <1>5, <3>1, <3>5, <4>1
      <4>2. CASE i \notin 1 .. Len(s)
        <5>1. PICK j \in 1 .. Len(t) : i = Len(s) + j
          BY <1>7, <4>2
        <5> QED BY <1>5, <3>1, <3>5, <5>1
      <4> QED BY <4>1, <4>2
    <3> QED BY <3>2, <3>4, <3>5
  <2> QED BY <2>1
<1> QED BY <1>4, <1>5, <1>6, <1>8

-----------------------------------------------------------------------------
(* Recursive functions over the natural numbers up to one: there is one,   *)
(* and only one.                                                           *)

IsStep(F, V) == F \in [Nat \X V -> V]

Computes(f, base, F, V, N) ==
  f \in [0 .. N -> V] /\ f[0] = base /\ \A n \in 1 .. N : f[n] = F[<<n, f[n - 1]>>]

ComputesWithin(g, base, F, V, N) ==
  g[0] = base /\ \A n \in 1 .. N : g[n - 1] \in V => g[n] = F[<<n, g[n - 1]>>]

LEMMA Recursion ==
  ASSUME NEW V, NEW base, base \in V, NEW F, IsStep(F, V), NEW N, N \in Nat
  PROVE  \E f : Computes(f, base, F, V, N)
<1> USE DEF IsStep
<1> DEFINE Good(f, k) == f \in [0 .. k -> V] /\ f[0] = base /\ \A n \in 1 .. k : f[n] = F[<<n, f[n - 1]>>]
           T == {k \in Nat : \E f : Good(f, k)}
<1>1. 0 \in T
  <2>1. Good([n \in 0 .. 0 |-> base], 0)
    OBVIOUS
  <2> HIDE DEF Good
  <2> QED BY <2>1
<1>2. ASSUME NEW k \in Nat, k \in T PROVE k + 1 \in T
  <2>1. PICK f : Good(f, k)
    BY <1>2
  <2> DEFINE g == [n \in 0 .. k + 1 |-> IF n = k + 1 THEN F[<<k + 1, f[k]>>] ELSE f[n]]
  <2>2. /\ \A n \in 0 .. k : g[n] = f[n]
        /\ g[k + 1] = F[<<k + 1, f[k]>>]
    OBVIOUS
  <2>3. g \in [0 .. k + 1 -> V]
    <3>1. f[k] \in V /\ F[<<k + 1, f[k]>>] \in V
      BY <2>1
    <3> QED BY <2>1, <3>1
  <2> HIDE DEF g
  <2>4. ASSUME NEW n \in 1 .. k + 1 PROVE g[n] = F[<<n, g[n - 1]>>]
    <3>1. n - 1 \in 0 .. k /\ (n = k + 1 => n - 1 = k) /\ (n # k + 1 => n \in 1 .. k)
      OBVIOUS
    <3> QED BY <2>1, <2>2, <3>1
  <2>5. g[0] = base
    BY <2>1, <2>2
  <2>6. Good(g, k + 1)
    BY <2>3, <2>4, <2>5
  <2> HIDE DEF Good
  <2> QED BY <2>6, k + 1 \in Nat
<1>3. N \in T
  BY <1>1, <1>2, NatCovered
<1>4. PICK f : Good(f, N)
  BY <1>3
<1> QED BY <1>4 DEF Computes

LEMMA SameRecursion ==
  ASSUME NEW V, NEW base, base \in V, NEW F, IsStep(F, V), NEW N, N \in Nat,
         NEW f, Computes(f, base, F, V, N), NEW g, ComputesWithin(g, base, F, V, N)
  PROVE  g[N] = f[N]
<1> USE DEF IsStep, Computes, ComputesWithin
<1> DEFINE T == {k \in Nat : k <= N => g[k] = f[k]}
<1>1. 0 \in T
  OBVIOUS
<1>2. ASSUME NEW k \in Nat, k \in T PROVE k + 1 \in T
  <2>1. CASE k + 1 <= N
    <3>1. g[k] = f[k] /\ f[k] \in V /\ k + 1 \in 1 .. N /\ (k + 1) - 1 = k
      BY <1>2, <2>1
    <3>2. g[k + 1] = F[<<k + 1, f[k]>>] /\ f[k + 1] = F[<<k + 1, f[k]>>]
      BY <3>1
    <3> QED BY <3>2
  <2> QED BY <2>1
<1>3. Nat \subseteq T
  BY <1>1, <1>2, NatCovered
<1> QED BY <1>3

-----------------------------------------------------------------------------
(* Among: the part of a list that is in a set.                             *)

AmongBy(f, s, S) ==
  /\ Among(s, S) = f[Len(s)] /\ f[0] = <<>> /\ f \in [0 .. Len(s) -> Seq(ToSet(s))]
  /\ \A n \in 1 .. Len(s) : f[n] = IF s[n] \in S THEN Append(f[n - 1], s[n]) ELSE f[n - 1]

LEMMA AmongSteps ==
  ASSUME NEW s, IsSeq(s), NEW S
  PROVE  \E f : AmongBy(f, s, S)
<1> DEFINE N == Len(s)
           V == Seq(ToSet(s))
           F == [p \in Nat \X V |-> IF p[1] \in 1 .. N /\ s[p[1]] \in S THEN Append(p[2], s[p[1]]) ELSE p[2]]
           base == <<>>
           g == CHOOSE g : g = [n \in 0 .. N |->
                  IF n = 0 THEN <<>> ELSE IF s[n] \in S THEN Append(g[n - 1], s[n]) ELSE g[n - 1]]
<1>1. N \in Nat /\ \A n \in 1 .. N : s[n] \in ToSet(s)
  BY SeqFacts, ToSetFacts
<1>2. base \in V /\ IsStep(F, V)
  BY <1>1 DEF IsStep
<1>3. \A n \in 1 .. N, v \in V : F[<<n, v>>] = IF s[n] \in S THEN Append(v, s[n]) ELSE v
  BY <1>1
<1>4. Among(s, S) = g[N]
  BY Zenon DEF Among
<1> HIDE DEF N, V, F, base, g
<1>a. PICK f : Computes(f, base, F, V, N)
  BY <1>1, <1>2, Recursion
<1>5. f \in [0 .. N -> V] /\ f[0] = <<>> /\ \A n \in 1 .. N : f[n] = F[<<n, f[n - 1]>>]
  BY <1>a DEF Computes, base
<1>6. \A n \in 1 .. N : f[n] = IF s[n] \in S THEN Append(f[n - 1], s[n]) ELSE f[n - 1]
  <2>1. \A n \in 1 .. N : f[n - 1] \in V
    BY <1>1, <1>5
  <2> QED BY <1>3, <1>5, <2>1
<1>7. f = [n \in 0 .. N |-> IF n = 0 THEN <<>> ELSE IF s[n] \in S THEN Append(f[n - 1], s[n]) ELSE f[n - 1]]
  <2>1. \A n \in 0 .. N : f[n] = IF n = 0 THEN <<>> ELSE IF s[n] \in S THEN Append(f[n - 1], s[n]) ELSE f[n - 1]
    <3>1. \A n \in 0 .. N : n = 0 \/ n \in 1 .. N
      BY <1>1
    <3>2. \A n \in 1 .. N : n # 0
      BY <1>1
    <3> QED BY <1>5, <1>6, <3>1, <3>2
  <2> QED BY <1>5, <2>1
<1>8. g = [n \in 0 .. N |-> IF n = 0 THEN <<>> ELSE IF s[n] \in S THEN Append(g[n - 1], s[n]) ELSE g[n - 1]]
  BY <1>7, Zenon DEF g
<1>9. ComputesWithin(g, base, F, V, N)
  <2>1. \A n \in 0 .. N : g[n] = IF n = 0 THEN <<>> ELSE IF s[n] \in S THEN Append(g[n - 1], s[n]) ELSE g[n - 1]
    BY <1>8
  <2> QED BY <1>1, <1>3, <2>1 DEF ComputesWithin, base
<1>10. g[N] = f[N]
  BY <1>1, <1>2, <1>a, <1>9, SameRecursion
<1> QED BY <1>4, <1>5, <1>6, <1>10 DEF N, V, AmongBy

LEMMA AmongElements ==
  ASSUME NEW s, IsSeq(s), NEW S
  PROVE  IsSeq(Among(s, S)) /\ \A e : e \in ToSet(Among(s, S)) <=> e \in ToSet(s) /\ e \in S
<1>a. PICK f : AmongBy(f, s, S)
  BY AmongSteps
<1>1. /\ Among(s, S) = f[Len(s)] /\ f[0] = <<>> /\ f \in [0 .. Len(s) -> Seq(ToSet(s))]
      /\ \A n \in 1 .. Len(s) : f[n] = IF s[n] \in S THEN Append(f[n - 1], s[n]) ELSE f[n - 1]
  BY <1>a DEF AmongBy
<1>2. Len(s) \in Nat
  BY SeqFacts
<1>3. \A n \in 0 .. Len(s) : IsSeq(f[n])
  BY <1>1 DEF IsSeq
<1> DEFINE T == {n \in 0 .. Len(s) : \A e : e \in ToSet(f[n]) <=> e \in S /\ \E i \in 1 .. n : s[i] = e}
<1>4. 0 \in T
  BY <1>1, <1>2, EmptyFacts
<1>5. ASSUME NEW n \in 1 .. Len(s), n - 1 \in T PROVE n \in T
  <2>1. n \in 0 .. Len(s) /\ n - 1 \in 0 .. Len(s)
    BY <1>2
  <2>2. ASSUME NEW e PROVE e \in ToSet(f[n]) <=> e \in S /\ \E i \in 1 .. n : s[i] = e
    <3>1. e \in ToSet(f[n - 1]) <=> e \in S /\ \E i \in 1 .. n - 1 : s[i] = e
      BY <1>5
    <3>2. \A i : i \in 1 .. n <=> i \in 1 .. n - 1 \/ i = n
      BY <1>2
    <3>3. CASE s[n] \in S
      <4>1. ToSet(f[n]) = ToSet(f[n - 1]) \cup {s[n]}
        <5>1. f[n] = Append(f[n - 1], s[n]) /\ IsSeq(f[n - 1])
          BY <1>1, <1>3, <2>1, <3>3
        <5> QED BY <5>1, AppendFacts
      <4>2. e \in ToSet(f[n]) <=> e \in ToSet(f[n - 1]) \/ e = s[n]
        BY <4>1
      <4>3. (\E i \in 1 .. n : s[i] = e) <=> (\E i \in 1 .. n - 1 : s[i] = e) \/ e = s[n]
        BY <3>2
      <4> QED BY <3>1, <3>3, <4>2, <4>3
    <3>4. CASE s[n] \notin S
      BY <1>1, <3>1, <3>2, <3>4
    <3> QED BY <3>3, <3>4
  <2> QED BY <2>1, <2>2
<1>6. Len(s) \in T
  <2> HIDE DEF T
  <2> QED BY <1>2, <1>4, <1>5, UpTo, Zenon
<1>7. \A e : e \in ToSet(s) <=> \E i \in 1 .. Len(s) : s[i] = e
  BY ToSetFacts
<1>8. \A e : e \in ToSet(Among(s, S)) <=> e \in S /\ \E i \in 1 .. Len(s) : s[i] = e
  BY <1>1, <1>6
<1> QED BY <1>1, <1>2, <1>3, <1>7, <1>8

LEMMA AmongAll ==
  ASSUME NEW s, IsSeq(s), NEW S, \A e \in ToSet(s) : e \in S
  PROVE  Among(s, S) = s
<1>a. PICK f : AmongBy(f, s, S)
  BY AmongSteps
<1>1. /\ Among(s, S) = f[Len(s)] /\ f[0] = <<>> /\ f \in [0 .. Len(s) -> Seq(ToSet(s))]
      /\ \A n \in 1 .. Len(s) : f[n] = IF s[n] \in S THEN Append(f[n - 1], s[n]) ELSE f[n - 1]
  BY <1>a DEF AmongBy
<1>2. Len(s) \in Nat
  BY SeqFacts
<1>3. \A n \in 0 .. Len(s) : IsSeq(f[n])
  BY <1>1 DEF IsSeq
<1> DEFINE T == {n \in 0 .. Len(s) : Len(f[n]) = n /\ \A i \in 1 .. n : f[n][i] = s[i]}
<1>4. 0 \in T
  BY <1>1, <1>2, EmptyFacts
<1>5. ASSUME NEW n \in 1 .. Len(s), n - 1 \in T PROVE n \in T
  <2>1. n \in 0 .. Len(s) /\ n - 1 \in 0 .. Len(s) /\ (n - 1) + 1 = n
    BY <1>2
  <2>2. Len(f[n - 1]) = n - 1 /\ \A i \in 1 .. n - 1 : f[n - 1][i] = s[i]
    BY <1>5
  <2>3. f[n] = Append(f[n - 1], s[n])
    <3>1. s[n] \in ToSet(s)
      BY ToSetFacts
    <3> QED BY <1>1, <3>1
  <2>4. Len(f[n]) = n /\ f[n][n] = s[n] /\ \A i \in 1 .. n - 1 : f[n][i] = f[n - 1][i]
    BY <1>3, <2>1, <2>2, <2>3, AppendFacts
  <2>5. \A i \in 1 .. n : i \in 1 .. n - 1 \/ i = n
    BY <1>2
  <2> QED BY <2>1, <2>2, <2>4, <2>5
<1>6. Len(s) \in T
  <2> HIDE DEF T
  <2> QED BY <1>2, <1>4, <1>5, UpTo, Zenon
<1>7. Len(f[Len(s)]) = Len(s) /\ \A i \in 1 .. Len(s) : f[Len(s)][i] = s[i]
  BY <1>6
<1> QED BY <1>1, <1>2, <1>3, <1>7, SeqsEqual

LEMMA AmongInjective ==
  ASSUME NEW s, IsSeq(s), NEW S, IsInjective(s)
  PROVE  IsInjective(Among(s, S))
<1>a. PICK f : AmongBy(f, s, S)
  BY AmongSteps
<1>1. /\ Among(s, S) = f[Len(s)] /\ f[0] = <<>> /\ f \in [0 .. Len(s) -> Seq(ToSet(s))]
      /\ \A n \in 1 .. Len(s) : f[n] = IF s[n] \in S THEN Append(f[n - 1], s[n]) ELSE f[n - 1]
  BY <1>a DEF AmongBy
<1>2. Len(s) \in Nat /\ DOMAIN s = 1 .. Len(s)
  BY SeqFacts
<1>3. \A n \in 0 .. Len(s) : IsSeq(f[n])
  BY <1>1 DEF IsSeq
<1> DEFINE T == {n \in 0 .. Len(s) : /\ \A i, j \in 1 .. Len(f[n]) : f[n][i] = f[n][j] => i = j
                                     /\ \A i \in 1 .. Len(f[n]) : \E j \in 1 .. n : f[n][i] = s[j]}
<1>4. 0 \in T
  BY <1>1, <1>2, EmptyFacts
<1>5. ASSUME NEW n \in 1 .. Len(s), n - 1 \in T PROVE n \in T
  <2>1. n \in 0 .. Len(s) /\ n - 1 \in 0 .. Len(s) /\ 1 .. n - 1 \subseteq 1 .. n /\ n \notin 1 .. n - 1
    BY <1>2
  <2> DEFINE g == f[n - 1]
  <2>2. /\ \A i, j \in 1 .. Len(g) : g[i] = g[j] => i = j
        /\ \A i \in 1 .. Len(g) : \E j \in 1 .. n - 1 : g[i] = s[j]
    BY <1>5
  <2>3. \A j \in 1 .. n - 1 : s[j] # s[n]
    BY <1>2, <2>1 DEF IsInjective
  <2>4. IsSeq(g) /\ Len(g) \in Nat
    BY <1>3, <2>1, SeqFacts
  <2>5. CASE s[n] \in S
    <3>1. f[n] = Append(g, s[n])
      BY <1>1, <2>5
    <3> HIDE DEF g
    <3>2. /\ Len(f[n]) = Len(g) + 1 /\ f[n][Len(g) + 1] = s[n]
          /\ \A i \in 1 .. Len(g) : f[n][i] = g[i]
      BY <2>4, <3>1, AppendFacts
    <3>3. \A i \in 1 .. Len(f[n]) : i \in 1 .. Len(g) \/ i = Len(g) + 1
      BY <2>4, <3>2
    <3>4. \A i, j \in 1 .. Len(f[n]) : f[n][i] = f[n][j] => i = j
      BY <2>2, <2>3, <3>2, <3>3
    <3>5. \A i \in 1 .. Len(f[n]) : \E j \in 1 .. n : f[n][i] = s[j]
      BY <2>1, <2>2, <3>2, <3>3
    <3> QED BY <2>1, <3>4, <3>5
  <2>6. CASE s[n] \notin S
    <3>1. f[n] = g
      BY <1>1, <2>6
    <3> QED BY <2>1, <2>2, <3>1
  <2> QED BY <2>5, <2>6
<1>6. Len(s) \in T
  <2> HIDE DEF T
  <2> QED BY <1>2, <1>4, <1>5, UpTo, Zenon
<1>7. DOMAIN Among(s, S) = 1 .. Len(Among(s, S))
  BY AmongElements, SeqFacts
<1> QED BY <1>1, <1>6, <1>7 DEF IsInjective

\* A list whose first element is in one set and whose others are in another
Shaped(s, F, R) == IsSeq(s) /\ \A i \in 1 .. Len(s) : s[i] \in IF i = 1 THEN F ELSE R

LEMMA AmongShaped ==
  ASSUME NEW F, NEW R, R \subseteq F, NEW s, Shaped(s, F, R), NEW S
  PROVE  Shaped(Among(s, S), F, R)
<1>0. IsSeq(s) /\ \A i \in 1 .. Len(s) : s[i] \in IF i = 1 THEN F ELSE R
  BY DEF Shaped
<1>a. PICK f : AmongBy(f, s, S)
  BY <1>0, AmongSteps
<1>1. /\ Among(s, S) = f[Len(s)] /\ f[0] = <<>> /\ f \in [0 .. Len(s) -> Seq(ToSet(s))]
      /\ \A n \in 1 .. Len(s) : f[n] = IF s[n] \in S THEN Append(f[n - 1], s[n]) ELSE f[n - 1]
  BY <1>a DEF AmongBy
<1>2. Len(s) \in Nat
  BY <1>0, SeqFacts
<1>3. \A n \in 0 .. Len(s) : IsSeq(f[n])
  BY <1>1 DEF IsSeq
<1> DEFINE T == {n \in 0 .. Len(s) : Len(f[n]) <= n /\ \A i \in 1 .. Len(f[n]) : f[n][i] \in IF i = 1 THEN F ELSE R}
<1>4. 0 \in T
  BY <1>1, <1>2, EmptyFacts
<1>5. ASSUME NEW n \in 1 .. Len(s), n - 1 \in T PROVE n \in T
  <2>1. n \in 0 .. Len(s) /\ n - 1 \in 0 .. Len(s)
    BY <1>2
  <2> DEFINE g == f[n - 1]
  <2>2. Len(g) <= n - 1 /\ \A i \in 1 .. Len(g) : g[i] \in IF i = 1 THEN F ELSE R
    BY <1>5
  <2>3. IsSeq(g) /\ Len(g) \in Nat
    BY <1>3, <2>1, SeqFacts
  <2>4. s[n] \in F /\ (n # 1 => s[n] \in R)
    BY <1>0
  <2>5. CASE s[n] \in S
    <3>1. f[n] = Append(g, s[n])
      BY <1>1, <2>5
    <3> HIDE DEF g
    <3>2. /\ Len(f[n]) = Len(g) + 1 /\ f[n][Len(g) + 1] = s[n]
          /\ \A i \in 1 .. Len(g) : f[n][i] = g[i]
      BY <2>3, <3>1, AppendFacts
    <3>3. \A i \in 1 .. Len(f[n]) : i \in 1 .. Len(g) \/ i = Len(g) + 1
      BY <2>3, <3>2
    <3>4. Len(g) + 1 # 1 => n # 1
      BY <2>2, <2>3
    <3>5. \A i \in 1 .. Len(f[n]) : f[n][i] \in IF i = 1 THEN F ELSE R
      BY <2>2, <2>4, <3>2, <3>3, <3>4
    <3>6. Len(f[n]) <= n
      BY <2>2, <2>3, <3>2
    <3> QED BY <2>1, <3>5, <3>6
  <2>6. CASE s[n] \notin S
    <3>1. f[n] = g
      BY <1>1, <2>6
    <3>2. Len(g) <= n
      BY <2>2, <2>3
    <3> QED BY <2>1, <2>2, <3>1, <3>2
  <2> QED BY <2>5, <2>6
<1>6. Len(s) \in T
  <2> HIDE DEF T
  <2> QED BY <1>2, <1>4, <1>5, UpTo, Zenon
<1>7. IsSeq(Among(s, S))
  BY <1>0, AmongElements
<1> QED BY <1>1, <1>6, <1>7 DEF Shaped

LEMMA AmongFirst ==
  ASSUME NEW s, IsSeq(s), s # <<>>, NEW S, s[1] \in S
  PROVE  Among(s, S) # <<>> /\ Among(s, S)[1] = s[1]
<1>a. PICK f : AmongBy(f, s, S)
  BY AmongSteps
<1>1. /\ Among(s, S) = f[Len(s)] /\ f[0] = <<>> /\ f \in [0 .. Len(s) -> Seq(ToSet(s))]
      /\ \A n \in 1 .. Len(s) : f[n] = IF s[n] \in S THEN Append(f[n - 1], s[n]) ELSE f[n - 1]
  BY <1>a DEF AmongBy
<1>2. Len(s) \in Nat /\ Len(s) # 0
  BY SeqFacts
<1>3. \A n \in 0 .. Len(s) : IsSeq(f[n])
  BY <1>1 DEF IsSeq
<1> DEFINE T == {n \in 0 .. Len(s) : n # 0 => Len(f[n]) >= 1 /\ f[n][1] = s[1]}
<1>4. 0 \in T
  BY <1>2
<1>5. ASSUME NEW n \in 1 .. Len(s), n - 1 \in T PROVE n \in T
  <2>1. n \in 0 .. Len(s) /\ n - 1 \in 0 .. Len(s) /\ n # 0
    BY <1>2
  <2> DEFINE g == f[n - 1]
  <2>2. n # 1 => Len(g) >= 1 /\ g[1] = s[1]
    BY <1>2, <1>5
  <2>3. IsSeq(g) /\ Len(g) \in Nat
    BY <1>3, <2>1, SeqFacts
  <2>4. n = 1 => g = <<>>
    BY <1>1
  <2>5. CASE s[n] \in S
    <3>1. f[n] = Append(g, s[n])
      BY <1>1, <2>5
    <3> HIDE DEF g
    <3>2. /\ Len(f[n]) = Len(g) + 1 /\ f[n][Len(g) + 1] = s[n]
          /\ \A i \in 1 .. Len(g) : f[n][i] = g[i]
      BY <2>3, <3>1, AppendFacts
    <3>3. CASE n = 1
      <4>1. Len(g) = 0
        BY <2>4, <3>3, EmptyFacts
      <4> QED BY <2>1, <3>2, <3>3, <4>1
    <3>4. CASE n # 1
      <4>1. 1 \in 1 .. Len(g)
        BY <2>2, <2>3, <3>4
      <4> QED BY <2>1, <2>2, <2>3, <3>2, <3>4, <4>1
    <3> QED BY <3>3, <3>4
  <2>6. CASE s[n] \notin S
    <3>1. f[n] = g /\ n # 1
      BY <1>1, <2>6
    <3> QED BY <2>1, <2>2, <3>1
  <2> QED BY <2>5, <2>6
<1>6. Len(s) \in T
  <2> HIDE DEF T
  <2> QED BY <1>2, <1>4, <1>5, UpTo, Zenon
<1>7. Len(Among(s, S)) >= 1 /\ Among(s, S)[1] = s[1]
  BY <1>1, <1>2, <1>6
<1>8. Among(s, S) # <<>>
  BY <1>7, EmptyFacts
<1> QED BY <1>7, <1>8

\* Rows marked for deletion are gone, and once they are gone nothing changes any more.
LEMMA KeptFacts ==
  ASSUME NEW rows, IsSeq(rows)
  PROVE  /\ IsSeq(Kept(rows)) /\ Kept(Kept(rows)) = Kept(rows)
         /\ \A r : r \in ToSet(Kept(rows)) <=> r \in ToSet(rows) /\ ~r.del
<1>1. IsSeq(Kept(rows)) /\ \A r : r \in ToSet(Kept(rows)) <=> r \in ToSet(rows) /\ ~r.del
  BY AmongElements DEF Kept
<1> DEFINE k == Kept(rows)
           S == {r \in ToSet(k) : ~r.del}
<1>2. \A r \in ToSet(k) : r \in S
  BY <1>1
<1> HIDE DEF k, S
<1>3. Among(k, S) = k
  BY <1>1, <1>2, AmongAll DEF k
<1>4. Kept(k) = k
  BY <1>3 DEF Kept, S
<1> QED BY <1>1, <1>4 DEF k

-----------------------------------------------------------------------------
(* Uniq: each element of a list once.                                      *)

UniqBy(f, s) ==
  /\ Uniq(s) = f[Len(s)] /\ f[0] = <<>> /\ f \in [0 .. Len(s) -> Seq(ToSet(s))]
  /\ \A n \in 1 .. Len(s) :
       f[n] = IF \E i \in 1 .. n - 1 : s[i] = s[n] THEN f[n - 1] ELSE Append(f[n - 1], s[n])

LEMMA UniqSteps ==
  ASSUME NEW s, IsSeq(s)
  PROVE  \E f : UniqBy(f, s)
<1> DEFINE N == Len(s)
           V == Seq(ToSet(s))
           Met(n) == \E i \in 1 .. n - 1 : s[i] = s[n]
           F == [p \in Nat \X V |-> IF p[1] \in 1 .. N /\ ~Met(p[1]) THEN Append(p[2], s[p[1]]) ELSE p[2]]
           base == <<>>
           g == CHOOSE g : g = [n \in 0 .. N |->
                  IF n = 0 THEN <<>> ELSE IF \E i \in 1 .. n - 1 : s[i] = s[n] THEN g[n - 1] ELSE Append(g[n - 1], s[n])]
<1>1. N \in Nat /\ \A n \in 1 .. N : s[n] \in ToSet(s)
  BY SeqFacts, ToSetFacts
<1> HIDE DEF Met
<1>2. base \in V /\ IsStep(F, V)
  BY <1>1 DEF IsStep
<1>3. \A n \in 1 .. N, v \in V : F[<<n, v>>] = IF Met(n) THEN v ELSE Append(v, s[n])
  BY <1>1
<1>4. Uniq(s) = g[N]
  BY Zenon DEF Uniq
<1> HIDE DEF N, V, F, base, g
<1>a. PICK f : Computes(f, base, F, V, N)
  BY <1>1, <1>2, Recursion
<1>5. f \in [0 .. N -> V] /\ f[0] = <<>> /\ \A n \in 1 .. N : f[n] = F[<<n, f[n - 1]>>]
  BY <1>a DEF Computes, base
<1>6. \A n \in 1 .. N : f[n] = IF Met(n) THEN f[n - 1] ELSE Append(f[n - 1], s[n])
  <2>1. \A n \in 1 .. N : f[n - 1] \in V
    BY <1>1, <1>5
  <2> QED BY <1>3, <1>5, <2>1
<1>7. f = [n \in 0 .. N |-> IF n = 0 THEN <<>> ELSE IF Met(n) THEN f[n - 1] ELSE Append(f[n - 1], s[n])]
  <2>1. \A n \in 0 .. N : f[n] = IF n = 0 THEN <<>> ELSE IF Met(n) THEN f[n - 1] ELSE Append(f[n - 1], s[n])
    <3>1. \A n \in 0 .. N : n = 0 \/ n \in 1 .. N
      BY <1>1
    <3>2. \A n \in 1 .. N : n # 0
      BY <1>1
    <3> QED BY <1>5, <1>6, <3>1, <3>2
  <2> QED BY <1>5, <2>1
<1>8. g = [n \in 0 .. N |-> IF n = 0 THEN <<>> ELSE IF Met(n) THEN g[n - 1] ELSE Append(g[n - 1], s[n])]
  BY <1>7, Zenon DEF g, Met
<1>9. ComputesWithin(g, base, F, V, N)
  <2>1. \A n \in 0 .. N : g[n] = IF n = 0 THEN <<>> ELSE IF Met(n) THEN g[n - 1] ELSE Append(g[n - 1], s[n])
    BY <1>8
  <2> QED BY <1>1, <1>3, <2>1 DEF ComputesWithin, base
<1>10. g[N] = f[N]
  BY <1>1, <1>2, <1>a, <1>9, SameRecursion
<1>11. \A n \in 1 .. N : f[n] = IF \E i \in 1 .. n - 1 : s[i] = s[n] THEN f[n - 1] ELSE Append(f[n - 1], s[n])
  BY <1>6 DEF Met
<1> QED BY <1>4, <1>5, <1>10, <1>11 DEF N, V, UniqBy

LEMMA UniqFacts ==
  ASSUME NEW s, IsSeq(s)
  PROVE  IsSeq(Uniq(s)) /\ IsInjective(Uniq(s)) /\ ToSet(Uniq(s)) = ToSet(s)
<1>a. PICK f : UniqBy(f, s)
  BY UniqSteps
<1>1. /\ Uniq(s) = f[Len(s)] /\ f[0] = <<>> /\ f \in [0 .. Len(s) -> Seq(ToSet(s))]
      /\ \A n \in 1 .. Len(s) :
           f[n] = IF \E i \in 1 .. n - 1 : s[i] = s[n] THEN f[n - 1] ELSE Append(f[n - 1], s[n])
  BY <1>a DEF UniqBy
<1>2. Len(s) \in Nat
  BY SeqFacts
<1>3. \A n \in 0 .. Len(s) : IsSeq(f[n])
  BY <1>1 DEF IsSeq
<1> DEFINE T == {n \in 0 .. Len(s) : /\ \A i, j \in 1 .. Len(f[n]) : f[n][i] = f[n][j] => i = j
                                     /\ \A i \in 1 .. Len(f[n]) : \E j \in 1 .. n : f[n][i] = s[j]
                                     /\ \A j \in 1 .. n : \E i \in 1 .. Len(f[n]) : f[n][i] = s[j]}
<1>4. 0 \in T
  BY <1>1, <1>2, EmptyFacts
<1>5. ASSUME NEW n \in 1 .. Len(s), n - 1 \in T PROVE n \in T
  <2>1. /\ n \in 0 .. Len(s) /\ n - 1 \in 0 .. Len(s) /\ 1 .. n - 1 \subseteq 1 .. n /\ n \in 1 .. n
        /\ \A j \in 1 .. n : j \in 1 .. n - 1 \/ j = n
    BY <1>2
  <2> DEFINE g == f[n - 1]
  <2>2. /\ \A i, j \in 1 .. Len(g) : g[i] = g[j] => i = j
        /\ \A i \in 1 .. Len(g) : \E j \in 1 .. n - 1 : g[i] = s[j]
        /\ \A j \in 1 .. n - 1 : \E i \in 1 .. Len(g) : g[i] = s[j]
    BY <1>5
  <2>4. IsSeq(g) /\ Len(g) \in Nat
    BY <1>3, <2>1, SeqFacts
  <2>5. CASE ~\E i \in 1 .. n - 1 : s[i] = s[n]
    <3>1. f[n] = Append(g, s[n])
      BY <1>1, <2>5
    <3> HIDE DEF g
    <3>2. /\ Len(f[n]) = Len(g) + 1 /\ f[n][Len(g) + 1] = s[n]
          /\ \A i \in 1 .. Len(g) : f[n][i] = g[i]
      BY <2>4, <3>1, AppendFacts
    <3>3. /\ \A i \in 1 .. Len(f[n]) : i \in 1 .. Len(g) \/ i = Len(g) + 1
          /\ \A i \in 1 .. Len(g) : i \in 1 .. Len(f[n])
          /\ Len(g) + 1 \in 1 .. Len(f[n])
      BY <2>4, <3>2
    <3>4. \A i, j \in 1 .. Len(f[n]) : f[n][i] = f[n][j] => i = j
      <4>1. ASSUME NEW i \in 1 .. Len(g) PROVE f[n][i] # f[n][Len(g) + 1]
        <5>1. PICK j \in 1 .. n - 1 : g[i] = s[j]
          BY <2>2
        <5> QED BY <2>5, <3>2, <5>1
      <4>2. \A i, j \in 1 .. Len(g) : f[n][i] = f[n][j] => i = j
        BY <2>2, <3>2
      <4> QED BY <3>3, <4>1, <4>2
    <3>5. ASSUME NEW i \in 1 .. Len(f[n]) PROVE \E j \in 1 .. n : f[n][i] = s[j]
      <4>1. CASE i \in 1 .. Len(g)
        <5>1. PICK j \in 1 .. n - 1 : g[i] = s[j]
          BY <2>2, <4>1
        <5> QED BY <2>1, <3>2, <4>1, <5>1
      <4>2. CASE i = Len(g) + 1
        BY <2>1, <3>2, <4>2
      <4> QED BY <3>3, <4>1, <4>2
    <3>6. ASSUME NEW j \in 1 .. n PROVE \E i \in 1 .. Len(f[n]) : f[n][i] = s[j]
      <4>1. CASE j \in 1 .. n - 1
        <5>1. PICK i \in 1 .. Len(g) : g[i] = s[j]
          BY <2>2, <4>1
        <5> QED BY <3>2, <3>3, <5>1
      <4>2. CASE j = n
        BY <3>2, <3>3, <4>2
      <4> QED BY <2>1, <4>1, <4>2
    <3> QED BY <2>1, <3>4, <3>5, <3>6
  <2>6. CASE \E i \in 1 .. n - 1 : s[i] = s[n]
    <3>1. f[n] = g
      BY <1>1, <2>6
    <3>2. ASSUME NEW j \in 1 .. n PROVE \E i \in 1 .. Len(g) : g[i] = s[j]
      <4>1. CASE j \in 1 .. n - 1
        BY <2>2, <4>1
      <4>2. CASE j = n
        BY <2>2, <2>6, <4>2
      <4> QED BY <2>1, <4>1, <4>2
    <3> HIDE DEF g
    <3>3. \A i \in 1 .. Len(g) : \E j \in 1 .. n : g[i] = s[j]
      BY <2>1, <2>2
    <3>4. \A i, j \in 1 .. Len(g) : g[i] = g[j] => i = j
      BY <2>2
    <3> QED BY <2>1, <3>1, <3>2, <3>3, <3>4
  <2> QED BY <2>5, <2>6
<1>6. Len(s) \in T
  <2> HIDE DEF T
  <2> QED BY <1>2, <1>4, <1>5, UpTo, Zenon
<1>7. IsSeq(Uniq(s))
  BY <1>1, <1>2, <1>3
<1>8. DOMAIN Uniq(s) = 1 .. Len(Uniq(s))
  BY <1>7, SeqFacts
<1>9. IsInjective(Uniq(s))
  BY <1>1, <1>6, <1>8 DEF IsInjective
<1>10. ToSet(Uniq(s)) = ToSet(s)
  <2>1. ASSUME NEW e PROVE e \in ToSet(Uniq(s)) <=> e \in ToSet(s)
    <3>1. e \in ToSet(s) <=> \E i \in 1 .. Len(s) : s[i] = e
      BY ToSetFacts
    <3>2. e \in ToSet(Uniq(s)) <=> \E i \in 1 .. Len(Uniq(s)) : Uniq(s)[i] = e
      BY <1>7, ToSetFacts
    <3>3. /\ \A i \in 1 .. Len(Uniq(s)) : \E j \in 1 .. Len(s) : Uniq(s)[i] = s[j]
          /\ \A j \in 1 .. Len(s) : \E i \in 1 .. Len(Uniq(s)) : Uniq(s)[i] = s[j]
      BY <1>1, <1>6
    <3> QED BY <3>1, <3>2, <3>3
  <2> QED BY <2>1
<1> QED BY <1>7, <1>9, <1>10

LEMMA MappedSeq ==
  ASSUME NEW s, NEW t, IsSeq(s), t = [i \in DOMAIN s |-> t[i]]
  PROVE  IsSeq(t) /\ Len(t) = Len(s)
<1>1. Len(s) \in Nat /\ DOMAIN s = 1 .. Len(s)
  BY SeqFacts
<1> DEFINE T == {t[i] : i \in 1 .. Len(s)}
<1>2. t = [i \in 1 .. Len(s) |-> t[i]]
  BY <1>1
<1>3. t \in [1 .. Len(s) -> T]
  BY <1>2
<1> HIDE DEF T
<1>4. t \in Seq(T) /\ Len(t) = Len(s)
  BY <1>1, <1>3
<1> QED BY <1>4 DEF IsSeq

\* A port is published once.
LEMMA PublishedPortsFacts ==
  ASSUME NEW f, IsSeq(f.ports)
  PROVE  IsSeq(PublishedPorts(f)) /\ IsInjective(PublishedPorts(f))
<1> DEFINE rows == Among(f.ports, {r \in ToSet(f.ports) : r.new \/ ~r.del})
           ports == [i \in DOMAIN rows |-> rows[i].port]
<1>1. IsSeq(rows)
  BY AmongElements
<1> HIDE DEF rows
<1>2. IsSeq(ports)
  BY <1>1, MappedSeq
<1>3. PublishedPorts(f) = Uniq(ports)
  BY DEF PublishedPorts, rows
<1> HIDE DEF ports
<1> QED BY <1>2, <1>3, UniqFacts

-----------------------------------------------------------------------------
(* ToIngress: the paths of an ingress after the rows of a form.            *)

LEMMA SeqWithin ==
  ASSUME NEW s, IsSeq(s), NEW T, \A e \in ToSet(s) : e \in T
  PROVE  s \in Seq(T)
<1>1. /\ Len(s) \in Nat /\ s \in Seq(ToSet(s))
      /\ \A j \in 1 .. Len(s) : s[j] \in T
  BY SeqFacts, ToSetFacts
<1> QED BY <1>1

RouteOf(svc, r) == Route(svc, r.port, r.route)

LEMMA RouteChangedIs ==
  ASSUME NEW svc, NEW paths, IsSeq(paths), NEW r
  PROVE  /\ IsSeq(RouteChanged(svc, paths, r))
         /\ ToSet(RouteChanged(svc, paths, r)) \subseteq ToSet(paths) \cup {RouteOf(svc, r)}
         /\ r.ingress /\ r.del =>
              /\ ToSet(RouteChanged(svc, paths, r)) \subseteq ToSet(paths)
              /\ RouteOf(svc, r) \notin ToSet(RouteChanged(svc, paths, r))
              /\ RouteOf(svc, r) \in ToSet(paths)
                   => RouteChanged(svc, paths, r) = Among(paths, ToSet(paths) \ {RouteOf(svc, r)})
         /\ ~(r.ingress /\ r.del) =>
              RouteChanged(svc, paths, r) = IF r.ingress /\ r.new THEN Append(paths, RouteOf(svc, r)) ELSE paths
<1> DEFINE R == RouteChanged(svc, paths, r)
           route == RouteOf(svc, r)
           S == IF route \in ToSet(paths) THEN ToSet(paths) \ {route} ELSE {}
<1>1. CASE r.ingress /\ r.del
  <2>1. R = Among(paths, S)
    BY <1>1 DEF RouteChanged, RouteOf
  <2>2. route \notin S /\ S \subseteq ToSet(paths)
    OBVIOUS
  <2> HIDE DEF R, S, route
  <2>3. IsSeq(R) /\ \A e : e \in ToSet(R) <=> e \in ToSet(paths) /\ e \in S
    BY <2>1, AmongElements
  <2>4. route \in ToSet(paths) => R = Among(paths, ToSet(paths) \ {route})
    BY <2>1 DEF S
  <2> QED BY <1>1, <2>2, <2>3, <2>4 DEF R, route
<1>2. CASE ~(r.ingress /\ r.del)
  <2>1. R = IF r.ingress /\ r.new THEN Append(paths, route) ELSE paths
    BY <1>2 DEF RouteChanged, RouteOf
  <2>2. IsSeq(Append(paths, route)) /\ ToSet(Append(paths, route)) = ToSet(paths) \cup {route}
    BY AppendFacts
  <2> HIDE DEF R, route
  <2>3. IsSeq(R) /\ ToSet(R) \subseteq ToSet(paths) \cup {route}
    BY <2>1, <2>2
  <2> QED BY <1>2, <2>1, <2>3 DEF R, route
<1> QED BY <1>1, <1>2

IngressBy(f, paths, rows, svc) ==
  /\ ToIngress(paths, rows, svc) = f[Len(rows)] /\ f[0] = paths
  /\ \A n \in 0 .. Len(rows) : IsSeq(f[n])
  /\ \A n \in 1 .. Len(rows) : f[n] = RouteChanged(svc, f[n - 1], rows[n])

LEMMA IngressSteps ==
  ASSUME NEW paths, IsSeq(paths), NEW rows, IsSeq(rows), NEW svc
  PROVE  \E f : IngressBy(f, paths, rows, svc)
<1> DEFINE N == Len(rows)
           T == ToSet(paths) \cup {RouteOf(svc, rows[n]) : n \in 1 .. N}
           V == Seq(T)
           F == [p \in Nat \X V |-> IF p[1] \in 1 .. N THEN RouteChanged(svc, p[2], rows[p[1]]) ELSE p[2]]
           base == paths
           g == CHOOSE g : g = [n \in 0 .. N |-> IF n = 0 THEN paths ELSE RouteChanged(svc, g[n - 1], rows[n])]
<1>1. N \in Nat
  BY SeqFacts
<1>2. base \in V
  BY SeqWithin
<1>b. \A n \in 1 .. N, v \in V : RouteChanged(svc, v, rows[n]) \in V
  <2> SUFFICES ASSUME NEW n \in 1 .. N, NEW v \in V PROVE RouteChanged(svc, v, rows[n]) \in V
    OBVIOUS
  <2>1. IsSeq(v) /\ \A e \in ToSet(v) : e \in T
    <3>1. v \in Seq(T)
      OBVIOUS
    <3> HIDE DEF T
    <3>2. IsSeq(v)
      BY <3>1 DEF IsSeq
    <3>3. \A i \in 1 .. Len(v) : v[i] \in T
      BY <3>1
    <3> QED BY <3>2, <3>3, ToSetFacts
  <2>2. RouteOf(svc, rows[n]) \in T
    OBVIOUS
  <2>3. /\ IsSeq(RouteChanged(svc, v, rows[n]))
        /\ ToSet(RouteChanged(svc, v, rows[n])) \subseteq ToSet(v) \cup {RouteOf(svc, rows[n])}
    BY <2>1, RouteChangedIs
  <2> HIDE DEF T
  <2>4. \A e \in ToSet(RouteChanged(svc, v, rows[n])) : e \in T
    BY <2>1, <2>2, <2>3
  <2> QED BY <2>3, <2>4, SeqWithin
<1> HIDE DEF V
<1>c. IsStep(F, V)
  BY <1>b DEF IsStep
<1>3. \A n \in 1 .. N, v \in V : F[<<n, v>>] = RouteChanged(svc, v, rows[n])
  BY <1>1
<1>4. ToIngress(paths, rows, svc) = g[N]
  BY Zenon DEF ToIngress
<1> HIDE DEF N, F, base, g
<1>a. PICK f : Computes(f, base, F, V, N)
  BY <1>1, <1>2, <1>c, Recursion
<1>5. f \in [0 .. N -> V] /\ f[0] = paths /\ \A n \in 1 .. N : f[n] = F[<<n, f[n - 1]>>]
  BY <1>a DEF Computes, base
<1>6. \A n \in 1 .. N : f[n] = RouteChanged(svc, f[n - 1], rows[n])
  <2>1. \A n \in 1 .. N : f[n - 1] \in V
    BY <1>1, <1>5
  <2> QED BY <1>3, <1>5, <2>1
<1>7. f = [n \in 0 .. N |-> IF n = 0 THEN paths ELSE RouteChanged(svc, f[n - 1], rows[n])]
  <2>1. \A n \in 0 .. N : f[n] = IF n = 0 THEN paths ELSE RouteChanged(svc, f[n - 1], rows[n])
    <3>1. \A n \in 0 .. N : n = 0 \/ n \in 1 .. N
      BY <1>1
    <3>2. \A n \in 1 .. N : n # 0
      BY <1>1
    <3> QED BY <1>5, <1>6, <3>1, <3>2
  <2> QED BY <1>5, <2>1
<1>8. g = [n \in 0 .. N |-> IF n = 0 THEN paths ELSE RouteChanged(svc, g[n - 1], rows[n])]
  BY <1>7, Zenon DEF g
<1>9. ComputesWithin(g, base, F, V, N)
  <2>1. \A n \in 0 .. N : g[n] = IF n = 0 THEN paths ELSE RouteChanged(svc, g[n - 1], rows[n])
    BY <1>8
  <2> QED BY <1>1, <1>3, <2>1 DEF ComputesWithin, base
<1>10. g[N] = f[N]
  BY <1>1, <1>2, <1>a, <1>c, <1>9, SameRecursion
<1>11. \A n \in 0 .. N : IsSeq(f[n])
  BY <1>5 DEF V, IsSeq
<1> QED BY <1>4, <1>5, <1>6, <1>10, <1>11 DEF N, IngressBy

\* Rows that were read from the cluster and left alone change nothing.
LEMMA IngressSame ==
  ASSUME NEW paths, IsSeq(paths), NEW rows, IsSeq(rows), NEW svc,
         \A n \in 1 .. Len(rows) : ~rows[n].new /\ ~rows[n].del
  PROVE  ToIngress(paths, rows, svc) = paths
<1>a. PICK f : IngressBy(f, paths, rows, svc)
  BY IngressSteps
<1>1. /\ ToIngress(paths, rows, svc) = f[Len(rows)] /\ f[0] = paths
      /\ \A n \in 0 .. Len(rows) : IsSeq(f[n])
      /\ \A n \in 1 .. Len(rows) : f[n] = RouteChanged(svc, f[n - 1], rows[n])
  BY <1>a DEF IngressBy
<1>2. Len(rows) \in Nat
  BY SeqFacts
<1> DEFINE T == {n \in 0 .. Len(rows) : f[n] = paths}
<1>3. 0 \in T
  BY <1>1, <1>2
<1>4. ASSUME NEW n \in 1 .. Len(rows), n - 1 \in T PROVE n \in T
  <2>1. f[n - 1] = paths
    BY <1>4
  <2>2. RouteChanged(svc, paths, rows[n]) = paths
    BY RouteChangedIs
  <2>3. n \in 0 .. Len(rows)
    BY <1>2
  <2> QED BY <1>1, <2>1, <2>2, <2>3
<1>5. Len(rows) \in T
  <2> HIDE DEF T
  <2> QED BY <1>2, <1>3, <1>4, UpTo, Zenon
<1> QED BY <1>1, <1>5

\* New routes come last.
LEMMA IngressShaped ==
  ASSUME NEW F, NEW R, R \subseteq F, NEW paths, Shaped(paths, F, R), NEW rows, IsSeq(rows), NEW svc,
         \A n \in 1 .. Len(rows) : RouteOf(svc, rows[n]) \in R
  PROVE  Shaped(ToIngress(paths, rows, svc), F, R)
<1>0. IsSeq(paths)
  BY DEF Shaped
<1>a. PICK f : IngressBy(f, paths, rows, svc)
  BY <1>0, IngressSteps
<1>1. /\ ToIngress(paths, rows, svc) = f[Len(rows)] /\ f[0] = paths
      /\ \A n \in 0 .. Len(rows) : IsSeq(f[n])
      /\ \A n \in 1 .. Len(rows) : f[n] = RouteChanged(svc, f[n - 1], rows[n])
  BY <1>a DEF IngressBy
<1>2. Len(rows) \in Nat
  BY SeqFacts
<1> DEFINE T == {n \in 0 .. Len(rows) : Shaped(f[n], F, R)}
<1>3. 0 \in T
  BY <1>1, <1>2
<1>4. ASSUME NEW n \in 1 .. Len(rows), n - 1 \in T PROVE n \in T
  <2> DEFINE v == f[n - 1]
             r == rows[n]
             route == RouteOf(svc, r)
             S == IF route \in ToSet(v) THEN ToSet(v) \ {route} ELSE {}
  <2>1. Shaped(v, F, R) /\ route \in R /\ f[n] = RouteChanged(svc, v, r)
    BY <1>1, <1>4
  <2>2. IsSeq(v) /\ \A j \in 1 .. Len(v) : v[j] \in IF j = 1 THEN F ELSE R
    BY <2>1 DEF Shaped
  <2>3. RouteChanged(svc, v, r) \in {v, Append(v, route), Among(v, S)}
    BY DEF RouteChanged, RouteOf
  <2>4. Shaped(Append(v, route), F, R)
    <3> HIDE DEF v, route
    <3>1. /\ IsSeq(Append(v, route)) /\ Len(Append(v, route)) = Len(v) + 1 /\ Append(v, route)[Len(v) + 1] = route
          /\ \A j \in 1 .. Len(v) : Append(v, route)[j] = v[j]
      BY <2>2, AppendFacts
    <3>2. Len(v) \in Nat /\ route \in F
      BY <2>1, <2>2, SeqFacts
    <3>3. \A j \in 1 .. Len(Append(v, route)) : j \in 1 .. Len(v) \/ j = Len(v) + 1
      BY <3>1, <3>2
    <3>4. \A j \in 1 .. Len(Append(v, route)) : Append(v, route)[j] \in IF j = 1 THEN F ELSE R
      BY <2>1, <2>2, <3>1, <3>2, <3>3
    <3> QED BY <3>1, <3>4 DEF Shaped
  <2>5. Shaped(Among(v, S), F, R)
    <3> HIDE DEF v, S
    <3> QED BY <2>1, AmongShaped
  <2>6. n \in 0 .. Len(rows)
    BY <1>2
  <2> HIDE DEF v, r, route, S
  <2> QED BY <2>1, <2>3, <2>4, <2>5, <2>6
<1>5. Len(rows) \in T
  <2> HIDE DEF T
  <2> QED BY <1>2, <1>3, <1>4, UpTo, Zenon
<1> QED BY <1>1, <1>5

\* Each route that is to go is there, and is to go once.
Removable(paths, rows, svc) ==
  \A n \in 1 .. Len(rows) :
    rows[n].ingress /\ rows[n].del =>
      /\ RouteOf(svc, rows[n]) \in ToSet(paths)
      /\ \A m \in 1 .. Len(rows) : rows[m].ingress /\ rows[m].del /\ RouteOf(svc, rows[m]) = RouteOf(svc, rows[n]) => m = n

\* The first path stays if it is the one of another service.
LEMMA IngressFirst ==
  ASSUME NEW paths, IsSeq(paths), paths # <<>>, NEW rows, IsSeq(rows), NEW svc, Removable(paths, rows, svc),
         \A n \in 1 .. Len(rows) : RouteOf(svc, rows[n]) # paths[1]
  PROVE  ToIngress(paths, rows, svc) # <<>> /\ ToIngress(paths, rows, svc)[1] = paths[1]
<1>a. PICK f : IngressBy(f, paths, rows, svc)
  BY IngressSteps
<1>1. /\ ToIngress(paths, rows, svc) = f[Len(rows)] /\ f[0] = paths
      /\ \A n \in 0 .. Len(rows) : IsSeq(f[n])
      /\ \A n \in 1 .. Len(rows) : f[n] = RouteChanged(svc, f[n - 1], rows[n])
  BY <1>a DEF IngressBy
<1>2. Len(rows) \in Nat
  BY SeqFacts
<1> DEFINE Left(n, m) == m > n /\ rows[m].ingress /\ rows[m].del
           T == {n \in 0 .. Len(rows) : /\ f[n] # <<>> /\ f[n][1] = paths[1]
                                        /\ \A m \in 1 .. Len(rows) : Left(n, m) => RouteOf(svc, rows[m]) \in ToSet(f[n])}
<1>3. 0 \in T
  <2>1. \A m \in 1 .. Len(rows) : Left(0, m) => RouteOf(svc, rows[m]) \in ToSet(paths)
    BY DEF Removable
  <2> QED BY <1>1, <1>2, <2>1
<1>4. ASSUME NEW n \in 1 .. Len(rows), n - 1 \in T PROVE n \in T
  <2> DEFINE v == f[n - 1]
             r == rows[n]
             route == RouteOf(svc, r)
  <2>1. /\ v # <<>> /\ v[1] = paths[1] /\ f[n] = RouteChanged(svc, v, r) /\ route # paths[1]
        /\ \A m \in 1 .. Len(rows) : Left(n - 1, m) => RouteOf(svc, rows[m]) \in ToSet(v)
    BY <1>1, <1>4
  <2>2. n \in 0 .. Len(rows) /\ n - 1 \in 0 .. Len(rows) /\ n > n - 1
        /\ \A m \in 1 .. Len(rows) : m > n => m > n - 1 /\ m # n
    BY <1>2
  <2>3. IsSeq(v)
    BY <1>1, <2>2
  <2>4. CASE r.ingress /\ r.del
    <3> DEFINE S == ToSet(v) \ {route}
    <3>1. route \in ToSet(v)
      BY <2>1, <2>2, <2>4
    <3>2. f[n] = Among(v, S)
      <4> HIDE DEF v, r
      <4>1. RouteChanged(svc, v, r) = Among(v, ToSet(v) \ {RouteOf(svc, r)})
        BY <2>3, <2>4, <3>1, RouteChangedIs
      <4> QED BY <2>1, <4>1
    <3>3. v[1] \in S
      <4>1. Len(v) \in Nat /\ Len(v) # 0
        BY <2>1, <2>3, SeqFacts
      <4>2. v[1] \in ToSet(v)
        BY <2>3, <4>1, ToSetFacts
      <4> QED BY <2>1, <4>2
    <3>4. \A m \in 1 .. Len(rows) : Left(n, m) => RouteOf(svc, rows[m]) \in S
      <4>1. \A m \in 1 .. Len(rows) : rows[m].ingress /\ rows[m].del /\ RouteOf(svc, rows[m]) = RouteOf(svc, rows[n]) => m = n
        BY <2>4 DEF Removable
      <4> QED BY <2>1, <2>2, <4>1
    <3> HIDE DEF v, S
    <3>5. f[n] # <<>> /\ f[n][1] = v[1]
      BY <2>1, <2>3, <3>2, <3>3, AmongFirst
    <3>6. \A e : e \in ToSet(f[n]) <=> e \in ToSet(v) /\ e \in S
      BY <2>3, <3>2, AmongElements
    <3>7. \A m \in 1 .. Len(rows) : Left(n, m) => RouteOf(svc, rows[m]) \in ToSet(f[n])
      BY <2>1, <2>2, <3>4, <3>6
    <3> QED BY <2>1, <2>2, <3>5, <3>7
  <2>5. CASE ~(r.ingress /\ r.del)
    <3>1. f[n] = IF r.ingress /\ r.new THEN Append(v, route) ELSE v
      <4> HIDE DEF v, r
      <4>1. RouteChanged(svc, v, r) = IF r.ingress /\ r.new THEN Append(v, RouteOf(svc, r)) ELSE v
        BY <2>3, <2>5, RouteChangedIs
      <4> QED BY <2>1, <4>1
    <3> HIDE DEF v, route
    <3>2. /\ IsSeq(Append(v, route)) /\ Len(Append(v, route)) = Len(v) + 1 /\ ToSet(v) \subseteq ToSet(Append(v, route))
          /\ \A j \in 1 .. Len(v) : Append(v, route)[j] = v[j]
      BY <2>3, AppendFacts
    <3>3. Len(v) \in Nat /\ Len(v) # 0
      BY <2>1, <2>3, SeqFacts
    <3>4. Append(v, route) # <<>> /\ Append(v, route)[1] = v[1]
      BY <3>2, <3>3, EmptyFacts
    <3>5. f[n] # <<>> /\ f[n][1] = paths[1] /\ ToSet(v) \subseteq ToSet(f[n])
      BY <2>1, <3>1, <3>2, <3>4
    <3>6. \A m \in 1 .. Len(rows) : Left(n, m) => RouteOf(svc, rows[m]) \in ToSet(f[n])
      BY <2>1, <2>2, <3>5
    <3> QED BY <2>2, <3>5, <3>6
  <2> QED BY <2>4, <2>5
<1>5. Len(rows) \in T
  <2> HIDE DEF T
  <2> QED BY <1>2, <1>3, <1>4, UpTo, Zenon
<1> QED BY <1>1, <1>5

\* If all the rows are to go, their routes are gone, and there are no others.
LEMMA IngressGone ==
  ASSUME NEW paths, IsSeq(paths), NEW rows, IsSeq(rows), NEW svc, \A n \in 1 .. Len(rows) : rows[n].del
  PROVE  /\ ToSet(ToIngress(paths, rows, svc)) \subseteq ToSet(paths)
         /\ \A n \in 1 .. Len(rows) : rows[n].ingress => RouteOf(svc, rows[n]) \notin ToSet(ToIngress(paths, rows, svc))
<1>a. PICK f : IngressBy(f, paths, rows, svc)
  BY IngressSteps
<1>1. /\ ToIngress(paths, rows, svc) = f[Len(rows)] /\ f[0] = paths
      /\ \A n \in 0 .. Len(rows) : IsSeq(f[n])
      /\ \A n \in 1 .. Len(rows) : f[n] = RouteChanged(svc, f[n - 1], rows[n])
  BY <1>a DEF IngressBy
<1>2. Len(rows) \in Nat
  BY SeqFacts
<1> DEFINE T == {n \in 0 .. Len(rows) : /\ ToSet(f[n]) \subseteq ToSet(paths)
                                        /\ \A m \in 1 .. n : rows[m].ingress => RouteOf(svc, rows[m]) \notin ToSet(f[n])}
<1>3. 0 \in T
  BY <1>1, <1>2
<1>4. ASSUME NEW n \in 1 .. Len(rows), n - 1 \in T PROVE n \in T
  <2> DEFINE v == f[n - 1]
             r == rows[n]
  <2>1. /\ ToSet(v) \subseteq ToSet(paths) /\ f[n] = RouteChanged(svc, v, r) /\ r.del
        /\ \A m \in 1 .. n - 1 : rows[m].ingress => RouteOf(svc, rows[m]) \notin ToSet(v)
    BY <1>1, <1>4
  <2>2. n \in 0 .. Len(rows) /\ n - 1 \in 0 .. Len(rows) /\ \A m \in 1 .. n : m \in 1 .. n - 1 \/ m = n
    BY <1>2
  <2>3. IsSeq(v)
    BY <1>1, <2>2
  <2>4. ToSet(f[n]) \subseteq ToSet(v) /\ (r.ingress => RouteOf(svc, r) \notin ToSet(f[n]))
    <3> HIDE DEF v, r
    <3>1. CASE r.ingress
      <4>1. /\ ToSet(RouteChanged(svc, v, r)) \subseteq ToSet(v)
            /\ RouteOf(svc, r) \notin ToSet(RouteChanged(svc, v, r))
        BY <2>1, <2>3, <3>1, RouteChangedIs
      <4> QED BY <2>1, <4>1
    <3>2. CASE ~r.ingress
      <4>1. RouteChanged(svc, v, r) = v
        BY <2>3, <3>2, RouteChangedIs
      <4> QED BY <2>1, <3>2, <4>1
    <3> QED BY <3>1, <3>2
  <2> QED BY <2>1, <2>2, <2>4
<1>5. Len(rows) \in T
  <2> HIDE DEF T
  <2> QED BY <1>2, <1>3, <1>4, UpTo, Zenon
<1> QED BY <1>1, <1>5

-----------------------------------------------------------------------------
(* PortRows: the rows of a form for a service and its routes.              *)

\* A row that was read, for a port and its route or none
IsRowOf(r, port, paths, svc) ==
  /\ r = [port |-> r.port, route |-> r.route, ingress |-> r.ingress, new |-> r.new, del |-> r.del]
  /\ r.port = port /\ r.new = FALSE /\ r.del = FALSE
  /\ r.ingress \in BOOLEAN
  /\ IF r.ingress THEN \E p \in ToSet(paths) : p.svc = svc /\ p.port = port /\ p.route = r.route ELSE r.route = 0

LEMMA RowsOfPortFacts ==
  ASSUME NEW paths, IsSeq(paths), NEW svc, NEW port
  PROVE  /\ IsSeq(RowsOfPort(port, paths, svc))
         /\ \A n \in 1 .. Len(RowsOfPort(port, paths, svc)) : IsRowOf(RowsOfPort(port, paths, svc)[n], port, paths, svc)
         /\ \A p \in ToSet(paths) : p.svc = svc /\ p.port = port =>
              \E r \in ToSet(RowsOfPort(port, paths, svc)) : r.ingress /\ r.route = p.route
         /\ IsInjective(paths) /\ (\A p \in ToSet(paths) : p = Route(p.svc, p.port, p.route)) =>
              \A m, n \in 1 .. Len(RowsOfPort(port, paths, svc)) :
                /\ RowsOfPort(port, paths, svc)[m].ingress /\ RowsOfPort(port, paths, svc)[n].ingress
                /\ RowsOfPort(port, paths, svc)[m].route = RowsOfPort(port, paths, svc)[n].route
                => m = n
<1> DEFINE S == {p \in ToSet(paths) : p.svc = svc /\ p.port = port}
           rules == Among(paths, S)
           row == [port |-> port, route |-> 0, ingress |-> FALSE, new |-> FALSE, del |-> FALSE]
           R == RowsOfPort(port, paths, svc)
<1>1. /\ IsSeq(rules) /\ (\A p : p \in ToSet(rules) <=> p \in ToSet(paths) /\ p.svc = svc /\ p.port = port)
      /\ IsInjective(paths) => IsInjective(rules)
  <2>1. IsSeq(rules) /\ (\A p : p \in ToSet(rules) <=> p \in ToSet(paths) /\ p \in S)
        /\ (IsInjective(paths) => IsInjective(rules))
    <3> HIDE DEF S
    <3> QED BY AmongElements, AmongInjective
  <2> QED BY <2>1
<1>2. R = IF rules = <<>> THEN <<row>> ELSE [j \in DOMAIN rules |-> [row EXCEPT !.route = rules[j].route, !.ingress = TRUE]]
  BY DEF RowsOfPort
<1> HIDE DEF rules, R
<1>3. CASE rules = <<>>
  <2>1. R = <<row>>
    BY <1>2, <1>3
  <2>2. R \in Seq({row}) /\ Len(R) = 1 /\ R[1] = row
    BY <2>1
  <2>3. IsSeq(R)
    BY <2>2 DEF IsSeq
  <2>4. \A n \in 1 .. Len(R) : R[n] = row
    BY <2>2
  <2>5. IsRowOf(row, port, paths, svc) /\ ~row.ingress
    BY DEF IsRowOf
  <2>6. \A p \in ToSet(paths) : ~(p.svc = svc /\ p.port = port)
    BY <1>1, <1>3, EmptyFacts
  <2> HIDE DEF row
  <2> QED BY <2>3, <2>4, <2>5, <2>6 DEF R
<1>4. CASE rules # <<>>
  <2>1. Len(rules) \in Nat /\ DOMAIN rules = 1 .. Len(rules)
    BY <1>1, SeqFacts
  <2>2. R = [j \in DOMAIN rules |-> [row EXCEPT !.route = rules[j].route, !.ingress = TRUE]]
    BY <1>2, <1>4
  <2>3. IsSeq(R) /\ Len(R) = Len(rules)
    <3>1. R = [j \in DOMAIN rules |-> R[j]]
      BY <2>2
    <3> QED BY <1>1, <3>1, MappedSeq
  <2>4. \A n \in 1 .. Len(R) :
          /\ R[n] = [port |-> R[n].port, route |-> R[n].route, ingress |-> R[n].ingress, new |-> R[n].new, del |-> R[n].del]
          /\ R[n].port = port /\ R[n].new = FALSE
          /\ R[n].del = FALSE /\ R[n].ingress = TRUE /\ R[n].route = rules[n].route
    BY <2>1, <2>2, <2>3
  <2>5. \A n \in 1 .. Len(R) : IsRowOf(R[n], port, paths, svc)
    <3>1. \A n \in 1 .. Len(R) : rules[n] \in ToSet(paths) /\ rules[n].svc = svc /\ rules[n].port = port
      BY <1>1, <2>3, ToSetFacts
    <3> QED BY <2>4, <3>1 DEF IsRowOf
  <2>6. \A p \in ToSet(paths) : p.svc = svc /\ p.port = port => \E r \in ToSet(R) : r.ingress /\ r.route = p.route
    <3> SUFFICES ASSUME NEW p \in ToSet(paths), p.svc = svc, p.port = port
                 PROVE  \E r \in ToSet(R) : r.ingress /\ r.route = p.route
      OBVIOUS
    <3>1. PICK n \in 1 .. Len(rules) : rules[n] = p
      BY <1>1, ToSetFacts
    <3>2. R[n] \in ToSet(R)
      BY <2>3, ToSetFacts
    <3> QED BY <2>3, <2>4, <3>1, <3>2
  <2>7. ASSUME IsInjective(paths), \A p \in ToSet(paths) : p = Route(p.svc, p.port, p.route)
        PROVE  \A m, n \in 1 .. Len(R) : R[m].ingress /\ R[n].ingress /\ R[m].route = R[n].route => m = n
    <3> SUFFICES ASSUME NEW m \in 1 .. Len(R), NEW n \in 1 .. Len(R), R[m].route = R[n].route PROVE m = n
      OBVIOUS
    <3>1. rules[m] \in ToSet(rules) /\ rules[n] \in ToSet(rules)
      BY <1>1, <2>3, ToSetFacts
    <3>2. rules[m] = Route(svc, port, rules[m].route) /\ rules[n] = Route(svc, port, rules[n].route)
      BY <1>1, <2>7, <3>1
    <3>3. rules[m] = rules[n]
      BY <2>4, <3>2
    <3> QED BY <1>1, <2>1, <2>3, <2>7, <3>3 DEF IsInjective
  <2> QED BY <2>3, <2>5, <2>6, <2>7 DEF R
<1> QED BY <1>3, <1>4

RowsBy(f, ports, paths, svc) ==
  /\ f[0] = <<>>
  /\ \A n \in 0 .. Len(ports) : IsSeq(f[n])
  /\ \A n \in 1 .. Len(ports) : f[n] = f[n - 1] \o RowsOfPort(ports[n], paths, svc)

LEMMA RowsSteps ==
  ASSUME NEW service, service # None, IsSeq(service.ports), NEW paths, IsSeq(paths), NEW svc
  PROVE  \E f : PortRows(service, paths, svc) = f[Len(service.ports)] /\ RowsBy(f, service.ports, paths, svc)
<1> DEFINE ports == service.ports
           N == Len(ports)
           RowsAt(n) == RowsOfPort(ports[n], paths, svc)
           T == UNION {ToSet(RowsAt(n)) : n \in 1 .. N}
           V == Seq(T)
           More(v, n) == v \o RowsAt(n)
           F == [p \in Nat \X V |-> IF p[1] \in 1 .. N THEN More(p[2], p[1]) ELSE p[2]]
           base == <<>>
           g == CHOOSE g : g = [n \in 0 .. N |-> IF n = 0 THEN <<>> ELSE g[n - 1] \o RowsOfPort(ports[n], paths, svc)]
<1>1. N \in Nat
  BY SeqFacts
<1>2. base \in V
  OBVIOUS
<1>b. \A n \in 1 .. N, v \in V : More(v, n) \in V
  <2>1. ASSUME NEW n \in 1 .. N PROVE RowsAt(n) \in V
    <3>1. IsSeq(RowsAt(n)) /\ \A e \in ToSet(RowsAt(n)) : e \in T
      BY RowsOfPortFacts
    <3> HIDE DEF RowsAt, T
    <3> QED BY <3>1, SeqWithin
  <2> HIDE DEF RowsAt, T
  <2> QED BY <2>1
<1> HIDE DEF V, RowsAt, More
<1>c. IsStep(F, V)
  BY <1>b DEF IsStep
<1>3. \A n \in 1 .. N, v \in V : F[<<n, v>>] = More(v, n)
  BY <1>1
<1>4. PortRows(service, paths, svc) = g[N]
  <2>1. PortRows(service, paths, svc) = IF service = None THEN <<>> ELSE g[N]
    BY Zenon DEF PortRows
  <2> QED BY <2>1
<1> HIDE DEF N, F, base, g
<1>a. PICK f : Computes(f, base, F, V, N)
  BY <1>1, <1>2, <1>c, Recursion
<1>5. f \in [0 .. N -> V] /\ f[0] = <<>> /\ \A n \in 1 .. N : f[n] = F[<<n, f[n - 1]>>]
  BY <1>a DEF Computes, base
<1>6. \A n \in 1 .. N : f[n] = More(f[n - 1], n)
  <2>1. \A n \in 1 .. N : f[n - 1] \in V
    BY <1>1, <1>5
  <2> QED BY <1>3, <1>5, <2>1
<1>7. f = [n \in 0 .. N |-> IF n = 0 THEN <<>> ELSE More(f[n - 1], n)]
  <2>1. \A n \in 0 .. N : f[n] = IF n = 0 THEN <<>> ELSE More(f[n - 1], n)
    <3>1. \A n \in 0 .. N : n = 0 \/ n \in 1 .. N
      BY <1>1
    <3>2. \A n \in 1 .. N : n # 0
      BY <1>1
    <3> QED BY <1>5, <1>6, <3>1, <3>2
  <2> QED BY <1>5, <2>1
<1>8. g = [n \in 0 .. N |-> IF n = 0 THEN <<>> ELSE More(g[n - 1], n)]
  BY <1>7, Zenon DEF g, RowsAt, More
<1>9. ComputesWithin(g, base, F, V, N)
  <2>1. \A n \in 0 .. N : g[n] = IF n = 0 THEN <<>> ELSE More(g[n - 1], n)
    BY <1>8
  <2> QED BY <1>1, <1>3, <2>1 DEF ComputesWithin, base
<1>10. g[N] = f[N]
  BY <1>1, <1>2, <1>a, <1>c, <1>9, SameRecursion
<1>11. \A n \in 0 .. N : IsSeq(f[n])
  BY <1>5 DEF V, IsSeq
<1>12. RowsBy(f, ports, paths, svc)
  BY <1>5, <1>6, <1>11 DEF RowsBy, N, RowsAt, More
<1> QED BY <1>4, <1>10, <1>12 DEF N

\* What was read is neither new nor to go; there is a row for each route to a port of
\* the service, and one only if no port and no path is there twice.
LEMMA PortRowsFacts ==
  ASSUME NEW service, service # None, IsSeq(service.ports), NEW paths, IsSeq(paths), NEW svc
  PROVE  /\ IsSeq(PortRows(service, paths, svc))
         /\ \A n \in 1 .. Len(PortRows(service, paths, svc)) :
              \E port \in ToSet(service.ports) : IsRowOf(PortRows(service, paths, svc)[n], port, paths, svc)
         /\ \A p \in ToSet(paths) : p.svc = svc /\ p.port \in ToSet(service.ports) =>
              \E r \in ToSet(PortRows(service, paths, svc)) : r.ingress /\ r.port = p.port /\ r.route = p.route
         /\ IsInjective(service.ports) /\ IsInjective(paths) /\ (\A p \in ToSet(paths) : p = Route(p.svc, p.port, p.route)) =>
              \A m, n \in 1 .. Len(PortRows(service, paths, svc)) :
                /\ PortRows(service, paths, svc)[m].ingress /\ PortRows(service, paths, svc)[n].ingress
                /\ PortRows(service, paths, svc)[m].port = PortRows(service, paths, svc)[n].port
                /\ PortRows(service, paths, svc)[m].route = PortRows(service, paths, svc)[n].route
                => m = n
<1> DEFINE ports == service.ports
           N == Len(ports)
           Distinct(rows) == \A m, n \in 1 .. Len(rows) :
             rows[m].ingress /\ rows[n].ingress /\ rows[m].port = rows[n].port /\ rows[m].route = rows[n].route => m = n
           Clean == IsInjective(ports) /\ IsInjective(paths) /\ \A p \in ToSet(paths) : p = Route(p.svc, p.port, p.route)
<1>a. PICK f : PortRows(service, paths, svc) = f[N] /\ RowsBy(f, ports, paths, svc)
  BY RowsSteps
<1>0. IsSeq(ports)
  OBVIOUS
<1> HIDE DEF ports
<1>1. /\ f[0] = <<>>
      /\ \A n \in 0 .. N : IsSeq(f[n])
      /\ \A n \in 1 .. N : f[n] = f[n - 1] \o RowsOfPort(ports[n], paths, svc)
  BY <1>a DEF RowsBy
<1>2. N \in Nat
  BY <1>0, SeqFacts
<1> HIDE DEF N
<1> DEFINE T == {n \in 0 .. N :
             /\ \A m \in 1 .. Len(f[n]) : \E k \in 1 .. n : IsRowOf(f[n][m], ports[k], paths, svc)
             /\ \A k \in 1 .. n, p \in ToSet(paths) : p.svc = svc /\ p.port = ports[k] =>
                  \E r \in ToSet(f[n]) : r.ingress /\ r.port = p.port /\ r.route = p.route
             /\ Clean => Distinct(f[n])}
<1>3. 0 \in T
  BY <1>1, <1>2, EmptyFacts
<1>4. ASSUME NEW n \in 1 .. N, n - 1 \in T PROVE n \in T
  <2> DEFINE v == f[n - 1]
             w == RowsOfPort(ports[n], paths, svc)
  <2>1. /\ \A m \in 1 .. Len(v) : \E k \in 1 .. n - 1 : IsRowOf(v[m], ports[k], paths, svc)
        /\ \A k \in 1 .. n - 1, p \in ToSet(paths) : p.svc = svc /\ p.port = ports[k] =>
             \E r \in ToSet(v) : r.ingress /\ r.port = p.port /\ r.route = p.route
        /\ Clean => Distinct(v)
    BY <1>4
  <2>2. n \in 0 .. N /\ n - 1 \in 0 .. N /\ 1 .. n - 1 \subseteq 1 .. n /\ n \in 1 .. n /\ \A k \in 1 .. n : k \in 1 .. n - 1 \/ k = n
    BY <1>2
  <2>3. IsSeq(v) /\ f[n] = v \o w
    BY <1>1, <2>2
  <2>4. /\ IsSeq(w) /\ \A m \in 1 .. Len(w) : IsRowOf(w[m], ports[n], paths, svc)
        /\ \A p \in ToSet(paths) : p.svc = svc /\ p.port = ports[n] => \E r \in ToSet(w) : r.ingress /\ r.route = p.route
        /\ Clean => \A l, m \in 1 .. Len(w) : w[l].ingress /\ w[m].ingress /\ w[l].route = w[m].route => l = m
    BY RowsOfPortFacts
  <2> HIDE DEF v, w
  <2>5. /\ Len(f[n]) = Len(v) + Len(w)
        /\ \A m \in 1 .. Len(v) : f[n][m] = v[m]
        /\ \A m \in 1 .. Len(w) : f[n][Len(v) + m] = w[m]
        /\ ToSet(f[n]) = ToSet(v) \cup ToSet(w)
    BY <2>3, <2>4, ConcatFacts
  <2>6. /\ Len(v) \in Nat /\ Len(w) \in Nat
        /\ \A m \in 1 .. Len(f[n]) : m \in 1 .. Len(v) \/ \E j \in 1 .. Len(w) : m = Len(v) + j
    <3>1. Len(v) \in Nat /\ Len(w) \in Nat
      BY <2>3, <2>4, SeqFacts
    <3>2. \A m \in 1 .. Len(f[n]) : m \notin 1 .. Len(v) => m - Len(v) \in 1 .. Len(w) /\ m = Len(v) + (m - Len(v))
      BY <2>5, <3>1
    <3> QED BY <3>1, <3>2
  <2>7. ASSUME NEW m \in 1 .. Len(f[n]) PROVE \E k \in 1 .. n : IsRowOf(f[n][m], ports[k], paths, svc)
    <3>1. CASE m \in 1 .. Len(v)
      <4>1. PICK k \in 1 .. n - 1 : IsRowOf(v[m], ports[k], paths, svc)
        BY <2>1, <3>1
      <4> QED BY <2>2, <2>5, <3>1, <4>1
    <3>2. CASE \E j \in 1 .. Len(w) : m = Len(v) + j
      BY <2>2, <2>4, <2>5, <3>2
    <3> QED BY <2>6, <3>1, <3>2
  <2>8. ASSUME NEW k \in 1 .. n, NEW p \in ToSet(paths), p.svc = svc, p.port = ports[k]
        PROVE  \E r \in ToSet(f[n]) : r.ingress /\ r.port = p.port /\ r.route = p.route
    <3>1. CASE k \in 1 .. n - 1
      BY <2>1, <2>5, <2>8, <3>1
    <3>2. CASE k = n
      <4>1. PICK r \in ToSet(w) : r.ingress /\ r.route = p.route
        BY <2>4, <2>8, <3>2
      <4>2. r.port = p.port
        <5>1. \A m \in 1 .. Len(w) : w[m].port = ports[n]
          BY <2>4 DEF IsRowOf
        <5>2. PICK m \in 1 .. Len(w) : w[m] = r
          BY <2>4, ToSetFacts
        <5> QED BY <2>8, <3>2, <5>1, <5>2
      <4> QED BY <2>5, <4>1, <4>2
    <3> QED BY <2>2, <3>1, <3>2
  <2>9. ASSUME Clean PROVE Distinct(f[n])
    <3> SUFFICES ASSUME NEW l \in 1 .. Len(f[n]), NEW m \in 1 .. Len(f[n]), f[n][l].ingress, f[n][m].ingress,
                        f[n][l].port = f[n][m].port, f[n][l].route = f[n][m].route
                 PROVE  l = m
      OBVIOUS
    <3>0. ASSUME NEW i \in 1 .. Len(v), NEW j \in 1 .. Len(w) PROVE v[i].port # w[j].port
      <4>1. PICK k \in 1 .. n - 1 : IsRowOf(v[i], ports[k], paths, svc)
        BY <2>1
      <4>2. v[i].port = ports[k] /\ w[j].port = ports[n]
        BY <2>4, <4>1 DEF IsRowOf
      <4>3. DOMAIN ports = 1 .. N
        BY <1>0, SeqFacts DEF N
      <4>4. k \in 1 .. N /\ k # n
        BY <1>2
      <4> QED BY <2>9, <4>2, <4>3, <4>4 DEF IsInjective
    <3>a. Distinct(v)
      BY <2>1, <2>9
    <3>b. \A i, j \in 1 .. Len(w) : w[i].ingress /\ w[j].ingress /\ w[i].route = w[j].route => i = j
      BY <2>4, <2>9
    <3>1. CASE l \in 1 .. Len(v) /\ m \in 1 .. Len(v)
      <4>1. f[n][l] = v[l] /\ f[n][m] = v[m]
        BY <2>5, <3>1
      <4>2. v[l].ingress /\ v[m].ingress /\ v[l].port = v[m].port /\ v[l].route = v[m].route
        BY <4>1
      <4> QED BY <3>a, <3>1, <4>2
    <3>2. CASE l \in 1 .. Len(v) /\ \E j \in 1 .. Len(w) : m = Len(v) + j
      <4>1. PICK j \in 1 .. Len(w) : m = Len(v) + j
        BY <3>2
      <4>2. f[n][l] = v[l] /\ f[n][m] = w[j]
        BY <2>5, <3>2, <4>1
      <4>3. v[l].port = w[j].port
        BY <4>2
      <4> QED BY <3>0, <3>2, <4>3
    <3>3. CASE m \in 1 .. Len(v) /\ \E j \in 1 .. Len(w) : l = Len(v) + j
      <4>1. PICK j \in 1 .. Len(w) : l = Len(v) + j
        BY <3>3
      <4>2. f[n][m] = v[m] /\ f[n][l] = w[j]
        BY <2>5, <3>3, <4>1
      <4>3. v[m].port = w[j].port
        BY <4>2
      <4> QED BY <3>0, <3>3, <4>3
    <3>4. CASE (\E j \in 1 .. Len(w) : l = Len(v) + j) /\ \E j \in 1 .. Len(w) : m = Len(v) + j
      <4>1. PICK i \in 1 .. Len(w) : l = Len(v) + i
        BY <3>4
      <4>2. PICK j \in 1 .. Len(w) : m = Len(v) + j
        BY <3>4
      <4>3. f[n][l] = w[i] /\ f[n][m] = w[j]
        BY <2>5, <4>1, <4>2
      <4>4. w[i].ingress /\ w[j].ingress /\ w[i].route = w[j].route
        BY <4>3
      <4> QED BY <3>b, <4>1, <4>2, <4>4
    <3> QED BY <2>6, <3>1, <3>2, <3>3, <3>4
  <2> HIDE DEF Clean, Distinct
  <2> QED BY <2>2, <2>7, <2>8, <2>9
<1>5. N \in T
  <2> HIDE DEF T
  <2> QED BY <1>2, <1>3, <1>4, UpTo, Zenon
<1>6. IsSeq(f[N])
  BY <1>1, <1>2
<1>7. \A m \in 1 .. Len(f[N]) : \E port \in ToSet(ports) : IsRowOf(f[N][m], port, paths, svc)
  <2>1. \A k \in 1 .. N : ports[k] \in ToSet(ports)
    BY <1>0, ToSetFacts DEF N
  <2> QED BY <1>5, <2>1
<1>8. \A p \in ToSet(paths) : p.svc = svc /\ p.port \in ToSet(ports) =>
        \E r \in ToSet(f[N]) : r.ingress /\ r.port = p.port /\ r.route = p.route
  <2>1. \A e \in ToSet(ports) : \E k \in 1 .. N : ports[k] = e
    BY <1>0, ToSetFacts DEF N
  <2> QED BY <1>5, <2>1
<1>9. Clean => Distinct(f[N])
  BY <1>5
<1> QED BY <1>a, <1>6, <1>7, <1>8, <1>9 DEF ports

-----------------------------------------------------------------------------
(* Patched: a list after a patch by position.                              *)

LEMMA SubSeqFacts ==
  ASSUME NEW s, IsSeq(s), NEW m \in Nat, m >= 1, NEW n \in Nat, n <= Len(s)
  PROVE  /\ IsSeq(SubSeq(s, m, n))
         /\ m <= n => Len(SubSeq(s, m, n)) = n - m + 1
         /\ m > n => Len(SubSeq(s, m, n)) = 0
         /\ \A i \in 1 .. n - m + 1 : SubSeq(s, m, n)[i] = s[m + i - 1]
<1>1. \A i \in m .. n : s[i] \in ToSet(s)
  <2>1. Len(s) \in Nat
    BY SeqFacts
  <2> QED BY <2>1, ToSetFacts
<1>2. /\ SubSeq(s, m, n) \in Seq(ToSet(s)) /\ Len(SubSeq(s, m, n)) = IF m <= n THEN n - m + 1 ELSE 0
      /\ \A i \in 1 .. n - m + 1 : SubSeq(s, m, n)[i] = s[m + i - 1]
  BY <1>1, SubSeqProperties
<1> QED BY <1>2 DEF IsSeq

LEMMA PrefixFacts ==
  ASSUME NEW s, IsSeq(s), NEW n \in Nat, n <= Len(s)
  PROVE  IsSeq(SubSeq(s, 1, n)) /\ Len(SubSeq(s, 1, n)) = n /\ \A i \in 1 .. n : SubSeq(s, 1, n)[i] = s[i]
<1> DEFINE t == SubSeq(s, 1, n)
<1>1. /\ IsSeq(t) /\ (1 <= n => Len(t) = n - 1 + 1) /\ (1 > n => Len(t) = 0)
      /\ \A i \in 1 .. n - 1 + 1 : t[i] = s[1 + i - 1]
  BY SubSeqFacts
<1> HIDE DEF t
<1>2. Len(t) = n
  BY <1>1
<1>3. \A i \in 1 .. n : i \in 1 .. n - 1 + 1 /\ 1 + i - 1 = i
  OBVIOUS
<1>4. \A i \in 1 .. n : t[i] = s[i]
  BY <1>1, <1>3
<1> QED BY <1>1, <1>2, <1>4 DEF t

LEMMA RemoveAtFacts ==
  ASSUME NEW F, NEW R, R \subseteq F, NEW s, Shaped(s, F, R), NEW i \in 1 .. Len(s)
  PROVE  Shaped(RemoveAt(s, i), F, R)
<1> DEFINE a == SubSeq(s, 1, i - 1)
           b == SubSeq(s, i + 1, Len(s))
<1>1. IsSeq(s) /\ Len(s) \in Nat /\ \A j \in 1 .. Len(s) : s[j] \in IF j = 1 THEN F ELSE R
  BY SeqFacts DEF Shaped
<1>2. IsSeq(a) /\ Len(a) = i - 1 /\ \A j \in 1 .. i - 1 : a[j] = s[j]
  BY <1>1, SubSeqFacts
<1>3. IsSeq(b) /\ Len(b) = Len(s) - i /\ \A j \in 1 .. Len(s) - i : b[j] = s[i + j]
  BY <1>1, SubSeqFacts
<1>4. RemoveAt(s, i) = a \o b
  BY DEF RemoveAt
<1> HIDE DEF a, b
<1>5. /\ IsSeq(a \o b) /\ Len(a \o b) = Len(s) - 1
      /\ \A j \in 1 .. i - 1 : (a \o b)[j] = s[j]
      /\ \A j \in 1 .. Len(s) - i : (a \o b)[(i - 1) + j] = s[i + j]
  BY <1>1, <1>2, <1>3, ConcatFacts
<1>6. ASSUME NEW j \in 1 .. Len(s) - 1 PROVE (a \o b)[j] \in IF j = 1 THEN F ELSE R
  <2>1. CASE j <= i - 1
    BY <1>1, <1>5, <2>1
  <2>2. CASE j > i - 1
    <3>1. j - (i - 1) \in 1 .. Len(s) - i /\ (i - 1) + (j - (i - 1)) = j /\ i + (j - (i - 1)) = j + 1
      BY <1>1, <2>2
    <3>2. (a \o b)[j] = s[j + 1]
      BY <1>5, <3>1
    <3> QED BY <1>1, <3>2
  <2>3. j <= i - 1 \/ j > i - 1
    BY <1>1
  <2> QED BY <2>1, <2>2, <2>3
<1> QED BY <1>4, <1>5, <1>6 DEF Shaped

LEMMA ShapedTail ==
  ASSUME NEW F, NEW R, R \subseteq F, NEW s, Shaped(s, F, R), NEW m \in Nat, m >= 2, NEW n \in Nat, n <= Len(s)
  PROVE  Shaped(SubSeq(s, m, n), R, R)
<1>1. IsSeq(s) /\ Len(s) \in Nat /\ \A j \in 1 .. Len(s) : s[j] \in IF j = 1 THEN F ELSE R
  BY SeqFacts DEF Shaped
<1> DEFINE t == SubSeq(s, m, n)
<1>2. /\ IsSeq(t) /\ (m <= n => Len(t) = n - m + 1) /\ (m > n => Len(t) = 0)
      /\ \A j \in 1 .. n - m + 1 : t[j] = s[m + j - 1]
  <2>1. m >= 1
    OBVIOUS
  <2> QED BY <1>1, <2>1, SubSeqFacts
<1> HIDE DEF t
<1>3. ASSUME NEW j \in 1 .. Len(t) PROVE t[j] \in R
  <2>1. j \in 1 .. n - m + 1 /\ m + j - 1 \in 1 .. Len(s) /\ m + j - 1 # 1
    BY <1>1, <1>2
  <2> QED BY <1>1, <1>2, <2>1
<1>4. \A j \in 1 .. Len(t) : t[j] \in IF j = 1 THEN R ELSE R
  BY <1>3
<1> QED BY <1>2, <1>4 DEF Shaped, t

LEMMA ShapedHead ==
  ASSUME NEW F, NEW R, R \subseteq F, NEW s, Shaped(s, F, R), NEW n \in Nat, n >= 1, n <= Len(s)
  PROVE  Shaped(SubSeq(s, 1, n), F, R) /\ SubSeq(s, 1, n) # <<>> /\ SubSeq(s, 1, n)[1] = s[1]
<1>1. IsSeq(s) /\ Len(s) \in Nat /\ \A j \in 1 .. Len(s) : s[j] \in IF j = 1 THEN F ELSE R
  BY SeqFacts DEF Shaped
<1> DEFINE t == SubSeq(s, 1, n)
<1>2. IsSeq(t) /\ Len(t) = n /\ \A j \in 1 .. n : t[j] = s[j]
  BY <1>1, PrefixFacts
<1> HIDE DEF t
<1>3. \A j \in 1 .. Len(t) : t[j] \in IF j = 1 THEN F ELSE R
  BY <1>1, <1>2
<1>4. t # <<>> /\ t[1] = s[1]
  BY <1>2, EmptyFacts
<1>5. Shaped(t, F, R)
  BY <1>2, <1>3 DEF Shaped
<1> QED BY <1>4, <1>5 DEF t

LEMMA ShapedConcat ==
  ASSUME NEW F, NEW R, R \subseteq F, NEW s, Shaped(s, F, R), s # <<>>, NEW t, Shaped(t, R, R)
  PROVE  Shaped(s \o t, F, R) /\ s \o t # <<>> /\ (s \o t)[1] = s[1]
<1>1. /\ IsSeq(s) /\ Len(s) \in Nat /\ Len(s) # 0 /\ \A j \in 1 .. Len(s) : s[j] \in IF j = 1 THEN F ELSE R
      /\ IsSeq(t) /\ Len(t) \in Nat /\ \A j \in 1 .. Len(t) : t[j] \in R
  BY SeqFacts DEF Shaped
<1>2. /\ IsSeq(s \o t) /\ Len(s \o t) = Len(s) + Len(t)
      /\ \A j \in 1 .. Len(s) : (s \o t)[j] = s[j]
      /\ \A j \in 1 .. Len(t) : (s \o t)[Len(s) + j] = t[j]
  BY <1>1, ConcatFacts
<1>3. ASSUME NEW j \in 1 .. Len(s \o t) PROVE (s \o t)[j] \in IF j = 1 THEN F ELSE R
  <2>1. CASE j <= Len(s)
    BY <1>1, <1>2, <2>1
  <2>2. CASE j > Len(s)
    <3>1. j - Len(s) \in 1 .. Len(t) /\ Len(s) + (j - Len(s)) = j /\ j # 1
      BY <1>1, <1>2, <2>2
    <3>2. (s \o t)[j] = t[j - Len(s)]
      BY <1>2, <3>1
    <3> QED BY <1>1, <3>1, <3>2
  <2>3. j <= Len(s) \/ j > Len(s)
    BY <1>1, <1>2
  <2> QED BY <2>1, <2>2, <2>3
<1>4. s \o t # <<>> /\ (s \o t)[1] = s[1]
  <2>1. Len(s \o t) # 0 /\ 1 \in 1 .. Len(s)
    BY <1>1, <1>2
  <2> QED BY <1>2, <2>1, EmptyFacts
<1> QED BY <1>2, <1>3, <1>4 DEF Shaped

\* A patch that applies mixes the lists by position.
LEMMA PatchedShaped ==
  ASSUME NEW F, NEW R, R \subseteq F, NEW old, Shaped(old, F, R), NEW new, Shaped(new, F, R),
         NEW current, Shaped(current, F, R), PatchApplies(old, new, current)
  PROVE  /\ Shaped(Patched(old, new, current), F, R)
         /\ old # <<>> /\ new # <<>> /\ current # <<>>
              => /\ Patched(old, new, current) # <<>>
                 /\ old[1] = new[1] => Patched(old, new, current)[1] = current[1]
<1>1. CASE old = new
  BY <1>1 DEF Patched
<1>2. CASE old # new /\ (old = <<>> \/ new = <<>>)
  BY <1>2 DEF Patched
<1>3. CASE old # new /\ ~(old = <<>> \/ new = <<>>)
  <2> DEFINE o == Len(old)
             n == Len(new)
             c == Len(current)
             both == [i \in DOMAIN current |->
               IF i \in DOMAIN old \cap DOMAIN new /\ old[i] # new[i] THEN new[i] ELSE current[i]]
             after == SubSeq(both, o + 1, Len(both))
             P == Patched(old, new, current)
  <2>1. P = IF n = o THEN both
            ELSE IF n < o THEN SubSeq(both, 1, n) \o after
            ELSE SubSeq(both, 1, o) \o SubSeq(new, o + 1, n) \o after
    BY <1>3 DEF Patched
  <2>2. n # o => c >= o
    BY <1>3 DEF PatchApplies
  <2>3. /\ IsSeq(old) /\ o \in Nat /\ o # 0 /\ DOMAIN old = 1 .. o
        /\ IsSeq(new) /\ n \in Nat /\ n # 0 /\ DOMAIN new = 1 .. n
        /\ IsSeq(current) /\ c \in Nat /\ DOMAIN current = 1 .. c
        /\ (current # <<>> <=> c # 0)
    <3>1. IsSeq(old) /\ IsSeq(new) /\ IsSeq(current)
      BY DEF Shaped
    <3> QED BY <1>3, <3>1, SeqFacts
  <2>4. IsSeq(both) /\ Len(both) = c
    BY <2>3, MappedSeq
  <2>5. \A j \in 1 .. c : both[j] \in {current[j]} \cup (IF j \in 1 .. n THEN {new[j]} ELSE {})
    BY <2>3
  <2>a. 1 \in 1 .. c => (old[1] = new[1] => both[1] = current[1])
    BY <2>3
  <2>6. Shaped(both, F, R)
    <3> HIDE DEF both
    <3>1. /\ \A j \in 1 .. c : current[j] \in IF j = 1 THEN F ELSE R
          /\ \A j \in 1 .. n : new[j] \in IF j = 1 THEN F ELSE R
      BY DEF Shaped
    <3> HIDE DEF o, n, c
    <3> QED BY <2>4, <2>5, <3>1 DEF Shaped
  <2> HIDE DEF both, P, o, n, c
  <2>7. c # 0 => both # <<>> /\ (old[1] = new[1] => both[1] = current[1])
    <3>1. c # 0 => 1 \in 1 .. c
      BY <2>3
    <3> QED BY <2>4, <2>a, <3>1, SeqFacts
  <2>8. CASE n = o
    <3>1. P = both
      BY <2>1, <2>8
    <3> QED BY <2>3, <2>6, <2>7, <3>1 DEF P
  <2>9. CASE n # o
    <3>1. o <= c /\ c # 0 /\ c <= c /\ o + 1 \in Nat /\ o + 1 >= 2 /\ o >= 1 /\ n >= 1
      BY <2>2, <2>3, <2>9
    <3>2. Shaped(after, R, R)
      <4>1. after = SubSeq(both, o + 1, c)
        BY <2>4
      <4> HIDE DEF after
      <4> QED BY <2>3, <2>4, <2>6, <3>1, <4>1, ShapedTail
    <3> HIDE DEF after
    <3>3. CASE n < o
      <4> DEFINE a == SubSeq(both, 1, n)
      <4>0. n <= Len(both)
        BY <2>3, <2>4, <3>1, <3>3
      <4>1. Shaped(a, F, R) /\ a # <<>> /\ a[1] = both[1]
        BY <2>3, <2>6, <3>1, <4>0, ShapedHead
      <4>2. P = a \o after
        BY <2>1, <2>9, <3>3
      <4> HIDE DEF a
      <4>3. Shaped(P, F, R) /\ P # <<>> /\ P[1] = a[1]
        BY <3>2, <4>1, <4>2, ShapedConcat
      <4> QED BY <2>7, <3>1, <4>1, <4>3 DEF P
    <3>4. CASE ~(n < o)
      <4> DEFINE a == SubSeq(both, 1, o)
                 b == SubSeq(new, o + 1, n)
      <4>1. Shaped(a, F, R) /\ a # <<>> /\ a[1] = both[1]
        <5>1. o <= Len(both)
          BY <2>4, <3>1
        <5> QED BY <2>3, <2>6, <3>1, <5>1, ShapedHead
      <4>2. Shaped(b, R, R)
        <5>1. n <= Len(new)
          BY <2>3 DEF n
        <5> QED BY <2>3, <3>1, <5>1, ShapedTail
      <4>3. P = (a \o b) \o after
        BY <2>1, <2>9, <3>4
      <4> HIDE DEF a, b
      <4>4. Shaped(a \o b, F, R) /\ a \o b # <<>> /\ (a \o b)[1] = a[1]
        BY <4>1, <4>2, ShapedConcat
      <4> DEFINE d == a \o b
      <4>5. Shaped(d, F, R) /\ d # <<>> /\ d[1] = a[1] /\ P = d \o after
        BY <4>3, <4>4
      <4> HIDE DEF d
      <4>6. Shaped(P, F, R) /\ P # <<>> /\ P[1] = d[1]
        BY <3>2, <4>5, ShapedConcat
      <4> QED BY <2>7, <3>1, <4>1, <4>5, <4>6 DEF P
    <3> QED BY <3>3, <3>4
  <2> QED BY <2>8, <2>9
<1> QED BY <1>1, <1>2, <1>3

\* A patch of the list it was computed from gives the other one.
LEMMA PatchedWhole ==
  ASSUME NEW old, IsSeq(old), NEW new, IsSeq(new)
  PROVE  Patched(old, new, old) = new
<1>1. CASE old = new \/ old = <<>> \/ new = <<>>
  BY <1>1 DEF Patched
<1>2. CASE ~(old = new \/ old = <<>> \/ new = <<>>)
  <2> DEFINE o == Len(old)
             n == Len(new)
             both == [i \in DOMAIN old |-> IF i \in DOMAIN old \cap DOMAIN new /\ old[i] # new[i] THEN new[i] ELSE old[i]]
             after == SubSeq(both, o + 1, Len(both))
             P == Patched(old, new, old)
  <2>1. P = IF n = o THEN both
            ELSE IF n < o THEN SubSeq(both, 1, n) \o after
            ELSE SubSeq(both, 1, o) \o SubSeq(new, o + 1, n) \o after
    BY <1>2 DEF Patched
  <2>2. /\ o \in Nat /\ o # 0 /\ DOMAIN old = 1 .. o
        /\ n \in Nat /\ n # 0 /\ DOMAIN new = 1 .. n
    BY <1>2, SeqFacts
  <2>3. IsSeq(both) /\ Len(both) = o
    BY MappedSeq
  <2>4. \A j \in 1 .. o : j \in 1 .. n => both[j] = new[j]
    BY <2>2
  <2> HIDE DEF both, P, o, n
  <2>5. after = <<>> /\ o + 1 \in Nat /\ o + 1 >= 1
    <3>1. o + 1 \in Nat /\ o + 1 >= 1 /\ Len(both) \in Nat /\ Len(both) <= Len(both) /\ o + 1 > Len(both)
      BY <2>2, <2>3
    <3>2. IsSeq(after) /\ Len(after) = 0
      BY <2>3, <3>1, SubSeqFacts
    <3> HIDE DEF after
    <3>3. after = <<>>
      BY <3>2, SeqFacts
    <3> QED BY <3>1, <3>3
  <2> HIDE DEF after
  <2>6. CASE n = o
    <3>1. P = both
      BY <2>1, <2>6
    <3>2. \A j \in 1 .. Len(both) : both[j] = new[j]
      BY <2>3, <2>4, <2>6
    <3>3. Len(both) = Len(new)
      BY <2>3, <2>6 DEF n
    <3>4. both = new
      BY <2>3, <3>2, <3>3, SeqsEqual
    <3> QED BY <3>1, <3>4 DEF P
  <2>7. CASE n < o
    <3> DEFINE a == SubSeq(both, 1, n)
    <3>1. n <= Len(both) /\ \A j \in 1 .. n : j \in 1 .. o
      BY <2>2, <2>3, <2>7
    <3>2. IsSeq(a) /\ Len(a) = n /\ \A j \in 1 .. n : a[j] = both[j]
      BY <2>2, <2>3, <3>1, PrefixFacts
    <3>3. P = a \o after
      BY <2>1, <2>2, <2>7
    <3> HIDE DEF a
    <3>4. \A j \in 1 .. Len(a) : a[j] = new[j]
      BY <2>4, <3>1, <3>2
    <3>5. Len(a) = Len(new)
      BY <3>2 DEF n
    <3>6. a = new
      BY <3>2, <3>4, <3>5, SeqsEqual
    <3>7. a \o <<>> = a
      BY <3>2 DEF IsSeq
    <3> QED BY <2>5, <3>3, <3>6, <3>7 DEF P
  <2>8. CASE n > o
    <3> DEFINE a == SubSeq(both, 1, o)
               b == SubSeq(new, o + 1, n)
    <3>1. o <= Len(both) /\ n <= Len(new) /\ o + 1 <= n
      BY <2>2, <2>3, <2>8 DEF n
    <3>2. IsSeq(a) /\ Len(a) = o /\ \A j \in 1 .. o : a[j] = both[j]
      BY <2>2, <2>3, <3>1, PrefixFacts
    <3>3. IsSeq(b) /\ Len(b) = n - (o + 1) + 1 /\ \A j \in 1 .. n - (o + 1) + 1 : b[j] = new[(o + 1) + j - 1]
      BY <2>2, <2>5, <3>1, SubSeqFacts
    <3>4. P = (a \o b) \o after
      BY <2>1, <2>2, <2>8
    <3> HIDE DEF a, b
    <3> DEFINE d == a \o b
    <3>5. /\ IsSeq(d) /\ Len(d) = Len(a) + Len(b)
          /\ \A j \in 1 .. Len(a) : d[j] = a[j]
          /\ \A j \in 1 .. Len(b) : d[Len(a) + j] = b[j]
      <4>1. IsSeq(a) /\ IsSeq(b)
        BY <3>2, <3>3
      <4> QED BY <4>1, ConcatFacts
    <3>6. P = d \o after
      BY <3>4
    <3> HIDE DEF d
    <3>7. Len(d) = n
      BY <2>2, <3>2, <3>3, <3>5
    <3>8. ASSUME NEW j \in 1 .. n PROVE d[j] = new[j]
      <4>1. CASE j <= o
        <5>1. j \in 1 .. o
          BY <2>2, <4>1
        <5> QED BY <2>4, <3>2, <3>5, <5>1
      <4>2. CASE j > o
        <5>1. j - o \in 1 .. n - (o + 1) + 1 /\ o + (j - o) = j /\ (o + 1) + (j - o) - 1 = j
          BY <2>2, <4>2
        <5>2. d[j] = b[j - o]
          BY <3>2, <3>3, <3>5, <5>1
        <5> QED BY <3>3, <5>1, <5>2
      <4>3. j <= o \/ j > o
        BY <2>2
      <4> QED BY <4>1, <4>2, <4>3
    <3>9. Len(d) = Len(new)
      BY <3>7 DEF n
    <3>10. d = new
      BY <3>5, <3>7, <3>8, <3>9, SeqsEqual
    <3>11. d \o <<>> = d
      BY <3>5 DEF IsSeq
    <3> QED BY <2>5, <3>6, <3>10, <3>11 DEF P
  <2>9. n = o \/ n < o \/ n > o
    BY <2>2
  <2> QED BY <2>6, <2>7, <2>8, <2>9
<1> QED BY <1>1, <1>2

-----------------------------------------------------------------------------
(* The ports that were read: the rows of a service have its ports.         *)

\* What is met once in a list and is in the set is met once in that part.
LEMMA AmongDistinct ==
  ASSUME NEW s, IsSeq(s), NEW S, \A i, j \in 1 .. Len(s) : s[i] \in S /\ s[i] = s[j] => i = j
  PROVE  IsInjective(Among(s, S))
<1>a. PICK f : AmongBy(f, s, S)
  BY AmongSteps
<1>1. /\ Among(s, S) = f[Len(s)] /\ f[0] = <<>> /\ f \in [0 .. Len(s) -> Seq(ToSet(s))]
      /\ \A n \in 1 .. Len(s) : f[n] = IF s[n] \in S THEN Append(f[n - 1], s[n]) ELSE f[n - 1]
  BY <1>a DEF AmongBy
<1>2. Len(s) \in Nat /\ DOMAIN s = 1 .. Len(s)
  BY SeqFacts
<1>3. \A n \in 0 .. Len(s) : IsSeq(f[n])
  BY <1>1 DEF IsSeq
<1> DEFINE T == {n \in 0 .. Len(s) : /\ \A i, j \in 1 .. Len(f[n]) : f[n][i] = f[n][j] => i = j
                                     /\ \A i \in 1 .. Len(f[n]) : \E j \in 1 .. n : f[n][i] = s[j]}
<1>4. 0 \in T
  BY <1>1, <1>2, EmptyFacts
<1>5. ASSUME NEW n \in 1 .. Len(s), n - 1 \in T PROVE n \in T
  <2>1. n \in 0 .. Len(s) /\ n - 1 \in 0 .. Len(s) /\ 1 .. n - 1 \subseteq 1 .. n /\ n \notin 1 .. n - 1
    BY <1>2
  <2> DEFINE g == f[n - 1]
  <2>2. /\ \A i, j \in 1 .. Len(g) : g[i] = g[j] => i = j
        /\ \A i \in 1 .. Len(g) : \E j \in 1 .. n - 1 : g[i] = s[j]
    BY <1>5
  <2>4. IsSeq(g) /\ Len(g) \in Nat
    BY <1>3, <2>1, SeqFacts
  <2>5. CASE s[n] \in S
    <3>0. \A j \in 1 .. n - 1 : s[j] # s[n]
      BY <1>2, <2>1, <2>5
    <3>1. f[n] = Append(g, s[n])
      BY <1>1, <2>5
    <3> HIDE DEF g
    <3>2. /\ Len(f[n]) = Len(g) + 1 /\ f[n][Len(g) + 1] = s[n]
          /\ \A i \in 1 .. Len(g) : f[n][i] = g[i]
      BY <2>4, <3>1, AppendFacts
    <3>3. \A i \in 1 .. Len(f[n]) : i \in 1 .. Len(g) \/ i = Len(g) + 1
      BY <2>4, <3>2
    <3>4. \A i, j \in 1 .. Len(f[n]) : f[n][i] = f[n][j] => i = j
      BY <2>2, <3>0, <3>2, <3>3
    <3>5. \A i \in 1 .. Len(f[n]) : \E j \in 1 .. n : f[n][i] = s[j]
      BY <2>1, <2>2, <3>2, <3>3
    <3> QED BY <2>1, <3>4, <3>5
  <2>6. CASE s[n] \notin S
    <3>1. f[n] = g
      BY <1>1, <2>6
    <3> QED BY <2>1, <2>2, <3>1
  <2> QED BY <2>5, <2>6
<1>6. Len(s) \in T
  <2> HIDE DEF T
  <2> QED BY <1>2, <1>4, <1>5, UpTo, Zenon
<1>7. DOMAIN Among(s, S) = 1 .. Len(Among(s, S))
  BY AmongElements, SeqFacts
<1> QED BY <1>1, <1>6, <1>7 DEF IsInjective

\* A new element at the end, however often, is added once.
LEMMA UniqBlock ==
  ASSUME NEW s, IsSeq(s), NEW t, IsSeq(t), NEW e, e \notin ToSet(s), t # <<>>, \A i \in 1 .. Len(t) : t[i] = e
  PROVE  Uniq(s \o t) = Append(Uniq(s), e)
<1> DEFINE u == s \o t
           M == Len(s)
           N == Len(u)
<1>1. /\ IsSeq(u) /\ N = M + Len(t) /\ M \in Nat /\ Len(t) \in Nat /\ Len(t) # 0
      /\ \A i \in 1 .. M : u[i] = s[i]
      /\ \A i \in 1 .. Len(t) : u[M + i] = e
  BY ConcatFacts, SeqFacts
<1>2. \A i \in 1 .. M : s[i] # e
  BY ToSetFacts
<1>3. \A i \in M + 1 .. N : u[i] = e
  <2> SUFFICES ASSUME NEW i \in M + 1 .. N PROVE u[i] = e
    OBVIOUS
  <2>1. i - M \in 1 .. Len(t) /\ i = M + (i - M)
    BY <1>1
  <2> QED BY <1>1, <2>1
<1> HIDE DEF u
<1>a. PICK f : UniqBy(f, u)
  BY <1>1, UniqSteps
<1>b. PICK g : UniqBy(g, s)
  BY UniqSteps
<1>4. /\ Uniq(u) = f[N] /\ f[0] = <<>>
      /\ \A n \in 1 .. N : f[n] = IF \E i \in 1 .. n - 1 : u[i] = u[n] THEN f[n - 1] ELSE Append(f[n - 1], u[n])
  BY <1>a DEF UniqBy
<1>5. /\ Uniq(s) = g[M] /\ g[0] = <<>>
      /\ \A n \in 1 .. M : g[n] = IF \E i \in 1 .. n - 1 : s[i] = s[n] THEN g[n - 1] ELSE Append(g[n - 1], s[n])
  BY <1>b DEF UniqBy
<1> HIDE DEF M, N
<1>6. f[M] = g[M]
  <2> DEFINE T == {n \in 0 .. M : f[n] = g[n]}
  <2>1. 0 \in T
    BY <1>1, <1>4, <1>5
  <2>2. ASSUME NEW n \in 1 .. M, n - 1 \in T PROVE n \in T
    <3>1. n \in 1 .. N /\ u[n] = s[n] /\ n \in 0 .. M /\ f[n - 1] = g[n - 1]
      BY <1>1, <2>2
    <3>2. \A i \in 1 .. n - 1 : u[i] = s[i]
      BY <1>1
    <3>3. (\E i \in 1 .. n - 1 : u[i] = u[n]) <=> (\E i \in 1 .. n - 1 : s[i] = s[n])
      BY <3>1, <3>2
    <3>4. f[n] = g[n]
      BY <1>4, <1>5, <3>1, <3>3
    <3> QED BY <3>1, <3>4
  <2>3. M \in T
    <3> HIDE DEF T
    <3> QED BY <1>1, <2>1, <2>2, UpTo, Zenon
  <2> QED BY <2>3
<1> DEFINE L == Len(t)
           T == {n \in 0 .. L : n # 0 => f[M + n] = Append(g[M], e)}
<1>7. 0 \in T
  BY <1>1
<1>8. ASSUME NEW n \in 1 .. L, n - 1 \in T PROVE n \in T
  <2>1. n \in 0 .. L /\ M + n \in 1 .. N /\ u[M + n] = e /\ n # 0
    BY <1>1
  <2> DEFINE k == M + n
  <2>a. k = M + n /\ k \in 1 .. N /\ u[k] = e
    BY <2>1
  <2> HIDE DEF k
  <2>2. f[k] = IF \E i \in 1 .. k - 1 : u[i] = e THEN f[k - 1] ELSE Append(f[k - 1], e)
    BY <1>4, <2>a
  <2>3. CASE n = 1
    <3>1. k - 1 = M
      BY <1>1, <2>3, <2>a
    <3>2. \A i \in 1 .. k - 1 : u[i] # e
      BY <1>1, <1>2, <3>1
    <3>3. f[k] = Append(g[M], e)
      BY <1>6, <2>2, <3>1, <3>2
    <3> QED BY <2>1, <2>a, <3>3
  <2>4. CASE n # 1
    <3>1. M + 1 \in 1 .. k - 1 /\ M + 1 \in M + 1 .. N
      BY <1>1, <2>1, <2>4, <2>a
    <3>2. u[M + 1] = e
      BY <1>3, <3>1
    <3>3. f[k] = f[k - 1]
      BY <2>2, <3>1, <3>2
    <3>4. k - 1 = M + (n - 1) /\ n - 1 # 0
      BY <1>1, <2>4, <2>a
    <3>5. f[M + (n - 1)] = Append(g[M], e)
      BY <1>8, <3>4
    <3> QED BY <2>1, <2>a, <3>3, <3>4, <3>5
  <2> QED BY <2>3, <2>4
<1>9. L \in T
  <2> HIDE DEF T
  <2> QED BY <1>1, <1>7, <1>8, UpTo, Zenon
<1>10. f[M + L] = Append(g[M], e)
  BY <1>1, <1>9
<1>11. Uniq(u) = Append(Uniq(s), e)
  BY <1>1, <1>4, <1>5, <1>10
<1> QED BY <1>11 DEF u

\* The ports of rows
PortsOf(rows) == [i \in DOMAIN rows |-> rows[i].port]

\* The ports of two lists of rows are those of one and then of the other.
LEMMA PortsOfFacts ==
  ASSUME NEW v, IsSeq(v)
  PROVE  /\ IsSeq(PortsOf(v)) /\ Len(PortsOf(v)) = Len(v) /\ \A i \in 1 .. Len(v) : PortsOf(v)[i] = v[i].port
         /\ \A w : IsSeq(w) => PortsOf(v \o w) = PortsOf(v) \o PortsOf(w)
<1>0. ASSUME NEW x, IsSeq(x)
      PROVE  IsSeq(PortsOf(x)) /\ Len(PortsOf(x)) = Len(x) /\ \A i \in 1 .. Len(x) : PortsOf(x)[i] = x[i].port
  <2>1. DOMAIN x = 1 .. Len(x)
    BY <1>0, SeqFacts
  <2>2. PortsOf(x) = [i \in DOMAIN x |-> PortsOf(x)[i]]
    BY DEF PortsOf
  <2>3. IsSeq(PortsOf(x)) /\ Len(PortsOf(x)) = Len(x)
    BY <1>0, <2>2, MappedSeq
  <2> QED BY <2>1, <2>3 DEF PortsOf
<1>1. ASSUME NEW w, IsSeq(w) PROVE PortsOf(v \o w) = PortsOf(v) \o PortsOf(w)
  <2> DEFINE a == PortsOf(v \o w)
             b == PortsOf(v) \o PortsOf(w)
  <2>1. /\ IsSeq(v \o w) /\ Len(v \o w) = Len(v) + Len(w)
        /\ \A i \in 1 .. Len(v) : (v \o w)[i] = v[i]
        /\ \A i \in 1 .. Len(w) : (v \o w)[Len(v) + i] = w[i]
    BY <1>1, ConcatFacts
  <2>2. Len(v) \in Nat /\ Len(w) \in Nat
    BY <1>1, SeqFacts
  <2>3. /\ IsSeq(a) /\ Len(a) = Len(v) + Len(w) /\ \A i \in 1 .. Len(v) + Len(w) : a[i] = (v \o w)[i].port
    BY <1>0, <2>1
  <2>4. /\ IsSeq(PortsOf(v)) /\ Len(PortsOf(v)) = Len(v) /\ \A i \in 1 .. Len(v) : PortsOf(v)[i] = v[i].port
        /\ IsSeq(PortsOf(w)) /\ Len(PortsOf(w)) = Len(w) /\ \A i \in 1 .. Len(w) : PortsOf(w)[i] = w[i].port
    BY <1>0, <1>1
  <2>5. /\ IsSeq(b) /\ Len(b) = Len(v) + Len(w)
        /\ \A i \in 1 .. Len(v) : b[i] = PortsOf(v)[i]
        /\ \A i \in 1 .. Len(w) : b[Len(v) + i] = PortsOf(w)[i]
    <3> DEFINE p == PortsOf(v)
               q == PortsOf(w)
    <3>1. IsSeq(p) /\ IsSeq(q) /\ Len(p) = Len(v) /\ Len(q) = Len(w)
      BY <2>4
    <3> HIDE DEF p, q
    <3>2. /\ IsSeq(p \o q) /\ Len(p \o q) = Len(v) + Len(w)
          /\ \A i \in 1 .. Len(v) : (p \o q)[i] = p[i]
          /\ \A i \in 1 .. Len(w) : (p \o q)[Len(v) + i] = q[i]
      BY <3>1, ConcatFacts
    <3> QED BY <3>2 DEF p, q
  <2> HIDE DEF a, b
  <2>6. ASSUME NEW i \in 1 .. Len(a) PROVE a[i] = b[i]
    <3>1. CASE i \in 1 .. Len(v)
      <4>1. a[i] = v[i].port
        BY <2>1, <2>2, <2>3, <3>1
      <4> QED BY <2>4, <2>5, <3>1, <4>1
    <3>2. CASE i \notin 1 .. Len(v)
      <4>1. PICK j \in 1 .. Len(w) : i = Len(v) + j
        <5>1. i - Len(v) \in 1 .. Len(w) /\ i = Len(v) + (i - Len(v))
          BY <2>2, <2>3, <3>2
        <5> QED BY <5>1
      <4>2. a[i] = w[j].port
        BY <2>1, <2>3, <4>1
      <4>3. b[i] = w[j].port
        BY <2>4, <2>5, <4>1
      <4> QED BY <4>2, <4>3
    <3> QED BY <3>1, <3>2
  <2>7. a = b
    BY <2>3, <2>5, <2>6, SeqsEqual
  <2> QED BY <2>7 DEF a, b
<1> QED BY <1>0, <1>1

LEMMA RowsOfPortSome ==
  ASSUME NEW paths, IsSeq(paths), NEW svc, NEW port
  PROVE  Len(RowsOfPort(port, paths, svc)) # 0
<1> DEFINE rules == Among(paths, {p \in ToSet(paths) : p.svc = svc /\ p.port = port})
           row   == [port |-> port, route |-> 0, ingress |-> FALSE, new |-> FALSE, del |-> FALSE]
           mapped == [j \in DOMAIN rules |-> [row EXCEPT !.route = rules[j].route, !.ingress = TRUE]]
<1>1. IsSeq(rules)
  BY AmongElements
<1>2. RowsOfPort(port, paths, svc) = IF rules = <<>> THEN <<row>> ELSE mapped
  BY DEF RowsOfPort
<1>3. Len(<<row>>) = 1
  OBVIOUS
<1> HIDE DEF rules, row
<1>4. Len(mapped) = Len(rules)
  BY <1>1, MappedSeq
<1>5. rules # <<>> => Len(rules) # 0
  BY <1>1, SeqFacts
<1> HIDE DEF mapped
<1> QED BY <1>2, <1>3, <1>4, <1>5

\* The ports of the rows of a service, each once, are the ports of the service.
LEMMA PortsRead ==
  ASSUME NEW service, service # None, IsSeq(service.ports), IsInjective(service.ports), NEW paths, IsSeq(paths), NEW svc
  PROVE  Uniq(PortsOf(PortRows(service, paths, svc))) = service.ports
<1> DEFINE ports == service.ports
           N == Len(ports)
<1>a. PICK f : PortRows(service, paths, svc) = f[N] /\ RowsBy(f, ports, paths, svc)
  BY RowsSteps
<1>0. IsSeq(ports) /\ IsInjective(ports)
  OBVIOUS
<1> HIDE DEF ports
<1>1. /\ f[0] = <<>>
      /\ \A n \in 0 .. N : IsSeq(f[n])
      /\ \A n \in 1 .. N : f[n] = f[n - 1] \o RowsOfPort(ports[n], paths, svc)
  BY <1>a DEF RowsBy
<1>2. N \in Nat /\ DOMAIN ports = 1 .. N
  BY <1>0, SeqFacts
<1> HIDE DEF N
<1> DEFINE T == {n \in 0 .. N :
             /\ \A m \in 1 .. Len(f[n]) : \E k \in 1 .. n : f[n][m].port = ports[k]
             /\ IsSeq(Uniq(PortsOf(f[n]))) /\ Len(Uniq(PortsOf(f[n]))) = n
             /\ \A k \in 1 .. n : Uniq(PortsOf(f[n]))[k] = ports[k]}
<1>3. 0 \in T
  <2>1. Len(f[0]) = 0 /\ PortsOf(f[0]) = <<>>
    <3>1. IsSeq(PortsOf(<<>>)) /\ Len(PortsOf(<<>>)) = Len(<<>>) /\ Len(<<>>) = 0
      BY EmptyFacts, PortsOfFacts
    <3> QED BY <1>1, <3>1, SeqFacts
  <2>2. PICK g : UniqBy(g, <<>>)
    BY EmptyFacts, UniqSteps
  <2>3. Uniq(<<>>) = <<>>
    BY <2>2, EmptyFacts DEF UniqBy
  <2> QED BY <1>2, <2>1, <2>3, EmptyFacts
<1>4. ASSUME NEW n \in 1 .. N, n - 1 \in T PROVE n \in T
  <2> DEFINE v == f[n - 1]
             w == RowsOfPort(ports[n], paths, svc)
             u == Uniq(PortsOf(v))
             e == ports[n]
  <2>1. /\ \A m \in 1 .. Len(v) : \E k \in 1 .. n - 1 : v[m].port = ports[k]
        /\ IsSeq(u) /\ Len(u) = n - 1 /\ \A k \in 1 .. n - 1 : u[k] = ports[k]
    BY <1>4
  <2>2. n \in 0 .. N /\ n - 1 \in 0 .. N /\ 1 .. n - 1 \subseteq 1 .. n /\ n \in 1 .. n /\ \A k \in 1 .. n : k \in 1 .. n - 1 \/ k = n
    BY <1>2
  <2>3. IsSeq(v) /\ f[n] = v \o w
    BY <1>1, <2>2
  <2>4. IsSeq(w) /\ Len(w) # 0 /\ \A m \in 1 .. Len(w) : w[m].port = e
    <3>1. IsSeq(w) /\ \A m \in 1 .. Len(w) : IsRowOf(w[m], ports[n], paths, svc)
      BY RowsOfPortFacts
    <3>2. Len(w) # 0
      BY RowsOfPortSome
    <3> QED BY <3>1, <3>2 DEF IsRowOf
  <2> HIDE DEF v, w, e
  <2>5. /\ Len(f[n]) = Len(v) + Len(w)
        /\ \A m \in 1 .. Len(v) : f[n][m] = v[m]
        /\ \A m \in 1 .. Len(w) : f[n][Len(v) + m] = w[m]
    BY <2>3, <2>4, ConcatFacts
  <2>6. /\ Len(v) \in Nat /\ Len(w) \in Nat
        /\ \A m \in 1 .. Len(f[n]) : m \in 1 .. Len(v) \/ \E j \in 1 .. Len(w) : m = Len(v) + j
    <3>1. Len(v) \in Nat /\ Len(w) \in Nat
      BY <2>3, <2>4, SeqFacts
    <3>2. \A m \in 1 .. Len(f[n]) : m \notin 1 .. Len(v) => m - Len(v) \in 1 .. Len(w) /\ m = Len(v) + (m - Len(v))
      BY <2>5, <3>1
    <3> QED BY <3>1, <3>2
  <2>7. ASSUME NEW m \in 1 .. Len(f[n]) PROVE \E k \in 1 .. n : f[n][m].port = ports[k]
    <3>1. CASE m \in 1 .. Len(v)
      <4>1. PICK k \in 1 .. n - 1 : v[m].port = ports[k]
        BY <2>1, <3>1
      <4> QED BY <2>2, <2>5, <3>1, <4>1
    <3>2. CASE \E j \in 1 .. Len(w) : m = Len(v) + j
      <4>1. PICK j \in 1 .. Len(w) : m = Len(v) + j
        BY <3>2
      <4>2. f[n][m] = w[j] /\ w[j].port = e
        BY <2>4, <2>5, <4>1
      <4> QED BY <2>2, <4>2 DEF e
    <3> QED BY <2>6, <3>1, <3>2
  <2>8. Uniq(PortsOf(f[n])) = Append(u, e)
    <3>1. /\ IsSeq(PortsOf(v)) /\ Len(PortsOf(v)) = Len(v) /\ \A i \in 1 .. Len(v) : PortsOf(v)[i] = v[i].port
          /\ IsSeq(PortsOf(w)) /\ Len(PortsOf(w)) = Len(w) /\ \A i \in 1 .. Len(w) : PortsOf(w)[i] = w[i].port
          /\ PortsOf(f[n]) = PortsOf(v) \o PortsOf(w)
      BY <2>3, <2>4, PortsOfFacts
    <3>2. e \notin ToSet(PortsOf(v))
      <4>1. ASSUME NEW i \in 1 .. Len(v) PROVE PortsOf(v)[i] # e
        <5>1. PICK k \in 1 .. n - 1 : v[i].port = ports[k]
          BY <2>1
        <5>2. k \in 1 .. N /\ n \in 1 .. N /\ k # n
          BY <1>2
        <5> QED BY <1>0, <1>2, <3>1, <5>1, <5>2 DEF IsInjective, e
      <4> QED BY <3>1, <4>1, ToSetFacts
    <3>3. PortsOf(w) # <<>> /\ \A i \in 1 .. Len(PortsOf(w)) : PortsOf(w)[i] = e
      BY <2>4, <3>1, EmptyFacts
    <3> DEFINE p == PortsOf(v)
               q == PortsOf(w)
    <3>4. IsSeq(p) /\ IsSeq(q) /\ e \notin ToSet(p) /\ q # <<>> /\ \A i \in 1 .. Len(q) : q[i] = e
      BY <3>1, <3>2, <3>3
    <3> HIDE DEF p, q
    <3>5. Uniq(p \o q) = Append(Uniq(p), e)
      BY <3>4, UniqBlock
    <3> QED BY <3>1, <3>5 DEF p, q
  <2> HIDE DEF u
  <2>9. /\ IsSeq(Append(u, e)) /\ Len(Append(u, e)) = n
        /\ \A k \in 1 .. n : Append(u, e)[k] = ports[k]
    <3>1. /\ IsSeq(Append(u, e)) /\ Len(Append(u, e)) = Len(u) + 1
          /\ Append(u, e)[Len(u) + 1] = e
          /\ \A i \in 1 .. Len(u) : Append(u, e)[i] = u[i]
      BY <2>1, AppendFacts
    <3>2. Len(u) + 1 = n /\ 1 .. Len(u) = 1 .. n - 1
      BY <1>2, <2>1
    <3> QED BY <2>1, <2>2, <3>1, <3>2 DEF e
  <2> QED BY <2>2, <2>7, <2>8, <2>9
<1>5. N \in T
  <2> HIDE DEF T
  <2> QED BY <1>2, <1>3, <1>4, UpTo, Zenon
<1>6. Uniq(PortsOf(f[N])) = ports
  <2> DEFINE a == Uniq(PortsOf(f[N]))
  <2>1. IsSeq(a) /\ Len(a) = N /\ \A k \in 1 .. N : a[k] = ports[k]
    BY <1>5
  <2> HIDE DEF a
  <2>2. a = ports
    BY <1>0, <2>1, SeqsEqual DEF N
  <2> QED BY <2>2 DEF a
<1> QED BY <1>a, <1>6 DEF ports

-----------------------------------------------------------------------------
(* The paths of an ingress after the rows, as a set                        *)

\* The routes of the rows that go, and of those that are new
Gone(rows, svc)  == {RouteOf(svc, rows[n]) : n \in {m \in 1 .. Len(rows) : rows[m].ingress /\ rows[m].del}}
Added(rows, svc) == {RouteOf(svc, rows[n]) : n \in {m \in 1 .. Len(rows) : rows[m].ingress /\ rows[m].new}}

\* New rows come after the others, and are not marked.
Ordered(rows) ==
  /\ \A n \in 1 .. Len(rows) : rows[n].new => ~rows[n].del
  /\ \A m, n \in 1 .. Len(rows) : m < n /\ rows[m].new => rows[n].new

\* Each new route is there once, if it is not one of those that stay.
Fresh(paths, rows, svc) ==
  /\ IsInjective(paths)
  /\ \A n \in 1 .. Len(rows) : rows[n].ingress /\ rows[n].new =>
       /\ RouteOf(svc, rows[n]) \notin ToSet(paths) \ Gone(rows, svc)
       /\ \A m \in 1 .. Len(rows) : rows[m].ingress /\ rows[m].new /\ RouteOf(svc, rows[m]) = RouteOf(svc, rows[n]) => m = n

\* The paths of an ingress after the rows of a form: without those that go, with those that
\* are new.
LEMMA IngressIs ==
  ASSUME NEW paths, IsSeq(paths), NEW rows, IsSeq(rows), NEW svc, Removable(paths, rows, svc), Ordered(rows)
  PROVE  /\ ToSet(ToIngress(paths, rows, svc)) = (ToSet(paths) \ Gone(rows, svc)) \cup Added(rows, svc)
         /\ Fresh(paths, rows, svc) => IsInjective(ToIngress(paths, rows, svc))
<1>a. PICK f : IngressBy(f, paths, rows, svc)
  BY IngressSteps
<1>1. /\ ToIngress(paths, rows, svc) = f[Len(rows)] /\ f[0] = paths
      /\ \A n \in 0 .. Len(rows) : IsSeq(f[n])
      /\ \A n \in 1 .. Len(rows) : f[n] = RouteChanged(svc, f[n - 1], rows[n])
  BY <1>a DEF IngressBy
<1> DEFINE N == Len(rows)
           Goes(m) == rows[m].ingress /\ rows[m].del
           Comes(m) == rows[m].ingress /\ rows[m].new
           R(m) == RouteOf(svc, rows[m])
           GoneTo(n) == {R(m) : m \in {k \in 1 .. n : Goes(k)}}
           AddedTo(n) == {R(m) : m \in {k \in 1 .. n : Comes(k)}}
           T == {n \in 0 .. N : /\ ToSet(f[n]) = (ToSet(paths) \ GoneTo(n)) \cup AddedTo(n)
                                /\ Fresh(paths, rows, svc) => IsInjective(f[n])}
<1>2. N \in Nat
  BY SeqFacts
<1>3. 0 \in T
  <2>1. GoneTo(0) = {} /\ AddedTo(0) = {}
    OBVIOUS
  <2> QED BY <1>1, <1>2, <2>1 DEF Fresh
<1>4. ASSUME NEW n \in 1 .. N, n - 1 \in T PROVE n \in T
  <2> DEFINE v == f[n - 1]
             G == GoneTo(n - 1)
             A == AddedTo(n - 1)
             route == R(n)
  <2>1. /\ n \in 0 .. N /\ n - 1 \in 0 .. N /\ IsSeq(v) /\ f[n] = RouteChanged(svc, v, rows[n])
    BY <1>1, <1>2
  <2>2. ToSet(v) = (ToSet(paths) \ G) \cup A /\ (Fresh(paths, rows, svc) => IsInjective(v))
    BY <1>4
  <2>3. /\ 1 .. n - 1 \subseteq 1 .. n /\ n \in 1 .. n /\ \A k \in 1 .. n : k \in 1 .. n - 1 \/ k = n
        /\ \A k \in 1 .. n - 1 : k \in 1 .. N /\ k < n /\ k # n
    BY <1>2
  <2>4. /\ GoneTo(n) = IF Goes(n) THEN G \cup {route} ELSE G
        /\ AddedTo(n) = IF Comes(n) THEN A \cup {route} ELSE A
    <3> HIDE DEF Goes, Comes, R
    <3> QED BY <2>3
  <2>5. CASE Goes(n)
    <3>1. ~Comes(n) /\ A = {}
      BY <2>3, <2>5 DEF Ordered
    <3>2. route \in ToSet(paths) /\ route \notin G
      <4>1. RouteOf(svc, rows[n]) \in ToSet(paths)
        BY <2>5 DEF Removable
      <4>2. \A m \in 1 .. Len(rows) : rows[m].ingress /\ rows[m].del /\ RouteOf(svc, rows[m]) = RouteOf(svc, rows[n]) => m = n
        BY <2>5 DEF Removable
      <4> QED BY <2>3, <4>1, <4>2
    <3> HIDE DEF GoneTo, AddedTo, G, A, v, R
    <3>3. route \in ToSet(v)
      BY <2>2, <3>1, <3>2
    <3>4. f[n] = Among(v, ToSet(v) \ {route})
      <4>1. RouteChanged(svc, v, rows[n]) = Among(v, ToSet(v) \ {RouteOf(svc, rows[n])})
        BY <2>1, <2>5, <3>3, RouteChangedIs DEF R
      <4> QED BY <2>1, <4>1 DEF R
    <3> HIDE DEF route
    <3>5. \A e : e \in ToSet(f[n]) <=> e \in ToSet(v) /\ e # route
      <4> DEFINE S == ToSet(v) \ {route}
      <4>1. \A e : e \in S <=> e \in ToSet(v) /\ e # route
        OBVIOUS
      <4>2. f[n] = Among(v, S)
        BY <3>4
      <4> HIDE DEF S
      <4>3. \A e : e \in ToSet(f[n]) <=> e \in ToSet(v) /\ e \in S
        BY <2>1, <4>2, AmongElements
      <4> QED BY <4>1, <4>3
    <3>6. Fresh(paths, rows, svc) => IsInjective(f[n])
      BY <2>1, <2>2, <3>4, AmongInjective
    <3>7. ToSet(f[n]) = (ToSet(paths) \ GoneTo(n)) \cup AddedTo(n)
      BY <2>2, <2>4, <2>5, <3>1, <3>5
    <3> QED BY <2>1, <3>6, <3>7
  <2>6. CASE ~Goes(n) /\ Comes(n)
    <3>1. f[n] = Append(v, route)
      <4> HIDE DEF v
      <4>a. ~(rows[n].ingress /\ rows[n].del) /\ IsSeq(v)
        BY <2>1, <2>6
      <4>b. RouteChanged(svc, v, rows[n]) = IF rows[n].ingress /\ rows[n].new THEN Append(v, RouteOf(svc, rows[n])) ELSE v
        BY <4>a, RouteChangedIs
      <4>1. RouteChanged(svc, v, rows[n]) = Append(v, RouteOf(svc, rows[n]))
        BY <2>6, <4>b
      <4> QED BY <2>1, <4>1
    <3>2. ASSUME Fresh(paths, rows, svc) PROVE route \notin ToSet(v)
      <4>1. route \notin ToSet(paths) \ Gone(rows, svc)
        BY <2>6, <3>2 DEF Fresh
      <4>2. route \notin A
        <5>1. \A m \in 1 .. Len(rows) : rows[m].ingress /\ rows[m].new /\ RouteOf(svc, rows[m]) = RouteOf(svc, rows[n]) => m = n
          BY <2>6, <3>2 DEF Fresh
        <5> QED BY <2>3, <5>1
      <4>3. Gone(rows, svc) \subseteq G
        <5>1. ASSUME NEW k \in 1 .. N, Goes(k) PROVE k \in 1 .. n - 1
          <6>1. ~rows[k].new /\ k # n
            BY <2>6, <5>1 DEF Ordered
          <6>2. ~(n < k)
            BY <2>6, <6>1 DEF Ordered
          <6> QED BY <1>2, <6>1, <6>2
        <5> QED BY <5>1 DEF Gone
      <4> HIDE DEF GoneTo, AddedTo, G, A, v, route
      <4> QED BY <2>2, <4>1, <4>2, <4>3
    <3> HIDE DEF GoneTo, AddedTo, G, A, v, route, Goes, Comes
    <3>3. /\ Len(f[n]) = Len(v) + 1 /\ f[n][Len(v) + 1] = route /\ IsSeq(f[n])
          /\ \A i \in 1 .. Len(v) : f[n][i] = v[i]
          /\ ToSet(f[n]) = ToSet(v) \cup {route}
      BY <2>1, <3>1, AppendFacts
    <3>4. ASSUME Fresh(paths, rows, svc) PROVE IsInjective(f[n])
      <4>1. Len(v) \in Nat /\ DOMAIN v = 1 .. Len(v) /\ DOMAIN f[n] = 1 .. Len(f[n])
        BY <2>1, <3>3, SeqFacts
      <4>2. \A i \in 1 .. Len(v) : v[i] # route
        BY <2>1, <3>2, <3>4, ToSetFacts
      <4>3. \A i \in 1 .. Len(f[n]) : i \in 1 .. Len(v) \/ i = Len(v) + 1
        BY <3>3, <4>1
      <4>4. IsInjective(v)
        BY <2>2, <3>4
      <4> QED BY <3>3, <4>1, <4>2, <4>3, <4>4 DEF IsInjective
    <3>5. ToSet(f[n]) = (ToSet(paths) \ GoneTo(n)) \cup AddedTo(n)
      BY <2>2, <2>4, <2>6, <3>3
    <3> QED BY <2>1, <3>4, <3>5
  <2>7. CASE ~Goes(n) /\ ~Comes(n)
    <3>1. f[n] = v
      <4> HIDE DEF v
      <4>a. ~(rows[n].ingress /\ rows[n].del) /\ IsSeq(v)
        BY <2>1, <2>7
      <4>b. RouteChanged(svc, v, rows[n]) = IF rows[n].ingress /\ rows[n].new THEN Append(v, RouteOf(svc, rows[n])) ELSE v
        BY <4>a, RouteChangedIs
      <4>1. RouteChanged(svc, v, rows[n]) = v
        BY <2>7, <4>b
      <4> QED BY <2>1, <4>1
    <3> HIDE DEF GoneTo, AddedTo, G, A, v, route, Goes, Comes
    <3> QED BY <2>1, <2>2, <2>4, <2>7, <3>1
  <2> HIDE DEF Goes, Comes
  <2> QED BY <2>5, <2>6, <2>7
<1>5. N \in T
  <2> HIDE DEF T
  <2> QED BY <1>2, <1>3, <1>4, UpTo, Zenon
<1>6. GoneTo(N) = Gone(rows, svc) /\ AddedTo(N) = Added(rows, svc)
  BY DEF Gone, Added
<1> QED BY <1>1, <1>5, <1>6

===============================================================================
