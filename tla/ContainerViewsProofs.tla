------------------------- MODULE ContainerViewsProofs -------------------------
(***************************************************************************)
(* Proofs about ContainerViews, for any number of containers and names and *)
(* any configurations.  Whoever may use a container that takes another's   *)
(* place, with any number of chains, might use that one; and a container   *)
(* made from the form of another is configured as that one in all the form *)
(* takes apart.  What holds with one chain at a time is proved in          *)
(* ContainerSerialProofs.                                                  *)
(***************************************************************************)
EXTENDS ContainerViews, FiniteSetTheorems, SequenceTheorems, WellFoundedInduction,
        NaturalsInduction, TLAPS

-----------------------------------------------------------------------------
(* Numbers, and functions that recur over them.                            *)

\* A set of numbers has a smallest one.
LEMMA Smallest ==
  ASSUME NEW T \in SUBSET Nat, T # {}
  PROVE  \E n \in T : \A m \in T : n <= m
<1>1. IsWellFoundedOn(OpToRel(<, Nat), Nat)
  BY NatLessThanWellFounded
<1>2. \A m, n \in Nat : <<m, n>> \in OpToRel(<, Nat) <=> m < n
  BY DEF OpToRel
<1>3. PICK n \in T : \A m \in T : ~(<<m, n>> \in OpToRel(<, Nat))
  BY <1>1, WFMin
<1>4. \A m \in T : ~(m < n)
  BY <1>2, <1>3
<1> QED BY <1>4

\* Min of the community modules picks it.
LEMMA LeastIs ==
  ASSUME NEW T \in SUBSET Nat, T # {}
  PROVE  Min(T) \in T /\ \A m \in T : Min(T) <= m
BY Smallest DEF Min

\* Induction, with a set for the formula.
LEMMA NatCovered ==
  ASSUME NEW T, 0 \in T, \A n \in Nat : n \in T => n + 1 \in T
  PROVE  Nat \subseteq T
<1> SUFFICES ASSUME Nat \ T # {} PROVE FALSE
  OBVIOUS
<1>1. PICK n \in Nat \ T : \A m \in Nat \ T : n <= m
  BY Smallest
<1>2. n # 0 /\ n - 1 \in Nat
  BY <1>1
<1>3. n - 1 \in T
  BY <1>1, <1>2
<1> QED BY <1>1, <1>2, <1>3

\* Induction up to a bound, with a set for the formula.
LEMMA UpTo ==
  ASSUME NEW T, NEW N, N \in Nat, 0 \in T, \A n \in 1 .. N : n - 1 \in T => n \in T
  PROVE  \A n \in 0 .. N : n \in T
<1> DEFINE U == {k \in Nat : k <= N => k \in T}
<1>1. 0 \in U
  OBVIOUS
<1>2. ASSUME NEW k \in Nat, k \in U PROVE k + 1 \in U
  <2>1. CASE k + 1 <= N
    <3>1. k + 1 \in 1 .. N /\ (k + 1) - 1 = k /\ k \in T
      BY <1>2, <2>1
    <3> QED BY <3>1
  <2> QED BY <2>1
<1>3. Nat \subseteq U
  BY <1>1, <1>2, NatCovered
<1> QED BY <1>3

IsStep(F, V) == F \in [Nat \X V -> V]

Computes(f, base, F, V, N) ==
  f \in [0 .. N -> V] /\ f[0] = base /\ \A n \in 1 .. N : f[n] = F[<<n, f[n - 1]>>]

\* There is a function that recurs over the numbers up to one.
LEMMA Recursion ==
  ASSUME NEW V, NEW base, base \in V, NEW F, IsStep(F, V), NEW N, N \in Nat
  PROVE  \E f : Computes(f, base, F, V, N)
<1> USE DEF IsStep
<1> DEFINE Good(f, k) == f \in [0 .. k -> V] /\ f[0] = base /\ \A n \in 1 .. k : f[n] = F[<<n, f[n - 1]>>]
           T == {k \in Nat : \E f : Good(f, k)}
<1>1. 0 \in T
  <2>1. Good([n \in 0 .. 0 |-> base], 0)
    OBVIOUS
  <2> HIDE DEF Good
  <2> QED BY <2>1
<1>2. ASSUME NEW k \in Nat, k \in T PROVE k + 1 \in T
  <2>1. PICK f : Good(f, k)
    BY <1>2
  <2> DEFINE g == [n \in 0 .. k + 1 |-> IF n = k + 1 THEN F[<<k + 1, f[k]>>] ELSE f[n]]
  <2>2. /\ \A n \in 0 .. k : g[n] = f[n]
        /\ g[k + 1] = F[<<k + 1, f[k]>>]
    OBVIOUS
  <2>3. g \in [0 .. k + 1 -> V]
    <3>1. f[k] \in V /\ F[<<k + 1, f[k]>>] \in V
      BY <2>1
    <3> QED BY <2>1, <3>1
  <2> HIDE DEF g
  <2>4. ASSUME NEW n \in 1 .. k + 1 PROVE g[n] = F[<<n, g[n - 1]>>]
    <3>1. n - 1 \in 0 .. k /\ (n = k + 1 => n - 1 = k) /\ (n # k + 1 => n \in 1 .. k)
      OBVIOUS
    <3> QED BY <2>1, <2>2, <3>1
  <2>5. g[0] = base
    BY <2>1, <2>2
  <2>6. Good(g, k + 1)
    BY <2>3, <2>4, <2>5
  <2> HIDE DEF Good
  <2> QED BY <2>6, k + 1 \in Nat
<1>3. N \in T
  BY <1>1, <1>2, NatCovered
<1>4. PICK f : Good(f, N)
  BY <1>3
<1> QED BY <1>4 DEF Computes

\* A list of sets of pairs, each finite, has a finite union.
LEMMA FiniteUnion ==
  ASSUME NEW D, IsFiniteSet(D), NEW f, \A p \in D : IsFiniteSet(f[p])
  PROVE  IsFiniteSet(UNION {f[p] : p \in D})
<1>1. PICK n \in Nat : ExistsSurjection(1 .. n, D)
  BY FS_NatSurjection
<1>2. PICK g \in Surjection(1 .. n, D) : TRUE
  BY <1>1 DEF ExistsSurjection
<1>3. g \in [1 .. n -> D] /\ \A p \in D : \E k \in 1 .. n : g[k] = p
  BY <1>2 DEF Surjection
<1> DEFINE Upto(k) == UNION {f[g[m]] : m \in 1 .. k}
           T == {k \in Nat : IsFiniteSet(Upto(k))}
<1>4. 0 \in T
  <2>1. Upto(0) = {}
    OBVIOUS
  <2> QED BY <2>1, FS_EmptySet
<1>5. ASSUME NEW k \in 1 .. n, k - 1 \in T PROVE k \in T
  <2>1. Upto(k) = Upto(k - 1) \cup f[g[k]]
    <3>1. \A m : m \in 1 .. k <=> m \in 1 .. k - 1 \/ m = k
      OBVIOUS
    <3> QED BY <3>1
  <2>2. IsFiniteSet(f[g[k]]) /\ IsFiniteSet(Upto(k - 1))
    BY <1>3, <1>5
  <2> HIDE DEF Upto
  <2>3. IsFiniteSet(Upto(k))
    BY <2>1, <2>2, FS_Union
  <2> QED BY <2>3
<1>6. n \in T
  <2> HIDE DEF T
  <2>1. \A m \in 0 .. n : m \in T
    BY <1>4, <1>5, UpTo
  <2> QED BY <2>1
<1>7. UNION {f[p] : p \in D} = Upto(n)
  BY <1>3
<1> QED BY <1>6, <1>7

-----------------------------------------------------------------------------
(* What a list of the form binds a port to.                                *)

Row == [ip : STRING, host : HostPorts, ports : Nat \X Nat]
Binds(row, p) == [ip |-> row.ip, host |-> HostOf(row, p - row.ports[1])]

\* A row of the form binds each port it covers to a host port.
LEMMA BindsWhat ==
  ASSUME NEW row \in Row, NEW p \in Nat, Covers(row, p)
  PROVE  Binds(row, p) \in PortBinding
<1>1. /\ row.ip \in STRING /\ row.host \in Nat \X Nat /\ (row.host[1] = 0 => row.host[2] = 0)
      /\ row.ports \in Nat \X Nat
  BY DEF Row, HostPorts
<1>2. p - row.ports[1] \in Nat
  BY <1>1 DEF Covers
<1>3. <<0, 0>> \in HostPorts
  BY DEF HostPorts
<1>4. ASSUME row.host[1] # 0
      PROVE  <<row.host[1] + (p - row.ports[1]), row.host[1] + (p - row.ports[1])>> \in HostPorts
  <2>1. row.host[1] + (p - row.ports[1]) \in Nat /\ row.host[1] + (p - row.ports[1]) # 0
    BY <1>1, <1>2, <1>4
  <2> QED BY <2>1 DEF HostPorts
<1>5. HostOf(row, p - row.ports[1]) \in HostPorts
  BY <1>1, <1>3, <1>4 DEF HostOf, HostPorts
<1> QED BY <1>1, <1>5 DEF Binds, PortBinding

BoundBy(f, list, p) ==
  /\ DOMAIN f = 0 .. Len(list) /\ f[0] = <<>>
  /\ \A n \in 1 .. Len(list) : f[n] = IF Covers(list[n], p) THEN Append(f[n - 1], Binds(list[n], p)) ELSE f[n - 1]

\* BoundTo, row by row.
LEMMA BoundSteps ==
  ASSUME NEW list \in Seq(Row), NEW p \in Nat
  PROVE  \E f : /\ BoundBy(f, list, p) /\ f \in [0 .. Len(list) -> Seq(PortBinding)]
                /\ BoundTo(list, p) = f[Len(list)]
<1> DEFINE V == Seq(PortBinding)
           N == Len(list)
           F == [x \in Nat \X V |-> IF x[1] \in 1 .. N /\ Covers(list[x[1]], p)
                                   THEN Append(x[2], Binds(list[x[1]], p)) ELSE x[2]]
<1>1. N \in Nat /\ <<>> \in V
  OBVIOUS
<1>2. IsStep(F, V)
  <2>1. ASSUME NEW n \in Nat, NEW s \in V, n \in 1 .. N, Covers(list[n], p)
        PROVE  Append(s, Binds(list[n], p)) \in V
    BY <2>1, BindsWhat
  <2> QED BY <2>1 DEF IsStep
<1>3. PICK f : Computes(f, <<>>, F, V, N)
  <2> HIDE DEF F, V, N
  <2> QED BY <1>1, <1>2, Recursion
<1>4. f \in [0 .. N -> V] /\ f[0] = <<>>
  BY <1>3 DEF Computes
<1>5. ASSUME NEW n \in 1 .. N
      PROVE  f[n] = IF Covers(list[n], p) THEN Append(f[n - 1], Binds(list[n], p)) ELSE f[n - 1]
  <2>1. n \in Nat /\ n - 1 \in 0 .. N /\ f[n] = F[<<n, f[n - 1]>>]
    <3>1. f[n] = F[<<n, f[n - 1]>>]
      <4> HIDE DEF F, N
      <4> QED BY <1>3 DEF Computes
    <3>2. n \in Nat /\ n - 1 \in 0 .. N
      BY <1>1
    <3> QED BY <3>1, <3>2
  <2>2. f[n - 1] \in V
    BY <1>4, <2>1
  <2> QED BY <2>1, <2>2
<1>6. BoundBy(f, list, p)
  BY <1>4, <1>5 DEF BoundBy
<1> DEFINE Body(h) == [n \in 0 .. N |->
                        IF n = 0 THEN <<>>
                        ELSE IF Covers(list[n], p)
                        THEN Append(h[n - 1], [ip |-> list[n].ip, host |-> HostOf(list[n], p - list[n].ports[1])])
                        ELSE h[n - 1]]
           g == CHOOSE h : h = Body(h)
<1>7. f = Body(f)
  <2>1. \A n \in 0 .. N : n = 0 \/ n \in 1 .. N
    BY <1>1
  <2> QED BY <1>4, <1>5, <2>1 DEF Binds
<1>8. g = Body(g)
  <2> HIDE DEF Body
  <2> QED BY <1>7
<1>9. \A n \in 0 .. N : n \in {m \in 0 .. N : g[m] = f[m]}
  <2> DEFINE T == {m \in 0 .. N : g[m] = f[m]}
  <2>1. 0 \in T
    <3>1. g[0] = Body(g)[0]
      <4> HIDE DEF g, Body
      <4> QED BY <1>8
    <3>2. Body(g)[0] = <<>> /\ 0 \in 0 .. N
      <4> HIDE DEF g
      <4> QED BY <1>1
    <3> QED BY <1>4, <3>1, <3>2
  <2>2. ASSUME NEW n \in 1 .. N, n - 1 \in T PROVE n \in T
    <3>1. n \in 0 .. N /\ n # 0
      BY <1>1
    <3>2. g[n] = IF Covers(list[n], p)
                 THEN Append(g[n - 1], [ip |-> list[n].ip, host |-> HostOf(list[n], p - list[n].ports[1])])
                 ELSE g[n - 1]
      <4>1. g[n] = Body(g)[n]
        BY <1>8
      <4> QED BY <3>1, <4>1
    <3> QED BY <1>5, <2>2, <3>1, <3>2 DEF Binds
  <2>3. \A n \in 0 .. N : n \in T
    <3> HIDE DEF T
    <3> QED BY <1>1, <2>1, <2>2, UpTo
  <2> QED BY <2>3
<1>10. BoundTo(list, p) = g[N]
  BY DEF BoundTo
<1>11. g[N] = f[N]
  <2> HIDE DEF g
  <2>1. N \in 0 .. N
    BY <1>1
  <2> QED BY <1>9, <2>1
<1> QED BY <1>4, <1>6, <1>10, <1>11

\* Lists with the same first rows
LEMMA BoundAlike ==
  ASSUME NEW l, NEW m, NEW p, NEW f, NEW g, BoundBy(f, l, p), BoundBy(g, m, p),
         Len(l) \in Nat, Len(m) \in Nat,
         NEW k \in 0 .. Len(l), k <= Len(m), \A n \in 1 .. k : l[n] = m[n]
  PROVE  f[k] = g[k]
<1> DEFINE T == {n \in 0 .. k : f[n] = g[n]}
<1>1. 0 \in T
  BY DEF BoundBy
<1>2. ASSUME NEW n \in 1 .. k, n - 1 \in T PROVE n \in T
  <2>1. n \in 1 .. Len(l) /\ n \in 1 .. Len(m) /\ n \in 0 .. k
    OBVIOUS
  <2> QED BY <1>2, <2>1 DEF BoundBy
<1>3. \A n \in 0 .. k : n \in T
  <2>1. k \in Nat
    OBVIOUS
  <2> HIDE DEF T
  <2> QED BY <1>1, <1>2, <2>1, UpTo
<1> QED BY <1>3

\* Without rows nothing is bound.
LEMMA BoundNothing ==
  ASSUME NEW p \in Nat
  PROVE  BoundTo(<<>>, p) = <<>>
<1>1. <<>> \in Seq(Row) /\ Len(<<>>) = 0
  OBVIOUS
<1> QED BY <1>1, BoundSteps DEF BoundBy

Also(row, p, s) == IF Covers(row, p) THEN Append(s, Binds(row, p)) ELSE s

\* One more row binds the ports it covers once more.
LEMMA BoundAppend ==
  ASSUME NEW list \in Seq(Row), NEW row \in Row, NEW p \in Nat
  PROVE  BoundTo(Append(list, row), p) = Also(row, p, BoundTo(list, p))
<1> DEFINE more == Append(list, row)
           N == Len(list)
<1>1. /\ more \in Seq(Row) /\ N \in Nat /\ Len(more) = N + 1 /\ more[N + 1] = row
      /\ \A n \in 1 .. N : list[n] = more[n]
  OBVIOUS
<1> HIDE DEF more
<1>2. PICK f : BoundBy(f, list, p) /\ BoundTo(list, p) = f[N]
  BY BoundSteps
<1>3. PICK g : BoundBy(g, more, p) /\ BoundTo(more, p) = g[N + 1]
  BY <1>1, BoundSteps
<1>4. f[N] = g[N]
  BY <1>1, <1>2, <1>3, BoundAlike
<1>5. N + 1 \in 1 .. Len(more) /\ (N + 1) - 1 = N
  BY <1>1
<1>6. g[N + 1] = Also(row, p, g[N])
  BY <1>1, <1>3, <1>5 DEF BoundBy, Also
<1> QED BY <1>2, <1>3, <1>4, <1>6 DEF more

\* The last row is another one.
LEMMA BoundReplaced ==
  ASSUME NEW list \in Seq(Row), list # <<>>, NEW row \in Row, NEW p \in Nat
  PROVE  \E s \in Seq(PortBinding) :
           /\ BoundTo(list, p) = Also(list[Len(list)], p, s)
           /\ BoundTo([list EXCEPT ![Len(list)] = row], p) = Also(row, p, s)
<1> DEFINE other == [list EXCEPT ![Len(list)] = row]
           N == Len(list)
<1>1. N \in Nat /\ N \in 1 .. N /\ N - 1 \in 0 .. N
  OBVIOUS
<1>2. /\ other \in Seq(Row) /\ Len(other) = N /\ other[N] = row
      /\ \A n \in 1 .. N - 1 : list[n] = other[n]
  BY <1>1
<1> HIDE DEF other
<1>3. PICK f : BoundBy(f, list, p) /\ BoundTo(list, p) = f[N] /\ f \in [0 .. N -> Seq(PortBinding)]
  BY BoundSteps
<1>4. PICK g : BoundBy(g, other, p) /\ BoundTo(other, p) = g[N]
  BY <1>2, BoundSteps
<1>5. f[N - 1] = g[N - 1]
  <2> DEFINE k == N - 1
  <2>1. /\ Len(list) \in Nat /\ Len(other) \in Nat /\ k \in 0 .. Len(list) /\ k <= Len(other)
        /\ \A n \in 1 .. k : list[n] = other[n]
    BY <1>1, <1>2
  <2>2. BoundBy(f, list, p) /\ BoundBy(g, other, p)
    BY <1>3, <1>4
  <2> HIDE DEF k, N
  <2> QED BY <2>1, <2>2, BoundAlike DEF k
<1>6. f[N] = Also(list[N], p, f[N - 1]) /\ g[N] = Also(row, p, g[N - 1])
  BY <1>1, <1>2, <1>3, <1>4 DEF BoundBy, Also
<1>7. f[N - 1] \in Seq(PortBinding)
  BY <1>1, <1>3
<1> QED BY <1>3, <1>4, <1>5, <1>6, <1>7 DEF other

\* What is bound is bound by a row.
LEMMA BoundCovered ==
  ASSUME NEW list \in Seq(Row), NEW p \in Nat, BoundTo(list, p) # <<>>
  PROVE  \E n \in 1 .. Len(list) : Covers(list[n], p)
<1> SUFFICES ASSUME \A n \in 1 .. Len(list) : ~Covers(list[n], p) PROVE FALSE
  OBVIOUS
<1>1. PICK f : BoundBy(f, list, p) /\ BoundTo(list, p) = f[Len(list)]
  BY BoundSteps
<1> DEFINE T == {n \in 0 .. Len(list) : f[n] = <<>>}
<1>2. 0 \in T /\ Len(list) \in Nat
  BY <1>1 DEF BoundBy
<1>3. ASSUME NEW n \in 1 .. Len(list), n - 1 \in T PROVE n \in T
  BY <1>1, <1>2, <1>3 DEF BoundBy
<1>4. Len(list) \in T
  <2>1. Len(list) \in 0 .. Len(list)
    BY <1>2
  <2> HIDE DEF T
  <2>2. \A n \in 0 .. Len(list) : n \in T
    BY <1>2, <1>3, UpTo
  <2> QED BY <2>1, <2>2
<1> QED BY <1>1, <1>4

\* What a port is bound to is a list of bindings.
LEMMA BoundType ==
  ASSUME NEW list \in Seq(Row), NEW p \in Nat
  PROVE  BoundTo(list, p) \in Seq(PortBinding)
<1>1. Len(list) \in 0 .. Len(list)
  OBVIOUS
<1>2. PICK f : f \in [0 .. Len(list) -> Seq(PortBinding)] /\ BoundTo(list, p) = f[Len(list)]
  BY BoundSteps
<1> QED BY <1>1, <1>2

-----------------------------------------------------------------------------
(* Ports: what the form joins, in the order in which it is met.            *)

\* The positions of a port among some slots
Places(slots, p) == {s \in slots : s[1] = p}

\* The bindings of the ports are finitely many, as many to a port as its list is long.
LEMMA SlotsAre ==
  ASSUME NEW pb, IsPorts(pb)
  PROVE  /\ \A s : s \in Slots(pb) <=> \E p \in DOMAIN pb : \E n \in 1 .. Len(pb[p]) : s = <<p, n>>
         /\ Slots(pb) \subseteq Nat \X Nat
         /\ IsFiniteSet(Slots(pb))
         /\ \A p \in DOMAIN pb : Cardinality(Places(Slots(pb), p)) = Len(pb[p])
<1>1. /\ DOMAIN pb \subseteq Nat /\ IsFiniteSet(DOMAIN pb)
      /\ \A p \in DOMAIN pb : Len(pb[p]) \in Nat /\ DOMAIN pb[p] = 1 .. Len(pb[p])
  BY DEF IsPorts
<1>2. \A s : s \in Slots(pb) <=> \E p \in DOMAIN pb : \E n \in 1 .. Len(pb[p]) : s = <<p, n>>
  <2>1. ASSUME NEW s PROVE s \in Slots(pb) <=> \E p \in DOMAIN pb : s \in {p} \X (1 .. Len(pb[p]))
    BY <1>1 DEF Slots
  <2>2. \A s, p, N : s \in {p} \X (1 .. N) <=> \E n \in 1 .. N : s = <<p, n>>
    OBVIOUS
  <2> QED BY <2>1, <2>2
<1>3. Slots(pb) \subseteq Nat \X Nat
  <2> SUFFICES ASSUME NEW s \in Slots(pb) PROVE s \in Nat \X Nat
    OBVIOUS
  <2>1. PICK p \in DOMAIN pb : \E n \in 1 .. Len(pb[p]) : s = <<p, n>>
    BY <1>2
  <2>2. PICK n \in 1 .. Len(pb[p]) : s = <<p, n>>
    BY <2>1
  <2> QED BY <1>1, <2>1, <2>2
<1>4. ASSUME NEW p \in DOMAIN pb
      PROVE  /\ IsFiniteSet({p} \X (1 .. Len(pb[p]))) /\ Cardinality({p} \X (1 .. Len(pb[p]))) = Len(pb[p])
             /\ Places(Slots(pb), p) = {p} \X (1 .. Len(pb[p]))
  <2> DEFINE N == Len(pb[p])
             S == {p} \X (1 .. N)
             h == [n \in 1 .. N |-> <<p, n>>]
  <2>1. N \in Nat /\ p \in Nat
    BY <1>1
  <2>2. h \in Bijection(1 .. N, S)
    <3>1. h \in [1 .. N -> S]
      OBVIOUS
    <3>2. \A a, b \in 1 .. N : h[a] = h[b] => a = b
      OBVIOUS
    <3>3. \A s \in S : \E n \in 1 .. N : h[n] = s
      OBVIOUS
    <3> QED BY <3>1, <3>2, <3>3 DEF Bijection, Injection, Surjection, IsInjective
  <2>3. ExistsBijection(1 .. N, S)
    BY <2>2 DEF ExistsBijection
  <2>4. IsFiniteSet(1 .. N) /\ Cardinality(1 .. N) = N
    <3> HIDE DEF N
    <3>1. 1 \in Int /\ N \in Int /\ (IF 1 > N THEN 0 ELSE N - 1 + 1) = N
      BY <2>1
    <3> QED BY <3>1, FS_Interval
  <2>5. IsFiniteSet(S) /\ Cardinality(S) = N
    <3> HIDE DEF S, N
    <3> QED BY <2>3, <2>4, FS_Bijection
  <2>6. Places(Slots(pb), p) = S
    <3>1. ASSUME NEW s PROVE s \in Places(Slots(pb), p) <=> s \in S
      BY <1>2, <2>1 DEF Places
    <3> QED BY <3>1
  <2> QED BY <2>5, <2>6
<1>5. IsFiniteSet(Slots(pb))
  <2> DEFINE f == [p \in DOMAIN pb |-> {p} \X DOMAIN pb[p]]
  <2>1. \A p \in DOMAIN pb : IsFiniteSet(f[p])
    BY <1>1, <1>4
  <2>2. Slots(pb) = UNION {f[p] : p \in DOMAIN pb}
    BY DEF Slots
  <2> HIDE DEF f
  <2> QED BY <1>1, <2>1, <2>2, FiniteUnion
<1>6. \A p \in DOMAIN pb : Cardinality(Places(Slots(pb), p)) = Len(pb[p])
  BY <1>4
<1> QED BY <1>2, <1>3, <1>5, <1>6

\* The first of some bindings is one of them.
LEMMA FirstIsThere ==
  ASSUME NEW slots \in SUBSET (Nat \X Nat), slots # {}
  PROVE  FirstOf(slots) \in slots
<1> DEFINE P == {s[1] : s \in slots}
           p == Min(P)
           R == {t \in slots : t[1] = p}
           Q == {s[2] : s \in R}
           n == Min(Q)
<1>1. P \in SUBSET Nat /\ P # {}
  OBVIOUS
<1>2. p \in P
  <2> HIDE DEF P
  <2> QED BY <1>1, LeastIs
<1>3. Q \in SUBSET Nat /\ Q # {}
  <2> HIDE DEF p
  <2> QED BY <1>2
<1>4. n \in Q
  <2> HIDE DEF Q
  <2> QED BY <1>3, LeastIs
<1>5. FirstOf(slots) = <<p, n>>
  BY DEF FirstOf
<1> HIDE DEF p, n
<1>6. PICK s \in slots : s[1] = p /\ s[2] = n
  BY <1>4
<1>7. s = <<p, n>>
  BY <1>6
<1> QED BY <1>5, <1>6, <1>7

\* All of a port's bindings are of one address.
OneAddress(pb, p) == \A i, j \in DOMAIN pb[p] : pb[p][i].ip = pb[p][j].ip

\* A row that ends at the former port, as many host ports as container ports long
EndsAt(row, previous) ==
  /\ row.host[1] > 0 /\ row.host[2] = previous[1] /\ row.ports[2] = previous[2]
  /\ row.ports[1] <= row.ports[2] /\ row.host[2] - row.host[1] = row.ports[2] - row.ports[1]

\* What the rows bind a port to, with the bindings left for it, is what it was bound to.
Combining(pb) ==
  [left : [DOMAIN pb -> Seq(PortBinding)], slots : SUBSET Slots(pb), previous : Int \X Int, bindings : Seq(Row)]

Halfway(a, pb) ==
  /\ \A p \in DOMAIN pb : Len(a.left[p]) = Cardinality(Places(a.slots, p))
  /\ \A n \in 1 .. Len(a.bindings) : a.bindings[n].ports[1] .. a.bindings[n].ports[2] \subseteq DOMAIN pb
  /\ \A p \in DOMAIN pb : OneAddress(pb, p) => BoundTo(a.bindings, p) \o a.left[p] = pb[p]
  /\ a.previous[1] >= 0 /\ a.bindings # <<>> => EndsAt(a.bindings[Len(a.bindings)], a.previous)

\* A new row of one port binds that port alone, to its host port or ports.
LEMMA NewRow ==
  ASSUME NEW b \in PortBinding, NEW key \in Nat, NEW row, row = [ip |-> b.ip, host |-> b.host, ports |-> <<key, key>>]
  PROVE  /\ row \in Row /\ Covers(row, key) /\ Binds(row, key) = b
         /\ \A p \in Nat : p # key => ~Covers(row, p)
<1>1. b.ip \in STRING /\ b.host \in HostPorts /\ b.host \in Nat \X Nat /\ (b.host[1] = 0 => b.host[2] = 0)
  BY DEF PortBinding, HostPorts
<1>2. row.ip = b.ip /\ row.host = b.host /\ row.ports = <<key, key>> /\ row \in Row
  BY <1>1 DEF Row
<1>3. HostOf(row, key - row.ports[1]) = b.host
  BY <1>1, <1>2 DEF HostOf, Single
<1>4. Binds(row, key) = b
  BY <1>1, <1>2, <1>3 DEF Binds, PortBinding
<1> QED BY <1>2, <1>4 DEF Covers

\* A row that is extended by the port that follows
LEMMA WiderRow ==
  ASSUME NEW row \in Row, NEW key \in Nat, NEW host \in HostPorts, host[1] > 0, Single(host),
         EndsAt(row, <<host[1] - 1, key - 1>>)
  PROVE  LET wider == Widened(row, host, key)
         IN  /\ wider \in Row
             /\ wider.ports[1] .. wider.ports[2] = (row.ports[1] .. row.ports[2]) \cup {key}
             /\ ~Covers(row, key) /\ Covers(wider, key) /\ Binds(wider, key) = [ip |-> row.ip, host |-> host]
             /\ \A p \in Nat : p # key => (Covers(wider, p) <=> Covers(row, p))
             /\ \A p \in Nat : Covers(row, p) => Binds(wider, p) = Binds(row, p)
             /\ EndsAt(wider, <<host[1], key>>)
<1> DEFINE wider == Widened(row, host, key)
           h == row.host[1]
           a == row.ports[1]
<1>1. /\ host \in Nat \X Nat /\ host = <<host[1], host[1]>> /\ host[1] \in Nat
      /\ row.ip \in STRING /\ row.host \in Nat \X Nat /\ row.ports \in Nat \X Nat /\ h \in Nat /\ a \in Nat
  BY DEF HostPorts, Row, Single
<1>2. /\ h > 0 /\ row.host = <<h, host[1] - 1>> /\ row.ports = <<a, key - 1>> /\ a <= key - 1
      /\ host[1] - 1 - h = key - 1 - a
  BY <1>1 DEF EndsAt
<1>3. Extended(row.host, host[1]) = <<h, host[1]>> /\ Extended(row.ports, key) = <<a, key>>
  BY <1>1, <1>2 DEF Extended
<1>4. wider = [ip |-> row.ip, host |-> <<h, host[1]>>, ports |-> <<a, key>>]
  <2>1. row = [ip |-> row.ip, host |-> row.host, ports |-> row.ports]
    BY DEF Row
  <2>2. wider = [row EXCEPT !.host = <<h, host[1]>>, !.ports = <<a, key>>]
    <3>1. wider = [row EXCEPT !.host = Extended(@, host[1]), !.ports = Extended(@, key)]
      BY DEF Widened
    <3> QED BY <1>3, <2>1, <3>1
  <2> HIDE DEF wider
  <2> QED BY <2>1, <2>2
<1>5. wider.ip = row.ip /\ wider.host = <<h, host[1]>> /\ wider.ports = <<a, key>>
  BY <1>4
<1>6. <<h, host[1]>> \in HostPorts
  BY <1>1, <1>2 DEF HostPorts
<1>7. wider \in Row
  BY <1>1, <1>4, <1>6 DEF Row
<1> HIDE DEF wider
<1>8. wider.ports[1] .. wider.ports[2] = (row.ports[1] .. row.ports[2]) \cup {key}
  BY <1>1, <1>2, <1>5
<1>9. /\ ~Covers(row, key) /\ Covers(wider, key)
      /\ \A p \in Nat : p # key => (Covers(wider, p) <=> Covers(row, p))
  BY <1>1, <1>2, <1>5 DEF Covers
<1>10. ASSUME NEW p \in Nat PROVE HostOf(wider, p - a) = <<h + (p - a), h + (p - a)>>
  BY <1>1, <1>2, <1>5 DEF HostOf, Single
<1>11. Binds(wider, key) = [ip |-> row.ip, host |-> host]
  <2>1. h + (key - a) = host[1]
    BY <1>1, <1>2
  <2> QED BY <1>1, <1>5, <1>10, <2>1 DEF Binds
<1>12. ASSUME NEW p \in Nat, Covers(row, p) PROVE Binds(wider, p) = Binds(row, p)
  <2>1. HostOf(row, p - a) = <<h + (p - a), h + (p - a)>>
    <3>1. CASE a = key - 1
      <4>1. p = a /\ h = host[1] - 1 /\ Single(row.ports)
        BY <1>1, <1>2, <1>12, <3>1 DEF Covers, Single
      <4>2. h + (p - a) = h /\ row.host = <<h, h>>
        BY <1>1, <1>2, <4>1
      <4>3. HostOf(row, p - a) = row.host
        BY <1>2, <4>1 DEF HostOf
      <4> QED BY <4>2, <4>3
    <3>2. CASE a # key - 1
      <4>1. ~Single(row.ports)
        BY <1>2, <3>2 DEF Single
      <4> QED BY <1>1, <1>2, <4>1 DEF HostOf
    <3> QED BY <3>1, <3>2
  <2> QED BY <1>5, <1>10, <2>1 DEF Binds
<1>13. EndsAt(wider, <<host[1], key>>)
  BY <1>1, <1>2, <1>5 DEF EndsAt
<1>14. /\ wider \in Row
       /\ wider.ports[1] .. wider.ports[2] = (row.ports[1] .. row.ports[2]) \cup {key}
       /\ ~Covers(row, key) /\ Covers(wider, key) /\ Binds(wider, key) = [ip |-> row.ip, host |-> host]
       /\ \A p \in Nat : p # key => (Covers(wider, p) <=> Covers(row, p))
       /\ \A p \in Nat : Covers(row, p) => Binds(wider, p) = Binds(row, p)
       /\ EndsAt(wider, <<host[1], key>>)
  BY <1>7, <1>8, <1>9, <1>11, <1>12, <1>13
<1> QED BY <1>14 DEF wider

\* What is taken from the head of what is left
LEMMA HeadOfRest ==
  ASSUME NEW S, NEW b \in Seq(S), NEW l \in Seq(S), NEW whole, b \o l = whole, l # <<>>
  PROVE  /\ Append(b, Head(l)) \o Tail(l) = whole
         /\ \E n \in DOMAIN whole : whole[n] = Head(l)
<1>1. Len(b) \in Nat /\ Len(l) \in Nat /\ Len(l) > 0 /\ whole \in Seq(S) /\ Len(whole) = Len(b) + Len(l)
  <2>1. Len(l) \in Nat \ {0}
    BY EmptySeq
  <2>2. b \o l \in Seq(S) /\ Len(b \o l) = Len(b) + Len(l)
    BY ConcatProperties
  <2>3. Len(b) \in Nat
    OBVIOUS
  <2> QED BY <2>1, <2>2, <2>3
<1>2. Head(l) = l[1] /\ Head(l) \in S /\ Tail(l) \in Seq(S) /\ Len(Tail(l)) = Len(l) - 1
      /\ \A n \in 1 .. Len(l) - 1 : Tail(l)[n] = l[n + 1]
  BY <1>1
<1>3. whole[Len(b) + 1] = Head(l) /\ Len(b) + 1 \in DOMAIN whole
  BY <1>1, <1>2
<1> DEFINE again == Append(b, Head(l)) \o Tail(l)
<1>4. again \in Seq(S) /\ Len(again) = Len(whole)
  BY <1>1, <1>2
<1>5. ASSUME NEW n \in 1 .. Len(whole) PROVE again[n] = whole[n]
  <2>1. CASE n <= Len(b)
    BY <1>1, <1>2, <2>1
  <2>2. CASE n = Len(b) + 1
    BY <1>1, <1>2, <2>2
  <2>3. CASE n > Len(b) + 1
    BY <1>1, <1>2, <2>3
  <2> QED BY <1>1, <2>1, <2>2, <2>3
<1>6. again = whole
  <2> HIDE DEF again
  <2> QED BY <1>1, <1>4, <1>5, SeqEqual
<1> QED BY <1>3, <1>6

\* The next binding is there as long as one is left.
LEMMA NextIsThere ==
  ASSUME NEW pb, IsPorts(pb), NEW a \in Combining(pb), a.slots # {}
  PROVE  NextSlot(pb, a) \in a.slots
<1>1. Slots(pb) \subseteq Nat \X Nat /\ a.slots \subseteq Slots(pb)
  BY SlotsAre DEF Combining
<1> DEFINE same == {s \in a.slots : a.bindings # <<>> /\ pb[s[1]][s[2]].ip = Last(a.bindings).ip}
<1>2. NextSlot(pb, a) = FirstOf(IF same # {} THEN same ELSE a.slots)
  BY DEF NextSlot
<1>3. CASE same # {}
  <2>1. same \in SUBSET (Nat \X Nat) /\ same \subseteq a.slots
    BY <1>1
  <2> HIDE DEF same
  <2> QED BY <1>2, <1>3, <2>1, FirstIsThere
<1>4. CASE same = {}
  <2>1. a.slots \in SUBSET (Nat \X Nat)
    BY <1>1
  <2> HIDE DEF same
  <2> QED BY <1>2, <1>4, <2>1, FirstIsThere
<1> QED BY <1>3, <1>4

\* The binding of one step: the slot, and what is left of its port
LEMMA SlotTaken ==
  ASSUME NEW pb, IsPorts(pb), NEW a \in Combining(pb), Halfway(a, pb), NEW slot \in a.slots
  PROVE  /\ slot[1] \in DOMAIN pb /\ slot[1] \in Nat /\ slot[2] \in 1 .. Len(pb[slot[1]])
         /\ a.left[slot[1]] \in Seq(PortBinding) /\ a.left[slot[1]] # <<>>
         /\ pb[slot[1]][slot[2]].ip \in STRING
<1>1. slot \in Slots(pb) /\ a.left \in [DOMAIN pb -> Seq(PortBinding)] /\ IsFiniteSet(a.slots)
  BY SlotsAre, FS_Subset DEF Combining
<1>2. PICK p \in DOMAIN pb : \E n \in 1 .. Len(pb[p]) : slot = <<p, n>>
  BY <1>1, SlotsAre
<1>3. PICK n \in 1 .. Len(pb[p]) : slot = <<p, n>>
  BY <1>2
<1>4. p \in Nat /\ pb[p] \in Seq(PortBinding) /\ slot[1] = p /\ slot[2] = n
  BY <1>3 DEF IsPorts
<1>5. pb[p][n] \in PortBinding
  BY <1>4
<1>6. slot \in Places(a.slots, p) /\ IsFiniteSet(Places(a.slots, p))
  <2>1. Places(a.slots, p) \in SUBSET a.slots
    BY DEF Places
  <2> QED BY <1>1, <1>4, <2>1, FS_Subset DEF Places
<1>7. Cardinality(Places(a.slots, p)) # 0
  BY <1>6, FS_EmptySet
<1>8. a.left[p] # <<>>
  <2>1. Len(a.left[p]) # 0
    BY <1>7 DEF Halfway
  <2> QED BY <2>1
<1> QED BY <1>1, <1>4, <1>5, <1>8 DEF PortBinding

\* Only the port of the slot has fewer places.
LEMMA PlacesLeft ==
  ASSUME NEW slots, IsFiniteSet(slots), NEW slot \in slots
  PROVE  /\ \A p : p # slot[1] => Places(slots \ {slot}, p) = Places(slots, p)
         /\ Cardinality(Places(slots \ {slot}, slot[1])) = Cardinality(Places(slots, slot[1])) - 1
<1>1. \A p : p # slot[1] => Places(slots \ {slot}, p) = Places(slots, p)
  BY DEF Places
<1> DEFINE P == Places(slots, slot[1])
<1>2. Places(slots \ {slot}, slot[1]) = P \ {slot} /\ slot \in P
  BY DEF Places
<1>3. IsFiniteSet(P)
  <2>1. P \in SUBSET slots
    BY DEF Places
  <2> HIDE DEF P
  <2> QED BY <2>1, FS_Subset
<1>4. Cardinality(P \ {slot}) = Cardinality(P) - 1
  <2> HIDE DEF P
  <2> QED BY <1>2, <1>3, FS_RemoveElement
<1> QED BY <1>1, <1>2, <1>4

\* The rows are of ports that are bound.
Within(rows, ports) == \A n \in 1 .. Len(rows) : rows[n].ports[1] .. rows[n].ports[2] \subseteq ports

\* What one step does to the rows: one port more is bound to a host port.
BindsOneMore(rows, list, key, b, ports) ==
  /\ rows \in Seq(Row) /\ rows # <<>> /\ Within(rows, ports)
  /\ \A p \in ports : p # key => BoundTo(rows, p) = BoundTo(list, p)
  /\ BoundTo(rows, key) = Append(BoundTo(list, key), b)
  /\ b.host[1] > 0 /\ Single(b.host) => EndsAt(rows[Len(rows)], <<b.host[1], key>>)

\* A row of its own binds one port once more, and no other.
LEMMA RowAppended ==
  ASSUME NEW list \in Seq(Row), NEW ports \in SUBSET Nat, Within(list, ports),
         NEW key \in ports, NEW b \in PortBinding,
         NEW row, row = [ip |-> b.ip, host |-> b.host, ports |-> <<key, key>>],
         NEW rows, rows = Append(list, row)
  PROVE  BindsOneMore(rows, list, key, b, ports)
<1>1. /\ row \in Row /\ Covers(row, key) /\ Binds(row, key) = b
      /\ \A p \in Nat : p # key => ~Covers(row, p)
  BY NewRow
<1>2. row.ports = <<key, key>> /\ row.host = b.host /\ key \in Nat /\ b.host \in Nat \X Nat
  BY DEF PortBinding, HostPorts
<1>3. /\ rows \in Seq(Row) /\ Len(list) \in Nat /\ Len(rows) = Len(list) + 1 /\ rows[Len(rows)] = row
      /\ \A n \in 1 .. Len(list) : rows[n] = list[n]
  BY <1>1
<1>4. \A p \in Nat : BoundTo(rows, p) = Also(row, p, BoundTo(list, p))
  BY <1>1, BoundAppend
<1>5. Within(rows, ports)
  <2> SUFFICES ASSUME NEW n \in 1 .. Len(rows) PROVE rows[n].ports[1] .. rows[n].ports[2] \subseteq ports
    BY DEF Within
  <2>1. CASE n = Len(rows)
    <3>1. row.ports[1] .. row.ports[2] = {key}
      BY <1>2
    <3> QED BY <1>3, <2>1, <3>1
  <2>2. CASE n # Len(rows)
    <3>1. n \in 1 .. Len(list)
      BY <1>3, <2>2
    <3> QED BY <1>3, <3>1 DEF Within
  <2> QED BY <2>1, <2>2
<1>6. \A p \in ports : p # key => BoundTo(rows, p) = BoundTo(list, p)
  BY <1>1, <1>4 DEF Also
<1>7. BoundTo(rows, key) = Append(BoundTo(list, key), b)
  BY <1>1, <1>2, <1>4 DEF Also
<1>8. b.host[1] > 0 /\ Single(b.host) => EndsAt(rows[Len(rows)], <<b.host[1], key>>)
  BY <1>2, <1>3 DEF EndsAt, Single
<1>9. rows # <<>>
  BY <1>3
<1> QED BY <1>3, <1>5, <1>6, <1>7, <1>8, <1>9 DEF BindsOneMore

\* So does the last row, widened by the port that follows.
LEMMA RowWidened ==
  ASSUME NEW list \in Seq(Row), list # <<>>, NEW ports \in SUBSET Nat, Within(list, ports),
         NEW key \in ports, NEW b \in PortBinding, b.host[1] > 0, Single(b.host),
         NEW row, row = list[Len(list)], row.ip = b.ip, EndsAt(row, <<b.host[1] - 1, key - 1>>),
         NEW wider, wider = Widened(row, b.host, key),
         NEW rows, rows = [list EXCEPT ![Len(list)] = wider]
  PROVE  BindsOneMore(rows, list, key, b, ports)
<1>1. Len(list) \in Nat \ {0} /\ Len(list) \in 1 .. Len(list) /\ row \in Row
  BY EmptySeq
<1>2. b.host \in HostPorts /\ key \in Nat /\ b = [ip |-> row.ip, host |-> b.host]
  BY DEF PortBinding
<1>3. /\ wider \in Row
      /\ wider.ports[1] .. wider.ports[2] = (row.ports[1] .. row.ports[2]) \cup {key}
      /\ ~Covers(row, key) /\ Covers(wider, key) /\ Binds(wider, key) = b
      /\ \A p \in Nat : p # key => (Covers(wider, p) <=> Covers(row, p))
      /\ \A p \in Nat : Covers(row, p) => Binds(wider, p) = Binds(row, p)
      /\ EndsAt(wider, <<b.host[1], key>>)
  <2> DEFINE host == b.host
  <2>1. host \in HostPorts /\ host[1] > 0 /\ Single(host) /\ EndsAt(row, <<host[1] - 1, key - 1>>)
        /\ wider = Widened(row, host, key) /\ b = [ip |-> row.ip, host |-> host]
    BY <1>2
  <2>2. b.host = host
    OBVIOUS
  <2> HIDE DEF host
  <2>3. LET w == Widened(row, host, key)
        IN  /\ w \in Row
            /\ w.ports[1] .. w.ports[2] = (row.ports[1] .. row.ports[2]) \cup {key}
            /\ ~Covers(row, key) /\ Covers(w, key) /\ Binds(w, key) = [ip |-> row.ip, host |-> host]
            /\ \A p \in Nat : p # key => (Covers(w, p) <=> Covers(row, p))
            /\ \A p \in Nat : Covers(row, p) => Binds(w, p) = Binds(row, p)
            /\ EndsAt(w, <<host[1], key>>)
    BY <1>1, <1>2, <2>1, WiderRow
  <2> QED BY <2>1, <2>2, <2>3
<1>4. /\ rows \in Seq(Row) /\ Len(rows) = Len(list) /\ rows[Len(rows)] = wider
      /\ \A n \in 1 .. Len(list) : n # Len(list) => rows[n] = list[n]
  BY <1>1, <1>3
<1>5. Within(rows, ports)
  <2>1. row.ports[1] .. row.ports[2] \subseteq ports
    BY <1>1 DEF Within
  <2>2. wider.ports[1] .. wider.ports[2] \subseteq ports
    BY <1>3, <2>1
  <2> QED BY <1>4, <2>2 DEF Within
<1>6. ASSUME NEW p \in Nat
      PROVE  \E s \in Seq(PortBinding) : BoundTo(list, p) = Also(row, p, s) /\ BoundTo(rows, p) = Also(wider, p, s)
  BY <1>3, BoundReplaced
<1>7. ASSUME NEW p \in ports, p # key PROVE BoundTo(rows, p) = BoundTo(list, p)
  <2>1. PICK s \in Seq(PortBinding) : BoundTo(list, p) = Also(row, p, s) /\ BoundTo(rows, p) = Also(wider, p, s)
    BY <1>6
  <2>2. p \in Nat
    OBVIOUS
  <2> QED BY <1>3, <1>7, <2>1, <2>2 DEF Also
<1>8. BoundTo(rows, key) = Append(BoundTo(list, key), b)
  <2>1. PICK s \in Seq(PortBinding) : BoundTo(list, key) = Also(row, key, s) /\ BoundTo(rows, key) = Also(wider, key, s)
    BY <1>2, <1>6
  <2> QED BY <1>3, <2>1 DEF Also
<1>9. rows # <<>> /\ EndsAt(rows[Len(rows)], <<b.host[1], key>>)
  BY <1>1, <1>3, <1>4
<1> QED BY <1>4, <1>5, <1>7, <1>8, <1>9 DEF BindsOneMore

\* Hence each binding that sortAndCombinePorts comes to is bound once more.
LEMMA RowsStep ==
  ASSUME NEW pb, IsPorts(pb), NEW a \in Combining(pb), Halfway(a, pb),
         NEW key \in DOMAIN pb, NEW ip \in STRING, NEW host \in HostPorts
  PROVE  BindsOneMore(IF Follows(a, ip, host, key)
                      THEN [a.bindings EXCEPT ![Len(a.bindings)] = Widened(@, host, key)]
                      ELSE Append(a.bindings, [ip |-> ip, host |-> host, ports |-> <<key, key>>]),
                      a.bindings, key, [ip |-> ip, host |-> host], DOMAIN pb)
<1> DEFINE list == a.bindings
           ports == DOMAIN pb
           b == [ip |-> ip, host |-> host]
           row == [ip |-> ip, host |-> host, ports |-> <<key, key>>]
           last == list[Len(list)]
           wider == Widened(last, host, key)
<1>1. list \in Seq(Row) /\ ports \in SUBSET Nat
  BY DEF Combining, IsPorts
<1>2. Within(list, ports)
  BY DEF Halfway, Within
<1>3. b \in PortBinding /\ b.ip = ip /\ b.host = host /\ key \in ports
  BY DEF PortBinding
<1>4. CASE ~Follows(a, ip, host, key)
  <2>1. row = [ip |-> b.ip, host |-> b.host, ports |-> <<key, key>>]
    OBVIOUS
  <2> HIDE DEF list, ports, b, row
  <2>2. BindsOneMore(Append(list, row), list, key, b, ports)
    BY <1>1, <1>2, <1>3, <2>1, RowAppended
  <2> QED BY <1>4, <2>2 DEF list, ports, b, row
<1>5. CASE Follows(a, ip, host, key)
  <2>1. /\ list # <<>> /\ host[1] > 0 /\ Single(host) /\ last.ip = ip
        /\ a.previous = <<host[1] - 1, key - 1>>
    BY <1>5 DEF Follows, Last
  <2>2. host[1] \in Nat
    BY DEF HostPorts
  <2>3. EndsAt(last, <<host[1] - 1, key - 1>>)
    <3>1. a.previous[1] >= 0
      BY <2>1, <2>2
    <3> QED BY <2>1, <3>1 DEF Halfway
  <2>4. last = list[Len(list)] /\ wider = Widened(last, b.host, key)
    OBVIOUS
  <2> HIDE DEF list, ports, b, last, wider
  <2>5. BindsOneMore([list EXCEPT ![Len(list)] = wider], list, key, b, ports)
    BY <1>1, <1>2, <1>3, <2>1, <2>3, <2>4, RowWidened
  <2> QED BY <1>5, <2>5 DEF list, ports, b, last, wider
<1> QED BY <1>4, <1>5

\* Halfway through the bindings stays halfway, with one binding less to come.
LEMMA CombineKeeps ==
  ASSUME NEW pb, IsPorts(pb), NEW a \in Combining(pb), Halfway(a, pb), a.slots # {}
  PROVE  LET b == CombineOne(pb, a)
         IN  /\ b \in Combining(pb) /\ Halfway(b, pb)
             /\ Cardinality(b.slots) = Cardinality(a.slots) - 1
<1> DEFINE b == CombineOne(pb, a)
           slot == NextSlot(pb, a)
           key == slot[1]
           ip == pb[key][slot[2]].ip
           head == Head(a.left[key])
           host == head.host
<1>1. slot \in a.slots
  BY NextIsThere
<1>2. /\ key \in DOMAIN pb /\ key \in Nat /\ slot[2] \in 1 .. Len(pb[key])
      /\ a.left[key] \in Seq(PortBinding) /\ a.left[key] # <<>> /\ ip \in STRING
  <2> HIDE DEF slot
  <2> QED BY <1>1, SlotTaken
<1> DEFINE rows == IF Follows(a, ip, host, key)
                   THEN [a.bindings EXCEPT ![Len(a.bindings)] = Widened(@, host, key)]
                   ELSE Append(a.bindings, [ip |-> ip, host |-> host, ports |-> <<key, key>>])
           previous == IF host[1] > 0 /\ Single(host) THEN <<host[1], key>> ELSE <<-1, -1>>
           left == [a.left EXCEPT ![key] = Tail(@)]
<1>3. b = [left |-> left, slots |-> a.slots \ {slot}, previous |-> previous, bindings |-> rows]
  BY DEF CombineOne
<1>4. b.left = left /\ b.slots = a.slots \ {slot} /\ b.previous = previous /\ b.bindings = rows
  <2> HIDE DEF left, slot, previous, rows, b
  <2> QED BY <1>3
<1> HIDE DEF b, slot
<1>5. head \in PortBinding /\ host \in HostPorts /\ host \in Nat \X Nat
  <2>1. head \in PortBinding
    BY <1>2
  <2> QED BY <2>1 DEF PortBinding, HostPorts
<1>6. /\ rows \in Seq(Row) /\ rows # <<>> /\ Within(rows, DOMAIN pb)
      /\ \A p \in DOMAIN pb : p # key => BoundTo(rows, p) = BoundTo(a.bindings, p)
      /\ BoundTo(rows, key) = Append(BoundTo(a.bindings, key), [ip |-> ip, host |-> host])
      /\ host[1] > 0 /\ Single(host) => EndsAt(rows[Len(rows)], <<host[1], key>>)
  <2> DEFINE one == [ip |-> ip, host |-> host]
  <2>1. one.host = host
    OBVIOUS
  <2> HIDE DEF ip, head, key
  <2>2. host \in HostPorts /\ key \in DOMAIN pb /\ ip \in STRING
    BY <1>2, <1>5
  <2> HIDE DEF host
  <2>3. BindsOneMore(rows, a.bindings, key, one, DOMAIN pb)
    BY <2>2, RowsStep
  <2> HIDE DEF rows, one
  <2>4. /\ rows \in Seq(Row) /\ rows # <<>> /\ Within(rows, DOMAIN pb)
        /\ \A p \in DOMAIN pb : p # key => BoundTo(rows, p) = BoundTo(a.bindings, p)
        /\ BoundTo(rows, key) = Append(BoundTo(a.bindings, key), one)
        /\ host[1] > 0 /\ Single(host) => EndsAt(rows[Len(rows)], <<host[1], key>>)
    BY <2>1, <2>3 DEF BindsOneMore
  <2> QED BY <2>4 DEF one
<1>7. /\ left \in [DOMAIN pb -> Seq(PortBinding)] /\ left[key] = Tail(a.left[key])
      /\ \A p \in DOMAIN pb : p # key => left[p] = a.left[p]
  <2>1. a.left \in [DOMAIN pb -> Seq(PortBinding)] /\ Tail(a.left[key]) \in Seq(PortBinding)
    BY <1>2 DEF Combining
  <2> QED BY <1>2, <2>1
<1>8. previous \in Int \X Int /\ (previous[1] >= 0 => host[1] > 0 /\ Single(host) /\ previous = <<host[1], key>>)
  BY <1>2, <1>5
<1>9. IsFiniteSet(a.slots) /\ a.slots \subseteq Slots(pb)
  BY SlotsAre, FS_Subset DEF Combining
<1>10. Cardinality(a.slots \ {slot}) = Cardinality(a.slots) - 1
  BY <1>1, <1>9, FS_RemoveElement
<1> HIDE DEF rows, previous, left
<1>11. b \in Combining(pb)
  BY <1>3, <1>6, <1>7, <1>8, <1>9 DEF Combining
<1>12. ASSUME NEW p \in DOMAIN pb PROVE Len(left[p]) = Cardinality(Places(a.slots \ {slot}, p))
  <2>1. Len(a.left[p]) = Cardinality(Places(a.slots, p))
    BY DEF Halfway
  <2>2. /\ p # key => Places(a.slots \ {slot}, p) = Places(a.slots, p)
        /\ Cardinality(Places(a.slots \ {slot}, key)) = Cardinality(Places(a.slots, key)) - 1
    BY <1>1, <1>9, PlacesLeft
  <2>3. CASE p # key
    BY <1>7, <2>1, <2>2, <2>3
  <2>4. CASE p = key
    <3>1. Len(Tail(a.left[key])) = Len(a.left[key]) - 1
      BY <1>2
    <3> QED BY <1>7, <2>1, <2>2, <2>4, <3>1
  <2> QED BY <2>3, <2>4
<1>13. ASSUME NEW p \in DOMAIN pb, OneAddress(pb, p) PROVE BoundTo(rows, p) \o left[p] = pb[p]
  <2>1. BoundTo(a.bindings, p) \o a.left[p] = pb[p]
    BY <1>13 DEF Halfway
  <2>2. CASE p # key
    BY <1>6, <1>7, <2>1, <2>2
  <2>3. CASE p = key
    <3>1. BoundTo(a.bindings, key) \in Seq(PortBinding)
      BY <1>2, BoundType DEF Combining
    <3>2. /\ Append(BoundTo(a.bindings, key), head) \o Tail(a.left[key]) = pb[key]
          /\ \E n \in DOMAIN pb[key] : pb[key][n] = head
      <4> DEFINE l == a.left[key]
                 w == pb[key]
                 bound == BoundTo(a.bindings, key)
      <4>1. l \in Seq(PortBinding) /\ l # <<>> /\ bound \in Seq(PortBinding) /\ bound \o l = w
        BY <1>2, <2>1, <2>3, <3>1
      <4> HIDE DEF l, w, bound
      <4>2. Append(bound, Head(l)) \o Tail(l) = w /\ \E n \in DOMAIN w : w[n] = Head(l)
        BY <4>1, HeadOfRest
      <4> QED BY <4>2 DEF l, w, bound
    <3>3. PICK n \in DOMAIN pb[key] : pb[key][n] = head
      BY <3>2
    <3>4. slot[2] \in DOMAIN pb[key]
      BY <1>2 DEF IsPorts
    <3>5. head.ip = ip
      BY <1>13, <2>3, <3>3, <3>4 DEF OneAddress
    <3>6. head = [ip |-> ip, host |-> host]
      BY <1>5, <3>5 DEF PortBinding
    <3> QED BY <1>6, <1>7, <2>3, <3>2, <3>6
  <2> QED BY <2>2, <2>3
<1>14. previous[1] >= 0 /\ rows # <<>> => EndsAt(rows[Len(rows)], previous)
  BY <1>6, <1>8
<1>15. Halfway(b, pb)
  <2> HIDE DEF key, ip, head, host
  <2> QED BY <1>4, <1>6, <1>12, <1>13, <1>14 DEF Halfway, Within
<1> QED BY <1>4, <1>10, <1>11, <1>15 DEF b

\* The recursion of the combination is the steps, one after the other.
LEMMA CombinedSteps ==
  ASSUME NEW pb, IsPorts(pb)
  PROVE  \E a \in Combining(pb) : Halfway(a, pb) /\ a.slots = {} /\ SortAndCombinePorts(pb) = a.bindings
<1> DEFINE slots == Slots(pb)
           N == Cardinality(slots)
           start == [left |-> pb, slots |-> slots, previous |-> <<-1, -1>>, bindings |-> <<>>]
           V == {a \in Combining(pb) : Halfway(a, pb)}
           F == [x \in Nat \X V |-> IF x[2].slots = {} THEN x[2] ELSE CombineOne(pb, x[2])]
<1>1. IsFiniteSet(slots) /\ N \in Nat
  BY SlotsAre, FS_CardinalityType
<1>2. start \in V
  <2>1. /\ start.left = pb /\ start.slots = slots /\ start.previous = <<-1, -1>> /\ start.bindings = <<>>
    OBVIOUS
  <2>2. pb \in [DOMAIN pb -> Seq(PortBinding)]
    BY DEF IsPorts
  <2>3. start \in Combining(pb)
    BY <2>2 DEF Combining
  <2>4. \A p \in DOMAIN pb : Len(pb[p]) = Cardinality(Places(slots, p))
    BY SlotsAre
  <2>5. \A p \in DOMAIN pb : BoundTo(<<>>, p) \o pb[p] = pb[p]
    <3> SUFFICES ASSUME NEW p \in DOMAIN pb PROVE BoundTo(<<>>, p) \o pb[p] = pb[p]
      OBVIOUS
    <3>1. p \in Nat /\ pb[p] \in Seq(PortBinding)
      BY DEF IsPorts
    <3>2. BoundTo(<<>>, p) = <<>>
      BY <3>1, BoundNothing
    <3> QED BY <3>1, <3>2, ConcatEmptySeq
  <2>6. Halfway(start, pb)
    <3> HIDE DEF start
    <3> QED BY <2>1, <2>4, <2>5 DEF Halfway
  <2> QED BY <2>3, <2>6
<1>3. ASSUME NEW a \in V, a.slots # {}
      PROVE  CombineOne(pb, a) \in V /\ Cardinality(CombineOne(pb, a).slots) = Cardinality(a.slots) - 1
  BY <1>3, CombineKeeps
<1>4. IsStep(F, V)
  <2> HIDE DEF V
  <2> QED BY <1>3 DEF IsStep
<1>5. PICK f : Computes(f, start, F, V, N)
  <2> HIDE DEF F, V, N, start
  <2> QED BY <1>1, <1>2, <1>4, Recursion
<1>6. f \in [0 .. N -> V] /\ f[0] = start
  BY <1>5 DEF Computes
<1>7. ASSUME NEW n \in 1 .. N
      PROVE  /\ f[n - 1] \in V
             /\ f[n - 1].slots # {} => f[n] = CombineOne(pb, f[n - 1])
  <2>1. n \in Nat /\ n - 1 \in 0 .. N
    BY <1>1
  <2>2. f[n] = F[<<n, f[n - 1]>>]
    <3> HIDE DEF F, N, V
    <3> QED BY <1>5 DEF Computes
  <2>3. f[n - 1] \in V
    <3> HIDE DEF V, N
    <3> QED BY <1>6, <2>1
  <2> HIDE DEF V
  <2> QED BY <2>1, <2>2, <2>3
<1> DEFINE T == {n \in 0 .. N : Cardinality(f[n].slots) = N - n}
<1>8. \A n \in 0 .. N : n \in T
  <2>1. 0 \in T
    BY <1>1, <1>6
  <2>2. ASSUME NEW n \in 1 .. N, n - 1 \in T PROVE n \in T
    <3>1. Cardinality(f[n - 1].slots) = N - (n - 1) /\ N - (n - 1) > 0
      BY <1>1, <2>2
    <3>2. f[n - 1].slots # {}
      <4> HIDE DEF N
      <4>1. Cardinality({}) = 0
        BY FS_EmptySet
      <4> QED BY <1>1, <3>1, <4>1
    <3>3. Cardinality(f[n].slots) = N - (n - 1) - 1
      <4> HIDE DEF V, N
      <4> QED BY <1>3, <1>7, <3>1, <3>2
    <3> QED BY <1>1, <3>3
  <2> HIDE DEF T
  <2> QED BY <1>1, <2>1, <2>2, UpTo
<1>9. ASSUME NEW n \in 1 .. N PROVE f[n] = CombineOne(pb, f[n - 1])
  <2>1. n - 1 \in T
    <3>1. n - 1 \in 0 .. N
      BY <1>1
    <3> HIDE DEF T
    <3> QED BY <1>8, <3>1
  <2>2. Cardinality(f[n - 1].slots) = N - (n - 1) /\ N - (n - 1) > 0
    BY <1>1, <2>1
  <2>3. f[n - 1].slots # {}
    <3> HIDE DEF N
    <3>1. Cardinality({}) = 0
      BY FS_EmptySet
    <3> QED BY <1>1, <2>2, <3>1
  <2> QED BY <1>7, <2>3
<1> DEFINE Body(h) == [n \in 0 .. N |-> IF n = 0 THEN start ELSE CombineOne(pb, h[n - 1])]
           g == CHOOSE h : h = Body(h)
<1> HIDE DEF V, start, slots, N
<1>10. f = Body(f)
  <2>1. \A n \in 0 .. N : n = 0 \/ n \in 1 .. N
    BY <1>1
  <2> QED BY <1>6, <1>9, <2>1
<1>11. g = Body(g)
  <2> HIDE DEF Body
  <2> QED BY <1>10
<1>12. \A n \in 0 .. N : n \in {m \in 0 .. N : g[m] = f[m]}
  <2> DEFINE U == {m \in 0 .. N : g[m] = f[m]}
  <2>1. 0 \in U
    <3>1. g[0] = Body(g)[0]
      <4> HIDE DEF g, Body
      <4> QED BY <1>11
    <3>2. Body(g)[0] = start /\ 0 \in 0 .. N
      <4> HIDE DEF g
      <4> QED BY <1>1
    <3> QED BY <1>6, <3>1, <3>2
  <2>2. ASSUME NEW n \in 1 .. N, n - 1 \in U PROVE n \in U
    <3>1. n \in 0 .. N /\ n # 0
      BY <1>1
    <3>2. g[n] = CombineOne(pb, g[n - 1])
      <4>1. g[n] = Body(g)[n]
        <5> HIDE DEF g, Body
        <5> QED BY <1>11
      <4> HIDE DEF g
      <4> QED BY <3>1, <4>1
    <3>3. g[n - 1] = f[n - 1]
      BY <2>2
    <3> HIDE DEF g
    <3> QED BY <1>9, <3>1, <3>2, <3>3
  <2>3. \A n \in 0 .. N : n \in U
    <3> HIDE DEF U
    <3> QED BY <1>1, <2>1, <2>2, UpTo
  <2> QED BY <2>3
<1>13. SortAndCombinePorts(pb) = g[N].bindings
  BY DEF SortAndCombinePorts, N, slots, start
<1>14. N \in 0 .. N
  BY <1>1
<1>15. SortAndCombinePorts(pb) = f[N].bindings
  <2> HIDE DEF g
  <2> QED BY <1>12, <1>13, <1>14
<1>16. f[N].slots = {}
  <2>1. N \in T
    <3> HIDE DEF T
    <3> QED BY <1>8, <1>14
  <2>2. Cardinality(f[N].slots) = 0
    BY <1>1, <2>1
  <2>3. f[N] \in Combining(pb)
    BY <1>6, <1>14 DEF V
  <2>4. IsFiniteSet(f[N].slots)
    BY <2>3, SlotsAre, FS_Subset DEF Combining
  <2> QED BY <2>2, <2>4, FS_EmptySet
<1>17. f[N] \in V
  BY <1>6, <1>14
<1> QED BY <1>15, <1>16, <1>17 DEF V

\* What the form posts of the ports is a list of bindings for some of the ports; of ports
\* that have an address each it is what there was.
LEMMA PortsPosted ==
  ASSUME NEW pb, IsPorts(pb)
  PROVE  LET posted == PreparePortBindings(SortAndCombinePorts(pb))
         IN  /\ IsPorts(posted)
             /\ (\A p \in DOMAIN pb : pb[p] # <<>> /\ OneAddress(pb, p)) => posted = pb
<1>1. PICK a \in Combining(pb) : Halfway(a, pb) /\ a.slots = {} /\ SortAndCombinePorts(pb) = a.bindings
  BY CombinedSteps
<1> DEFINE list == a.bindings
           covered == UNION {list[i].ports[1] .. list[i].ports[2] : i \in DOMAIN list}
           posted == PreparePortBindings(list)
<1>2. list \in Seq(Row) /\ DOMAIN list = 1 .. Len(list) /\ a.left \in [DOMAIN pb -> Seq(PortBinding)]
  BY DEF Combining
<1>3. posted = [p \in covered |-> BoundTo(list, p)]
  BY DEF PreparePortBindings
<1>4. \A n \in 1 .. Len(list) : list[n].ports[1] .. list[n].ports[2] \subseteq DOMAIN pb
  BY <1>1 DEF Halfway
<1>5. \A p : p \in covered <=> \E n \in 1 .. Len(list) : p \in list[n].ports[1] .. list[n].ports[2]
  BY <1>2
<1> HIDE DEF covered, list
<1>6. covered \in SUBSET DOMAIN pb /\ DOMAIN pb \subseteq Nat /\ IsFiniteSet(DOMAIN pb)
  BY <1>4, <1>5 DEF IsPorts
<1>7. IsFiniteSet(covered) /\ covered \subseteq Nat
  BY <1>6, FS_Subset
<1>8. IsPorts(posted)
  <2>1. \A p \in covered : BoundTo(list, p) \in Seq(PortBinding)
    BY <1>2, <1>7, BoundType
  <2> QED BY <1>3, <1>7, <2>1 DEF IsPorts
<1>9. ASSUME \A p \in DOMAIN pb : pb[p] # <<>> /\ OneAddress(pb, p)
      PROVE  posted = pb
  <2>1. ASSUME NEW p \in DOMAIN pb PROVE BoundTo(list, p) = pb[p] /\ p \in covered
    <3>1. p \in Nat /\ pb[p] \in Seq(PortBinding)
      BY DEF IsPorts
    <3>2. BoundTo(list, p) \in Seq(PortBinding)
      BY <1>2, <3>1, BoundType
    <3>3. BoundTo(list, p) \o a.left[p] = pb[p]
      BY <1>1, <1>9 DEF Halfway, list
    <3>4. a.left[p] = <<>>
      <4>1. Len(a.left[p]) = Cardinality(Places({}, p))
        BY <1>1 DEF Halfway
      <4>2. Places({}, p) = {}
        BY DEF Places
      <4>3. Len(a.left[p]) = 0
        BY <4>1, <4>2, FS_EmptySet
      <4>4. a.left[p] \in Seq(PortBinding)
        BY <1>2
      <4> QED BY <4>3, <4>4, EmptySeq
    <3>5. BoundTo(list, p) = pb[p]
      BY <3>2, <3>3, <3>4, ConcatEmptySeq
    <3>6. PICK n \in 1 .. Len(list) : Covers(list[n], p)
      BY <1>2, <1>9, <3>1, <3>5, BoundCovered
    <3> QED BY <1>5, <3>5, <3>6 DEF Covers
  <2>2. covered = DOMAIN pb
    BY <1>6, <2>1
  <2>3. pb = [p \in DOMAIN pb |-> pb[p]]
    BY DEF IsPorts
  <2> HIDE DEF posted
  <2> QED BY <1>3, <2>1, <2>2, <2>3
<1>10. SortAndCombinePorts(pb) = list
  BY <1>1 DEF list
<1> HIDE DEF posted
<1>11. IsPorts(posted) /\ ((\A p \in DOMAIN pb : pb[p] # <<>> /\ OneAddress(pb, p)) => posted = pb)
  BY <1>8, <1>9
<1> QED BY <1>10, <1>11 DEF posted

-----------------------------------------------------------------------------
(* The facets one by one.                                                  *)

\* Each facet that has a loss of its own, where it has none
LEMMA DevicesKept ==
  ASSUME NEW devices, \A d \in devices : d = [host |-> d.host, inside |-> d.inside, permissions |-> d.permissions],
         \A d \in devices : d.permissions = "rwm" /\ d.inside # ""
  PROVE  PrepareDevices(LoadDevices(devices)) = devices
<1> DEFINE Shown(d) == [host |-> d.host, inside |-> d.inside]
           Posted(d) == [host |-> d.host, inside |-> IF d.inside = "" THEN d.host ELSE d.inside, permissions |-> "rwm"]
<1>1. ASSUME NEW d \in devices PROVE Posted(Shown(d)) = d
  OBVIOUS
<1>2. PrepareDevices(LoadDevices(devices)) = {Posted(e) : e \in {Shown(d) : d \in devices}}
  BY DEF PrepareDevices, LoadDevices
<1> HIDE DEF Shown, Posted
<1> QED BY <1>1, <1>2

\* Two servers at most.
LEMMA DnsKept ==
  ASSUME NEW dns \in Seq(STRING)
  PROVE  /\ LoadDns(dns) \in Seq(STRING)
         /\ Len(dns) <= 2 => LoadDns(dns) = dns
<1> DEFINE N == IF Len(dns) < 2 THEN Len(dns) ELSE 2
<1>1. N \in Nat /\ N <= Len(dns) /\ Len(dns) \in Nat
  OBVIOUS
<1>2. LoadDns(dns) = [i \in 1 .. N |-> dns[i]]
  BY DEF LoadDns
<1>3. \A i \in 1 .. N : dns[i] \in STRING
  BY <1>1
<1> HIDE DEF N
<1>4. LoadDns(dns) \in Seq(STRING) /\ Len(LoadDns(dns)) = N /\ \A i \in 1 .. N : LoadDns(dns)[i] = dns[i]
  BY <1>1, <1>2, <1>3
<1>5. ASSUME Len(dns) <= 2 PROVE LoadDns(dns) = dns
  <2>1. N = Len(dns)
    <3>1. \A k \in Nat : k <= 2 => k = IF k < 2 THEN k ELSE 2
      OBVIOUS
    <3> QED BY <1>1, <1>5, <3>1 DEF N
  <2> QED BY <1>4, <2>1, SeqEqual
<1> QED BY <1>4, <1>5

\* The options of the log, but for empty ones, and none without a driver.
LEMMA LogPosted ==
  ASSUME NEW log, log \in [driver : STRING, opts : SUBSET STRING]
  PROVE  /\ PrepareLogDriver(LoadLogging(log), LoadLogging(log)) \in [driver : STRING, opts : SUBSET STRING]
         /\ "" \notin log.opts /\ (log.driver = "none" => log.opts = {})
              => PrepareLogDriver(LoadLogging(log), LoadLogging(log)) = log
BY DEF PrepareLogDriver, LoadLogging

\* The four words for the console are its four states.
LEMMA ConsoleKept ==
  ASSUME NEW console, console \in [stdin : BOOLEAN, tty : BOOLEAN]
  PROVE  PrepareConsole(LoadConsole(console)) = console
<1> DEFINE word == LoadConsole(console)
<1>1. (word \in {"both", "interactive"}) = console.stdin /\ (word \in {"both", "tty"}) = console.tty
  BY DEF LoadConsole
<1>2. console.stdin \in BOOLEAN /\ console.tty \in BOOLEAN /\ console = [stdin |-> console.stdin, tty |-> console.tty]
  OBVIOUS
<1> HIDE DEF word
<1>3. [stdin |-> word \in {"both", "interactive"}, tty |-> word \in {"both", "tty"}] = console
  BY <1>1, <1>2
<1> QED BY <1>3 DEF word, PrepareConsole

\* The command, unless it is quoted; an entrypoint that is none may be posted as cleared.
LEMMA CommandKept ==
  ASSUME NEW cmd, NEW entrypoint, entrypoint # "empty"
  PROVE  LET f == LoadCommand(cmd, entrypoint)
         IN  /\ cmd # "quoted" => PrepareCmd(f) = cmd
             /\ PrepareEntrypoint(f) = entrypoint \/ (PrepareEntrypoint(f) = "cleared" /\ entrypoint = "none")
             /\ PrepareEntrypoint(f) # "empty"
<1> DEFINE f == LoadCommand(cmd, entrypoint)
<1>1. /\ f.cmd = cmd /\ f.cmdMode = (IF cmd = "none" THEN "default" ELSE "override")
      /\ f.entrypoint = (IF entrypoint = "none" THEN "empty" ELSE entrypoint)
      /\ f.entrypointMode = "override"
  BY DEF LoadCommand
<1> HIDE DEF f
<1>2. cmd # "quoted" => PrepareCmd(f) = cmd
  BY <1>1 DEF PrepareCmd
<1>3. /\ PrepareEntrypoint(f) = entrypoint \/ (PrepareEntrypoint(f) = "cleared" /\ entrypoint = "none")
      /\ PrepareEntrypoint(f) # "empty"
  BY <1>1 DEF PrepareEntrypoint
<1> QED BY <1>2, <1>3 DEF f

\* Without "ALL", what is posted grants what was granted: the lists are complete.
LEMMA GrantedKept ==
  ASSUME NEW c, "ALL" \notin c.add \cup c.drop
  PROVE  Granted(PrepareCapabilities(LoadCapabilities(c))) = Granted(c)
<1> DEFINE known == c.add \cup c.drop
           f == LoadCapabilities(c)
           posted == PrepareCapabilities(f)
<1>1. DOMAIN ContainerCapabilities = {"chown", "admin"} /\ ContainerCapabilities["chown"] /\ ~ContainerCapabilities["admin"]
  BY DEF ContainerCapabilities
<1>2. /\ f.allowed = c.add \cup {k \in {"chown", "admin"} \ known : ContainerCapabilities[k]}
      /\ f.denied = c.drop \cup {k \in {"chown", "admin"} \ known : ~ContainerCapabilities[k]}
  BY <1>1 DEF LoadCapabilities
<1>3. posted.add = f.allowed /\ posted.drop = f.denied
  BY DEF PrepareCapabilities
<1> HIDE DEF f, posted
<1>4. /\ posted.add = c.add \cup ({"chown"} \ known)
      /\ posted.drop = c.drop \cup ({"admin"} \ known)
  BY <1>1, <1>2, <1>3
<1>5. ASSUME NEW d, "ALL" \notin d.add, "ALL" \notin d.drop
      PROVE  Granted(d) = ({"chown"} \cup (d.add \cap {"chown", "admin"})) \ d.drop
  <2>1. {k \in {"chown", "admin"} : ContainerCapabilities[k]} = {"chown"}
    BY <1>1
  <2> QED BY <1>1, <1>5, <2>1 DEF Granted
<1>6. "ALL" \notin posted.add /\ "ALL" \notin posted.drop
  BY <1>4
<1>7. Granted(posted) = Granted(c)
  BY <1>4, <1>5, <1>6
<1> QED BY <1>7 DEF posted, f

\* The memory, if the slider of the form can show it.
LEMMA MemoryPosted ==
  ASSUME NEW memory \in Nat
  PROVE  PrepareMemory(memory) \in Nat /\ (memory % 2 = 0 => PrepareMemory(memory) = memory)
BY DEF PrepareMemory

IsImage(image) == DOMAIN image = {"host", "user", "tag"}

\* No registry of Docker Hub takes the name for its own that is another's.
Known(image, registries) ==
  \A i \in DOMAIN registries :
    registries[i].type = "dockerhub" /\ Matches(registries[i], image) => image.host \in {"", registries[i].url}

\* The name that is posted names the image that was there, unless a registry of Docker Hub
\* has taken the name of another for its own.
LEMMA ImagePosted ==
  ASSUME NEW image, IsImage(image), NEW registries, DOMAIN registries \subseteq Nat,
         \A i \in DOMAIN registries : /\ registries[i].type # "anonymous" /\ registries[i].url # ""
                                      /\ registries[i].type = "dockerhub" => registries[i].url = "docker.io"
  PROVE  LET posted == BuildImageFullURI(RetrieveRegistryModel(image, registries))
         IN  /\ IsImage(posted)
             /\ Known(image, registries) => Canonical(posted) = Canonical(image)
<1> DEFINE found == {i \in DOMAIN registries : Matches(registries[i], image)}
           first == registries[Min(found)]
           model == RetrieveRegistryModel(image, registries)
           posted == BuildImageFullURI(model)
<1>2. ASSUME NEW other, other.host = image.host \/ (image.host = "" /\ other.host = "docker.io"),
             other.user = image.user, other.tag = image.tag \/ (image.tag = "" /\ other.tag = "latest")
      PROVE  Canonical(other) = Canonical(image)
  <2>1. (IF other.host = "" THEN "docker.io" ELSE other.host) = (IF image.host = "" THEN "docker.io" ELSE image.host)
    BY <1>2
  <2>2. (IF other.tag = "" THEN "latest" ELSE other.tag) = (IF image.tag = "" THEN "latest" ELSE image.tag)
    BY <1>2
  <2> QED BY <1>2, <2>1, <2>2, Zenon DEF Canonical
<1>3. CASE found # {}
  <2>1. found \in SUBSET Nat
    OBVIOUS
  <2>2. Min(found) \in found
    <3> HIDE DEF found
    <3> QED BY <1>3, <2>1, LeastIs
  <2>3. /\ first.type # "anonymous" /\ first.url # ""
        /\ first.type = "dockerhub" => first.url = "docker.io"
        /\ Matches(first, image)
    BY <2>2
  <2>4. model = [useRegistry |-> TRUE, registry |-> first,
                 image |-> IF image.host = first.url THEN [image EXCEPT !.host = ""] ELSE image]
    BY <1>3 DEF RetrieveRegistryModel
  <2>5. Known(image, registries) /\ first.type = "dockerhub" => image.host \in {"", first.url}
    BY <2>2 DEF Known
  <2> HIDE DEF first, model
  <2> DEFINE m == model.image
  <2>6. /\ model.useRegistry = TRUE /\ model.registry = first
        /\ m.host = (IF image.host = first.url THEN "" ELSE image.host)
        /\ m.user = image.user /\ m.tag = image.tag
    <3>1. model.useRegistry = TRUE /\ model.registry = first
          /\ m = IF image.host = first.url THEN [image EXCEPT !.host = ""] ELSE image
      BY <2>4
    <3> QED BY <3>1 DEF IsImage
  <2> DEFINE host == IF m.host = "" THEN first.url ELSE "mixed"
             tag  == IF image.tag = "" THEN "latest" ELSE image.tag
  <2>7. posted = [host |-> host, user |-> image.user, tag |-> tag]
    BY <2>3, <2>6 DEF BuildImageFullURI
  <2>9. host = (IF m.host = "" THEN first.url ELSE "mixed") /\ tag = (IF image.tag = "" THEN "latest" ELSE image.tag)
    OBVIOUS
  <2> HIDE DEF m, posted, host, tag
  <2>10. IsImage(posted) /\ posted.host = host /\ posted.user = image.user /\ posted.tag = tag
    BY <2>7 DEF IsImage
  <2>11. ASSUME Known(image, registries) PROVE Canonical(posted) = Canonical(image)
    <3>1. image.host = first.url \/ (image.host = "" /\ first.url = "docker.io")
      BY <2>3, <2>5, <2>11 DEF Matches
    <3>2. posted.host = image.host \/ (image.host = "" /\ posted.host = "docker.io")
      BY <2>6, <2>9, <2>10, <3>1
    <3> QED BY <1>2, <2>9, <2>10, <3>2
  <2> QED BY <2>10, <2>11 DEF posted, model
<1>4. CASE found = {}
  <2>1. model = [useRegistry |-> image.host = "", registry |-> [type |-> "anonymous"], image |-> image]
    BY <1>4 DEF RetrieveRegistryModel
  <2> HIDE DEF model
  <2>2. model.useRegistry = (image.host = "") /\ model.registry.type = "anonymous" /\ model.image = image
    BY <2>1
  <2>3. /\ IsImage(posted) /\ posted.host = image.host /\ posted.user = image.user
        /\ (posted.tag = image.tag \/ (image.tag = "" /\ posted.tag = "latest"))
    <3>1. CASE image.host # ""
      BY <2>2, <3>1 DEF BuildImageFullURI, IsImage
    <3>2. CASE image.host = ""
      <4> DEFINE tag == IF image.tag = "" THEN "latest" ELSE image.tag
      <4>1. posted = [host |-> image.host, user |-> image.user, tag |-> tag]
        <5> HIDE DEF tag
        <5>1. model.useRegistry = TRUE /\ model.registry.type = "anonymous" /\ model.image = image
          BY <2>2, <3>2
        <5>2. tag = IF model.image.tag = "" THEN "latest" ELSE model.image.tag
          BY <5>1 DEF tag
        <5> QED BY <5>1, <5>2 DEF BuildImageFullURI
      <4>2. tag = image.tag \/ (image.tag = "" /\ tag = "latest")
        OBVIOUS
      <4> HIDE DEF posted, tag
      <4> QED BY <4>1, <4>2 DEF IsImage
    <3> QED BY <3>1, <3>2
  <2> HIDE DEF posted
  <2>4. Canonical(posted) = Canonical(image)
    BY <1>2, <2>3
  <2> QED BY <2>3, <2>4 DEF posted, model
<1> QED BY <1>3, <1>4

-----------------------------------------------------------------------------
(* The whole configuration.                                                *)

\* What the form shows of a container and posts again
Reposted(spec) == PrepareConfiguration(LoadFromContainerSpec(spec, Registries))

\* Each facet is posted from its own part of the form.
LEMMA RepostedFacets ==
  ASSUME NEW spec
  PROVE  LET posted == Reposted(spec)
         IN  /\ DOMAIN posted = Facets
             /\ posted.ports = PreparePortBindings(SortAndCombinePorts(spec.ports))
             /\ posted.env = PrepareEnv(LoadEnv(spec.env))
             /\ posted.sysctls = PrepareSysctls(LoadSysctls(spec.sysctls))
             /\ posted.devices = PrepareDevices(LoadDevices(spec.devices))
             /\ posted.mounts = PrepareVolumes(LoadVolumes(spec.mounts))
             /\ posted.dns = LoadDns(spec.dns) /\ posted.hosts = PrepareExtraHosts(spec.hosts)
             /\ posted.log = PrepareLogDriver(LoadLogging(spec.log), LoadLogging(spec.log))
             /\ posted.console = PrepareConsole(LoadConsole(spec.console))
             /\ posted.cmd = PrepareCmd(LoadCommand(spec.cmd, spec.entrypoint))
             /\ posted.entrypoint = PrepareEntrypoint(LoadCommand(spec.cmd, spec.entrypoint))
             /\ posted.capabilities = PrepareCapabilities(LoadCapabilities(spec.capabilities))
             /\ posted.memory = PrepareMemory(spec.memory)
             /\ posted.image = BuildImageFullURI(RetrieveRegistryModel(spec.image, Registries))
             /\ posted.mode = spec.mode /\ posted.ip = spec.ip /\ posted.nets = {spec.mode}
<1> DEFINE form == LoadFromContainerSpec(spec, Registries)
           posted == PrepareConfiguration(form)
<1>1. /\ form.ports = SortAndCombinePorts(spec.ports) /\ form.env = LoadEnv(spec.env)
      /\ form.sysctls = LoadSysctls(spec.sysctls) /\ form.devices = LoadDevices(spec.devices)
      /\ form.volumes = LoadVolumes(spec.mounts) /\ form.dns = LoadDns(spec.dns) /\ form.hosts = spec.hosts
      /\ form.log = LoadLogging(spec.log) /\ form.console = LoadConsole(spec.console)
      /\ form.command = LoadCommand(spec.cmd, spec.entrypoint)
      /\ form.capabilities = LoadCapabilities(spec.capabilities)
      /\ form.memory = spec.memory /\ form.network = LoadNetworks(spec)
      /\ form.model = RetrieveRegistryModel(spec.image, Registries)
  BY DEF LoadFromContainerSpec
<1>2. form.network.mode = spec.mode /\ form.network.ip = spec.ip
  BY <1>1 DEF LoadNetworks
<1> HIDE DEF form
<1>3. /\ DOMAIN posted = Facets
      /\ posted.ports = PreparePortBindings(form.ports) /\ posted.env = PrepareEnv(form.env)
      /\ posted.sysctls = PrepareSysctls(form.sysctls) /\ posted.devices = PrepareDevices(form.devices)
      /\ posted.mounts = PrepareVolumes(form.volumes) /\ posted.dns = form.dns
      /\ posted.hosts = PrepareExtraHosts(form.hosts)
      /\ posted.log = PrepareLogDriver(form.log, form.log) /\ posted.console = PrepareConsole(form.console)
      /\ posted.cmd = PrepareCmd(form.command) /\ posted.entrypoint = PrepareEntrypoint(form.command)
      /\ posted.capabilities = PrepareCapabilities(form.capabilities)
      /\ posted.memory = PrepareMemory(form.memory) /\ posted.image = BuildImageFullURI(form.model)
      /\ posted.mode = form.network.mode /\ posted.ip = form.network.ip /\ posted.nets = {form.network.mode}
  BY DEF PrepareConfiguration, Facets
<1> HIDE DEF posted
<1>4. /\ DOMAIN posted = Facets
      /\ posted.ports = PreparePortBindings(SortAndCombinePorts(spec.ports))
      /\ posted.env = PrepareEnv(LoadEnv(spec.env))
      /\ posted.sysctls = PrepareSysctls(LoadSysctls(spec.sysctls))
      /\ posted.devices = PrepareDevices(LoadDevices(spec.devices))
      /\ posted.mounts = PrepareVolumes(LoadVolumes(spec.mounts))
      /\ posted.dns = LoadDns(spec.dns) /\ posted.hosts = PrepareExtraHosts(spec.hosts)
      /\ posted.log = PrepareLogDriver(LoadLogging(spec.log), LoadLogging(spec.log))
      /\ posted.console = PrepareConsole(LoadConsole(spec.console))
      /\ posted.cmd = PrepareCmd(LoadCommand(spec.cmd, spec.entrypoint))
      /\ posted.entrypoint = PrepareEntrypoint(LoadCommand(spec.cmd, spec.entrypoint))
      /\ posted.capabilities = PrepareCapabilities(LoadCapabilities(spec.capabilities))
      /\ posted.memory = PrepareMemory(spec.memory)
      /\ posted.image = BuildImageFullURI(RetrieveRegistryModel(spec.image, Registries))
      /\ posted.mode = spec.mode /\ posted.ip = spec.ip /\ posted.nets = {spec.mode}
  BY <1>1, <1>2, <1>3
<1> QED BY <1>4 DEF posted, form, Reposted

\* What the form posts is a configuration, in the network that the mode names.
LEMMA IsReposted ==
  ASSUME NEW spec, IsConfiguration(spec)
  PROVE  IsConfiguration(Reposted(spec)) /\ Reposted(spec).nets = {spec.mode}
<1> DEFINE posted == Reposted(spec)
<1>1. /\ IsPorts(spec.ports) /\ spec.dns \in Seq(STRING)
      /\ spec.log \in [driver : STRING, opts : SUBSET STRING] /\ spec.console \in [stdin : BOOLEAN, tty : BOOLEAN]
      /\ spec.entrypoint # "empty" /\ spec.memory \in Nat /\ DOMAIN spec.image = {"host", "user", "tag"}
      /\ spec.mode \in Int
  BY DEF IsConfiguration
<1>2. DOMAIN posted = Facets /\ posted.mode = spec.mode /\ posted.nets = {spec.mode}
  BY RepostedFacets
<1>3. IsPorts(posted.ports)
  <2>1. posted.ports = PreparePortBindings(SortAndCombinePorts(spec.ports))
    BY RepostedFacets
  <2> QED BY <1>1, <2>1, PortsPosted
<1>4. posted.dns \in Seq(STRING)
  <2>1. posted.dns = LoadDns(spec.dns)
    BY RepostedFacets
  <2> QED BY <1>1, <2>1, DnsKept
<1>5. \A d \in posted.devices : d = [host |-> d.host, inside |-> d.inside, permissions |-> d.permissions]
  <2>1. posted.devices = PrepareDevices(LoadDevices(spec.devices))
    BY RepostedFacets
  <2> SUFFICES ASSUME NEW d \in posted.devices
               PROVE  d = [host |-> d.host, inside |-> d.inside, permissions |-> d.permissions]
    OBVIOUS
  <2>2. PICK e \in LoadDevices(spec.devices) :
          d = [host |-> e.host, inside |-> IF e.inside = "" THEN e.host ELSE e.inside, permissions |-> "rwm"]
    BY <2>1 DEF PrepareDevices
  <2>3. \A a, b, c : d = [host |-> a, inside |-> b, permissions |-> c] => d.host = a /\ d.inside = b /\ d.permissions = c
    OBVIOUS
  <2> DEFINE inside == IF e.inside = "" THEN e.host ELSE e.inside
  <2>4. d = [host |-> e.host, inside |-> inside, permissions |-> "rwm"]
    BY <2>2
  <2> HIDE DEF inside
  <2>5. d.host = e.host /\ d.inside = inside /\ d.permissions = "rwm"
    BY <2>3, <2>4
  <2> QED BY <2>4, <2>5
<1>6. posted.log \in [driver : STRING, opts : SUBSET STRING]
  <2>1. posted.log = PrepareLogDriver(LoadLogging(spec.log), LoadLogging(spec.log))
    BY RepostedFacets
  <2> QED BY <1>1, <2>1, LogPosted
<1>7. posted.console \in [stdin : BOOLEAN, tty : BOOLEAN]
  <2>1. posted.console = PrepareConsole(LoadConsole(spec.console))
    BY RepostedFacets
  <2> QED BY <1>1, <2>1, ConsoleKept
<1>8. posted.entrypoint # "empty"
  <2>1. posted.entrypoint = PrepareEntrypoint(LoadCommand(spec.cmd, spec.entrypoint))
    BY RepostedFacets
  <2> QED BY <1>1, <2>1, CommandKept
<1>9. posted.memory \in Nat
  <2>1. posted.memory = PrepareMemory(spec.memory)
    BY RepostedFacets
  <2> QED BY <1>1, <2>1, MemoryPosted
<1>10. DOMAIN posted.image = {"host", "user", "tag"}
  <2>1. posted.image = BuildImageFullURI(RetrieveRegistryModel(spec.image, Registries))
    BY RepostedFacets
  <2>2. IsImage(spec.image)
    BY <1>1 DEF IsImage
  <2>3. DOMAIN Registries \subseteq Nat
        /\ \A i \in DOMAIN Registries : /\ Registries[i].type # "anonymous" /\ Registries[i].url # ""
                                        /\ Registries[i].type = "dockerhub" => Registries[i].url = "docker.io"
    BY ContainerAssumption DEF IsRegistry
  <2> QED BY <2>1, <2>2, <2>3, ImagePosted DEF IsImage
<1>11. IsFiniteSet({spec.mode}) /\ {spec.mode} \subseteq Int
  BY <1>1, FS_Singleton
<1> HIDE DEF posted
<1>12. IsConfiguration(posted)
  BY <1>2, <1>3, <1>4, <1>5, <1>6, <1>7, <1>8, <1>9, <1>10, <1>11 DEF IsConfiguration
<1> QED BY <1>2, <1>12 DEF posted

\* What FormKeeps asks of the configuration of a new container
Resembles(is, was) ==
  /\ SamePorts(is.ports, was.ports)
  /\ Granted(is.capabilities) = Granted(was.capabilities)
  /\ Canonical(is.image) = Canonical(was.image)
  /\ is.entrypoint = was.entrypoint \/ (is.entrypoint = "cleared" /\ was.entrypoint = "none")
  /\ \A facet \in {"env", "sysctls", "devices", "mounts", "dns", "hosts", "log",
                   "console", "cmd", "memory", "mode", "ip"} : is[facet] = was[facet]

\* Ports with one address each are joined and taken apart to what they were.
LEMMA PortsKept ==
  ASSUME NEW pb, IsPorts(pb), \A p \in DOMAIN pb : Cardinality({pb[p][i].ip : i \in DOMAIN pb[p]}) = 1
  PROVE  PreparePortBindings(SortAndCombinePorts(pb)) = pb
<1>1. ASSUME NEW p \in DOMAIN pb PROVE pb[p] # <<>> /\ OneAddress(pb, p)
  <2> DEFINE addresses == {pb[p][i].ip : i \in DOMAIN pb[p]}
  <2>1. pb[p] \in Seq(PortBinding) /\ Cardinality(addresses) = 1
    BY DEF IsPorts
  <2>2. IsFiniteSet(addresses)
    <3> DEFINE h == [i \in DOMAIN pb[p] |-> pb[p][i].ip]
    <3>1. DOMAIN pb[p] = 1 .. Len(pb[p]) /\ Len(pb[p]) \in Nat
      BY <2>1
    <3>2. IsFiniteSet(DOMAIN pb[p])
      BY <3>1, FS_Interval
    <3>3. h \in Surjection(DOMAIN pb[p], addresses)
      <4>1. h \in [DOMAIN pb[p] -> addresses]
        OBVIOUS
      <4>2. \A a \in addresses : \E i \in DOMAIN pb[p] : h[i] = a
        OBVIOUS
      <4> HIDE DEF h, addresses
      <4> QED BY <4>1, <4>2 DEF Surjection
    <3> HIDE DEF h, addresses
    <3> QED BY <3>2, <3>3, FS_Surjection
  <2>3. PICK ip : addresses = {ip}
    <3> HIDE DEF addresses
    <3> QED BY <2>1, <2>2, FS_Singleton
  <2>4. DOMAIN pb[p] # {}
    BY <2>3
  <2>5. pb[p] # <<>>
    BY <2>4
  <2>6. \A i \in DOMAIN pb[p] : pb[p][i].ip = ip
    BY <2>3
  <2> QED BY <2>5, <2>6 DEF OneAddress
<1> QED BY <1>1, PortsPosted

\* The form and back: all that the form takes apart is put together again.
LEMMA RoundTrip ==
  ASSUME NEW spec, IsConfiguration(spec), Survives(spec)
  PROVE  Resembles(Reposted(spec), spec)
<1> DEFINE posted == Reposted(spec)
<1>1. /\ IsPorts(spec.ports) /\ spec.dns \in Seq(STRING)
      /\ \A d \in spec.devices : d = [host |-> d.host, inside |-> d.inside, permissions |-> d.permissions]
      /\ spec.log \in [driver : STRING, opts : SUBSET STRING] /\ spec.console \in [stdin : BOOLEAN, tty : BOOLEAN]
      /\ spec.entrypoint # "empty" /\ spec.memory \in Nat /\ DOMAIN spec.image = {"host", "user", "tag"}
  BY DEF IsConfiguration
<1>2. posted.ports = spec.ports
  <2>1. posted.ports = PreparePortBindings(SortAndCombinePorts(spec.ports))
    BY RepostedFacets
  <2>2. \A p \in DOMAIN spec.ports : Cardinality({spec.ports[p][i].ip : i \in DOMAIN spec.ports[p]}) = 1
    BY DEF Survives
  <2> QED BY <1>1, <2>1, <2>2, PortsKept
<1>3. Granted(posted.capabilities) = Granted(spec.capabilities)
  <2>1. posted.capabilities = PrepareCapabilities(LoadCapabilities(spec.capabilities))
    BY RepostedFacets
  <2>2. "ALL" \notin spec.capabilities.add \cup spec.capabilities.drop
    BY DEF Survives
  <2> QED BY <2>1, <2>2, GrantedKept
<1>4. Canonical(posted.image) = Canonical(spec.image)
  <2>1. posted.image = BuildImageFullURI(RetrieveRegistryModel(spec.image, Registries))
    BY RepostedFacets
  <2>2. IsImage(spec.image) /\ Known(spec.image, Registries)
    BY <1>1 DEF IsImage, Known, Survives
  <2>3. DOMAIN Registries \subseteq Nat
        /\ \A i \in DOMAIN Registries : /\ Registries[i].type # "anonymous" /\ Registries[i].url # ""
                                        /\ Registries[i].type = "dockerhub" => Registries[i].url = "docker.io"
    BY ContainerAssumption DEF IsRegistry
  <2> QED BY <2>1, <2>2, <2>3, ImagePosted
<1>5. /\ posted.entrypoint = spec.entrypoint \/ (posted.entrypoint = "cleared" /\ spec.entrypoint = "none")
      /\ posted.cmd = spec.cmd
  <2>1. /\ posted.entrypoint = PrepareEntrypoint(LoadCommand(spec.cmd, spec.entrypoint))
        /\ posted.cmd = PrepareCmd(LoadCommand(spec.cmd, spec.entrypoint))
    BY RepostedFacets
  <2>2. spec.cmd # "quoted"
    BY DEF Survives
  <2> QED BY <1>1, <2>1, <2>2, CommandKept
<1>6. posted.env = spec.env /\ posted.sysctls = spec.sysctls /\ posted.mounts = spec.mounts
  <2>1. /\ posted.env = PrepareEnv(LoadEnv(spec.env)) /\ posted.sysctls = PrepareSysctls(LoadSysctls(spec.sysctls))
        /\ posted.mounts = PrepareVolumes(LoadVolumes(spec.mounts))
    BY RepostedFacets
  <2>2. LoadEnv(spec.env) = spec.env
    BY DEF LoadEnv, Survives
  <2>3. PrepareSysctls(spec.sysctls) = spec.sysctls /\ PrepareVolumes(spec.mounts) = spec.mounts
    BY DEF PrepareSysctls, PrepareVolumes, Survives
  <2> QED BY <2>1, <2>2, <2>3 DEF PrepareEnv, LoadSysctls, LoadVolumes
<1>7. posted.devices = spec.devices
  <2>1. posted.devices = PrepareDevices(LoadDevices(spec.devices))
    BY RepostedFacets
  <2>2. \A d \in spec.devices : d.permissions = "rwm" /\ d.inside # ""
    BY DEF Survives
  <2> QED BY <1>1, <2>1, <2>2, DevicesKept
<1>8. posted.dns = spec.dns /\ posted.hosts = spec.hosts
  <2>1. posted.dns = LoadDns(spec.dns) /\ posted.hosts = PrepareExtraHosts(spec.hosts)
    BY RepostedFacets
  <2>2. Len(spec.dns) <= 2 /\ "" \notin spec.hosts
    BY DEF Survives
  <2> QED BY <1>1, <2>1, <2>2, DnsKept DEF PrepareExtraHosts
<1>9. posted.log = spec.log /\ posted.console = spec.console
  <2>1. /\ posted.log = PrepareLogDriver(LoadLogging(spec.log), LoadLogging(spec.log))
        /\ posted.console = PrepareConsole(LoadConsole(spec.console))
    BY RepostedFacets
  <2>2. "" \notin spec.log.opts /\ (spec.log.driver = "none" => spec.log.opts = {})
    BY DEF Survives
  <2> QED BY <1>1, <2>1, <2>2, LogPosted, ConsoleKept
<1>10. posted.memory = spec.memory /\ posted.mode = spec.mode /\ posted.ip = spec.ip
  <2>1. posted.memory = PrepareMemory(spec.memory) /\ posted.mode = spec.mode /\ posted.ip = spec.ip
    BY RepostedFacets
  <2>2. spec.memory % 2 = 0
    BY DEF Survives
  <2> QED BY <1>1, <2>1, <2>2, MemoryPosted
<1> HIDE DEF posted
<1>11. SamePorts(posted.ports, spec.ports)
  BY <1>2 DEF SamePorts
<1>12. Resembles(posted, spec)
  BY <1>3, <1>4, <1>5, <1>6, <1>7, <1>8, <1>9, <1>10, <1>11 DEF Resembles
<1> QED BY <1>12 DEF posted

\* All but the networks, which come later
Alike(is, as) == \A facet \in Facets \ {"nets"} : is[facet] = as[facet]

\* The networks do not matter to what is compared.
LEMMA AlikeResembles ==
  ASSUME NEW is, NEW as, NEW was, Alike(is, as), Resembles(as, was)
  PROVE  Resembles(is, was)
<1>1. /\ is.ports = as.ports /\ is.capabilities = as.capabilities /\ is.image = as.image
      /\ is.entrypoint = as.entrypoint
      /\ \A facet \in {"env", "sysctls", "devices", "mounts", "dns", "hosts", "log",
                       "console", "cmd", "memory", "mode", "ip"} : is[facet] = as[facet]
  BY DEF Alike, Facets
<1> QED BY <1>1 DEF Resembles

-----------------------------------------------------------------------------
(* What holds of any number of chains.                                     *)

IsContainer(x) ==
  /\ DOMAIN x = {"status", "name", "spec", "control"}
  /\ x.status \in {"created", "running", "exited", "paused"} /\ x.name \in 0 .. MaxName
  /\ IsConfiguration(x.spec) /\ IsControl(x.control)

\* The engine has typed containers, and gives no name to two of them.
EngineInv ==
  /\ DOMAIN engine = Ids
  /\ \A id \in Ids : Exists(id) => IsContainer(engine[id])
  /\ \A i, j \in Ids : Exists(i) /\ Exists(j) /\ engine[i].name = engine[j].name => i = j

IsChain(q) ==
  /\ DOMAIN q = {"kind", "step", "old", "stop", "new", "name", "form", "control", "from", "before"}
  /\ q.kind \in {"create", "recreate"} /\ q.step \in Steps
  /\ q.old \in 0 .. MaxContainers /\ q.new \in 0 .. MaxContainers /\ q.name \in 0 .. MaxName
  /\ IsContainer(q.from)

\* The form was filled from a container, and the chain made its new one itself: there
\* was none of that identifier when it began.
ChainInv(c) ==
  LET q == chains[c] IN
  /\ IsChain(q)
  /\ q.kind = "create" => /\ q.form = LoadFromContainerSpec(q.from.spec, Registries)
                          /\ q.control = FormControl(q.from.control)
  /\ q.kind = "recreate" => /\ q.form = q.from.spec
                            /\ q.control = Duplicated(q.from.control)
  /\ \A id \in Ids : engine[id] = None => q.before[id] = None
  /\ \A id \in Ids : q.before[id] = Gone => engine[id] = Gone
  /\ q.new # 0 => engine[q.new] # None /\ q.before[q.new] = None
  /\ q.step \in {"start", "control", "connect"} => q.new # 0
  /\ q.step = "confirm" => q.old # 0

\* Two chains do not make the same container.
NewDistinct ==
  \A c, d \in Chains :
    chains[c] # Idle /\ chains[d] # Idle /\ chains[c].new # 0 /\ chains[c].new = chains[d].new
      => c = d

JoiningInv == joining \subseteq Ids \X Int /\ \A p \in joining : engine[p[1]] # None

HistoryInv ==
  /\ mishaps \subseteq {"find", "removal"} /\ agreed \subseteq Ids /\ meddled \in BOOLEAN
  /\ mishaps # {} => faults

IInv ==
  /\ EngineInv /\ JoiningInv /\ HistoryInv /\ NewDistinct
  /\ DOMAIN chains = Chains
  /\ \A c \in Chains : chains[c] # Idle => ChainInv(c)

\* Nobody gains by the controls of the chains, and a new container has that of its
\* creator or of its chain.
GainsNothing(is, was) ==
  /\ is.public => was.public
  /\ is.users \subseteq was.users \cup {user}
  /\ is.teams \subseteq was.teams

GainInv ==
  \A c \in Chains : chains[c] # Idle /\ Exists(chains[c].new) /\ ~meddled
    => GainsNothing(engine[chains[c].new].control, chains[c].from.control)

-----------------------------------------------------------------------------
(* The calls.                                                              *)

\* What a call may do: containers are made, changed and removed, and an identifier
\* given once is not free again.
EngineMoves ==
  /\ EngineInv'
  /\ \A id \in Ids : /\ engine'[id] = None => engine[id] = None
                     /\ engine[id] = Gone => engine'[id] = Gone

\* A call concerns one container, of which it leaves the rest alone.
Only(id) == \A k \in Ids \ {id} : engine'[k] = engine[k]
SameName(id) == engine'[id].name = engine[id].name
SameSpec(id) == engine'[id].spec = engine[id].spec
SameControl(id) == engine'[id].control = engine[id].control
SameStatus(id) == engine'[id].status = engine[id].status

\* A container is neither of what stands for none.
LEMMA ContainersExist ==
  ASSUME NEW x, IsContainer(x)
  PROVE  x # None /\ x # Gone
BY DEF IsContainer, None, Gone

LEMMA NoneIsNotGone == None # Gone
BY DEF None, Gone

\* A container in another's place, with its name or one that is free, is a step of
\* the engine.
LEMMA ContainerReplaced ==
  ASSUME EngineInv, NEW id \in Ids, engine[id] # Gone,
         DOMAIN engine' = Ids, Only(id), IsContainer(engine'[id]),
         \A k \in Ids \ {id} : Exists(k) => engine[k].name # engine'[id].name
  PROVE  EngineMoves /\ Exists(id)'
<1>1. Exists(id)' /\ \A k \in Ids \ {id} : Exists(k)' <=> Exists(k)
  BY ContainersExist DEF Exists, Only
<1>2. \A k \in Ids : Exists(k)' => IsContainer(engine'[k])
  BY <1>1 DEF EngineInv, Only
<1>3. \A i, j \in Ids : Exists(i)' /\ Exists(j)' /\ engine'[i].name = engine'[j].name => i = j
  BY <1>1 DEF EngineInv, Only
<1>4. EngineInv'
  BY <1>2, <1>3 DEF EngineInv, Ids
<1>5. \A k \in Ids : /\ engine'[k] = None => engine[k] = None
                     /\ engine[k] = Gone => engine'[k] = Gone
  BY ContainersExist DEF Only
<1> QED BY <1>1, <1>4, <1>5 DEF EngineMoves

\* The containers have the fields of one.
LEMMA Fields ==
  ASSUME EngineInv, NEW id \in Ids, Exists(id)
  PROVE  /\ IsContainer(engine[id])
         /\ engine[id] \notin {None, Gone}
         /\ \A k \in Ids \ {id} : Exists(k) => engine[k].name # engine[id].name
<1>1. IsContainer(engine[id]) /\ engine[id] \notin {None, Gone}
  BY DEF EngineInv, Exists
<1>2. \A k \in Ids \ {id} : Exists(k) => engine[k].name # engine[id].name
  BY DEF EngineInv
<1> QED BY <1>1, <1>2

LEMMA StatusStep ==
  ASSUME EngineInv, NEW id \in Ids, Exists(id),
         NEW status \in {"created", "running", "exited", "paused"},
         engine' = WithStatus(id, status)
  PROVE  /\ EngineMoves /\ Only(id) /\ Exists(id)'
         /\ SameName(id) /\ SameSpec(id) /\ SameControl(id) /\ engine'[id].status = status
<1> DEFINE x == [engine[id] EXCEPT !.status = status]
<1>1. DOMAIN engine' = Ids /\ engine'[id] = x /\ Only(id)
  BY DEF EngineInv, Only, WithStatus
<1>2. /\ DOMAIN x = {"status", "name", "spec", "control"}
      /\ x.status = status /\ x.name = engine[id].name
      /\ x.spec = engine[id].spec /\ x.control = engine[id].control
  BY Fields DEF IsContainer
<1> HIDE DEF x
<1>3. IsContainer(x) /\ x.name = engine[id].name
  BY <1>2, Fields DEF IsContainer
<1> QED BY <1>1, <1>2, <1>3, Fields, ContainerReplaced DEF SameName, SameSpec, SameControl

LEMMA RenameStep ==
  ASSUME EngineInv, NEW id \in Ids, NEW n \in Nat, CanRename(id, n), engine' = Renamed(id, n)
  PROVE  /\ EngineMoves /\ Only(id) /\ Exists(id)'
         /\ engine'[id].name = n /\ SameSpec(id) /\ SameControl(id) /\ SameStatus(id)
<1> DEFINE x == [engine[id] EXCEPT !.name = n]
<1>1. Exists(id) /\ n \in 0 .. MaxName /\ \A k \in Ids : Exists(k) => engine[k].name # n
  BY ContainerAssumption DEF CanRename, Named
<1>2. DOMAIN engine' = Ids /\ engine'[id] = x /\ Only(id)
  BY DEF EngineInv, Only, Renamed
<1>3. /\ DOMAIN x = {"status", "name", "spec", "control"}
      /\ x.status = engine[id].status /\ x.name = n
      /\ x.spec = engine[id].spec /\ x.control = engine[id].control
  BY <1>1, Fields DEF IsContainer
<1> HIDE DEF x
<1>4. IsContainer(x) /\ x.name = n
  BY <1>1, <1>3, Fields DEF IsContainer
<1> QED BY <1>1, <1>2, <1>3, <1>4, Fields, ContainerReplaced DEF SameSpec, SameControl, SameStatus

LEMMA ControlStep ==
  ASSUME EngineInv, NEW id \in Ids, Exists(id), NEW control, IsControl(control),
         engine' = Controlled(id, control)
  PROVE  /\ EngineMoves /\ Only(id) /\ Exists(id)'
         /\ SameName(id) /\ SameSpec(id) /\ SameStatus(id) /\ engine'[id].control = control
<1> DEFINE x == [engine[id] EXCEPT !.control = control]
<1>1. DOMAIN engine' = Ids /\ engine'[id] = x /\ Only(id)
  BY DEF EngineInv, Only, Controlled
<1>2. /\ DOMAIN x = {"status", "name", "spec", "control"}
      /\ x.status = engine[id].status /\ x.name = engine[id].name
      /\ x.spec = engine[id].spec /\ x.control = control
  BY Fields DEF IsContainer
<1> HIDE DEF x
<1>3. IsContainer(x) /\ x.name = engine[id].name
  BY <1>2, Fields DEF IsContainer
<1> QED BY <1>1, <1>2, <1>3, Fields, ContainerReplaced DEF SameName, SameSpec, SameStatus

\* Another network is another configuration.
LEMMA JoinStep ==
  ASSUME EngineInv, NEW id \in Ids, Exists(id), NEW n \in Int, engine' = Joined(id, n)
  PROVE  /\ EngineMoves /\ Only(id) /\ Exists(id)'
         /\ SameName(id) /\ SameControl(id) /\ SameStatus(id)
         /\ engine'[id].spec.nets = engine[id].spec.nets \cup {n} /\ Alike(engine'[id].spec, engine[id].spec)
<1> DEFINE spec == [engine[id].spec EXCEPT !.nets = engine[id].spec.nets \cup {n}]
           x    == [engine[id] EXCEPT !.spec = spec]
<1>1. DOMAIN engine' = Ids /\ engine'[id] = x /\ Only(id)
  BY DEF EngineInv, Only, Joined
<1>2. IsConfiguration(engine[id].spec)
  BY Fields DEF IsContainer
<1>3. /\ DOMAIN spec = Facets /\ spec.nets = engine[id].spec.nets \cup {n}
      /\ \A facet \in Facets \ {"nets"} : spec[facet] = engine[id].spec[facet]
  BY <1>2 DEF IsConfiguration
<1>4. IsFiniteSet(engine[id].spec.nets \cup {n})
  BY <1>2, FS_AddElement DEF IsConfiguration
<1> HIDE DEF spec
<1>5. IsConfiguration(spec)
  <2> DEFINE was == engine[id].spec
  <2>1. /\ spec.ports = was.ports /\ spec.dns = was.dns /\ spec.devices = was.devices
        /\ spec.log = was.log /\ spec.console = was.console /\ spec.entrypoint = was.entrypoint
        /\ spec.memory = was.memory /\ spec.image = was.image /\ spec.mode = was.mode
    BY <1>3 DEF Facets
  <2>2. IsConfiguration(was) /\ spec.nets = was.nets \cup {n} /\ IsFiniteSet(was.nets \cup {n})
    BY <1>2, <1>3, <1>4
  <2> HIDE DEF was
  <2> QED BY <1>3, <2>1, <2>2 DEF IsConfiguration
<1>6. /\ DOMAIN x = {"status", "name", "spec", "control"}
      /\ x.status = engine[id].status /\ x.name = engine[id].name
      /\ x.spec = spec /\ x.control = engine[id].control
  BY Fields DEF IsContainer
<1> HIDE DEF x
<1>7. IsContainer(x) /\ x.name = engine[id].name
  BY <1>5, <1>6, Fields DEF IsContainer
<1>8. Alike(engine'[id].spec, engine[id].spec)
  BY <1>1, <1>3, <1>6 DEF Alike
<1> QED BY <1>1, <1>3, <1>6, <1>7, <1>8, Fields, ContainerReplaced DEF SameName, SameControl, SameStatus

LEMMA RemoveStep ==
  ASSUME EngineInv, NEW id \in Ids, Exists(id), engine' = Removed(id)
  PROVE  EngineMoves /\ Only(id) /\ engine'[id] = Gone /\ ~Exists(id)'
<1>1. DOMAIN engine' = Ids /\ engine'[id] = Gone /\ Only(id)
  BY DEF Removed, EngineInv, Only
<1>2. ~Exists(id)' /\ \A k \in Ids \ {id} : Exists(k)' <=> Exists(k)
  BY <1>1 DEF Exists, Only
<1>3. \A k \in Ids : Exists(k)' => IsContainer(engine'[k])
  BY <1>1, <1>2 DEF EngineInv, Only
<1>4. \A i, j \in Ids : Exists(i)' /\ Exists(j)' /\ engine'[i].name = engine'[j].name => i = j
  BY <1>1, <1>2 DEF EngineInv, Only
<1>5. EngineInv'
  BY <1>1, <1>3, <1>4 DEF EngineInv, Ids
<1>6. \A k \in Ids : /\ engine'[k] = None => engine[k] = None
                     /\ engine[k] = Gone => engine'[k] = Gone
  BY <1>1, NoneIsNotGone DEF Only
<1> QED BY <1>1, <1>2, <1>5, <1>6 DEF EngineMoves

\* The next identifier is one that was never given.
LEMMA NewIdFree ==
  ASSUME NEW n, CanCreate(n)
  PROVE  NewId \in Ids /\ engine[NewId] = None
BY DEF CanCreate, NewId

LEMMA CreateStep ==
  ASSUME EngineInv, NEW n \in 0 .. MaxName, CanCreate(n), NEW spec, IsConfiguration(spec),
         engine' = Created(n, spec), NEW id \in Ids, id = NewId
  PROVE  /\ engine[id] = None
         /\ EngineMoves /\ Only(id) /\ Exists(id)'
         /\ engine'[id].name = n /\ engine'[id].spec = spec
         /\ ~engine'[id].control.public
         /\ engine'[id].control.users \subseteq {user} /\ engine'[id].control.teams = {}
<1> DEFINE control == [AdministratorsOnly EXCEPT !.users = {user} \ {"admin"}]
           x == [status |-> "created", name |-> n, spec |-> spec, control |-> control]
<1>1. engine[id] = None
  BY NewIdFree
<1>2. DOMAIN engine' = Ids /\ engine'[id] = x /\ Only(id)
  BY <1>1 DEF EngineInv, Only, Created
<1>3. /\ IsControl(control)
      /\ ~control.public /\ control.users \subseteq {user} /\ control.teams = {}
  BY DEF AdministratorsOnly, IsControl
<1> HIDE DEF control
<1>4. IsContainer(x)
  BY <1>3 DEF IsContainer
<1>5. \A k \in Ids : Exists(k) => engine[k].name # n
  BY DEF CanCreate, Named
<1>6. x.name = n /\ x.spec = spec /\ x.control = control
  OBVIOUS
<1> HIDE DEF x
<1>7. EngineMoves /\ Exists(id)'
  BY <1>6, <1>1, <1>2, <1>4, <1>5, NoneIsNotGone, ContainerReplaced
<1> QED BY <1>1, <1>2, <1>3, <1>6, <1>7

-----------------------------------------------------------------------------
(* The chains.                                                             *)

\* What a chain keeps from beginning to end
Carries(c) ==
  /\ chains[c] # Idle /\ chains'[c] # Idle
  /\ chains'[c].kind = chains[c].kind /\ chains'[c].name = chains[c].name
  /\ chains'[c].form = chains[c].form /\ chains'[c].control = chains[c].control
  /\ chains'[c].from = chains[c].from /\ chains'[c].before = chains[c].before

Others(c) == DOMAIN chains' = Chains /\ \A d \in Chains \ {c} : chains'[d] = chains[d]

LEMMA ChainsExist ==
  ASSUME NEW q, IsChain(q)
  PROVE  q # Idle
BY DEF IsChain, Idle

\* A step from call to call
LEMMA GotoStep ==
  ASSUME IInv, NEW c \in Chains, chains[c] # Idle, NEW step \in Steps, Goto(c, step)
  PROVE  /\ Carries(c) /\ Others(c) /\ IsChain(chains'[c])
         /\ chains'[c].step = step /\ chains'[c].old = chains[c].old
         /\ chains'[c].stop = chains[c].stop /\ chains'[c].new = chains[c].new
<1>1. IsChain(chains[c]) /\ DOMAIN chains = Chains
  BY DEF IInv, ChainInv
<1>2. /\ DOMAIN chains' = Chains /\ \A d \in Chains \ {c} : chains'[d] = chains[d]
      /\ chains'[c] = [chains[c] EXCEPT !.step = step]
  BY <1>1 DEF Goto
<1>3. /\ DOMAIN chains'[c] = DOMAIN chains[c]
      /\ chains'[c].kind = chains[c].kind /\ chains'[c].name = chains[c].name
      /\ chains'[c].form = chains[c].form /\ chains'[c].control = chains[c].control
      /\ chains'[c].from = chains[c].from /\ chains'[c].before = chains[c].before
      /\ chains'[c].step = step /\ chains'[c].old = chains[c].old
      /\ chains'[c].stop = chains[c].stop /\ chains'[c].new = chains[c].new
  BY <1>1, <1>2 DEF IsChain
<1>4. IsChain(chains'[c])
  BY <1>1, <1>3 DEF IsChain
<1> QED BY <1>2, <1>3, <1>4, ChainsExist DEF Carries, Others

\* Nothing happens to the containers.
LEMMA EngineStays ==
  ASSUME EngineInv, UNCHANGED engine
  PROVE  EngineMoves /\ \A id \in Ids : Exists(id)' <=> Exists(id)
BY DEF EngineMoves, EngineInv, Exists, Ids

LEMMA JoiningStays ==
  ASSUME JoiningInv, EngineMoves, joining' \subseteq joining
  PROVE  JoiningInv'
<1>1. \A p \in joining : p[1] \in Ids
  BY DEF JoiningInv
<1> QED BY <1>1 DEF JoiningInv, EngineMoves, Ids

LEMMA HistoryStays ==
  ASSUME HistoryInv, UNCHANGED <<mishaps, agreed, meddled, faults>>
  PROVE  HistoryInv'
BY DEF HistoryInv, Ids

\* What a chain goes by stays true of it, whatever the engine is told.
LEMMA ChainCarried ==
  ASSUME NEW c \in Chains, ChainInv(c), EngineMoves, UNCHANGED user, Carries(c),
         IsChain(chains'[c]),
         \/ chains'[c].new = chains[c].new
         \/ engine[chains'[c].new] = None /\ engine'[chains'[c].new] # None,
         chains'[c].step \in {"start", "control", "connect"} => chains'[c].new # 0,
         chains'[c].step = "confirm" => chains'[c].old # 0
  PROVE  ChainInv(c)'
<1>1. chains'[c].new \in 0 .. MaxContainers
  BY DEF IsChain
<1>2. chains'[c].new # 0 => chains'[c].new \in Ids
  BY <1>1, ContainerAssumption DEF Ids
<1>3. \A id \in Ids : engine'[id] = None => chains'[c].before[id] = None
  BY DEF ChainInv, EngineMoves, Carries
<1>4. \A id \in Ids : chains'[c].before[id] = Gone => engine'[id] = Gone
  BY DEF ChainInv, EngineMoves, Carries
<1>5. chains'[c].new # 0 => engine'[chains'[c].new] # None /\ chains'[c].before[chains'[c].new] = None
  BY <1>2 DEF ChainInv, EngineMoves, Carries
<1>6. FormControl(chains[c].from.control)' = FormControl(chains'[c].from.control)
  BY DEF FormControl
<1>7. Duplicated(chains[c].from.control)' = Duplicated(chains'[c].from.control)
  BY DEF Duplicated
<1> QED BY <1>3, <1>4, <1>5, <1>6, <1>7 DEF ChainInv, Carries, Ids, FormControl, Duplicated

\* The other chains are not concerned by a step of one.
LEMMA IInvKept ==
  ASSUME IInv, NEW c \in Chains, EngineMoves, UNCHANGED <<user, faults>>, Others(c),
         JoiningInv', HistoryInv',
         chains'[c] # Idle => ChainInv(c)',
         chains'[c] # Idle /\ chains'[c].new # 0 =>
           \/ chains[c] # Idle /\ chains'[c].new = chains[c].new
           \/ engine[chains'[c].new] = None
  PROVE  IInv'
<1>1. ASSUME NEW d \in Chains \ {c}, chains[d] # Idle
      PROVE  ChainInv(d)'
  <2>1. ChainInv(d) /\ IsChain(chains[d]) /\ chains'[d] = chains[d]
    BY <1>1 DEF IInv, ChainInv, Others
  <2>2. Carries(d) /\ IsChain(chains'[d])
    BY <1>1, <2>1 DEF Carries
  <2> QED BY <2>1, <2>2, ChainCarried DEF ChainInv
<1>2. \A d \in Chains : chains'[d] # Idle => ChainInv(d)'
  BY <1>1 DEF Others
<1>3. NewDistinct'
  BY DEF IInv, ChainInv, NewDistinct, Others
<1> QED BY <1>2, <1>3 DEF IInv, EngineMoves, Others

\* A step from call to call keeps all this.
LEMMA GotoKeeps ==
  ASSUME IInv, NEW c \in Chains, chains[c] # Idle, NEW step \in Steps \ {"confirm"}, Goto(c, step),
         step \in {"start", "control", "connect"} => chains[c].new # 0,
         EngineMoves, UNCHANGED <<user, faults>>, JoiningInv', HistoryInv'
  PROVE  IInv'
<1>1. /\ Carries(c) /\ Others(c) /\ IsChain(chains'[c])
      /\ chains'[c].step = step /\ chains'[c].new = chains[c].new
  BY GotoStep
<1>2. ChainInv(c)
  BY DEF IInv
<1>3. ChainInv(c)'
  BY <1>1, <1>2, ChainCarried
<1> QED BY <1>1, <1>3, IInvKept

-----------------------------------------------------------------------------
(* What the calls come to.                                                 *)

\* A container is told something that leaves its configuration.
Told(id) == EngineMoves /\ Only(id) /\ Exists(id) /\ Exists(id)' /\ SameSpec(id)

\* The chain of a step in progress
LEMMA InProgress ==
  ASSUME IInv, NEW c \in Chains, NEW kind \in {"create", "recreate"}, NEW step, At(c, kind, step)
  PROVE  /\ chains[c] # Idle /\ chains[c].kind = kind /\ chains[c].step = step
         /\ ChainInv(c) /\ IsChain(chains[c])
BY DEF IInv, ChainInv, At, Idle

\* The old container is stopped.
LEMMA StopCalls ==
  ASSUME IInv, NEW c \in Chains, StopContainerIfNeeded(c) \/ RecreateStop(c)
  PROVE  /\ chains[c] # Idle /\ chains[c].step = "stop"
         /\ \/ UNCHANGED engine
            \/ \E id \in Ids : /\ id = chains[c].old /\ Told(id) /\ SameName(id) /\ SameControl(id)
                               /\ engine'[id].status = "exited"
         /\ \E step \in {"rename", "findnew", "failed"} : Goto(c, step)
         /\ UNCHANGED <<joining, user, faults, mishaps, agreed, meddled>>
<1>1. chains[c] # Idle /\ chains[c].step = "stop" /\ EngineInv
  BY InProgress DEF StopContainerIfNeeded, RecreateStop, IInv
<1>2. \/ UNCHANGED engine
      \/ Exists(chains[c].old) /\ engine' = WithStatus(chains[c].old, "exited")
  BY DEF StopContainerIfNeeded, RecreateStop, Call
<1>3. ASSUME NEW id \in Ids, id = chains[c].old, Exists(id), engine' = WithStatus(id, "exited")
      PROVE  Told(id) /\ SameName(id) /\ SameControl(id) /\ engine'[id].status = "exited"
  BY <1>1, <1>3, StatusStep DEF Told
<1> QED BY <1>1, <1>2, <1>3 DEF StopContainerIfNeeded, RecreateStop, Call, Exists

\* It is given another name.
LEMMA RenameCalls ==
  ASSUME IInv, NEW c \in Chains, RenameContainer(c) \/ RecreateRename(c)
  PROVE  /\ chains[c] # Idle /\ chains[c].step = "rename"
         /\ \/ UNCHANGED engine
            \/ \E id \in Ids : /\ id = chains[c].old /\ Told(id) /\ SameControl(id) /\ SameStatus(id)
         /\ \E step \in {"create", "findnew", "failed"} : Goto(c, step)
         /\ UNCHANGED <<joining, user, faults, mishaps, agreed, meddled>>
<1>1. chains[c] # Idle /\ chains[c].step = "rename" /\ EngineInv /\ chains[c].name + 1 \in Nat
  BY InProgress DEF RenameContainer, RecreateRename, IInv, IsChain
<1>2. \/ UNCHANGED engine
      \/ /\ CanRename(chains[c].old, chains[c].name + 1)
         /\ engine' = Renamed(chains[c].old, chains[c].name + 1)
  BY DEF RenameContainer, RecreateRename, Call
<1>3. ASSUME NEW id \in Ids, id = chains[c].old, NEW n \in Nat, CanRename(id, n), engine' = Renamed(id, n)
      PROVE  Told(id) /\ SameControl(id) /\ SameStatus(id)
  BY <1>1, <1>3, RenameStep DEF Told, CanRename
<1> QED BY <1>1, <1>2, <1>3 DEF RenameContainer, RecreateRename, Call, CanRename, Exists

\* The new container is started.
LEMMA StartCalls ==
  ASSUME IInv, NEW c \in Chains, StartContainer(c) \/ RecreateStart(c)
  PROVE  /\ chains[c] # Idle /\ chains[c].step = "start"
         /\ \/ UNCHANGED engine
            \/ \E id \in Ids : /\ id = chains[c].new /\ Told(id) /\ SameName(id) /\ SameControl(id)
         /\ \/ Goto(c, "findnew") \/ Goto(c, "failed")
            \/ Goto(c, "control") /\ Exists(chains[c].new)
         /\ UNCHANGED <<joining, user, faults, mishaps, agreed, meddled>>
<1>1. chains[c] # Idle /\ chains[c].step = "start" /\ EngineInv
  BY InProgress DEF StartContainer, RecreateStart, IInv
<1>2. \/ UNCHANGED engine
      \/ Exists(chains[c].new) /\ engine' = WithStatus(chains[c].new, "running")
  BY DEF StartContainer, RecreateStart, Call
<1>3. ASSUME NEW id \in Ids, id = chains[c].new, Exists(id), engine' = WithStatus(id, "running")
      PROVE  Told(id) /\ SameName(id) /\ SameControl(id)
  BY <1>1, <1>3, StatusStep DEF Told
<1> QED BY <1>1, <1>2, <1>3 DEF StartContainer, RecreateStart, Call, Exists

\* The control a chain sets is that of its form.
LEMMA ChainControls ==
  ASSUME NEW c \in Chains, ChainInv(c)
  PROVE  IsControl(chains[c].control) /\ GainsNothing(chains[c].control, chains[c].from.control)
<1> DEFINE was == chains[c].from.control
<1>1. IsControl(was)
  BY DEF ChainInv, IsChain, IsContainer
<1>2. chains[c].control \in {FormControl(was), Duplicated(was)}
  BY DEF ChainInv, IsChain
<1> HIDE DEF was
<1>3. IsControl(FormControl(was)) /\ GainsNothing(FormControl(was), was)
  BY <1>1 DEF FormControl, AdministratorsOnly, IsControl, GainsNothing
<1>4. IsControl(Duplicated(was)) /\ GainsNothing(Duplicated(was), was)
  BY <1>1 DEF Duplicated, IsControl, GainsNothing
<1>5. chains[c].from.control = was
  BY DEF was
<1> QED BY <1>2, <1>3, <1>4, <1>5

\* The new container gets its control.
LEMMA ControlCalls ==
  ASSUME IInv, NEW c \in Chains, ApplyResourceControl(c) \/ RecreateControl(c)
  PROVE  /\ chains[c] # Idle /\ chains[c].step = "control"
         /\ \/ UNCHANGED engine
            \/ \E id \in Ids : /\ id = chains[c].new /\ Told(id) /\ SameName(id) /\ SameStatus(id)
                               /\ engine'[id].control = chains[c].control
         /\ \/ Goto(c, "findnew") \/ Goto(c, "failed")
            \/ Goto(c, "connect") /\ Exists(chains[c].new) /\ chains[c].kind = "create"
            \/ Goto(c, "remove") /\ Exists(chains[c].new) /\ chains[c].kind = "recreate"
         /\ UNCHANGED <<joining, user, faults, mishaps, agreed, meddled>>
<1>1. chains[c] # Idle /\ chains[c].step = "control" /\ EngineInv /\ IsControl(chains[c].control)
  BY InProgress, ChainControls DEF ApplyResourceControl, RecreateControl, IInv
<1>2. \/ UNCHANGED engine
      \/ Exists(chains[c].new) /\ engine' = Controlled(chains[c].new, chains[c].control)
  BY DEF ApplyResourceControl, RecreateControl, Call
<1>3. ASSUME NEW id \in Ids, id = chains[c].new, Exists(id), NEW control, IsControl(control),
             engine' = Controlled(id, control)
      PROVE  Told(id) /\ SameName(id) /\ SameStatus(id) /\ engine'[id].control = control
  BY <1>1, <1>3, ControlStep DEF Told
<1> QED BY <1>1, <1>2, <1>3 DEF ApplyResourceControl, RecreateControl, Call, Exists, At

\* What is posted is a configuration, with one network: the one the mode names.
LEMMA Posted ==
  ASSUME NEW spec, IsConfiguration(spec)
  PROVE  /\ LET posted == PrepareConfiguration(LoadFromContainerSpec(spec, Registries))
            IN  IsConfiguration(posted) /\ posted.nets = {spec.mode}
         /\ LET posted == ConfigFromContainer(spec)
            IN  IsConfiguration(posted) /\ posted.nets = {spec.mode}
<1>1. spec.mode \in Int /\ IsFiniteSet({spec.mode}) /\ DOMAIN spec = Facets
  BY FS_Singleton DEF IsConfiguration
<1>2. IsConfiguration(Reposted(spec)) /\ Reposted(spec).nets = {spec.mode}
  BY IsReposted
<1> DEFINE posted == ConfigFromContainer(spec)
<1>3. /\ DOMAIN posted = Facets /\ posted.nets = {spec.mode}
      /\ \A facet \in Facets \ {"mounts", "nets", "ip"} : posted[facet] = spec[facet]
  BY <1>1 DEF ConfigFromContainer, Facets
<1> HIDE DEF posted
<1>4. IsConfiguration(posted)
  <2>1. /\ posted.ports = spec.ports /\ posted.dns = spec.dns /\ posted.devices = spec.devices
        /\ posted.log = spec.log /\ posted.console = spec.console /\ posted.entrypoint = spec.entrypoint
        /\ posted.memory = spec.memory /\ posted.image = spec.image /\ posted.mode = spec.mode
    BY <1>3 DEF Facets
  <2> QED BY <1>1, <1>3, <2>1 DEF IsConfiguration
<1> QED BY <1>2, <1>3, <1>4 DEF posted, Reposted

\* A container is made that nobody but its creator may use, with the chain's name, the
\* network of the mode, and what the form is turned into.
Made(c, id) ==
  /\ engine[id] = None /\ EngineMoves /\ Only(id) /\ Exists(id)'
  /\ engine'[id].name = chains[c].name
  /\ engine'[id].spec.nets = {chains[c].from.spec.mode}
  /\ chains[c].kind = "create" => engine'[id].spec = PrepareConfiguration(chains[c].form)
  /\ ~engine'[id].control.public
  /\ engine'[id].control.users \subseteq {user} /\ engine'[id].control.teams = {}

LEMMA CreateCalls ==
  ASSUME IInv, NEW c \in Chains, CreateNewContainer(c) \/ RecreateCreate(c)
  PROVE  /\ chains[c] # Idle /\ chains[c].step = "create"
         /\ \/ UNCHANGED engine /\ \E step \in {"findnew", "failed"} : Goto(c, step)
            \/ \E id \in Ids :
                 /\ Made(c, id)
                 /\ \/ \E step \in {"findnew", "failed"} : Goto(c, step)
                    \/ /\ chains[c].kind = "create"
                       /\ chains' = [chains EXCEPT ![c].step = "start", ![c].new = id]
                    \/ /\ chains[c].kind = "recreate"
                       /\ chains' = [chains EXCEPT ![c].step = "connect", ![c].new = id]
         /\ UNCHANGED <<joining, user, faults, mishaps, agreed, meddled>>
<1>1. /\ chains[c] # Idle /\ chains[c].step = "create" /\ EngineInv /\ ChainInv(c)
      /\ IsConfiguration(chains[c].from.spec) /\ chains[c].name \in 0 .. MaxName
  BY InProgress DEF CreateNewContainer, RecreateCreate, IInv, IsChain, IsContainer
<1> DEFINE posted == IF chains[c].kind = "create" THEN PrepareConfiguration(chains[c].form)
                     ELSE ConfigFromContainer(chains[c].form)
<1>2. IsConfiguration(posted) /\ posted.nets = {chains[c].from.spec.mode}
  BY <1>1, Posted DEF ChainInv, IsChain
<1>3. ASSUME CanCreate(chains[c].name), engine' = Created(chains[c].name, posted),
             NEW id \in Ids, id = NewId
      PROVE  Made(c, id)
  <2>1. /\ engine[id] = None /\ EngineMoves /\ Only(id) /\ Exists(id)'
        /\ engine'[id].name = chains[c].name /\ engine'[id].spec = posted
        /\ ~engine'[id].control.public
        /\ engine'[id].control.users \subseteq {user} /\ engine'[id].control.teams = {}
    <3> HIDE DEF posted
    <3> QED BY <1>1, <1>2, <1>3, CreateStep
  <2>2. chains[c].kind = "create" => posted = PrepareConfiguration(chains[c].form)
    OBVIOUS
  <2> HIDE DEF posted
  <2> QED BY <1>2, <2>1, <2>2 DEF Made
<1>4. CanCreate(chains[c].name) => NewId \in Ids
  BY NewIdFree
<1>5. /\ CreateNewContainer(c) => posted = PrepareConfiguration(chains[c].form)
      /\ RecreateCreate(c) => posted = ConfigFromContainer(chains[c].form)
  BY DEF CreateNewContainer, RecreateCreate, At
<1> HIDE DEF posted
<1>6. CASE CreateNewContainer(c)
  BY <1>1, <1>3, <1>4, <1>5, <1>6 DEF CreateNewContainer, At
<1>7. CASE RecreateCreate(c)
  BY <1>1, <1>3, <1>4, <1>5, <1>7 DEF RecreateCreate, At
<1> QED BY <1>6, <1>7

\* The chain knows the container that it made.
LEMMA NewStep ==
  ASSUME IInv, NEW c \in Chains, chains[c] # Idle, NEW step \in Steps, NEW id \in Ids,
         chains' = [chains EXCEPT ![c].step = step, ![c].new = id]
  PROVE  /\ Carries(c) /\ Others(c) /\ IsChain(chains'[c])
         /\ chains'[c].step = step /\ chains'[c].old = chains[c].old
         /\ chains'[c].stop = chains[c].stop /\ chains'[c].new = id
<1>1. IsChain(chains[c]) /\ DOMAIN chains = Chains
  BY DEF IInv, ChainInv
<1>2. /\ DOMAIN chains' = Chains /\ \A d \in Chains \ {c} : chains'[d] = chains[d]
      /\ chains'[c] = [chains[c] EXCEPT !.step = step, !.new = id]
  BY <1>1
<1>3. /\ DOMAIN chains'[c] = DOMAIN chains[c]
      /\ chains'[c].kind = chains[c].kind /\ chains'[c].name = chains[c].name
      /\ chains'[c].form = chains[c].form /\ chains'[c].control = chains[c].control
      /\ chains'[c].from = chains[c].from /\ chains'[c].before = chains[c].before
      /\ chains'[c].step = step /\ chains'[c].old = chains[c].old
      /\ chains'[c].stop = chains[c].stop /\ chains'[c].new = id
  BY <1>1, <1>2 DEF IsChain
<1>4. IsChain(chains'[c])
  BY <1>1, <1>3, ContainerAssumption DEF IsChain, Ids
<1> QED BY <1>2, <1>3, <1>4, ChainsExist DEF Carries, Others

\* A container is removed.
Taken(id) == EngineMoves /\ Only(id) /\ Exists(id) /\ engine'[id] = Gone

\* The old container is removed; if the answer is lost, that is a mishap.
LEMMA RemovalCalls ==
  ASSUME IInv, NEW c \in Chains, RemoveOldContainer(c) \/ RecreateRemove(c)
  PROVE  /\ chains[c] # Idle /\ chains[c].step = "remove"
         /\ \/ /\ UNCHANGED <<engine, mishaps>>
               /\ \E step \in {"findnew", "failed"} : Goto(c, step)
            \/ \E id \in Ids :
                 /\ id = chains[c].old /\ Taken(id)
                 /\ \/ Goto(c, "done") /\ UNCHANGED mishaps
                    \/ /\ \E step \in {"findnew", "failed"} : Goto(c, step)
                       /\ faults /\ mishaps' = mishaps \cup {"removal"}
         /\ UNCHANGED <<joining, user, faults, agreed, meddled>>
<1>1. PICK kind \in {"create", "recreate"}, failed \in {"findnew", "failed"} : Removal(c, kind, failed)
  BY DEF RemoveOldContainer, RecreateRemove
<1>2. chains[c] # Idle /\ chains[c].step = "remove" /\ EngineInv
  BY <1>1, InProgress DEF Removal, IInv
<1>3. \A step \in {"findnew", "failed", "done"} : Goto(c, step) => chains'[c].step = step
  BY <1>2, GotoStep DEF Steps
<1>4. ASSUME NEW id \in Ids, Exists(id), engine' = Removed(id)
      PROVE  Taken(id) /\ engine' # engine
  BY <1>2, <1>4, RemoveStep DEF Taken, Exists
<1> DEFINE id == chains[c].old
<1>5. CASE UNCHANGED engine /\ Goto(c, failed)
  BY <1>1, <1>2, <1>5 DEF Removal
<1>6. CASE Exists(id) /\ engine' = Removed(id) /\ Goto(c, "done")
  BY <1>1, <1>2, <1>3, <1>4, <1>6 DEF Removal, Exists
<1>7. CASE Exists(id) /\ engine' = Removed(id) /\ Goto(c, failed) /\ faults
  <2>1. chains'[c].step # "done"
    BY <1>3, <1>7
  <2> QED BY <1>1, <1>2, <1>4, <1>7, <2>1 DEF Removal, Exists
<1> QED BY <1>1, <1>5, <1>6, <1>7 DEF Removal, Call

\* Who has the name of the chain and is not the old container is removed.
LEMMA RemoveNewCalls ==
  ASSUME IInv, NEW c \in Chains, RemoveNewContainer(c)
  PROVE  /\ chains[c] # Idle /\ chains[c].step = "findnew"
         /\ \/ UNCHANGED engine
            \/ \E id \in Ids : Taken(id) /\ id # chains[c].old /\ engine[id].name = chains[c].name
         /\ \E step \in {"restore", "failed"} : Goto(c, step)
         /\ UNCHANGED <<joining, user, faults, mishaps, agreed, meddled>>
<1>1. chains[c] # Idle /\ chains[c].step = "findnew" /\ EngineInv
  BY InProgress DEF RemoveNewContainer, IInv
<1>2. ASSUME NEW id \in Ids, Exists(id), engine' = Removed(id)
      PROVE  Taken(id)
  BY <1>1, <1>2, RemoveStep DEF Taken
<1> QED BY <1>1, <1>2 DEF RemoveNewContainer, Call, Named

\* The old container gets its name back, if nobody has it.
LEMMA RestoreCalls ==
  ASSUME IInv, NEW c \in Chains, RestoreOldContainerName(c)
  PROVE  /\ chains[c] # Idle /\ chains[c].step = "restore"
         /\ \/ UNCHANGED engine /\ Goto(c, "failed")
            \/ /\ \E id \in Ids :
                    /\ id = chains[c].old /\ Named(chains[c].name) = {}
                    /\ Told(id) /\ engine'[id].name = chains[c].name
                    /\ SameControl(id) /\ SameStatus(id)
               /\ \E step \in {"restored", "failed"} : Goto(c, step)
         /\ UNCHANGED <<joining, user, faults, mishaps, agreed, meddled>>
<1>1. chains[c] # Idle /\ chains[c].step = "restore" /\ EngineInv /\ chains[c].name \in Nat
  BY InProgress DEF RestoreOldContainerName, IInv, IsChain
<1>2. ASSUME NEW id \in Ids, NEW n \in Nat, CanRename(id, n), engine' = Renamed(id, n)
      PROVE  Told(id) /\ engine'[id].name = n /\ SameControl(id) /\ SameStatus(id) /\ Named(n) = {}
  BY <1>1, <1>2, RenameStep DEF Told, CanRename
<1> QED BY <1>1, <1>2 DEF RestoreOldContainerName, Call, CanRename, Exists

\* The networks of the new container are promised.
LEMMA ConnectCalls ==
  ASSUME IInv, NEW c \in Chains, ConnectToExtraNetworks(c) \/ RecreateConnect(c)
  PROVE  /\ chains[c] # Idle /\ chains[c].step = "connect"
         /\ \E nets \in SUBSET Int :
              /\ joining' = joining \cup {<<chains[c].new, n>> : n \in nets}
              /\ \/ /\ chains[c].kind = "create"
                    /\ nets = LoadNetworks(chains[c].from.spec).extraNetworks
                    /\ Goto(c, IF chains[c].old = 0 THEN "done" ELSE "remove")
                 \/ /\ chains[c].kind = "recreate"
                    /\ nets = chains[c].from.spec.nets
                    /\ Goto(c, IF chains[c].stop THEN "start" ELSE "control")
         /\ UNCHANGED <<engine, user, faults, mishaps, agreed, meddled>>
<1>1. /\ chains[c] # Idle /\ chains[c].step = "connect" /\ ChainInv(c)
      /\ IsConfiguration(chains[c].from.spec)
  BY InProgress DEF ConnectToExtraNetworks, RecreateConnect, IsChain, IsContainer
<1>2. /\ chains[c].from.spec.nets \subseteq Int
      /\ LoadNetworks(chains[c].from.spec).extraNetworks \subseteq Int
  BY <1>1 DEF IsConfiguration, LoadNetworks
<1>3. CASE ConnectToExtraNetworks(c)
  <2>1. /\ chains[c].kind = "create"
        /\ chains[c].form.network.extraNetworks = LoadNetworks(chains[c].from.spec).extraNetworks
    BY <1>1, <1>3 DEF ConnectToExtraNetworks, At, ChainInv, LoadFromContainerSpec
  <2> QED BY <1>1, <1>2, <1>3, <2>1 DEF ConnectToExtraNetworks
<1>4. CASE RecreateConnect(c)
  <2>1. chains[c].kind = "recreate" /\ chains[c].form.nets = chains[c].from.spec.nets
    BY <1>1, <1>4 DEF RecreateConnect, At, ChainInv
  <2> QED BY <1>1, <1>2, <1>4, <2>1 DEF RecreateConnect
<1> QED BY <1>3, <1>4

-----------------------------------------------------------------------------
(* Chains begin and end.                                                   *)

\* A chain that begins remembers the containers there are.
Opened(c, q) ==
  /\ chains[c] = Idle /\ chains' = [chains EXCEPT ![c] = q]
  /\ q.before = engine /\ q.new = 0
  /\ UNCHANGED <<engine, joining, user, faults, mishaps, meddled>>

LEMMA OpenStep ==
  ASSUME IInv, NEW c \in Chains, NEW q, Opened(c, q)
  PROVE  chains'[c] = q /\ Others(c)
BY DEF IInv, Opened, Others

\* The form is opened on a container, and submitted for a name.
LEMMA CreateOpens ==
  ASSUME IInv, NEW c \in Chains, OpenCreate(c)
  PROVE  /\ \E q : /\ Opened(c, q) /\ q.kind = "create" /\ q.step = "find" /\ q.old = 0
                   /\ IsChain(q)
                   /\ q.form = LoadFromContainerSpec(q.from.spec, Registries)
                   /\ q.control = FormControl(q.from.control)
         /\ UNCHANGED agreed
<1>1. PICK from \in Ids, n \in 0 .. MaxName :
        /\ Exists(from)
        /\ chains' = [chains EXCEPT ![c] =
             [kind |-> "create", step |-> "find", old |-> 0, stop |-> FALSE, new |-> 0, name |-> n,
              form |-> LoadFromContainerSpec(engine[from].spec, Registries),
              control |-> FormControl(engine[from].control), from |-> engine[from], before |-> engine]]
  BY DEF OpenCreate
<1> DEFINE q ==
      [kind |-> "create", step |-> "find", old |-> 0, stop |-> FALSE, new |-> 0, name |-> n,
       form |-> LoadFromContainerSpec(engine[from].spec, Registries),
       control |-> FormControl(engine[from].control), from |-> engine[from], before |-> engine]
<1>2. IsContainer(engine[from])
  BY <1>1 DEF IInv, EngineInv
<1>3. IsChain(q)
  BY <1>2, ContainerAssumption DEF IsChain, Steps
<1>4. Opened(c, q)
  BY <1>1 DEF OpenCreate, Opened
<1> QED BY <1>3, <1>4 DEF OpenCreate

\* The user agrees to have a container re-created.
LEMMA RecreateOpens ==
  ASSUME IInv, NEW c \in Chains, OpenRecreate(c)
  PROVE  \E id, q :
           /\ id \in Ids
           /\ Exists(id) /\ Opened(c, q) /\ q.kind = "recreate" /\ q.step \in {"stop", "rename"}
           /\ q.old = id /\ q.name = engine[id].name
           /\ IsChain(q) /\ q.form = q.from.spec /\ q.control = Duplicated(q.from.control)
           /\ agreed' = agreed \cup {id}
<1>1. PICK id \in Ids :
        /\ Exists(id)
        /\ chains' = [chains EXCEPT ![c] =
             [kind |-> "recreate", step |-> IF engine[id].status = "running" THEN "stop" ELSE "rename",
              old |-> id, stop |-> engine[id].status = "running", new |-> 0, name |-> engine[id].name,
              form |-> engine[id].spec, control |-> Duplicated(engine[id].control),
              from |-> engine[id], before |-> engine]]
        /\ agreed' = agreed \cup {id}
  BY DEF OpenRecreate
<1> DEFINE step == IF engine[id].status = "running" THEN "stop" ELSE "rename"
           q ==
      [kind |-> "recreate", step |-> step,
       old |-> id, stop |-> engine[id].status = "running", new |-> 0, name |-> engine[id].name,
       form |-> engine[id].spec, control |-> Duplicated(engine[id].control),
       from |-> engine[id], before |-> engine]
<1>2. IsContainer(engine[id]) /\ engine[id].name \in 0 .. MaxName
  BY <1>1 DEF IInv, EngineInv, IsContainer
<1>3. step \in {"stop", "rename"}
  OBVIOUS
<1> HIDE DEF step
<1>4. IsChain(q)
  BY <1>2, <1>3, ContainerAssumption DEF IsChain, Steps, Ids
<1>5. Opened(c, q)
  BY <1>1 DEF OpenRecreate, Opened, step
<1> QED BY <1>1, <1>3, <1>4, <1>5

\* A chain that has just begun
LEMMA OpenKeeps ==
  ASSUME IInv, NEW c \in Chains, OpenCreate(c) \/ OpenRecreate(c)
  PROVE  IInv'
<1>1. ASSUME NEW q, Opened(c, q), IsChain(q), HistoryInv', q.step \notin {"start", "control", "connect", "confirm"},
             q.kind = "create" => /\ q.form = LoadFromContainerSpec(q.from.spec, Registries)
                                  /\ q.control = FormControl(q.from.control),
             q.kind = "recreate" => /\ q.form = q.from.spec
                                    /\ q.control = Duplicated(q.from.control)
      PROVE  IInv'
  <2>1. chains'[c] = q /\ Others(c)
    BY <1>1, OpenStep
  <2>2. EngineMoves /\ JoiningInv'
    BY <1>1, EngineStays, JoiningStays DEF IInv, Opened
  <2>3. ChainInv(c)'
    BY <1>1, <2>1 DEF ChainInv, Opened, Ids, FormControl, Duplicated
  <2> QED BY <1>1, <2>1, <2>2, <2>3, IInvKept DEF Opened
<1>2. CASE OpenCreate(c)
  <2>1. PICK q : /\ Opened(c, q) /\ q.kind = "create" /\ q.step = "find" /\ q.old = 0
                 /\ IsChain(q)
                 /\ q.form = LoadFromContainerSpec(q.from.spec, Registries)
                 /\ q.control = FormControl(q.from.control)
    BY <1>2, CreateOpens
  <2>2. HistoryInv'
    BY <1>2, <2>1, CreateOpens, HistoryStays DEF IInv, Opened
  <2> QED BY <1>1, <2>1, <2>2
<1>3. CASE OpenRecreate(c)
  <2>1. PICK id, q :
          /\ id \in Ids /\ Opened(c, q) /\ q.kind = "recreate" /\ q.step \in {"stop", "rename"}
          /\ IsChain(q) /\ q.form = q.from.spec /\ q.control = Duplicated(q.from.control)
          /\ agreed' = agreed \cup {id}
    BY <1>3, RecreateOpens
  <2>2. HistoryInv'
    BY <2>1 DEF IInv, HistoryInv, Opened, Ids
  <2> QED BY <1>1, <2>1, <2>2
<1> QED BY <1>2, <1>3

\* A chain looks for the name, and finds a container, none, or nothing at all.
LEMMA FindCalls ==
  ASSUME IInv, NEW c \in Chains, FindCurrentContainer(c)
  PROVE  /\ chains[c] # Idle /\ chains[c].step = "find" /\ Carries(c) /\ Others(c) /\ IsChain(chains'[c])
         /\ chains'[c].new = chains[c].new
         /\ \/ /\ chains'[c].step = "confirm" /\ chains'[c].old \in Named(chains[c].name)
               /\ UNCHANGED mishaps
            \/ /\ chains'[c].step = "create" /\ chains'[c].old = chains[c].old
               /\ \/ Named(chains[c].name) = {} /\ UNCHANGED mishaps
                  \/ faults /\ mishaps' = mishaps \cup {"find"}
         /\ UNCHANGED <<engine, joining, user, faults, agreed, meddled>>
<1>1. /\ chains[c] # Idle /\ chains[c].step = "find" /\ IsChain(chains[c]) /\ DOMAIN chains = Chains
      /\ UNCHANGED <<engine, joining, user, faults, agreed, meddled>>
  BY InProgress DEF FindCurrentContainer, IInv
<1>2. ASSUME NEW id \in Named(chains[c].name), UNCHANGED mishaps,
             chains' = [chains EXCEPT ![c].step = "confirm", ![c].old = id,
                                      ![c].stop = engine[id].status = "running"]
      PROVE  /\ Carries(c) /\ Others(c) /\ IsChain(chains'[c]) /\ chains'[c].new = chains[c].new
             /\ chains'[c].step = "confirm" /\ chains'[c].old = id
  <2> DEFINE stop == engine[id].status = "running"
  <2>1. /\ DOMAIN chains' = Chains /\ \A d \in Chains \ {c} : chains'[d] = chains[d]
        /\ chains'[c] = [chains[c] EXCEPT !.step = "confirm", !.old = id, !.stop = stop]
    BY <1>1, <1>2
  <2> HIDE DEF stop
  <2>2. /\ DOMAIN chains'[c] = DOMAIN chains[c]
        /\ chains'[c].kind = chains[c].kind /\ chains'[c].name = chains[c].name
        /\ chains'[c].form = chains[c].form /\ chains'[c].control = chains[c].control
        /\ chains'[c].from = chains[c].from /\ chains'[c].before = chains[c].before
        /\ chains'[c].step = "confirm" /\ chains'[c].old = id /\ chains'[c].new = chains[c].new
    BY <1>1, <2>1 DEF IsChain
  <2>3. IsChain(chains'[c])
    BY <1>1, <2>2, ContainerAssumption DEF IsChain, Ids, Named, Steps
  <2> QED BY <1>1, <2>1, <2>2, <2>3, ChainsExist DEF Carries, Others
<1>3. ASSUME Goto(c, "create")
      PROVE  /\ Carries(c) /\ Others(c) /\ IsChain(chains'[c]) /\ chains'[c].new = chains[c].new
             /\ chains'[c].step = "create" /\ chains'[c].old = chains[c].old
  BY <1>1, <1>3, GotoStep DEF Steps
<1>4. CASE \E id \in Named(chains[c].name) :
             /\ chains' = [chains EXCEPT ![c].step = "confirm", ![c].old = id,
                                         ![c].stop = engine[id].status = "running"]
             /\ UNCHANGED mishaps
  BY <1>1, <1>2, <1>4
<1>5. CASE Named(chains[c].name) = {} /\ Goto(c, "create") /\ UNCHANGED mishaps
  BY <1>1, <1>3, <1>5
<1>6. CASE faults /\ Goto(c, "create") /\ mishaps' = mishaps \cup {"find"}
  BY <1>1, <1>3, <1>6
<1> QED BY <1>4, <1>5, <1>6 DEF FindCurrentContainer

\* The user agrees to have the container replaced, or does not.
LEMMA ConfirmCalls ==
  ASSUME IInv, NEW c \in Chains, ConfirmCreateContainer(c)
  PROVE  /\ chains[c] # Idle /\ chains[c].step = "confirm" /\ chains[c].old \in Ids
         /\ \/ /\ \E step \in {"stop", "rename"} : Goto(c, step)
               /\ agreed' = agreed \cup {chains[c].old}
            \/ /\ chains'[c] = Idle /\ Others(c)
               /\ UNCHANGED agreed
         /\ UNCHANGED <<engine, joining, user, faults, mishaps, meddled>>
<1>1. chains[c] # Idle /\ chains[c].step = "confirm" /\ ChainInv(c) /\ DOMAIN chains = Chains
  BY InProgress DEF ConfirmCreateContainer, IInv
<1>2. chains[c].old \in Ids
  BY <1>1, ContainerAssumption DEF ChainInv, IsChain, Ids
<1> QED BY <1>1, <1>2 DEF ConfirmCreateContainer, Others

LEMMA LeaveStep ==
  ASSUME IInv, NEW c \in Chains, Leave(c)
  PROVE  /\ chains'[c] = Idle /\ Others(c)
         /\ UNCHANGED <<engine, joining, user, faults, mishaps, agreed, meddled>>
BY DEF IInv, Leave, Others

\* What a chain does keeps all this: first what the user decides,
LEMMA DecisionsKeep ==
  ASSUME IInv, NEW c \in Chains,
         FindCurrentContainer(c) \/ ConfirmCreateContainer(c) \/ Leave(c)
  PROVE  IInv'
<1>1. EngineInv /\ JoiningInv /\ HistoryInv
  BY DEF IInv
<1>2. UNCHANGED <<engine, joining, user, faults, meddled>>
  BY DEF FindCurrentContainer, ConfirmCreateContainer, Leave
<1>3. EngineMoves /\ JoiningInv'
  BY <1>1, <1>2, EngineStays, JoiningStays
<1>4. CASE FindCurrentContainer(c)
  <2>1. /\ Carries(c) /\ Others(c) /\ IsChain(chains'[c]) /\ chains'[c].new = chains[c].new
        /\ chains'[c].step \in {"create", "confirm"}
        /\ chains'[c].step = "confirm" => chains'[c].old # 0
    BY <1>4, FindCalls DEF Named, Ids
  <2>2. ChainInv(c)
    BY <2>1 DEF IInv, Carries
  <2>3. ChainInv(c)'
    BY <1>2, <1>3, <2>1, <2>2, ChainCarried
  <2>4. HistoryInv'
    BY <1>1, <1>4, FindCalls DEF HistoryInv, Ids
  <2> QED BY <1>2, <1>3, <2>1, <2>3, <2>4, IInvKept DEF Carries
<1>5. CASE ConfirmCreateContainer(c)
  <2>1. HistoryInv'
    BY <1>1, <1>5, ConfirmCalls DEF HistoryInv, Ids
  <2>2. CASE \E step \in {"stop", "rename"} : Goto(c, step)
    <3>1. PICK step \in {"stop", "rename"} : Goto(c, step)
      BY <2>2
    <3> QED BY <1>2, <1>3, <1>5, <2>1, <3>1, ConfirmCalls, GotoKeeps DEF Steps
  <2>3. CASE chains'[c] = Idle /\ Others(c)
    BY <1>2, <1>3, <2>1, <2>3, IInvKept
  <2> QED BY <1>5, <2>2, <2>3, ConfirmCalls
<1>6. CASE Leave(c)
  BY <1>1, <1>2, <1>3, <1>6, LeaveStep, HistoryStays, IInvKept
<1> QED BY <1>4, <1>5, <1>6

\* then the calls,
LEMMA CallsKeep ==
  ASSUME IInv, NEW c \in Chains,
         \/ StopContainerIfNeeded(c) \/ RecreateStop(c) \/ RenameContainer(c) \/ RecreateRename(c)
         \/ StartContainer(c) \/ RecreateStart(c) \/ ApplyResourceControl(c) \/ RecreateControl(c)
         \/ RemoveOldContainer(c) \/ RecreateRemove(c)
         \/ RemoveNewContainer(c) \/ RestoreOldContainerName(c)
  PROVE  IInv'
<1>1. EngineInv /\ JoiningInv /\ HistoryInv
  BY DEF IInv
<1>2. ASSUME UNCHANGED engine \/ EngineMoves, UNCHANGED <<joining, user, faults>>, HistoryInv',
             chains[c] # Idle, NEW step \in Steps \ {"confirm"}, Goto(c, step),
             step \in {"start", "control", "connect"} => chains[c].new # 0
      PROVE  IInv'
  BY <1>1, <1>2, EngineStays, JoiningStays, GotoKeeps
<1>3. chains[c] # Idle /\ chains[c].step \in {"start", "control"} => chains[c].new # 0
  BY DEF IInv, ChainInv
<1>4. CASE StopContainerIfNeeded(c) \/ RecreateStop(c)
  BY <1>1, <1>2, <1>4, StopCalls, HistoryStays DEF Told, Steps
<1>5. CASE RenameContainer(c) \/ RecreateRename(c)
  BY <1>1, <1>2, <1>5, RenameCalls, HistoryStays DEF Told, Steps
<1>6. CASE StartContainer(c) \/ RecreateStart(c)
  BY <1>1, <1>2, <1>3, <1>6, StartCalls, HistoryStays DEF Told, Steps
<1>7. CASE ApplyResourceControl(c) \/ RecreateControl(c)
  BY <1>1, <1>2, <1>3, <1>7, ControlCalls, HistoryStays DEF Told, Steps
<1>8. CASE RemoveOldContainer(c) \/ RecreateRemove(c)
  <2>1. HistoryInv'
    BY <1>1, <1>8, RemovalCalls DEF HistoryInv, Ids
  <2> QED BY <1>2, <1>8, <2>1, RemovalCalls DEF Taken, Steps
<1>9. CASE RemoveNewContainer(c)
  BY <1>1, <1>2, <1>9, RemoveNewCalls, HistoryStays DEF Taken, Steps
<1>10. CASE RestoreOldContainerName(c)
  BY <1>1, <1>2, <1>10, RestoreCalls, HistoryStays DEF Told, Steps
<1> QED BY <1>4, <1>5, <1>6, <1>7, <1>8, <1>9, <1>10

\* the new container,
LEMMA CreateKeeps ==
  ASSUME IInv, NEW c \in Chains, CreateNewContainer(c) \/ RecreateCreate(c)
  PROVE  IInv'
<1>1. EngineInv /\ JoiningInv /\ HistoryInv
  BY DEF IInv
<1>2. chains[c] # Idle /\ UNCHANGED <<joining, user, faults, mishaps, agreed, meddled>>
  BY CreateCalls
<1>3. HistoryInv'
  BY <1>1, <1>2, HistoryStays
<1>4. ASSUME UNCHANGED engine, NEW step \in {"findnew", "failed"}, Goto(c, step)
      PROVE  IInv'
  BY <1>1, <1>2, <1>3, <1>4, EngineStays, JoiningStays, GotoKeeps DEF Steps
<1>5. ASSUME NEW id \in Ids, Made(c, id), NEW step \in {"findnew", "failed"}, Goto(c, step)
      PROVE  IInv'
  BY <1>1, <1>2, <1>3, <1>5, JoiningStays, GotoKeeps DEF Steps, Made
<1>6. ASSUME NEW id \in Ids, Made(c, id), NEW step \in {"start", "connect"},
             chains' = [chains EXCEPT ![c].step = step, ![c].new = id]
      PROVE  IInv'
  <2>1. /\ Carries(c) /\ Others(c) /\ IsChain(chains'[c])
        /\ chains'[c].step = step /\ chains'[c].new = id
    BY <1>2, <1>6, NewStep DEF Steps
  <2>2. engine[id] = None /\ engine'[id] # None /\ EngineMoves /\ id # 0
    BY <1>6 DEF Made, Exists, Ids
  <2>3. ChainInv(c)
    BY <1>2 DEF IInv
  <2>4. ChainInv(c)'
    BY <1>2, <2>1, <2>2, <2>3, ChainCarried
  <2>5. JoiningInv'
    BY <1>1, <1>2, <2>2, JoiningStays
  <2> QED BY <1>2, <1>3, <2>1, <2>2, <2>4, <2>5, IInvKept
<1> QED BY <1>4, <1>5, <1>6, CreateCalls

\* its networks.
LEMMA ConnectKeeps ==
  ASSUME IInv, NEW c \in Chains, ConnectToExtraNetworks(c) \/ RecreateConnect(c)
  PROVE  IInv'
<1>1. EngineInv /\ JoiningInv /\ HistoryInv
  BY DEF IInv
<1>2. chains[c] # Idle /\ chains[c].step = "connect" /\ UNCHANGED <<engine, user, faults, mishaps, agreed, meddled>>
  BY ConnectCalls
<1>3. ChainInv(c) /\ chains[c].new # 0 /\ engine[chains[c].new] # None /\ chains[c].new \in Ids
  BY <1>2, ContainerAssumption DEF IInv, ChainInv, IsChain, Ids
<1>4. PICK nets \in SUBSET Int : joining' = joining \cup {<<chains[c].new, n>> : n \in nets}
  BY ConnectCalls
<1>5. JoiningInv'
  BY <1>1, <1>2, <1>3, <1>4 DEF JoiningInv, Ids
<1>6. \E step \in {"done", "remove", "start", "control"} : Goto(c, step)
  BY ConnectCalls
<1> QED BY <1>1, <1>2, <1>3, <1>5, <1>6, EngineStays, HistoryStays, GotoKeeps DEF Steps

-----------------------------------------------------------------------------
(* Meanwhile.                                                              *)

\* A network is connected, or not.
LEMMA ConnectStep ==
  ASSUME IInv, Connect
  PROVE  /\ \E p \in joining :
              /\ joining' = joining \ {p}
              /\ p[1] \in Ids /\ p[2] \in Int
              /\ \/ UNCHANGED engine /\ (~Exists(p[1]) \/ faults)
                 \/ /\ EngineMoves /\ Only(p[1]) /\ Exists(p[1]) /\ Exists(p[1])'
                    /\ SameName(p[1]) /\ SameControl(p[1]) /\ SameStatus(p[1])
                    /\ engine'[p[1]].spec.nets = engine[p[1]].spec.nets \cup {p[2]}
                    /\ Alike(engine'[p[1]].spec, engine[p[1]].spec)
         /\ UNCHANGED <<chains, user, faults, mishaps, agreed, meddled>>
<1>1. PICK p \in joining :
        /\ joining' = joining \ {p}
        /\ \/ Exists(p[1]) /\ engine' = Joined(p[1], p[2])
           \/ (~Exists(p[1]) \/ faults) /\ UNCHANGED engine
        /\ UNCHANGED <<chains, user, faults, mishaps, agreed, meddled>>
  BY DEF Connect
<1>2. p[1] \in Ids /\ p[2] \in Int
  BY DEF IInv, JoiningInv
<1>3. CASE Exists(p[1]) /\ engine' = Joined(p[1], p[2])
  BY <1>1, <1>2, <1>3, JoinStep DEF IInv
<1> QED BY <1>1, <1>2, <1>3

\* The user does something to a container.
LEMMA UserSteps ==
  ASSUME IInv, NEW id \in Ids, ContainerAction(id) \/ UserRenames(id) \/ UserRemoves(id)
  PROVE  /\ EngineMoves /\ meddled' = TRUE
         /\ UNCHANGED <<chains, joining, user, faults, mishaps, agreed>>
<1>1. EngineInv
  BY DEF IInv
<1>2. CASE ContainerAction(id)
  <2>1. Exists(id) /\ engine[id].status \in {"created", "running", "exited", "paused"}
    BY <1>1, <1>2 DEF ContainerAction, EngineInv, IsContainer
  <2>2. \E status \in {"created", "running", "exited", "paused"} : engine' = WithStatus(id, status)
    BY <1>2, <2>1 DEF ContainerAction
  <2> QED BY <1>1, <1>2, <2>1, <2>2, StatusStep DEF ContainerAction
<1>3. CASE UserRenames(id)
  <2>1. PICK n \in Nat : CanRename(id, n) /\ engine' = Renamed(id, n)
    BY <1>3, ContainerAssumption DEF UserRenames
  <2> QED BY <1>1, <1>3, <2>1, RenameStep DEF UserRenames
<1>4. CASE UserRemoves(id)
  BY <1>1, <1>4, RemoveStep DEF UserRemoves
<1> QED BY <1>2, <1>3, <1>4

\* It is told something or taken.
LEMMA UserTells ==
  ASSUME IInv, NEW id \in Ids, ContainerAction(id) \/ UserRenames(id) \/ UserRemoves(id)
  PROVE  (\E k \in Ids : Told(k)) \/ \E k \in Ids : Taken(k)
<1>1. EngineInv
  BY DEF IInv
<1>2. CASE ContainerAction(id)
  <2>1. Exists(id) /\ engine[id].status \in {"created", "running", "exited", "paused"}
    BY <1>1, <1>2 DEF ContainerAction, EngineInv, IsContainer
  <2>2. \E status \in {"created", "running", "exited", "paused"} : engine' = WithStatus(id, status)
    BY <1>2, <2>1 DEF ContainerAction
  <2> QED BY <1>1, <2>1, <2>2, StatusStep DEF Told
<1>3. CASE UserRenames(id)
  <2>1. PICK n \in Nat : CanRename(id, n) /\ engine' = Renamed(id, n)
    BY <1>3, ContainerAssumption DEF UserRenames
  <2> QED BY <1>1, <2>1, RenameStep DEF Told, CanRename
<1>4. CASE UserRemoves(id)
  BY <1>1, <1>4, RemoveStep DEF Taken, UserRemoves
<1> QED BY <1>2, <1>3, <1>4

\* The chains are not concerned.
LEMMA MeanwhileKeeps ==
  ASSUME IInv, EngineMoves, UNCHANGED <<chains, user, faults, mishaps, agreed>>,
         meddled' \in BOOLEAN, joining' \subseteq joining
  PROVE  IInv'
<1>1. ASSUME NEW c \in Chains, chains[c] # Idle
      PROVE  ChainInv(c)'
  <2>1. ChainInv(c) /\ IsChain(chains[c])
    BY <1>1 DEF IInv, ChainInv
  <2> QED BY <1>1, <2>1, ChainCarried DEF Carries, IsChain, ChainInv
<1>2. HistoryInv'
  BY DEF IInv, HistoryInv, Ids
<1>3. JoiningInv'
  BY JoiningStays DEF IInv
<1> QED BY <1>1, <1>2, <1>3 DEF IInv, NewDistinct, EngineMoves

\* In the initial states there is one container, as the constants have it.
LEMMA Initially ==
  ASSUME Init
  PROVE  IInv
<1>1. PICK status, spec, control :
        /\ status \in {"running", "exited"} /\ IsConfiguration(spec) /\ IsControl(control)
        /\ engine = OneContainer(status, spec, control)
  <2>1. IsControl([AdministratorsOnly EXCEPT !.public = TRUE])
    BY DEF IsControl, AdministratorsOnly
  <2> QED BY <2>1, ContainerAssumption DEF Init
<1>2. /\ DOMAIN engine = Ids
      /\ \A id \in Ids : id # 1 => engine[id] = None
      /\ 1 \in Ids => engine[1] = [status |-> status, name |-> 0, spec |-> spec, control |-> control]
  BY <1>1 DEF OneContainer
<1>3. IsContainer([status |-> status, name |-> 0, spec |-> spec, control |-> control])
  BY <1>1, ContainerAssumption DEF IsContainer
<1>4. EngineInv
  BY <1>2, <1>3 DEF EngineInv, Exists
<1> QED BY <1>4 DEF Init, IInv, JoiningInv, HistoryInv, NewDistinct, Ids

\* The invariant holds in every reachable state, with any number of chains.
THEOREM Invariance == Spec => []IInv
<1>1. Init => IInv
  BY Initially
<1>2. IInv /\ [Next]_vars => IInv'
  <2> SUFFICES ASSUME IInv, [Next]_vars PROVE IInv'
    OBVIOUS
  <2>1. ASSUME NEW c \in Chains,
               \/ OpenCreate(c) \/ FindCurrentContainer(c) \/ ConfirmCreateContainer(c)
               \/ StopContainerIfNeeded(c) \/ RenameContainer(c) \/ CreateNewContainer(c)
               \/ StartContainer(c) \/ ApplyResourceControl(c) \/ ConnectToExtraNetworks(c)
               \/ RemoveOldContainer(c) \/ RemoveNewContainer(c) \/ RestoreOldContainerName(c)
               \/ OpenRecreate(c) \/ RecreateStop(c) \/ RecreateRename(c) \/ RecreateCreate(c)
               \/ RecreateConnect(c) \/ RecreateStart(c) \/ RecreateControl(c) \/ RecreateRemove(c)
               \/ Leave(c)
        PROVE  IInv'
    BY <2>1, OpenKeeps, DecisionsKeep, CallsKeep, CreateKeeps, ConnectKeeps
  <2>2. CASE Connect
    <3>1. EngineMoves /\ joining' \subseteq joining /\ UNCHANGED <<chains, user, faults, mishaps, agreed, meddled>>
      BY <2>2, ConnectStep, EngineStays DEF Told, IInv
    <3> QED BY <3>1, MeanwhileKeeps DEF IInv, HistoryInv
  <2>3. ASSUME NEW id \in Ids, ContainerAction(id) \/ UserRenames(id) \/ UserRemoves(id)
        PROVE  IInv'
    BY <2>3, UserSteps, MeanwhileKeeps
  <2>4. CASE UNCHANGED vars
    BY <2>4, EngineStays, MeanwhileKeeps DEF vars, IInv, HistoryInv
  <2> QED BY <2>1, <2>2, <2>3, <2>4 DEF Next
<1> QED BY <1>1, <1>2, PTL DEF Spec

\* Every variable keeps its type: whatever the chains and the user do at the same time,
\* a container always has a configuration with the network of its mode, a control, and
\* a name within bounds, and the chains refer to containers that were there.
THEOREM TypeCorrect == Spec => []TypeOK
<1>1. IInv => TypeOK
  BY DEF IInv, EngineInv, IsContainer, ChainInv, IsChain, JoiningInv, HistoryInv, TypeOK
<1> QED BY <1>1, Invariance, PTL

-----------------------------------------------------------------------------
(* Who may use the new container, with any number of chains.               *)

\* A step sets no control but that of a chain's own container.
ControlsStay(c) ==
  \A id \in Ids : engine[id] # None /\ Exists(id)' /\ ~(chains[c] # Idle /\ id = chains[c].new)
    => Exists(id) /\ engine'[id].control = engine[id].control

LEMMA GainKept ==
  ASSUME IInv, GainInv, IInv', NEW c \in Chains, Others(c), UNCHANGED <<user, meddled>>,
         ControlsStay(c),
         \A id \in Ids :
           chains'[c] # Idle /\ id = chains'[c].new /\ Exists(id)' /\ ~meddled
             => GainsNothing(engine'[id].control, chains'[c].from.control)
  PROVE  GainInv'
<1> SUFFICES ASSUME NEW d \in Chains, (chains[d] # Idle /\ Exists(chains[d].new) /\ ~meddled)'
             PROVE  GainsNothing(engine[chains[d].new].control, chains[d].from.control)'
  BY DEF GainInv
<1>1. PICK id \in Ids : id = chains'[d].new
  BY DEF Exists, Ids
<1>2. CASE d = c
  BY <1>1, <1>2 DEF GainsNothing, Exists
<1>3. CASE d # c
  <2>1. chains'[d] = chains[d]
    BY <1>3 DEF Others
  <2>2. engine[id] # None /\ id # 0
    BY <1>1, <2>1 DEF IInv, ChainInv, Ids
  <2>3. ~(chains[c] # Idle /\ id = chains[c].new)
    BY <1>1, <1>3, <2>1, <2>2 DEF IInv, NewDistinct
  <2>4. Exists(id) /\ engine'[id].control = engine[id].control
    BY <1>1, <2>2, <2>3 DEF ControlsStay, Exists
  <2> QED BY <1>1, <2>1, <2>4 DEF GainInv, GainsNothing
<1> QED BY <1>2, <1>3

\* A call that sets no control and makes nothing
LEMMA GainCalls ==
  ASSUME IInv, GainInv, IInv', NEW c \in Chains, UNCHANGED <<user, meddled>>,
         Carries(c), Others(c), chains'[c].new = chains[c].new,
         \A id \in Ids : Exists(id)' => Exists(id) /\ engine'[id].control = engine[id].control
  PROVE  GainInv'
<1>1. ControlsStay(c)
  BY DEF ControlsStay
<1>2. ASSUME NEW id \in Ids, id = chains'[c].new, Exists(id)', ~meddled
      PROVE  GainsNothing(engine'[id].control, chains'[c].from.control)
  <2>1. Exists(id) /\ engine'[id].control = engine[id].control
    BY <1>2
  <2> QED BY <1>2, <2>1 DEF GainInv, Carries
<1> QED BY <1>1, <1>2, GainKept

\* A container told something else keeps its control, and one taken has none.
LEMMA ControlsKept ==
  ASSUME EngineInv,
         \/ UNCHANGED engine
         \/ \E id \in Ids : Only(id) /\ Exists(id) /\ SameControl(id)
         \/ \E id \in Ids : Taken(id)
  PROVE  \A id \in Ids : Exists(id)' => Exists(id) /\ engine'[id].control = engine[id].control
<1>1. CASE UNCHANGED engine
  BY <1>1 DEF Exists
<1>2. ASSUME NEW k \in Ids, Only(k) /\ Exists(k) /\ SameControl(k)
      PROVE  \A id \in Ids : Exists(id)' => Exists(id) /\ engine'[id].control = engine[id].control
  BY <1>2 DEF Exists, Only, SameControl
<1>3. ASSUME NEW k \in Ids, Taken(k)
      PROVE  \A id \in Ids : Exists(id)' => Exists(id) /\ engine'[id].control = engine[id].control
  BY <1>3 DEF Exists, Only, Taken
<1> QED BY <1>1, <1>2, <1>3

LEMMA GainInvKept ==
  ASSUME IInv, GainInv, IInv', [Next]_vars
  PROVE  GainInv'
<1>1. EngineInv
  BY DEF IInv
<1> DEFINE Kept == \A id \in Ids : Exists(id)' => Exists(id) /\ engine'[id].control = engine[id].control
<1>2. ASSUME NEW c \in Chains, UNCHANGED <<user, meddled>>, Kept, chains[c] # Idle,
             NEW step \in Steps, Goto(c, step)
      PROVE  GainInv'
  BY <1>2, GotoStep, GainCalls
<1>3. ASSUME NEW c \in Chains, UNCHANGED <<user, meddled>>, UNCHANGED engine, Others(c),
             chains'[c] # Idle => chains'[c].new = 0
      PROVE  GainInv'
  BY <1>3, GainKept DEF ControlsStay, Exists, Ids
<1>4. ASSUME NEW c \in Chains, OpenCreate(c) \/ OpenRecreate(c)
      PROVE  GainInv'
  <2>1. \E q : Opened(c, q)
    BY <1>4, CreateOpens, RecreateOpens
  <2> QED BY <1>3, <2>1, OpenStep DEF Opened
<1>5. ASSUME NEW c \in Chains, FindCurrentContainer(c)
      PROVE  GainInv'
  <2>1. UNCHANGED <<user, meddled, engine>> /\ Carries(c) /\ Others(c) /\ chains'[c].new = chains[c].new
    BY <1>5, FindCalls
  <2> QED BY <1>1, <2>1, ControlsKept, GainCalls
<1>6. ASSUME NEW c \in Chains, ConfirmCreateContainer(c)
      PROVE  GainInv'
  <2>1. Kept /\ UNCHANGED <<user, meddled, engine>> /\ chains[c] # Idle
    BY <1>1, <1>6, ConfirmCalls, ControlsKept
  <2>2. ASSUME NEW step \in {"stop", "rename"}, Goto(c, step)
        PROVE  GainInv'
    BY <1>2, <2>1, <2>2 DEF Steps
  <2> QED BY <1>3, <1>6, <2>1, <2>2, ConfirmCalls
<1>7. ASSUME NEW c \in Chains, Leave(c)
      PROVE  GainInv'
  BY <1>3, <1>7, LeaveStep
<1>8. ASSUME NEW c \in Chains,
             \/ StopContainerIfNeeded(c) \/ RecreateStop(c) \/ RenameContainer(c) \/ RecreateRename(c)
             \/ StartContainer(c) \/ RecreateStart(c)
      PROVE  GainInv'
  <2>1. /\ UNCHANGED <<user, meddled>> /\ chains[c] # Idle
        /\ UNCHANGED engine \/ \E id \in Ids : Told(id) /\ SameControl(id)
        /\ \E step \in {"rename", "create", "control", "findnew", "failed"} : Goto(c, step)
    BY <1>8, StopCalls, RenameCalls, StartCalls
  <2>2. Kept
    BY <1>1, <2>1, ControlsKept DEF Told
  <2> QED BY <1>2, <2>1, <2>2 DEF Steps
<1>9. ASSUME NEW c \in Chains, RemoveOldContainer(c) \/ RecreateRemove(c) \/ RemoveNewContainer(c)
      PROVE  GainInv'
  <2>1. /\ UNCHANGED <<user, meddled>> /\ chains[c] # Idle
        /\ UNCHANGED engine \/ \E id \in Ids : Taken(id)
        /\ \E step \in {"done", "restore", "findnew", "failed"} : Goto(c, step)
    BY <1>9, RemovalCalls, RemoveNewCalls
  <2>2. Kept
    BY <1>1, <2>1, ControlsKept
  <2> QED BY <1>2, <2>1, <2>2 DEF Steps
<1>10. ASSUME NEW c \in Chains, RestoreOldContainerName(c)
      PROVE  GainInv'
  <2>1. /\ UNCHANGED <<user, meddled>> /\ chains[c] # Idle
        /\ UNCHANGED engine \/ \E id \in Ids : Told(id) /\ SameControl(id)
        /\ \E step \in {"restored", "failed"} : Goto(c, step)
    BY <1>10, RestoreCalls
  <2>2. Kept
    BY <1>1, <2>1, ControlsKept DEF Told
  <2> QED BY <1>2, <2>1, <2>2 DEF Steps
<1>11. ASSUME NEW c \in Chains, ConnectToExtraNetworks(c) \/ RecreateConnect(c)
      PROVE  GainInv'
  <2>1. /\ UNCHANGED <<user, meddled, engine>> /\ chains[c] # Idle
        /\ \E step \in {"done", "remove", "start", "control"} : Goto(c, step)
    BY <1>11, ConnectCalls
  <2>2. Kept
    BY <1>1, <2>1, ControlsKept
  <2> QED BY <1>2, <2>1, <2>2 DEF Steps
<1>12. ASSUME NEW c \in Chains, ApplyResourceControl(c) \/ RecreateControl(c)
      PROVE  GainInv'
  <2>1. /\ UNCHANGED <<user, meddled>> /\ chains[c] # Idle /\ ChainInv(c)
        /\ \E step \in {"connect", "remove", "findnew", "failed"} : Goto(c, step)
    BY <1>12, ControlCalls DEF IInv
  <2>2. Carries(c) /\ Others(c) /\ chains'[c].new = chains[c].new
    BY <2>1, GotoStep DEF Steps
  <2>3. CASE UNCHANGED engine
    BY <1>1, <1>2, <2>1, <2>3, ControlsKept DEF Steps
  <2>4. ASSUME NEW id \in Ids, id = chains[c].new, Told(id),
               engine'[id].control = chains[c].control
        PROVE  GainInv'
    <3>1. ControlsStay(c)
      BY <2>1, <2>4 DEF ControlsStay, Told, Only, Exists
    <3>2. GainsNothing(engine'[id].control, chains'[c].from.control)
      BY <2>1, <2>2, <2>4, ChainControls DEF Carries
    <3> QED BY <2>1, <2>2, <2>4, <3>1, <3>2, GainKept
  <2> QED BY <1>12, <2>3, <2>4, ControlCalls
<1>13. ASSUME NEW c \in Chains, CreateNewContainer(c) \/ RecreateCreate(c)
      PROVE  GainInv'
  <2>1. UNCHANGED <<user, meddled>> /\ chains[c] # Idle
    BY <1>13, CreateCalls
  <2>2. ASSUME UNCHANGED engine, NEW step \in {"findnew", "failed"}, Goto(c, step)
        PROVE  GainInv'
    BY <1>1, <1>2, <2>1, <2>2, ControlsKept DEF Steps
  <2>3. ASSUME NEW id \in Ids, Made(c, id)
        PROVE  /\ ControlsStay(c)
               /\ GainsNothing(engine'[id].control, chains[c].from.control)
               /\ \A k \in Ids : engine[k] # None => engine'[k] = engine[k]
    BY <2>3 DEF ControlsStay, Made, Only, Exists, GainsNothing
  <2>4. ASSUME NEW id \in Ids, Made(c, id), NEW step \in {"findnew", "failed"}, Goto(c, step)
        PROVE  GainInv'
    <3>1. Carries(c) /\ Others(c) /\ chains'[c].new = chains[c].new
      BY <2>1, <2>4, GotoStep DEF Steps
    <3>2. \A k \in Ids : k = chains[c].new => engine[k] # None
      BY <2>1 DEF IInv, ChainInv, Ids
    <3>3. \A k \in Ids : k = chains[c].new /\ ~meddled /\ Exists(k)'
            => GainsNothing(engine'[k].control, chains[c].from.control)
      BY <2>1, <2>3, <2>4, <3>2 DEF GainInv, Exists
    <3> QED BY <2>1, <2>3, <2>4, <3>1, <3>3, GainKept DEF Carries
  <2>5. ASSUME NEW id \in Ids, Made(c, id), NEW step \in {"start", "connect"},
               chains' = [chains EXCEPT ![c].step = step, ![c].new = id]
        PROVE  GainInv'
    <3>1. Carries(c) /\ Others(c) /\ chains'[c].new = id
      BY <2>1, <2>5, NewStep DEF Steps
    <3> QED BY <2>1, <2>3, <2>5, <3>1, GainKept DEF Carries
  <2> QED BY <1>13, <2>2, <2>4, <2>5, CreateCalls
<1>14. CASE Connect
  <2>1. UNCHANGED <<chains, user, meddled>> /\ Kept
    <3>1. UNCHANGED engine \/ \E id \in Ids : Only(id) /\ Exists(id) /\ SameControl(id)
      BY <1>14, ConnectStep
    <3> QED BY <1>1, <1>14, <3>1, ConnectStep, ControlsKept
  <2> QED BY <2>1 DEF GainInv, Exists, GainsNothing
<1>15. ASSUME NEW id \in Ids, ContainerAction(id) \/ UserRenames(id) \/ UserRemoves(id)
      PROVE  GainInv'
  BY <1>15, UserSteps DEF GainInv
<1>16. CASE UNCHANGED vars
  BY <1>16 DEF vars, GainInv, Exists, GainsNothing, Ids
<1> QED BY <1>4, <1>5, <1>6, <1>7, <1>8, <1>9, <1>10, <1>11, <1>12, <1>13, <1>14, <1>15, <1>16 DEF Next

\* Nobody but its creator may use a container that takes another's place who could not
\* use that one, whatever any number of chains do at the same time, as long as the user
\* does nothing else to the containers.
THEOREM AccessNotGained == Spec => []NobodyGains
<1>1. Init => GainInv
  BY DEF Init, GainInv
<1>2. IInv /\ GainInv /\ IInv' /\ [Next]_vars => GainInv'
  BY GainInvKept
<1>3. GainInv => NobodyGains
  BY DEF GainInv, GainsNothing, NobodyGains
<1> QED BY <1>1, <1>2, <1>3, Invariance, PTL DEF Spec

-----------------------------------------------------------------------------
(* What the new container is, with any number of chains.                   *)

\* The container a chain of the form made is what its form was turned into, but for the
\* networks.
FormInv ==
  \A c \in Chains :
    chains[c] # Idle /\ chains[c].kind = "create" /\ Exists(chains[c].new)
      => Alike(engine[chains[c].new].spec, PrepareConfiguration(chains[c].form))

\* A step changes no configuration but by a network.
SpecsStay ==
  \A id \in Ids : engine[id] # None /\ Exists(id)' => Exists(id) /\ Alike(engine'[id].spec, engine[id].spec)

\* A step of one chain: the others keep what they made, and it may make one.
LEMMA FormKept ==
  ASSUME IInv, FormInv, NEW c \in Chains, Others(c), SpecsStay,
         \/ chains'[c] = Idle \/ chains'[c].new = 0
         \/ Carries(c) /\ chains'[c].new = chains[c].new
         \/ Carries(c) /\ \E id \in Ids : chains'[c].new = id /\ Made(c, id)
  PROVE  FormInv'
<1> SUFFICES ASSUME NEW d \in Chains,
                    (chains[d] # Idle /\ chains[d].kind = "create" /\ Exists(chains[d].new))'
             PROVE  Alike(engine[chains[d].new].spec, PrepareConfiguration(chains[d].form))'
  BY DEF FormInv
<1>1. PICK id \in Ids : id = chains'[d].new
  BY DEF Exists, Ids
<1>2. id # 0 /\ Exists(id)'
  BY <1>1 DEF Ids, Exists
<1>3. ASSUME chains[d] # Idle, chains[d].kind = "create", chains[d].new = id, chains'[d].form = chains[d].form
      PROVE  Alike(engine'[id].spec, PrepareConfiguration(chains'[d].form))
  <2>1. engine[id] # None
    BY <1>2, <1>3 DEF IInv, ChainInv
  <2>2. Exists(id) /\ Alike(engine'[id].spec, engine[id].spec)
    BY <1>2, <2>1 DEF SpecsStay
  <2>3. Alike(engine[id].spec, PrepareConfiguration(chains[d].form))
    BY <1>3, <2>2 DEF FormInv
  <2> QED BY <1>3, <2>2, <2>3 DEF Alike
<1>4. CASE d # c \/ (Carries(c) /\ chains'[c].new = chains[c].new)
  BY <1>1, <1>3, <1>4 DEF Others, Carries
<1>5. CASE d = c /\ Carries(c) /\ Made(c, id)
  BY <1>1, <1>5 DEF Made, Carries, Alike
<1> QED BY <1>1, <1>2, <1>4, <1>5

\* What a call may do to the containers changes no configuration but by a network.
LEMMA SpecsKept ==
  ASSUME EngineInv,
         \/ UNCHANGED engine
         \/ \E id \in Ids : Only(id) /\ Exists(id) /\ (SameSpec(id) \/ Alike(engine'[id].spec, engine[id].spec))
         \/ \E id \in Ids : Taken(id)
         \/ \E id \in Ids : Only(id) /\ engine[id] = None
  PROVE  SpecsStay
<1>1. CASE UNCHANGED engine
  BY <1>1 DEF Exists, SpecsStay, Alike
<1>2. ASSUME NEW k \in Ids, Only(k) /\ Exists(k) /\ (SameSpec(k) \/ Alike(engine'[k].spec, engine[k].spec))
      PROVE  SpecsStay
  BY <1>2 DEF Exists, Only, SameSpec, Alike, SpecsStay
<1>3. ASSUME NEW k \in Ids, Taken(k)
      PROVE  SpecsStay
  BY <1>3 DEF Exists, Only, Taken, Alike, SpecsStay
<1>4. ASSUME NEW k \in Ids, Only(k), engine[k] = None
      PROVE  SpecsStay
  BY <1>4 DEF Exists, Only, Alike, SpecsStay
<1> QED BY <1>1, <1>2, <1>3, <1>4

\* Step by step.
LEMMA FormInvKept ==
  ASSUME IInv, FormInv, [Next]_vars
  PROVE  FormInv'
<1>1. EngineInv
  BY DEF IInv
<1>2. ASSUME NEW c \in Chains, SpecsStay, chains[c] # Idle, NEW step \in Steps, Goto(c, step)
      PROVE  FormInv'
  BY <1>2, GotoStep, FormKept
<1>3. ASSUME NEW c \in Chains, UNCHANGED engine, Others(c), chains'[c] = Idle \/ chains'[c].new = 0
      PROVE  FormInv'
  BY <1>1, <1>3, SpecsKept, FormKept
<1>4. ASSUME NEW c \in Chains, OpenCreate(c) \/ OpenRecreate(c)
      PROVE  FormInv'
  <2>1. PICK q : Opened(c, q)
    BY <1>4, CreateOpens, RecreateOpens
  <2> QED BY <1>3, <2>1, OpenStep DEF Opened
<1>5. ASSUME NEW c \in Chains, FindCurrentContainer(c)
      PROVE  FormInv'
  <2>1. UNCHANGED engine /\ Carries(c) /\ Others(c) /\ chains'[c].new = chains[c].new
    BY <1>5, FindCalls
  <2> QED BY <1>1, <2>1, SpecsKept, FormKept
<1>6. ASSUME NEW c \in Chains, ConfirmCreateContainer(c)
      PROVE  FormInv'
  <2>1. SpecsStay /\ UNCHANGED engine /\ chains[c] # Idle
    BY <1>1, <1>6, ConfirmCalls, SpecsKept
  <2>2. ASSUME NEW step \in {"stop", "rename"}, Goto(c, step)
        PROVE  FormInv'
    BY <1>2, <2>1, <2>2 DEF Steps
  <2> QED BY <1>3, <1>6, <2>1, <2>2, ConfirmCalls
<1>7. ASSUME NEW c \in Chains, Leave(c)
      PROVE  FormInv'
  BY <1>3, <1>7, LeaveStep
<1>8. ASSUME NEW c \in Chains,
             \/ StopContainerIfNeeded(c) \/ RecreateStop(c) \/ RenameContainer(c) \/ RecreateRename(c)
             \/ StartContainer(c) \/ RecreateStart(c)
      PROVE  FormInv'
  <2>1. /\ chains[c] # Idle
        /\ UNCHANGED engine \/ \E id \in Ids : Told(id)
        /\ \E step \in {"rename", "create", "control", "findnew", "failed"} : Goto(c, step)
    BY <1>8, StopCalls, RenameCalls, StartCalls
  <2>2. SpecsStay
    BY <1>1, <2>1, SpecsKept DEF Told
  <2> QED BY <1>2, <2>1, <2>2 DEF Steps
<1>9. ASSUME NEW c \in Chains, RemoveOldContainer(c) \/ RecreateRemove(c) \/ RemoveNewContainer(c)
      PROVE  FormInv'
  <2>1. /\ chains[c] # Idle
        /\ UNCHANGED engine \/ \E id \in Ids : Taken(id)
        /\ \E step \in {"done", "restore", "findnew", "failed"} : Goto(c, step)
    BY <1>9, RemovalCalls, RemoveNewCalls
  <2>2. SpecsStay
    BY <1>1, <2>1, SpecsKept
  <2> QED BY <1>2, <2>1, <2>2 DEF Steps
<1>10. ASSUME NEW c \in Chains, RestoreOldContainerName(c)
      PROVE  FormInv'
  <2>1. /\ chains[c] # Idle
        /\ UNCHANGED engine \/ \E id \in Ids : Told(id)
        /\ \E step \in {"restored", "failed"} : Goto(c, step)
    BY <1>10, RestoreCalls
  <2>2. SpecsStay
    BY <1>1, <2>1, SpecsKept DEF Told
  <2> QED BY <1>2, <2>1, <2>2 DEF Steps
<1>11. ASSUME NEW c \in Chains, ConnectToExtraNetworks(c) \/ RecreateConnect(c)
      PROVE  FormInv'
  <2>1. /\ UNCHANGED engine /\ chains[c] # Idle
        /\ \E step \in {"done", "remove", "start", "control"} : Goto(c, step)
    BY <1>11, ConnectCalls
  <2>2. SpecsStay
    BY <1>1, <2>1, SpecsKept
  <2> QED BY <1>2, <2>1, <2>2 DEF Steps
<1>12. ASSUME NEW c \in Chains, ApplyResourceControl(c) \/ RecreateControl(c)
      PROVE  FormInv'
  <2>1. /\ chains[c] # Idle
        /\ UNCHANGED engine \/ \E id \in Ids : Told(id)
        /\ \E step \in {"connect", "remove", "findnew", "failed"} : Goto(c, step)
    BY <1>12, ControlCalls
  <2>2. SpecsStay
    BY <1>1, <2>1, SpecsKept DEF Told
  <2> QED BY <1>2, <2>1, <2>2 DEF Steps
<1>13. ASSUME NEW c \in Chains, CreateNewContainer(c) \/ RecreateCreate(c)
      PROVE  FormInv'
  <2>1. chains[c] # Idle
    BY <1>13, CreateCalls
  <2>2. ASSUME UNCHANGED engine, NEW step \in {"findnew", "failed"}, Goto(c, step)
        PROVE  FormInv'
    BY <1>1, <1>2, <2>1, <2>2, SpecsKept DEF Steps
  <2>3. ASSUME NEW id \in Ids, Made(c, id)
        PROVE  SpecsStay
    BY <1>1, <2>3, SpecsKept DEF Made
  <2>4. ASSUME NEW id \in Ids, Made(c, id), NEW step \in {"findnew", "failed"}, Goto(c, step)
        PROVE  FormInv'
    BY <1>2, <2>1, <2>3, <2>4 DEF Steps
  <2>5. ASSUME NEW id \in Ids, Made(c, id), NEW step \in {"start", "connect"},
               chains' = [chains EXCEPT ![c].step = step, ![c].new = id]
        PROVE  FormInv'
    <3>1. Carries(c) /\ Others(c) /\ chains'[c].new = id
      BY <2>1, <2>5, NewStep DEF Steps
    <3> QED BY <2>3, <2>5, <3>1, FormKept
  <2> QED BY <1>13, <2>2, <2>4, <2>5, CreateCalls
<1>14. ASSUME UNCHANGED chains, SpecsStay
       PROVE  FormInv'
  <2> SUFFICES ASSUME NEW d \in Chains, (chains[d] # Idle /\ chains[d].kind = "create" /\ Exists(chains[d].new))'
               PROVE  Alike(engine[chains[d].new].spec, PrepareConfiguration(chains[d].form))'
    BY DEF FormInv
  <2>1. chains[d].new \in Ids /\ chains[d].new # 0 /\ chains[d] # Idle /\ chains[d].kind = "create" /\ chains'[d] = chains[d]
    BY <1>14 DEF Exists, Ids
  <2>2. engine[chains[d].new] # None
    BY <2>1 DEF IInv, ChainInv
  <2>3. /\ Exists(chains[d].new)
        /\ Alike(engine'[chains[d].new].spec, engine[chains[d].new].spec)
    BY <1>14, <2>1, <2>2 DEF SpecsStay, Exists
  <2>4. Alike(engine[chains[d].new].spec, PrepareConfiguration(chains[d].form))
    BY <2>1, <2>3 DEF FormInv
  <2> QED BY <2>1, <2>3, <2>4 DEF Alike
<1>15. CASE Connect
  <2>1. UNCHANGED engine \/ \E id \in Ids : Only(id) /\ Exists(id) /\ Alike(engine'[id].spec, engine[id].spec)
    BY <1>15, ConnectStep
  <2>2. SpecsStay
    BY <1>1, <2>1, SpecsKept
  <2> QED BY <1>14, <1>15, <2>2, ConnectStep
<1>16. ASSUME NEW id \in Ids, ContainerAction(id) \/ UserRenames(id) \/ UserRemoves(id)
      PROVE  FormInv'
  <2>1. (\E k \in Ids : Told(k)) \/ \E k \in Ids : Taken(k)
    BY <1>16, UserTells
  <2>2. SpecsStay
    BY <1>1, <2>1, SpecsKept DEF Told
  <2> QED BY <1>14, <1>16, <2>2, UserSteps
<1>17. CASE UNCHANGED vars
  BY <1>1, <1>14, <1>17, SpecsKept DEF vars
<1> QED BY <1>4, <1>5, <1>6, <1>7, <1>8, <1>9, <1>10, <1>11, <1>12, <1>13, <1>15, <1>16, <1>17 DEF Next

\* A container created from the form of another, which nobody changed, is configured as
\* that one in all that the form takes apart, if its configuration is one that survives:
\* the ports that loadFromContainerPortBindings sorts and joins are taken apart again by
\* preparePortBindings as they were, and the image's name, the command, the capabilities
\* and the rest mean what they meant, whatever other chains and the user do meanwhile.
THEOREM FormIsKept == Spec => []FormKeeps
<1>1. Init => FormInv
  BY DEF Init, FormInv
<1>2. IInv /\ FormInv /\ [Next]_vars => FormInv'
  BY FormInvKept
<1>3. IInv /\ FormInv => FormKeeps
  <2> SUFFICES ASSUME IInv, FormInv, NEW c \in Chains, chains[c] # Idle, chains[c].kind = "create",
                      Exists(chains[c].new), Survives(chains[c].from.spec)
               PROVE  Resembles(engine[chains[c].new].spec, chains[c].from.spec)
    BY DEF FormKeeps, Resembles
  <2> DEFINE was == chains[c].from.spec
             is  == engine[chains[c].new].spec
  <2>1. chains[c].form = LoadFromContainerSpec(was, Registries) /\ IsConfiguration(was)
    BY DEF IInv, ChainInv, IsChain, IsContainer
  <2>2. Alike(is, Reposted(was))
    BY <2>1 DEF FormInv, Reposted
  <2>3. Resembles(Reposted(was), was)
    BY <2>1, RoundTrip
  <2> HIDE DEF is, was
  <2>4. Resembles(is, was)
    BY <2>2, <2>3, AlikeResembles
  <2> QED BY <2>4 DEF is, was
<1> QED BY <1>1, <1>2, <1>3, Invariance, PTL DEF Spec
=============================================================================
