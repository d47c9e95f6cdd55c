-------------------------- MODULE BrowserViewsProofs --------------------------
(***************************************************************************)
(* Proofs about BrowserViews, for any views that respect what all of the   *)
(* application's do (IsView), any number of objects, visits, operations    *)
(* and failures, and requests that are answered in any order.              *)
(***************************************************************************)
EXTENDS BrowserViews, FiniteSetTheorems, SequenceTheorems, TLAPS

-----------------------------------------------------------------------------
(* Sequences of anything                                                   *)

IsSeq(s) == \E S : s \in Seq(S)

LEMMA SeqDomain ==
  ASSUME NEW s, IsSeq(s)
  PROVE  Len(s) \in Nat /\ DOMAIN s = 1 .. Len(s)
BY DEF IsSeq

LEMMA SeqOfOne ==
  ASSUME NEW e
  PROVE  IsSeq(<<e>>) /\ Len(<<e>>) = 1 /\ <<e>>[1] = e
<1>1. <<e>> \in Seq({e})
  OBVIOUS
<1> QED BY <1>1 DEF IsSeq

LEMMA SeqAppend ==
  ASSUME NEW s, IsSeq(s), NEW e
  PROVE  /\ IsSeq(Append(s, e)) /\ Len(Append(s, e)) = Len(s) + 1
         /\ Append(s, e)[Len(s) + 1] = e
         /\ \A k \in 1 .. Len(s) : Append(s, e)[k] = s[k]
<1>1. PICK S : s \in Seq(S)
  BY DEF IsSeq
<1>2. s \in Seq(S \cup {e}) /\ e \in S \cup {e}
  BY <1>1
<1>3. Append(s, e) \in Seq(S \cup {e})
  BY <1>2
<1> QED BY <1>2, <1>3 DEF IsSeq

Replaced(t, s, n, e) == t = [s EXCEPT ![n] = e]

LEMMA SeqExcept ==
  ASSUME NEW s, IsSeq(s), NEW n \in 1 .. Len(s), NEW e, NEW t, Replaced(t, s, n, e)
  PROVE  /\ IsSeq(t) /\ Len(t) = Len(s) /\ t[n] = e
         /\ \A k \in 1 .. Len(s) : k # n => t[k] = s[k]
<1>1. PICK S : s \in Seq(S)
  BY DEF IsSeq
<1>2. s \in Seq(S \cup {e}) /\ e \in S \cup {e}
  BY <1>1
<1>3. t \in Seq(S \cup {e}) /\ Len(t) = Len(s)
  BY <1>2 DEF Replaced
<1> QED BY <1>2, <1>3 DEF IsSeq, Replaced

-----------------------------------------------------------------------------
(* The queue of agent targets                                              *)

LEMMA Smallest ==
  ASSUME NEW T \in SUBSET Nat, T # {}
  PROVE  \E n \in T : \A m \in T : n <= m
<1>1. IsWellFoundedOn(OpToRel(<, Nat), Nat)
  BY NatLessThanWellFounded
<1>2. \A m, n \in Nat : <<m, n>> \in OpToRel(<, Nat) <=> m < n
  BY DEF OpToRel
<1>3. PICK n \in T : \A m \in T : ~(<<m, n>> \in OpToRel(<, Nat))
  BY <1>1, WFMin
<1>4. \A m \in T : ~(m < n)
  BY <1>2, <1>3
<1> QED BY <1>4

\* Induction, with a set for the formula.
LEMMA NatCovered ==
  ASSUME NEW T, 0 \in T, \A n \in Nat : n \in T => n + 1 \in T
  PROVE  Nat \subseteq T
<1> SUFFICES ASSUME Nat \ T # {} PROVE FALSE
  OBVIOUS
<1>1. PICK n \in Nat \ T : \A m \in Nat \ T : n <= m
  BY Smallest
<1>2. n # 0 /\ n - 1 \in Nat
  BY <1>1
<1>3. n - 1 \in T
  BY <1>1, <1>2
<1> QED BY <1>1, <1>2, <1>3

\* SetToSeq: the elements of a finite set, each once.
LEMMA InSomeOrder ==
  ASSUME NEW S, IsFiniteSet(S)
  PROVE  LET s == SetToSeq(S)
         IN  /\ IsSeq(s) /\ Len(s) = Cardinality(S) /\ s \in [1 .. Len(s) -> S] /\ DOMAIN s = 1 .. Len(s)
             /\ \A e \in S : \E n \in 1 .. Len(s) : s[n] = e
             /\ \A m, n \in 1 .. Len(s) : s[m] = s[n] => m = n
<1> DEFINE N == Cardinality(S)
           s == SetToSeq(S)
<1>1. N \in Nat /\ ExistsBijection(1 .. N, S)
  BY FS_CardinalityType
<1>2. \E f \in [1 .. N -> S] : IsInjective(f)
  BY <1>1 DEF ExistsBijection, Bijection, Injection
<1>3. s \in [1 .. N -> S] /\ IsInjective(s)
  BY <1>2 DEF SetToSeq
<1>4. s \in Surjection(1 .. N, S)
  <2>1. s \in Injection(1 .. N, S)
    BY <1>3 DEF Injection
  <2>2. Cardinality(1 .. N) = N
    BY <1>1, FS_Interval
  <2> QED BY <2>1, <2>2, FS_Injection
<1> HIDE DEF s, N
<1>5. s \in Seq(S) /\ Len(s) = N
  BY <1>1, <1>3
<1>6. \A e \in S : \E n \in 1 .. N : s[n] = e
  BY <1>4 DEF Surjection
<1>7. \A m, n \in 1 .. N : s[m] = s[n] => m = n
  BY <1>3 DEF IsInjective
<1> QED BY <1>1, <1>3, <1>5, <1>6, <1>7 DEF IsSeq, s, N

LEMMA SeqsEqual ==
  ASSUME NEW S, NEW T, NEW s \in Seq(S), NEW t \in Seq(T), Len(s) = Len(t), \A n \in 1 .. Len(t) : s[n] = t[n]
  PROVE  s = t
OBVIOUS

IsTargets(a) == \E q, l : IsSeq(q) /\ a = [queue |-> q, last |-> l]

\* A queue without its first k, and the targets after k requests
Rest(q, k) == [m \in 1 .. Len(q) - k |-> q[m + k]]
TargetsLeft(a, k) ==
  [queue |-> Rest(a.queue, k),
   last  |-> IF k < Len(a.queue) \/ Len(a.queue) = 0 THEN a.last ELSE a.queue[Len(a.queue)]]

LEMMA RestOfQueue ==
  ASSUME NEW q, IsSeq(q), NEW k \in Nat
  PROVE  /\ k < Len(q) => /\ IsSeq(Rest(q, k)) /\ Len(Rest(q, k)) = Len(q) - k
                         /\ \A m \in 1 .. Len(q) - k : Rest(q, k)[m] = q[m + k]
         /\ k >= Len(q) => Rest(q, k) = <<>>
<1>1. PICK S : q \in Seq(S)
  BY DEF IsSeq
<1>2. Len(q) \in Nat /\ \A m \in 1 .. Len(q) : q[m] \in S
  BY <1>1
<1>3. CASE k < Len(q)
  <2>1. Len(q) - k \in Nat /\ \A m \in 1 .. Len(q) - k : m + k \in 1 .. Len(q)
    BY <1>2, <1>3
  <2>2. Rest(q, k) \in [1 .. Len(q) - k -> S]
    BY <1>2, <2>1 DEF Rest
  <2>3. Rest(q, k) \in Seq(S) /\ Len(Rest(q, k)) = Len(q) - k
    BY <2>1, <2>2
  <2>4. \A m \in 1 .. Len(q) - k : Rest(q, k)[m] = q[m + k]
    BY DEF Rest
  <2> QED BY <1>3, <2>3, <2>4 DEF IsSeq
<1>4. CASE k >= Len(q)
  <2>1. 1 .. Len(q) - k = {}
    BY <1>2, <1>4
  <2>2. Rest(q, k) = <<>>
    <3>1. Rest(q, k) = [m \in 1 .. 0 |-> q[m + k]]
      BY <2>1, 1 .. 0 = {} DEF Rest
    <3>2. [m \in 1 .. 0 |-> q[m + k]] \in Seq({})
      OBVIOUS
    <3> QED BY <3>1, <3>2
  <2> QED BY <1>2, <1>4, <2>2
<1> QED BY <1>2, <1>3, <1>4

\* The first of a queue is taken.
LEMMA RestShifts ==
  ASSUME NEW q, IsSeq(q), NEW k \in Nat, k < Len(q)
  PROVE  /\ Rest(q, k) # <<>> /\ Head(Rest(q, k)) = q[k + 1]
         /\ Tail(Rest(q, k)) = Rest(q, k + 1)
<1> DEFINE t == Rest(q, k)
           u == Rest(q, k + 1)
           N == Len(q)
<1>1. N \in Nat /\ k + 1 \in Nat /\ k < N
  BY SeqDomain
<1>2. IsSeq(t) /\ Len(t) = N - k /\ \A m \in 1 .. N - k : t[m] = q[m + k]
  BY RestOfQueue
<1>3. k + 1 < N => IsSeq(u) /\ Len(u) = N - (k + 1) /\ \A m \in 1 .. N - (k + 1) : u[m] = q[m + (k + 1)]
  BY <1>1, RestOfQueue
<1>4. k + 1 >= N => u = <<>>
  BY <1>1, RestOfQueue
<1>5. <<>> \in Seq({}) /\ Len(<<>>) = 0
  OBVIOUS
<1> HIDE DEF t, u, N
<1>6. PICK S : t \in Seq(S)
  BY <1>2 DEF IsSeq
<1>7. t # <<>>
  BY <1>1, <1>2, <1>5
<1>8. /\ Tail(t) \in Seq(S) /\ Len(Tail(t)) = Len(t) - 1
      /\ \A m \in 1 .. Len(Tail(t)) : Tail(t)[m] = t[m + 1]
  BY <1>6, <1>7, HeadTailProperties
<1>9. PICK U : u \in Seq(U)
  <2>1. CASE k + 1 < N
    BY <1>3, <2>1 DEF IsSeq
  <2>2. CASE k + 1 >= N
    BY <1>4, <1>5, <2>2
  <2> QED BY <1>1, <2>1, <2>2
<1>10. Len(u) = Len(Tail(t))
  <2>1. CASE k + 1 < N
    BY <1>1, <1>2, <1>3, <1>8, <2>1
  <2>2. CASE k + 1 >= N
    <3>1. N - k = 1
      BY <1>1, <2>2
    <3> QED BY <1>2, <1>4, <1>5, <1>8, <2>2, <3>1
  <2> QED BY <1>1, <2>1, <2>2
<1>11. ASSUME NEW m \in 1 .. Len(u)
       PROVE  Tail(t)[m] = u[m]
  <2>1. k + 1 < N
    BY <1>1, <1>4, <1>5
  <2>2. m \in 1 .. N - (k + 1) /\ m + 1 \in 1 .. N - k /\ (m + 1) + k = m + (k + 1)
    BY <1>1, <1>3, <2>1
  <2> QED BY <1>2, <1>3, <1>8, <1>10, <2>1, <2>2
<1>12. Tail(t) = u
  BY <1>8, <1>9, <1>10, <1>11, SeqsEqual
<1>13. Head(t) = q[k + 1]
  <2>1. Head(t) = t[1]
    BY <1>6, <1>7
  <2>2. 1 \in 1 .. N - k /\ 1 + k = k + 1
    BY <1>1
  <2> QED BY <1>2, <2>1, <2>2
<1> QED BY <1>7, <1>12, <1>13 DEF t, u

LEMMA TargetsShift ==
  ASSUME NEW a, IsTargets(a), NEW k \in Nat
  PROVE  Shift(TargetsLeft(a, k)) = TargetsLeft(a, k + 1) /\ TargetsLeft(a, 0) = a
<1>1. PICK q, l : IsSeq(q) /\ a = [queue |-> q, last |-> l]
  BY DEF IsTargets
<1> DEFINE b == TargetsLeft(a, k)
           N == Len(q)
<1>2. a.queue = q /\ a.last = l /\ N \in Nat
  BY <1>1, SeqDomain
<1>3. /\ b.queue = Rest(q, k) /\ b.last = IF k < N \/ N = 0 THEN l ELSE q[N]
  BY <1>2 DEF TargetsLeft
<1>4. Shift(b) = [queue |-> IF b.queue = <<>> THEN <<>> ELSE Tail(b.queue),
                  last  |-> IF Len(b.queue) = 1 THEN Head(b.queue) ELSE b.last]
  BY DEF Shift
<1>5. TargetsLeft(a, k + 1) = [queue |-> Rest(q, k + 1), last |-> IF k + 1 < N \/ N = 0 THEN l ELSE q[N]]
  BY <1>2 DEF TargetsLeft
<1>6. /\ k < N => /\ Len(Rest(q, k)) = N - k /\ Rest(q, k) # <<>>
                   /\ Head(Rest(q, k)) = q[k + 1] /\ Tail(Rest(q, k)) = Rest(q, k + 1)
      /\ k >= N => Rest(q, k) = <<>>
  BY <1>1, <1>2, RestOfQueue, RestShifts
<1>7. k >= N => Rest(q, k + 1) = <<>>
  <2>1. k + 1 \in Nat /\ (k >= N => k + 1 >= N)
    BY <1>2
  <2> QED BY <1>1, <1>2, <2>1, RestOfQueue
<1>10. Len(<<>>) = 0
  OBVIOUS
<1> HIDE DEF b, N
<1>8. Shift(b) = TargetsLeft(a, k + 1)
  <2>1. CASE k + 1 < N
    <3>1. k < N /\ N - k # 1
      BY <1>2, <2>1
    <3> QED BY <1>3, <1>4, <1>5, <1>6, <2>1, <3>1
  <2>2. CASE k + 1 = N
    <3>1. k < N /\ N - k = 1 /\ ~(k + 1 < N) /\ N # 0
      BY <1>2, <2>2
    <3>2. b.queue # <<>> /\ Len(b.queue) = 1 /\ Head(b.queue) = q[N] /\ Tail(b.queue) = Rest(q, k + 1)
      BY <1>3, <1>6, <2>2, <3>1
    <3> QED BY <1>4, <1>5, <3>1, <3>2
  <2>3. CASE k >= N
    <3>1. ~(k + 1 < N) /\ ~(k < N)
      BY <1>2, <2>3
    <3>2. b.queue = <<>> /\ Len(b.queue) = 0 /\ Rest(q, k + 1) = <<>>
      BY <1>3, <1>6, <1>7, <1>10, <2>3
    <3> QED BY <1>3, <1>4, <1>5, <3>1, <3>2
  <2> QED BY <1>2, <2>1, <2>2, <2>3
<1>9. TargetsLeft(a, 0) = a
  <2>1. 0 < N \/ N = 0
    BY <1>2
  <2>2. Rest(q, 0) = q
    <3>1. PICK S : q \in Seq(S)
      BY <1>1 DEF IsSeq
    <3>2. q = [m \in 1 .. N |-> q[m]] /\ N - 0 = N /\ \A m \in 1 .. N : m + 0 = m
      BY <1>2, <3>1 DEF N
    <3> QED BY <3>2 DEF Rest, N
  <2> QED BY <1>1, <1>2, <2>1, <2>2 DEF TargetsLeft, N
<1> QED BY <1>8, <1>9 DEF b

\* However many requests there are: each takes the next target, and when there are
\* none left, the last one again.
LEMMA TargetsTaken ==
  ASSUME NEW a, IsTargets(a), NEW n \in Nat
  PROVE  After(a, n) = TargetsLeft(a, n)
<1> DEFINE Unfolded(f) == [k \in 0 .. n |-> IF k = 0 THEN a ELSE Shift(f[k - 1])]
           h == [k \in 0 .. n |-> TargetsLeft(a, k)]
           g == CHOOSE f : f = Unfolded(f)
<1>1. \A k \in 1 .. n : k - 1 \in Nat /\ k - 1 \in 0 .. n /\ (k - 1) + 1 = k
  OBVIOUS
<1>2. \A k \in 0 .. n : h[k] = IF k = 0 THEN a ELSE Shift(h[k - 1])
  <2> TAKE k \in 0 .. n
  <2>1. CASE k = 0
    BY <2>1, TargetsShift
  <2>2. CASE k \in 1 .. n
    <3>1. h[k - 1] = TargetsLeft(a, k - 1) /\ h[k] = TargetsLeft(a, k)
      BY <1>1, <2>2
    <3>2. Shift(TargetsLeft(a, k - 1)) = TargetsLeft(a, k)
      BY <1>1, <2>2, TargetsShift
    <3> QED BY <2>2, <3>1, <3>2
  <2> QED BY <2>1, <2>2
<1>3. h = Unfolded(h)
  <2>1. DOMAIN h = 0 .. n
    OBVIOUS
  <2> HIDE DEF h
  <2> QED BY <1>2, <2>1, h = [k \in 0 .. n |-> h[k]] DEF h
<1>4. g = Unfolded(g)
  <2> HIDE DEF h, Unfolded
  <2> QED BY <1>3
<1>5. After(a, n) = g[n]
  BY DEF After
<1> HIDE DEF g, h
<1>6. g[0] = a /\ \A k \in 1 .. n : g[k] = Shift(g[k - 1])
  <2>1. \A k \in 0 .. n : g[k] = IF k = 0 THEN a ELSE Shift(g[k - 1])
    BY <1>4
  <2> QED BY <2>1
<1> DEFINE T == {k \in Nat : k <= n => g[k] = TargetsLeft(a, k)}
<1>7. 0 \in T
  BY <1>6, TargetsShift
<1>8. ASSUME NEW k \in Nat, k \in T PROVE k + 1 \in T
  <2>1. CASE k + 1 <= n
    <3>1. g[k] = TargetsLeft(a, k) /\ k + 1 \in 1 .. n /\ (k + 1) - 1 = k
      BY <1>8, <2>1
    <3>2. g[k + 1] = Shift(TargetsLeft(a, k))
      BY <1>6, <3>1
    <3> QED BY <3>2, TargetsShift
  <2> QED BY <2>1
<1>9. n \in T
  <2> HIDE DEF T
  <2> QED BY <1>7, <1>8, NatCovered
<1> QED BY <1>5, <1>9

\* The next target, of a queue that k requests have been through
LEMMA NextTarget ==
  ASSUME NEW q, IsSeq(q), NEW l, NEW k \in Nat
  PROVE  LET a == [queue |-> q, last |-> l]
         IN  /\ k < Len(q) => Header(After(a, k)) = q[k + 1]
             /\ k >= Len(q) /\ Len(q) # 0 => Header(After(a, k)) = q[Len(q)] /\ After(a, k) = [queue |-> <<>>, last |-> q[Len(q)]]
             /\ Len(q) = 0 => Header(After(a, k)) = l /\ After(a, k) = [queue |-> <<>>, last |-> l]
<1> DEFINE a == [queue |-> q, last |-> l]
           N == Len(q)
<1>1. N \in Nat /\ a.queue = q /\ a.last = l
  BY SeqDomain
<1>2. After(a, k) = [queue |-> Rest(q, k), last |-> IF k < N \/ N = 0 THEN l ELSE q[N]]
  <2>1. IsTargets(a)
    BY DEF IsTargets
  <2> HIDE DEF a
  <2>2. After(a, k) = TargetsLeft(a, k)
    BY <2>1, TargetsTaken
  <2> QED BY <1>1, <2>2 DEF TargetsLeft, N
<1> HIDE DEF a, N
<1> DEFINE b == After(a, k)
<1>3. b.queue = Rest(q, k) /\ b.last = IF k < N \/ N = 0 THEN l ELSE q[N]
  BY <1>2
<1>4. Header(b) = IF b.queue = <<>> THEN b.last ELSE Head(b.queue)
  BY DEF Header
<1> HIDE DEF b
<1>5. CASE k < N
  <2>1. b.queue # <<>> /\ Head(b.queue) = q[k + 1]
    BY <1>3, <1>5, RestShifts DEF N
  <2> QED BY <1>1, <1>4, <1>5, <2>1 DEF a, b, N
<1>6. CASE k >= N
  <2>1. Rest(q, k) = <<>> /\ ~(k < N)
    BY <1>1, <1>6, RestOfQueue DEF N
  <2> QED BY <1>1, <1>2, <1>3, <1>4, <1>6, <2>1 DEF a, b, N
<1> QED BY <1>1, <1>5, <1>6

\* r is the request q of the program, for the object i.
Echoes(r, q, i) == r.do = q.do /\ r.on = q.on /\ r.failure = q.failure /\ r.item = i

\* Every object has every request of the step sent, and nothing else is.
LEMMA SentForEach ==
  ASSUME NEW a, NEW items, NEW step
  PROVE  LET sent == Decorated(a, items, step).sent
         IN  /\ \A r \in sent : \E k \in DOMAIN items : \E q \in step : Echoes(r, q, items[k])
             /\ \A k \in DOMAIN items : \A q \in step : \E r \in sent : Echoes(r, q, items[k])
<1> DEFINE calls == SetToSeq(Agents(step))
           Before(k, q) == (k - 1) * Len(calls) + (CHOOSE n \in DOMAIN calls : calls[n] = q) - 1
           Node(k, q) == IF q \in Agents(step) THEN Header(After(a, Before(k, q))) ELSE None
           As(k, q) == [do |-> q.do, on |-> q.on, failure |-> q.failure, item |-> items[k], node |-> Node(k, q)]
           sent == {As(k, q) : k \in DOMAIN items, q \in step}
<1>1. Decorated(a, items, step).sent = sent
  BY DEF Decorated
<1>2. \A k, q : Echoes(As(k, q), q, items[k])
  <2> HIDE DEF Node
  <2> QED BY DEF Echoes
<1> HIDE DEF As
<1> QED BY <1>1, <1>2

\* Where there is no target left, the latest one is the target of all.
LEMMA NoTargetTaken ==
  ASSUME NEW l, NEW items, IsSeq(items), NEW step, IsFiniteSet(step)
  PROVE  LET a == [queue |-> <<>>, last |-> l]
         IN  /\ Decorated(a, items, step).a = a
             /\ \A r \in Decorated(a, items, step).sent : r.on \in AgentKinds => r.node = l
<1> DEFINE a == [queue |-> <<>>, last |-> l]
           agents == Agents(step)
           calls == SetToSeq(agents)
           Before(k, q) == (k - 1) * Len(calls) + (CHOOSE n \in DOMAIN calls : calls[n] = q) - 1
           Node(k, q) == IF q \in Agents(step) THEN Header(After(a, Before(k, q))) ELSE None
           sent == {[do |-> q.do, on |-> q.on, failure |-> q.failure, item |-> items[k], node |-> Node(k, q)] :
                     k \in DOMAIN items, q \in step}
<1>1. /\ Decorated(a, items, step).sent = sent
      /\ Decorated(a, items, step).a = After(a, Len(items) * Len(calls))
  BY DEF Decorated
<1>2. Len(items) \in Nat /\ DOMAIN items = 1 .. Len(items)
  BY SeqDomain
<1>3. IsFiniteSet(agents)
  <2>1. agents \in SUBSET step
    BY DEF Agents
  <2> HIDE DEF agents
  <2> QED BY <2>1, FS_Subset
<1>4. /\ Len(calls) \in Nat /\ DOMAIN calls = 1 .. Len(calls)
      /\ \A q \in agents : \E n \in DOMAIN calls : calls[n] = q
  <2> HIDE DEF agents
  <2> QED BY <1>3, InSomeOrder, SeqDomain
<1> HIDE DEF calls
<1>5. \A k \in Nat : Header(After(a, k)) = l /\ After(a, k) = a
  <2>1. IsSeq(<<>>) /\ Len(<<>>) = 0
    <3>1. <<>> \in Seq({}) /\ Len(<<>>) = 0
      OBVIOUS
    <3> QED BY <3>1 DEF IsSeq
  <2> QED BY <2>1, NextTarget
<1>6. ASSUME NEW k \in DOMAIN items, NEW q \in agents
      PROVE  Before(k, q) \in Nat
  <2>1. PICK n \in 1 .. Len(calls) : n = CHOOSE m \in DOMAIN calls : calls[m] = q
    BY <1>4
  <2>2. (k - 1) * Len(calls) \in Nat
    <3>1. k - 1 \in Nat
      BY <1>2
    <3> QED BY <1>4, <3>1
  <2>3. Before(k, q) = (k - 1) * Len(calls) + n - 1
    BY <2>1
  <2> HIDE DEF Before
  <2> DEFINE before == (k - 1) * Len(calls)
  <2>4. before \in Nat /\ Before(k, q) = before + n - 1
    BY <2>2, <2>3
  <2> HIDE DEF before
  <2> QED BY <1>4, <2>4
<1>7. \A k \in DOMAIN items : \A q \in step : q.on \in AgentKinds => Node(k, q) = l
  <2> HIDE DEF Before
  <2> QED BY <1>5, <1>6 DEF Agents
<1>8. Len(items) * Len(calls) \in Nat
  BY <1>2, <1>4
<1>9. \A r \in sent : r.on \in AgentKinds => r.node = l
  <2> HIDE DEF Node
  <2> QED BY <1>7
<1> HIDE DEF sent, a
<1> QED BY <1>1, <1>5, <1>8, <1>9 DEF a

\* The queue q is taken, the requests for each object have its target, or the last one
\* where there are not as many.
OneEach(d, q, items) ==
  /\ d.a = [queue |-> <<>>, last |-> q[Len(q)]]
  /\ \A r \in d.sent : r.on \in AgentKinds =>
       \E k \in DOMAIN items : r.item = items[k] /\ r.node = q[IF k <= Len(q) THEN k ELSE Len(q)]

\* Where each object has one request, each of them takes one target.
LEMMA OneTargetEach ==
  ASSUME NEW q, IsSeq(q), NEW l, NEW items, IsSeq(items), NEW step, NEW c, Agents(step) = {c},
         Len(q) >= 1, Len(q) <= Len(items)
  PROVE  OneEach(Decorated([queue |-> q, last |-> l], items, step), q, items)
<1> DEFINE a == [queue |-> q, last |-> l]
           agents == Agents(step)
           calls == SetToSeq(agents)
           Before(k, r) == (k - 1) * Len(calls) + (CHOOSE n \in DOMAIN calls : calls[n] = r) - 1
           Node(k, r) == IF r \in Agents(step) THEN Header(After(a, Before(k, r))) ELSE None
           sent == {[do |-> r.do, on |-> r.on, failure |-> r.failure, item |-> items[k], node |-> Node(k, r)] :
                     k \in DOMAIN items, r \in step}
<1>1. /\ Decorated(a, items, step).sent = sent
      /\ Decorated(a, items, step).a = After(a, Len(items) * Len(calls))
  BY DEF Decorated
<1>2. /\ Len(items) \in Nat /\ DOMAIN items = 1 .. Len(items) /\ Len(q) \in Nat
  BY SeqDomain
<1>3. IsFiniteSet(agents) /\ Cardinality(agents) = 1
  BY FS_Singleton
<1>4. /\ Len(calls) = 1 /\ DOMAIN calls = 1 .. 1 /\ calls[1] = c
  <2>1. IsSeq(calls) /\ Len(calls) = 1 /\ DOMAIN calls = 1 .. Len(calls) /\ \E n \in 1 .. Len(calls) : calls[n] = c
    <3>1. c \in agents
      OBVIOUS
    <3> HIDE DEF agents
    <3> QED BY <1>3, <3>1, InSomeOrder
  <2> QED BY <2>1
<1> HIDE DEF calls
<1>5. \A k \in Nat : /\ k < Len(q) => Header(After(a, k)) = q[k + 1]
                     /\ k >= Len(q) => Header(After(a, k)) = q[Len(q)]
                                       /\ After(a, k) = [queue |-> <<>>, last |-> q[Len(q)]]
  <2>1. Len(q) # 0
    BY <1>2
  <2> QED BY <2>1, NextTarget
<1>6. \A k \in DOMAIN items : Before(k, c) = k - 1
  <2>1. (CHOOSE n \in DOMAIN calls : calls[n] = c) = 1
    BY <1>4
  <2> QED BY <1>2, <1>4, <2>1
<1>7. ASSUME NEW k \in DOMAIN items, NEW r \in step, r.on \in AgentKinds
      PROVE  Node(k, r) = q[IF k <= Len(q) THEN k ELSE Len(q)]
  <2>1. r = c /\ k - 1 \in Nat /\ (k - 1) + 1 = k
    BY <1>2, <1>7 DEF Agents
  <2>2. Node(k, r) = Header(After(a, k - 1))
    <3> HIDE DEF Before
    <3> QED BY <1>6, <1>7, <2>1 DEF Agents
  <2>3. CASE k <= Len(q)
    <3>1. k - 1 < Len(q)
      BY <1>2, <2>3
    <3> QED BY <1>5, <2>1, <2>2, <2>3, <3>1
  <2>4. CASE ~(k <= Len(q))
    <3>1. k - 1 >= Len(q)
      BY <1>2, <2>4
    <3> QED BY <1>5, <2>1, <2>2, <2>4, <3>1
  <2> QED BY <2>3, <2>4
<1>8. Len(items) * Len(calls) = Len(items)
  <2>1. \A n \in Nat : n * 1 = n
    OBVIOUS
  <2> QED BY <1>2, <1>4, <2>1
<1>9. \A r \in sent : r.on \in AgentKinds =>
        \E k \in DOMAIN items : r.item = items[k] /\ r.node = q[IF k <= Len(q) THEN k ELSE Len(q)]
  <2> HIDE DEF Node
  <2> QED BY <1>7
<1> HIDE DEF sent, a
<1>10. After(a, Len(items)) = [queue |-> <<>>, last |-> q[Len(q)]]
  BY <1>2, <1>5
<1> QED BY <1>1, <1>8, <1>9, <1>10 DEF a, OneEach

-----------------------------------------------------------------------------
(* The inductive invariant.                                                *)

Known == Views \cup {Elsewhere}

IsScope(s) ==
  /\ DOMAIN s = {"view", "stage", "rows", "unread", "flags", "dirty", "timer", "late", "blank"}
  /\ s.view \in Known
  /\ s.stage \in 0 .. Len(s.view.load) /\ s.rows \subseteq Items
  /\ s.dirty \in BOOLEAN /\ (s.dirty => s.view.edits)
  /\ NoFlag \notin s.flags
  /\ s.blank => s.stage > 0 \/ s.view.waits = "success"

\* A view that was left has an interval only if an answer came too late.
IsPast(s) == s.timer => s.late /\ s.stage = 0

VisitsInv ==
  /\ IsSeq(visits) /\ Now >= 1
  /\ \A v \in 1 .. Now : IsScope(visits[v]) /\ (v < Now => IsPast(visits[v]))

\* An operation is one of its view's; what becomes of each of its objects is known.
IsJob(b) ==
  /\ DOMAIN b = {"op", "visit", "over", "deaf", "asked", "at", "out", "res"}
  /\ DOMAIN b.out = DOMAIN b.res
  /\ \A i \in DOMAIN b.res : b.res[i] \in {"runs", "done", "failed"}
  /\ b.over \in BOOLEAN

JobInv(j) ==
  /\ IsJob(jobs[j])
  /\ jobs[j].visit \in 1 .. Now
  /\ jobs[j].op \in DOMAIN ViewOf(j).ops

JobsInv == IsSeq(jobs) /\ \A j \in 1 .. Len(jobs) : JobInv(j)

DialogInv == dialog = {} \/ \E name \in DOMAIN Here.view.ops : \E items : dialog = {[op |-> name, items |-> items]}

AskedInv == \A j \in 1 .. Len(jobs) :
  jobs[j].asked /\ OpOf(j).submits => ViewOf(j).state = "kubernetes.configurations.configuration"

FlagInv == \A f \in Here.flags : \E j \in 1 .. Len(jobs) :
  ~jobs[j].over /\ jobs[j].visit = Now /\ OpOf(j).flag = f

\* Who still has the endpoint another one's identifier was lent for
Borrows(j) ==
  \/ OpOf(j).lends # "never" /\ ~jobs[j].over
  \/ jobs[j].op = "duplicateStack" /\ \E i \in DOMAIN jobs[j].res : jobs[j].res[i] = "failed"

EndpointInv == endpoint = "lent" => \E j \in 1 .. Len(jobs) : Borrows(j)

IInv == /\ VisitsInv /\ JobsInv /\ DialogInv /\ faults \in 0 .. MaxFaults
        /\ AskedInv /\ FlagInv /\ EndpointInv

-----------------------------------------------------------------------------
(* The scopes.                                                             *)

\* A view that is not known is one that reads and offers nothing.
LEMMA KnownViews ==
  ASSUME NEW view \in Known
  PROVE  /\ Len(view.load) \in Nat /\ (view.load = <<>> <=> Len(view.load) = 0)
         /\ Reread \notin view.lost \cup {view.next}
         /\ \A name \in DOMAIN view.ops : Respects(view, name)
<1>1. CASE view \in Views
  <2>1. IsView(view)
    BY <1>1, ViewsAssumption
  <2> DEFINE load == view.load
  <2>2. load \in Seq(SUBSET Requests)
    BY <2>1 DEF IsView
  <2> HIDE DEF load
  <2>3. Len(load) \in Nat /\ (load = <<>> <=> Len(load) = 0)
    BY <2>2
  <2> QED BY <2>1, <2>3 DEF IsView, load
<1>2. CASE view = Elsewhere
  <2>1. /\ view.load = <<>> /\ view.lost = {Stay} /\ view.next = Stay /\ view.ops = NoOperations
    BY <1>2 DEF Elsewhere, View
  <2>2. DOMAIN NoOperations = {}
    BY DEF NoOperations
  <2> QED BY <2>1, <2>2 DEF Stay, Reread
<1> QED BY <1>1, <1>2 DEF Known

LEMMA RoutesKnown ==
  ASSUME NEW s \in Routes
  PROVE  ViewAt[s] \in Known
<1>1. CASE \E v \in Views : v.state = s
  BY <1>1 DEF ViewAt, Known
<1>2. CASE ~\E v \in Views : v.state = s
  BY <1>2 DEF ViewAt, Known
<1> QED BY <1>1, <1>2

LEMMA ScopesAreNew ==
  ASSUME NEW view \in Known
  PROVE  /\ IsScope(Scope(view)) /\ Scope(view).view = view
         /\ Scope(view).flags = {} /\ ~Scope(view).timer /\ Scope(view).rows = {} /\ Scope(view).dirty = FALSE
<1> DEFINE stage == FirstStage(view)
<1>1. /\ stage \in 0 .. Len(view.load)
      /\ view.load # <<>> => stage > 0
  BY KnownViews DEF FirstStage
<1> HIDE DEF stage
<1> QED BY <1>1 DEF Scope, IsScope, stage

LEMMA ScopesAreLeft ==
  ASSUME NEW s, IsScope(s)
  PROVE  /\ IsScope(Left(s)) /\ Left(s).view = s.view /\ IsPast(Left(s))
<1> DEFINE t == Left(s)
           stage == IF s.view.polls # "no" \/ s.view.lost # {Stay} \/ s.view.next # Stay THEN s.stage ELSE 0
<1>1. stage \in 0 .. Len(s.view.load)
  BY KnownViews DEF IsScope
<1> HIDE DEF stage
<1>2. /\ DOMAIN t = DOMAIN s /\ t.view = s.view /\ t.stage = stage /\ t.rows = {}
      /\ t.flags = {} /\ t.dirty = FALSE /\ t.timer = FALSE /\ t.blank = FALSE
  BY DEF IsScope, Left, stage
<1> QED BY <1>1, <1>2 DEF IsScope, IsPast

\* A scope with other rows, flags and marks, at another stage of its reading
Like(s, t) ==
  /\ DOMAIN t = DOMAIN s /\ t.view = s.view

LEMMA ScopesAreRead ==
  ASSUME NEW s, IsScope(s), NEW t, Like(s, t),
         t.stage \in 0 .. Len(s.view.load), t.rows \subseteq Items, t.flags \subseteq s.flags,
         t.dirty \in BOOLEAN, t.dirty => s.dirty,
         t.blank => t.stage > 0 \/ s.view.waits = "success"
  PROVE  IsScope(t)
BY DEF IsScope, Like

\* The nodes of some objects, as they are pushed for them
NodesOf(items) == [k \in DOMAIN items |-> NodeOf[items[k]]]

LEMMA TargetsPushed ==
  ASSUME NEW l, NEW items, IsSeq(items)
  PROVE  /\ setPortainerAgentTargetHeader([queue |-> <<>>, last |-> l], items) = [queue |-> NodesOf(items), last |-> l]
         /\ IsSeq(NodesOf(items)) /\ Len(NodesOf(items)) = Len(items)
         /\ \A k \in 1 .. Len(items) : NodesOf(items)[k] = NodeOf[items[k]]
<1> DEFINE nodes == NodesOf(items)
           S == {NodeOf[items[k]] : k \in 1 .. Len(items)}
<1>1. Len(items) \in Nat /\ DOMAIN items = 1 .. Len(items)
  BY SeqDomain
<1>2. nodes \in [1 .. Len(items) -> S] /\ \A k \in 1 .. Len(items) : nodes[k] = NodeOf[items[k]]
  BY <1>1 DEF NodesOf
<1>3. setPortainerAgentTargetHeader([queue |-> <<>>, last |-> l], items) = [queue |-> <<>> \o nodes, last |-> l]
  BY DEF setPortainerAgentTargetHeader, NodesOf
<1> HIDE DEF nodes, S
<1>4. nodes \in Seq(S) /\ Len(nodes) = Len(items)
  BY <1>1, <1>2
<1>5. <<>> \o nodes = nodes
  BY <1>4
<1> QED BY <1>2, <1>3, <1>4, <1>5 DEF nodes, IsSeq

\* The targets when a view has opened: those it has pushed are taken by its first reads.
LEMMA TargetsOpened ==
  ASSUME NEW view \in Known
  PROVE  Opening(view) = [queue |-> <<>>, last |-> IF view.aims THEN NodeOf[This] ELSE None]
<1>0. resetAgentHeaders = [queue |-> <<>>, last |-> None]
  BY DEF resetAgentHeaders
<1>1. CASE view.aims = TRUE
  <2>1. view \in Views
    BY <1>1 DEF Known, Elsewhere, View
  <2>2. view.load \in Seq(SUBSET Requests) /\ view.load # <<>> /\ Agents(view.load[1]) # {}
        /\ \A s \in DOMAIN view.load : IsFiniteSet(view.load[s])
    BY <1>1, <2>1, ViewsAssumption DEF IsView
  <2> DEFINE load == view.load
             step == load[1]
             a == setPortainerAgentTargetHeader(resetAgentHeaders, <<This>>)
             q == NodesOf(<<This>>)
             calls == SetToSeq(Agents(step))
  <2>3. Opening(view) = Decorated(a, <<This>>, step).a
    BY <1>1, <2>2 DEF Opening
  <2>4. a = [queue |-> q, last |-> None] /\ IsSeq(q) /\ Len(q) = 1 /\ q[1] = NodeOf[This]
    <3>1. IsSeq(<<This>>) /\ Len(<<This>>) = 1 /\ <<This>>[1] = This
      BY SeqOfOne
    <3>2. /\ a = [queue |-> q, last |-> None] /\ IsSeq(q) /\ Len(q) = Len(<<This>>)
          /\ \A k \in 1 .. Len(<<This>>) : q[k] = NodeOf[<<This>>[k]]
      BY <1>0, <3>1, TargetsPushed
    <3> HIDE DEF q, a
    <3> QED BY <3>1, <3>2
  <2>5. IsFiniteSet(Agents(step)) /\ Agents(step) # {}
    <3>1. Agents(step) \in SUBSET step
      BY DEF Agents
    <3>2. 1 \in DOMAIN load
      <4> HIDE DEF load
      <4> QED BY <2>2 DEF load
    <3>3. IsFiniteSet(step)
      BY <2>2, <3>2
    <3> HIDE DEF step
    <3> QED BY <2>2, <3>1, <3>3, FS_Subset DEF step
  <2> DEFINE n == Len(calls)
  <2>6. n \in Nat /\ n >= 1
    <3> DEFINE agents == Agents(step)
    <3> HIDE DEF step, agents
    <3>1. IsFiniteSet(agents) /\ agents # {}
      BY <2>5 DEF agents
    <3>2. Len(SetToSeq(agents)) = Cardinality(agents)
      BY <3>1, InSomeOrder
    <3>3. Cardinality(agents) \in Nat /\ Cardinality(agents) # 0
      BY <3>1, FS_CardinalityType, FS_EmptySet
    <3> QED BY <3>2, <3>3 DEF agents
  <2>7. Decorated(a, <<This>>, step).a = After(a, n)
    <3>1. Decorated(a, <<This>>, step).a = After(a, Len(<<This>>) * n)
      BY DEF Decorated
    <3>2. \A m \in Nat : 1 * m = m
      OBVIOUS
    <3> HIDE DEF n, a, step
    <3> QED BY <2>6, <3>1, <3>2, SeqOfOne
  <2> HIDE DEF a, q, n, step, load
  <2>8. After(a, n) = [queue |-> <<>>, last |-> q[1]]
    <3>1. n >= Len(q) /\ Len(q) # 0
      BY <2>4, <2>6
    <3>2. After([queue |-> q, last |-> None], n) = [queue |-> <<>>, last |-> q[Len(q)]]
      BY <2>4, <2>6, <3>1, NextTarget
    <3> QED BY <2>4, <3>2
  <2> QED BY <1>1, <2>3, <2>4, <2>7, <2>8
<1>2. CASE ~view.aims
  BY <1>0, <1>2 DEF Opening
<1> QED BY <1>1, <1>2

-----------------------------------------------------------------------------
(* The transitions of $state.                                              *)

\* The visits go on: none is forgotten, none is of another view, and only the last
\* one's scope may be what it was not.
Stays(vs) == visits' = vs
Rereads(vs) == visits' = [vs EXCEPT ![Len(vs)] = [[@ EXCEPT !.stage = 1] EXCEPT !.unread = FALSE]]
Enters(vs) ==
  \E view \in Known : /\ visits' = Append([vs EXCEPT ![Len(vs)] = Left(@)], Scope(view))
                      /\ aimed' = Opening(view)

LEMMA GoingOnLeads ==
  ASSUME NEW vs, IsSeq(vs), Len(vs) >= 1, IsScope(vs[Len(vs)]),
         NEW to, NEW a, GoingOn(vs, to, a)
  PROVE  /\ \/ Stays(vs) /\ UNCHANGED dialog /\ aimed' = a
            \/ to = Reread /\ Rereads(vs) /\ UNCHANGED dialog /\ aimed' = a
            \/ Enters(vs) /\ dialog' = {}
         /\ to \in Routes \cup {Reload} => Enters(vs) /\ dialog' = {}
<1>1. /\ Reload \notin Routes /\ Reread \notin Routes /\ Reload # Reread
  BY ViewsAssumption DEF Reload, Reread
<1>2. CASE to = Reload
  BY <1>1, <1>2 DEF GoingOn, Entering, Enters, IsScope
<1>3. CASE to = Reread
  BY <1>1, <1>3 DEF GoingOn, Rereads
<1>4. CASE to \in Routes
  BY <1>1, <1>4, RoutesKnown DEF GoingOn, Entering, Enters
<1>5. CASE to \notin Routes \cup {Reload, Reread}
  BY <1>5 DEF GoingOn, Stays
<1> QED BY <1>1, <1>2, <1>3, <1>4, <1>5

\* Visits that went on from vs, where vs are the visits with one scope changed
ViewsKept == Now' \in Nat /\ Now' >= Now /\ \A v \in 1 .. Now : visits'[v].view = visits[v].view

Onward(flags) ==
  /\ VisitsInv' /\ ViewsKept
  /\ \/ /\ Now' = Now /\ Here'.flags = flags /\ Here'.view = Here.view /\ UNCHANGED dialog
     \/ Now' = Now + 1 /\ Here'.flags = {} /\ dialog' = {}

\* The targets are a and the open view has some of the rows, or they are those of the
\* view that has opened, with none.
Arrived(a, rows, dirty) ==
  \/ Now' = Now /\ aimed' = a /\ Here'.rows \subseteq rows /\ Here'.dirty = dirty
  \/ Now' = Now + 1 /\ aimed' = Opening(Here'.view) /\ Here'.rows = {} /\ Here'.dirty = FALSE

\* From vs into a state, as $state.go, $state.reload and the menu lead
LEMMA VisitsEnter ==
  ASSUME VisitsInv, NEW vs, IsSeq(vs), Len(vs) = Now,
         \A v \in 1 .. Now : IsScope(vs[v]) /\ vs[v].view = visits[v].view /\ (v < Now => IsPast(vs[v])),
         Enters(vs), dialog' = {}
  PROVE  /\ VisitsInv' /\ ViewsKept /\ Now' = Now + 1 /\ Here'.flags = {}
         /\ aimed' = Opening(Here'.view) /\ Here'.rows = {} /\ Here'.dirty = FALSE
<1>0. Now \in Nat /\ Now >= 1
  BY SeqDomain DEF VisitsInv, Now
<1>1. PICK view \in Known : /\ visits' = Append([vs EXCEPT ![Now] = Left(vs[Now])], Scope(view))
                            /\ aimed' = Opening(view)
  BY DEF Enters
<1> DEFINE ws == [vs EXCEPT ![Now] = Left(vs[Now])]
<1>2. IsScope(vs[Now]) /\ Now \in 1 .. Now
  BY <1>0
<1>3. /\ IsSeq(ws) /\ Len(ws) = Now /\ ws[Now] = Left(vs[Now])
      /\ \A v \in 1 .. Now : v # Now => ws[v] = vs[v]
  <2>1. Replaced(ws, vs, Now, Left(vs[Now]))
    BY DEF Replaced
  <2> HIDE DEF ws
  <2>2. Now \in 1 .. Len(vs)
    BY <1>0
  <2> QED BY <2>1, <2>2, SeqExcept
<1> HIDE DEF ws
<1>4. /\ IsSeq(visits') /\ Now' = Now + 1 /\ visits'[Now + 1] = Scope(view)
      /\ \A v \in 1 .. Now : visits'[v] = ws[v]
  BY <1>1, <1>3, SeqAppend DEF Now, ws
<1>5. /\ IsScope(Left(vs[Now])) /\ Left(vs[Now]).view = vs[Now].view /\ IsPast(Left(vs[Now]))
  BY <1>2, ScopesAreLeft
<1>6. \A v \in 1 .. Now : IsScope(visits'[v]) /\ visits'[v].view = visits[v].view /\ IsPast(visits'[v])
  <2> TAKE v \in 1 .. Now
  <2>1. CASE v = Now
    BY <1>3, <1>4, <1>5, <2>1
  <2>2. CASE v # Now
    BY <1>0, <1>3, <1>4, <2>2
  <2> QED BY <2>1, <2>2
<1>7. VisitsInv'
  <2>1. IsScope(Scope(view))
    BY ScopesAreNew
  <2> QED BY <1>0, <1>4, <1>6, <2>1 DEF VisitsInv
<1>8. Here'.flags = {} /\ Here'.view = view /\ Here'.rows = {} /\ Here'.dirty = FALSE
  BY <1>4, ScopesAreNew DEF Here
<1> QED BY <1>0, <1>1, <1>4, <1>6, <1>7, <1>8 DEF Onward, ViewsKept

LEMMA VisitsGoOn ==
  ASSUME VisitsInv, NEW vs, IsSeq(vs), Len(vs) = Now,
         \A v \in 1 .. Now : IsScope(vs[v]) /\ vs[v].view = visits[v].view /\ (v < Now => IsPast(vs[v])),
         NEW to, NEW a, GoingOn(vs, to, a),
         to = Reread => vs[Now].view.load # <<>>
  PROVE  Onward(vs[Now].flags) /\ Arrived(a, vs[Now].rows, vs[Now].dirty) /\ (to \in Routes \cup {Reload} => Now' = Now + 1)
<1>1. Now \in Nat /\ Now >= 1
  BY SeqDomain DEF VisitsInv, Now
<1>6. ASSUME NEW e, NEW t, Replaced(t, vs, Now, e)
      PROVE  /\ IsSeq(t) /\ Len(t) = Now /\ t[Now] = e
             /\ \A v \in 1 .. Now : v # Now => t[v] = vs[v]
  <2>1. Now \in 1 .. Len(vs)
    BY <1>1
  <2> QED BY <1>6, <2>1, SeqExcept
<1>2. CASE Stays(vs) /\ UNCHANGED dialog /\ aimed' = a /\ to \notin Routes \cup {Reload}
  <2>1. /\ Now' = Now /\ Here' = vs[Now] /\ IsSeq(visits')
        /\ \A v \in 1 .. Now : visits'[v] = vs[v]
    BY <1>1, <1>2 DEF Stays, Now, Here
  <2>2. VisitsInv'
    BY <1>1, <2>1 DEF VisitsInv
  <2> QED BY <1>1, <1>2, <2>1, <2>2 DEF Here, Onward, ViewsKept, Arrived
<1>3. CASE to = Reread /\ Rereads(vs) /\ UNCHANGED dialog /\ aimed' = a /\ to \notin Routes \cup {Reload}
  <2> DEFINE t == [[vs[Now] EXCEPT !.stage = 1] EXCEPT !.unread = FALSE]
  <2>1. IsScope(vs[Now]) /\ Now \in 1 .. Now
    BY <1>1
  <2>2. /\ Like(vs[Now], t) /\ t.stage = 1 /\ t.flags = vs[Now].flags /\ t.dirty = vs[Now].dirty
        /\ t.rows = vs[Now].rows
    BY <2>1 DEF IsScope, Like
  <2>3. 1 \in 0 .. Len(vs[Now].view.load)
    BY <1>3, <2>1, KnownViews DEF IsScope
  <2> HIDE DEF t
  <2>4. IsScope(t)
    <3>1. vs[Now].dirty \in BOOLEAN /\ vs[Now].rows \subseteq Items
      BY <2>1 DEF IsScope
    <3>2. t.stage > 0
      BY <2>2
    <3> QED BY <2>1, <2>2, <2>3, <3>1, <3>2, ScopesAreRead
  <2>5. Replaced(visits', vs, Now, t)
    BY <1>3 DEF Rereads, Replaced, t
  <2>6. /\ Now' = Now /\ Here' = t /\ IsSeq(visits')
        /\ \A v \in 1 .. Now : v # Now => visits'[v] = vs[v]
    <3>1. /\ IsSeq(visits') /\ Len(visits') = Now /\ visits'[Now] = t
          /\ \A v \in 1 .. Now : v # Now => visits'[v] = vs[v]
      BY <1>6, <2>5
    <3> QED BY <3>1 DEF Now, Here
  <2>7. VisitsInv'
    BY <1>1, <2>4, <2>6 DEF VisitsInv, Here
  <2> QED BY <1>1, <1>3, <2>2, <2>6, <2>7 DEF Here, Like, Onward, ViewsKept, Arrived
<1>4. CASE Enters(vs) /\ dialog' = {}
  BY <1>4, VisitsEnter DEF Onward, Arrived
<1>5. IsScope(vs[Now])
  BY <1>1
<1> QED BY <1>1, <1>2, <1>3, <1>4, <1>5, GoingOnLeads

-----------------------------------------------------------------------------
(* Reading, and the interval.                                              *)

\* The scope of the visit v is another; views that were left stay past.
LEMMA ScopeChanges ==
  ASSUME VisitsInv, NEW v \in 1 .. Now, NEW vs, NEW t, Replaced(vs, visits, v, t),
         IsScope(t), t.view = visits[v].view, v < Now => IsPast(t)
  PROVE  /\ IsSeq(vs) /\ Len(vs) = Now /\ vs[v] = t /\ \A k \in 1 .. Now : k # v => vs[k] = visits[k]
         /\ \A k \in 1 .. Now : IsScope(vs[k]) /\ vs[k].view = visits[k].view /\ (k < Now => IsPast(vs[k]))
<1>1. IsSeq(vs) /\ Len(vs) = Now /\ vs[v] = t /\ \A k \in 1 .. Now : k # v => vs[k] = visits[k]
  BY SeqExcept DEF VisitsInv, Now
<1> QED BY <1>1 DEF VisitsInv

LEMMA LoadGoesOnKeeps ==
  ASSUME VisitsInv, NEW v \in 1 .. Now, visits[v].stage > 0, NEW unread,
         LoadGoesOn(v, unread)
  PROVE  Onward(Here.flags) /\ Arrived(aimed, Here.rows \cup ShownBy(Here.view), Here.dirty)
<1> DEFINE s    == visits[v]
           last == s.stage = Len(s.view.load)
           vs   == [visits EXCEPT ![v].stage  = IF last THEN 0 ELSE @ + 1,
                                  ![v].unread = unread,
                                  ![v].rows   = IF ~last \/ v # Now THEN @ ELSE IF unread THEN {} ELSE ShownBy(s.view),
                                  ![v].timer  = @ \/ (last /\ s.view.polls = "once loaded"),
                                  ![v].late   = last /\ v # Now,
                                  ![v].blank  = @ /\ ~last]
           stage == IF last THEN 0 ELSE s.stage + 1
           rows  == IF ~last \/ v # Now THEN s.rows ELSE IF unread THEN {} ELSE ShownBy(s.view)
           timer == s.timer \/ (last /\ s.view.polls = "once loaded")
           late  == last /\ v # Now
           blank == s.blank /\ ~last
           t     == [s EXCEPT !.stage = stage, !.unread = unread, !.rows = rows, !.timer = timer,
                              !.late = late, !.blank = blank]
<1>1. IsScope(s) /\ s.view \in Known /\ (v < Now => IsPast(s)) /\ DOMAIN visits = 1 .. Now /\ Now \in Nat
  BY SeqDomain DEF VisitsInv, IsScope, Now
<1>2. Replaced(vs, visits, v, t)
  BY <1>1 DEF Replaced
<1>3. PICK to \in {Stay, s.view.next} : GoingOn(vs, to, aimed)
  BY DEF LoadGoesOn
<1> HIDE DEF vs
<1>4. /\ Like(s, t) /\ t.flags = s.flags /\ t.dirty = s.dirty
      /\ t.stage = (IF last THEN 0 ELSE s.stage + 1)
      /\ t.rows \subseteq s.rows \cup ShownBy(s.view)
      /\ t.timer => s.timer \/ last
      /\ last /\ v # Now => t.late
      /\ t.blank => ~last
  <2> DEFINE old == s
  <2> HIDE DEF stage, rows, timer, late, blank, old
  <2>1. DOMAIN old = {"view", "stage", "rows", "unread", "flags", "dirty", "timer", "late", "blank"}
    BY <1>1 DEF IsScope, old
  <2> DEFINE new == [old EXCEPT !.stage = stage, !.unread = unread, !.rows = rows, !.timer = timer,
                              !.late = late, !.blank = blank]
  <2>2. /\ DOMAIN new = DOMAIN old /\ new.view = old.view /\ new.flags = old.flags /\ new.dirty = old.dirty
        /\ new.stage = stage /\ new.rows = rows /\ new.timer = timer /\ new.late = late
        /\ new.blank = blank
    BY <2>1
  <2>3. t = new
    BY DEF old
  <2> HIDE DEF t, new
  <2> QED BY <2>2, <2>3 DEF Like, old, stage, rows, timer, late, blank
<1> HIDE DEF t
<1>5. IsScope(t)
  <2>1. ShownBy(s.view) \subseteq Items
    BY ViewsAssumption DEF ShownBy
  <2>2. /\ s.stage \in 0 .. Len(s.view.load) /\ Len(s.view.load) \in Nat
        /\ s.rows \subseteq Items /\ s.dirty \in BOOLEAN
    BY <1>1, KnownViews DEF IsScope
  <2>3. t.stage \in 0 .. Len(s.view.load) /\ (t.blank => t.stage > 0)
    BY <1>4, <2>2
  <2> QED BY <1>1, <1>4, <2>1, <2>2, <2>3, ScopesAreRead
<1>6. v < Now => IsPast(t)
  BY <1>1, <1>4 DEF IsPast
<1>7. /\ IsSeq(vs) /\ Len(vs) = Now /\ vs[v] = t /\ \A k \in 1 .. Now : k # v => vs[k] = visits[k]
      /\ \A k \in 1 .. Now : IsScope(vs[k]) /\ vs[k].view = visits[k].view /\ (k < Now => IsPast(vs[k]))
  BY <1>2, <1>4, <1>5, <1>6, ScopeChanges DEF Like
<1>8. /\ vs[Now].flags = Here.flags /\ vs[Now].dirty = Here.dirty
      /\ vs[Now].rows \subseteq Here.rows \cup ShownBy(Here.view)
  <2> HIDE DEF last
  <2> QED BY <1>1, <1>4, <1>7 DEF Here, VisitsInv
<1>9. to # Reread
  BY <1>1, KnownViews DEF Stay, Reread
<1>10. Onward(vs[Now].flags) /\ Arrived(aimed, vs[Now].rows, vs[Now].dirty)
  BY <1>3, <1>7, <1>9, VisitsGoOn
<1> QED BY <1>8, <1>10 DEF Arrived

LEMMA LoadsKeep ==
  ASSUME VisitsInv, NEW v \in 1 .. Now, LoadAnswered(v) \/ LoadFailed(v)
  PROVE  Onward(Here.flags) /\ Arrived(aimed, Here.rows \cup ShownBy(Here.view), Here.dirty)
<1> DEFINE s == visits[v]
           blank == s.blank /\ BlankForGood(s.view)
           vs == [visits EXCEPT ![v].stage = 0, ![v].blank = @ /\ BlankForGood(s.view)]
           t  == [s EXCEPT !.stage = 0, !.blank = blank]
<1>1. IsScope(s) /\ s.view \in Known /\ (v < Now => IsPast(s)) /\ DOMAIN visits = 1 .. Now /\ Now \in Nat
  BY SeqDomain DEF VisitsInv, IsScope, Now
<1>2. CASE \E unread : s.stage > 0 /\ LoadGoesOn(v, unread)
  BY <1>2, LoadGoesOnKeeps
<1>3. CASE s.stage > 0 /\ \E to \in s.view.lost : GoingOn(vs, to, aimed)
  <2>1. PICK to \in s.view.lost : GoingOn(vs, to, aimed)
    BY <1>3
  <2>2. Replaced(vs, visits, v, t)
    BY <1>1 DEF Replaced
  <2> HIDE DEF vs
  <2>3. /\ Like(s, t) /\ t.flags = s.flags /\ t.dirty = s.dirty /\ t.rows = s.rows
        /\ t.stage = 0 /\ t.timer = s.timer /\ t.late = s.late
        /\ t.blank => s.view.waits = "success"
    <3> DEFINE old == s
    <3> HIDE DEF blank, old
    <3>1. DOMAIN old = {"view", "stage", "rows", "unread", "flags", "dirty", "timer", "late", "blank"}
      BY <1>1 DEF IsScope, old
    <3> DEFINE new == [old EXCEPT !.stage = 0, !.blank = blank]
    <3>2. /\ DOMAIN new = DOMAIN old /\ new.view = old.view /\ new.flags = old.flags /\ new.dirty = old.dirty
          /\ new.rows = old.rows /\ new.stage = 0 /\ new.timer = old.timer /\ new.late = old.late
          /\ new.blank = blank
      BY <3>1
    <3>3. t = new
      BY DEF old
    <3> HIDE DEF t, new
    <3> QED BY <3>2, <3>3 DEF Like, old, blank, BlankForGood
  <2> HIDE DEF t
  <2>4. IsScope(t)
    <3>1. /\ 0 \in 0 .. Len(s.view.load) /\ s.rows \subseteq Items /\ s.dirty \in BOOLEAN
      BY <1>1, KnownViews DEF IsScope
    <3> QED BY <1>1, <2>3, <3>1, ScopesAreRead
  <2>5. v < Now => IsPast(t)
    BY <1>1, <2>3 DEF IsPast
  <2>6. /\ IsSeq(vs) /\ Len(vs) = Now /\ vs[v] = t /\ \A k \in 1 .. Now : k # v => vs[k] = visits[k]
        /\ \A k \in 1 .. Now : IsScope(vs[k]) /\ vs[k].view = visits[k].view /\ (k < Now => IsPast(vs[k]))
    BY <2>2, <2>3, <2>4, <2>5, ScopeChanges DEF Like
  <2>7. vs[Now].flags = Here.flags /\ vs[Now].rows = Here.rows /\ vs[Now].dirty = Here.dirty
    BY <1>1, <2>3, <2>6 DEF Here, VisitsInv
  <2>8. to # Reread
    BY <1>1, KnownViews
  <2>9. Onward(vs[Now].flags) /\ Arrived(aimed, vs[Now].rows, vs[Now].dirty)
    BY <2>1, <2>6, <2>8, VisitsGoOn
  <2> QED BY <2>7, <2>9 DEF Arrived
<1> QED BY <1>2, <1>3 DEF LoadAnswered, LoadFailed

\* The open scope is another, of the same view: nothing is left, nothing is entered.
LEMMA HereChanges ==
  ASSUME VisitsInv, NEW v \in 1 .. Now, NEW t, Replaced(visits', visits, v, t),
         IsScope(t), t.view = visits[v].view, t.flags = visits[v].flags, v < Now => IsPast(t),
         t.rows = visits[v].rows, t.dirty \in {visits[v].dirty, TRUE}, UNCHANGED <<dialog, aimed>>
  PROVE  Onward(Here.flags) /\ \E dirty \in {Here.dirty, TRUE} : Arrived(aimed, Here.rows, dirty)
<1>1. Now \in Nat /\ Now >= 1
  BY SeqDomain DEF VisitsInv, Now
<1>2. /\ IsSeq(visits') /\ Len(visits') = Now /\ visits'[v] = t
      /\ \A k \in 1 .. Now : k # v => visits'[k] = visits[k]
      /\ \A k \in 1 .. Now : IsScope(visits'[k]) /\ visits'[k].view = visits[k].view /\ (k < Now => IsPast(visits'[k]))
  BY ScopeChanges
<1>3. Now' = Now
  BY <1>2 DEF Now
<1>4. VisitsInv'
  BY <1>1, <1>2, <1>3 DEF VisitsInv
<1>5. /\ Here'.flags = Here.flags /\ Here'.view = Here.view
      /\ Here'.rows = Here.rows /\ Here'.dirty \in {Here.dirty, TRUE}
  <2>1. Here' = visits'[Now] /\ Here = visits[Now]
    BY <1>3 DEF Here
  <2>2. CASE v = Now
    BY <1>2, <2>1, <2>2
  <2>3. CASE v # Now
    <3>1. visits'[Now] = visits[Now]
      BY <1>1, <1>2, <2>3
    <3>2. Here' = Here
      BY <2>1, <3>1
    <3> QED BY <3>2
  <2> QED BY <2>2, <2>3
<1>6. Onward(Here.flags)
  BY <1>1, <1>2, <1>3, <1>4, <1>5 DEF Onward, ViewsKept
<1>7. Arrived(aimed, Here.rows, Here'.dirty)
  BY <1>3, <1>5 DEF Arrived
<1> QED BY <1>5, <1>6, <1>7

\* The interval, the refresh the user turns on or off, typing, leaving
LEMMA OthersKeep ==
  ASSUME VisitsInv, \/ Toggle \/ Edit \/ Leave \/ \E v \in DOMAIN visits : Polled(v)
  PROVE  Onward(Here.flags) /\ \E dirty \in {Here.dirty, TRUE} : Arrived(aimed, Here.rows, dirty)
<1>1. /\ \A v \in 1 .. Now : IsScope(visits[v]) /\ (v < Now => IsPast(visits[v]))
      /\ DOMAIN visits = 1 .. Now /\ Now \in Nat /\ Now >= 1 /\ IsSeq(visits)
  BY SeqDomain DEF VisitsInv, Now
<1>2. ASSUME NEW v \in 1 .. Now, NEW timer, visits' = [visits EXCEPT ![v].timer = timer], v < Now => ~timer, UNCHANGED <<dialog, aimed>>
      PROVE  Onward(Here.flags) /\ \E dirty \in {Here.dirty, TRUE} : Arrived(aimed, Here.rows, dirty)
  <2> DEFINE t == [visits[v] EXCEPT !.timer = timer]
  <2>1. Replaced(visits', visits, v, t)
    BY <1>1, <1>2 DEF Replaced
  <2>2. /\ DOMAIN t = DOMAIN visits[v] /\ t.timer = timer
        /\ \A field \in DOMAIN visits[v] : field # "timer" => t[field] = visits[v][field]
    BY <1>1 DEF IsScope
  <2> HIDE DEF t
  <2>3. /\ IsScope(t) /\ t.view = visits[v].view /\ t.flags = visits[v].flags
        /\ t.rows = visits[v].rows /\ t.dirty = visits[v].dirty
    BY <1>1, <2>2 DEF IsScope
  <2>4. v < Now => IsPast(t)
    BY <1>2, <2>2 DEF IsPast
  <2> QED BY <1>2, <2>1, <2>3, <2>4, HereChanges
<1>3. CASE \E v \in DOMAIN visits : Polled(v)
  BY <1>1, <1>2, <1>3 DEF Polled
<1>4. CASE Toggle
  <2>1. PICK timer : visits' = [visits EXCEPT ![Now].timer = timer]
    BY <1>4, Zenon DEF Toggle
  <2>2. UNCHANGED <<dialog, aimed>>
    BY <1>4, Zenon DEF Toggle
  <2>3. Now \in 1 .. Now /\ ~(Now < Now)
    BY <1>1
  <2> QED BY <1>2, <2>1, <2>2, <2>3
<1>5. CASE Edit
  <2> DEFINE t == [visits[Now] EXCEPT !.dirty = TRUE]
  <2>1. Replaced(visits', visits, Now, t) /\ UNCHANGED <<dialog, aimed>> /\ visits[Now].view.edits
    BY <1>1, <1>5 DEF Replaced, Edit, Here
  <2>2. /\ DOMAIN t = DOMAIN visits[Now] /\ t.dirty = TRUE
        /\ t.view = visits[Now].view /\ t.stage = visits[Now].stage /\ t.rows = visits[Now].rows
        /\ t.flags = visits[Now].flags /\ t.blank = visits[Now].blank
    BY <1>1 DEF IsScope
  <2> HIDE DEF t
  <2>3. IsScope(t) /\ t.view = visits[Now].view /\ t.flags = visits[Now].flags
    <3>1. IsScope(visits[Now]) /\ ~(Now < Now) /\ Now \in 1 .. Now
      BY <1>1
    <3> QED BY <2>1, <2>2, <3>1 DEF IsScope
  <2>4. Now \in 1 .. Now /\ ~(Now < Now)
    BY <1>1
  <2> QED BY <2>1, <2>2, <2>3, <2>4, HereChanges
<1>6. CASE Leave
  <2>1. Enters(visits) /\ dialog' = {}
    BY <1>6 DEF Leave, Entering, Enters, Known
  <2> QED BY <1>1, <2>1, VisitsEnter DEF Onward, Arrived, Now
<1> QED BY <1>3, <1>4, <1>5, <1>6

-----------------------------------------------------------------------------
(* The operations.                                                         *)

\* A view goes on offering what it offered.
LEMMA OpsKept ==
  ASSUME VisitsInv, ViewsKept, NEW j \in 1 .. Len(jobs), JobInv(j),
         jobs'[j].visit = jobs[j].visit, jobs'[j].op = jobs[j].op
  PROVE  /\ ViewOf(j)' = ViewOf(j) /\ OpOf(j)' = OpOf(j)
         /\ jobs'[j].visit \in 1 .. Now' /\ jobs'[j].op \in DOMAIN ViewOf(j)'.ops
<1>1. Now \in Nat /\ jobs[j].visit \in 1 .. Now /\ jobs[j].op \in DOMAIN ViewOf(j).ops
  BY SeqDomain DEF VisitsInv, JobInv, Now
<1>2. visits'[jobs[j].visit].view = visits[jobs[j].visit].view
  BY <1>1 DEF ViewsKept
<1>3. ViewOf(j)' = ViewOf(j)
  BY <1>2 DEF ViewOf
<1>4. jobs'[j].visit \in 1 .. Now'
  BY <1>1 DEF ViewsKept
<1> QED BY <1>1, <1>3, <1>4 DEF OpOf

LEMMA DialogGoesOn ==
  ASSUME VisitsInv, DialogInv, NEW flags, Onward(flags)
  PROVE  DialogInv'
BY DEF DialogInv, Onward

\* Nothing is answered: the operations stay what they are.
LEMMA JobsStay ==
  ASSUME VisitsInv, JobsInv, AskedInv, FlagInv, EndpointInv,
         Onward(Here.flags), UNCHANGED <<jobs, endpoint>>
  PROVE  JobsInv' /\ AskedInv' /\ FlagInv' /\ EndpointInv'
<1>1. ViewsKept
  BY DEF Onward
<1>2. ASSUME NEW j \in 1 .. Len(jobs)
      PROVE  /\ JobInv(j) /\ ViewOf(j)' = ViewOf(j) /\ OpOf(j)' = OpOf(j)
             /\ jobs'[j].visit \in 1 .. Now' /\ jobs'[j].op \in DOMAIN ViewOf(j)'.ops
  BY <1>1, OpsKept DEF JobsInv
<1>3. JobsInv'
  <2>1. ASSUME NEW j \in 1 .. Len(jobs)
        PROVE  JobInv(j)'
    BY <1>2 DEF JobInv
  <2> QED BY <2>1 DEF JobsInv
<1>4. AskedInv'
  BY <1>2 DEF AskedInv
<1>5. FlagInv'
  <2> SUFFICES ASSUME NEW f \in Here'.flags
               PROVE  \E j \in 1 .. Len(jobs) : ~jobs[j].over /\ jobs[j].visit = Now' /\ OpOf(j)'.flag = f
    BY DEF FlagInv
  <2>1. Now' = Now /\ f \in Here.flags
    BY DEF Onward
  <2> QED BY <1>2, <2>1 DEF FlagInv
<1>6. EndpointInv'
  <2>1. ASSUME NEW j \in 1 .. Len(jobs), Borrows(j)
        PROVE  Borrows(j)'
    BY <1>2, <2>1 DEF Borrows
  <2> QED BY <2>1 DEF EndpointInv
<1> QED BY <1>3, <1>4, <1>5, <1>6

\* One operation goes on, and leaves flags up in the open view.
LEMMA OneJobGoesOn ==
  ASSUME VisitsInv, JobsInv, AskedInv, FlagInv, EndpointInv,
         NEW j \in 1 .. Len(jobs), NEW b, Replaced(jobs', jobs, j, b),
         IsJob(b), b.visit = jobs[j].visit, b.op = jobs[j].op,
         NEW flags, Onward(flags), flags \subseteq Here.flags,
         b.asked /\ OpOf(j).submits => ViewOf(j).state = "kubernetes.configurations.configuration",
         Now' = Now /\ ~jobs[j].over /\ jobs[j].visit = Now /\ OpOf(j).flag \in flags => ~b.over,
         endpoint' = "lent" => endpoint = "lent" /\ (Borrows(j) => Borrows(j)')
  PROVE  JobsInv' /\ AskedInv' /\ FlagInv' /\ EndpointInv'
<1>1. ViewsKept /\ VisitsInv'
  BY DEF Onward
<1>2. /\ IsSeq(jobs') /\ Len(jobs') = Len(jobs) /\ jobs'[j] = b
      /\ \A k \in 1 .. Len(jobs) : k # j => jobs'[k] = jobs[k]
  BY SeqExcept DEF JobsInv
<1>3. ASSUME NEW k \in 1 .. Len(jobs)
      PROVE  /\ JobInv(k) /\ ViewOf(k)' = ViewOf(k) /\ OpOf(k)' = OpOf(k)
             /\ jobs'[k].visit \in 1 .. Now' /\ jobs'[k].op \in DOMAIN ViewOf(k)'.ops
             /\ jobs'[k].visit = jobs[k].visit
  <2>1. jobs'[k].visit = jobs[k].visit /\ jobs'[k].op = jobs[k].op
    BY <1>2
  <2> QED BY <1>1, <2>1, OpsKept DEF JobsInv
<1>4. JobsInv'
  <2>1. ASSUME NEW k \in 1 .. Len(jobs)
        PROVE  JobInv(k)'
    <3>1. IsJob(jobs'[k])
      BY <1>2, <1>3 DEF JobInv
    <3> QED BY <1>3, <3>1 DEF JobInv
  <2> QED BY <1>2, <2>1 DEF JobsInv
<1>5. AskedInv'
  <2>1. ASSUME NEW k \in 1 .. Len(jobs), jobs'[k].asked, OpOf(k).submits
        PROVE  ViewOf(k).state = "kubernetes.configurations.configuration"
    BY <1>2, <2>1 DEF AskedInv
  <2> QED BY <1>2, <1>3, <2>1 DEF AskedInv
<1>6. FlagInv'
  <2> SUFFICES ASSUME NEW f \in Here'.flags
               PROVE  \E k \in 1 .. Len(jobs) : ~jobs'[k].over /\ jobs'[k].visit = Now' /\ OpOf(k)'.flag = f
    BY <1>2 DEF FlagInv
  <2>1. Now' = Now /\ f \in flags
    BY DEF Onward
  <2>2. PICK k \in 1 .. Len(jobs) : ~jobs[k].over /\ jobs[k].visit = Now /\ OpOf(k).flag = f
    BY <2>1 DEF FlagInv
  <2>3. ~jobs'[k].over
    BY <1>2, <2>1, <2>2
  <2> QED BY <1>3, <2>1, <2>2, <2>3
<1>7. EndpointInv'
  <2> SUFFICES ASSUME endpoint' = "lent"
               PROVE  \E k \in 1 .. Len(jobs) : Borrows(k)'
    BY <1>2 DEF EndpointInv
  <2>1. PICK k \in 1 .. Len(jobs) : Borrows(k)
    BY DEF EndpointInv
  <2>2. CASE k = j
    BY <2>1, <2>2
  <2>3. CASE k # j
    BY <1>2, <1>3, <2>1, <2>3 DEF Borrows
  <2> QED BY <2>2, <2>3
<1> QED BY <1>4, <1>5, <1>6, <1>7

LEMMA SameViews ==
  ASSUME VisitsInv, UNCHANGED <<visits, dialog>>
  PROVE  Onward(Here.flags)
<1>1. Now \in Nat /\ Now' = Now /\ Here' = Here
  BY SeqDomain DEF VisitsInv, Now, Here
<1>2. VisitsInv'
  BY <1>1 DEF VisitsInv
<1> QED BY <1>1, <1>2 DEF Onward, ViewsKept

\* What is under way of an operation changes, and nothing is settled by it.
LEMMA OnlyUnderWay ==
  ASSUME VisitsInv, JobsInv, AskedInv, FlagInv, EndpointInv,
         NEW j \in 1 .. Len(jobs), NEW b, Replaced(jobs', jobs, j, b),
         DOMAIN b = DOMAIN jobs[j], DOMAIN b.out = DOMAIN jobs[j].out, b.res = jobs[j].res,
         b.visit = jobs[j].visit, b.op = jobs[j].op, b.over = jobs[j].over, b.asked = jobs[j].asked,
         UNCHANGED <<visits, dialog>>, endpoint' \in {endpoint, "own"}
  PROVE  /\ Onward(Here.flags)
         /\ JobsInv' /\ AskedInv' /\ FlagInv' /\ EndpointInv'
<1>1. Onward(Here.flags)
  BY SameViews
<1>2. JobInv(j) /\ IsJob(jobs[j])
  BY DEF JobsInv, JobInv
<1>3. IsJob(b)
  BY <1>2 DEF IsJob
<1>4. b.asked /\ OpOf(j).submits => ViewOf(j).state = "kubernetes.configurations.configuration"
  BY DEF AskedInv
<1>5. Borrows(j) => Borrows(j)'
  <2>1. jobs'[j] = b
    BY SeqExcept DEF JobsInv
  <2>2. OpOf(j)' = OpOf(j)
    BY <1>1, <1>2, <2>1, OpsKept DEF Onward
  <2> QED BY <2>1, <2>2 DEF Borrows
<1>6. endpoint' = "lent" => endpoint = "lent" /\ (Borrows(j) => Borrows(j)')
  BY <1>5
<1> QED BY <1>1, <1>3, <1>4, <1>6, OneJobGoesOn

\* The rows an operation leaves
RowsLeft(op, result, i, rows) ==
  IF result = "done" /\ op.over \in {"row", "each", "sequence"}
     /\ \E n \in DOMAIN op.chain : \E r \in op.chain[n] : r.do = "delete"
  THEN rows \ {i} ELSE rows

\* The scope of an operation, once it is known what became of an object
LEMMA ScopesAreFreed ==
  ASSUME NEW s, IsScope(s), NEW op, NEW job, NEW result, NEW i
  PROVE  LET t == Freed(s, op, job, result, i)
         IN  /\ IsScope(t) /\ t.view = s.view /\ t.timer = s.timer /\ t.late = s.late /\ t.stage = s.stage
             /\ t.flags \subseteq s.flags /\ (Lowers(op, job, result) => op.flag \notin t.flags)
             /\ t.dirty => s.view.edits /\ ~(op.saves /\ result = "done")
             /\ t.rows = RowsLeft(op, result, i, s.rows) /\ t.dirty = Dirty(s, op, result)
<1> DEFINE rows  == IF result = "done" /\ op.over \in {"row", "each", "sequence"}
                       /\ \E n \in DOMAIN op.chain : \E r \in op.chain[n] : r.do = "delete"
                    THEN s.rows \ {i} ELSE s.rows
           flags == IF Lowers(op, job, result) THEN s.flags \ ({op.flag} \cup op.lowers) ELSE s.flags
           dirty == s.dirty /\ ~(op.saves /\ result = "done")
           t     == [s EXCEPT !.rows = rows, !.flags = flags, !.dirty = dirty]
<1>1. Freed(s, op, job, result, i) = t
  BY DEF Freed, Dirty
<1>2. /\ rows \subseteq s.rows /\ flags \subseteq s.flags /\ (Lowers(op, job, result) => op.flag \notin flags)
  OBVIOUS
<1>3. dirty \in BOOLEAN /\ (dirty => s.dirty /\ ~(op.saves /\ result = "done"))
  OBVIOUS
<1>7. rows = RowsLeft(op, result, i, s.rows) /\ dirty = Dirty(s, op, result)
  BY DEF RowsLeft, Dirty
<1> HIDE DEF rows, flags, dirty
<1>4. /\ DOMAIN t = DOMAIN s /\ t.view = s.view /\ t.stage = s.stage /\ t.timer = s.timer /\ t.late = s.late
      /\ t.blank = s.blank /\ t.rows = rows /\ t.flags = flags /\ t.dirty = dirty
  BY DEF IsScope
<1> HIDE DEF t
<1>5. IsScope(t)
  BY <1>2, <1>3, <1>4 DEF IsScope
<1>6. t.dirty => s.view.edits
  BY <1>3, <1>4 DEF IsScope
<1> QED BY <1>1, <1>2, <1>3, <1>4, <1>5, <1>6, <1>7

\* c is b, but for what is under way
SameBut(b, c) ==
  /\ DOMAIN b = DOMAIN c /\ DOMAIN b.out = DOMAIN c.out /\ b.res = c.res
  /\ b.op = c.op /\ b.visit = c.visit /\ b.over = c.over /\ b.asked = c.asked

\* The object whose turn comes after one that is through
NextOf(b, op) ==
  LET waiting == {k \in DOMAIN b.at : b.at[k] = 0}
  IN  IF op.over = "sequence" /\ waiting # {} THEN {Head(SetToSeq(waiting))} ELSE {}

\* Whether all is over once c.res is what became of the objects
Ends(b, c, op, result) ==
  b.over \/ (\A k \in DOMAIN c.res : c.res[k] # "runs") \/ (op.over = "all" /\ result = "failed")

\* job is b after it is known what became of its object i.
Concludes(b, op, i, result, job) ==
  /\ IsJob(job) /\ job.op = b.op /\ job.visit = b.visit /\ DOMAIN job.out = DOMAIN b.out
  /\ DOMAIN job.res = DOMAIN b.res /\ job.res[i] = result
  /\ \A k \in DOMAIN b.res : k # i => job.res[k] = b.res[k]
  /\ b.over => job.over
  /\ job.at = b.at /\ job.out = b.out /\ job.deaf = b.deaf /\ job.res = [b.res EXCEPT ![i] = result]
  /\ job.over = Ends(b, job, op, result)

LEMMA SettledJobs ==
  ASSUME NEW b, IsJob(b), NEW op, NEW i \in DOMAIN b.res, NEW result \in {"done", "failed"}
  PROVE  /\ Concludes(b, op, i, result, Settled(b, op, i, result).job)
         /\ Settled(b, op, i, result).next = NextOf(b, op)
<1> DEFINE res == [b.res EXCEPT ![i] = result]
           c   == [b EXCEPT !.res = res]
           all == \A k \in DOMAIN c.res : c.res[k] # "runs"
           over == b.over \/ all \/ (op.over = "all" /\ result = "failed")
           job == [c EXCEPT !.over = over]
<1>1. Settled(b, op, i, result).job = job
  BY DEF Settled, IsJob
<1>6. Settled(b, op, i, result).next = NextOf(b, op)
  <2>1. DOMAIN [b EXCEPT !.res[i] = result] = DOMAIN b /\ [b EXCEPT !.res[i] = result].at = b.at
    BY DEF IsJob
  <2> QED BY <2>1, Zenon DEF Settled, NextOf
<1>7. c.res = res
  BY DEF IsJob
<1>8. over = (b.over \/ (\A k \in DOMAIN res : res[k] # "runs") \/ (op.over = "all" /\ result = "failed"))
  BY <1>7
<1>9. res = [b.res EXCEPT ![i] = result]
  OBVIOUS
<1>2. /\ DOMAIN res = DOMAIN b.res /\ res[i] = result
      /\ \A k \in DOMAIN b.res : k # i => res[k] = b.res[k]
  OBVIOUS
<1>3. over \in BOOLEAN /\ (b.over => over)
  OBVIOUS
<1> HIDE DEF res, all, over
<1>4. /\ DOMAIN job = DOMAIN b /\ job.op = b.op /\ job.visit = b.visit /\ job.out = b.out
      /\ job.res = res /\ job.over = over /\ job.at = b.at /\ job.deaf = b.deaf
  BY DEF IsJob
<1> HIDE DEF c, job
<1>10. job.over = Ends(b, job, op, result)
  BY <1>4, <1>8 DEF Ends
<1>5. IsJob(job)
  <2>1. \A k \in DOMAIN res : res[k] \in {"runs", "done", "failed"}
    BY <1>2 DEF IsJob
  <2> QED BY <1>2, <1>3, <1>4, <2>1 DEF IsJob
<1> QED BY <1>1, <1>2, <1>3, <1>4, <1>5, <1>6, <1>9, <1>10 DEF Concludes

\* e is b after what became of its object i is known, and the next one's turn has come.
Settling(b, e, op, i, result, sent) ==
  /\ e.res = [b.res EXCEPT ![i] = result] /\ e.over = Ends(b, e, op, result) /\ e.deaf = b.deaf
  /\ e.at  = [k \in DOMAIN b.at |-> IF k \in NextOf(b, op) THEN 1 ELSE b.at[k]]
  /\ e.out = [k \in DOMAIN b.out |-> IF k \in NextOf(b, op) THEN sent ELSE b.out[k]]

\* What becomes of the jobs, the targets and the open view then
Settlement(j, i, result, b, e) ==
  LET op    == OpOf(j)
      begun == Following(op, NextOf(b, op))
  IN  /\ Replaced(jobs', jobs, j, e) /\ Settling(b, e, op, i, result, begun.sent)
      /\ e.op = jobs[j].op /\ e.visit = jobs[j].visit
      /\ jobs[j].visit = Now =>
           /\ Arrived(begun.a, RowsLeft(op, result, i, Here.rows), Dirty(Here, op, result))
           /\ Leads(op, e, result, jobs[j].over) \in Routes \cup {Reload} /\ ~Dirty(Here, op, result) =>
                Now' = Now + 1
      /\ jobs[j].visit # Now => Arrived(begun.a, Here.rows, Here.dirty)

LEMMA LeadsSomewhere ==
  ASSUME NEW op, NEW job, NEW result, NEW before
  PROVE  LET leads == Leads(op, job, result, before)
         IN  /\ leads \in {op.then, Stay}
             /\ leads # Stay /\ op.over \notin {"row", "each", "sequence"} => result = "done"
             /\ result = "done" /\ ~before /\ (job.over \/ op.over = "copies") => leads = op.then
BY DEF Leads

LEMMA SettlesKeeps ==
  ASSUME VisitsInv, JobsInv, AskedInv, FlagInv, EndpointInv,
         NEW j \in 1 .. Len(jobs), NEW i \in DOMAIN jobs[j].res, jobs[j].res[i] # "failed",
         NEW result \in {"done", "failed"}, NEW b, SameBut(b, jobs[j]), Settles(j, i, result, b)
  PROVE  /\ VisitsInv' /\ JobsInv' /\ AskedInv' /\ FlagInv' /\ EndpointInv'
         /\ \E flags : Onward(flags)
         /\ \E e : Settlement(j, i, result, b, e)
<1> DEFINE op    == OpOf(j)
           s     == Settled(b, op, i, result)
           begun == Following(op, s.next)
           freed == Freed(visits[Now], op, s.job, result, i)
           vs    == IF jobs[j].visit = Now
                    THEN [visits EXCEPT ![Now] = Freed(@, op, s.job, result, i)] ELSE visits
           leads == Leads(op, s.job, result, jobs[j].over)
           to    == IF leads = Reread /\ jobs[j].visit # Now THEN Stay ELSE leads
           asks  == to \notin {Stay, Reread} /\ vs[Now].dirty
           e     == [s.job EXCEPT !.asked = asks /\ jobs[j].visit = Now,
                                  !.at  = [k \in DOMAIN @ |-> IF k \in s.next THEN 1 ELSE @[k]],
                                  !.out = [k \in DOMAIN @ |-> IF k \in s.next THEN begun.sent ELSE @[k]]]
<1>1. /\ JobInv(j) /\ IsJob(jobs[j]) /\ jobs[j].visit \in 1 .. Now
      /\ Now \in Nat /\ Now >= 1 /\ DOMAIN visits = 1 .. Now
      /\ IsScope(visits[Now]) /\ ViewOf(j) \in Known
  <2>1. JobInv(j) /\ Now \in Nat /\ DOMAIN visits = 1 .. Now
    BY SeqDomain DEF JobsInv, VisitsInv, Now
  <2>2. jobs[j].visit \in 1 .. Now /\ IsScope(visits[jobs[j].visit])
    BY <2>1 DEF JobInv, VisitsInv
  <2>3. ViewOf(j) \in Known
    BY <2>2 DEF IsScope, ViewOf
  <2> QED BY <2>1, <2>2, <2>3 DEF JobInv, VisitsInv
<1>2. Respects(ViewOf(j), jobs[j].op)
  BY <1>1, KnownViews DEF JobInv
<1>3. /\ op.then = Reread => ViewOf(j).load # <<>>
      /\ op.lowered # "finally" => op.then \in Routes \cup {Reload} /\ (ViewOf(j).edits => op.saves)
      /\ op.submits => op.over \notin {"row", "each", "sequence"}
      /\ op.submits /\ ViewOf(j).edits => op.saves \/ ViewOf(j).state = "kubernetes.configurations.configuration"
      /\ \/ op.lends \in {"never", "until it ends", "while it reads"}
         \/ op.lends = "until it succeeds" /\ jobs[j].op = "duplicateStack"
  BY <1>2 DEF Respects, OpOf
<1>4. /\ Replaced(jobs', jobs, j, e)
      /\ GoingOn(vs, to, begun.a) \/ (asks /\ GoingOn(vs, Stay, begun.a))
      /\ endpoint' = IF GivenBack(op, result) THEN "own" ELSE endpoint
  BY DEF Settles, Replaced
<1>5. IsJob(b) /\ b.res = jobs[j].res /\ b.over = jobs[j].over /\ b.op = jobs[j].op /\ b.visit = jobs[j].visit
  BY <1>1 DEF IsJob, SameBut
<1>6. /\ IsJob(s.job) /\ s.job.op = jobs[j].op /\ s.job.visit = jobs[j].visit
      /\ DOMAIN s.job.res = DOMAIN jobs[j].res /\ s.job.res[i] = result
      /\ \A k \in DOMAIN jobs[j].res : k # i => s.job.res[k] = jobs[j].res[k]
      /\ jobs[j].over => s.job.over
      /\ s.job.at = b.at /\ s.job.out = b.out /\ s.job.deaf = b.deaf /\ s.job.res = [b.res EXCEPT ![i] = result]
      /\ s.job.over = Ends(b, s.job, op, result)
      /\ s.next = NextOf(b, op)
  <2>1. i \in DOMAIN b.res
    BY <1>5
  <2>2. Concludes(b, op, i, result, s.job) /\ s.next = NextOf(b, op)
    BY <1>5, <2>1, SettledJobs
  <2> HIDE DEF s, op
  <2> QED BY <1>5, <2>2 DEF Concludes
<1>7. /\ IsJob(e) /\ e.op = jobs[j].op /\ e.visit = jobs[j].visit /\ e.res = s.job.res
      /\ e.over = s.job.over /\ e.asked = (asks /\ jobs[j].visit = Now) /\ e.deaf = s.job.deaf
      /\ e.at = [k \in DOMAIN s.job.at |-> IF k \in s.next THEN 1 ELSE s.job.at[k]]
      /\ e.out = [k \in DOMAIN s.job.out |-> IF k \in s.next THEN begun.sent ELSE s.job.out[k]]
  <2> DEFINE job == s.job
             asked == asks /\ jobs[j].visit = Now
             at    == [k \in DOMAIN job.at |-> IF k \in s.next THEN 1 ELSE job.at[k]]
             out   == [k \in DOMAIN job.out |-> IF k \in s.next THEN begun.sent ELSE job.out[k]]
             new   == [job EXCEPT !.asked = asked, !.at = at, !.out = out]
  <2>1. e = new
    OBVIOUS
  <2>2. DOMAIN out = DOMAIN job.out
    OBVIOUS
  <2>3. IsJob(job)
    BY <1>6
  <2>4. e = new /\ asked = (asks /\ jobs[j].visit = Now) /\ job = s.job
    BY <2>1
  <2>7. /\ at = [k \in DOMAIN s.job.at |-> IF k \in s.next THEN 1 ELSE s.job.at[k]]
        /\ out = [k \in DOMAIN s.job.out |-> IF k \in s.next THEN begun.sent ELSE s.job.out[k]]
    OBVIOUS
  <2> HIDE DEF job, asked, at, out, s, e, asks, begun
  <2>5. /\ DOMAIN new = DOMAIN job /\ new.op = job.op /\ new.visit = job.visit /\ new.res = job.res
        /\ new.over = job.over /\ new.asked = asked /\ new.out = out /\ new.at = at /\ new.deaf = job.deaf
    BY <2>3 DEF IsJob
  <2> HIDE DEF new
  <2>6. IsJob(new)
    BY <2>2, <2>3, <2>5 DEF IsJob
  <2> QED BY <1>6, <2>4, <2>5, <2>6, <2>7
<1>20. begun = Following(op, NextOf(b, op)) /\ Leads(op, s.job, result, jobs[j].over) = Leads(op, e, result, jobs[j].over)
  <2> HIDE DEF e, s
  <2> QED BY <1>6, <1>7 DEF Leads
<1> HIDE DEF e
<1>21. Settling(b, e, op, i, result, begun.sent)
  <2> HIDE DEF s, begun, asks
  <2>1. Ends(b, e, op, result) = Ends(b, s.job, op, result)
    BY <1>7 DEF Ends
  <2> QED BY <1>6, <1>7, <2>1 DEF Settling
<1>8. /\ IsScope(freed) /\ freed.view = visits[Now].view
      /\ freed.flags \subseteq visits[Now].flags /\ (Lowers(op, s.job, result) => op.flag \notin freed.flags)
      /\ freed.dirty => visits[Now].view.edits /\ ~(op.saves /\ result = "done")
      /\ freed.rows = RowsLeft(op, result, i, Here.rows) /\ freed.dirty = Dirty(Here, op, result)
  BY <1>1, ScopesAreFreed DEF Here
<1>9. /\ IsSeq(vs) /\ Len(vs) = Now /\ vs[Now].view = visits[Now].view /\ vs[Now].flags \subseteq Here.flags
      /\ \A v \in 1 .. Now : IsScope(vs[v]) /\ vs[v].view = visits[v].view /\ (v < Now => IsPast(vs[v]))
      /\ jobs[j].visit = Now => vs[Now] = freed
      /\ jobs[j].visit # Now => vs[Now] = Here
  <2>1. CASE jobs[j].visit = Now
    <3>1. Replaced(vs, visits, Now, freed)
      BY <2>1 DEF Replaced
    <3>2. Now \in 1 .. Now /\ ~(Now < Now)
      BY <1>1
    <3> HIDE DEF vs, freed
    <3>3. /\ IsSeq(vs) /\ Len(vs) = Now /\ vs[Now] = freed
          /\ \A v \in 1 .. Now : IsScope(vs[v]) /\ vs[v].view = visits[v].view /\ (v < Now => IsPast(vs[v]))
      BY <1>8, <3>1, <3>2, ScopeChanges
    <3> QED BY <1>8, <2>1, <3>3 DEF Here
  <2>2. CASE jobs[j].visit # Now
    <3>1. vs = visits
      BY <2>2
    <3> QED BY <1>1, <2>2, <3>1 DEF VisitsInv, Now, Here
  <2> QED BY <2>1, <2>2
<1>10. /\ leads \in {op.then, Stay}
       /\ leads # Stay /\ op.over \notin {"row", "each", "sequence"} => result = "done"
       /\ result = "done" /\ ~jobs[j].over /\ (s.job.over \/ op.over = "copies") => leads = op.then
  BY LeadsSomewhere
<1>11. jobs[j].visit = Now => ViewOf(j) = visits[Now].view
  BY DEF ViewOf
<1>22. leads = Leads(op, e, result, jobs[j].over)
  BY <1>20
<1> HIDE DEF s, begun, freed, vs, leads
<1>12. /\ Reload # Reread /\ Reread \notin Routes /\ Stay # Reread
       /\ Stay \notin Routes \cup {Reload}
  BY ViewsAssumption DEF Stay, Reload, Reread
<1>13. to = Reread => vs[Now].view.load # <<>>
  BY <1>3, <1>9, <1>10, <1>11, <1>12
<1> HIDE DEF to
<1>14. ASSUME NEW t \in {to, Stay}, GoingOn(vs, t, begun.a)
       PROVE  /\ Onward(vs[Now].flags) /\ Arrived(begun.a, vs[Now].rows, vs[Now].dirty)
              /\ t \in Routes \cup {Reload} => Now' = Now + 1
  <2>1. t = Reread => vs[Now].view.load # <<>>
    BY <1>12, <1>13
  <2> QED BY <1>9, <1>14, <2>1, VisitsGoOn
<1>15. /\ Onward(vs[Now].flags) /\ Arrived(begun.a, vs[Now].rows, vs[Now].dirty)
       /\ ~asks /\ to \in Routes \cup {Reload} => Now' = Now + 1
  <2>1. CASE GoingOn(vs, to, begun.a)
    BY <1>14, <2>1
  <2>2. CASE asks /\ GoingOn(vs, Stay, begun.a)
    BY <1>14, <2>2
  <2> QED BY <1>4, <2>1, <2>2
<1>16. e.asked /\ op.submits => ViewOf(j).state = "kubernetes.configurations.configuration"
  <2> SUFFICES ASSUME e.asked, op.submits
               PROVE  ViewOf(j).state = "kubernetes.configurations.configuration"
    OBVIOUS
  <2>1. jobs[j].visit = Now /\ to \notin {Stay, Reread} /\ freed.dirty
    BY <1>7, <1>9
  <2>2. leads # Stay
    BY <2>1 DEF to
  <2>3. result = "done"
    BY <1>3, <1>10, <2>2
  <2>4. ViewOf(j).edits /\ ~op.saves
    BY <1>8, <1>11, <2>1, <2>3
  <2> QED BY <1>3, <2>4
<1>17. Now' = Now /\ ~jobs[j].over /\ jobs[j].visit = Now /\ op.flag \in vs[Now].flags => ~e.over
  <2> SUFFICES ASSUME Now' = Now, ~jobs[j].over, jobs[j].visit = Now, op.flag \in vs[Now].flags, e.over
               PROVE  FALSE
    OBVIOUS
  <2>1. op.lowered # "finally" /\ result = "done"
    BY <1>7, <1>8, <1>9 DEF Lowers
  <2>2. leads = op.then /\ op.then \in Routes \cup {Reload} /\ (ViewOf(j).edits => op.saves)
    BY <1>3, <1>7, <1>10, <2>1
  <2>3. to \in Routes \cup {Reload}
    BY <1>12, <2>2 DEF to
  <2>4. ~asks
    BY <1>8, <1>9, <1>11, <2>1, <2>2
  <2> QED BY <1>1, <1>15, <2>3, <2>4
<1>18. jobs'[j] = e /\ OpOf(j)' = OpOf(j)
  <2>1. jobs'[j] = e
    BY <1>4, SeqExcept DEF JobsInv
  <2> QED BY <1>1, <1>7, <1>15, <2>1, OpsKept DEF Onward
<1>19. endpoint' = "lent" => endpoint = "lent" /\ (Borrows(j) => Borrows(j)')
  <2> SUFFICES ASSUME endpoint' = "lent"
               PROVE  endpoint = "lent" /\ (Borrows(j) => Borrows(j)')
    OBVIOUS
  <2>1. endpoint = "lent" /\ ~GivenBack(op, result)
    BY <1>4
  <2>2. \/ op.lends = "never"
        \/ jobs[j].op = "duplicateStack" /\ result = "failed"
    BY <1>3, <2>1 DEF GivenBack
  <2>3. CASE jobs[j].op = "duplicateStack" /\ result = "failed"
    BY <1>6, <1>7, <1>18, <2>1, <2>3 DEF Borrows
  <2>4. CASE op.lends = "never" /\ Borrows(j)
    <3>1. PICK k \in DOMAIN jobs[j].res : jobs[j].op = "duplicateStack" /\ jobs[j].res[k] = "failed"
      BY <2>4 DEF Borrows
    <3>2. k # i /\ e.res[k] = "failed" /\ k \in DOMAIN e.res
      BY <1>6, <1>7, <3>1
    <3> QED BY <1>7, <1>18, <2>1, <3>1, <3>2 DEF Borrows
  <2> QED BY <2>1, <2>2, <2>3, <2>4
<1>23. Settlement(j, i, result, b, e)
  <2>1. ASSUME jobs[j].visit = Now
        PROVE  /\ Arrived(begun.a, RowsLeft(op, result, i, Here.rows), Dirty(Here, op, result))
               /\ leads \in Routes \cup {Reload} /\ ~Dirty(Here, op, result) => Now' = Now + 1
    <3>1. vs[Now].rows = RowsLeft(op, result, i, Here.rows) /\ vs[Now].dirty = Dirty(Here, op, result)
      BY <1>8, <1>9, <2>1
    <3>2. leads \in Routes \cup {Reload} /\ ~Dirty(Here, op, result) => ~asks /\ to \in Routes \cup {Reload}
      BY <1>12, <3>1 DEF to
    <3> QED BY <1>15, <3>1, <3>2
  <2>2. jobs[j].visit # Now => Arrived(begun.a, Here.rows, Here.dirty)
    BY <1>9, <1>15
  <2> QED BY <1>4, <1>7, <1>20, <1>21, <1>22, <2>1, <2>2 DEF Settlement
<1> HIDE DEF asks
<1>24. JobsInv' /\ AskedInv' /\ FlagInv' /\ EndpointInv'
  BY <1>4, <1>7, <1>9, <1>15, <1>16, <1>17, <1>19, OneJobGoesOn
<1> QED BY <1>15, <1>23, <1>24 DEF Onward

LEMMA UnderWay ==
  ASSUME NEW b, IsJob(b), NEW i \in DOMAIN b.out, NEW left, NEW step
  PROVE  /\ SameBut([b EXCEPT !.out[i] = left], b)
         /\ SameBut([b EXCEPT !.at[i] = step, !.out[i] = left], b)
         /\ SameBut([b EXCEPT !.deaf = TRUE], b)
<1> DEFINE out == [b.out EXCEPT ![i] = left]
           at  == [b.at EXCEPT ![i] = step]
<1>1. DOMAIN out = DOMAIN b.out
  OBVIOUS
<1>2. /\ [b EXCEPT !.out[i] = left] = [b EXCEPT !.out = out]
      /\ [b EXCEPT !.at[i] = step, !.out[i] = left] = [b EXCEPT !.at = at, !.out = out]
  BY DEF IsJob
<1> HIDE DEF out, at
<1>3. SameBut([b EXCEPT !.out = out], b)
  BY <1>1 DEF IsJob, SameBut
<1>4. SameBut([b EXCEPT !.at = at, !.out = out], b)
  BY <1>1 DEF IsJob, SameBut
<1>5. SameBut([b EXCEPT !.deaf = TRUE], b)
  BY DEF IsJob, SameBut
<1> QED BY <1>2, <1>3, <1>4, <1>5

LEMMA SameAgain ==
  ASSUME NEW a, NEW b, NEW c, SameBut(a, b), SameBut(b, c)
  PROVE  SameBut(a, c)
BY DEF SameBut

LEMMA JobsThatStay ==
  ASSUME NEW b, IsJob(b), NEW c, SameBut(c, b)
  PROVE  IsJob(c)
BY DEF IsJob, SameBut

LEMMA CountedKeeps ==
  ASSUME VisitsInv, JobsInv, AskedInv, FlagInv, EndpointInv,
         NEW j \in 1 .. Len(jobs), NEW i \in DOMAIN jobs[j].out, NEW r, Counted(j, i, r)
  PROVE  /\ VisitsInv' /\ JobsInv' /\ AskedInv' /\ FlagInv' /\ EndpointInv'
         /\ \E flags : Onward(flags)
<1> DEFINE op   == OpOf(j)
           left == jobs[j].out[i] \ {r}
           b    == [jobs[j] EXCEPT !.out[i] = left]
           step == jobs[j].at[i] + 1
           next == Decorated(aimed, <<i>>, op.chain[step])
           c    == [b EXCEPT !.at[i] = step, !.out[i] = next.sent]
<1>1. IsJob(jobs[j]) /\ i \in DOMAIN jobs[j].res
  BY DEF JobsInv, JobInv, IsJob
<1>2. \/ /\ jobs' = [jobs EXCEPT ![j] = b] /\ UNCHANGED <<visits, dialog, aimed, endpoint>>
      \/ jobs[j].res[i] # "failed" /\ Settles(j, i, "done", b)
      \/ /\ jobs' = [jobs EXCEPT ![j] = c] /\ UNCHANGED <<visits, dialog>> /\ endpoint' \in {endpoint, "own"}
  BY DEF Counted
<1>3. SameBut(b, jobs[j])
  BY <1>1, UnderWay
<1>4. IsJob(b) /\ i \in DOMAIN b.out
  BY <1>1, <1>3, JobsThatStay DEF SameBut
<1> HIDE DEF b
<1>5. SameBut(c, jobs[j])
  <2>1. SameBut(c, b)
    <3> HIDE DEF next, step
    <3> QED BY <1>4, UnderWay
  <2> HIDE DEF c
  <2> QED BY <1>3, <2>1, SameAgain
<1> HIDE DEF c
<1>6. ASSUME NEW d, SameBut(d, jobs[j]), jobs' = [jobs EXCEPT ![j] = d], UNCHANGED <<visits, dialog>>,
             endpoint' \in {endpoint, "own"}
      PROVE  /\ JobsInv' /\ AskedInv' /\ FlagInv' /\ EndpointInv'
             /\ Onward(Here.flags)
  <2>1. Replaced(jobs', jobs, j, d)
    BY <1>6 DEF Replaced
  <2> QED BY <1>6, <2>1, OnlyUnderWay DEF SameBut
<1>7. CASE jobs[j].res[i] # "failed" /\ Settles(j, i, "done", b)
  BY <1>1, <1>3, <1>7, SettlesKeeps
<1> QED BY <1>2, <1>3, <1>5, <1>6, <1>7 DEF Onward

LEMMA AnsweredKeeps ==
  ASSUME VisitsInv, JobsInv, AskedInv, FlagInv, EndpointInv, faults \in 0 .. MaxFaults, Answered
  PROVE  /\ VisitsInv' /\ JobsInv' /\ AskedInv' /\ FlagInv' /\ EndpointInv'
         /\ (\E flags : Onward(flags)) /\ faults' \in 0 .. MaxFaults
<1>1. DOMAIN jobs = 1 .. Len(jobs) /\ MaxFaults \in Nat
  BY SeqDomain, ViewsAssumption DEF JobsInv
<1>2. PICK j \in 1 .. Len(jobs) : \E i \in DOMAIN jobs[j].out : \E r \in jobs[j].out[i] :
        Succeeded(j, i, r) \/ Failed(j, i, r)
  BY <1>1 DEF Answered
<1> PICK i \in DOMAIN jobs[j].out : \E r \in jobs[j].out[i] : Succeeded(j, i, r) \/ Failed(j, i, r)
  BY <1>2
<1>0. PICK r \in jobs[j].out[i] : Succeeded(j, i, r) \/ Failed(j, i, r)
  OBVIOUS
<1>3. IsJob(jobs[j]) /\ i \in DOMAIN jobs[j].res
  BY DEF JobsInv, JobInv, IsJob
<1>4. faults' \in 0 .. MaxFaults
  <2>1. faults' = faults \/ (faults < MaxFaults /\ faults' = faults + 1)
    BY <1>0, Zenon DEF Succeeded, Failed
  <2> QED BY <1>1, <2>1
<1>5. CASE Counted(j, i, r)
  BY <1>4, <1>5, CountedKeeps
<1> DEFINE b == [jobs[j] EXCEPT !.out[i] = @ \ {r}]
<1>6. b = [jobs[j] EXCEPT !.out[i] = jobs[j].out[i] \ {r}]
  BY <1>3 DEF IsJob
<1>7. SameBut(b, jobs[j])
  BY <1>3, <1>6, UnderWay
<1>8. \/ Counted(j, i, r)
      \/ jobs[j].res[i] # "failed" /\ Settles(j, i, "failed", b)
      \/ jobs' = [jobs EXCEPT ![j] = [b EXCEPT !.deaf = TRUE]] /\ UNCHANGED <<visits, dialog, aimed, endpoint>>
  <2>1. CASE Succeeded(j, i, r)
    BY <2>1 DEF Succeeded
  <2>2. CASE Failed(j, i, r)
    BY <2>2 DEF Failed
  <2> QED BY <1>0, <2>1, <2>2
<1> HIDE DEF b
<1>9. CASE jobs[j].res[i] # "failed" /\ Settles(j, i, "failed", b)
  BY <1>3, <1>4, <1>7, <1>9, SettlesKeeps
<1>10. CASE jobs' = [jobs EXCEPT ![j] = [b EXCEPT !.deaf = TRUE]] /\ UNCHANGED <<visits, dialog, aimed, endpoint>>
  <2> DEFINE d == [b EXCEPT !.deaf = TRUE]
  <2>1. Replaced(jobs', jobs, j, d)
    BY <1>10 DEF Replaced
  <2>2. IsJob(b) /\ i \in DOMAIN b.out
    BY <1>3, <1>7, JobsThatStay DEF SameBut
  <2>3. SameBut(d, jobs[j])
    BY <1>7, <2>2, UnderWay, SameAgain
  <2> HIDE DEF d
  <2> QED BY <1>4, <1>10, <2>1, <2>3, OnlyUnderWay DEF SameBut, Onward
<1> QED BY <1>5, <1>8, <1>9, <1>10

LEMMA StartedKeeps ==
  ASSUME VisitsInv, JobsInv, AskedInv, FlagInv, EndpointInv,
         NEW name \in DOMAIN Here.view.ops, NEW items, Started(name, items)
  PROVE  VisitsInv' /\ JobsInv' /\ AskedInv' /\ FlagInv' /\ EndpointInv'
<1> DEFINE op    == Here.view.ops[name]
           begun == Begun(op, items)
           sent  == FirstSent(op, begun).sent
           at    == [i \in items |-> IF i \in Range(begun) THEN 1 ELSE 0]
           out   == [i \in items |-> {r \in sent : r.item = i}]
           res   == [i \in items |-> "runs"]
           job   == [op |-> name, visit |-> Now, over |-> FALSE, deaf |-> FALSE, asked |-> FALSE,
                     at |-> at, out |-> out, res |-> res]
           flags == Here.flags \cup ({op.flag} \ {NoFlag})
           t     == [Here EXCEPT !.flags = flags]
<1>1. /\ Now \in Nat /\ Now >= 1 /\ Now \in 1 .. Now /\ ~(Now < Now)
      /\ IsScope(Here) /\ DOMAIN visits = 1 .. Now
  BY SeqDomain DEF VisitsInv, Now, Here
<1>2. Len(jobs) \in Nat /\ IsSeq(jobs)
  BY SeqDomain DEF JobsInv
<1>3. /\ jobs' = Append(jobs, job)
      /\ visits' = [visits EXCEPT ![Now].flags = @ \cup ({op.flag} \ {NoFlag})]
      /\ endpoint' = IF op.lends # "never" THEN "lent" ELSE endpoint
  BY DEF Started
<1>4. Replaced(visits', visits, Now, t)
  BY <1>1, <1>3 DEF Replaced, Here
<1>5. IsJob(job) /\ job.visit = Now /\ job.op = name /\ job.over = FALSE /\ job.asked = FALSE
  BY DEF IsJob
<1> HIDE DEF job
<1>6. t.view = Here.view /\ t.flags = flags /\ IsScope(t)
  <2>1. NoFlag \notin flags
    BY <1>1 DEF IsScope
  <2> HIDE DEF flags
  <2>2. /\ DOMAIN t = DOMAIN Here /\ t.view = Here.view /\ t.stage = Here.stage /\ t.rows = Here.rows
        /\ t.dirty = Here.dirty /\ t.blank = Here.blank /\ t.flags = flags
    BY <1>1 DEF IsScope
  <2> HIDE DEF t
  <2> QED BY <1>1, <2>1, <2>2 DEF IsScope
<1> HIDE DEF t
<1>7. /\ IsSeq(visits') /\ Len(visits') = Now /\ visits'[Now] = t
      /\ \A k \in 1 .. Now : IsScope(visits'[k]) /\ visits'[k].view = visits[k].view /\ (k < Now => IsPast(visits'[k]))
  BY <1>1, <1>4, <1>6, ScopeChanges DEF Here
<1>8. Now' = Now /\ Here' = t
  BY <1>7 DEF Now, Here
<1>9. VisitsInv' /\ ViewsKept
  BY <1>1, <1>7, <1>8 DEF VisitsInv, ViewsKept
<1>10. /\ IsSeq(jobs') /\ Len(jobs') = Len(jobs) + 1 /\ jobs'[Len(jobs) + 1] = job
       /\ \A k \in 1 .. Len(jobs) : jobs'[k] = jobs[k]
  BY <1>2, <1>3, SeqAppend
<1>11. ASSUME NEW k \in 1 .. Len(jobs)
       PROVE  /\ JobInv(k) /\ ViewOf(k)' = ViewOf(k) /\ OpOf(k)' = OpOf(k)
              /\ jobs'[k].visit \in 1 .. Now' /\ jobs'[k].op \in DOMAIN ViewOf(k)'.ops
  <2>1. jobs'[k].visit = jobs[k].visit /\ jobs'[k].op = jobs[k].op
    BY <1>10
  <2> QED BY <1>9, <2>1, OpsKept DEF JobsInv
<1>12. PICK n \in 1 .. Len(jobs) + 1 : n = Len(jobs) + 1
  BY <1>2
<1>13. /\ n \in 1 .. Len(jobs)' /\ jobs'[n] = job
       /\ ViewOf(n)' = Here.view /\ OpOf(n)' = op
       /\ \A k \in 1 .. Len(jobs)' : k \in 1 .. Len(jobs) \/ k = n
       /\ \A k \in 1 .. Len(jobs) : k \in 1 .. Len(jobs)'
  <2>1. jobs'[n] = job
    BY <1>10, <1>12
  <2>2. ViewOf(n)' = Here.view
    BY <1>5, <1>6, <1>7, <2>1 DEF ViewOf
  <2>3. OpOf(n)' = op
    BY <1>5, <2>1, <2>2 DEF OpOf
  <2> QED BY <1>2, <1>10, <1>12, <2>1, <2>2, <2>3
<1>14. JobsInv'
  <2>1. ASSUME NEW k \in 1 .. Len(jobs)
        PROVE  JobInv(k)'
    <3>1. IsJob(jobs'[k])
      BY <1>10, <1>11 DEF JobInv
    <3> QED BY <1>11, <3>1 DEF JobInv
  <2>2. JobInv(n)'
    BY <1>1, <1>5, <1>8, <1>13 DEF JobInv
  <2>3. \A k \in 1 .. Len(jobs)' : JobInv(k)'
    BY <1>13, <2>1, <2>2
  <2> QED BY <1>10, <2>3 DEF JobsInv
<1>15. AskedInv'
  <2>1. ASSUME NEW k \in 1 .. Len(jobs), jobs'[k].asked, OpOf(k)'.submits
        PROVE  ViewOf(k)'.state = "kubernetes.configurations.configuration"
    BY <1>10, <1>11, <2>1 DEF AskedInv
  <2> QED BY <1>5, <1>13, <2>1 DEF AskedInv
<1>16. FlagInv'
  <2> SUFFICES ASSUME NEW f \in Here'.flags
               PROVE  \E k \in 1 .. Len(jobs)' : ~jobs'[k].over /\ jobs'[k].visit = Now' /\ OpOf(k)'.flag = f
    BY DEF FlagInv
  <2>1. CASE f \in Here.flags
    <3>1. PICK k \in 1 .. Len(jobs) : ~jobs[k].over /\ jobs[k].visit = Now /\ OpOf(k).flag = f
      BY <2>1 DEF FlagInv
    <3> QED BY <1>8, <1>10, <1>11, <1>13, <3>1
  <2>2. CASE f = op.flag
    BY <1>5, <1>8, <1>13, <2>2
  <2> QED BY <1>6, <1>8, <2>1, <2>2
<1>17. EndpointInv'
  <2> SUFFICES ASSUME endpoint' = "lent"
               PROVE  \E k \in 1 .. Len(jobs)' : Borrows(k)'
    BY DEF EndpointInv
  <2>1. CASE op.lends # "never"
    BY <1>5, <1>13, <2>1 DEF Borrows
  <2>2. CASE op.lends = "never"
    <3>1. PICK k \in 1 .. Len(jobs) : Borrows(k)
      BY <1>3, <2>2 DEF EndpointInv
    <3> QED BY <1>10, <1>11, <1>13, <3>1 DEF Borrows
  <2> QED BY <2>1, <2>2
<1> QED BY <1>9, <1>14, <1>15, <1>16, <1>17

-----------------------------------------------------------------------------
(* The first layer: the scopes, the operations and the dialog.             *)

LEMMA Initially == Init => IInv
<1> SUFFICES ASSUME Init
             PROVE  IInv
  OBVIOUS
<1>1. PICK view \in Views : visits = <<Scope(view)>>
  BY DEF Init
<1>2. /\ IsSeq(visits) /\ Now = 1 /\ visits[1] = Scope(view) /\ Here = Scope(view)
  BY <1>1, SeqOfOne DEF Now, Here
<1>3. IsScope(Scope(view)) /\ Scope(view).flags = {}
  BY ScopesAreNew DEF Known
<1>4. VisitsInv
  BY <1>2, <1>3 DEF VisitsInv
<1>5. IsSeq(jobs) /\ Len(jobs) = 0
  <2>1. jobs \in Seq({}) /\ Len(jobs) = 0
    BY DEF Init
  <2> QED BY <2>1 DEF IsSeq
<1>6. faults \in 0 .. MaxFaults /\ endpoint # "lent" /\ dialog = {}
  BY ViewsAssumption DEF Init
<1> QED BY <1>2, <1>3, <1>4, <1>5, <1>6 DEF IInv, JobsInv, DialogInv, AskedInv, FlagInv, EndpointInv

LEMMA EachStep == IInv /\ [Next]_vars => IInv'
<1> SUFFICES ASSUME IInv, [Next]_vars
             PROVE  IInv'
  OBVIOUS
<1>1. /\ VisitsInv /\ JobsInv /\ DialogInv /\ faults \in 0 .. MaxFaults /\ AskedInv /\ FlagInv /\ EndpointInv
      /\ DOMAIN visits = 1 .. Now /\ MaxFaults \in Nat
  BY SeqDomain, ViewsAssumption DEF IInv, VisitsInv, Now
<1>2. ASSUME Onward(Here.flags), UNCHANGED <<jobs, endpoint>>, faults' \in 0 .. MaxFaults
      PROVE  IInv'
  BY <1>1, <1>2, JobsStay, DialogGoesOn DEF IInv, Onward
<1>3. ASSUME NEW name \in DOMAIN Here.view.ops, NEW items, Started(name, items), dialog' = {}
      PROVE  IInv'
  <2>1. VisitsInv' /\ JobsInv' /\ AskedInv' /\ FlagInv' /\ EndpointInv'
    BY <1>1, <1>3, StartedKeeps
  <2>2. faults' = faults
    BY <1>3 DEF Started
  <2>3. DialogInv'
    BY <1>3 DEF DialogInv
  <2> QED BY <1>1, <2>1, <2>2, <2>3 DEF IInv
<1>4. CASE Start
  <2>1. PICK name \in DOMAIN Here.view.ops :
          dialog = {} /\ dialog' = dialog /\ \E items : Started(name, items)
    BY <1>4 DEF Start, Enabled
  <2> QED BY <1>3, <2>1
<1>5. CASE Ask
  <2>1. /\ UNCHANGED <<visits, jobs, endpoint, faults>>
        /\ \E name \in DOMAIN Here.view.ops : \E items : dialog' = {[op |-> name, items |-> items]}
    BY <1>5 DEF Ask
  <2>2. Here' = Here
    BY <2>1 DEF Here, Now
  <2>3. DialogInv'
    BY <2>1, <2>2 DEF DialogInv
  <2>4. VisitsInv' /\ JobsInv' /\ AskedInv' /\ FlagInv' /\ EndpointInv'
    BY <1>1, <2>1, <2>2 DEF VisitsInv, JobsInv, JobInv, AskedInv, FlagInv, EndpointInv, Borrows, OpOf, ViewOf, Now
  <2> QED BY <1>1, <2>1, <2>3, <2>4 DEF IInv
<1>6. CASE Confirm
  <2>1. PICK d \in dialog : Started(d.op, d.items) /\ dialog' = {}
    BY <1>6 DEF Confirm
  <2>2. PICK name, items : name \in DOMAIN Here.view.ops /\ dialog = {[op |-> name, items |-> items]}
    BY <1>1, <2>1 DEF DialogInv
  <2>3. d.op = name /\ d.items = items
    BY <2>2
  <2>4. name \in DOMAIN Here.view.ops /\ Started(name, items) /\ dialog' = {}
    BY <2>1, <2>2, <2>3
  <2> QED BY <1>3, <2>4
<1>7. CASE Cancel
  <2>1. UNCHANGED <<visits, jobs, endpoint, faults>> /\ dialog' = {}
    BY <1>7 DEF Cancel
  <2>2. Here' = Here
    BY <2>1 DEF Here, Now
  <2>3. DialogInv'
    BY <2>1 DEF DialogInv
  <2>4. VisitsInv' /\ JobsInv' /\ AskedInv' /\ FlagInv' /\ EndpointInv'
    BY <1>1, <2>1, <2>2 DEF VisitsInv, JobsInv, JobInv, AskedInv, FlagInv, EndpointInv, Borrows, OpOf, ViewOf, Now
  <2> QED BY <1>1, <2>1, <2>3, <2>4 DEF IInv
<1>8. CASE Answered
  BY <1>1, <1>8, AnsweredKeeps, DialogGoesOn DEF IInv
<1>9. CASE Loaded
  <2>1. PICK v \in 1 .. Now : LoadAnswered(v) \/ LoadFailed(v)
    BY <1>1, <1>9 DEF Loaded
  <2>2. Onward(Here.flags)
    BY <1>1, <2>1, LoadsKeep
  <2>3. UNCHANGED <<jobs, endpoint>> /\ (faults' = faults \/ (faults < MaxFaults /\ faults' = faults + 1))
    BY <2>1 DEF LoadAnswered, LoadFailed
  <2> QED BY <1>1, <1>2, <2>2, <2>3
<1>10. CASE Toggle \/ Edit \/ Leave \/ \E v \in DOMAIN visits : Polled(v)
  <2>1. Onward(Here.flags)
    BY <1>1, <1>10, OthersKeep
  <2>2. UNCHANGED <<jobs, endpoint>> /\ (faults' = faults \/ (faults < MaxFaults /\ faults' = faults + 1))
    BY <1>10, Zenon DEF Toggle, Edit, Leave, Polled
  <2> QED BY <1>1, <1>2, <2>1, <2>2
<1>11. CASE UNCHANGED vars
  <2>1. UNCHANGED <<visits, dialog, jobs, endpoint, faults>>
    BY <1>11 DEF vars
  <2> QED BY <1>1, <1>2, <2>1, SameViews
<1> QED BY <1>4, <1>5, <1>6, <1>7, <1>8, <1>9, <1>10, <1>11 DEF Next

\* Whatever the user does and however requests are answered, the scopes, the
\* operations and the dialog stay as IInv has them.
THEOREM Invariance == Spec => []IInv
BY Initially, EachStep, PTL DEF Spec

-----------------------------------------------------------------------------
(* What an answer does to an operation.                                    *)

\* b, when the answer r about its object i is no longer under way
Heard(b, i, r) == [b EXCEPT !.out[i] = b.out[i] \ {r}]

\* c is b with less under way, because there is more, or nobody looks at the answers.
Loses(b, c, i, r) ==
  /\ c.at = b.at /\ c.res = b.res /\ c.over = b.over
  /\ c.out = [b.out EXCEPT ![i] = b.out[i] \ {r}]
  /\ c.out[i] # {} \/ c.deaf \/ b.res[i] = "failed"
  /\ c.deaf = b.deaf \/ (c.deaf = TRUE /\ r.failure = "is lost")

\* c is b with the next step of its object i under way.
StepsOn(b, c, i, r, op, sent) ==
  /\ b.out[i] \ {r} = {} /\ ~b.deaf /\ b.res[i] # "failed" /\ ~(b.at[i] + 1 > Len(op.chain))
  /\ c.res = b.res /\ c.over = b.over /\ c.deaf = b.deaf
  /\ c.at = [b.at EXCEPT ![i] = b.at[i] + 1] /\ c.out = [b.out EXCEPT ![i] = sent]

\* An object of b may be through, or have failed.
MaySettle(b, i, r, op, result) ==
  /\ b.res[i] # "failed"
  /\ result = "done" => b.out[i] \ {r} = {} /\ ~b.deaf /\ b.at[i] + 1 > Len(op.chain)

Goes(j, i, r, c) ==
  LET op   == OpOf(j)
      b    == jobs[j]
      next == Decorated(aimed, <<i>>, op.chain[b.at[i] + 1])
  IN  /\ Replaced(jobs', jobs, j, c) /\ c.op = b.op /\ c.visit = b.visit
      /\ \/ Loses(b, c, i, r) /\ UNCHANGED <<visits, dialog, aimed>>
         \/ StepsOn(b, c, i, r, op, next.sent) /\ UNCHANGED <<visits, dialog>> /\ aimed' = next.a
         \/ \E result \in {"done", "failed"} :
              MaySettle(b, i, r, op, result) /\ Settlement(j, i, result, Heard(b, i, r), c)

Answer(j, i, r, c) ==
  /\ Goes(j, i, r, c)
  /\ \/ done' = done /\ (r.do = "read" \/ r.failure # "fails the chain" \/ c.res[i] = "failed")
     \/ done' = done \cup {<<r.do, r.on, i>>} /\ r.do # "read"

LEMMA HeardIs ==
  ASSUME NEW b, IsJob(b), NEW i \in DOMAIN b.out, NEW r
  PROVE  LET c == Heard(b, i, r)
         IN  /\ SameBut(c, b) /\ c.at = b.at /\ c.deaf = b.deaf
             /\ c.out = [b.out EXCEPT ![i] = b.out[i] \ {r}] /\ c.out[i] = b.out[i] \ {r}
<1> DEFINE left == b.out[i] \ {r}
           out == [b.out EXCEPT ![i] = left]
           c == [b EXCEPT !.out = out]
<1>1. Heard(b, i, r) = c
  BY DEF Heard, IsJob
<1>2. DOMAIN out = DOMAIN b.out /\ out[i] = left /\ out = [b.out EXCEPT ![i] = b.out[i] \ {r}]
  OBVIOUS
<1> HIDE DEF out, left
<1>3. /\ DOMAIN c = DOMAIN b /\ c.op = b.op /\ c.visit = b.visit /\ c.over = b.over /\ c.asked = b.asked
      /\ c.at = b.at /\ c.deaf = b.deaf /\ c.res = b.res /\ c.out = out
  BY DEF IsJob
<1> HIDE DEF c
<1> QED BY <1>1, <1>2, <1>3 DEF SameBut, left

LEMMA CountedGoes ==
  ASSUME VisitsInv, JobsInv, AskedInv, FlagInv, EndpointInv,
         NEW j \in 1 .. Len(jobs), NEW i \in DOMAIN jobs[j].out, NEW r, Counted(j, i, r)
  PROVE  \E c : Goes(j, i, r, c) /\ (jobs[j].res[i] = "failed" => c.res[i] = "failed")
<1> DEFINE op   == OpOf(j)
           old  == jobs[j]
           left == old.out[i] \ {r}
           b    == Heard(old, i, r)
           step == old.at[i] + 1
           next == Decorated(aimed, <<i>>, op.chain[step])
           at   == [old.at EXCEPT ![i] = step]
           out  == [old.out EXCEPT ![i] = next.sent]
           c    == [old EXCEPT !.at = at, !.out = out]
<1>1. IsJob(old) /\ i \in DOMAIN old.res
  BY DEF JobsInv, JobInv, IsJob
<1>2. /\ SameBut(b, old) /\ b.at = old.at /\ b.deaf = old.deaf
      /\ b.out = [old.out EXCEPT ![i] = old.out[i] \ {r}] /\ b.out[i] = left
  <2> HIDE DEF old, b
  <2>1. i \in DOMAIN old.out
    BY DEF old
  <2> QED BY <1>1, <2>1, HeardIs DEF b
<1>3. \/ /\ left # {} \/ old.deaf \/ old.res[i] = "failed"
         /\ jobs' = [jobs EXCEPT ![j] = b] /\ UNCHANGED <<visits, dialog, aimed>>
      \/ left = {} /\ ~old.deaf /\ old.res[i] # "failed" /\ step > Len(op.chain) /\ Settles(j, i, "done", b)
      \/ /\ left = {} /\ ~old.deaf /\ old.res[i] # "failed" /\ ~(step > Len(op.chain))
         /\ jobs' = [jobs EXCEPT ![j] = c] /\ UNCHANGED <<visits, dialog>> /\ aimed' = next.a
  <2>1. b = [jobs[j] EXCEPT !.out[i] = left]
    BY DEF Heard
  <2>2. [b EXCEPT !.at[i] = step, !.out[i] = next.sent] = c
    <3> DEFINE sent == next.sent
               heard == [old.out EXCEPT ![i] = left]
    <3>1. b = [old EXCEPT !.out = heard]
      BY <1>1, <2>1 DEF IsJob
    <3> HIDE DEF step, sent, b, left
    <3>2. [heard EXCEPT ![i] = sent] = [old.out EXCEPT ![i] = sent]
      OBVIOUS
    <3> HIDE DEF heard
    <3>3. b.at = old.at /\ b.out = heard /\ DOMAIN b = DOMAIN old
      BY <1>1, <3>1 DEF IsJob
    <3>4. [b EXCEPT !.at[i] = step, !.out[i] = sent] = [b EXCEPT !.at = at, !.out = out]
      BY <3>2, <3>3 DEF sent
    <3> HIDE DEF at, out
    <3>5. [b EXCEPT !.at = at, !.out = out] = c
      BY <1>1, <3>1 DEF IsJob
    <3> QED BY <3>4, <3>5 DEF sent
  <2> HIDE DEF b, c
  <2> QED BY <2>1, <2>2 DEF Counted, Through
<1>4. CASE /\ left # {} \/ old.deaf \/ old.res[i] = "failed"
           /\ jobs' = [jobs EXCEPT ![j] = b] /\ UNCHANGED <<visits, dialog, aimed>>
  <2> HIDE DEF b, left
  <2>1. Replaced(jobs', jobs, j, b)
    BY <1>4 DEF Replaced
  <2>2. Loses(old, b, i, r)
    BY <1>2, <1>4 DEF Loses, SameBut
  <2> QED BY <1>2, <1>4, <2>1, <2>2 DEF Goes, SameBut
<1>5. CASE left = {} /\ ~old.deaf /\ old.res[i] # "failed" /\ step > Len(op.chain) /\ Settles(j, i, "done", b)
  <2> HIDE DEF b
  <2>1. PICK e : Settlement(j, i, "done", b, e)
    BY <1>1, <1>2, <1>5, SettlesKeeps
  <2>2. MaySettle(old, i, r, op, "done")
    BY <1>5 DEF MaySettle
  <2>3. Replaced(jobs', jobs, j, e) /\ e.op = old.op /\ e.visit = old.visit
    BY <2>1 DEF Settlement
  <2>4. Goes(j, i, r, e)
    BY <2>1, <2>2, <2>3 DEF Goes, b
  <2> QED BY <1>5, <2>4
<1>6. CASE /\ left = {} /\ ~old.deaf /\ old.res[i] # "failed" /\ ~(step > Len(op.chain))
           /\ jobs' = [jobs EXCEPT ![j] = c] /\ UNCHANGED <<visits, dialog>> /\ aimed' = next.a
  <2>1. at = [old.at EXCEPT ![i] = step] /\ out = [old.out EXCEPT ![i] = next.sent]
    OBVIOUS
  <2> HIDE DEF at, out, b
  <2>2. /\ c.op = old.op /\ c.visit = old.visit /\ c.over = old.over /\ c.deaf = old.deaf /\ c.res = old.res
        /\ c.at = at /\ c.out = out
    BY <1>1 DEF IsJob
  <2>3. Replaced(jobs', jobs, j, c)
    BY <1>6 DEF Replaced
  <2> HIDE DEF c
  <2>4. StepsOn(old, c, i, r, op, next.sent)
    BY <1>6, <2>1, <2>2 DEF StepsOn
  <2> QED BY <1>6, <2>2, <2>3, <2>4 DEF Goes
<1> HIDE DEF b, c
<1> QED BY <1>3, <1>4, <1>5, <1>6

LEMMA Answering ==
  ASSUME IInv, NEW j \in 1 .. Len(jobs), NEW i \in DOMAIN jobs[j].out, NEW r \in jobs[j].out[i],
         Succeeded(j, i, r) \/ Failed(j, i, r)
  PROVE  \E c : Answer(j, i, r, c)
<1> DEFINE old == jobs[j]
           b   == Heard(old, i, r)
           d   == [b EXCEPT !.deaf = TRUE]
<1>1. /\ VisitsInv /\ JobsInv /\ AskedInv /\ FlagInv /\ EndpointInv
      /\ IsJob(old) /\ i \in DOMAIN old.res
  BY DEF IInv, JobsInv, JobInv, IsJob
<1>2. /\ SameBut(b, old) /\ b.at = old.at /\ b.deaf = old.deaf
      /\ b.out = [old.out EXCEPT ![i] = old.out[i] \ {r}]
  <2> HIDE DEF old, b
  <2>1. i \in DOMAIN old.out
    BY DEF old
  <2> QED BY <1>1, <2>1, HeardIs DEF b
<1>3. b = [jobs[j] EXCEPT !.out[i] = jobs[j].out[i] \ {r}] /\ b = [jobs[j] EXCEPT !.out[i] = @ \ {r}]
  BY <1>1 DEF Heard, IsJob
<1>4. CASE Succeeded(j, i, r)
  <2>1. /\ Counted(j, i, r)
        /\ \/ done' = done /\ r.do = "read"
           \/ done' = done \cup {<<r.do, r.on, i>>} /\ r.do # "read"
    <3>1. Counted(j, i, r) /\ done' = IF r.do = "read" THEN done ELSE done \cup {<<r.do, r.on, i>>}
      BY <1>4, Zenon DEF Succeeded
    <3>2. CASE r.do = "read"
      BY <3>1, <3>2
    <3>3. CASE r.do # "read"
      BY <3>1, <3>3
    <3> QED BY <3>2, <3>3
  <2>2. PICK c : Goes(j, i, r, c)
    BY <1>1, <2>1, CountedGoes
  <2> QED BY <2>1, <2>2 DEF Answer
<1>5. CASE Failed(j, i, r)
  <2> HIDE DEF b
  <2>1. /\ done' = done
        /\ \/ (old.res[i] = "failed" \/ r.failure = "is passed over") /\ Counted(j, i, r)
           \/ old.res[i] # "failed" /\ r.failure = "fails the chain" /\ Settles(j, i, "failed", b)
           \/ /\ old.res[i] # "failed" /\ r.failure = "is lost"
              /\ jobs' = [jobs EXCEPT ![j] = d] /\ UNCHANGED <<visits, dialog, aimed>>
    BY <1>3, <1>5 DEF Failed
  <2>2. CASE (old.res[i] = "failed" \/ r.failure = "is passed over") /\ Counted(j, i, r)
    <3>1. PICK c : Goes(j, i, r, c) /\ (old.res[i] = "failed" => c.res[i] = "failed")
      BY <1>1, <2>2, CountedGoes
    <3>2. r.failure # "fails the chain" \/ c.res[i] = "failed"
      BY <2>2, <3>1
    <3> QED BY <2>1, <3>1, <3>2 DEF Answer
  <2>3. CASE old.res[i] # "failed" /\ r.failure = "fails the chain" /\ Settles(j, i, "failed", b)
    <3>1. PICK e : Settlement(j, i, "failed", b, e)
      BY <1>1, <1>2, <2>3, SettlesKeeps
    <3>2. MaySettle(old, i, r, OpOf(j), "failed")
      BY <2>3 DEF MaySettle
    <3>3. Replaced(jobs', jobs, j, e) /\ e.op = old.op /\ e.visit = old.visit
      BY <3>1 DEF Settlement
    <3>4. e.res[i] = "failed"
      <4>1. e.res = [b.res EXCEPT ![i] = "failed"]
        BY <3>1 DEF Settlement, Settling
      <4> QED BY <1>1, <1>2, <4>1 DEF SameBut
    <3>5. Goes(j, i, r, e)
      BY <3>1, <3>2, <3>3 DEF Goes, b
    <3> QED BY <2>1, <3>4, <3>5 DEF Answer
  <2>4. CASE /\ old.res[i] # "failed" /\ r.failure = "is lost"
             /\ jobs' = [jobs EXCEPT ![j] = d] /\ UNCHANGED <<visits, dialog, aimed>>
    <3>1. DOMAIN b = DOMAIN old
      BY <1>2 DEF SameBut
    <3>2. /\ d.op = b.op /\ d.visit = b.visit /\ d.over = b.over /\ d.deaf = TRUE /\ d.res = b.res
          /\ d.at = b.at /\ d.out = b.out
      BY <1>1, <3>1 DEF IsJob
    <3>3. Replaced(jobs', jobs, j, d)
      BY <2>4 DEF Replaced
    <3> HIDE DEF d
    <3>4. Loses(old, d, i, r)
      BY <1>2, <2>4, <3>2 DEF Loses, SameBut
    <3>5. d.op = old.op /\ d.visit = old.visit
      BY <1>2, <3>2 DEF SameBut
    <3>6. Goes(j, i, r, d)
      BY <2>4, <3>3, <3>4, <3>5 DEF Goes
    <3>7. r.failure # "fails the chain"
      BY <2>4
    <3> QED BY <2>1, <3>6, <3>7 DEF Answer
  <2> QED BY <2>1, <2>2, <2>3, <2>4
<1> QED BY <1>4, <1>5

-----------------------------------------------------------------------------
(* How far an operation is.                                                *)

\* A chain has steps, and each of them requests.
IsProper(op) ==
  /\ Len(op.chain) \in Nat /\ Len(op.chain) >= 1 /\ DOMAIN op.chain = 1 .. Len(op.chain)
  /\ \A s \in 1 .. Len(op.chain) : IsFiniteSet(op.chain[s]) /\ op.chain[s] # {}

LEMMA ChainsProper ==
  ASSUME NEW view, NEW name, Respects(view, name)
  PROVE  IsProper(view.ops[name])
<1> DEFINE chain == view.ops[name].chain
<1>1. /\ chain \in Seq(SUBSET Requests) /\ chain # <<>>
      /\ \A s \in DOMAIN chain : IsFiniteSet(chain[s]) /\ chain[s] # {}
  BY DEF Respects
<1> HIDE DEF chain
<1>2. Len(chain) \in Nat /\ DOMAIN chain = 1 .. Len(chain) /\ Len(chain) >= 1
  BY <1>1
<1> QED BY <1>1, <1>2 DEF IsProper, chain

\* How far it is with its object k: at a step of the chain, whose requests are under
\* way; if it is not its turn yet, at none.
PacedAt(b, op, k) ==
  /\ b.at[k] \in 0 .. Len(op.chain)
  /\ b.at[k] = 0 => b.res[k] = "runs" /\ b.out[k] = {} /\ op.over = "sequence"
  /\ b.res[k] = "done" => b.out[k] = {} /\ b.at[k] = Len(op.chain)
  /\ b.res[k] = "runs" /\ b.at[k] # 0 /\ ~b.deaf => b.out[k] # {}
  /\ \A r \in b.out[k] : \E q \in op.chain[b.at[k]] : Echoes(r, q, k)

Paced(b, op) ==
  /\ DOMAIN b.at = DOMAIN b.res /\ IsFiniteSet(DOMAIN b.res)
  /\ op.over \in {"new", "this"} => \E k : DOMAIN b.res = {k}
  /\ \A k \in DOMAIN b.res : PacedAt(b, op, k)
  /\ b.deaf => \E s \in 1 .. Len(op.chain) : \E q \in op.chain[s] : q.failure = "is lost"
  /\ ~b.over => \E k \in DOMAIN b.res : b.res[k] = "runs" /\ b.at[k] # 0
  /\ b.over /\ op.over # "all" => \A k \in DOMAIN b.res : b.res[k] # "runs"

\* What has changed is known to have been changed, or its answer is to come, unless the
\* operation has failed.
ToldAt(b, op, k, changed) ==
  b.res[k] # "failed" =>
    \A s \in 1 .. b.at[k] : \A q \in op.chain[s] : q.do # "read" /\ q.failure = "fails the chain" =>
      <<q.do, q.on, k>> \in changed \/ \E r \in b.out[k] : Echoes(r, q, k)
Told(b, op, changed) == \A k \in DOMAIN b.res : ToldAt(b, op, k, changed)

LEMMA OneInOrder ==
  ASSUME NEW e
  PROVE  SetToSeq({e}) = <<e>>
<1> DEFINE s == SetToSeq({e})
<1>1. IsFiniteSet({e}) /\ Cardinality({e}) = 1
  BY FS_Singleton
<1>2. IsSeq(s) /\ Len(s) = Cardinality({e}) /\ \E n \in 1 .. Len(s) : s[n] = e
  BY <1>1, InSomeOrder
<1> HIDE DEF s
<1>3. Len(s) = 1 /\ s[1] = e
  BY <1>1, <1>2
<1>4. PICK S : s \in Seq(S)
  BY <1>2 DEF IsSeq
<1>5. <<e>> \in Seq({e}) /\ Len(<<e>>) = 1 /\ <<e>>[1] = e
  OBVIOUS
<1>6. s = <<e>>
  BY <1>3, <1>4, <1>5, SeqsEqual
<1> QED BY <1>6 DEF s

LEMMA SentForOne ==
  ASSUME NEW a, NEW k, NEW step, step # {}
  PROVE  LET sent == Decorated(a, <<k>>, step).sent
         IN  /\ sent # {} /\ \A r \in sent : \E q \in step : Echoes(r, q, k)
             /\ \A q \in step : \E r \in sent : Echoes(r, q, k)
<1> DEFINE items == <<k>>
           sent == Decorated(a, items, step).sent
<1>1. DOMAIN items = {1} /\ items[1] = k
  OBVIOUS
<1> HIDE DEF items
<1>2. /\ \A r \in sent : \E n \in DOMAIN items : \E q \in step : Echoes(r, q, items[n])
      /\ \A n \in DOMAIN items : \A q \in step : \E r \in sent : Echoes(r, q, items[n])
  BY SentForEach
<1> HIDE DEF sent
<1>3. sent # {} /\ (\A r \in sent : \E q \in step : Echoes(r, q, k)) /\ \A q \in step : \E r \in sent : Echoes(r, q, k)
  BY <1>1, <1>2
<1> QED BY <1>3 DEF sent, items

LEMMA WhoseTurn ==
  ASSUME NEW b, NEW op, IsFiniteSet(DOMAIN b.at)
  PROVE  \/ NextOf(b, op) = {} /\ (op.over = "sequence" => \A k \in DOMAIN b.at : b.at[k] # 0)
         \/ \E n \in DOMAIN b.at : b.at[n] = 0 /\ op.over = "sequence" /\ NextOf(b, op) = {n}
<1> DEFINE D == DOMAIN b.at
           waiting == {k \in D : b.at[k] = 0}
           order == SetToSeq(waiting)
<1>1. CASE op.over = "sequence" /\ waiting # {}
  <2>1. IsFiniteSet(waiting)
    <3>1. waiting \in SUBSET D
      OBVIOUS
    <3> HIDE DEF waiting
    <3> QED BY <3>1, FS_Subset
  <2>2. Len(order) = Cardinality(waiting) /\ order \in [1 .. Len(order) -> waiting] /\ IsSeq(order)
    <3> HIDE DEF waiting
    <3> QED BY <2>1, InSomeOrder
  <2>3. Cardinality(waiting) \in Nat /\ Cardinality(waiting) # 0
    <3> HIDE DEF waiting
    <3> QED BY <1>1, <2>1, FS_CardinalityType, FS_EmptySet
  <2> HIDE DEF order
  <2>4. 1 \in 1 .. Len(order) /\ order \in Seq(waiting)
    <3> DEFINE N == Len(order)
    <3>1. N \in Nat /\ N # 0
      BY <2>2, <2>3
    <3>2. order \in [1 .. N -> waiting]
      BY <2>2
    <3> HIDE DEF waiting, N
    <3>3. 1 \in 1 .. N /\ order \in Seq(waiting)
      BY <3>1, <3>2
    <3> QED BY <3>3 DEF N
  <2>5. Head(order) = order[1] /\ order[1] \in waiting
    BY <2>2, <2>4
  <2>6. NextOf(b, op) = {Head(order)}
    BY <1>1 DEF NextOf, order
  <2> QED BY <1>1, <2>5, <2>6
<1>2. CASE ~(op.over = "sequence" /\ waiting # {})
  BY <1>2 DEF NextOf
<1> QED BY <1>1, <1>2

\* Where nothing has changed about an object
LEMMA PlaceKept ==
  ASSUME NEW b, NEW c, NEW op, NEW k, NEW changed, NEW later, changed \subseteq later,
         PacedAt(b, op, k), ToldAt(b, op, k, changed),
         c.at[k] = b.at[k], c.res[k] = b.res[k], c.out[k] = b.out[k], b.deaf => c.deaf
  PROVE  PacedAt(c, op, k) /\ ToldAt(c, op, k, later)
<1>1. PacedAt(c, op, k)
  BY DEF PacedAt
<1>2. ToldAt(c, op, k, later)
  BY DEF ToldAt
<1> QED BY <1>1, <1>2

\* What the answer r about the object i has changed, of which it is known that it is result
Noted(r, i, result, changed, later) ==
  \/ later = changed /\ (r.do = "read" \/ r.failure # "fails the chain" \/ result = "failed")
  \/ later = changed \cup {<<r.do, r.on, i>>} /\ r.do # "read"

LEMMA NotedIsTold ==
  ASSUME NEW b, NEW op, NEW i, NEW r, NEW result, NEW changed, NEW later,
         ToldAt(b, op, i, changed), Noted(r, i, result, changed, later),
         result # "failed", b.res[i] # "failed",
         NEW s \in 1 .. b.at[i], NEW q \in op.chain[s], q.do # "read", q.failure = "fails the chain"
  PROVE  <<q.do, q.on, i>> \in later \/ \E r2 \in b.out[i] \ {r} : Echoes(r2, q, i)
<1>1. <<q.do, q.on, i>> \in changed \/ \E r2 \in b.out[i] : Echoes(r2, q, i)
  BY DEF ToldAt
<1>2. CASE <<q.do, q.on, i>> \in changed
  BY <1>2 DEF Noted
<1>3. CASE \E r2 \in b.out[i] : r2 # r /\ Echoes(r2, q, i)
  BY <1>3
<1>4. CASE Echoes(r, q, i)
  BY <1>4 DEF Echoes, Noted
<1> QED BY <1>1, <1>2, <1>3, <1>4

\* Where an answer comes in there is a step under way.
LEMMA OnlyOfSteps ==
  ASSUME NEW b, IsJob(b), NEW op, IsProper(op), NEW changed, Paced(b, op), Told(b, op, changed),
         NEW i \in DOMAIN b.out, NEW r \in b.out[i]
  PROVE  /\ i \in DOMAIN b.res /\ PacedAt(b, op, i) /\ ToldAt(b, op, i, changed)
         /\ b.at[i] # 0 /\ b.at[i] \in 1 .. Len(op.chain) /\ b.res[i] # "done"
<1>1. i \in DOMAIN b.res /\ PacedAt(b, op, i) /\ ToldAt(b, op, i, changed)
  BY DEF IsJob, Paced, Told
<1>2. b.at[i] \in 0 .. Len(op.chain) /\ b.at[i] # 0 /\ b.res[i] # "done"
  BY <1>1 DEF PacedAt
<1>3. Len(op.chain) \in Nat
  BY DEF IsProper
<1> QED BY <1>1, <1>2, <1>3

LEMMA LosesKeeps ==
  ASSUME NEW b, IsJob(b), NEW op, IsProper(op), NEW changed, NEW later, Paced(b, op), Told(b, op, changed),
         NEW i \in DOMAIN b.out, NEW r \in b.out[i], NEW c, Loses(b, c, i, r),
         changed \subseteq later, Noted(r, i, c.res[i], changed, later)
  PROVE  Paced(c, op) /\ Told(c, op, later)
<1>1. /\ i \in DOMAIN b.res /\ PacedAt(b, op, i) /\ ToldAt(b, op, i, changed)
      /\ b.at[i] # 0 /\ b.at[i] \in 1 .. Len(op.chain) /\ b.res[i] # "done"
  BY OnlyOfSteps
<1>2. /\ c.out[i] = b.out[i] \ {r} /\ c.at = b.at /\ c.res = b.res /\ (b.deaf => c.deaf)
      /\ \A k \in DOMAIN b.res : k # i => c.out[k] = b.out[k]
  BY DEF Loses, IsJob
<1>3. \A k \in DOMAIN b.res : k # i => PacedAt(c, op, k) /\ ToldAt(c, op, k, later)
  BY <1>2, PlaceKept DEF Paced, Told
<1>4. PacedAt(c, op, i)
  BY <1>1, <1>2 DEF PacedAt, Loses
<1>5. ToldAt(c, op, i, later)
  <2>1. /\ c.at[i] = b.at[i] /\ c.res[i] = b.res[i] /\ c.out[i] = b.out[i] \ {r}
        /\ ToldAt(b, op, i, changed)
    BY <1>1, <1>2
  <2>2. ASSUME c.res[i] # "failed", NEW s \in 1 .. c.at[i], NEW q \in op.chain[s],
               q.do # "read", q.failure = "fails the chain"
        PROVE  <<q.do, q.on, i>> \in later \/ \E r2 \in c.out[i] : Echoes(r2, q, i)
    <3>1. b.res[i] # "failed" /\ s \in 1 .. b.at[i]
      BY <2>1, <2>2
    <3>2. <<q.do, q.on, i>> \in later \/ \E r2 \in b.out[i] \ {r} : Echoes(r2, q, i)
      BY <2>1, <2>2, <3>1, NotedIsTold
    <3> QED BY <2>1, <3>2
  <2> QED BY <2>2, Zenon DEF ToldAt
<1>6. c.deaf => \E s \in 1 .. Len(op.chain) : \E q \in op.chain[s] : q.failure = "is lost"
  <2>1. CASE c.deaf = b.deaf
    BY <2>1 DEF Paced
  <2>2. CASE r.failure = "is lost"
    <3>1. PICK q \in op.chain[b.at[i]] : Echoes(r, q, i)
      BY <1>1 DEF PacedAt
    <3> QED BY <1>1, <2>2, <3>1 DEF Echoes
  <2> QED BY <2>1, <2>2 DEF Loses
<1>7. Paced(c, op)
  <2>1. c.over = b.over
    BY DEF Loses
  <2> QED BY <1>2, <1>3, <1>4, <1>6, <2>1 DEF Paced
<1> QED BY <1>2, <1>3, <1>5, <1>7 DEF Told

LEMMA StepsOnKeeps ==
  ASSUME NEW b, IsJob(b), NEW op, IsProper(op), NEW changed, NEW later, Paced(b, op), Told(b, op, changed),
         NEW i \in DOMAIN b.out, NEW r \in b.out[i], NEW c, NEW a,
         StepsOn(b, c, i, r, op, Decorated(a, <<i>>, op.chain[b.at[i] + 1]).sent),
         changed \subseteq later, Noted(r, i, c.res[i], changed, later)
  PROVE  Paced(c, op) /\ Told(c, op, later)
<1> DEFINE step == b.at[i] + 1
           sent == Decorated(a, <<i>>, op.chain[step]).sent
<1>1. /\ i \in DOMAIN b.res /\ PacedAt(b, op, i) /\ ToldAt(b, op, i, changed)
      /\ b.at[i] # 0 /\ b.at[i] \in 1 .. Len(op.chain) /\ b.res[i] # "done"
  BY OnlyOfSteps
<1>2. /\ c.res = b.res /\ c.over = b.over /\ c.deaf = b.deaf /\ step \in 1 .. Len(op.chain)
      /\ b.out[i] \ {r} = {} /\ b.res[i] # "failed" /\ ~b.deaf
  BY <1>1 DEF StepsOn, IsProper
<1>3. /\ DOMAIN c.at = DOMAIN b.at /\ c.at[i] = step /\ c.out[i] = sent
      /\ \A k \in DOMAIN b.res : k # i => c.at[k] = b.at[k] /\ c.out[k] = b.out[k]
  BY <1>1 DEF StepsOn, IsJob, Paced
<1>4. /\ sent # {} /\ \A x \in sent : \E q \in op.chain[step] : Echoes(x, q, i)
      /\ \A q \in op.chain[step] : \E x \in sent : Echoes(x, q, i)
  BY <1>2, SentForOne DEF IsProper
<1>9. \A s \in 1 .. step : s \in 1 .. b.at[i] \/ s = step
  <2>1. b.at[i] \in Nat
    BY <1>1 DEF IsProper
  <2> QED BY <2>1
<1> HIDE DEF sent, step
<1>5. \A k \in DOMAIN b.res : k # i => PacedAt(c, op, k) /\ ToldAt(c, op, k, later)
  BY <1>2, <1>3, PlaceKept DEF Paced, Told
<1>6. PacedAt(c, op, i)
  <2>1. step \in 0 .. Len(op.chain) /\ step # 0
    BY <1>2 DEF IsProper
  <2> QED BY <1>1, <1>2, <1>3, <1>4, <2>1 DEF PacedAt
<1>7. ToldAt(c, op, i, later)
  <2> SUFFICES ASSUME NEW s \in 1 .. step, NEW q \in op.chain[s], q.do # "read", q.failure = "fails the chain"
               PROVE  <<q.do, q.on, i>> \in later \/ \E x \in sent : Echoes(x, q, i)
    BY <1>3 DEF ToldAt
  <2>1. s \in 1 .. b.at[i] \/ s = step
    BY <1>9
  <2>2. CASE s \in 1 .. b.at[i]
    <3>1. <<q.do, q.on, i>> \in later \/ \E x \in b.out[i] \ {r} : Echoes(x, q, i)
      <4>1. c.res[i] # "failed" /\ b.res[i] # "failed" /\ ToldAt(b, op, i, changed)
        BY <1>1, <1>2
      <4> QED BY <2>2, <4>1, NotedIsTold
    <3> QED BY <1>2, <3>1
  <2>3. CASE s = step
    BY <1>4, <2>3
  <2> QED BY <2>1, <2>2, <2>3
<1>8. Paced(c, op)
  <2>1. \A k \in DOMAIN b.res : c.at[k] # 0 <=> b.at[k] # 0 \/ k = i
    BY <1>1, <1>2, <1>3 DEF IsProper
  <2>2. ~c.over => \E k \in DOMAIN c.res : c.res[k] = "runs" /\ c.at[k] # 0
    BY <1>2, <2>1 DEF Paced
  <2> QED BY <1>2, <1>3, <1>5, <1>6, <2>2 DEF Paced
<1> QED BY <1>2, <1>5, <1>7, <1>8 DEF Told

\* sent is the step for the object k.
Asks(sent, step, k) ==
  /\ sent # {} /\ \A r \in sent : \E q \in step : Echoes(r, q, k)
  /\ \A q \in step : \E r \in sent : Echoes(r, q, k)

LEMMA SettlingKeeps ==
  ASSUME NEW b, IsJob(b), NEW op, IsProper(op), NEW changed, NEW later, Paced(b, op), Told(b, op, changed),
         NEW i \in DOMAIN b.out, NEW r \in b.out[i], NEW e, NEW result \in {"done", "failed"}, NEW sent,
         MaySettle(b, i, r, op, result), Settling(Heard(b, i, r), e, op, i, result, sent),
         \A n : NextOf(b, op) = {n} => Asks(sent, op.chain[1], n),
         changed \subseteq later, Noted(r, i, e.res[i], changed, later)
  PROVE  Paced(e, op) /\ Told(e, op, later)
<1> DEFINE h == Heard(b, i, r)
           next == NextOf(b, op)
<1>1. /\ i \in DOMAIN b.res /\ PacedAt(b, op, i) /\ ToldAt(b, op, i, changed)
      /\ b.at[i] # 0 /\ b.at[i] \in 1 .. Len(op.chain) /\ b.res[i] # "done"
  BY OnlyOfSteps
<1>2. /\ h.at = b.at /\ h.deaf = b.deaf /\ h.res = b.res /\ h.over = b.over /\ DOMAIN h.out = DOMAIN b.out
      /\ h.out[i] = b.out[i] \ {r} /\ \A k \in DOMAIN b.res : k # i => h.out[k] = b.out[k]
  <2> HIDE DEF h
  <2>1. /\ SameBut(h, b) /\ h.at = b.at /\ h.deaf = b.deaf
        /\ h.out = [b.out EXCEPT ![i] = b.out[i] \ {r}] /\ h.out[i] = b.out[i] \ {r}
    BY HeardIs DEF h
  <2>2. DOMAIN b.out = DOMAIN b.res
    BY DEF IsJob
  <2> QED BY <2>1, <2>2 DEF SameBut
<1>3. NextOf(h, op) = next
  BY <1>2 DEF NextOf
<1> HIDE DEF h, next
<1>4. /\ DOMAIN b.at = DOMAIN b.res /\ DOMAIN b.out = DOMAIN b.res /\ IsFiniteSet(DOMAIN b.at)
  BY DEF Paced, IsJob
<1>5. \/ next = {} /\ (op.over = "sequence" => \A k \in DOMAIN b.at : b.at[k] # 0)
      \/ \E n \in DOMAIN b.at : b.at[n] = 0 /\ op.over = "sequence" /\ next = {n}
  BY <1>4, WhoseTurn DEF next
<1>6. /\ e.res = [b.res EXCEPT ![i] = result] /\ e.over = Ends(h, e, op, result) /\ e.deaf = b.deaf
      /\ e.at  = [k \in DOMAIN b.at |-> IF k \in next THEN 1 ELSE b.at[k]]
      /\ e.out = [k \in DOMAIN b.out |-> IF k \in next THEN sent ELSE h.out[k]]
  BY <1>2, <1>3 DEF Settling, h
<1>7. /\ DOMAIN e.res = DOMAIN b.res /\ e.res[i] = result /\ \A k \in DOMAIN b.res : k # i => e.res[k] = b.res[k]
  BY <1>1, <1>6
<1>8. /\ DOMAIN e.at = DOMAIN b.res
      /\ \A k \in DOMAIN b.res : k \notin next => e.at[k] = b.at[k] /\ e.out[k] = h.out[k]
      /\ \A k \in DOMAIN b.res : k \in next => e.at[k] = 1 /\ e.out[k] = sent
  BY <1>4, <1>6
<1>9. /\ i \notin next /\ \A k \in next : next = {k} /\ b.at[k] = 0 /\ k \in DOMAIN b.res
      /\ \A k \in next : Asks(sent, op.chain[1], k)
  BY <1>1, <1>4, <1>5 DEF next
<1>10. ASSUME NEW k \in DOMAIN b.res, k # i, k \notin next
       PROVE  PacedAt(e, op, k) /\ ToldAt(e, op, k, later)
  <2>1. PacedAt(b, op, k) /\ ToldAt(b, op, k, changed)
    BY DEF Paced, Told
  <2>2. e.at[k] = b.at[k] /\ e.res[k] = b.res[k] /\ e.out[k] = b.out[k] /\ e.deaf = b.deaf
    BY <1>2, <1>6, <1>7, <1>8, <1>10
  <2> QED BY <2>1, <2>2, PlaceKept
<1>11. PacedAt(e, op, i) /\ ToldAt(e, op, i, later)
  <2>1. e.at[i] = b.at[i] /\ e.res[i] = result /\ e.out[i] = b.out[i] \ {r}
    BY <1>1, <1>2, <1>7, <1>8, <1>9
  <2>2. result = "done" => b.out[i] \ {r} = {} /\ b.at[i] = Len(op.chain)
    BY <1>1 DEF MaySettle, IsProper
  <2>3. PacedAt(e, op, i)
    BY <1>1, <2>1, <2>2 DEF PacedAt
  <2>4. ToldAt(e, op, i, later)
    <3> SUFFICES ASSUME result # "failed", NEW s \in 1 .. b.at[i], NEW q \in op.chain[s], q.do # "read", q.failure = "fails the chain"
                 PROVE  <<q.do, q.on, i>> \in later
      BY <2>1, <2>2 DEF ToldAt
    <3>1. b.out[i] \ {r} = {} /\ b.res[i] # "failed" /\ Noted(r, i, result, changed, later)
      BY <2>1, <2>2 DEF MaySettle
    <3>2. ToldAt(b, op, i, changed)
      BY <1>1
    <3>3. <<q.do, q.on, i>> \in later \/ \E r2 \in b.out[i] \ {r} : Echoes(r2, q, i)
      <4>1. b.res[i] # "failed" /\ Noted(r, i, result, changed, later)
        BY <3>1
      <4> QED BY <3>2, <4>1, NotedIsTold, Zenon
    <3> QED BY <3>1, <3>3
  <2> QED BY <2>3, <2>4
<1>12. ASSUME NEW k \in DOMAIN b.res, k \in next
       PROVE  PacedAt(e, op, k) /\ ToldAt(e, op, k, later) /\ e.res[k] = "runs" /\ e.at[k] = 1
  <2>1. e.at[k] = 1 /\ e.out[k] = sent /\ Asks(sent, op.chain[1], k)
    BY <1>8, <1>9, <1>12
  <2>2. e.res[k] = "runs"
    <3>1. PacedAt(b, op, k) /\ b.at[k] = 0 /\ k # i
      BY <1>9, <1>12 DEF Paced
    <3> QED BY <1>7, <3>1 DEF PacedAt
  <2>3. 1 \in 0 .. Len(op.chain)
    BY DEF IsProper
  <2>4. PacedAt(e, op, k)
    BY <2>1, <2>2, <2>3 DEF PacedAt, Asks
  <2>5. ToldAt(e, op, k, later)
    <3>1. \A s \in 1 .. 1 : s = 1
      OBVIOUS
    <3> QED BY <2>1, <2>2, <3>1 DEF ToldAt, Asks
  <2> QED BY <2>1, <2>2, <2>4, <2>5
<1>13. \A k \in DOMAIN b.res : PacedAt(e, op, k) /\ ToldAt(e, op, k, later)
  BY <1>10, <1>11, <1>12
<1>14. ~e.over => \E k \in DOMAIN b.res : e.res[k] = "runs" /\ e.at[k] # 0
  <2> SUFFICES ASSUME ~e.over
               PROVE  \E k \in DOMAIN b.res : e.res[k] = "runs" /\ e.at[k] # 0
    OBVIOUS
  <2>1. PICK k \in DOMAIN b.res : e.res[k] = "runs"
    BY <1>6, <1>7 DEF Ends
  <2>2. CASE next = {}
    <3>1. k # i /\ e.at[k] = b.at[k]
      BY <1>7, <1>8, <2>1, <2>2
    <3>2. PacedAt(b, op, k)
      BY DEF Paced
    <3>3. b.at[k] # 0
      BY <1>4, <1>5, <2>2, <3>2 DEF PacedAt
    <3> QED BY <2>1, <3>1, <3>3
  <2>3. CASE next # {}
    <3>1. PICK n \in next : n \in DOMAIN b.res
      BY <1>9, <2>3
    <3> QED BY <1>12, <3>1
  <2> QED BY <2>2, <2>3
<1>15. ASSUME e.over, op.over # "all"
       PROVE  \A k \in DOMAIN b.res : e.res[k] # "runs"
  <2>1. \/ h.over \/ \A k \in DOMAIN e.res : e.res[k] # "runs"
    BY <1>6, <1>15 DEF Ends
  <2>2. ~h.over
    <3>1. b.res[i] = "runs"
      BY <1>1 DEF MaySettle, IsJob
    <3> QED BY <1>1, <1>2, <1>15, <3>1 DEF Paced
  <2> QED BY <1>7, <2>1, <2>2
<1>16. Paced(e, op)
  <2>1. /\ IsFiniteSet(DOMAIN b.res) /\ (op.over \in {"new", "this"} => \E k : DOMAIN b.res = {k})
        /\ e.deaf => \E s \in 1 .. Len(op.chain) : \E q \in op.chain[s] : q.failure = "is lost"
    BY <1>6 DEF Paced
  <2> QED BY <1>7, <1>8, <1>13, <1>14, <1>15, <2>1 DEF Paced
<1> QED BY <1>7, <1>13, <1>16 DEF Told

\* The objects an operation begins with are some of them, and all but for those that
\* take turns.
LEMMA BegunWith ==
  ASSUME NEW op, NEW items, IsFiniteSet(items), items # {}
  PROVE  LET begun == Begun(op, items)
         IN  /\ IsSeq(begun) /\ Len(begun) >= 1 /\ DOMAIN begun = 1 .. Len(begun)
             /\ \A k \in 1 .. Len(begun) : begun[k] \in items
             /\ op.over # "sequence" => \A e \in items : \E k \in 1 .. Len(begun) : begun[k] = e
             /\ op.over = "sequence" => \E n \in items : begun = <<n>>
<1> DEFINE order == SetToSeq(items)
<1>1. /\ IsSeq(order) /\ Len(order) = Cardinality(items) /\ order \in [1 .. Len(order) -> items] /\ DOMAIN order = 1 .. Len(order)
      /\ \A e \in items : \E n \in 1 .. Len(order) : order[n] = e
  BY InSomeOrder
<1>2. Cardinality(items) \in Nat /\ Cardinality(items) # 0
  BY FS_CardinalityType, FS_EmptySet
<1>3. Begun(op, items) = IF op.over = "sequence" THEN <<Head(order)>> ELSE order
  BY DEF Begun
<1> HIDE DEF order
<1>4. Len(order) \in Nat /\ Len(order) >= 1 /\ 1 \in 1 .. Len(order)
  BY <1>1, <1>2
<1>5. Head(order) \in items
  <2>1. order \in Seq(items)
    BY <1>1, <1>4
  <2> QED BY <1>1, <1>4, <2>1
<1>6. CASE op.over = "sequence"
  <2> DEFINE one == <<Head(order)>>
  <2>1. IsSeq(one) /\ Len(one) = 1 /\ one[1] = Head(order) /\ DOMAIN one = 1 .. Len(one)
    BY SeqOfOne, SeqDomain
  <2>2. one = <<Head(order)>> /\ Begun(op, items) = one
    BY <1>3, <1>6
  <2> HIDE DEF one
  <2> QED BY <1>5, <1>6, <2>1, <2>2
<1>7. CASE op.over # "sequence"
  <2>1. Begun(op, items) = order
    BY <1>3, <1>7
  <2> QED BY <1>1, <1>4, <1>7, <2>1
<1> QED BY <1>6, <1>7

\* What has just started
IsFresh(b, op, items, sent) ==
  LET begun == Begun(op, items)
  IN  /\ b.over = FALSE /\ b.deaf = FALSE /\ b.res = [k \in items |-> "runs"]
      /\ b.at  = [k \in items |-> IF k \in Range(begun) THEN 1 ELSE 0]
      /\ b.out = [k \in items |-> {r \in sent : r.item = k}]

LEMMA FreshIsPaced ==
  ASSUME NEW op, IsProper(op), NEW items, IsFiniteSet(items), items # {},
         op.over \in {"new", "this"} => \E k : items = {k},
         NEW a, NEW b, IsFresh(b, op, items, Decorated(a, Begun(op, items), op.chain[1]).sent), NEW changed
  PROVE  Paced(b, op) /\ Told(b, op, changed)
<1> DEFINE begun == Begun(op, items)
           sent == Decorated(a, begun, op.chain[1]).sent
<1>1. /\ IsSeq(begun) /\ Len(begun) >= 1 /\ DOMAIN begun = 1 .. Len(begun)
      /\ \A k \in 1 .. Len(begun) : begun[k] \in items
      /\ op.over # "sequence" => \A e \in items : \E k \in 1 .. Len(begun) : begun[k] = e
  BY BegunWith
<1>2. /\ \A r \in sent : \E k \in DOMAIN begun : \E q \in op.chain[1] : Echoes(r, q, begun[k])
      /\ \A k \in DOMAIN begun : \A q \in op.chain[1] : \E r \in sent : Echoes(r, q, begun[k])
  <2> HIDE DEF begun
  <2> QED BY SentForEach
<1>3. /\ b.over = FALSE /\ b.deaf = FALSE /\ b.res = [k \in items |-> "runs"]
      /\ b.at  = [k \in items |-> IF k \in Range(begun) THEN 1 ELSE 0]
      /\ b.out = [k \in items |-> {r \in sent : r.item = k}]
  BY DEF IsFresh
<1>4. \A k : k \in Range(begun) <=> \E n \in 1 .. Len(begun) : begun[n] = k
  BY <1>1 DEF Range
<1> HIDE DEF begun, sent
<1>5. 1 \in DOMAIN op.chain /\ op.chain[1] # {} /\ {0, 1} \subseteq 0 .. Len(op.chain)
  BY DEF IsProper
<1>6. /\ DOMAIN b.res = items /\ DOMAIN b.at = items
      /\ \A k \in items : /\ b.res[k] = "runs" /\ b.at[k] = (IF k \in Range(begun) THEN 1 ELSE 0)
                          /\ b.out[k] = {r \in sent : r.item = k}
  BY <1>3
<1>7. ASSUME NEW k \in items, k \in Range(begun)
      PROVE  PacedAt(b, op, k) /\ ToldAt(b, op, k, changed) /\ b.at[k] # 0
  <2>1. PICK n \in DOMAIN begun : begun[n] = k
    BY <1>1, <1>4, <1>7
  <2>2. b.at[k] = 1 /\ b.res[k] = "runs"
    BY <1>6, <1>7
  <2>3. \A q \in op.chain[1] : \E r \in b.out[k] : Echoes(r, q, k)
    BY <1>2, <1>6, <2>1 DEF Echoes
  <2>4. \A r \in b.out[k] : \E q \in op.chain[1] : Echoes(r, q, k)
    BY <1>2, <1>6 DEF Echoes
  <2>5. PacedAt(b, op, k)
    <3>1. b.out[k] # {}
      BY <1>5, <2>3
    <3> QED BY <1>5, <2>2, <2>4, <3>1 DEF PacedAt
  <2>6. ToldAt(b, op, k, changed)
    <3>1. \A s \in 1 .. 1 : s = 1
      OBVIOUS
    <3> QED BY <2>2, <2>3, <3>1 DEF ToldAt
  <2> QED BY <2>2, <2>5, <2>6
<1>8. ASSUME NEW k \in items, k \notin Range(begun)
      PROVE  PacedAt(b, op, k) /\ ToldAt(b, op, k, changed)
  <2>1. b.at[k] = 0 /\ b.res[k] = "runs"
    BY <1>6, <1>8
  <2>2. b.out[k] = {}
    <3> SUFFICES ASSUME NEW r \in sent, r.item = k PROVE FALSE
      BY <1>6
    <3>1. PICK n \in DOMAIN begun : \E q \in op.chain[1] : Echoes(r, q, begun[n])
      BY <1>2
    <3>2. begun[n] = k /\ n \in 1 .. Len(begun)
      BY <1>1, <3>1 DEF Echoes
    <3> QED BY <1>4, <1>8, <3>2
  <2>3. op.over = "sequence"
    BY <1>1, <1>4, <1>8
  <2>4. PacedAt(b, op, k)
    BY <1>5, <2>1, <2>2, <2>3 DEF PacedAt
  <2>5. ToldAt(b, op, k, changed)
    <3>1. 1 .. 0 = {}
      OBVIOUS
    <3> QED BY <2>1, <3>1 DEF ToldAt
  <2> QED BY <2>4, <2>5
<1>9. \E k \in items : b.res[k] = "runs" /\ b.at[k] # 0
  <2>1. Len(begun) \in Nat
    BY <1>1, SeqDomain
  <2>2. 1 \in 1 .. Len(begun)
    BY <1>1, <2>1
  <2>3. begun[1] \in items /\ begun[1] \in Range(begun)
    BY <1>1, <1>4, <2>2
  <2> QED BY <1>6, <1>7, <2>3
<1>10. \A k \in items : PacedAt(b, op, k) /\ ToldAt(b, op, k, changed)
  BY <1>7, <1>8
<1> QED BY <1>3, <1>6, <1>9, <1>10 DEF Paced, Told

-----------------------------------------------------------------------------
(* The targets of an operation.                                            *)

\* No target is left to be taken, and in a view opened for a node that is the latest.
IsAimed(a, aims) == \E l : a = [queue |-> <<>>, last |-> l] /\ (aims => l = NodeOf[This])

ToNode(r, aims, each) ==
  r.on \in AgentKinds /\ (each \/ aims) => r.node = NodeOf[IF each THEN r.item ELSE This]

LEMMA LaterToNode ==
  ASSUME NEW a, NEW aims, IsAimed(a, aims), NEW items, IsSeq(items), NEW step, IsFiniteSet(step)
  PROVE  /\ Decorated(a, items, step).a = a
         /\ \A r \in Decorated(a, items, step).sent : ToNode(r, aims, FALSE)
<1>1. PICK l : a = [queue |-> <<>>, last |-> l] /\ (aims => l = NodeOf[This])
  BY DEF IsAimed
<1>2. /\ Decorated([queue |-> <<>>, last |-> l], items, step).a = [queue |-> <<>>, last |-> l]
      /\ \A r \in Decorated([queue |-> <<>>, last |-> l], items, step).sent : r.on \in AgentKinds => r.node = l
  BY NoTargetTaken
<1> QED BY <1>1, <1>2 DEF ToNode

LEMMA FirstToNode ==
  ASSUME NEW view, NEW op, IsAimed(aimed, view.aims), AimsRight(view, op), IsProper(op),
         NEW begun, IsSeq(begun), Len(begun) >= 1,
         op.over = "this" => \A k \in 1 .. Len(begun) : begun[k] = This,
         op.aims /\ op.over = "all" => \A k \in 1 .. Len(begun) : NodeOf[begun[k]] = NodeOf[begun[1]]
  PROVE  LET d == FirstSent(op, begun)
         IN  /\ IsAimed(d.a, view.aims) /\ (~op.aims => d.a = aimed)
             /\ \A r \in d.sent : ToNode(r, view.aims, op.aims)
<1> DEFINE step == op.chain[1]
           d == FirstSent(op, begun)
<1>0. d = Decorated(Targets(op, begun), begun, step) /\ IsFiniteSet(step)
  BY DEF FirstSent, IsProper
<1> HIDE DEF d
<1>1. CASE ~op.aims
  <2>1. Targets(op, begun) = aimed
    BY <1>1 DEF Targets
  <2>2. d.a = aimed /\ \A r \in d.sent : ToNode(r, view.aims, FALSE)
    <3> DEFINE e == Decorated(aimed, begun, step)
    <3> HIDE DEF step
    <3>1. IsFiniteSet(step) /\ d = e
      BY <1>0, <2>1
    <3>2. e.a = aimed /\ \A r \in e.sent : ToNode(r, view.aims, FALSE)
      BY <3>1, LaterToNode
    <3> HIDE DEF e
    <3> QED BY <3>1, <3>2
  <2>3. \A r \in d.sent : ToNode(r, view.aims, op.aims)
    BY <1>1, <2>2 DEF ToNode
  <2> QED BY <1>1, <2>2, <2>3 DEF d
<1>2. CASE op.aims
  <2> DEFINE items == IF op.over = "all" THEN <<begun[1]>> ELSE begun
             q == NodesOf(items)
  <2>1. PICK l : aimed = [queue |-> <<>>, last |-> l]
    BY DEF IsAimed
  <2>2. Targets(op, begun) = setPortainerAgentTargetHeader([queue |-> <<>>, last |-> l], items)
    BY <1>2, <2>1 DEF Targets
  <2>3. /\ IsSeq(items) /\ Len(items) >= 1 /\ Len(items) <= Len(begun) /\ Len(begun) \in Nat /\ Len(items) \in Nat
        /\ op.over = "all" => Len(items) = 1 /\ items[1] = begun[1]
        /\ op.over # "all" => items = begun
    <3>1. Len(begun) \in Nat
      BY SeqDomain
    <3> DEFINE one == <<begun[1]>>
    <3>2. IsSeq(one) /\ Len(one) = 1 /\ one[1] = begun[1] /\ items = IF op.over = "all" THEN one ELSE begun
      BY SeqOfOne
    <3> HIDE DEF one, items
    <3>3. CASE op.over = "all"
      <4>1. items = one
        BY <3>2, <3>3
      <4>2. IsSeq(items) /\ Len(items) = 1 /\ items[1] = begun[1]
        BY <3>2, <4>1
      <4> HIDE DEF one
      <4>3. 1 \in Nat /\ 1 <= Len(begun) /\ 1 >= 1
        OBVIOUS
      <4> QED BY <3>1, <3>3, <4>2, <4>3
    <3>4. CASE op.over # "all"
      <4>1. items = begun
        BY <3>2, <3>4
      <4> QED BY <3>1, <3>4, <4>1
    <3> QED BY <3>3, <3>4
  <2>4. /\ Targets(op, begun) = [queue |-> q, last |-> l]
        /\ IsSeq(q) /\ Len(q) = Len(items) /\ \A k \in 1 .. Len(items) : q[k] = NodeOf[items[k]]
    <3> HIDE DEF items
    <3> QED BY <2>2, <2>3, TargetsPushed
  <2>5. PICK c : Agents(step) = {c}
    BY <1>2 DEF AimsRight
  <2>6. /\ d.a = [queue |-> <<>>, last |-> q[Len(q)]]
        /\ \A r \in d.sent : r.on \in AgentKinds =>
              \E k \in DOMAIN begun : r.item = begun[k] /\ r.node = q[IF k <= Len(q) THEN k ELSE Len(q)]
    <3> HIDE DEF q, items, step
    <3>1. IsSeq(q) /\ Len(q) >= 1 /\ Len(q) <= Len(begun)
      BY <2>3, <2>4
    <3>2. OneEach(Decorated([queue |-> q, last |-> l], begun, step), q, begun)
      BY <2>5, <3>1, OneTargetEach
    <3> QED BY <1>0, <2>4, <3>2 DEF OneEach
  <2> HIDE DEF q, items
  <2>7. ASSUME NEW k \in DOMAIN begun
        PROVE  q[IF k <= Len(q) THEN k ELSE Len(q)] = NodeOf[begun[k]]
    <3>1. k \in 1 .. Len(begun)
      BY SeqDomain
    <3>2. CASE op.over = "all"
      <4>1. NodeOf[begun[k]] = NodeOf[begun[1]] /\ Len(q) = 1 /\ q[1] = NodeOf[begun[1]]
        BY <1>2, <2>3, <2>4, <3>1, <3>2
      <4>2. (IF k <= Len(q) THEN k ELSE Len(q)) = 1
        BY <3>1, <4>1
      <4> QED BY <4>1, <4>2
    <3>3. CASE op.over # "all"
      <4>1. items = begun /\ Len(q) = Len(begun) /\ q[k] = NodeOf[begun[k]]
        BY <2>3, <2>4, <3>1, <3>3
      <4> QED BY <2>3, <3>1, <4>1
    <3> QED BY <3>2, <3>3
  <2>8. \A r \in d.sent : ToNode(r, view.aims, op.aims)
    <3> SUFFICES ASSUME NEW r \in d.sent, r.on \in AgentKinds
                 PROVE  r.node = NodeOf[r.item]
      BY <1>2 DEF ToNode
    <3> QED BY <2>6, <2>7
  <2>9. view.aims => q[Len(q)] = NodeOf[This]
    <3> SUFFICES ASSUME view.aims PROVE q[Len(q)] = NodeOf[This]
      OBVIOUS
    <3>1. op.over = "this"
      BY <1>2 DEF AimsRight
    <3>2. Len(q) \in 1 .. Len(begun) /\ Len(q) = Len(begun) /\ items = begun
      BY <2>3, <2>4, <3>1
    <3> QED BY <2>4, <3>1, <3>2
  <2>10. IsAimed(d.a, view.aims)
    BY <2>6, <2>9 DEF IsAimed
  <2> QED BY <1>2, <2>8, <2>10 DEF d
<1> QED BY <1>1, <1>2

-----------------------------------------------------------------------------
(* The second layer of the invariant: how far the operations are, and where *)
(* their requests go.                                                       *)

OnTarget(b, op, aims) == \A k \in DOMAIN b.out : \A r \in b.out[k] : ToNode(r, aims, op.aims)

\* What an operation may be about, also when its dialog is confirmed
Fits(op, items) ==
  /\ IsFiniteSet(items) /\ items # {}
  /\ op.over \in {"new", "this"} => \E k : items = {k}
  /\ op.over = "this" => items = {This}
  /\ op.aims /\ op.over = "all" => \A i, k \in items : NodeOf[i] = NodeOf[k]

PacedInv  == \A j \in 1 .. Len(jobs) : Paced(jobs[j], OpOf(j)) /\ Told(jobs[j], OpOf(j), done)
TargetInv == \A j \in 1 .. Len(jobs) : jobs[j].visit = Now => OnTarget(jobs[j], OpOf(j), Here.view.aims)
AimedInv  == IsAimed(aimed, Here.view.aims)
FitInv    == \A d \in dialog : Fits(Here.view.ops[d.op], d.items)

ProgressInv == PacedInv /\ TargetInv /\ AimedInv /\ FitInv

LEMMA OpsRespect ==
  ASSUME VisitsInv, JobsInv, NEW j \in 1 .. Len(jobs)
  PROVE  /\ JobInv(j) /\ IsJob(jobs[j]) /\ jobs[j].visit \in 1 .. Now
         /\ Respects(ViewOf(j), jobs[j].op) /\ AimsRight(ViewOf(j), OpOf(j)) /\ IsProper(OpOf(j))
<1>1. JobInv(j) /\ IsJob(jobs[j]) /\ jobs[j].visit \in 1 .. Now /\ jobs[j].op \in DOMAIN ViewOf(j).ops
  BY DEF JobsInv, JobInv
<1>2. ViewOf(j) \in Known
  BY <1>1 DEF VisitsInv, IsScope, ViewOf
<1>3. Respects(ViewOf(j), jobs[j].op)
  BY <1>1, <1>2, KnownViews
<1>4. IsProper(OpOf(j))
  BY <1>3, ChainsProper DEF OpOf
<1>5. AimsRight(ViewOf(j), OpOf(j))
  BY <1>3 DEF Respects, OpOf
<1> QED BY <1>1, <1>3, <1>4, <1>5

LEMMA ToldForGood ==
  ASSUME NEW b, NEW op, NEW changed, NEW later, Told(b, op, changed), changed \subseteq later
  PROVE  Told(b, op, later)
BY DEF Told, ToldAt

\* The targets, and the dialog, where the visits go on
LEMMA AimedGoesOn ==
  ASSUME VisitsInv, AimedInv, FitInv, NEW flags, Onward(flags), NEW rows, NEW dirty, Arrived(aimed, rows, dirty)
  PROVE  AimedInv' /\ FitInv'
<1>1. Now \in Nat /\ VisitsInv'
  BY SeqDomain DEF VisitsInv, Now, Onward
<1>2. CASE Now' = Now
  <2>1. aimed' = aimed /\ Here'.view = Here.view /\ UNCHANGED dialog
    BY <1>1, <1>2 DEF Onward, Arrived
  <2> QED BY <2>1 DEF AimedInv, FitInv
<1>3. CASE Now' = Now + 1
  <2>1. aimed' = Opening(Here'.view) /\ dialog' = {}
    BY <1>1, <1>3 DEF Onward, Arrived
  <2>2. Here'.view \in Known
    <3>1. Now' \in 1 .. Now'
      BY <1>1, <1>3
    <3> QED BY <1>1, <3>1 DEF VisitsInv, IsScope, Here
  <2>3. AimedInv'
    <3> DEFINE view == Here'.view
    <3>1. Opening(view) = [queue |-> <<>>, last |-> IF view.aims THEN NodeOf[This] ELSE None]
      BY <2>2, TargetsOpened
    <3> QED BY <2>1, <3>1 DEF AimedInv, IsAimed
  <2> QED BY <2>1, <2>3 DEF FitInv
<1> QED BY <1>2, <1>3 DEF Arrived

\* The operations where the visits go on
LEMMA ProgressGoesOn ==
  ASSUME VisitsInv, JobsInv, NEW flags, Onward(flags), Len(jobs') = Len(jobs),
         \A k \in 1 .. Len(jobs) : /\ jobs'[k].op = jobs[k].op /\ jobs'[k].visit = jobs[k].visit
                                   /\ Paced(jobs'[k], OpOf(k)) /\ Told(jobs'[k], OpOf(k), done')
                                   /\ jobs[k].visit = Now => OnTarget(jobs'[k], OpOf(k), Here.view.aims)
  PROVE  PacedInv' /\ TargetInv'
<1>1. Now \in Nat /\ ViewsKept
  BY SeqDomain DEF VisitsInv, Now, Onward
<1>2. \A k \in 1 .. Len(jobs) : OpOf(k)' = OpOf(k) /\ jobs[k].visit \in 1 .. Now
  <2> TAKE k \in 1 .. Len(jobs)
  <2>1. JobInv(k)
    BY DEF JobsInv
  <2>2. OpOf(k)' = OpOf(k)
    BY <1>1, <2>1, OpsKept
  <2> QED BY <2>1, <2>2 DEF JobInv
<1>3. PacedInv'
  BY <1>2 DEF PacedInv
<1>4. TargetInv'
  <2> SUFFICES ASSUME NEW k \in 1 .. Len(jobs), jobs'[k].visit = Now'
               PROVE  OnTarget(jobs'[k], OpOf(k)', Here'.view.aims)
    BY DEF TargetInv
  <2>1. jobs[k].visit = Now' /\ jobs[k].visit \in 1 .. Now
    BY <1>2
  <2>2. Now' = Now /\ Here'.view = Here.view
    BY <1>1, <2>1 DEF Onward
  <2> QED BY <1>2, <2>1, <2>2
<1> QED BY <1>3, <1>4

LEMMA IdleProgress ==
  ASSUME VisitsInv, JobsInv, ProgressInv, NEW flags, Onward(flags), NEW rows, NEW dirty, Arrived(aimed, rows, dirty),
         UNCHANGED <<jobs, done>>
  PROVE  ProgressInv'
<1>1. AimedInv' /\ FitInv'
  BY AimedGoesOn DEF ProgressInv
<1>2. PacedInv' /\ TargetInv'
  BY ProgressGoesOn DEF ProgressInv, PacedInv, TargetInv
<1> QED BY <1>1, <1>2 DEF ProgressInv

\* The requests of those whose turn comes
LEMMA FollowingOnTarget ==
  ASSUME NEW b, NEW op, NEW aims, IsProper(op), IsFiniteSet(DOMAIN b.at), op.aims => op.over # "sequence",
         IsAimed(aimed, aims)
  PROVE  LET f == Following(op, NextOf(b, op))
         IN  /\ f.a = aimed /\ \A r \in f.sent : ToNode(r, aims, op.aims)
             /\ \A n : NextOf(b, op) = {n} => Asks(f.sent, op.chain[1], n)
<1> DEFINE f == Following(op, NextOf(b, op))
<1>1. CASE NextOf(b, op) = {}
  <2>1. f.a = aimed /\ f.sent = {}
    BY <1>1 DEF Following
  <2> QED BY <1>1, <2>1
<1>2. CASE \E n \in DOMAIN b.at : b.at[n] = 0 /\ op.over = "sequence" /\ NextOf(b, op) = {n}
  <2>1. PICK n : op.over = "sequence" /\ NextOf(b, op) = {n}
    BY <1>2
  <2> DEFINE begun == <<n>>
             step == op.chain[1]
             d == Decorated(aimed, begun, step)
  <2>2. f = d
    <3>1. f = FirstSent(op, SetToSeq({n}))
      BY <2>1 DEF Following
    <3>2. SetToSeq({n}) = begun
      BY OneInOrder
    <3>3. Targets(op, begun) = aimed
      BY <2>1 DEF Targets
    <3> QED BY <3>1, <3>2, <3>3 DEF FirstSent
  <2>3. IsFiniteSet(step) /\ step # {} /\ IsSeq(begun)
    BY SeqOfOne DEF IsProper
  <2>4. Asks(d.sent, step, n)
    <3> HIDE DEF step
    <3> QED BY <2>3, SentForOne DEF Asks
  <2>5. d.a = aimed /\ \A r \in d.sent : ToNode(r, aims, FALSE)
    <3> HIDE DEF step, begun
    <3> QED BY <2>3, LaterToNode
  <2> HIDE DEF d, step
  <2>6. \A r \in d.sent : ToNode(r, aims, op.aims)
    BY <2>1, <2>5 DEF ToNode
  <2>7. \A m : NextOf(b, op) = {m} => m = n
    BY <2>1
  <2> HIDE DEF f
  <2> QED BY <2>2, <2>4, <2>5, <2>6, <2>7 DEF f, step
<1> QED BY <1>1, <1>2, WhoseTurn

LEMMA AnswerProgress ==
  ASSUME IInv, ProgressInv, NEW flags, Onward(flags), NEW j \in 1 .. Len(jobs), NEW i \in DOMAIN jobs[j].out, NEW r \in jobs[j].out[i],
         NEW c, Answer(j, i, r, c)
  PROVE  ProgressInv'
<1> DEFINE op   == OpOf(j)
           b    == jobs[j]
           step == op.chain[b.at[i] + 1]
           next == Decorated(aimed, <<i>>, step)
           h    == Heard(b, i, r)
           f    == Following(op, NextOf(h, op))
           aims == Here.view.aims
<1>1. /\ VisitsInv /\ JobsInv /\ PacedInv /\ TargetInv /\ AimedInv /\ FitInv
      /\ IsJob(b) /\ AimsRight(ViewOf(j), op) /\ IsProper(op) /\ Paced(b, op) /\ Told(b, op, done)
  BY OpsRespect DEF IInv, ProgressInv, PacedInv
<1>2. /\ Replaced(jobs', jobs, j, c) /\ c.op = b.op /\ c.visit = b.visit
      /\ done \subseteq done' /\ Noted(r, i, c.res[i], done, done')
  BY DEF Answer, Goes, Noted
<1>3. /\ i \in DOMAIN b.res /\ PacedAt(b, op, i)
      /\ b.at[i] # 0 /\ b.at[i] \in 1 .. Len(op.chain)
  <2> HIDE DEF b, op
  <2> QED BY <1>1, OnlyOfSteps DEF b
<1>4. /\ SameBut(h, b) /\ h.at = b.at /\ h.out = [b.out EXCEPT ![i] = b.out[i] \ {r}]
  <2> HIDE DEF b, h
  <2> QED BY <1>1, HeardIs DEF h, b
<1>5. \/ Loses(b, c, i, r) /\ UNCHANGED <<visits, dialog, aimed>>
      \/ StepsOn(b, c, i, r, op, next.sent) /\ UNCHANGED <<visits, dialog>> /\ aimed' = next.a
      \/ \E result \in {"done", "failed"} :
           MaySettle(b, i, r, op, result) /\ Settlement(j, i, result, h, c)
  BY DEF Answer, Goes
<1> DEFINE on == b.visit = Now => OnTarget(c, op, aims)
<1>6. ASSUME Paced(c, op), Told(c, op, done'), on
      PROVE  PacedInv' /\ TargetInv'
  <2>1. /\ Len(jobs') = Len(jobs) /\ jobs'[j] = c
        /\ \A k \in 1 .. Len(jobs) : k # j => jobs'[k] = jobs[k]
    BY <1>1, <1>2, SeqExcept DEF JobsInv
  <2>2. ASSUME NEW k \in 1 .. Len(jobs)
        PROVE  /\ jobs'[k].op = jobs[k].op /\ jobs'[k].visit = jobs[k].visit
               /\ Paced(jobs'[k], OpOf(k)) /\ Told(jobs'[k], OpOf(k), done')
               /\ jobs[k].visit = Now => OnTarget(jobs'[k], OpOf(k), Here.view.aims)
    <3>1. CASE k = j
      BY <1>2, <1>6, <2>1, <3>1
    <3>2. CASE k # j
      BY <1>1, <1>2, <2>1, <3>2, ToldForGood DEF PacedInv, TargetInv
    <3> QED BY <3>1, <3>2
  <2> QED BY <1>1, <2>1, <2>2, ProgressGoesOn
<1>7. ASSUME UNCHANGED <<visits, dialog>>, aimed' = aimed
      PROVE  AimedInv' /\ FitInv'
  BY <1>1, <1>7 DEF AimedInv, FitInv, Here, Now
<1>8. CASE Loses(b, c, i, r) /\ UNCHANGED <<visits, dialog, aimed>>
  <2>1. Paced(c, op) /\ Told(c, op, done')
    <3> HIDE DEF b, op
    <3> QED BY <1>1, <1>2, <1>8, LosesKeeps DEF b
  <2>2. on
    <3>1. c.out = [b.out EXCEPT ![i] = b.out[i] \ {r}]
      BY <1>8 DEF Loses
    <3>2. DOMAIN c.out = DOMAIN b.out /\ \A k \in DOMAIN b.out : c.out[k] \subseteq b.out[k]
      BY <3>1
    <3> QED BY <1>1, <3>2 DEF OnTarget, TargetInv
  <2> QED BY <1>6, <1>7, <1>8, <2>1, <2>2 DEF ProgressInv
<1>9. CASE StepsOn(b, c, i, r, op, next.sent) /\ UNCHANGED <<visits, dialog>> /\ aimed' = next.a
  <2>1. Paced(c, op) /\ Told(c, op, done')
    <3> HIDE DEF b, op
    <3> QED BY <1>1, <1>2, <1>9, StepsOnKeeps DEF b
  <2>2. b.at[i] + 1 \in 1 .. Len(op.chain) /\ b.at[i] + 1 > 1
    <3>1. ~(b.at[i] + 1 > Len(op.chain))
      BY <1>9 DEF StepsOn
    <3> HIDE DEF b, op
    <3> QED BY <1>1, <1>3, <3>1 DEF IsProper
  <2>3. IsFiniteSet(step) /\ step # {} /\ (op.aims => Agents(step) = {})
    BY <1>1, <2>2 DEF IsProper, AimsRight
  <2>4. next.a = aimed /\ \A x \in next.sent : ToNode(x, aims, FALSE)
    <3> DEFINE one == <<i>>
    <3>1. IsSeq(one)
      BY SeqOfOne
    <3> HIDE DEF step, one, aims
    <3> QED BY <1>1, <2>3, <3>1, LaterToNode DEF AimedInv, aims, one
  <2>5. \A x \in next.sent : ToNode(x, aims, op.aims)
    <3>1. CASE ~op.aims
      BY <2>4, <3>1 DEF ToNode
    <3>2. CASE op.aims
      <4>1. \A x \in next.sent : \E q \in step : Echoes(x, q, i)
        <5> HIDE DEF step
        <5> QED BY <2>3, SentForOne
      <4>2. \A x \in next.sent : x.on \notin AgentKinds
        BY <2>3, <3>2, <4>1 DEF Agents, Echoes
      <4> QED BY <4>2 DEF ToNode
    <3> QED BY <3>1, <3>2
  <2> HIDE DEF next
  <2>6. on
    <3>1. c.out = [b.out EXCEPT ![i] = next.sent]
      BY <1>9 DEF StepsOn
    <3>2. DOMAIN c.out = DOMAIN b.out /\ c.out[i] = next.sent /\ \A k \in DOMAIN b.out : k # i => c.out[k] = b.out[k]
      BY <3>1
    <3> QED BY <1>1, <2>5, <3>2 DEF OnTarget, TargetInv
  <2> QED BY <1>6, <1>7, <1>9, <2>1, <2>4, <2>6 DEF ProgressInv
<1>10. CASE \E result \in {"done", "failed"} :
              MaySettle(b, i, r, op, result) /\ Settlement(j, i, result, h, c)
  <2>1. PICK result \in {"done", "failed"} : MaySettle(b, i, r, op, result) /\ Settlement(j, i, result, h, c)
    BY <1>10
  <2>2. /\ f.a = aimed /\ \A x \in f.sent : ToNode(x, aims, op.aims)
        /\ \A n : NextOf(h, op) = {n} => Asks(f.sent, op.chain[1], n)
    <3>1. IsFiniteSet(DOMAIN h.at)
      BY <1>1, <1>4 DEF Paced
    <3>2. op.aims => op.over # "sequence"
      BY <1>1 DEF AimsRight
    <3> HIDE DEF h, op, aims
    <3> QED BY <1>1, <3>1, <3>2, FollowingOnTarget DEF AimedInv, aims
  <2>3. NextOf(h, op) = NextOf(b, op)
    BY <1>4 DEF NextOf
  <2>4. /\ Settling(h, c, op, i, result, f.sent)
        /\ \E rows, dirty : Arrived(f.a, rows, dirty)
    BY <2>1 DEF Settlement
  <2> HIDE DEF f
  <2>5. Paced(c, op) /\ Told(c, op, done')
    <3>1. \A n : NextOf(b, op) = {n} => Asks(f.sent, op.chain[1], n)
      BY <2>2, <2>3
    <3> HIDE DEF b, op
    <3> QED BY <1>1, <1>2, <2>1, <2>4, <3>1, SettlingKeeps DEF b, h
  <2>6. on
    <3>1. c.out = [k \in DOMAIN h.out |-> IF k \in NextOf(h, op) THEN f.sent ELSE h.out[k]]
      BY <2>4 DEF Settling
    <3>2. DOMAIN h.out = DOMAIN b.out /\ \A k \in DOMAIN b.out : h.out[k] \subseteq b.out[k]
      BY <1>4
    <3> HIDE DEF h
    <3>3. \A k \in DOMAIN c.out : k \in DOMAIN b.out /\ (c.out[k] = f.sent \/ c.out[k] \subseteq b.out[k])
      BY <3>1, <3>2
    <3> QED BY <1>1, <2>2, <3>3 DEF OnTarget, TargetInv
  <2>7. AimedInv' /\ FitInv'
    BY <1>1, <2>2, <2>4, AimedGoesOn
  <2> QED BY <1>6, <2>5, <2>6, <2>7 DEF ProgressInv
<1> QED BY <1>5, <1>8, <1>9, <1>10

LEMMA ChosenFit ==
  ASSUME VisitsInv, NEW op, NEW items \in Chosen(op)
  PROVE  Fits(op, items)
<1>1. Here.rows \subseteq Items /\ IsFiniteSet(Items) /\ This \in Items
  BY SeqDomain, ViewsAssumption DEF VisitsInv, IsScope, Here, Now
<1>2. CASE \E e : items = {e} /\ (op.over = "this" => e = This)
  <2>1. PICK e : items = {e} /\ (op.over = "this" => e = This)
    BY <1>2
  <2>2. IsFiniteSet(items)
    BY <2>1, FS_Singleton
  <2> QED BY <2>1, <2>2 DEF Fits
<1>3. CASE op.over = "copies"
  <2>1. items = Items
    BY <1>3 DEF Chosen
  <2> QED BY <1>1, <1>3, <2>1 DEF Fits
<1>4. CASE op.over \in {"new", "row", "this"}
  <2>1. \E e : items = {e} /\ (op.over = "this" => e = This)
    BY <1>4 DEF Chosen
  <2> QED BY <1>2, <2>1
<1>5. CASE op.over \notin {"new", "copies", "row", "this"}
  <2>1. items \in (SUBSET Here.rows) \ {{}} /\ (op.aims /\ op.over = "all" => \A i, k \in items : NodeOf[i] = NodeOf[k])
    BY <1>5 DEF Chosen
  <2>2. IsFiniteSet(items)
    BY <1>1, <2>1, FS_Subset
  <2>3. (op.over \in {"new", "this"} => \E k : items = {k}) /\ (op.over = "this" => items = {This})
    BY <1>5
  <2>4. items # {} /\ (op.aims /\ op.over = "all" => \A i, k \in items : NodeOf[i] = NodeOf[k])
    BY <2>1
  <2> QED BY <2>2, <2>3, <2>4, Zenon DEF Fits
<1> QED BY <1>3, <1>4, <1>5

\* job is one that has just been started.
IsNew(job, name, items) ==
  LET op == Here.view.ops[name]
  IN  /\ job.op = name /\ job.visit = Now
      /\ IsFresh(job, op, items, FirstSent(op, Begun(op, items)).sent)

LEMMA StartedShape ==
  ASSUME VisitsInv, JobsInv, NEW name \in DOMAIN Here.view.ops, NEW items, Started(name, items)
  PROVE  /\ Now' = Now /\ Here'.view = Here.view /\ Here'.rows = Here.rows /\ Here'.dirty = Here.dirty /\ ViewsKept
         /\ done' = done /\ aimed' = FirstSent(Here.view.ops[name], Begun(Here.view.ops[name], items)).a
         /\ IsSeq(jobs') /\ Len(jobs') = Len(jobs) + 1 /\ \A k \in 1 .. Len(jobs) : jobs'[k] = jobs[k]
         /\ IsNew(jobs'[Len(jobs) + 1], name, items)
<1> DEFINE op    == Here.view.ops[name]
           begun == Begun(op, items)
           sent  == FirstSent(op, begun).sent
           at    == [i \in items |-> IF i \in Range(begun) THEN 1 ELSE 0]
           out   == [i \in items |-> {r \in sent : r.item = i}]
           res   == [i \in items |-> "runs"]
           job   == [op |-> name, visit |-> Now, over |-> FALSE, deaf |-> FALSE, asked |-> FALSE,
                     at |-> at, out |-> out, res |-> res]
           flags == Here.flags \cup ({op.flag} \ {NoFlag})
           t     == [Here EXCEPT !.flags = flags]
<1>1. /\ Now \in Nat /\ Now >= 1 /\ Now \in 1 .. Now /\ DOMAIN visits = 1 .. Now /\ Len(visits) = Now
      /\ IsScope(Here) /\ IsSeq(visits) /\ IsSeq(jobs)
  BY SeqDomain DEF VisitsInv, JobsInv, Now, Here
<1>2. /\ jobs' = Append(jobs, job) /\ done' = done /\ aimed' = FirstSent(op, begun).a
      /\ visits' = [visits EXCEPT ![Now].flags = @ \cup ({op.flag} \ {NoFlag})]
  BY DEF Started
<1>3. Replaced(visits', visits, Now, t)
  BY <1>1, <1>2 DEF Replaced, Here
<1>4. IsNew(job, name, items)
  <2>1. /\ job.op = name /\ job.visit = Now /\ job.over = FALSE /\ job.deaf = FALSE
        /\ job.at = at /\ job.out = out /\ job.res = res
    OBVIOUS
  <2> HIDE DEF job
  <2> QED BY <2>1 DEF IsNew, IsFresh
<1> HIDE DEF job
<1>5. t.view = Here.view /\ t.rows = Here.rows /\ t.dirty = Here.dirty
  <2> HIDE DEF flags
  <2> QED BY <1>1 DEF IsScope
<1> HIDE DEF t
<1>6. /\ Len(visits') = Now /\ visits'[Now] = t
      /\ \A k \in 1 .. Now : k # Now => visits'[k] = visits[k]
  BY <1>1, <1>3, SeqExcept
<1>7. Now' = Now /\ Here' = t
  BY <1>6 DEF Now, Here
<1>8. ViewsKept
  BY <1>1, <1>5, <1>6, <1>7 DEF ViewsKept, Here
<1>9. /\ IsSeq(jobs') /\ Len(jobs') = Len(jobs) + 1 /\ jobs'[Len(jobs) + 1] = job
      /\ \A k \in 1 .. Len(jobs) : jobs'[k] = jobs[k]
  BY <1>1, <1>2, SeqAppend
<1> QED BY <1>2, <1>4, <1>5, <1>7, <1>8, <1>9

\* The first requests of what starts in the open view
LEMMA FirstRequests ==
  ASSUME VisitsInv, AimedInv, NEW name \in DOMAIN Here.view.ops, NEW items, Fits(Here.view.ops[name], items),
         NEW job, IsNew(job, name, items)
  PROVE  LET op == Here.view.ops[name]
         IN  /\ Paced(job, op) /\ Told(job, op, done) /\ OnTarget(job, op, Here.view.aims)
             /\ IsAimed(FirstSent(op, Begun(op, items)).a, Here.view.aims)
<1> DEFINE view  == Here.view
           op    == view.ops[name]
           begun == Begun(op, items)
           sent  == FirstSent(op, begun).sent
<1>1. Respects(view, name) /\ AimsRight(view, op) /\ IsProper(op)
  <2>1. view \in Known
    BY SeqDomain DEF VisitsInv, IsScope, Here, Now
  <2>2. Respects(view, name)
    BY <2>1, KnownViews
  <2>3. IsProper(op)
    BY <2>2, ChainsProper
  <2> QED BY <2>2, <2>3 DEF Respects
<1>2. /\ IsFiniteSet(items) /\ items # {}
      /\ op.over \in {"new", "this"} => \E k : items = {k}
      /\ op.over = "this" => items = {This}
      /\ op.aims /\ op.over = "all" => \A i, k \in items : NodeOf[i] = NodeOf[k]
  BY DEF Fits
<1>3. IsFresh(job, op, items, sent)
  BY DEF IsNew
<1>4. Paced(job, op) /\ Told(job, op, done)
  <2>1. sent = Decorated(Targets(op, begun), begun, op.chain[1]).sent
    BY DEF FirstSent
  <2> HIDE DEF op, sent
  <2> QED BY <1>1, <1>2, <1>3, <2>1, FreshIsPaced
<1>5. IsSeq(begun) /\ Len(begun) >= 1 /\ Len(begun) \in Nat /\ \A k \in 1 .. Len(begun) : begun[k] \in items
  <2> HIDE DEF op
  <2> QED BY <1>2, BegunWith, SeqDomain
<1> HIDE DEF begun
<1>6. /\ IsAimed(FirstSent(op, begun).a, view.aims)
      /\ \A r \in sent : ToNode(r, view.aims, op.aims)
  <2>1. op.over = "this" => \A k \in 1 .. Len(begun) : begun[k] = This
    BY <1>2, <1>5
  <2>2. op.aims /\ op.over = "all" => \A k \in 1 .. Len(begun) : NodeOf[begun[k]] = NodeOf[begun[1]]
    <3>1. 1 \in 1 .. Len(begun)
      BY <1>5
    <3> QED BY <1>2, <1>5, <3>1
  <2>3. IsAimed(aimed, view.aims)
    BY DEF AimedInv
  <2> HIDE DEF op, view
  <2> QED BY <1>1, <1>5, <2>1, <2>2, <2>3, FirstToNode
<1>7. OnTarget(job, op, view.aims)
  <2> HIDE DEF sent
  <2>1. \A k \in DOMAIN job.out : job.out[k] \subseteq sent
    BY <1>3 DEF IsFresh
  <2> QED BY <1>6, <2>1 DEF OnTarget
<1> QED BY <1>4, <1>6, <1>7 DEF begun

LEMMA StartProgress ==
  ASSUME IInv, ProgressInv, NEW name \in DOMAIN Here.view.ops, NEW items, Fits(Here.view.ops[name], items),
         Started(name, items), dialog' = {}
  PROVE  ProgressInv'
<1> DEFINE op == Here.view.ops[name]
<1>0. PICK n \in Nat : n = Len(jobs) + 1
  BY SeqDomain DEF IInv, JobsInv
<1>1. /\ VisitsInv /\ JobsInv /\ PacedInv /\ TargetInv /\ AimedInv /\ Len(jobs) \in Nat
  BY SeqDomain DEF IInv, ProgressInv, JobsInv
<1>2. /\ Now' = Now /\ Here'.view = Here.view /\ ViewsKept /\ done' = done
      /\ aimed' = FirstSent(op, Begun(op, items)).a
      /\ Len(jobs') = n /\ \A k \in 1 .. Len(jobs) : jobs'[k] = jobs[k]
      /\ IsNew(jobs'[n], name, items)
  BY <1>0, <1>1, StartedShape
<1>3. /\ Paced(jobs'[n], op) /\ Told(jobs'[n], op, done) /\ OnTarget(jobs'[n], op, Here.view.aims)
      /\ IsAimed(aimed', Here.view.aims)
  <2>1. IsNew(jobs'[n], name, items)
    BY <1>2
  <2>2. PICK job : job = jobs'[n]
    OBVIOUS
  <2>3. /\ Paced(job, op) /\ Told(job, op, done) /\ OnTarget(job, op, Here.view.aims)
        /\ IsAimed(FirstSent(op, Begun(op, items)).a, Here.view.aims)
    BY <1>1, <2>1, <2>2, FirstRequests
  <2> QED BY <1>2, <2>2, <2>3
<1>4. OpOf(n)' = op
  <2>1. jobs'[n].op = name /\ jobs'[n].visit = Now
    BY <1>2 DEF IsNew
  <2>2. visits'[Now].view = Here.view
    BY <1>2 DEF Here
  <2> QED BY <2>1, <2>2 DEF OpOf, ViewOf
<1>5. \A k \in 1 .. Len(jobs) : OpOf(k)' = OpOf(k)
  <2> TAKE k \in 1 .. Len(jobs)
  <2>1. JobInv(k) /\ jobs'[k] = jobs[k]
    BY <1>1, <1>2 DEF JobsInv
  <2> QED BY <1>1, <1>2, <2>1, OpsKept
<1>6. \A k \in 1 .. n : k = n \/ k \in 1 .. Len(jobs)
  BY <1>0, <1>1
<1>7. PacedInv'
  BY <1>1, <1>2, <1>3, <1>4, <1>5, <1>6 DEF PacedInv
<1>8. TargetInv'
  BY <1>1, <1>2, <1>3, <1>4, <1>5, <1>6 DEF TargetInv
<1>9. AimedInv' /\ FitInv'
  BY <1>2, <1>3 DEF AimedInv, FitInv
<1> QED BY <1>7, <1>8, <1>9 DEF ProgressInv

LEMMA ProgressInitially == Init => ProgressInv
<1> SUFFICES ASSUME Init
             PROVE  ProgressInv
  OBVIOUS
<1>1. PICK view \in Views : visits = <<Scope(view)>> /\ aimed = Opening(view)
  BY DEF Init
<1>2. Here.view = view
  <2>1. Here = Scope(view)
    BY <1>1, SeqOfOne DEF Now, Here
  <2> QED BY <2>1, ScopesAreNew DEF Known
<1>3. Len(jobs) = 0 /\ dialog = {}
  BY DEF Init
<1>4. 1 .. 0 = {}
  OBVIOUS
<1>5. AimedInv
  <2>1. view \in Known
    BY DEF Known
  <2>2. aimed = [queue |-> <<>>, last |-> IF view.aims THEN NodeOf[This] ELSE None]
    BY <1>1, <2>1, TargetsOpened
  <2> QED BY <1>2, <2>2 DEF AimedInv, IsAimed
<1> QED BY <1>3, <1>4, <1>5 DEF ProgressInv, PacedInv, TargetInv, FitInv

LEMMA EachProgress == IInv /\ ProgressInv /\ [Next]_vars => ProgressInv'
<1> SUFFICES ASSUME IInv, ProgressInv, [Next]_vars
             PROVE  ProgressInv'
  OBVIOUS
<1>1. /\ VisitsInv /\ JobsInv /\ AskedInv /\ FlagInv /\ EndpointInv /\ DialogInv /\ faults \in 0 .. MaxFaults
      /\ FitInv /\ DOMAIN visits = 1 .. Now /\ DOMAIN jobs = 1 .. Len(jobs)
      /\ IsScope(Here) /\ Now \in 1 .. Now
  BY SeqDomain DEF IInv, VisitsInv, JobsInv, ProgressInv, Now, Here
<1>2. ASSUME UNCHANGED <<visits, jobs, done, aimed>>, FitInv'
      PROVE  ProgressInv'
  BY <1>2 DEF ProgressInv, PacedInv, TargetInv, AimedInv, OpOf, ViewOf, Here, Now
<1>3. CASE Start
  <2>1. PICK name \in DOMAIN Here.view.ops : \E items \in Chosen(Here.view.ops[name]) :
          dialog = {} /\ dialog' = dialog /\ Started(name, items)
    BY <1>3 DEF Start, Enabled
  <2>2. PICK items \in Chosen(Here.view.ops[name]) : dialog' = {} /\ Started(name, items)
    BY <2>1
  <2>3. Fits(Here.view.ops[name], items)
    BY <1>1, ChosenFit
  <2> QED BY <2>2, <2>3, StartProgress
<1>4. CASE Ask
  <2>1. UNCHANGED <<visits, jobs, done, aimed>>
    BY <1>4 DEF Ask
  <2>2. PICK name \in DOMAIN Here.view.ops : \E items \in Chosen(Here.view.ops[name]) : dialog' = {[op |-> name, items |-> items]}
    BY <1>4 DEF Ask
  <2>3. PICK items \in Chosen(Here.view.ops[name]) : dialog' = {[op |-> name, items |-> items]}
    BY <2>2
  <2>4. Fits(Here.view.ops[name], items)
    BY <1>1, ChosenFit
  <2>5. FitInv'
    BY <2>1, <2>3, <2>4 DEF FitInv, Here, Now
  <2> QED BY <1>2, <2>1, <2>5
<1>5. CASE Confirm
  <2>1. PICK d \in dialog : Started(d.op, d.items) /\ dialog' = {}
    BY <1>5 DEF Confirm
  <2>2. d.op \in DOMAIN Here.view.ops
    BY <1>1, <2>1 DEF DialogInv
  <2>3. Fits(Here.view.ops[d.op], d.items)
    BY <1>1 DEF FitInv
  <2> QED BY <2>1, <2>2, <2>3, StartProgress
<1>6. CASE Cancel
  BY <1>2, <1>6 DEF Cancel, FitInv
<1>7. CASE Answered
  <2>1. PICK flags : Onward(flags)
    BY <1>1, <1>7, AnsweredKeeps
  <2>2. PICK j \in 1 .. Len(jobs) : \E i \in DOMAIN jobs[j].out : \E r \in jobs[j].out[i] :
          Succeeded(j, i, r) \/ Failed(j, i, r)
    BY <1>1, <1>7 DEF Answered
  <2>3. PICK i \in DOMAIN jobs[j].out : \E r \in jobs[j].out[i] : Succeeded(j, i, r) \/ Failed(j, i, r)
    BY <2>2
  <2>4. PICK r \in jobs[j].out[i] : Succeeded(j, i, r) \/ Failed(j, i, r)
    BY <2>3
  <2>5. PICK c : Answer(j, i, r, c)
    BY <2>4, Answering
  <2> QED BY <2>1, <2>5, AnswerProgress
<1>8. CASE Loaded
  <2>1. PICK v \in 1 .. Now : LoadAnswered(v) \/ LoadFailed(v)
    BY <1>1, <1>8 DEF Loaded
  <2>2. Onward(Here.flags) /\ Arrived(aimed, Here.rows \cup ShownBy(Here.view), Here.dirty)
    BY <1>1, <2>1, LoadsKeep
  <2>3. UNCHANGED <<jobs, done>>
    BY <2>1 DEF LoadAnswered, LoadFailed
  <2> QED BY <1>1, <2>2, <2>3, IdleProgress
<1>9. CASE Toggle \/ Edit \/ Leave \/ \E v \in DOMAIN visits : Polled(v)
  <2>1. Onward(Here.flags) /\ \E dirty \in {Here.dirty, TRUE} : Arrived(aimed, Here.rows, dirty)
    BY <1>1, <1>9, OthersKeep
  <2>2. UNCHANGED <<jobs, done>>
    BY <1>9, Zenon DEF Toggle, Edit, Leave, Polled
  <2> QED BY <1>1, <2>1, <2>2, IdleProgress
<1>10. CASE UNCHANGED vars
  BY <1>1, <1>2, <1>10 DEF vars, FitInv, Here, Now
<1> QED BY <1>3, <1>4, <1>5, <1>6, <1>7, <1>8, <1>9, <1>10 DEF Next

\* However requests are answered, each operation is at one step of its chain for each of
\* its objects, what it has changed is known, and its requests go to their nodes.
THEOREM Progress == Spec => [](IInv /\ ProgressInv)
<1>1. Init => IInv /\ ProgressInv
  BY Initially, ProgressInitially
<1>2. IInv /\ ProgressInv /\ [Next]_vars => (IInv /\ ProgressInv)'
  BY EachStep, EachProgress
<1> QED BY <1>1, <1>2, PTL DEF Spec

-----------------------------------------------------------------------------
(* The third layer: the rows of what is gone.                               *)

\* b is of an operation that has removed the object i, and not brought this to an end in
\* the open view, which is the visit now.
Misses(b, op, of, now, i) ==
  /\ i \in DOMAIN b.res /\ Removes(op, of)
  /\ b.visit = now /\ op.over \in {"row", "each", "sequence"} => b.res[i] # "done"

\* An operation that removes what the open view shows, and is over, has left it, unless
\* there are changes to discard, or a failure.
Remains(b, op, of, now, dirty) ==
  b.visit = now /\ b.over /\ Removes(op, of) /\ op.over # "row" =>
    dirty \/ (op.over \in {"all", "this"} /\ \E k \in DOMAIN b.res : b.res[k] = "failed")

GoneInv == \A i \in Here.rows : ~Exists(Here.view.of, i) =>
             \E j \in 1 .. Len(jobs) : Misses(jobs[j], OpOf(j), Here.view.of, Now, i)
LeftInv == Here.view.state # "docker.volumes.volume.snapshot" =>
             \A j \in 1 .. Len(jobs) : Remains(jobs[j], OpOf(j), Here.view.of, Now, Here.dirty)

RowsInv == GoneInv /\ LeftInv

\* A view that opens shows nothing yet, and no operation is of it.
LEMMA NewRows ==
  ASSUME VisitsInv, JobsInv, Now' = Now + 1, Here'.rows = {}, Len(jobs') = Len(jobs),
         \A k \in 1 .. Len(jobs) : jobs'[k].visit = jobs[k].visit
  PROVE  RowsInv'
<1>1. Now \in Nat
  BY SeqDomain DEF VisitsInv, Now
<1>2. \A k \in 1 .. Len(jobs) : jobs'[k].visit # Now'
  <2> TAKE k \in 1 .. Len(jobs)
  <2>1. jobs[k].visit \in 1 .. Now
    BY DEF JobsInv, JobInv
  <2> QED BY <1>1, <2>1
<1>3. GoneInv'
  BY DEF GoneInv
<1>4. LeftInv'
  BY <1>2 DEF LeftInv, Remains
<1> QED BY <1>3, <1>4 DEF RowsInv

\* Nothing is answered to the operations: what is shown is there.
LEMMA IdleRows ==
  ASSUME VisitsInv, JobsInv, RowsInv, NEW flags, Onward(flags), UNCHANGED <<jobs, done>>,
         NEW rows, rows \subseteq Here.rows \cup ShownBy(Here.view),
         NEW dirty \in {Here.dirty, TRUE}, Arrived(aimed, rows, dirty)
  PROVE  RowsInv'
<1>1. Now \in Nat /\ ViewsKept
  BY SeqDomain DEF VisitsInv, Now, Onward
<1>2. CASE Now' = Now + 1
  <2>1. Here'.rows = {}
    BY <1>1, <1>2 DEF Arrived
  <2> QED BY <1>2, <2>1, NewRows
<1>3. CASE Now' = Now
  <2>1. Here'.rows \subseteq rows /\ Here'.dirty = dirty /\ Here'.view = Here.view
    BY <1>1, <1>3 DEF Arrived, Onward
  <2>2. \A k \in 1 .. Len(jobs) : OpOf(k)' = OpOf(k)
    <3> TAKE k \in 1 .. Len(jobs)
    <3>1. JobInv(k)
      BY DEF JobsInv
    <3> QED BY <1>1, <3>1, OpsKept
  <2>3. GoneInv'
    <3> SUFFICES ASSUME NEW i \in Here'.rows, ~Exists(Here.view.of, i)'
                 PROVE  \E k \in 1 .. Len(jobs) : Misses(jobs[k], OpOf(k), Here.view.of, Now, i)
      BY <1>3, <2>1, <2>2 DEF GoneInv
    <3>1. ~Exists(Here.view.of, i)
      BY <2>1 DEF Exists
    <3>2. i \notin ShownBy(Here.view)
      BY <3>1 DEF ShownBy
    <3> QED BY <2>1, <3>1, <3>2 DEF RowsInv, GoneInv
  <2>4. LeftInv'
    BY <1>3, <2>1, <2>2 DEF RowsInv, LeftInv, Remains
  <2> QED BY <2>3, <2>4 DEF RowsInv
<1> QED BY <1>2, <1>3 DEF Arrived

LEMMA StartRows ==
  ASSUME IInv, RowsInv, NEW name \in DOMAIN Here.view.ops, NEW items, Started(name, items)
  PROVE  RowsInv'
<1>0. PICK n \in Nat : n = Len(jobs) + 1
  BY SeqDomain DEF IInv, JobsInv
<1>1. VisitsInv /\ JobsInv /\ Len(jobs) \in Nat
  BY SeqDomain DEF IInv, JobsInv
<1>2. /\ Now' = Now /\ Here'.view = Here.view /\ Here'.rows = Here.rows /\ Here'.dirty = Here.dirty /\ ViewsKept
      /\ done' = done
      /\ Len(jobs') = n /\ \A k \in 1 .. Len(jobs) : jobs'[k] = jobs[k]
      /\ IsNew(jobs'[n], name, items)
  BY <1>0, <1>1, StartedShape
<1>3. jobs'[n].over = FALSE
  BY <1>2 DEF IsNew, IsFresh
<1>4. \A k \in 1 .. Len(jobs) : OpOf(k)' = OpOf(k)
  <2> TAKE k \in 1 .. Len(jobs)
  <2>1. JobInv(k) /\ jobs'[k] = jobs[k]
    BY <1>1, <1>2 DEF JobsInv
  <2> QED BY <1>1, <1>2, <2>1, OpsKept
<1>5. (\A k \in 1 .. n : k = n \/ k \in 1 .. Len(jobs)) /\ \A k \in 1 .. Len(jobs) : k \in 1 .. n
  BY <1>0, <1>1
<1>6. GoneInv'
  <2> SUFFICES ASSUME NEW i \in Here.rows, ~Exists(Here.view.of, i)'
               PROVE  \E k \in 1 .. n : Misses(jobs'[k], OpOf(k)', Here.view.of, Now, i)
    BY <1>2 DEF GoneInv
  <2>1. ~Exists(Here.view.of, i)
    BY <1>2 DEF Exists
  <2>2. PICK k \in 1 .. Len(jobs) : Misses(jobs[k], OpOf(k), Here.view.of, Now, i)
    BY <2>1 DEF RowsInv, GoneInv
  <2> QED BY <1>2, <1>4, <1>5, <2>2
<1>7. LeftInv'
  <2>1. ASSUME Here.view.state # "docker.volumes.volume.snapshot", NEW k \in 1 .. n
        PROVE  Remains(jobs'[k], OpOf(k)', Here.view.of, Now, Here.dirty)
    <3>1. CASE k = n
      BY <1>3, <3>1 DEF Remains
    <3>2. CASE k \in 1 .. Len(jobs)
      BY <1>2, <1>4, <2>1, <3>2 DEF RowsInv, LeftInv
    <3> QED BY <1>5, <3>1, <3>2
  <2> QED BY <1>2, <2>1 DEF LeftInv
<1> QED BY <1>6, <1>7 DEF RowsInv

\* What an answer does to the rows and to what has become of the objects: nothing, or
\* that one of them is through, or has failed.
Rests(b, c) == c.res = b.res /\ c.over = b.over /\ UNCHANGED visits
Ended(b, c, op, i, result) ==
  /\ b.res[i] = "runs" /\ c.res = [b.res EXCEPT ![i] = result] /\ c.over = Ends(b, c, op, result)
  /\ b.visit = Now =>
       /\ \/ Now' = Now + 1 /\ Here'.rows = {}
          \/ Now' = Now /\ Here'.rows \subseteq RowsLeft(op, result, i, Here.rows) /\ Here'.dirty = Dirty(Here, op, result)
       /\ Leads(op, c, result, b.over) \in Routes \cup {Reload} /\ ~Dirty(Here, op, result) => Now' = Now + 1
  /\ b.visit # Now => \/ Now' = Now + 1 /\ Here'.rows = {}
                      \/ Now' = Now /\ Here'.rows \subseteq Here.rows /\ Here'.dirty = Here.dirty

LEMMA AnswerShape ==
  ASSUME IInv, ProgressInv, NEW j \in 1 .. Len(jobs), NEW i \in DOMAIN jobs[j].out, NEW r \in jobs[j].out[i],
         NEW c, Answer(j, i, r, c)
  PROVE  /\ i \in DOMAIN jobs[j].res /\ jobs[j].res[i] # "done"
         /\ \E q \in UNION Range(OpOf(j).chain) : Echoes(r, q, i)
         /\ Len(jobs') = Len(jobs) /\ jobs'[j] = c /\ (\A k \in 1 .. Len(jobs) : k # j => jobs'[k] = jobs[k])
         /\ c.op = jobs[j].op /\ c.visit = jobs[j].visit
         /\ done' = done \/ done' = done \cup {<<r.do, r.on, i>>}
         /\ Rests(jobs[j], c) \/ \E result \in {"done", "failed"} : Ended(jobs[j], c, OpOf(j), i, result)
<1> DEFINE op   == OpOf(j)
           b    == jobs[j]
           h    == Heard(b, i, r)
<1>1. /\ JobsInv /\ IsJob(b) /\ IsProper(op) /\ Paced(b, op) /\ Told(b, op, done)
  BY OpsRespect DEF IInv, ProgressInv, PacedInv
<1>2. /\ Replaced(jobs', jobs, j, c) /\ c.op = b.op /\ c.visit = b.visit
      /\ done' = done \/ done' = done \cup {<<r.do, r.on, i>>}
  BY DEF Answer, Goes
<1>3. /\ i \in DOMAIN b.res /\ PacedAt(b, op, i)
      /\ b.at[i] \in 1 .. Len(op.chain) /\ b.res[i] # "done"
  <2> HIDE DEF b, op
  <2> QED BY <1>1, OnlyOfSteps DEF b
<1>4. \E q \in UNION Range(op.chain) : Echoes(r, q, i)
  <2>1. PICK q \in op.chain[b.at[i]] : Echoes(r, q, i)
    BY <1>3 DEF PacedAt
  <2>2. op.chain[b.at[i]] \in Range(op.chain)
    BY <1>1, <1>3 DEF IsProper, Range
  <2> QED BY <2>1, <2>2
<1>5. /\ Len(jobs') = Len(jobs) /\ jobs'[j] = c /\ (\A k \in 1 .. Len(jobs) : k # j => jobs'[k] = jobs[k])
  BY <1>1, <1>2, SeqExcept DEF JobsInv
<1>6. /\ h.res = b.res /\ h.over = b.over
  <2> HIDE DEF b, h
  <2>1. SameBut(h, b)
    BY <1>1, HeardIs DEF h, b
  <2> QED BY <2>1 DEF SameBut
<1>7. Rests(b, c) \/ \E result \in {"done", "failed"} : Ended(b, c, op, i, result)
  <2>1. CASE UNCHANGED visits /\ c.res = b.res /\ c.over = b.over
    BY <2>1 DEF Rests
  <2>2. CASE \E result \in {"done", "failed"} : MaySettle(b, i, r, op, result) /\ Settlement(j, i, result, h, c)
    <3>1. PICK result \in {"done", "failed"} : MaySettle(b, i, r, op, result) /\ Settlement(j, i, result, h, c)
      BY <2>2
    <3>2. b.res[i] = "runs"
      BY <1>1, <1>3, <3>1 DEF MaySettle, IsJob
    <3>3. c.res = [b.res EXCEPT ![i] = result] /\ c.over = Ends(b, c, op, result)
      BY <1>6, <3>1 DEF Settlement, Settling, Ends
    <3>4. b.visit = Now =>
            /\ \/ Now' = Now + 1 /\ Here'.rows = {}
               \/ Now' = Now /\ Here'.rows \subseteq RowsLeft(op, result, i, Here.rows) /\ Here'.dirty = Dirty(Here, op, result)
            /\ Leads(op, c, result, b.over) \in Routes \cup {Reload} /\ ~Dirty(Here, op, result) => Now' = Now + 1
      BY <3>1 DEF Settlement, Arrived
    <3>5. b.visit # Now => \/ Now' = Now + 1 /\ Here'.rows = {}
                           \/ Now' = Now /\ Here'.rows \subseteq Here.rows /\ Here'.dirty = Here.dirty
      BY <3>1 DEF Settlement, Arrived
    <3> HIDE DEF b, op
    <3> QED BY <3>2, <3>3, <3>4, <3>5 DEF Ended
  <2> QED BY <2>1, <2>2 DEF Answer, Goes, Loses, StepsOn
<1> QED BY <1>2, <1>3, <1>4, <1>5, <1>7

\* What is gone and still shown has been removed by an operation that has not ended here.
LEMMA AnswerGone ==
  ASSUME IInv, GoneInv, NEW j \in 1 .. Len(jobs), NEW i \in DOMAIN jobs[j].res, jobs[j].res[i] # "done", NEW r, NEW c,
         \E q \in UNION Range(OpOf(j).chain) : Echoes(r, q, i),
         Len(jobs') = Len(jobs), jobs'[j] = c, \A k \in 1 .. Len(jobs) : k # j => jobs'[k] = jobs[k],
         c.op = jobs[j].op, c.visit = jobs[j].visit,
         done' = done \/ done' = done \cup {<<r.do, r.on, i>>},
         Rests(jobs[j], c) \/ \E result \in {"done", "failed"} : Ended(jobs[j], c, OpOf(j), i, result),
         Now' = Now, Here'.view = Here.view, \A k \in 1 .. Len(jobs) : OpOf(k)' = OpOf(k)
  PROVE  GoneInv'
<1> DEFINE op == OpOf(j)
           b  == jobs[j]
           of == Here.view.of
<1>1. Now \in Nat /\ Now # Now + 1
  BY SeqDomain DEF IInv, VisitsInv, Now
<1>2. /\ DOMAIN c.res = DOMAIN b.res /\ \A k \in DOMAIN b.res : k # i => c.res[k] = b.res[k]
      /\ Here'.rows \subseteq Here.rows
      /\ Removes(op, of) /\ b.visit = Now /\ op.over \in {"row", "each", "sequence"} =>
           c.res[i] # "done" \/ i \notin Here'.rows
  <2>1. CASE Rests(b, c)
    <3>1. Here' = Here
      BY <2>1 DEF Rests, Here, Now
    <3> QED BY <2>1, <3>1 DEF Rests
  <2>2. CASE \E result \in {"done", "failed"} : Ended(b, c, op, i, result)
    <3>1. PICK result \in {"done", "failed"} : Ended(b, c, op, i, result)
      BY <2>2
    <3>2. /\ DOMAIN c.res = DOMAIN b.res /\ c.res[i] = result /\ \A k \in DOMAIN b.res : k # i => c.res[k] = b.res[k]
      BY <3>1 DEF Ended
    <3>3. Here'.rows \subseteq Here.rows
      BY <1>1, <3>1 DEF Ended, RowsLeft
    <3>4. ASSUME Removes(op, of), b.visit = Now, op.over \in {"row", "each", "sequence"}, result = "done"
          PROVE  i \notin Here'.rows
      <4>1. \E n \in DOMAIN op.chain : \E q \in op.chain[n] : q.do = "delete"
        BY <3>4 DEF Removes, Range
      <4>2. Here'.rows \subseteq RowsLeft(op, result, i, Here.rows)
        BY <1>1, <3>1, <3>4 DEF Ended
      <4> HIDE DEF op
      <4> QED BY <3>4, <4>1, <4>2 DEF RowsLeft
    <3> QED BY <3>2, <3>3, <3>4
  <2> QED BY <2>1, <2>2
<1> SUFFICES ASSUME NEW x \in Here'.rows, ~Exists(of, x)'
             PROVE  \E k \in 1 .. Len(jobs) : Misses(jobs'[k], OpOf(k), of, Now, x)
  BY DEF GoneInv
<1>3. CASE ~Exists(of, x)
  <2>1. PICK k \in 1 .. Len(jobs) : Misses(jobs[k], OpOf(k), of, Now, x)
    BY <1>2, <1>3 DEF GoneInv
  <2>2. CASE k # j
    BY <2>1, <2>2
  <2>3. CASE k = j
    <3>1. Misses(b, op, of, Now, x)
      BY <2>1, <2>3
    <3> HIDE DEF b, op, of
    <3>2. Misses(c, op, of, Now, x)
      BY <1>2, <3>1 DEF Misses, b
    <3> QED BY <3>2 DEF op
  <2> QED BY <2>2, <2>3
<1>4. CASE Exists(of, x)
  <2>1. <<"delete", of, x>> = <<r.do, r.on, i>>
    BY <1>4 DEF Exists
  <2>2. x = i /\ Removes(op, of)
    <3>1. PICK q \in UNION Range(op.chain) : Echoes(r, q, i)
      OBVIOUS
    <3> HIDE DEF op, of
    <3> QED BY <2>1, <3>1 DEF Echoes, Removes
  <2> HIDE DEF op, of
  <2>3. Misses(c, op, of, Now, x)
    BY <1>2, <2>2 DEF Misses, b
  <2> QED BY <2>3 DEF op
<1> QED BY <1>3, <1>4

LEMMA AnswerLeft ==
  ASSUME IInv, ProgressInv, LeftInv, NEW j \in 1 .. Len(jobs), NEW i \in DOMAIN jobs[j].res, NEW c,
         Len(jobs') = Len(jobs), jobs'[j] = c, \A k \in 1 .. Len(jobs) : k # j => jobs'[k] = jobs[k],
         c.op = jobs[j].op, c.visit = jobs[j].visit,
         Rests(jobs[j], c) \/ \E result \in {"done", "failed"} : Ended(jobs[j], c, OpOf(j), i, result),
         Now' = Now, Here'.view = Here.view, \A k \in 1 .. Len(jobs) : OpOf(k)' = OpOf(k)
  PROVE  LeftInv'
<1> DEFINE op == OpOf(j)
           b  == jobs[j]
           view == Here.view
           of == view.of
<1>1. Now \in Nat /\ Now # Now + 1 /\ JobsInv /\ VisitsInv /\ IsScope(Here)
  BY SeqDomain DEF IInv, VisitsInv, Now, Here
<1> SUFFICES ASSUME view.state # "docker.volumes.volume.snapshot", NEW k \in 1 .. Len(jobs),
                    jobs'[k].visit = Now, jobs'[k].over, Removes(OpOf(k), of), OpOf(k).over # "row", ~Here'.dirty
             PROVE  OpOf(k).over \in {"all", "this"} /\ \E x \in DOMAIN jobs'[k].res : jobs'[k].res[x] = "failed"
  BY DEF LeftInv, Remains
<1>2. jobs[k].visit = Now /\ ViewOf(k) = view /\ LeavesNoRow(view, OpOf(k))
  <2>1. jobs[k].visit = Now
    BY DEF Ended
  <2>2. ViewOf(k) = view
    BY <2>1 DEF ViewOf, Here
  <2>3. Respects(ViewOf(k), jobs[k].op)
    BY <1>1, OpsRespect
  <2>4. LeavesNoRow(ViewOf(k), OpOf(k))
    BY <2>3, Zenon DEF Respects, OpOf
  <2> QED BY <2>1, <2>2, <2>4
<1>3. /\ OpOf(k).over \in {"each", "sequence", "this", "all"} /\ OpOf(k).then \in Routes \cup {Reload}
      /\ \A name \in DOMAIN view.ops : view.edits /\ view.ops[name].saves =>
           view.ops[name].over \in {"new", "this"} /\ view.ops[name].then \in Routes \cup {Reload}
  BY <1>2 DEF LeavesNoRow
<1>4. Remains(jobs[k], OpOf(k), of, Now, Here.dirty)
  BY DEF LeftInv
<1>5. CASE Rests(b, c)
  <2>1. Here' = Here
    BY <1>5 DEF Rests, Here, Now
  <2>2. jobs'[k].res = jobs[k].res /\ jobs'[k].over = jobs[k].over
    BY <1>5 DEF Rests
  <2> QED BY <1>2, <1>4, <2>1, <2>2 DEF Remains
<1>6. CASE \E result \in {"done", "failed"} : Ended(b, c, op, i, result)
  <2>1. PICK result \in {"done", "failed"} : Ended(b, c, op, i, result)
    BY <1>6
  <2>2. /\ DOMAIN c.res = DOMAIN b.res /\ c.res[i] = result /\ \A x \in DOMAIN b.res : x # i => c.res[x] = b.res[x]
        /\ b.res[i] = "runs" /\ c.over = Ends(b, c, op, result)
    BY <2>1 DEF Ended
  <2>3. Paced(b, op) /\ b.visit \in 1 .. Now /\ jobs[j].op \in DOMAIN ViewOf(j).ops
    BY <1>1, OpsRespect DEF ProgressInv, PacedInv, JobInv
  <2>4. op.over # "all" => ~b.over
    BY <2>2, <2>3 DEF Paced
  <2>5. ASSUME b.visit = Now, ~Dirty(Here, op, result), Leads(op, c, result, b.over) = op.then, op.then \in Routes \cup {Reload}
        PROVE  FALSE
    BY <1>1, <2>1, <2>5 DEF Ended
  <2>6. ASSUME result = "done", ~b.over, c.over
        PROVE  Leads(op, c, result, b.over) = op.then
    BY <2>6, LeadsSomewhere
  \* What has saved the changes has left the view.
  <2>7. ~Here.dirty
    <3> SUFFICES ASSUME Here.dirty PROVE FALSE
      OBVIOUS
    <3>1. b.visit = Now /\ ~Dirty(Here, op, result) /\ op.saves /\ result = "done"
      BY <1>1, <2>1 DEF Ended, Dirty
    <3>2. view.edits /\ op = view.ops[jobs[j].op] /\ jobs[j].op \in DOMAIN view.ops
      BY <1>1, <2>3, <3>1 DEF IsScope, OpOf, ViewOf, Here
    <3>3. op.over \in {"new", "this"} /\ op.then \in Routes \cup {Reload}
      BY <1>3, <3>1, <3>2
    <3>4. c.over
      <4>1. \A x \in DOMAIN c.res : x = i
        <5>1. PICK y : DOMAIN b.res = {y}
          BY <2>3, <3>3 DEF Paced
        <5> QED BY <2>2, <5>1
      <4> QED BY <2>2, <3>1, <4>1 DEF Ends
    <3>5. ~b.over
      BY <2>4, <3>3
    <3> QED BY <2>5, <2>6, <3>1, <3>3, <3>4, <3>5
  <2>8. CASE k # j
    BY <1>2, <1>4, <2>7, <2>8 DEF Remains
  <2>9. CASE k = j
    <3>1. b.visit = Now /\ c.over /\ op.over \in {"each", "sequence", "this", "all"} /\ op.then \in Routes \cup {Reload}
      BY <1>2, <1>3, <2>9
    <3>2. ~Dirty(Here, op, result)
      BY <2>7 DEF Dirty
    <3>3. CASE b.over
      <4>1. PICK x \in DOMAIN b.res : op.over \in {"all", "this"} /\ b.res[x] = "failed"
        BY <1>2, <1>4, <2>7, <2>9, <3>3 DEF Remains
      <4>2. x # i
        BY <2>2, <4>1
      <4> QED BY <2>2, <2>9, <4>1, <4>2
    <3>4. CASE ~b.over
      <4>1. CASE op.over \in {"each", "sequence"}
        <5>1. Leads(op, c, result, b.over) = op.then
          BY <3>1, <4>1 DEF Leads
        <5> QED BY <2>5, <3>1, <3>2, <5>1
      <4>2. CASE op.over \in {"this", "all"}
        <5>1. result # "done"
          BY <2>5, <2>6, <3>1, <3>2, <3>4
        <5> QED BY <2>2, <2>9, <4>2, <5>1
      <4> QED BY <3>1, <4>1, <4>2
    <3> QED BY <3>3, <3>4
  <2> QED BY <2>8, <2>9
<1> QED BY <1>5, <1>6

LEMMA AnswerRows ==
  ASSUME IInv, ProgressInv, RowsInv, NEW flags, Onward(flags),
         NEW j \in 1 .. Len(jobs), NEW i \in DOMAIN jobs[j].out, NEW r \in jobs[j].out[i],
         NEW c, Answer(j, i, r, c)
  PROVE  RowsInv'
<1>1. VisitsInv /\ JobsInv /\ GoneInv /\ LeftInv /\ Now \in Nat /\ ViewsKept
  BY SeqDomain DEF IInv, VisitsInv, Now, RowsInv, Onward
<1>2. /\ i \in DOMAIN jobs[j].res /\ jobs[j].res[i] # "done"
      /\ \E q \in UNION Range(OpOf(j).chain) : Echoes(r, q, i)
      /\ Len(jobs') = Len(jobs) /\ jobs'[j] = c /\ (\A k \in 1 .. Len(jobs) : k # j => jobs'[k] = jobs[k])
      /\ c.op = jobs[j].op /\ c.visit = jobs[j].visit
      /\ done' = done \/ done' = done \cup {<<r.do, r.on, i>>}
      /\ Rests(jobs[j], c) \/ \E result \in {"done", "failed"} : Ended(jobs[j], c, OpOf(j), i, result)
  BY AnswerShape
<1>3. \A k \in 1 .. Len(jobs) : jobs'[k].op = jobs[k].op /\ jobs'[k].visit = jobs[k].visit /\ OpOf(k)' = OpOf(k)
  <2> TAKE k \in 1 .. Len(jobs)
  <2>1. jobs'[k].op = jobs[k].op /\ jobs'[k].visit = jobs[k].visit
    BY <1>2
  <2>2. JobInv(k)
    BY <1>1 DEF JobsInv
  <2> QED BY <1>1, <2>1, <2>2, OpsKept
<1>4. CASE Now' = Now
  <2>1. Here'.view = Here.view
    BY <1>1, <1>4 DEF Onward
  <2>2. GoneInv'
    BY <1>1, <1>2, <1>3, <1>4, <2>1, AnswerGone
  <2>3. LeftInv'
    BY <1>1, <1>2, <1>3, <1>4, <2>1, AnswerLeft
  <2> QED BY <2>2, <2>3 DEF RowsInv
<1>5. CASE Now' = Now + 1
  <2>1. Here'.rows = {}
    BY <1>1, <1>2, <1>5 DEF Rests, Ended, Now
  <2> QED BY <1>1, <1>2, <1>3, <1>5, <2>1, NewRows
<1> QED BY <1>4, <1>5 DEF Onward

LEMMA EachRow == IInv /\ ProgressInv /\ RowsInv /\ [Next]_vars => RowsInv'
<1> SUFFICES ASSUME IInv, ProgressInv, RowsInv, [Next]_vars
             PROVE  RowsInv'
  OBVIOUS
<1>1. /\ VisitsInv /\ JobsInv /\ AskedInv /\ FlagInv /\ EndpointInv /\ DialogInv /\ faults \in 0 .. MaxFaults
      /\ DOMAIN visits = 1 .. Now /\ DOMAIN jobs = 1 .. Len(jobs)
  BY SeqDomain DEF IInv, VisitsInv, JobsInv, Now
<1>2. ASSUME UNCHANGED <<visits, jobs, done>>
      PROVE  RowsInv'
  BY <1>2 DEF RowsInv, GoneInv, LeftInv, OpOf, ViewOf, Here, Now, Exists
<1>3. CASE Start
  <2>1. PICK name \in DOMAIN Here.view.ops : \E items : Started(name, items)
    BY <1>3 DEF Start
  <2> QED BY <2>1, StartRows
<1>4. CASE Ask \/ Cancel
  BY <1>2, <1>4 DEF Ask, Cancel
<1>5. CASE Confirm
  <2>1. PICK d \in dialog : Started(d.op, d.items)
    BY <1>5 DEF Confirm
  <2>2. d.op \in DOMAIN Here.view.ops
    BY <1>1, <2>1 DEF DialogInv
  <2> QED BY <2>1, <2>2, StartRows
<1>6. CASE Answered
  <2>1. PICK flags : Onward(flags)
    BY <1>1, <1>6, AnsweredKeeps
  <2>2. PICK j \in 1 .. Len(jobs) : \E i \in DOMAIN jobs[j].out : \E r \in jobs[j].out[i] :
          Succeeded(j, i, r) \/ Failed(j, i, r)
    BY <1>1, <1>6 DEF Answered
  <2>3. PICK i \in DOMAIN jobs[j].out : \E r \in jobs[j].out[i] : Succeeded(j, i, r) \/ Failed(j, i, r)
    BY <2>2
  <2>4. PICK r \in jobs[j].out[i] : Succeeded(j, i, r) \/ Failed(j, i, r)
    BY <2>3
  <2>5. PICK c : Answer(j, i, r, c)
    BY <2>4, Answering
  <2> QED BY <2>1, <2>5, AnswerRows
<1>7. CASE Loaded
  <2>1. PICK v \in 1 .. Now : LoadAnswered(v) \/ LoadFailed(v)
    BY <1>1, <1>7 DEF Loaded
  <2>2. Onward(Here.flags) /\ Arrived(aimed, Here.rows \cup ShownBy(Here.view), Here.dirty)
    BY <1>1, <2>1, LoadsKeep
  <2>3. UNCHANGED <<jobs, done>>
    BY <2>1 DEF LoadAnswered, LoadFailed
  <2> QED BY <1>1, <2>2, <2>3, IdleRows
<1>8. CASE Toggle \/ Edit \/ Leave \/ \E v \in DOMAIN visits : Polled(v)
  <2>1. Onward(Here.flags) /\ \E dirty \in {Here.dirty, TRUE} : Arrived(aimed, Here.rows, dirty)
    BY <1>1, <1>8, OthersKeep
  <2>2. PICK dirty \in {Here.dirty, TRUE} : Arrived(aimed, Here.rows, dirty)
    BY <2>1
  <2>3. UNCHANGED <<jobs, done>>
    BY <1>8, Zenon DEF Toggle, Edit, Leave, Polled
  <2> QED BY <1>1, <2>1, <2>2, <2>3, IdleRows
<1>9. CASE UNCHANGED vars
  BY <1>2, <1>9 DEF vars
<1> QED BY <1>3, <1>4, <1>5, <1>6, <1>7, <1>8, <1>9 DEF Next

\* A row of an object that is gone stays only for an operation that has not ended in the
\* view, or has failed.
THEOREM RowsInvariance == Spec => [](IInv /\ ProgressInv /\ RowsInv)
<1>1. Init => RowsInv
  <2> SUFFICES ASSUME Init
               PROVE  RowsInv
    OBVIOUS
  <2>1. PICK view \in Views : visits = <<Scope(view)>>
    BY DEF Init
  <2>2. Here.rows = {}
    <3>1. Here = Scope(view)
      BY <2>1, SeqOfOne DEF Now, Here
    <3> QED BY <3>1, ScopesAreNew DEF Known
  <2>3. Len(jobs) = 0
    BY DEF Init
  <2>4. 1 .. 0 = {}
    OBVIOUS
  <2> QED BY <2>2, <2>3, <2>4 DEF RowsInv, GoneInv, LeftInv
<1>2. Init => IInv /\ ProgressInv /\ RowsInv
  BY <1>1, Initially, ProgressInitially
<1>3. IInv /\ ProgressInv /\ RowsInv /\ [Next]_vars => (IInv /\ ProgressInv /\ RowsInv)'
  BY EachStep, EachProgress, EachRow
<1> QED BY <1>2, <1>3, PTL DEF Spec

-----------------------------------------------------------------------------
(* What the runs check, for any views.                                     *)

\* The shapes of the state: rows are objects, a reading is at one of its steps, and of
\* each object of an operation it is known whether it is through.
THEOREM TypeCorrect == Spec => []TypeOK
<1>1. ASSUME IInv
      PROVE  TypeOK
  <2>1. /\ VisitsInv /\ JobsInv /\ DialogInv /\ faults \in 0 .. MaxFaults
        /\ DOMAIN visits = 1 .. Now /\ DOMAIN jobs = 1 .. Len(jobs)
    BY <1>1, SeqDomain DEF IInv, VisitsInv, JobsInv, Now
  <2>2. \A v \in DOMAIN visits : visits[v].rows \subseteq Items /\ visits[v].stage \in 0 .. Len(visits[v].view.load)
    BY <2>1 DEF VisitsInv, IsScope
  <2>3. ASSUME NEW j \in DOMAIN jobs
        PROVE  /\ DOMAIN jobs[j].out = DOMAIN jobs[j].res /\ jobs[j].visit \in DOMAIN visits
               /\ Range(jobs[j].res) \subseteq {"runs", "done", "failed"}
    <3>1. IsJob(jobs[j]) /\ jobs[j].visit \in 1 .. Now
      BY <2>1 DEF JobsInv, JobInv
    <3> QED BY <2>1, <3>1 DEF IsJob, Range
  <2>4. Cardinality(dialog) <= 1
    <3>1. CASE dialog = {}
      BY <3>1, FS_EmptySet
    <3>2. CASE \E d : dialog = {d}
      BY <3>2, FS_Singleton
    <3> QED BY <2>1, <3>1, <3>2 DEF DialogInv
  <2> QED BY <2>1, <2>2, <2>3, <2>4 DEF TypeOK
<1> QED BY <1>1, Invariance, PTL

\* No path through a controller leaves its buttons disabled: whatever becomes of an
\* operation, a flag of the open view is down again when it is over, or the view is left.
THEOREM FlagsComeDown == Spec => []FlagComesDown
<1>1. ASSUME IInv
      PROVE  FlagComesDown
  <2>1. FlagInv /\ DOMAIN jobs = 1 .. Len(jobs)
    BY <1>1, SeqDomain DEF IInv, JobsInv
  <2> QED BY <2>1 DEF FlagComesDown, FlagInv, Running
<1> QED BY <1>1, Invariance, PTL

\* No path through the loading of a view leaves it blank, but where only a success
\* shows it.
THEOREM NoViewStaysBlank == Spec => []ViewsGetReady
<1>1. ASSUME IInv
      PROVE  ViewsGetReady
  <2>1. IsScope(Here)
    BY <1>1, SeqDomain DEF IInv, VisitsInv, Here, Now
  <2> QED BY <2>1 DEF ViewsGetReady, IsScope
<1> QED BY <1>1, Invariance, PTL

\* $destroy cancels the interval of a view; one that still runs was set by an answer
\* that came after the view had been left.
THEOREM PollingEnds == Spec => []PollingStops
<1>1. ASSUME IInv
      PROVE  PollingStops
  BY <1>1, SeqDomain DEF IInv, VisitsInv, IsPast, PollingStops, Now
<1> QED BY <1>1, Invariance, PTL

\* Submitting an editor marks it as clean before the view is left, so uiCanExit does
\* not ask about what has just been saved, but in the view of a Kubernetes configuration.
THEOREM SavedIsNotAskedAbout == Spec => []NotAskedAfterSaving
<1>1. ASSUME IInv
      PROVE  NotAskedAfterSaving
  BY <1>1, SeqDomain DEF IInv, JobsInv, AskedInv, NotAskedAfterSaving
<1> QED BY <1>1, Invariance, PTL

\* EndpointProvider has the identifier of the user's endpoint again when the operation
\* that lent another one is over, but for the duplication of a stack that failed.
THEOREM EndpointComesBack == Spec => []EndpointRestored
<1>1. ASSUME IInv
      PROVE  EndpointRestored
  <2>1. EndpointInv /\ DOMAIN jobs = 1 .. Len(jobs)
    BY <1>1, SeqDomain DEF IInv, JobsInv
  <2>2. ASSUME NEW j \in 1 .. Len(jobs), Borrows(j)
        PROVE  \/ OpOf(j).lends # "never" /\ Running(j)
               \/ jobs[j].op = "duplicateStack" /\ "failed" \in Range(jobs[j].res)
    BY <2>2 DEF Borrows, Running, Range
  <2> QED BY <2>1, <2>2 DEF EndpointRestored, EndpointInv
<1> QED BY <1>1, Invariance, PTL

\* As long as a view is open, the agent target of a request is the node of the object
\* it is about, or the one the view was opened for: setPortainerAgentTargetHeader and the
\* interceptor keep them apart for any number of operations on any number of objects,
\* however their steps interleave.
THEOREM RequestsReachTheirNodes == Spec => []EachToItsNode
<1>1. ASSUME IInv, ProgressInv
      PROVE  EachToItsNode
  <2>1. VisitsInv /\ JobsInv /\ PacedInv /\ TargetInv /\ DOMAIN jobs = 1 .. Len(jobs)
    BY <1>1, SeqDomain DEF IInv, JobsInv, ProgressInv
  <2> SUFFICES ASSUME NEW j \in 1 .. Len(jobs), jobs[j].visit = Now, NEW i \in DOMAIN jobs[j].out, NEW r \in jobs[j].out[i],
                      r.on \in AgentKinds, OpOf(j).aims \/ ViewOf(j).aims
               PROVE  r.node = NodeOf[IF OpOf(j).aims THEN i ELSE This]
    BY <2>1, Zenon DEF EachToItsNode
  <2>2. ViewOf(j) = Here.view
    BY DEF ViewOf, Here
  <2>3. ToNode(r, Here.view.aims, OpOf(j).aims)
    BY <2>1 DEF TargetInv, OnTarget
  <2>4. r.item = i
    <3>1. i \in DOMAIN jobs[j].res
      BY <2>1 DEF JobsInv, JobInv, IsJob
    <3>2. PacedAt(jobs[j], OpOf(j), i)
      BY <2>1, <3>1 DEF PacedInv, Paced
    <3> QED BY <3>2 DEF PacedAt, Echoes
  <2> QED BY <2>2, <2>3, <2>4 DEF ToNode
<1> QED BY <1>1, Progress, PTL

\* A form that has reported the creation of an object under access control has applied
\* the control the user asked for, whatever became of its requests and of other operations.
THEOREM CreationsAreControlled == Spec => []CreatedIsControlled
<1>1. ASSUME IInv, ProgressInv
      PROVE  CreatedIsControlled
  <2>1. VisitsInv /\ JobsInv /\ PacedInv /\ DOMAIN jobs = 1 .. Len(jobs)
    BY <1>1, SeqDomain DEF IInv, JobsInv, ProgressInv
  <2> SUFFICES ASSUME NEW j \in 1 .. Len(jobs), NEW i \in DOMAIN jobs[j].res,
                      jobs[j].res[i] = "done", OpOf(j).over \in {"new", "copies"},
                      NEW s \in DOMAIN OpOf(j).chain, NEW r \in OpOf(j).chain[s], r.do = "create", r.on \in Controlled
               PROVE  <<"update", "resource_control", i>> \in done
    BY <2>1, Zenon DEF CreatedIsControlled
  <2> DEFINE op == OpOf(j)
             chain == op.chain
  <2>2. Controls(op) /\ IsProper(op)
    BY <2>1, OpsRespect DEF Respects, OpOf
  <2>3. r \in UNION Range(chain)
    BY DEF Range
  <2>4. PICK q \in UNION Range(chain) : q.do = "update" /\ q.on = "resource_control" /\ q.failure = "fails the chain"
    <3> HIDE DEF op, chain
    <3>1. \E x \in UNION Range(chain) : x.do = "create" /\ x.on \in Controlled
      BY <2>3 DEF chain, op
    <3>2. op.over \in {"new", "copies"}
      BY DEF op
    <3> QED BY <2>2, <3>1, <3>2 DEF Controls, Changes, chain
  <2>5. PICK n \in DOMAIN chain : q \in chain[n]
    BY <2>4 DEF Range
  <2>6. /\ PacedAt(jobs[j], op, i) /\ ToldAt(jobs[j], op, i, done)
    BY <2>1 DEF PacedInv, Paced, Told
  <2>7. jobs[j].out[i] = {} /\ n \in 1 .. jobs[j].at[i]
    BY <2>2, <2>5, <2>6 DEF PacedAt, IsProper
  <2> HIDE DEF op, chain
  <2>8. <<q.do, q.on, i>> \in done
    <3>1. q \in op.chain[n] /\ q.do # "read" /\ q.failure = "fails the chain"
      BY <2>4, <2>5 DEF chain
    <3> QED BY <2>6, <2>7, <3>1 DEF ToldAt
  <2> QED BY <2>4, <2>8
<1> QED BY <1>1, Progress, PTL

\* Each removal takes its row with it, or leaves the view or reads it again: when nothing
\* is under way and no failure was reported, the rows of the open view are objects that
\* exist, in every view of the application, but for those the property names.
THEOREM RowsAreThere == Spec => []RowsExist
<1>1. ASSUME IInv, ProgressInv, RowsInv
      PROVE  RowsExist
  <2>1. VisitsInv /\ JobsInv /\ PacedInv /\ GoneInv /\ LeftInv /\ DOMAIN jobs = 1 .. Len(jobs)
    BY <1>1, SeqDomain DEF IInv, JobsInv, ProgressInv, RowsInv
  <2> SUFFICES ASSUME ~Here.dirty, Here.view.state # "docker.volumes.volume.snapshot",
                      \A j \in 1 .. Len(jobs) :
                         /\ \A i \in DOMAIN jobs[j].out : jobs[j].out[i] = {}
                         /\ jobs[j].visit = Now
                         /\ ~(OpOf(j).over \in {"all", "this", "row"} /\ "failed" \in Range(jobs[j].res)),
                      NEW x \in Here.rows, ~Exists(Here.view.of, x)
               PROVE  FALSE
    BY <2>1 DEF RowsExist
  <2>2. PICK j \in 1 .. Len(jobs) : Misses(jobs[j], OpOf(j), Here.view.of, Now, x)
    BY <2>1 DEF GoneInv
  <2> DEFINE b == jobs[j]
             op == OpOf(j)
  <2>3. IsJob(b) /\ Paced(b, op) /\ LeavesNoRow(ViewOf(j), op) /\ b.visit = Now /\ IsProper(op)
    <3>1. Respects(ViewOf(j), jobs[j].op) /\ IsJob(b) /\ IsProper(op)
      BY <2>1, OpsRespect
    <3>2. LeavesNoRow(ViewOf(j), op)
      BY <3>1, Zenon DEF Respects, OpOf
    <3> QED BY <2>1, <3>1, <3>2 DEF PacedInv
  <2>4. ViewOf(j) = Here.view
    BY <2>3 DEF ViewOf, Here
  <2>5. op.over \in {"row", "each", "sequence", "this", "all"} /\ ~b.deaf
    <3>1. Removes(op, Here.view.of)
      BY <2>2 DEF Misses
    <3>2. /\ op.over \in {"row", "each", "sequence", "this", "all"}
          /\ \A step \in Range(op.chain) : \A r \in step : r.failure # "is lost"
      BY <2>3, <2>4, <3>1 DEF LeavesNoRow
    <3>3. ~b.deaf
      BY <2>3, <3>2 DEF Paced, Range, IsProper
    <3> QED BY <3>2, <3>3
  <2>6. b.over
    <3> SUFFICES ASSUME ~b.over PROVE FALSE
      OBVIOUS
    <3>1. PICK k \in DOMAIN b.res : b.res[k] = "runs" /\ b.at[k] # 0
      BY <2>3 DEF Paced
    <3>2. b.out[k] # {} /\ k \in DOMAIN b.out
      BY <2>3, <2>5, <3>1 DEF Paced, PacedAt, IsJob
    <3> QED BY <3>2
  <2>7. \A k \in DOMAIN b.res : b.res[k] = "failed" => op.over \notin {"all", "this", "row"}
    BY DEF Range
  <2>8. op.over = "row"
    BY <2>1, <2>2, <2>3, <2>6, <2>7 DEF LeftInv, Remains, Misses
  <2>9. x \in DOMAIN b.res /\ b.res[x] # "done" /\ b.res[x] # "runs"
    BY <2>2, <2>3, <2>6, <2>8 DEF Misses, Paced
  <2> QED BY <2>3, <2>7, <2>8, <2>9 DEF IsJob
<1> QED BY <1>1, RowsInvariance, PTL
=============================================================================
