----------------------------- MODULE HartProofs -----------------------------
(***************************************************************************)
(* Proofs about Hart, for every size of the memory, every set of words and *)
(* any number of failed accesses.                                          *)
(*                                                                         *)
(* Reach(t, batch) is where a batch that fails can have come to; it is     *)
(* followed access by access (an induction over the batch for the pipeline *)
(* of the memory accesses, of any length).  From there the lemmas go up    *)
(* through the probe, the registers and the memory to the operations.      *)
(***************************************************************************)
EXTENDS Hart, SequenceTheorems, WellFoundedInduction, TLAPS

IsSeq(s) == \E S : s \in Seq(S)

-----------------------------------------------------------------------------
(* Sequences. *)

\* A sequence is a function on 1 .. Len.
LEMMA SeqShape ==
    ASSUME NEW s, IsSeq(s)
    PROVE  Len(s) \in Nat /\ DOMAIN s = 1 .. Len(s)
BY DEF IsSeq

\* The empty sequence, and a sequence of one stage.
LEMMA NothingSeq == IsSeq(<<>>) /\ Len(<<>>) = 0
BY EmptySeq DEF IsSeq

LEMMA SingleSeq == ASSUME NEW x PROVE IsSeq(<<x>>) /\ Len(<<x>>) = 1 /\ <<x>>[1] = x
<1>1. <<x>> \in Seq({x})
  OBVIOUS
<1> QED
  BY <1>1 DEF IsSeq

\* A function on 1 .. n is a sequence of length n.
LEMMA FunSeq ==
    ASSUME NEW n \in Nat, NEW f, f = [i \in 1 .. n |-> f[i]]
    PROVE  IsSeq(f) /\ Len(f) = n
<1> DEFINE S == {f[i] : i \in 1 .. n}
<1>1. f \in [1 .. n -> S]
  OBVIOUS
<1>2. f \in Seq(S)
  BY <1>1
<1> HIDE DEF S
<1>3. Len(f) = n
  BY <1>1, <1>2
<1> QED
  BY <1>2, <1>3 DEF IsSeq

\* Append and concatenation.
LEMMA AppendSeq ==
    ASSUME NEW s, IsSeq(s), NEW x
    PROVE  /\ IsSeq(Append(s, x)) /\ Len(Append(s, x)) = Len(s) + 1
           /\ \A i \in 1 .. Len(s) : Append(s, x)[i] = s[i]
           /\ Append(s, x)[Len(s) + 1] = x
<1>1. PICK S : s \in Seq(S)
  BY DEF IsSeq
<1> DEFINE T == S \cup {x}
<1>2. s \in Seq(T) /\ x \in T
  BY <1>1
<1> HIDE DEF T
<1>3. Append(s, x) \in Seq(T)
  BY <1>2
<1> QED
  BY <1>2, <1>3 DEF IsSeq

LEMMA ConcatSeq ==
    ASSUME NEW s, NEW t, IsSeq(s), IsSeq(t)
    PROVE  /\ IsSeq(s \o t) /\ Len(s \o t) = Len(s) + Len(t)
           /\ \A i \in 1 .. Len(s) : (s \o t)[i] = s[i]
           /\ \A i \in 1 .. Len(t) : (s \o t)[Len(s) + i] = t[i]
<1>1. PICK S, T : s \in Seq(S) /\ t \in Seq(T)
  BY DEF IsSeq
<1> DEFINE U == S \cup T
<1>2. s \in Seq(U) /\ t \in Seq(U)
  BY <1>1
<1> HIDE DEF U
<1>3. s \o t \in Seq(U)
  BY <1>2
<1> QED
  BY <1>2, <1>3 DEF IsSeq


\* A sequence is determined by its length and its elements.
LEMMA SameSeq ==
    ASSUME NEW s, NEW t, IsSeq(s), IsSeq(t), Len(s) = Len(t),
           \A i \in 1 .. Len(s) : s[i] = t[i]
    PROVE  s = t
<1>1. PICK S, T : s \in Seq(S) /\ t \in Seq(T)
  BY DEF IsSeq
<1> DEFINE U == S \cup T
<1>2. s \in Seq(U) /\ t \in Seq(U)
  BY <1>1
<1> HIDE DEF U
<1> QED
  BY <1>2

\* What SubSeq(b, 1, k) is.
LEMMA PrefixSeq ==
    ASSUME NEW b, IsSeq(b), NEW k \in 0 .. Len(b)
    PROVE  /\ IsSeq(SubSeq(b, 1, k)) /\ Len(SubSeq(b, 1, k)) = k
           /\ \A i \in 1 .. k : SubSeq(b, 1, k)[i] = b[i]
<1>1. PICK S : b \in Seq(S)
  BY DEF IsSeq
<1>2. SubSeq(b, 1, k) \in Seq(S)
  BY <1>1
<1> QED
  BY <1>1, <1>2 DEF IsSeq

-----------------------------------------------------------------------------
(* Induction: a set that has 0 and the successor of every member is Nat. *)

LEMMA NatsIn ==
    ASSUME NEW T, 0 \in T, \A n \in Nat : n \in T => n + 1 \in T
    PROVE  Nat \subseteq T
<1> SUFFICES ASSUME Nat \ T # {} PROVE FALSE
  OBVIOUS
<1> DEFINE U == Nat \ T
<1>1. \E t \in U : \A u \in U : ~(<<u, t>> \in OpToRel(<, Nat))
  <2>1. U \subseteq Nat
    OBVIOUS
  <2> HIDE DEF U
  <2>2. U # {}
    BY DEF U
  <2> QED
    BY <2>1, <2>2, WFMin, NatLessThanWellFounded, Zenon
<1>2. PICK t \in U : \A u \in U : ~(<<u, t>> \in OpToRel(<, Nat))
  BY <1>1
<1>3. \A u \in U : <<u, t>> \in Nat \X Nat
  BY <1>2
<1>4. \A u \in U : ~(u < t)
  <2> HIDE DEF U
  <2> QED
    BY <1>2, <1>3, Zenon DEF OpToRel
<1>5. t \in Nat /\ t \notin T /\ \A u \in Nat : u \notin T => t <= u
  <2>1. t \in Nat /\ t \notin T
    BY <1>2
  <2>2. ASSUME NEW u \in Nat, u \notin T PROVE t <= u
    <3>1. ~(u < t)
      BY <1>4, <2>2
    <3> QED
      BY <2>1, <3>1
  <2> QED
    BY <2>1, <2>2
<1>6. t # 0 /\ t - 1 \in Nat /\ t - 1 \in T
  BY <1>5
<1>7. t - 1 + 1 \in T
  BY <1>6
<1> QED
  BY <1>5, <1>7


-----------------------------------------------------------------------------
(* Batches. *)

\* f is the run of a batch from t: f[k] is where its first k accesses lead.
RunOf(f, t, b) == f[0] = t /\ \A i \in 1 .. Len(b) : f[i] = Access(f[i - 1], b[i])
RunFun(f, t, b, n) == f = [k \in 0 .. n |-> IF k = 0 THEN t ELSE Access(f[k - 1], b[k])]

LEMMA RunExists ==
    ASSUME NEW n \in Nat, NEW t, NEW b
    PROVE  \E f : RunFun(f, t, b, n)
<1> DEFINE R(f, k) == RunFun(f, t, b, k)
           N(i, s) == Access(s, b[i])
           T == {k \in Nat : \E f : R(f, k)}
<1>1. 0 \in T
  <2> DEFINE f == [k \in 0 .. 0 |-> t]
  <2>1. f = [k \in 0 .. 0 |-> IF k = 0 THEN t ELSE N(k, f[k - 1])]
    <3> HIDE DEF N
    <3> QED
      OBVIOUS
  <2>2. R(f, 0)
    BY <2>1 DEF RunFun
  <2> QED
    BY <2>2
<1>2. ASSUME NEW k \in Nat, k \in T PROVE k + 1 \in T
  <2>1. PICK f : R(f, k)
    BY <1>2
  <2> DEFINE g == [j \in 0 .. k + 1 |-> IF j = k + 1 THEN N(k + 1, f[k]) ELSE f[j]]
             h(j, s) == IF j = 0 THEN t ELSE N(j, s)
  <2>2. f = [j \in 0 .. k |-> h(j, f[j - 1])]
    BY <2>1 DEF RunFun
  <2> HIDE DEF h
  <2>3. \A j \in 0 .. k : f[j] = h(j, f[j - 1])
    BY <2>2
  <2>4. N(k + 1, f[k]) = h(k + 1, f[k])
    BY DEF h
  <2>5. h(0, g[0 - 1]) = h(0, f[0 - 1])
    BY DEF h
  <2> HIDE DEF N
  <2>6. ASSUME NEW j \in 0 .. k + 1 PROVE g[j] = h(j, g[j - 1])
    <3>1. CASE j = k + 1
      <4>1. g[j] = N(k + 1, f[k]) /\ j - 1 = k /\ g[k] = f[k]
        BY <3>1
      <4> QED
        BY <2>4, <3>1, <4>1
    <3>2. CASE j # k + 1 /\ j # 0
      <4>1. j \in 0 .. k /\ j - 1 \in 0 .. k + 1 /\ j - 1 # k + 1
        BY <3>2
      <4>2. g[j] = f[j] /\ g[j - 1] = f[j - 1]
        BY <3>2, <4>1
      <4> QED
        BY <2>3, <4>1, <4>2
    <3>3. CASE j = 0
      <4>1. j # k + 1 /\ 0 \in 0 .. k
        BY <3>3
      <4> QED
        BY <2>3, <2>5, <3>3, <4>1
    <3> QED
      BY <3>1, <3>2, <3>3
  <2>7. g = [j \in 0 .. k + 1 |-> g[j]]
    OBVIOUS
  <2> HIDE DEF g
  <2>8. g = [j \in 0 .. k + 1 |-> h(j, g[j - 1])]
    BY <2>6, <2>7
  <2>9. R(g, k + 1)
    BY <2>8 DEF RunFun, h, N
  <2> HIDE DEF R
  <2> QED
    BY <2>9
<1>3. Nat \subseteq T
  <2> HIDE DEF T
  <2> QED
    BY <1>1, <1>2, NatsIn
<1> QED
  BY <1>3

\* Done is the end of the run.
LEMMA DoneIsRun ==
    ASSUME NEW t, NEW b, IsSeq(b)
    PROVE  \E f : RunOf(f, t, b) /\ Done(t, b) = f[Len(b)]
<1> DEFINE n == Len(b)
           f == CHOOSE g : RunFun(g, t, b, n)
<1>1. n \in Nat
  BY SeqShape
<1>2. RunFun(f, t, b, n)
  BY <1>1, RunExists
<1>3. Done(t, b) = f[n]
  BY Zenon DEF Done, RunFun
<1> HIDE DEF f
<1>4. \A i \in 0 .. n : f[i] = IF i = 0 THEN t ELSE Access(f[i - 1], b[i])
  BY <1>2 DEF RunFun
<1>5. RunOf(f, t, b)
  <2>1. 0 \in 0 .. n /\ \A i \in 1 .. n : i \in 0 .. n /\ i # 0
    <3> HIDE DEF n
    <3> QED
      BY <1>1
  <2> QED
    BY <1>4, <2>1, Zenon DEF RunOf
<1> QED
  BY <1>3, <1>5

\* A batch has one run.
LEMMA SameRun ==
    ASSUME NEW t, NEW b, IsSeq(b), NEW f, NEW g, RunOf(f, t, b), RunOf(g, t, b)
    PROVE  \A k \in 0 .. Len(b) : f[k] = g[k]
<1> DEFINE n == Len(b)
           T == {k \in Nat : k <= n => f[k] = g[k]}
<1>0. n \in Nat
  BY SeqShape
<1>1. 0 \in T
  BY DEF RunOf
<1>4. \A i \in 1 .. n : f[i] = Access(f[i - 1], b[i]) /\ g[i] = Access(g[i - 1], b[i])
  BY Zenon DEF RunOf
<1>2. ASSUME NEW k \in Nat, k \in T PROVE k + 1 \in T
  <2>1. SUFFICES ASSUME k + 1 <= n PROVE f[k + 1] = g[k + 1]
    OBVIOUS
  <2>2. k + 1 \in 1 .. n /\ k + 1 - 1 = k /\ f[k] = g[k]
    BY <1>0, <1>2, <2>1
  <2>3. f[k + 1] = Access(f[k + 1 - 1], b[k + 1]) /\ g[k + 1] = Access(g[k + 1 - 1], b[k + 1])
    BY <1>4, <2>2
  <2> QED
    BY <2>2, <2>3
<1>3. Nat \subseteq T
  <2> HIDE DEF T
  <2> QED
    BY <1>1, <1>2, NatsIn
<1> QED
  BY <1>0, <1>3

LEMMA RunUnique ==
    ASSUME NEW t, NEW b, IsSeq(b), NEW f, RunOf(f, t, b)
    PROVE  Done(t, b) = f[Len(b)]
<1>1. PICK g : RunOf(g, t, b) /\ Done(t, b) = g[Len(b)]
  BY DoneIsRun
<1>2. Len(b) \in Nat
  BY SeqShape
<1>3. \A k \in 0 .. Len(b) : f[k] = g[k]
  BY <1>1, SameRun
<1> QED
  BY <1>1, <1>2, <1>3

\* Where the first accesses of a batch lead.
Reach(t, b) == {Done(t, SubSeq(b, 1, k)) : k \in 0 .. Len(b)}

LEMMA BatchRun ==
    ASSUME NEW t, NEW b, IsSeq(b)
    PROVE  \E f : /\ RunOf(f, t, b)
                  /\ Done(t, b) = f[Len(b)]
                  /\ Reach(t, b) = {f[k] : k \in 0 .. Len(b)}
<1>1. PICK f : RunOf(f, t, b) /\ Done(t, b) = f[Len(b)]
  BY DoneIsRun
<1>2. Len(b) \in Nat
  BY SeqShape
<1>3. ASSUME NEW k \in 0 .. Len(b) PROVE Done(t, SubSeq(b, 1, k)) = f[k]
  <2> DEFINE c == SubSeq(b, 1, k)
  <2>1. IsSeq(c) /\ Len(c) = k /\ \A i \in 1 .. k : c[i] = b[i]
    BY PrefixSeq
  <2> HIDE DEF c
  <2>2. \A i \in 1 .. k : i \in 1 .. Len(b)
    BY <1>2
  <2>3. RunOf(f, t, c)
    BY <1>1, <2>1, <2>2, Zenon DEF RunOf
  <2>4. Done(t, c) = f[k]
    BY <2>1, <2>3, RunUnique
  <2> QED
    BY <2>4 DEF c
<1> QED
  BY <1>1, <1>3 DEF Reach

LEMMA RunReach ==
    ASSUME NEW t, NEW b, IsSeq(b), NEW f, RunOf(f, t, b)
    PROVE  Done(t, b) = f[Len(b)] /\ \A k \in 0 .. Len(b) : f[k] \in Reach(t, b)
<1>1. PICK g : RunOf(g, t, b) /\ Done(t, b) = g[Len(b)] /\ Reach(t, b) = {g[k] : k \in 0 .. Len(b)}
  BY BatchRun
<1>2. \A k \in 0 .. Len(b) : f[k] = g[k]
  BY <1>1, SameRun
<1>3. Len(b) \in Nat
  BY SeqShape
<1> QED
  BY <1>1, <1>2, <1>3

\* One batch after another.
LEMMA ReachConcat ==
    ASSUME NEW t, NEW a, NEW b, IsSeq(a), IsSeq(b)
    PROVE  /\ Done(t, a \o b) = Done(Done(t, a), b)
           /\ Reach(t, a \o b) \subseteq Reach(t, a) \cup Reach(Done(t, a), b)
<1> DEFINE c == a \o b
           p == Len(a)
           q == Len(b)
<1>1. /\ IsSeq(c) /\ Len(c) = p + q /\ p \in Nat /\ q \in Nat
      /\ \A i \in 1 .. p : c[i] = a[i]
      /\ \A i \in 1 .. q : c[p + i] = b[i]
  BY ConcatSeq, SeqShape
<1> HIDE DEF c
<1>2. PICK f : RunOf(f, t, c) /\ Done(t, c) = f[p + q] /\ Reach(t, c) = {f[k] : k \in 0 .. p + q}
  BY <1>1, BatchRun
<1>3. f[0] = t /\ \A i \in 1 .. p + q : f[i] = Access(f[i - 1], c[i])
  BY <1>1, <1>2 DEF RunOf
<1>4. RunOf(f, t, a)
  <2>1. \A i \in 1 .. p : f[i] = Access(f[i - 1], a[i])
    BY <1>1, <1>3
  <2> QED
    BY <1>3, <2>1 DEF RunOf
<1>5. Done(t, a) = f[p] /\ \A k \in 0 .. p : f[k] \in Reach(t, a)
  BY <1>4, RunReach
<1> DEFINE g == [k \in 0 .. q |-> f[p + k]]
<1>6. RunOf(g, f[p], b)
  <2>1. g[0] = f[p]
    BY <1>1
  <2>2. ASSUME NEW i \in 1 .. q PROVE g[i] = Access(g[i - 1], b[i])
    <3>1. p + i \in 1 .. p + q /\ p + i - 1 = p + (i - 1) /\ i \in 0 .. q /\ i - 1 \in 0 .. q
      BY <1>1
    <3>2. g[i] = f[p + i] /\ g[i - 1] = f[p + (i - 1)]
      BY <3>1
    <3>3. f[p + i] = Access(f[p + i - 1], c[p + i]) /\ c[p + i] = b[i]
      BY <1>1, <1>3, <3>1
    <3> QED
      BY <3>1, <3>2, <3>3
  <2> HIDE DEF g
  <2> QED
    BY <2>1, <2>2 DEF RunOf
<1>7. Done(f[p], b) = g[q] /\ \A k \in 0 .. q : g[k] \in Reach(f[p], b)
  <2> HIDE DEF g
  <2> QED
    BY <1>6, RunReach
<1>8. g[q] = f[p + q]
  BY <1>1
<1>9. ASSUME NEW k \in 0 .. p + q PROVE f[k] \in Reach(t, a) \cup Reach(f[p], b)
  <2>1. CASE k <= p
    BY <1>1, <1>5, <2>1
  <2>2. CASE ~(k <= p)
    <3>1. k - p \in 0 .. q /\ p + (k - p) = k
      BY <1>1, <2>2
    <3>2. g[k - p] = f[k]
      BY <3>1
    <3> HIDE DEF g
    <3> QED
      BY <1>7, <3>1, <3>2
  <2> QED
    BY <2>1, <2>2
<1>10. Done(t, c) = Done(Done(t, a), b)
  BY <1>2, <1>5, <1>7, <1>8
<1>11. Reach(t, c) \subseteq Reach(t, a) \cup Reach(Done(t, a), b)
  BY <1>2, <1>5, <1>9
<1> QED
  BY <1>10, <1>11 DEF c

\* No access, and one.
LEMMA ReachNone ==
    ASSUME NEW t
    PROVE  IsSeq(<<>>) /\ Done(t, <<>>) = t /\ Reach(t, <<>>) = {t}
<1>1. IsSeq(<<>>) /\ Len(<<>>) = 0
  BY NothingSeq
<1>2. PICK f : /\ RunOf(f, t, <<>>) /\ Done(t, <<>>) = f[Len(<<>>)]
               /\ Reach(t, <<>>) = {f[k] : k \in 0 .. Len(<<>>)}
  BY <1>1, BatchRun
<1>3. f[0] = t
  BY <1>2 DEF RunOf
<1> QED
  BY <1>1, <1>2, <1>3

LEMMA ReachOne ==
    ASSUME NEW t, NEW x
    PROVE  IsSeq(<<x>>) /\ Done(t, <<x>>) = Access(t, x) /\ Reach(t, <<x>>) = {t, Access(t, x)}
<1> DEFINE b == <<x>>
<1>1. IsSeq(b) /\ Len(b) = 1 /\ b[1] = x
  BY SingleSeq
<1> HIDE DEF b
<1>2. PICK f : RunOf(f, t, b) /\ Done(t, b) = f[1] /\ Reach(t, b) = {f[k] : k \in 0 .. 1}
  BY <1>1, BatchRun
<1>3. f[0] = t /\ f[1] = Access(f[0], x)
  <2>1. f[0] = t /\ \A i \in 1 .. 1 : f[i] = Access(f[i - 1], b[i])
    BY <1>1, <1>2, Zenon DEF RunOf
  <2>2. f[1] = Access(f[1 - 1], b[1]) /\ 1 - 1 = 0
    BY <2>1
  <2> QED
    BY <1>1, <2>1, <2>2
<1>4. \A k \in 0 .. 1 : k = 0 \/ k = 1
  OBVIOUS
<1>5. Reach(t, b) = {t, Access(t, x)} /\ Done(t, b) = Access(t, x)
  BY <1>2, <1>3, <1>4
<1> QED
  BY <1>1, <1>5 DEF b

\* An access before the others.
LEMMA ReachFirst ==
    ASSUME NEW t, NEW x, NEW b, IsSeq(b)
    PROVE  /\ IsSeq(<<x>> \o b)
           /\ Done(t, <<x>> \o b) = Done(Access(t, x), b)
           /\ Reach(t, <<x>> \o b) \subseteq {t} \cup Reach(Access(t, x), b)
<1>1. IsSeq(<<x>>) /\ Done(t, <<x>>) = Access(t, x) /\ Reach(t, <<x>>) = {t, Access(t, x)}
  BY ReachOne
<1>2. IsSeq(<<x>> \o b)
  BY <1>1, ConcatSeq
<1>3. Access(t, x) \in Reach(Access(t, x), b)
  <2>1. PICK f : RunOf(f, Access(t, x), b) /\ Reach(Access(t, x), b) = {f[k] : k \in 0 .. Len(b)}
    BY BatchRun
  <2>2. f[0] = Access(t, x) /\ Len(b) \in Nat
    BY <2>1, SeqShape DEF RunOf
  <2>3. 0 \in 0 .. Len(b)
    BY <2>2
  <2> QED
    BY <2>1, <2>2, <2>3
<1>4. /\ Done(t, <<x>> \o b) = Done(Access(t, x), b)
      /\ Reach(t, <<x>> \o b) \subseteq {t, Access(t, x)} \cup Reach(Access(t, x), b)
  BY <1>1, ReachConcat
<1> QED
  BY <1>2, <1>3, <1>4

\* Short sequences, taken apart.
LEMMA ConsIs ==
    ASSUME NEW s, NEW t, NEW x, IsSeq(s), IsSeq(t), Len(s) = Len(t) + 1, s[1] = x,
           \A i \in 2 .. Len(s) : s[i] = t[i - 1]
    PROVE  s = <<x>> \o t
<1> DEFINE u == <<x>> \o t
           n == Len(t)
<1>1. /\ IsSeq(u) /\ Len(u) = 1 + n /\ n \in Nat /\ u[1] = x
      /\ \A i \in 1 .. n : u[1 + i] = t[i]
  <2>1. IsSeq(<<x>>) /\ Len(<<x>>) = 1 /\ <<x>>[1] = x
    BY SingleSeq
  <2>2. 1 \in 1 .. 1
    OBVIOUS
  <2>3. IsSeq(u) /\ Len(u) = Len(<<x>>) + Len(t) /\ (\A i \in 1 .. Len(<<x>>) : u[i] = <<x>>[i])
        /\ \A i \in 1 .. Len(t) : u[Len(<<x>>) + i] = t[i]
    BY <2>1, ConcatSeq
  <2> HIDE DEF u
  <2> QED
    BY <2>1, <2>2, <2>3, SeqShape
<1> HIDE DEF u
<1>2. ASSUME NEW i \in 1 .. Len(s) PROVE s[i] = u[i]
  <2>1. CASE i = 1
    BY <1>1, <2>1
  <2>2. CASE i # 1
    <3>1. i - 1 \in 1 .. n /\ 1 + (i - 1) = i /\ i \in 2 .. Len(s)
      BY <1>1, <2>2
    <3>2. u[1 + (i - 1)] = t[i - 1]
      BY <1>1, <3>1
    <3> QED
      BY <3>1, <3>2
  <2> QED
    BY <2>1, <2>2
<1>3. Len(s) = Len(u)
  BY <1>1
<1>4. s = u
  BY <1>1, <1>2, <1>3, SameSeq
<1> QED
  BY <1>4 DEF u

LEMMA PairSeq ==
    ASSUME NEW x, NEW y
    PROVE  <<x, y>> = <<x>> \o <<y>>
<1> DEFINE S == {x, y}
<1>1. x \in S /\ y \in S
  OBVIOUS
<1> HIDE DEF S
<1>2. <<x, y>> = <<x>> \o <<y>>
  <2> DEFINE s == <<x, y>>
             t == <<y>>
  <2>1. s \in Seq(S) /\ Len(s) = 2 /\ s[1] = x /\ s[2] = y
    BY <1>1
  <2>2. t \in Seq(S) /\ Len(t) = 1 /\ t[1] = y
    BY <1>1
  <2> HIDE DEF s, t
  <2>3. \A i \in 2 .. 2 : (i = 2 /\ i - 1 = 1)
    OBVIOUS
  <2>4. \A i \in 2 .. 2 : s[i] = t[i - 1]
    BY <2>1, <2>2, <2>3
  <2>5. IsSeq(s) /\ IsSeq(t) /\ Len(s) = Len(t) + 1 /\ s[1] = x /\ \A i \in 2 .. Len(s) : s[i] = t[i - 1]
    BY <2>1, <2>2, <2>4 DEF IsSeq
  <2>6. s = <<x>> \o t
    BY <2>5, ConsIs
  <2> QED
    BY <2>6 DEF s, t
<1> QED
  BY <1>2

LEMMA TripleSeq ==
    ASSUME NEW x, NEW y, NEW z
    PROVE  <<x, y, z>> = <<x>> \o <<y, z>>
<1> DEFINE S == {x, y, z}
<1>1. x \in S /\ y \in S /\ z \in S
  OBVIOUS
<1> HIDE DEF S
<1>2. <<x, y, z>> = <<x>> \o <<y, z>>
  <2> DEFINE s == <<x, y, z>>
             t == <<y, z>>
  <2>1. s \in Seq(S) /\ Len(s) = 3 /\ s[1] = x /\ s[2] = y /\ s[3] = z
    BY <1>1
  <2>2. t \in Seq(S) /\ Len(t) = 2 /\ t[1] = y /\ t[2] = z
    BY <1>1
  <2> HIDE DEF s, t
  <2>3. \A i \in 2 .. 3 : (i = 2 /\ i - 1 = 1) \/ (i = 3 /\ i - 1 = 2)
    OBVIOUS
  <2>4. \A i \in 2 .. 3 : s[i] = t[i - 1]
    BY <2>1, <2>2, <2>3
  <2>5. IsSeq(s) /\ IsSeq(t) /\ Len(s) = Len(t) + 1 /\ s[1] = x /\ \A i \in 2 .. Len(s) : s[i] = t[i - 1]
    BY <2>1, <2>2, <2>4 DEF IsSeq
  <2>6. s = <<x>> \o t
    BY <2>5, ConsIs
  <2> QED
    BY <2>6 DEF s, t
<1> QED
  BY <1>2

LEMMA QuadSeq ==
    ASSUME NEW x, NEW y, NEW z, NEW w
    PROVE  <<x, y, z, w>> = <<x>> \o <<y, z, w>>
<1> DEFINE S == {x, y, z, w}
<1>1. x \in S /\ y \in S /\ z \in S /\ w \in S
  OBVIOUS
<1> HIDE DEF S
<1>2. <<x, y, z, w>> = <<x>> \o <<y, z, w>>
  <2> DEFINE s == <<x, y, z, w>>
             t == <<y, z, w>>
  <2>1. s \in Seq(S) /\ Len(s) = 4 /\ s[1] = x /\ s[2] = y /\ s[3] = z /\ s[4] = w
    BY <1>1
  <2>2. t \in Seq(S) /\ Len(t) = 3 /\ t[1] = y /\ t[2] = z /\ t[3] = w
    BY <1>1
  <2> HIDE DEF s, t
  <2>3. \A i \in 2 .. 4 : (i = 2 /\ i - 1 = 1) \/ (i = 3 /\ i - 1 = 2) \/ (i = 4 /\ i - 1 = 3)
    OBVIOUS
  <2>4. \A i \in 2 .. 4 : s[i] = t[i - 1]
    BY <2>1, <2>2, <2>3
  <2>5. IsSeq(s) /\ IsSeq(t) /\ Len(s) = Len(t) + 1 /\ s[1] = x /\ \A i \in 2 .. Len(s) : s[i] = t[i - 1]
    BY <2>1, <2>2, <2>4 DEF IsSeq
  <2>6. s = <<x>> \o t
    BY <2>5, ConsIs
  <2> QED
    BY <2>6 DEF s, t
<1> QED
  BY <1>2

LEMMA ReachTwo ==
    ASSUME NEW t, NEW x, NEW y
    PROVE  /\ IsSeq(<<x, y>>)
           /\ Done(t, <<x, y>>) = Access(Access(t, x), y)
           /\ Reach(t, <<x, y>>) \subseteq {t, Access(t, x), Access(Access(t, x), y)}
<1>1. <<x, y>> = <<x>> \o <<y>>
  BY PairSeq
<1>2. IsSeq(<<y>>) /\ Done(Access(t, x), <<y>>) = Access(Access(t, x), y)
      /\ Reach(Access(t, x), <<y>>) = {Access(t, x), Access(Access(t, x), y)}
  BY ReachOne
<1>3. /\ IsSeq(<<x>> \o <<y>>) /\ Done(t, <<x>> \o <<y>>) = Done(Access(t, x), <<y>>)
      /\ Reach(t, <<x>> \o <<y>>) \subseteq {t} \cup Reach(Access(t, x), <<y>>)
  BY <1>2, ReachFirst
<1> QED
  BY <1>1, <1>2, <1>3

LEMMA ReachThree ==
    ASSUME NEW t, NEW x, NEW y, NEW z
    PROVE  /\ IsSeq(<<x, y, z>>)
           /\ Done(t, <<x, y, z>>) = Access(Access(Access(t, x), y), z)
           /\ Reach(t, <<x, y, z>>) \subseteq
                {t, Access(t, x), Access(Access(t, x), y), Access(Access(Access(t, x), y), z)}
<1>1. <<x, y, z>> = <<x>> \o <<y, z>>
  BY TripleSeq
<1> DEFINE u == Access(t, x)
<1>2. /\ IsSeq(<<y, z>>) /\ Done(u, <<y, z>>) = Access(Access(u, y), z)
      /\ Reach(u, <<y, z>>) \subseteq {u, Access(u, y), Access(Access(u, y), z)}
  <2> HIDE DEF u
  <2> QED
    BY ReachTwo
<1>3. /\ IsSeq(<<x>> \o <<y, z>>) /\ Done(t, <<x>> \o <<y, z>>) = Done(u, <<y, z>>)
      /\ Reach(t, <<x>> \o <<y, z>>) \subseteq {t} \cup Reach(u, <<y, z>>)
  BY <1>2, ReachFirst
<1> QED
  BY <1>1, <1>2, <1>3

LEMMA ReachFour ==
    ASSUME NEW t, NEW x, NEW y, NEW z, NEW w
    PROVE  /\ IsSeq(<<x, y, z, w>>)
           /\ Done(t, <<x, y, z, w>>) = Access(Access(Access(Access(t, x), y), z), w)
           /\ Reach(t, <<x, y, z, w>>) \subseteq
                {t, Access(t, x), Access(Access(t, x), y), Access(Access(Access(t, x), y), z),
                 Access(Access(Access(Access(t, x), y), z), w)}
<1>1. <<x, y, z, w>> = <<x>> \o <<y, z, w>>
  BY QuadSeq
<1> DEFINE u == Access(t, x)
<1>2. /\ IsSeq(<<y, z, w>>) /\ Done(u, <<y, z, w>>) = Access(Access(Access(u, y), z), w)
      /\ Reach(u, <<y, z, w>>) \subseteq
            {u, Access(u, y), Access(Access(u, y), z), Access(Access(Access(u, y), z), w)}
  <2> HIDE DEF u
  <2> QED
    BY ReachThree
<1>3. /\ IsSeq(<<x>> \o <<y, z, w>>) /\ Done(t, <<x>> \o <<y, z, w>>) = Done(u, <<y, z, w>>)
      /\ Reach(t, <<x>> \o <<y, z, w>>) \subseteq {t} \cup Reach(u, <<y, z, w>>)
  BY <1>2, ReachFirst
<1> QED
  BY <1>1, <1>2, <1>3

-----------------------------------------------------------------------------
(* The Debug Module. *)

Fields == {"cache", "clobbered", "progbuf", "ap", "gpr", "pb", "data0", "last", "auto", "cmderr",
           "mem", "csr", "step", "hart", "link", "faults", "touched", "out", "err"}

\* What is used of the type of a state of host and target.
Shape(o) ==
    /\ Fields \subseteq DOMAIN o
    /\ o.gpr = [r \in Regs |-> o.gpr[r]]
    /\ o.pb = [i \in 0 .. 2 |-> o.pb[i]]
    /\ o.mem = [x \in Memory |-> o.mem[x]]
    /\ o.cmderr \in BOOLEAN /\ o.auto \in BOOLEAN /\ o.err \in BOOLEAN
    /\ o.faults \in Nat /\ o.link \in {"up", "down"}

\* The host's part of the state and the state of the link, which no access of a
\* batch changes.
Host(t, u) ==
    /\ u.cache = t.cache /\ u.clobbered = t.clobbered /\ u.progbuf = t.progbuf
    /\ u.ap = t.ap /\ u.link = t.link /\ u.faults = t.faults /\ u.err = t.err

\* What an instruction changes at most.
Ran(t, u) ==
    /\ Shape(u) /\ Host(t, u) /\ u.hart = t.hart /\ u.pb = t.pb
    /\ u.auto = t.auto /\ u.last = t.last /\ u.data0 = t.data0 /\ u.out = t.out

LEMMA FunExcept ==
    ASSUME NEW S, NEW f, f = [x \in S |-> f[x]], NEW a, NEW v
    PROVE  /\ [f EXCEPT ![a] = v] = [x \in S |-> [f EXCEPT ![a] = v][x]]
           /\ \A x \in S : [f EXCEPT ![a] = v][x] = IF x = a THEN v ELSE f[x]
  OBVIOUS

LEMMA InsnIs ==
    ASSUME NEW t
    PROVE  /\ Insn(t, "csrr") = [t EXCEPT !.gpr = [@ EXCEPT ![S0] = t.csr]]
           /\ Insn(t, "csrw") = [t EXCEPT !.csr = t.gpr[S0]]
           /\ Insn(t, "step") = [t EXCEPT !.step = TRUE]
           /\ Insn(t, "nostep") = [t EXCEPT !.step = FALSE]
           /\ Insn(t, "addi") = [t EXCEPT !.gpr = [@ EXCEPT ![S0] = IF t.gpr[S0] < Top THEN t.gpr[S0] + 1 ELSE t.gpr[S0]]]
           /\ Insn(t, "lw") = IF t.gpr[S0] \in Memory
                              THEN [t EXCEPT !.gpr = [@ EXCEPT ![S1] = t.mem[t.gpr[S0]]], !.touched = @ \cup {t.gpr[S0]}]
                              ELSE [t EXCEPT !.cmderr = TRUE]
           /\ Insn(t, "sw") = IF t.gpr[S0] \in Memory
                              THEN [t EXCEPT !.mem = [@ EXCEPT ![t.gpr[S0]] = t.gpr[S1]], !.touched = @ \cup {t.gpr[S0]}]
                              ELSE [t EXCEPT !.cmderr = TRUE]
           /\ Insn(t, "fence") = t
<1>1. Insn(t, "csrr") = [t EXCEPT !.gpr = [@ EXCEPT ![S0] = t.csr]]
  BY DEF Insn
<1>2. Insn(t, "csrw") = [t EXCEPT !.csr = t.gpr[S0]]
  BY DEF Insn
<1>3. Insn(t, "step") = [t EXCEPT !.step = TRUE]
  BY DEF Insn
<1>4. Insn(t, "nostep") = [t EXCEPT !.step = FALSE]
  BY DEF Insn
<1>5. Insn(t, "addi") = [t EXCEPT !.gpr = [@ EXCEPT ![S0] = IF t.gpr[S0] < Top THEN t.gpr[S0] + 1 ELSE t.gpr[S0]]]
  BY DEF Insn
<1>6. Insn(t, "lw") = IF t.gpr[S0] \in Memory
                      THEN [t EXCEPT !.gpr = [@ EXCEPT ![S1] = t.mem[t.gpr[S0]]], !.touched = @ \cup {t.gpr[S0]}]
                      ELSE [t EXCEPT !.cmderr = TRUE]
  BY DEF Insn
<1>7. Insn(t, "sw") = IF t.gpr[S0] \in Memory
                      THEN [t EXCEPT !.mem = [@ EXCEPT ![t.gpr[S0]] = t.gpr[S1]], !.touched = @ \cup {t.gpr[S0]}]
                      ELSE [t EXCEPT !.cmderr = TRUE]
  BY DEF Insn
<1>8. Insn(t, "fence") = t
  BY DEF Insn
<1> QED
  BY <1>1, <1>2, <1>3, <1>4, <1>5, <1>6, <1>7, <1>8

LEMMA GprRan ==
    ASSUME NEW t, Shape(t), NEW r, NEW v
    PROVE  Ran(t, [t EXCEPT !.gpr = [@ EXCEPT ![r] = v]])
  BY FunExcept DEF Ran, Host, Shape, Fields

LEMMA LoadRan ==
    ASSUME NEW t, Shape(t), NEW r, NEW v, NEW w
    PROVE  Ran(t, [t EXCEPT !.gpr = [@ EXCEPT ![r] = v], !.touched = w])
  BY FunExcept DEF Ran, Host, Shape, Fields

LEMMA StoreRan ==
    ASSUME NEW t, Shape(t), NEW r, NEW v, NEW w
    PROVE  Ran(t, [t EXCEPT !.mem = [@ EXCEPT ![r] = v], !.touched = w])
  BY FunExcept DEF Ran, Host, Shape, Fields

LEMMA CsrRan == ASSUME NEW t, Shape(t), NEW v PROVE Ran(t, [t EXCEPT !.csr = v])
  BY DEF Ran, Host, Shape, Fields

LEMMA StepRan == ASSUME NEW t, Shape(t), NEW v PROVE Ran(t, [t EXCEPT !.step = v])
  BY DEF Ran, Host, Shape, Fields

LEMMA TrapRan == ASSUME NEW t, Shape(t) PROVE Ran(t, [t EXCEPT !.cmderr = TRUE])
  BY DEF Ran, Host, Shape, Fields

LEMMA InsnRan == ASSUME NEW t, Shape(t), NEW i PROVE Ran(t, Insn(t, i))
<1>1. CASE i = "csrr"
  <2>1. Insn(t, i) = [t EXCEPT !.gpr = [@ EXCEPT ![S0] = t.csr]]
    BY <1>1, InsnIs
  <2> QED
    BY <2>1, GprRan
<1>2. CASE i = "csrw"
  <2>1. Insn(t, i) = [t EXCEPT !.csr = t.gpr[S0]]
    BY <1>2, InsnIs
  <2> QED
    BY <2>1, CsrRan
<1>3. CASE i = "step"
  <2>1. Insn(t, i) = [t EXCEPT !.step = TRUE]
    BY <1>3, InsnIs
  <2> QED
    BY <2>1, StepRan
<1>4. CASE i = "nostep"
  <2>1. Insn(t, i) = [t EXCEPT !.step = FALSE]
    BY <1>4, InsnIs
  <2> QED
    BY <2>1, StepRan
<1>5. CASE i = "addi"
  <2> DEFINE v == IF t.gpr[S0] < Top THEN t.gpr[S0] + 1 ELSE t.gpr[S0]
  <2>1. Insn(t, i) = [t EXCEPT !.gpr = [@ EXCEPT ![S0] = v]]
    BY <1>5, InsnIs
  <2> HIDE DEF v
  <2> QED
    BY <2>1, GprRan
<1>6. CASE i = "lw"
  <2>1. \/ Insn(t, i) = [t EXCEPT !.gpr = [@ EXCEPT ![S1] = t.mem[t.gpr[S0]]], !.touched = @ \cup {t.gpr[S0]}]
        \/ Insn(t, i) = [t EXCEPT !.cmderr = TRUE]
    BY <1>6, InsnIs
  <2>2. Ran(t, [t EXCEPT !.gpr = [@ EXCEPT ![S1] = t.mem[t.gpr[S0]]], !.touched = @ \cup {t.gpr[S0]}])
    BY LoadRan
  <2> QED
    BY <2>1, <2>2, TrapRan
<1>7. CASE i = "sw"
  <2>1. \/ Insn(t, i) = [t EXCEPT !.mem = [@ EXCEPT ![t.gpr[S0]] = t.gpr[S1]], !.touched = @ \cup {t.gpr[S0]}]
        \/ Insn(t, i) = [t EXCEPT !.cmderr = TRUE]
    BY <1>7, InsnIs
  <2>2. Ran(t, [t EXCEPT !.mem = [@ EXCEPT ![t.gpr[S0]] = t.gpr[S1]], !.touched = @ \cup {t.gpr[S0]}])
    BY StoreRan
  <2> QED
    BY <2>1, <2>2, TrapRan
<1>8. CASE i = "fence"
  BY <1>8, InsnIs DEF Ran, Host
<1>9. CASE i \notin {"csrr", "csrw", "step", "nostep", "addi", "lw", "sw", "fence"}
  <2>1. Insn(t, i) = [t EXCEPT !.cmderr = TRUE]
    BY <1>9 DEF Insn
  <2> QED
    BY <2>1, TrapRan
<1> QED
  BY <1>1, <1>2, <1>3, <1>4, <1>5, <1>6, <1>7, <1>8, <1>9

LEMMA RanTrans == ASSUME NEW t, NEW u, NEW v, Ran(t, u), Ran(u, v) PROVE Ran(t, v)
  BY DEF Ran, Host

LEMMA RanSame == ASSUME NEW t, Shape(t) PROVE Ran(t, t)
  BY DEF Ran, Host

\* The program buffer, whatever it holds, and with one and two instructions.
LEMMA ProgbufRan == ASSUME NEW t, Shape(t) PROVE Ran(t, RunProgbuf(t))
<1>1. ASSUME NEW x, Ran(t, x[1]), NEW i PROVE Ran(t, Slot(x, i)[1])
  <2>1. Shape(x[1])
    BY <1>1 DEF Ran
  <2>2. Ran(x[1], Insn(x[1], x[1].pb[i]))
    BY <2>1, InsnRan
  <2>3. Ran(t, Insn(x[1], x[1].pb[i]))
    BY <1>1, <2>2, RanTrans
  <2>4. Slot(x, i)[1] = x[1] \/ Slot(x, i)[1] = Insn(x[1], x[1].pb[i])
    BY DEF Slot
  <2> QED
    BY <1>1, <2>3, <2>4
<1>2. <<t, FALSE>>[1] = t
  OBVIOUS
<1>3. Ran(t, Slot(<<t, FALSE>>, 0)[1])
  BY <1>1, <1>2, RanSame
<1>4. Ran(t, Slot(Slot(<<t, FALSE>>, 0), 1)[1])
  BY <1>1, <1>3
<1>5. Ran(t, Slot(Slot(Slot(<<t, FALSE>>, 0), 1), 2)[1])
  BY <1>1, <1>4
<1> QED
  BY <1>5 DEF RunProgbuf

LEMMA SlotIs ==
    ASSUME NEW u, NEW b, NEW i
    PROVE  Slot(<<u, b>>, i) =
                IF b \/ u.pb[i] = "ebreak" THEN <<u, TRUE>>
                ELSE <<Insn(u, u.pb[i]), Insn(u, u.pb[i]).cmderr>>
  BY DEF Slot

LEMMA RunOne ==
    ASSUME NEW t, Shape(t), t.pb[0] # "ebreak", t.pb[1] = "ebreak"
    PROVE  RunProgbuf(t) = Insn(t, t.pb[0])
<1> DEFINE u == Insn(t, t.pb[0])
<1>1. u.pb = t.pb
  BY InsnRan DEF Ran
<1>2. Slot(<<t, FALSE>>, 0) = <<u, u.cmderr>>
  BY SlotIs
<1> HIDE DEF u
<1>3. Slot(<<u, u.cmderr>>, 1) = <<u, TRUE>>
  BY <1>1, SlotIs
<1>4. Slot(<<u, TRUE>>, 2) = <<u, TRUE>>
  BY SlotIs
<1>5. RunProgbuf(t) = <<u, TRUE>>[1]
  BY <1>2, <1>3, <1>4, Zenon DEF RunProgbuf
<1> QED
  BY <1>5 DEF u

LEMMA RunTwo ==
    ASSUME NEW t, Shape(t), t.pb[0] # "ebreak", t.pb[1] # "ebreak", t.pb[2] = "ebreak"
    PROVE  RunProgbuf(t) = IF Insn(t, t.pb[0]).cmderr THEN Insn(t, t.pb[0])
                           ELSE Insn(Insn(t, t.pb[0]), t.pb[1])
<1> DEFINE u == Insn(t, t.pb[0])
           v == Insn(u, t.pb[1])
<1>1. Shape(u) /\ u.pb = t.pb /\ u.cmderr \in BOOLEAN
  BY InsnRan DEF Ran, Shape
<1>2. v.pb = t.pb
  <2> HIDE DEF u
  <2> QED
    BY <1>1, InsnRan DEF Ran
<1>3. Slot(<<t, FALSE>>, 0) = <<u, u.cmderr>>
  BY SlotIs
<1> HIDE DEF u
<1>4. Slot(<<u, u.cmderr>>, 1) = IF u.cmderr THEN <<u, TRUE>> ELSE <<v, v.cmderr>>
  BY <1>1, SlotIs
<1> HIDE DEF v
<1>5. Slot(<<u, TRUE>>, 2) = <<u, TRUE>>
  BY SlotIs
<1>6. Slot(<<v, v.cmderr>>, 2) = <<v, TRUE>>
  BY <1>2, SlotIs
<1>7. RunProgbuf(t) = IF u.cmderr THEN u ELSE v
  BY <1>3, <1>4, <1>5, <1>6 DEF RunProgbuf
<1> QED
  BY <1>7 DEF u, v

\* What an access changes at most.
Went(t, u) == Shape(u) /\ Host(t, u)

LEMMA WentTrans == ASSUME NEW t, NEW u, NEW v, Went(t, u), Went(u, v) PROVE Went(t, v)
  BY DEF Went, Host

\* An abstract command, before the program buffer.
Moved(t, c) ==
    CASE c.move = "read"  -> [t EXCEPT !.last = c, !.data0 = t.gpr[c.reg]]
      [] c.move = "write" -> [t EXCEPT !.last = c, !.gpr[c.reg] = t.data0]
      [] OTHER            -> [t EXCEPT !.last = c, !.data0 = 0]

LEMMA CommandIs ==
    ASSUME NEW t, NEW c
    PROVE  Command(t, c) = IF t.cmderr THEN t
                           ELSE IF t.hart # "halted" THEN [t EXCEPT !.last = c, !.cmderr = TRUE]
                           ELSE IF c.exec THEN RunProgbuf(Moved(t, c)) ELSE Moved(t, c)
  BY Zenon DEF Command, Moved

\* A command leaves the program buffer, autoexec and the hart's run state alone.
Kept(t, u) == Went(t, u) /\ u.hart = t.hart /\ u.pb = t.pb /\ u.auto = t.auto /\ u.out = t.out

LEMMA MovedKept == ASSUME NEW t, Shape(t), NEW c PROVE Kept(t, Moved(t, c))
<1>1. Kept(t, [t EXCEPT !.last = c, !.data0 = t.gpr[c.reg]])
  BY DEF Kept, Went, Host, Shape, Fields
<1>2. Kept(t, [t EXCEPT !.last = c, !.gpr[c.reg] = t.data0])
  BY FunExcept DEF Kept, Went, Host, Shape, Fields
<1>3. Kept(t, [t EXCEPT !.last = c, !.data0 = 0])
  BY DEF Kept, Went, Host, Shape, Fields
<1>4. \/ Moved(t, c) = [t EXCEPT !.last = c, !.data0 = t.gpr[c.reg]]
      \/ Moved(t, c) = [t EXCEPT !.last = c, !.gpr[c.reg] = t.data0]
      \/ Moved(t, c) = [t EXCEPT !.last = c, !.data0 = 0]
  BY DEF Moved
<1> QED
  BY <1>1, <1>2, <1>3, <1>4, Zenon

LEMMA CommandKept == ASSUME NEW t, Shape(t), NEW c PROVE Kept(t, Command(t, c))
<1> DEFINE u == Moved(t, c)
<1>1. Kept(t, u) /\ Shape(u)
  BY MovedKept DEF Kept, Went
<1> HIDE DEF u
<1>2. Kept(t, RunProgbuf(u))
  <2>1. Ran(u, RunProgbuf(u))
    BY <1>1, ProgbufRan
  <2> QED
    BY <1>1, <2>1 DEF Ran, Kept, Went, Host
<1>3. Kept(t, [t EXCEPT !.last = c, !.cmderr = TRUE])
  BY DEF Kept, Went, Host, Shape, Fields
<1>4. Kept(t, t)
  BY DEF Kept, Went, Host
<1>5. Command(t, c) \in {t, [t EXCEPT !.last = c, !.cmderr = TRUE], RunProgbuf(u), u}
  BY CommandIs DEF u
<1> QED
  BY <1>1, <1>2, <1>3, <1>4, <1>5, Zenon

\* A command that was not refused.
LEMMA CommandDone ==
    ASSUME NEW t, Shape(t), NEW c, ~Command(t, c).cmderr
    PROVE  /\ ~t.cmderr /\ t.hart = "halted"
           /\ Command(t, c) = IF c.exec THEN RunProgbuf(Moved(t, c)) ELSE Moved(t, c)
<1>1. ~t.cmderr
  <2>1. SUFFICES ASSUME t.cmderr PROVE FALSE
    OBVIOUS
  <2>2. Command(t, c) = t
    BY <2>1, CommandIs
  <2> QED
    BY <2>1, <2>2
<1>2. t.hart = "halted"
  <2>1. SUFFICES ASSUME t.hart # "halted" PROVE FALSE
    OBVIOUS
  <2>2. Command(t, c) = [t EXCEPT !.last = c, !.cmderr = TRUE]
    BY <1>1, <2>1, CommandIs, Zenon
  <2>3. Command(t, c).cmderr = TRUE
    BY <2>2 DEF Shape, Fields
  <2> QED
    BY <2>3
<1>3. Command(t, c) = IF c.exec THEN RunProgbuf(Moved(t, c)) ELSE Moved(t, c)
  BY <1>1, <1>2, CommandIs, Zenon
<1> QED
  BY <1>1, <1>2, <1>3

LEMMA AccessIs ==
    ASSUME NEW t
    PROVE  /\ \A v : Access(t, Put(v)) = Again([t EXCEPT !.data0 = v])
           /\ Access(t, Get) = Again([t EXCEPT !.out = Append(@, t.data0)])
           /\ \A c : Access(t, Do(c)) = Command(t, c)
           /\ \A b : Access(t, Autoexec(b)) = [t EXCEPT !.auto = b]
           /\ Access(t, <<"run">>) = [t EXCEPT !.hart = "running"]
           /\ Access(t, <<"halt">>) = [t EXCEPT !.hart = "halted"]
           /\ Access(t, <<"reset">>) = [t EXCEPT !.hart = "halted", !.gpr = [r \in Regs |-> 0], !.step = FALSE]
<1>1. ASSUME NEW v PROVE Access(t, Put(v)) = Again([t EXCEPT !.data0 = v])
  BY DEF Access, Put
<1>2. Access(t, Get) = Again([t EXCEPT !.out = Append(@, t.data0)])
  BY DEF Access, Get
<1>3. ASSUME NEW c PROVE Access(t, Do(c)) = Command(t, c)
  BY DEF Access, Do
<1>5. ASSUME NEW b PROVE Access(t, Autoexec(b)) = [t EXCEPT !.auto = b]
  BY DEF Access, Autoexec
<1>6. Access(t, <<"run">>) = [t EXCEPT !.hart = "running"]
  BY DEF Access
<1>7. Access(t, <<"halt">>) = [t EXCEPT !.hart = "halted"]
  BY DEF Access
<1>8. Access(t, <<"reset">>) = [t EXCEPT !.hart = "halted", !.gpr = [r \in Regs |-> 0], !.step = FALSE]
  BY DEF Access
<1> QED
  BY <1>1, <1>2, <1>3, <1>5, <1>6, <1>7, <1>8

LEMMA PbIs ==
    ASSUME NEW t, NEW i, NEW x
    PROVE  Access(t, <<"pb", i, x>>) = [t EXCEPT !.pb = [@ EXCEPT ![i] = x]]
  BY DEF Access

\* The accesses of a batch that _run sends.
Plain(x) ==
    \/ x = Get \/ (\E v : x = Put(v)) \/ (\E c : x = Do(c))
    \/ (\E i, y : x = <<"pb", i, y>>) \/ x = Autoexec(TRUE) \/ x = Autoexec(FALSE)

LEMMA AgainKept == ASSUME NEW t, Shape(t) PROVE Kept(t, Again(t))
<1>1. Kept(t, t)
  BY DEF Kept, Went, Host
<1>2. Kept(t, Command(t, t.last))
  BY CommandKept
<1> QED
  BY <1>1, <1>2 DEF Again

LEMMA PlainWent ==
    ASSUME NEW t, Shape(t), NEW x, Plain(x)
    PROVE  Went(t, Access(t, x)) /\ Access(t, x).hart = t.hart
<1>1. CASE x = Get
  <2> DEFINE u == [t EXCEPT !.out = Append(@, t.data0)]
  <2>1. Went(t, u) /\ u.hart = t.hart
    BY DEF Went, Host, Shape, Fields
  <2>2. Access(t, x) = Again(u)
    BY <1>1, AccessIs
  <2> HIDE DEF u
  <2>3. Kept(u, Again(u))
    BY <2>1, AgainKept DEF Went
  <2> QED
    BY <2>1, <2>2, <2>3, WentTrans DEF Kept
<1>2. ASSUME NEW v, x = Put(v) PROVE Went(t, Access(t, x)) /\ Access(t, x).hart = t.hart
  <2> DEFINE u == [t EXCEPT !.data0 = v]
  <2>1. Went(t, u) /\ u.hart = t.hart
    BY DEF Went, Host, Shape, Fields
  <2>2. Access(t, x) = Again(u)
    BY <1>2, AccessIs
  <2> HIDE DEF u
  <2>3. Kept(u, Again(u))
    BY <2>1, AgainKept DEF Went
  <2> QED
    BY <2>1, <2>2, <2>3, WentTrans DEF Kept
<1>3. ASSUME NEW c, x = Do(c) PROVE Went(t, Access(t, x)) /\ Access(t, x).hart = t.hart
  <2>1. Access(t, x) = Command(t, c)
    BY <1>3, AccessIs
  <2> QED
    BY <2>1, CommandKept DEF Kept
<1>4. ASSUME NEW i, NEW y, x = <<"pb", i, y>> PROVE Went(t, Access(t, x)) /\ Access(t, x).hart = t.hart
  <2> DEFINE u == [t EXCEPT !.pb = [@ EXCEPT ![i] = y]]
  <2>1. Access(t, x) = u
    <3>1. Access(t, <<"pb", i, y>>) = u
      BY PbIs
    <3> QED
      BY <1>4, <3>1, Zenon
  <2>2. Went(t, u) /\ u.hart = t.hart
    BY FunExcept DEF Went, Host, Shape, Fields
  <2> HIDE DEF u
  <2> QED
    BY <2>1, <2>2
<1>5. ASSUME NEW b \in BOOLEAN, x = Autoexec(b) PROVE Went(t, Access(t, x)) /\ Access(t, x).hart = t.hart
  <2>1. Access(t, x) = [t EXCEPT !.auto = b]
    BY <1>5, AccessIs
  <2>2. Went(t, [t EXCEPT !.auto = b]) /\ [t EXCEPT !.auto = b].hart = t.hart
    BY DEF Went, Host, Shape, Fields
  <2> QED
    BY <2>1, <2>2
<1> QED
  BY <1>1, <1>2, <1>3, <1>4, <1>5 DEF Plain

LEMMA PlainReach ==
    ASSUME NEW t, Shape(t), NEW b, IsSeq(b), \A i \in 1 .. Len(b) : Plain(b[i])
    PROVE  /\ Went(t, Done(t, b)) /\ Done(t, b).hart = t.hart
           /\ \A d \in Reach(t, b) : Went(t, d) /\ d.hart = t.hart
<1>1. PICK f : RunOf(f, t, b) /\ Done(t, b) = f[Len(b)] /\ Reach(t, b) = {f[k] : k \in 0 .. Len(b)}
  BY BatchRun
<1> DEFINE n == Len(b)
           T == {k \in Nat : k <= n => Went(t, f[k]) /\ f[k].hart = t.hart}
<1>2. n \in Nat
  BY SeqShape
<1>3. f[0] = t /\ \A i \in 1 .. n : f[i] = Access(f[i - 1], b[i])
  BY <1>1, Zenon DEF RunOf
<1>4. 0 \in T
  BY <1>3 DEF Went, Host
<1>5. ASSUME NEW k \in Nat, k \in T PROVE k + 1 \in T
  <2>1. SUFFICES ASSUME k + 1 <= n PROVE Went(t, f[k + 1]) /\ f[k + 1].hart = t.hart
    OBVIOUS
  <2>2. k + 1 \in 1 .. n /\ k + 1 - 1 = k /\ Went(t, f[k]) /\ f[k].hart = t.hart
    BY <1>2, <1>5, <2>1
  <2>3. f[k + 1] = Access(f[k], b[k + 1]) /\ Plain(b[k + 1])
    BY <1>3, <2>2
  <2>4. Went(f[k], f[k + 1]) /\ f[k + 1].hart = f[k].hart
    BY <2>2, <2>3, PlainWent DEF Went
  <2> QED
    BY <2>2, <2>4, WentTrans
<1>6. Nat \subseteq T
  <2> HIDE DEF T
  <2> QED
    BY <1>4, <1>5, NatsIn
<1>7. \A k \in 0 .. n : Went(t, f[k]) /\ f[k].hart = t.hart
  BY <1>2, <1>6
<1>8. n \in 0 .. n
  BY <1>2
<1> HIDE DEF n
<1> QED
  BY <1>1, <1>7, <1>8 DEF n

-----------------------------------------------------------------------------
(* Accesses that leave the user's registers and the memory alone.          *)

\* A register whose value the host has saved and marked.
Spare(t, r) == t.cache # NoRegs /\ r \in t.clobbered

Still(t, u) ==
    /\ Went(t, u) /\ u.hart = t.hart /\ u.auto = t.auto
    /\ u.mem = t.mem /\ u.touched = t.touched
    /\ \A r \in Regs : Spare(t, r) \/ u.gpr[r] = t.gpr[r]

LEMMA StillTrans == ASSUME NEW t, NEW u, NEW v, Still(t, u), Still(u, v) PROVE Still(t, v)
  BY DEF Still, Went, Host, Spare

LEMMA StillSame == ASSUME NEW t, Shape(t) PROVE Still(t, t)
  BY DEF Still, Went, Host

LEMMA PutStill ==
    ASSUME NEW t, Shape(t), ~t.auto, NEW v, NEW u, u = Access(t, Put(v))
    PROVE  /\ Still(t, u) /\ u.data0 = v /\ u.gpr = t.gpr /\ u.pb = t.pb /\ u.cmderr = t.cmderr
           /\ u.out = t.out /\ u.csr = t.csr /\ u.step = t.step
<1>1. u = [t EXCEPT !.data0 = v]
  <2> DEFINE w == [t EXCEPT !.data0 = v]
  <2>1. u = Again(w) /\ w.auto = t.auto
    BY AccessIs DEF Shape, Fields
  <2> HIDE DEF w
  <2>2. u = w
    BY <2>1 DEF Again
  <2> QED
    BY <2>2 DEF w
<1> QED
  BY <1>1 DEF Still, Went, Host, Shape, Fields

LEMMA GetStill ==
    ASSUME NEW t, Shape(t), ~t.auto, NEW u, u = Access(t, Get)
    PROVE  /\ Still(t, u) /\ u.out = Append(t.out, t.data0)
           /\ u.data0 = t.data0 /\ u.gpr = t.gpr /\ u.pb = t.pb /\ u.cmderr = t.cmderr
           /\ u.csr = t.csr /\ u.step = t.step
<1>1. u = [t EXCEPT !.out = Append(@, t.data0)]
  <2> DEFINE w == [t EXCEPT !.out = Append(@, t.data0)]
  <2>1. u = Again(w) /\ w.auto = t.auto
    BY AccessIs DEF Shape, Fields
  <2> HIDE DEF w
  <2>2. u = w
    BY <2>1 DEF Again
  <2> QED
    BY <2>2 DEF w
<1> QED
  BY <1>1 DEF Still, Went, Host, Shape, Fields

\* A refused command.
LEMMA RefusedStill ==
    ASSUME NEW t, Shape(t), NEW c
    PROVE  LET u == [t EXCEPT !.last = c, !.cmderr = TRUE]
           IN  Still(t, u) /\ u.gpr = t.gpr /\ u.pb = t.pb /\ u.out = t.out /\ u.cmderr /\ u.csr = t.csr /\ u.step = t.step
  BY DEF Still, Went, Host, Shape, Fields

LEMMA ReadStill ==
    ASSUME NEW t, Shape(t), NEW r \in Regs, NEW u, u = Access(t, Read(r))
    PROVE  /\ Still(t, u) /\ u.gpr = t.gpr /\ u.pb = t.pb /\ u.out = t.out /\ u.csr = t.csr /\ u.step = t.step
           /\ ~u.cmderr => ~t.cmderr /\ t.hart = "halted" /\ u.data0 = t.gpr[r]
<1> DEFINE c == Cmd("read", r, FALSE)
           v == [t EXCEPT !.last = c, !.data0 = t.gpr[r]]
<1>1. c.move = "read" /\ c.reg = r /\ c.exec = FALSE
  BY DEF Cmd
<1>2. u = Command(t, c)
  BY AccessIs DEF Read
<1> HIDE DEF c
<1>3. Moved(t, c) = v
  BY <1>1 DEF Moved
<1>4. /\ Still(t, v) /\ v.gpr = t.gpr /\ v.pb = t.pb /\ v.out = t.out /\ v.csr = t.csr /\ v.step = t.step
      /\ v.data0 = t.gpr[r]
  BY DEF Still, Went, Host, Shape, Fields
<1>5. u = IF t.cmderr THEN t
          ELSE IF t.hart # "halted" THEN [t EXCEPT !.last = c, !.cmderr = TRUE] ELSE v
  BY <1>1, <1>2, <1>3, CommandIs, Zenon
<1> HIDE DEF v
<1>6. CASE u = t /\ t.cmderr
  BY <1>6, StillSame
<1>7. CASE u = [t EXCEPT !.last = c, !.cmderr = TRUE]
  <2>1. Still(t, u) /\ u.gpr = t.gpr /\ u.pb = t.pb /\ u.out = t.out /\ u.cmderr /\ u.csr = t.csr /\ u.step = t.step
    <3> DEFINE w == [t EXCEPT !.last = c, !.cmderr = TRUE]
    <3>1. Still(t, w) /\ w.gpr = t.gpr /\ w.pb = t.pb /\ w.out = t.out /\ w.cmderr /\ w.csr = t.csr /\ w.step = t.step
      BY RefusedStill
    <3>2. u = w
      BY <1>7
    <3> HIDE DEF w
    <3> QED
      BY <3>1, <3>2
  <2> QED
    BY <2>1
<1>8. CASE u = v /\ ~t.cmderr /\ t.hart = "halted"
  BY <1>4, <1>8
<1> QED
  BY <1>5, <1>6, <1>7, <1>8

LEMMA WriteStill ==
    ASSUME NEW t, Shape(t), NEW r \in Regs, NEW u, u = Access(t, Write(r))
    PROVE  /\ u.pb = t.pb /\ u.out = t.out /\ u.csr = t.csr /\ u.step = t.step
           /\ Spare(t, r) \/ t.data0 = t.gpr[r] => Still(t, u)
           /\ ~u.cmderr => ~t.cmderr /\ t.hart = "halted" /\ u.gpr[r] = t.data0
           /\ Went(t, u) /\ u.hart = t.hart /\ u.auto = t.auto /\ u.mem = t.mem /\ u.touched = t.touched
           /\ u.gpr[r] \in {t.gpr[r], t.data0}
           /\ u.cmderr => u.gpr[r] = t.gpr[r]
           /\ \A q \in Regs : q # r => u.gpr[q] = t.gpr[q]
<1> DEFINE c == Cmd("write", r, FALSE)
           v == [t EXCEPT !.last = c, !.gpr[r] = t.data0]
<1>1. c.move = "write" /\ c.reg = r /\ c.exec = FALSE
  BY DEF Cmd
<1>2. u = Command(t, c)
  BY AccessIs DEF Write
<1> HIDE DEF c
<1>3. Moved(t, c) = v
  BY <1>1 DEF Moved
<1>4. /\ v.pb = t.pb /\ v.out = t.out /\ v.csr = t.csr /\ v.step = t.step /\ v.cmderr = t.cmderr
      /\ v.gpr = [t.gpr EXCEPT ![r] = t.data0]
      /\ Went(t, v) /\ v.hart = t.hart /\ v.auto = t.auto /\ v.mem = t.mem /\ v.touched = t.touched
  BY FunExcept DEF Went, Host, Shape, Fields
<1>5. v.gpr[r] = t.data0 /\ \A q \in Regs : q # r => v.gpr[q] = t.gpr[q]
  BY <1>4 DEF Shape
<1>6. u = IF t.cmderr THEN t
          ELSE IF t.hart # "halted" THEN [t EXCEPT !.last = c, !.cmderr = TRUE] ELSE v
  BY <1>1, <1>2, <1>3, CommandIs, Zenon
<1> HIDE DEF v
<1>7. CASE u = t /\ t.cmderr
  BY <1>7, StillSame DEF Still
<1>8. CASE u = [t EXCEPT !.last = c, !.cmderr = TRUE]
  <2>1. Still(t, u) /\ u.gpr = t.gpr /\ u.pb = t.pb /\ u.out = t.out /\ u.cmderr /\ u.csr = t.csr /\ u.step = t.step
    <3> DEFINE w == [t EXCEPT !.last = c, !.cmderr = TRUE]
    <3>1. Still(t, w) /\ w.gpr = t.gpr /\ w.pb = t.pb /\ w.out = t.out /\ w.cmderr /\ w.csr = t.csr /\ w.step = t.step
      BY RefusedStill
    <3>2. u = w
      BY <1>8
    <3> HIDE DEF w
    <3> QED
      BY <3>1, <3>2
  <2> QED
    BY <2>1 DEF Still
<1>9. CASE u = v /\ ~t.cmderr /\ t.hart = "halted"
  BY <1>4, <1>5, <1>9 DEF Still
<1> QED
  BY <1>6, <1>7, <1>8, <1>9

\* An instruction that moves or sets what it is asked to.
LEMMA CsrrStill ==
    ASSUME NEW t, Shape(t), Spare(t, S0), NEW u, u = Insn(t, "csrr")
    PROVE  Still(t, u) /\ u.gpr[S0] = t.csr /\ u.csr = t.csr
<1>1. u = [t EXCEPT !.gpr = [@ EXCEPT ![S0] = t.csr]]
  BY InsnIs
<1>2. u.gpr = [t.gpr EXCEPT ![S0] = t.csr] /\ S0 \in Regs
  BY <1>1 DEF Shape, Fields, Regs
<1>3. u.gpr[S0] = t.csr /\ \A r \in Regs : r # S0 => u.gpr[r] = t.gpr[r]
  BY <1>2 DEF Shape
<1>4. u.hart = t.hart /\ u.auto = t.auto /\ u.mem = t.mem /\ u.touched = t.touched /\ u.csr = t.csr
  BY <1>1 DEF Shape, Fields
<1>5. Went(t, u)
  BY <1>1, GprRan DEF Ran, Went
<1> QED
  BY <1>3, <1>4, <1>5 DEF Still

LEMMA CsrwStill ==
    ASSUME NEW t, Shape(t), NEW u, u = Insn(t, "csrw")
    PROVE  Still(t, u) /\ u.csr = t.gpr[S0]
<1>1. u = [t EXCEPT !.csr = t.gpr[S0]]
  BY InsnIs
<1> QED
  BY <1>1 DEF Still, Went, Host, Shape, Fields

LEMMA StepStill ==
    ASSUME NEW t, Shape(t), NEW u, u = Insn(t, "step")
    PROVE  Still(t, u)
<1>1. u = [t EXCEPT !.step = TRUE]
  BY InsnIs
<1> QED
  BY <1>1 DEF Still, Went, Host, Shape, Fields

LEMMA NostepStill ==
    ASSUME NEW t, Shape(t), NEW u, u = Insn(t, "nostep")
    PROVE  Still(t, u) /\ u.step = FALSE
<1>1. u = [t EXCEPT !.step = FALSE]
  BY InsnIs
<1> QED
  BY <1>1 DEF Still, Went, Host, Shape, Fields

LEMMA FenceStill ==
    ASSUME NEW t, Shape(t), NEW u, u = Insn(t, "fence")
    PROVE  Still(t, u) /\ u = t
<1>1. u = t
  BY InsnIs
<1> QED
  BY <1>1, StillSame

\* A command that runs the program buffer: it is refused, or the program buffer
\* runs from where the move has left the registers.
LEMMA ExecIs ==
    ASSUME NEW t, Shape(t), NEW c, c.exec, NEW u, u = Command(t, c)
    PROVE  \/ Still(t, u) /\ u.cmderr /\ u.gpr = t.gpr
           \/ ~t.cmderr /\ t.hart = "halted" /\ u = RunProgbuf(Moved(t, c))
<1>1. CASE u = t /\ t.cmderr
  BY <1>1, StillSame
<1>2. CASE u = [t EXCEPT !.last = c, !.cmderr = TRUE]
  <2> DEFINE w == [t EXCEPT !.last = c, !.cmderr = TRUE]
  <2>1. Still(t, w) /\ w.gpr = t.gpr /\ w.cmderr
    BY RefusedStill
  <2>2. u = w
    BY <1>2
  <2> HIDE DEF w
  <2> QED
    BY <2>1, <2>2
<1>3. CASE ~t.cmderr /\ t.hart = "halted" /\ u = RunProgbuf(Moved(t, c))
  BY <1>3
<1>4. u = IF t.cmderr THEN t
          ELSE IF t.hart # "halted" THEN [t EXCEPT !.last = c, !.cmderr = TRUE]
          ELSE IF c.exec THEN RunProgbuf(Moved(t, c)) ELSE Moved(t, c)
  BY CommandIs, Zenon
<1> QED
  BY <1>1, <1>2, <1>3, <1>4, Zenon

\* CMD_EXEC.
LEMMA ExecMoves ==
    ASSUME NEW t, Shape(t), NEW v, v = Moved(t, CMD_EXEC)
    PROVE  /\ Still(t, v) /\ v.gpr = t.gpr /\ v.pb = t.pb /\ v.csr = t.csr /\ v.cmderr = t.cmderr
           /\ v.mem = t.mem /\ v.touched = t.touched
<1> DEFINE c == CMD_EXEC
<1>1. c.move = "zero"
  BY DEF CMD_EXEC, Cmd
<1> HIDE DEF c
<1>2. Moved(t, c) = [t EXCEPT !.last = c, !.data0 = 0]
  BY <1>1 DEF Moved
<1>3. v = [t EXCEPT !.last = c, !.data0 = 0]
  BY <1>2 DEF c
<1> QED
  BY <1>3 DEF Still, Went, Host, Shape, Fields

\* ... with one instruction in the program buffer.
LEMMA ExecOne ==
    ASSUME NEW t, Shape(t), t.pb[0] # "ebreak", t.pb[1] = "ebreak", NEW u, u = Access(t, Do(CMD_EXEC))
    PROVE  /\ u.pb = t.pb /\ u.auto = t.auto /\ u.out = t.out /\ Shape(u)
           /\ \/ Still(t, u) /\ u.cmderr /\ u.gpr = t.gpr
              \/ /\ ~t.cmderr /\ t.hart = "halted"
                 /\ \E v : Still(t, v) /\ v.gpr = t.gpr /\ v.csr = t.csr /\ u = Insn(v, t.pb[0])
<1>1. u = Command(t, CMD_EXEC)
  BY AccessIs
<1>2. u.pb = t.pb /\ u.auto = t.auto /\ u.out = t.out /\ Shape(u)
  BY <1>1, CommandKept DEF Kept, Went
<1>3. CMD_EXEC.exec
  BY DEF CMD_EXEC, Cmd
<1>4. \/ Still(t, u) /\ u.cmderr /\ u.gpr = t.gpr
      \/ ~t.cmderr /\ t.hart = "halted" /\ u = RunProgbuf(Moved(t, CMD_EXEC))
  BY <1>1, <1>3, ExecIs
<1>5. ASSUME ~t.cmderr, t.hart = "halted", u = RunProgbuf(Moved(t, CMD_EXEC))
      PROVE  \E v : Still(t, v) /\ v.gpr = t.gpr /\ v.csr = t.csr /\ u = Insn(v, t.pb[0])
  <2> DEFINE v == Moved(t, CMD_EXEC)
  <2>1. Still(t, v) /\ v.gpr = t.gpr /\ v.pb = t.pb /\ v.csr = t.csr
    BY ExecMoves
  <2>2. u = RunProgbuf(v)
    BY <1>5
  <2> HIDE DEF v
  <2>3. u = Insn(v, t.pb[0])
    BY <2>1, <2>2, RunOne DEF Still, Went
  <2> QED
    BY <2>1, <2>3
<1> QED
  BY <1>2, <1>4, <1>5

LEMMA CsrrExec ==
    ASSUME NEW t, Shape(t), Spare(t, S0), t.pb[0] = "csrr", t.pb[1] = "ebreak",
           NEW u, u = Access(t, Do(CMD_EXEC))
    PROVE  /\ Still(t, u) /\ u.pb = t.pb /\ u.out = t.out
           /\ ~u.cmderr => ~t.cmderr /\ t.hart = "halted" /\ u.gpr[S0] = t.csr
<1>1. /\ u.pb = t.pb /\ u.out = t.out
      /\ \/ Still(t, u) /\ u.cmderr
         \/ /\ ~t.cmderr /\ t.hart = "halted"
            /\ \E v : Still(t, v) /\ v.gpr = t.gpr /\ v.csr = t.csr /\ u = Insn(v, "csrr")
  BY ExecOne
<1>2. ASSUME NEW v, Still(t, v), v.gpr = t.gpr, v.csr = t.csr, u = Insn(v, "csrr")
      PROVE  Still(t, u) /\ u.gpr[S0] = t.csr
  <2>1. Shape(v) /\ Spare(v, S0)
    BY <1>2 DEF Still, Went, Host, Spare
  <2>2. Still(v, u) /\ u.gpr[S0] = v.csr
    BY <1>2, <2>1, CsrrStill
  <2> QED
    BY <1>2, <2>2, StillTrans
<1> QED
  BY <1>1, <1>2

LEMMA CsrwExec ==
    ASSUME NEW t, Shape(t), t.pb[0] = "csrw", t.pb[1] = "ebreak",
           NEW u, u = Access(t, Do(CMD_EXEC))
    PROVE  /\ Still(t, u) /\ u.pb = t.pb /\ u.out = t.out
           /\ ~u.cmderr => ~t.cmderr /\ t.hart = "halted" /\ u.csr = t.gpr[S0]
<1>1. /\ u.pb = t.pb /\ u.out = t.out
      /\ \/ Still(t, u) /\ u.cmderr
         \/ /\ ~t.cmderr /\ t.hart = "halted"
            /\ \E v : Still(t, v) /\ v.gpr = t.gpr /\ v.csr = t.csr /\ u = Insn(v, "csrw")
  BY ExecOne
<1>2. ASSUME NEW v, Still(t, v), v.gpr = t.gpr, v.csr = t.csr, u = Insn(v, "csrw")
      PROVE  Still(t, u) /\ u.csr = t.gpr[S0]
  <2>1. Shape(v)
    BY <1>2 DEF Still, Went
  <2>2. Still(v, u) /\ u.csr = v.gpr[S0]
    BY <1>2, <2>1, CsrwStill
  <2> QED
    BY <1>2, <2>2, StillTrans
<1> QED
  BY <1>1, <1>2

LEMMA StepExec ==
    ASSUME NEW t, Shape(t), t.pb[0] = "step", t.pb[1] = "ebreak",
           NEW u, u = Access(t, Do(CMD_EXEC))
    PROVE  /\ Still(t, u) /\ u.pb = t.pb /\ u.out = t.out
           /\ ~u.cmderr => ~t.cmderr /\ t.hart = "halted"
<1>1. /\ u.pb = t.pb /\ u.out = t.out
      /\ \/ Still(t, u) /\ u.cmderr
         \/ /\ ~t.cmderr /\ t.hart = "halted"
            /\ \E v : Still(t, v) /\ v.gpr = t.gpr /\ v.csr = t.csr /\ u = Insn(v, "step")
  BY ExecOne
<1>2. ASSUME NEW v, Still(t, v), u = Insn(v, "step") PROVE Still(t, u)
  <2>1. Shape(v)
    BY <1>2 DEF Still, Went
  <2>2. Still(v, u)
    BY <1>2, <2>1, StepStill
  <2> QED
    BY <1>2, <2>2, StillTrans
<1> QED
  BY <1>1, <1>2

LEMMA NostepExec ==
    ASSUME NEW t, Shape(t), t.pb[0] = "nostep", t.pb[1] = "ebreak",
           NEW u, u = Access(t, Do(CMD_EXEC))
    PROVE  /\ Still(t, u) /\ u.pb = t.pb /\ u.out = t.out
           /\ ~u.cmderr => ~t.cmderr /\ t.hart = "halted" /\ u.step = FALSE
<1>1. /\ u.pb = t.pb /\ u.out = t.out
      /\ \/ Still(t, u) /\ u.cmderr
         \/ /\ ~t.cmderr /\ t.hart = "halted"
            /\ \E v : Still(t, v) /\ v.gpr = t.gpr /\ v.csr = t.csr /\ u = Insn(v, "nostep")
  BY ExecOne
<1>2. ASSUME NEW v, Still(t, v), u = Insn(v, "nostep") PROVE Still(t, u) /\ u.step = FALSE
  <2>1. Shape(v)
    BY <1>2 DEF Still, Went
  <2>2. Still(v, u) /\ u.step = FALSE
    BY <1>2, <2>1, NostepStill
  <2> QED
    BY <1>2, <2>2, StillTrans
<1> QED
  BY <1>1, <1>2

\* ... with the two fences of sync_code.
LEMMA FencesExec ==
    ASSUME NEW t, Shape(t), t.pb[0] = "fence", t.pb[1] = "fence", t.pb[2] = "ebreak",
           NEW u, u = Access(t, Do(CMD_EXEC))
    PROVE  Still(t, u) /\ u.pb = t.pb
<1>1. u = Command(t, CMD_EXEC)
  BY AccessIs
<1>2. u.pb = t.pb
  BY <1>1, CommandKept DEF Kept
<1>3. CMD_EXEC.exec
  BY DEF CMD_EXEC, Cmd
<1>4. Still(t, u) \/ u = RunProgbuf(Moved(t, CMD_EXEC))
  BY <1>1, <1>3, ExecIs
<1>5. ASSUME u = RunProgbuf(Moved(t, CMD_EXEC)) PROVE Still(t, u)
  <2> DEFINE v == Moved(t, CMD_EXEC)
  <2>1. Still(t, v) /\ v.pb = t.pb
    BY ExecMoves
  <2>2. u = RunProgbuf(v)
    BY <1>5
  <2> HIDE DEF v
  <2>3. Shape(v) /\ v.pb[0] = "fence" /\ v.pb[1] = "fence" /\ v.pb[2] = "ebreak"
    BY <2>1 DEF Still, Went
  <2>4. Insn(v, v.pb[0]) = v /\ Insn(v, v.pb[1]) = v
    BY <2>3, FenceStill
  <2>5. u = v
    BY <2>2, <2>3, <2>4, RunTwo
  <2> QED
    BY <2>1, <2>5
<1> QED
  BY <1>2, <1>4, <1>5

-----------------------------------------------------------------------------
(* The batches of the register operations. *)

LEMMA DoneReached == ASSUME NEW t, NEW b, IsSeq(b) PROVE Done(t, b) \in Reach(t, b)
<1>1. PICK f : RunOf(f, t, b) /\ Done(t, b) = f[Len(b)] /\ Reach(t, b) = {f[k] : k \in 0 .. Len(b)}
  BY BatchRun
<1>2. Len(b) \in 0 .. Len(b)
  BY SeqShape
<1> QED
  BY <1>1, <1>2

PlainSeq(b) == IsSeq(b) /\ \A i \in 1 .. Len(b) : Plain(b[i])

LEMMA PlainNone == PlainSeq(<<>>)
  BY NothingSeq DEF PlainSeq

LEMMA PlainOne == ASSUME NEW x, Plain(x) PROVE PlainSeq(<<x>>)
<1> DEFINE b == <<x>>
<1>1. IsSeq(b) /\ Len(b) = 1 /\ b[1] = x
  BY SingleSeq
<1> HIDE DEF b
<1>2. \A i \in 1 .. Len(b) : Plain(b[i])
  BY <1>1
<1>3. PlainSeq(b)
  BY <1>1, <1>2 DEF PlainSeq
<1> QED
  BY <1>3 DEF b

LEMMA PlainConcat == ASSUME NEW a, NEW b, PlainSeq(a), PlainSeq(b) PROVE PlainSeq(a \o b)
<1> DEFINE c == a \o b
           p == Len(a)
           q == Len(b)
<1>1. /\ IsSeq(c) /\ Len(c) = p + q /\ p \in Nat /\ q \in Nat
      /\ \A i \in 1 .. p : c[i] = a[i]
      /\ \A i \in 1 .. q : c[p + i] = b[i]
  BY ConcatSeq, SeqShape DEF PlainSeq
<1> HIDE DEF c
<1>2. (\A i \in 1 .. p : Plain(a[i])) /\ \A i \in 1 .. q : Plain(b[i])
  BY DEF PlainSeq
<1>3. ASSUME NEW i \in 1 .. p + q PROVE Plain(c[i])
  <2>1. CASE i <= p
    <3>1. i \in 1 .. p
      BY <1>1, <2>1
    <3> QED
      BY <1>1, <1>2, <3>1
  <2>2. CASE ~(i <= p)
    <3>1. i - p \in 1 .. q /\ p + (i - p) = i
      BY <1>1, <2>2
    <3>2. c[p + (i - p)] = b[i - p] /\ Plain(b[i - p])
      BY <1>1, <1>2, <3>1
    <3> QED
      BY <3>1, <3>2
  <2> QED
    BY <2>1, <2>2
<1>4. PlainSeq(c)
  BY <1>1, <1>3 DEF PlainSeq
<1> QED
  BY <1>4 DEF c

LEMMA PlainTwo == ASSUME NEW x, NEW y, Plain(x), Plain(y) PROVE PlainSeq(<<x, y>>)
<1>1. PlainSeq(<<x>> \o <<y>>)
  BY PlainOne, PlainConcat
<1> QED
  BY <1>1, PairSeq

LEMMA PlainThree == ASSUME NEW x, NEW y, NEW z, Plain(x), Plain(y), Plain(z) PROVE PlainSeq(<<x, y, z>>)
<1>1. PlainSeq(<<x>> \o <<y, z>>)
  BY PlainOne, PlainTwo, PlainConcat
<1> QED
  BY <1>1, TripleSeq

LEMMA PlainFour ==
    ASSUME NEW x, NEW y, NEW z, NEW w, Plain(x), Plain(y), Plain(z), Plain(w)
    PROVE  PlainSeq(<<x, y, z, w>>)
<1>1. PlainSeq(<<x>> \o <<y, z, w>>)
  BY PlainOne, PlainThree, PlainConcat
<1> QED
  BY <1>1, QuadSeq

LEMMA PlainIs ==
    /\ Plain(Get) /\ (\A v : Plain(Put(v))) /\ (\A c : Plain(Do(c)))
    /\ (\A r : Plain(Read(r))) /\ (\A r : Plain(Write(r)))
    /\ Plain(Autoexec(TRUE)) /\ Plain(Autoexec(FALSE))
<1>1. Plain(Get)
  BY DEF Plain
<1>2. ASSUME NEW v PROVE Plain(Put(v))
  BY DEF Plain
<1>3. ASSUME NEW c PROVE Plain(Do(c))
  BY DEF Plain
<1>4. ASSUME NEW r PROVE Plain(Read(r)) /\ Plain(Write(r))
  BY <1>3 DEF Read, Write
<1>5. Plain(Autoexec(TRUE)) /\ Plain(Autoexec(FALSE))
  BY DEF Plain
<1> QED
  BY <1>1, <1>2, <1>3, <1>4, <1>5

LEMMA PlainPb == ASSUME NEW i, NEW x PROVE Plain(<<"pb", i, x>>)
  BY DEF Plain

\* Nothing but what is free to change, and the program buffer as it was.
Quiet(t, u) == Still(t, u) /\ u.pb = t.pb

LEMMA QuietTrans == ASSUME NEW t, NEW u, NEW v, Quiet(t, u), Quiet(u, v) PROVE Quiet(t, v)
  BY StillTrans DEF Quiet

LEMMA QuietSame == ASSUME NEW t, Shape(t) PROVE Quiet(t, t)
  BY StillSame DEF Quiet

LEMMA QuietShape ==
    ASSUME NEW t, NEW u, Quiet(t, u)
    PROVE  Shape(u) /\ u.auto = t.auto /\ u.hart = t.hart /\ u.cache = t.cache /\ u.clobbered = t.clobbered
  BY DEF Quiet, Still, Went, Host

\* What two reads leave in out.
LEMMA OneOut ==
    ASSUME NEW s, s = <<>>, NEW x
    PROVE  IsSeq(Append(s, x)) /\ Len(Append(s, x)) = 1 /\ Append(s, x)[1] = x
<1>1. IsSeq(s) /\ Len(s) = 0
  BY NothingSeq
<1> DEFINE a == Append(s, x)
<1>2. IsSeq(a) /\ Len(a) = Len(s) + 1 /\ a[Len(s) + 1] = x
  BY <1>1, AppendSeq
<1> HIDE DEF a
<1>3. IsSeq(a) /\ Len(a) = 1 /\ a[1] = x
  BY <1>1, <1>2
<1> QED
  BY <1>3 DEF a

LEMMA TwoOut ==
    ASSUME NEW s, s = <<>>, NEW x, NEW y
    PROVE  LET b == Append(Append(s, x), y)
           IN  IsSeq(b) /\ Len(b) = 2 /\ b[1] = x /\ b[2] = y
<1> DEFINE a == Append(s, x)
           b == Append(a, y)
<1>1. IsSeq(a) /\ Len(a) = 1 /\ a[1] = x
  BY OneOut
<1> HIDE DEF a
<1>2. IsSeq(b) /\ Len(b) = Len(a) + 1 /\ (\A i \in 1 .. Len(a) : b[i] = a[i]) /\ b[Len(a) + 1] = y
  BY <1>1, AppendSeq
<1> HIDE DEF b
<1>3. IsSeq(b) /\ Len(b) = 2 /\ b[1] = x /\ b[2] = y
  BY <1>1, <1>2
<1> QED
  BY <1>3 DEF b, a

\* _regs reads both registers.
LEMMA SavedBatch ==
    ASSUME NEW s, Shape(s), ~s.auto, s.out = <<>>
    PROVE  LET b == <<Read(S0), Get, Read(S1), Get>>
           IN  /\ PlainSeq(b)
               /\ \A d \in Reach(s, b) : Quiet(s, d) /\ d.csr = s.csr
               /\ ~Done(s, b).cmderr =>
                    s.hart = "halted" /\ \A r \in Regs : Done(s, b).out[IF r = S0 THEN 1 ELSE 2] = s.gpr[r]
<1> DEFINE b == <<Read(S0), Get, Read(S1), Get>>
           t == Access(s, Read(S0))
           u == Access(t, Get)
           v == Access(u, Read(S1))
           w == Access(v, Get)
<1>0. S0 \in Regs /\ S1 \in Regs
  BY DEF Regs
<1>1. PlainSeq(b)
  BY PlainIs, PlainFour
<1>2. Done(s, b) = w /\ Reach(s, b) \subseteq {s, t, u, v, w}
  BY ReachFour
<1>3. Quiet(s, t) /\ t.csr = s.csr /\ t.gpr = s.gpr /\ t.out = s.out /\ (~t.cmderr => s.hart = "halted" /\ t.data0 = s.gpr[S0])
  BY <1>0, ReadStill DEF Quiet
<1> HIDE DEF t
<1>4. Quiet(t, u) /\ u.csr = t.csr /\ u.gpr = t.gpr /\ u.out = Append(t.out, t.data0) /\ u.cmderr = t.cmderr
  BY <1>3, QuietShape, GetStill DEF Quiet
<1> HIDE DEF u
<1>5. Quiet(s, u)
  BY <1>3, <1>4, QuietTrans
<1>6. Quiet(u, v) /\ v.csr = u.csr /\ v.gpr = u.gpr /\ v.out = u.out /\ (~v.cmderr => ~u.cmderr /\ v.data0 = u.gpr[S1])
  BY <1>0, <1>5, QuietShape, ReadStill DEF Quiet
<1> HIDE DEF v
<1>7. Quiet(s, v)
  BY <1>5, <1>6, QuietTrans
<1>8. Quiet(v, w) /\ w.csr = v.csr /\ w.gpr = v.gpr /\ w.out = Append(v.out, v.data0) /\ w.cmderr = v.cmderr
  BY <1>7, QuietShape, GetStill DEF Quiet
<1> HIDE DEF w
<1>9. Quiet(s, w)
  BY <1>7, <1>8, QuietTrans
<1>10. ASSUME ~w.cmderr
       PROVE  s.hart = "halted" /\ \A r \in Regs : w.out[IF r = S0 THEN 1 ELSE 2] = s.gpr[r]
  <2>1. t.data0 = s.gpr[S0] /\ s.hart = "halted" /\ v.data0 = s.gpr[S1]
    BY <1>3, <1>4, <1>6, <1>8, <1>10
  <2>2. w.out = Append(Append(s.out, s.gpr[S0]), s.gpr[S1])
    BY <1>3, <1>4, <1>6, <1>8, <2>1
  <2>5. w.out[1] = s.gpr[S0] /\ w.out[2] = s.gpr[S1]
    BY <2>2, TwoOut
  <2> QED
    BY <2>1, <2>5 DEF Regs
<1>11. \A d \in Reach(s, b) : Quiet(s, d) /\ d.csr = s.csr
  BY <1>2, <1>3, <1>4, <1>5, <1>6, <1>7, <1>8, <1>9, QuietSame
<1> HIDE DEF b
<1>12. /\ PlainSeq(b)
       /\ \A d \in Reach(s, b) : Quiet(s, d) /\ d.csr = s.csr
       /\ ~Done(s, b).cmderr =>
            s.hart = "halted" /\ \A r \in Regs : Done(s, b).out[IF r = S0 THEN 1 ELSE 2] = s.gpr[r]
  BY <1>1, <1>2, <1>10, <1>11
<1> QED
  BY <1>12 DEF b

\* A value on its way to a register.
LEMMA WriteBatch ==
    ASSUME NEW s, Shape(s), ~s.auto, NEW r \in Regs, NEW v
    PROVE  LET b == <<Put(v), Write(r)>>
           IN  /\ PlainSeq(b)
               /\ \A d \in Reach(s, b) :
                    /\ Spare(s, r) => Quiet(s, d)
                    /\ Went(s, d) /\ d.hart = s.hart /\ d.auto = s.auto /\ d.mem = s.mem /\ d.touched = s.touched
                    /\ d.pb = s.pb /\ d.out = s.out /\ d.csr = s.csr
                    /\ d.gpr[r] \in {s.gpr[r], v}
                    /\ \A q \in Regs : q # r => d.gpr[q] = s.gpr[q]
               /\ Done(s, b).cmderr => Done(s, b).gpr[r] = s.gpr[r]
               /\ ~Done(s, b).cmderr => ~s.cmderr /\ s.hart = "halted" /\ Done(s, b).gpr[r] = v
<1> DEFINE b == <<Put(v), Write(r)>>
           t == Access(s, Put(v))
           u == Access(t, Write(r))
           P(d) == /\ Spare(s, r) => Quiet(s, d)
                   /\ Went(s, d) /\ d.hart = s.hart /\ d.auto = s.auto /\ d.mem = s.mem /\ d.touched = s.touched
                   /\ d.pb = s.pb /\ d.out = s.out /\ d.csr = s.csr
                   /\ d.gpr[r] \in {s.gpr[r], v}
                   /\ \A q \in Regs : q # r => d.gpr[q] = s.gpr[q]
<1>1. PlainSeq(b)
  BY PlainIs, PlainTwo
<1>2. Done(s, b) = u /\ Reach(s, b) \subseteq {s, t, u}
  BY ReachTwo
<1>3. Quiet(s, t) /\ t.data0 = v /\ t.gpr = s.gpr /\ t.cmderr = s.cmderr /\ t.out = s.out /\ t.csr = s.csr
  BY PutStill DEF Quiet
<1> HIDE DEF t
<1>4. /\ u.pb = t.pb /\ u.out = t.out /\ u.csr = t.csr
      /\ Spare(t, r) => Still(t, u)
      /\ ~u.cmderr => ~t.cmderr /\ t.hart = "halted" /\ u.gpr[r] = t.data0
      /\ Went(t, u) /\ u.hart = t.hart /\ u.auto = t.auto /\ u.mem = t.mem /\ u.touched = t.touched
      /\ u.gpr[r] \in {t.gpr[r], t.data0}
      /\ u.cmderr => u.gpr[r] = t.gpr[r]
      /\ \A q \in Regs : q # r => u.gpr[q] = t.gpr[q]
  BY <1>3, QuietShape, WriteStill
<1> HIDE DEF u
<1>5. P(s)
  BY QuietSame DEF Went, Host
<1>6. P(t)
  BY <1>3 DEF Quiet, Still
<1>7. P(u)
  <2>1. Spare(s, r) => Quiet(s, u)
    BY <1>3, <1>4, StillTrans DEF Quiet, Still, Went, Host, Spare
  <2>2. Went(s, u)
    BY <1>3, <1>4, WentTrans DEF Quiet, Still
  <2> QED
    BY <1>3, <1>4, <2>1, <2>2 DEF Quiet, Still
<1>8. /\ u.cmderr => u.gpr[r] = s.gpr[r]
      /\ ~u.cmderr => ~s.cmderr /\ s.hart = "halted" /\ u.gpr[r] = v
  BY <1>3, <1>4, QuietShape
<1> HIDE DEF b, P
<1>9. /\ PlainSeq(b)
      /\ \A d \in Reach(s, b) : P(d)
      /\ Done(s, b).cmderr => Done(s, b).gpr[r] = s.gpr[r]
      /\ ~Done(s, b).cmderr => ~s.cmderr /\ s.hart = "halted" /\ Done(s, b).gpr[r] = v
  BY <1>1, <1>2, <1>5, <1>6, <1>7, <1>8
<1> QED
  BY <1>9 DEF b, P

\* Registers going back to the hart.
Back(t, r) == IF r \in t.clobbered THEN <<Put(t.cache[r]), Write(r)>> ELSE <<>>

LEMMA BackBatch ==
    ASSUME NEW s, Shape(s), ~s.auto, s.cache # NoRegs, NEW r \in Regs
    PROVE  /\ PlainSeq(Back(s, r))
           /\ \A d \in Reach(s, Back(s, r)) : Quiet(s, d)
           /\ LET d == Done(s, Back(s, r))
              IN  ~d.cmderr => /\ ~s.cmderr
                               /\ r \in s.clobbered => d.gpr[r] = s.cache[r]
                               /\ \A q \in Regs : q # r => d.gpr[q] = s.gpr[q]
<1>1. CASE r \notin s.clobbered
  <2>1. Back(s, r) = <<>>
    BY <1>1 DEF Back
  <2>2. Done(s, <<>>) = s /\ Reach(s, <<>>) = {s}
    BY ReachNone
  <2> QED
    BY <1>1, <2>1, <2>2, PlainNone, QuietSame
<1>2. CASE r \in s.clobbered
  <2> DEFINE b == <<Put(s.cache[r]), Write(r)>>
  <2>1. Back(s, r) = b
    BY <1>2 DEF Back
  <2>2. Spare(s, r)
    BY <1>2 DEF Spare
  <2>3. /\ PlainSeq(b)
        /\ \A d \in Reach(s, b) :
            /\ Spare(s, r) => Quiet(s, d)
            /\ \A q \in Regs : q # r => d.gpr[q] = s.gpr[q]
        /\ ~Done(s, b).cmderr => ~s.cmderr /\ Done(s, b).gpr[r] = s.cache[r]
    BY WriteBatch
  <2> HIDE DEF b
  <2>4. Done(s, b) \in Reach(s, b)
    BY <2>3, DoneReached DEF PlainSeq
  <2> QED
    BY <2>1, <2>2, <2>3, <2>4
<1> QED
  BY <1>1, <1>2

LEMMA RestoresIs ==
    ASSUME NEW o
    PROVE  Restores(o) = IF o.cache = NoRegs THEN <<>> ELSE Back(o, S0) \o Back(o, S1)
  BY DEF Restores, Back

LEMMA RestoresBatch ==
    ASSUME NEW o, NEW s, Shape(s), ~s.auto, s.cache = o.cache, s.clobbered = o.clobbered
    PROVE  /\ PlainSeq(Restores(o))
           /\ \A d \in Reach(s, Restores(o)) : Quiet(s, d)
           /\ LET d == Done(s, Restores(o))
              IN  ~d.cmderr => /\ ~s.cmderr
                               /\ \A r \in Regs : Spare(s, r) => d.gpr[r] = s.cache[r]
<1>1. CASE o.cache = NoRegs
  <2>1. Restores(o) = <<>>
    BY <1>1, RestoresIs
  <2>2. Done(s, <<>>) = s /\ Reach(s, <<>>) = {s}
    BY ReachNone
  <2> QED
    BY <1>1, <2>1, <2>2, PlainNone, QuietSame DEF Spare
<1>2. CASE o.cache # NoRegs
  <2> DEFINE a == Back(s, S0)
             t == Done(s, a)
             b == Back(s, S1)
             d == Done(t, b)
  <2>0. S0 \in Regs /\ S1 \in Regs /\ S0 # S1 /\ \A r \in Regs : r = S0 \/ r = S1
    BY DEF Regs, S0, S1
  <2>1. Restores(o) = a \o b
    BY <1>2, RestoresIs DEF Back
  <2>2. /\ PlainSeq(a) /\ \A e \in Reach(s, a) : Quiet(s, e)
        /\ ~t.cmderr => /\ ~s.cmderr
                        /\ S0 \in s.clobbered => t.gpr[S0] = s.cache[S0]
    BY <1>2, <2>0, BackBatch
  <2>3. t \in Reach(s, a)
    BY <2>2, DoneReached DEF PlainSeq
  <2> HIDE DEF t, a
  <2>4. Quiet(s, t)
    BY <2>2, <2>3
  <2>5. b = Back(t, S1) /\ t.cache # NoRegs /\ t.cache = s.cache /\ t.clobbered = s.clobbered /\ Shape(t) /\ ~t.auto
    BY <1>2, <2>4, QuietShape DEF Back
  <2> HIDE DEF b
  <2>6. /\ PlainSeq(b) /\ \A e \in Reach(t, b) : Quiet(t, e)
        /\ ~d.cmderr => /\ ~t.cmderr
                        /\ S1 \in t.clobbered => d.gpr[S1] = t.cache[S1]
                        /\ \A q \in Regs : q # S1 => d.gpr[q] = t.gpr[q]
    BY <2>0, <2>5, BackBatch
  <2> HIDE DEF d
  <2>7. Done(s, a \o b) = d /\ Reach(s, a \o b) \subseteq Reach(s, a) \cup Reach(t, b)
    BY <2>2, <2>6, ReachConcat DEF PlainSeq, t, d
  <2>8. PlainSeq(a \o b)
    BY <2>2, <2>6, PlainConcat
  <2>9. \A e \in Reach(s, a \o b) : Quiet(s, e)
    BY <2>2, <2>4, <2>6, <2>7, QuietTrans
  <2>10. ASSUME ~d.cmderr PROVE ~s.cmderr /\ \A r \in Regs : Spare(s, r) => d.gpr[r] = s.cache[r]
    BY <2>0, <2>2, <2>5, <2>6, <2>10 DEF Spare
  <2> QED
    BY <2>1, <2>7, <2>8, <2>9, <2>10
<1> QED
  BY <1>1, <1>2

-----------------------------------------------------------------------------
(* Loading the program buffer. *)

PbOnly(t, u) ==
    /\ Still(t, u) /\ u.gpr = t.gpr /\ u.csr = t.csr /\ u.out = t.out
    /\ u.cmderr = t.cmderr /\ u.data0 = t.data0

LEMMA PbOnlyTrans == ASSUME NEW t, NEW u, NEW v, PbOnly(t, u), PbOnly(u, v) PROVE PbOnly(t, v)
  BY StillTrans DEF PbOnly

LEMMA PbOnlySame == ASSUME NEW t, Shape(t) PROVE PbOnly(t, t)
  BY StillSame DEF PbOnly

\* What the host believes of entry i is so.
Agrees(o, t, i) == o.progbuf[i] \in {"none", t.pb[i]}

\* _load_progbuf for one entry.
Entry(o, i, x) == IF o.progbuf[i] = x THEN <<>> ELSE <<<<"pb", i, x>>>>

LEMMA EntryBatch ==
    ASSUME NEW o, NEW s, Shape(s), NEW i \in 0 .. 2, NEW x, x # "none", Agrees(o, s, i)
    PROVE  /\ PlainSeq(Entry(o, i, x))
           /\ \A d \in Reach(s, Entry(o, i, x)) : PbOnly(s, d)
           /\ LET d == Done(s, Entry(o, i, x))
              IN  /\ PbOnly(s, d) /\ d.pb[i] = x
                  /\ \A j \in 0 .. 2 : j # i => d.pb[j] = s.pb[j]
<1>1. CASE o.progbuf[i] = x
  <2>1. Entry(o, i, x) = <<>>
    BY <1>1 DEF Entry
  <2>2. Done(s, <<>>) = s /\ Reach(s, <<>>) = {s}
    BY ReachNone
  <2>3. s.pb[i] = x
    BY <1>1 DEF Agrees
  <2> QED
    BY <2>1, <2>2, <2>3, PlainNone, PbOnlySame
<1>2. CASE o.progbuf[i] # x
  <2> DEFINE y == <<"pb", i, x>>
             d == [s EXCEPT !.pb = [@ EXCEPT ![i] = x]]
  <2>1. Entry(o, i, x) = <<y>>
    BY <1>2 DEF Entry
  <2>2. Access(s, y) = d
    BY PbIs
  <2>3. Plain(y)
    BY PlainPb
  <2> HIDE DEF y
  <2>4. PbOnly(s, d) /\ d.pb[i] = x /\ \A j \in 0 .. 2 : j # i => d.pb[j] = s.pb[j]
    <3>1. d.pb = [s.pb EXCEPT ![i] = x]
      BY DEF Shape, Fields
    <3>2. d.pb[i] = x /\ (\A j \in 0 .. 2 : j # i => d.pb[j] = s.pb[j]) /\ d.pb = [j \in 0 .. 2 |-> d.pb[j]]
      BY <3>1 DEF Shape
    <3>3. PbOnly(s, d)
      BY <3>2 DEF PbOnly, Still, Went, Host, Shape, Fields
    <3> HIDE DEF d
    <3> QED
      BY <3>2, <3>3
  <2> HIDE DEF d
  <2>5. Done(s, <<y>>) = d /\ Reach(s, <<y>>) = {s, d}
    BY <2>2, ReachOne
  <2>6. PlainSeq(<<y>>)
    BY <2>3, PlainOne
  <2> QED
    BY <2>1, <2>4, <2>5, <2>6, PbOnlySame
<1> QED
  BY <1>1, <1>2

LEMMA LoadIs ==
    ASSUME NEW o, NEW x, NEW y
    PROVE  /\ Load(o, <<x>>) = Entry(o, 0, x) \o Entry(o, 1, "ebreak")
           /\ Load(o, <<x, y>>) = Entry(o, 0, x) \o (Entry(o, 1, y) \o Entry(o, 2, "ebreak"))
<1>1. Len(<<x>>) = 1 /\ <<x>>[1] = x
  BY SingleSeq
<1>2. Len(<<x, y>>) = 2 /\ <<x, y>>[1] = x /\ <<x, y>>[2] = y
  <2> DEFINE S == {x, y}
  <2>1. x \in S /\ y \in S
    OBVIOUS
  <2> HIDE DEF S
  <2>2. <<x, y>> \in Seq(S)
    BY <2>1
  <2> QED
    BY <2>2
<1>3. Load(o, <<x>>) = Entry(o, 0, x) \o Entry(o, 1, "ebreak")
  BY <1>1 DEF Load, Entry
<1>4. Load(o, <<x, y>>) = Entry(o, 0, x) \o (Entry(o, 1, y) \o Entry(o, 2, "ebreak"))
  BY <1>2 DEF Load, Entry
<1> QED
  BY <1>3, <1>4

LEMMA LoadOne ==
    ASSUME NEW o, NEW s, Shape(s), NEW x, x # "none", \A i \in 0 .. 2 : Agrees(o, s, i)
    PROVE  LET b == Load(o, <<x>>)
               e == Done(s, b)
           IN  /\ PlainSeq(b)
               /\ \A d \in Reach(s, b) : PbOnly(s, d)
               /\ PbOnly(s, e) /\ e.pb[0] = x /\ e.pb[1] = "ebreak" /\ e.pb[2] = s.pb[2]
<1> DEFINE a == Entry(o, 0, x)
           b == Entry(o, 1, "ebreak")
           t == Done(s, a)
           e == Done(t, b)
<1>0. 0 \in 0 .. 2 /\ 1 \in 0 .. 2 /\ 2 \in 0 .. 2 /\ "ebreak" # "none"
  OBVIOUS
<1>1. /\ PlainSeq(a) /\ \A d \in Reach(s, a) : PbOnly(s, d)
      /\ PbOnly(s, t) /\ t.pb[0] = x /\ \A j \in 0 .. 2 : j # 0 => t.pb[j] = s.pb[j]
  BY <1>0, EntryBatch
<1> HIDE DEF t
<1>2. Shape(t) /\ Agrees(o, t, 1)
  BY <1>0, <1>1 DEF PbOnly, Still, Went, Agrees
<1>3. /\ PlainSeq(b) /\ \A d \in Reach(t, b) : PbOnly(t, d)
      /\ PbOnly(t, e) /\ e.pb[1] = "ebreak" /\ \A j \in 0 .. 2 : j # 1 => e.pb[j] = t.pb[j]
  BY <1>0, <1>2, EntryBatch
<1> HIDE DEF e, a, b
<1>4. Done(s, a \o b) = e /\ Reach(s, a \o b) \subseteq Reach(s, a) \cup Reach(t, b)
  BY <1>1, <1>3, ReachConcat DEF PlainSeq, t, e
<1>5. PlainSeq(a \o b) /\ PbOnly(s, e)
  BY <1>1, <1>3, PlainConcat, PbOnlyTrans
<1>6. e.pb[0] = x /\ e.pb[1] = "ebreak" /\ e.pb[2] = s.pb[2]
  BY <1>0, <1>1, <1>3
<1>7. \A d \in Reach(s, a \o b) : PbOnly(s, d)
  BY <1>1, <1>3, <1>4, PbOnlyTrans
<1>8. Load(o, <<x>>) = a \o b
  BY LoadIs DEF a, b
<1> QED
  BY <1>4, <1>5, <1>6, <1>7, <1>8

LEMMA LoadTwo ==
    ASSUME NEW o, NEW s, Shape(s), NEW x, NEW y, x # "none", y # "none", \A i \in 0 .. 2 : Agrees(o, s, i)
    PROVE  LET b == Load(o, <<x, y>>)
               e == Done(s, b)
           IN  /\ PlainSeq(b)
               /\ \A d \in Reach(s, b) : PbOnly(s, d)
               /\ PbOnly(s, e) /\ e.pb[0] = x /\ e.pb[1] = y /\ e.pb[2] = "ebreak"
<1> DEFINE a == Entry(o, 0, x)
           b == Entry(o, 1, y)
           c == Entry(o, 2, "ebreak")
           t == Done(s, a)
           u == Done(t, b)
           e == Done(u, c)
<1>0. 0 \in 0 .. 2 /\ 1 \in 0 .. 2 /\ 2 \in 0 .. 2 /\ "ebreak" # "none"
  OBVIOUS
<1>1. /\ PlainSeq(a) /\ \A d \in Reach(s, a) : PbOnly(s, d)
      /\ PbOnly(s, t) /\ t.pb[0] = x /\ \A j \in 0 .. 2 : j # 0 => t.pb[j] = s.pb[j]
  BY <1>0, EntryBatch
<1> HIDE DEF t
<1>2. Shape(t) /\ Agrees(o, t, 1) /\ Agrees(o, t, 2)
  BY <1>0, <1>1 DEF PbOnly, Still, Went, Agrees
<1>3. /\ PlainSeq(b) /\ \A d \in Reach(t, b) : PbOnly(t, d)
      /\ PbOnly(t, u) /\ u.pb[1] = y /\ \A j \in 0 .. 2 : j # 1 => u.pb[j] = t.pb[j]
  BY <1>0, <1>2, EntryBatch
<1> HIDE DEF u
<1>4. Shape(u) /\ Agrees(o, u, 2)
  BY <1>0, <1>2, <1>3 DEF PbOnly, Still, Went, Agrees
<1>5. /\ PlainSeq(c) /\ \A d \in Reach(u, c) : PbOnly(u, d)
      /\ PbOnly(u, e) /\ e.pb[2] = "ebreak" /\ \A j \in 0 .. 2 : j # 2 => e.pb[j] = u.pb[j]
  BY <1>0, <1>4, EntryBatch
<1> HIDE DEF e, a, b, c
<1> DEFINE bc == b \o c
<1>6. Done(t, bc) = e /\ Reach(t, bc) \subseteq Reach(t, b) \cup Reach(u, c) /\ PlainSeq(bc)
  BY <1>3, <1>5, ReachConcat, PlainConcat DEF PlainSeq, u, e
<1> HIDE DEF bc
<1>7. Done(s, a \o bc) = e /\ Reach(s, a \o bc) \subseteq Reach(s, a) \cup Reach(t, bc) /\ PlainSeq(a \o bc)
  BY <1>1, <1>6, ReachConcat, PlainConcat DEF PlainSeq, t
<1>8. PbOnly(s, u) /\ PbOnly(s, e)
  BY <1>1, <1>3, <1>5, PbOnlyTrans
<1>9. e.pb[0] = x /\ e.pb[1] = y /\ e.pb[2] = "ebreak"
  BY <1>0, <1>1, <1>3, <1>5
<1>10. \A d \in Reach(s, a \o bc) : PbOnly(s, d)
  <2>1. \A d \in Reach(t, bc) : PbOnly(t, d)
    BY <1>3, <1>5, <1>6, PbOnlyTrans
  <2> QED
    BY <1>1, <1>7, <2>1, PbOnlyTrans
<1>11. Load(o, <<x, y>>) = a \o bc
  BY LoadIs DEF a, b, c, bc
<1> QED
  BY <1>7, <1>8, <1>9, <1>10, <1>11

-----------------------------------------------------------------------------
(* The probe: what a batch leaves, when it fails and when it does not. *)

\* The same but for the AP selected and what was read.
Same(o, s) ==
    /\ Shape(s) /\ s.cache = o.cache /\ s.clobbered = o.clobbered /\ s.progbuf = o.progbuf
    /\ s.gpr = o.gpr /\ s.pb = o.pb /\ s.data0 = o.data0 /\ s.last = o.last /\ s.auto = o.auto
    /\ s.cmderr = o.cmderr /\ s.mem = o.mem /\ s.csr = o.csr /\ s.step = o.step /\ s.hart = o.hart
    /\ s.link = o.link /\ s.faults = o.faults /\ s.touched = o.touched /\ s.err = o.err

\* p is what the host has of d: the target and the register cache are the same.
Alike(d, p) ==
    /\ Shape(p) /\ p.cache = d.cache /\ p.clobbered = d.clobbered
    /\ p.gpr = d.gpr /\ p.pb = d.pb /\ p.auto = d.auto /\ p.mem = d.mem /\ p.csr = d.csr
    /\ p.hart = d.hart /\ p.link = d.link /\ p.touched = d.touched

LEMMA AlikeSame == ASSUME NEW d, Shape(d) PROVE Alike(d, d)
  BY DEF Alike

\* A failed access of a link that is up.
Failed(d, p) == Alike(d, p) /\ p.err /\ p.faults = d.faults + 1 /\ p.progbuf = d.progbuf /\ p.out = d.out

LEMMA FaultUp ==
    ASSUME NEW d, Shape(d), d.link = "up", NEW p \in Fault(d)
    PROVE  Failed(d, p)
<1>1. p = [d EXCEPT !.err = TRUE, !.faults = @ + 1]
  BY DEF Fault
<1> QED
  BY <1>1 DEF Failed, Alike, Shape, Fields

LEMMA FaultDown ==
    ASSUME NEW d, d.link = "down", NEW p \in Fault(d)
    PROVE  p = [d EXCEPT !.err = TRUE]
  BY DEF Fault

LEMMA TransferUp ==
    ASSUME NEW s, Shape(s), s.link = "up", NEW b, IsSeq(b), \A d \in Reach(s, b) : Went(s, d),
           NEW p \in Transfer(s, b)
    PROVE  \/ p = Done(s, b)
           \/ \E d \in Reach(s, b) : Failed(d, p)
<1>1. s.link # "down"
  OBVIOUS
<1>2. Transfer(s, b) = {Done(s, b)} \cup UNION {Fault(Done(s, SubSeq(b, 1, k))) : k \in 0 .. Len(b)}
  BY <1>1, Zenon DEF Transfer
<1>3. p = Done(s, b) \/ \E k \in 0 .. Len(b) : p \in Fault(Done(s, SubSeq(b, 1, k)))
  BY <1>2
<1>4. ASSUME NEW k \in 0 .. Len(b), p \in Fault(Done(s, SubSeq(b, 1, k)))
      PROVE  \E d \in Reach(s, b) : Failed(d, p)
  <2> DEFINE d == Done(s, SubSeq(b, 1, k))
  <2>1. d \in Reach(s, b)
    BY DEF Reach
  <2>2. p \in Fault(d)
    BY <1>4
  <2> HIDE DEF d
  <2>3. Shape(d) /\ d.link = "up"
    BY <2>1 DEF Went, Host
  <2>4. Failed(d, p)
    BY <2>2, <2>3, FaultUp
  <2> QED
    BY <2>1, <2>4
<1> QED
  BY <1>3, <1>4

\* DAP.select.
LEMMA SelectUp ==
    ASSUME NEW o, Shape(o), o.link = "up", ~o.err, NEW ap, NEW p \in Select(o, ap)
    PROVE  \/ Same(o, p) /\ p.out = o.out
           \/ Failed(o, p)
<1>1. CASE p = o
  BY <1>1 DEF Same
<1>2. CASE p = [o EXCEPT !.ap = ap]
  BY <1>2 DEF Same, Shape, Fields
<1>3. CASE p \in Fault([o EXCEPT !.ap = "none"])
  <2> DEFINE s == [o EXCEPT !.ap = "none"]
  <2>1. Same(o, s) /\ s.out = o.out /\ Shape(s) /\ s.link = "up"
    BY DEF Same, Shape, Fields
  <2>2. p \in Fault(s)
    BY <1>3
  <2> HIDE DEF s
  <2>3. Failed(s, p)
    BY <2>1, <2>2, FaultUp
  <2> QED
    BY <2>1, <2>3 DEF Same, Failed, Alike
<1> QED
  BY <1>1, <1>2, <1>3 DEF Select, Up

\* dm_w, dm_r: it failed, having come so far, or it has done the batch.
DmOutcome(s, b, d, p) ==
    /\ d \in Reach(s, b) /\ Alike(d, p) /\ p.progbuf = s.progbuf /\ p.out = d.out /\ p.faults >= s.faults
    /\ \/ p.err /\ p.faults > 0
       \/ ~p.err /\ d = Done(s, b) /\ p = d

LEMMA DmUp ==
    ASSUME NEW o, Shape(o), o.link = "up", ~o.err, NEW b, IsSeq(b),
           \A s : Shape(s) => \A d \in Reach(s, b) : Went(s, d),
           NEW p \in DmAccess(o, b)
    PROVE  \E s, d : Same(o, s) /\ s.out = o.out /\ DmOutcome(s, b, d, p)
<1>1. \/ p \in Select(o, "dm") /\ p.err
      \/ \E s \in Select(o, "dm") : ~s.err /\ p \in Transfer(s, b)
  BY DEF DmAccess, Then
<1>2. ASSUME NEW s, Shape(s) PROVE s \in Reach(s, b)
  <2>1. PICK f : RunOf(f, s, b) /\ Reach(s, b) = {f[k] : k \in 0 .. Len(b)}
    BY BatchRun
  <2>2. 0 \in 0 .. Len(b) /\ f[0] = s
    BY <2>1, SeqShape DEF RunOf
  <2> QED
    BY <2>1, <2>2
<1>3. Same(o, o)
  BY DEF Same
<1>4. ASSUME p \in Select(o, "dm"), p.err
      PROVE  DmOutcome(o, b, o, p)
  <2>1. Failed(o, p)
    BY <1>4, SelectUp DEF Same
  <2> QED
    BY <1>2, <2>1 DEF DmOutcome, Failed, Shape
<1>5. ASSUME NEW s \in Select(o, "dm"), ~s.err, p \in Transfer(s, b)
      PROVE  Same(o, s) /\ s.out = o.out /\ \E d : DmOutcome(s, b, d, p)
  <2>1. Same(o, s) /\ s.out = o.out
    BY <1>5, SelectUp DEF Failed
  <2>2. Shape(s) /\ s.link = "up"
    BY <2>1 DEF Same
  <2>3. p = Done(s, b) \/ \E d \in Reach(s, b) : Failed(d, p)
    BY <1>5, <2>2, TransferUp
  <2>4. ASSUME p = Done(s, b) PROVE DmOutcome(s, b, p, p)
    <3>1. p \in Reach(s, b)
      BY <2>4, DoneReached
    <3>2. Went(s, p)
      BY <2>2, <3>1
    <3> QED
      BY <1>5, <2>2, <2>4, <3>1, <3>2, AlikeSame DEF DmOutcome, Went, Host, Shape
  <2>5. ASSUME NEW d \in Reach(s, b), Failed(d, p) PROVE DmOutcome(s, b, d, p)
    <3>1. Went(s, d)
      BY <2>2
    <3> QED
      BY <2>2, <2>5, <3>1 DEF DmOutcome, Failed, Went, Host, Shape
  <2> QED
    BY <2>1, <2>3, <2>4, <2>5
<1> QED
  BY <1>1, <1>3, <1>4, <1>5

\* Hart._run: a transfer failed, or the module refused a command, or neither.
RunOutcome(s, b, d, p) ==
    /\ d \in Reach(s, b) /\ Alike(d, p) /\ p.faults >= s.faults
    /\ \/ p.err /\ p.faults > 0
       \/ p.err /\ d = Done(s, b) /\ d.cmderr /\ p.progbuf = Unknown
       \/ ~p.err /\ d = Done(s, b) /\ p = d /\ ~d.cmderr

LEMMA ForgetAlike ==
    ASSUME NEW d, NEW p, Alike(d, p)
    PROVE  /\ Alike(d, Forget(p)) /\ Forget(p).err = p.err /\ Forget(p).faults = p.faults
           /\ Forget(p).progbuf = Unknown
  BY DEF Alike, Forget, Shape, Fields

LEMMA ChecksUp ==
    ASSUME NEW d, Shape(d), d.link = "up", d.cmderr,
           NEW p \in {Forget([[d EXCEPT !.cmderr = FALSE] EXCEPT !.err = TRUE]) }
                     \cup Fault(d) \cup Fault([d EXCEPT !.cmderr = FALSE])
    PROVE  Alike(d, p) /\ p.err /\ p.faults >= d.faults /\ (p.faults > 0 \/ p.progbuf = Unknown)
<1> DEFINE e == [d EXCEPT !.cmderr = FALSE]
           g == [e EXCEPT !.err = TRUE]
<1>1. Shape(e) /\ e.link = "up" /\ Alike(d, e) /\ e.faults = d.faults
  BY DEF Alike, Shape, Fields
<1>2. Alike(d, g) /\ g.err /\ g.faults = d.faults
  BY DEF Alike, Shape, Fields
<1>3. p = Forget(g) \/ p \in Fault(d) \/ p \in Fault(e)
  OBVIOUS
<1> HIDE DEF e, g
<1>4. CASE p = Forget(g)
  BY <1>2, <1>4, ForgetAlike DEF Shape
<1>5. CASE p \in Fault(d)
  <2>1. Failed(d, p)
    BY <1>5, FaultUp
  <2> QED
    BY <2>1 DEF Failed, Shape
<1>6. CASE p \in Fault(e)
  <2>1. Failed(e, p)
    BY <1>1, <1>6, FaultUp
  <2> QED
    BY <1>1, <2>1 DEF Failed, Alike, Shape
<1> QED
  BY <1>3, <1>4, <1>5, <1>6

\* The two halves of _run.
Sent(s, b) == {IF x.err THEN Forget(x) ELSE x : x \in Transfer(s, b)}
Checked(s) == IF ~s.cmderr THEN {s}
              ELSE LET cleared == [s EXCEPT !.cmderr = FALSE]
                   IN  {Forget([cleared EXCEPT !.err = TRUE])} \cup Fault(s) \cup Fault(cleared)

LEMMA RunParts ==
    ASSUME NEW o, NEW b, NEW p \in Run(o, b)
    PROVE  \/ p \in Select([o EXCEPT !.out = <<>>], "dm") /\ p.err
           \/ \E s \in Select([o EXCEPT !.out = <<>>], "dm") :
                /\ ~s.err
                /\ \E x \in Sent(s, b) : IF x.err THEN p = x ELSE p \in Checked(x)
<1> DEFINE z == [o EXCEPT !.out = <<>>]
<1>1. Run(o, b) = Then(Select(z, "dm"), LAMBDA s : Then(Sent(s, b), LAMBDA x : Checked(x)))
  BY Zenon DEF Run, Sent, Checked
<1> HIDE DEF z
<1>2. \/ p \in Select(z, "dm") /\ p.err
      \/ \E s \in Select(z, "dm") : ~s.err /\ p \in Then(Sent(s, b), LAMBDA x : Checked(x))
  BY <1>1 DEF Then
<1>3. ASSUME NEW s, p \in Then(Sent(s, b), LAMBDA x : Checked(x))
      PROVE  \E x \in Sent(s, b) : IF x.err THEN p = x ELSE p \in Checked(x)
  BY <1>3 DEF Then
<1>4. \/ p \in Select(z, "dm") /\ p.err
      \/ \E s \in Select(z, "dm") : ~s.err /\ \E x \in Sent(s, b) : IF x.err THEN p = x ELSE p \in Checked(x)
  BY <1>2, <1>3
<1> QED
  BY <1>4 DEF z

LEMMA RunUp ==
    ASSUME NEW o, Shape(o), o.link = "up", ~o.err, NEW b, PlainSeq(b), NEW p \in Run(o, b)
    PROVE  \E s, d : Same(o, s) /\ s.out = <<>> /\ RunOutcome(s, b, d, p)
<1> DEFINE z == [o EXCEPT !.out = <<>>]
<1>1. \/ p \in Select(z, "dm") /\ p.err
      \/ \E s \in Select(z, "dm") : /\ ~s.err
                                    /\ \/ \E x \in Transfer(s, b) : x.err /\ p = Forget(x)
                                       \/ \E x \in Transfer(s, b) : x.err /\ ~Forget(x).err
                                       \/ \E x \in Transfer(s, b) : ~x.err /\ p \in Checked(x)
  <2>1. ASSUME NEW s, NEW x \in Sent(s, b), IF x.err THEN p = x ELSE p \in Checked(x)
        PROVE  \/ \E y \in Transfer(s, b) : y.err /\ p = Forget(y)
               \/ \E y \in Transfer(s, b) : y.err /\ ~Forget(y).err
               \/ \E y \in Transfer(s, b) : ~y.err /\ p \in Checked(y)
    BY <2>1 DEF Sent
  <2>2. \/ p \in Select(z, "dm") /\ p.err
        \/ \E s \in Select(z, "dm") :
             /\ ~s.err
             /\ \E x \in Sent(s, b) : IF x.err THEN p = x ELSE p \in Checked(x)
    BY RunParts
  <2> HIDE DEF z
  <2> QED
    BY <2>1, <2>2
<1>2. IsSeq(b) /\ \A s : Shape(s) => \A d \in Reach(s, b) : Went(s, d)
  BY PlainReach DEF PlainSeq
<1>3. Same(o, z) /\ z.out = <<>> /\ Shape(z) /\ z.link = "up" /\ ~z.err
  BY DEF Same, Shape, Fields
<1> HIDE DEF z
<1>4. ASSUME NEW s, Shape(s) PROVE s \in Reach(s, b)
  <2>1. PICK f : RunOf(f, s, b) /\ Reach(s, b) = {f[k] : k \in 0 .. Len(b)}
    BY <1>2, BatchRun
  <2>2. 0 \in 0 .. Len(b) /\ f[0] = s
    BY <1>2, <2>1, SeqShape DEF RunOf
  <2> QED
    BY <2>1, <2>2
<1>5. ASSUME p \in Select(z, "dm"), p.err PROVE RunOutcome(z, b, z, p)
  <2>1. Failed(z, p)
    BY <1>3, <1>5, SelectUp DEF Same
  <2> QED
    BY <1>3, <1>4, <2>1 DEF RunOutcome, Failed, Shape
<1>6. ASSUME NEW s \in Select(z, "dm"), ~s.err
      PROVE  /\ Same(o, s) /\ s.out = <<>> /\ Shape(s) /\ s.link = "up"
             /\ \A x \in Transfer(s, b) : x = Done(s, b) \/ \E d \in Reach(s, b) : Failed(d, x)
             /\ \A d \in Reach(s, b) : Shape(d) /\ d.link = "up" /\ d.faults = s.faults /\ ~d.err
             /\ Done(s, b) \in Reach(s, b)
  <2>1. Same(z, s) /\ s.out = <<>>
    BY <1>3, <1>6, SelectUp DEF Failed
  <2>2. Same(o, s) /\ s.out = <<>> /\ Shape(s) /\ s.link = "up" /\ ~s.err
    BY <1>3, <1>6, <2>1 DEF Same
  <2>3. \A x \in Transfer(s, b) : x = Done(s, b) \/ \E d \in Reach(s, b) : Failed(d, x)
    BY <1>2, <2>2, TransferUp
  <2>4. \A d \in Reach(s, b) : Shape(d) /\ d.link = "up" /\ d.faults = s.faults /\ ~d.err
    BY <1>2, <2>2 DEF Went, Host
  <2> QED
    BY <1>2, <2>2, <2>3, <2>4, DoneReached
<1>7. ASSUME NEW s \in Select(z, "dm"), ~s.err, NEW x \in Transfer(s, b), x.err, p = Forget(x)
      PROVE  \E d : RunOutcome(s, b, d, p)
  <2>1. PICK d \in Reach(s, b) : Failed(d, x)
    BY <1>6, <1>7
  <2>2. Alike(d, p) /\ p.err /\ p.faults = x.faults
    BY <1>7, <2>1, ForgetAlike DEF Failed
  <2>3. RunOutcome(s, b, d, p)
    BY <1>6, <1>7, <2>1, <2>2 DEF RunOutcome, Failed, Shape
  <2> QED
    BY <2>3
<1>8. ASSUME NEW s \in Select(z, "dm"), ~s.err, NEW x \in Transfer(s, b), ~x.err, p \in Checked(x)
      PROVE  \E d : RunOutcome(s, b, d, p)
  <2>1. x = Done(s, b) /\ x \in Reach(s, b) /\ Shape(x) /\ x.link = "up" /\ x.faults = s.faults
    BY <1>6, <1>8 DEF Failed
  <2>2. CASE ~x.cmderr
    <3>1. p = x
      BY <1>8, <2>2 DEF Checked
    <3>2. RunOutcome(s, b, x, p)
      BY <1>8, <2>1, <2>2, <3>1, AlikeSame DEF RunOutcome, Shape
    <3> QED
      BY <3>2
  <2>3. CASE x.cmderr
    <3>1. p \in {Forget([[x EXCEPT !.cmderr = FALSE] EXCEPT !.err = TRUE]) }
                     \cup Fault(x) \cup Fault([x EXCEPT !.cmderr = FALSE])
      BY <1>8, <2>3 DEF Checked
    <3>2. Alike(x, p) /\ p.err /\ p.faults >= x.faults /\ (p.faults > 0 \/ p.progbuf = Unknown)
      BY <2>1, <2>3, <3>1, ChecksUp
    <3>3. RunOutcome(s, b, x, p)
      BY <2>1, <2>3, <3>2 DEF RunOutcome
    <3> QED
      BY <3>3
  <2> QED
    BY <2>2, <2>3
<1>9. ASSUME NEW s \in Select(z, "dm"), ~s.err, NEW x \in Transfer(s, b), x.err PROVE Forget(x).err
  <2>1. PICK d \in Reach(s, b) : Failed(d, x)
    BY <1>6, <1>9
  <2> QED
    BY <1>9, <2>1, ForgetAlike DEF Failed
<1> QED
  BY <1>1, <1>3, <1>5, <1>6, <1>7, <1>8, <1>9

-----------------------------------------------------------------------------
(* What every operation keeps, whatever the host believes.                 *)

\* Failed accesses are only ever more, and nothing reaches a target whose link
\* is down.
Later(o, p) ==
    /\ Shape(p) /\ p.link = o.link /\ p.faults >= o.faults
    /\ o.link = "down" => p.gpr = o.gpr /\ p.hart = o.hart /\ p.touched = o.touched

LEMMA LaterSame == ASSUME NEW o, Shape(o) PROVE Later(o, o)
  BY DEF Later, Shape

LEMMA LaterTrans ==
    ASSUME NEW o, Shape(o), NEW s, NEW p, Later(o, s), Later(s, p)
    PROVE  Later(o, p)
<1>1. o.faults \in Nat /\ s.faults \in Nat /\ p.faults \in Nat
  BY DEF Later, Shape
<1> QED
  BY <1>1 DEF Later

LEMMA SelectDown ==
    ASSUME NEW o, Shape(o), o.link = "down", NEW ap, NEW p \in Select(o, ap)
    PROVE  Later(o, p)
<1>1. CASE p = o
  BY <1>1, LaterSame
<1>2. CASE p \in Fault([o EXCEPT !.ap = "none"])
  <2> DEFINE s == [o EXCEPT !.ap = "none"]
  <2>1. Shape(s) /\ s.link = "down" /\ Later(o, s)
    BY DEF Later, Shape, Fields
  <2>2. p \in Fault(s)
    BY <1>2
  <2> HIDE DEF s
  <2>3. p = [s EXCEPT !.err = TRUE]
    BY <2>1, <2>2, FaultDown
  <2>4. Later(s, p)
    BY <2>1, <2>3 DEF Later, Shape, Fields
  <2> QED
    BY <2>1, <2>4, LaterTrans
<1> QED
  BY <1>1, <1>2 DEF Select, Up

LEMMA TransferDown ==
    ASSUME NEW o, Shape(o), o.link = "down", NEW b, NEW p \in Transfer(o, b)
    PROVE  Later(o, p) /\ p.err
<1>1. p = [o EXCEPT !.err = TRUE]
  BY FaultDown DEF Transfer
<1> QED
  BY <1>1 DEF Later, Shape, Fields

LEMMA DmLater ==
    ASSUME NEW o, Shape(o), ~o.err, NEW b, IsSeq(b),
           \A s : Shape(s) => \A d \in Reach(s, b) : Went(s, d),
           NEW p \in DmAccess(o, b)
    PROVE  Later(o, p)
<1>1. CASE o.link = "up"
  <2>1. PICK s, d : Same(o, s) /\ DmOutcome(s, b, d, p)
    BY <1>1, DmUp
  <2>2. Went(s, d)
    BY <2>1 DEF Same, DmOutcome
  <2> QED
    BY <1>1, <2>1, <2>2 DEF Same, DmOutcome, Alike, Later, Went, Host
<1>2. CASE o.link = "down"
  <2>1. \/ p \in Select(o, "dm")
        \/ \E s \in Select(o, "dm") : p \in Transfer(s, b)
    BY DEF DmAccess, Then
  <2>2. ASSUME NEW s \in Select(o, "dm"), p \in Transfer(s, b) PROVE Later(o, p)
    <3>1. Later(o, s)
      BY <1>2, SelectDown
    <3>2. Later(s, p)
      BY <1>2, <2>2, <3>1, TransferDown DEF Later
    <3> QED
      BY <3>1, <3>2, LaterTrans
  <2> QED
    BY <1>2, <2>1, <2>2, SelectDown
<1> QED
  BY <1>1, <1>2 DEF Shape

LEMMA ForgetLater ==
    ASSUME NEW o, Shape(o)
    PROVE  /\ Later(o, Forget(o)) /\ Forget(o).err = o.err /\ Later(o, ForgetState(o))
           /\ ForgetState(o).err = o.err
  BY DEF Later, Forget, ForgetState, Shape, Fields

LEMMA OutLater ==
    ASSUME NEW o, Shape(o), NEW x
    PROVE  Later(o, [o EXCEPT !.out = x]) /\ [o EXCEPT !.out = x].err = o.err
  BY DEF Later, Shape, Fields

LEMMA RunLater ==
    ASSUME NEW o, Shape(o), ~o.err, NEW b, PlainSeq(b), NEW p \in Run(o, b)
    PROVE  Later(o, p)
<1>1. CASE o.link = "up"
  <2>1. PICK s, d : Same(o, s) /\ RunOutcome(s, b, d, p)
    BY <1>1, RunUp
  <2>2. Went(s, d)
    BY <2>1, PlainReach DEF Same, RunOutcome, PlainSeq
  <2> QED
    BY <1>1, <2>1, <2>2 DEF Same, RunOutcome, Alike, Later, Went, Host
<1>2. CASE o.link = "down"
  <2> DEFINE z == [o EXCEPT !.out = <<>>]
  <2>1. Later(o, z) /\ Shape(z)
    BY OutLater DEF Later
  <2>2. \/ p \in Select(z, "dm")
        \/ \E s \in Select(z, "dm") : \E x \in Sent(s, b) : IF x.err THEN p = x ELSE p \in Checked(x)
    BY RunParts
  <2> HIDE DEF z
  <2>3. ASSUME NEW s \in Select(z, "dm"), NEW x \in Sent(s, b), IF x.err THEN p = x ELSE p \in Checked(x)
        PROVE  Later(o, p)
    <3>1. Later(z, s)
      BY <1>2, <2>1, SelectDown DEF Later
    <3>2. Later(o, s) /\ Shape(s) /\ s.link = "down"
      BY <1>2, <2>1, <3>1, LaterTrans DEF Later
    <3>3. \A y \in Transfer(s, b) : Later(s, y) /\ y.err
      BY <3>2, TransferDown
    <3>4. PICK y \in Transfer(s, b) : x = Forget(y)
      BY <2>3, <3>3 DEF Sent
    <3>5. Later(y, x) /\ x.err
      BY <3>3, <3>4, ForgetLater DEF Later
    <3>6. Later(s, x)
      BY <3>2, <3>3, <3>5, LaterTrans
    <3> QED
      BY <2>3, <3>2, <3>5, <3>6, LaterTrans
  <2>4. ASSUME p \in Select(z, "dm") PROVE Later(o, p)
    <3>1. Later(z, p)
      BY <1>2, <2>1, <2>4, SelectDown DEF Later
    <3> QED
      BY <2>1, <3>1, LaterTrans
  <2> QED
    BY <2>2, <2>3, <2>4
<1> QED
  BY <1>1, <1>2 DEF Shape

\* _load_progbuf.
LEMMA EntryPlain == ASSUME NEW o, NEW i, NEW x PROVE PlainSeq(Entry(o, i, x))
<1> DEFINE y == <<"pb", i, x>>
<1>1. PlainSeq(<<y>>)
  <2>1. Plain(y)
    BY PlainPb
  <2> HIDE DEF y
  <2> QED
    BY <2>1, PlainOne
<1>2. Entry(o, i, x) = <<>> \/ Entry(o, i, x) = <<y>>
  BY DEF Entry
<1> HIDE DEF y
<1> QED
  BY <1>1, <1>2, PlainNone

LEMMA LoadPlain ==
    ASSUME NEW o, NEW x, NEW y
    PROVE  PlainSeq(Load(o, <<x>>)) /\ PlainSeq(Load(o, <<x, y>>))
<1> DEFINE a == Entry(o, 0, x)
           b == Entry(o, 1, "ebreak")
           c == Entry(o, 1, y)
           d == Entry(o, 2, "ebreak")
<1>1. PlainSeq(a) /\ PlainSeq(b) /\ PlainSeq(c) /\ PlainSeq(d)
  BY EntryPlain
<1>2. Load(o, <<x>>) = a \o b /\ Load(o, <<x, y>>) = a \o (c \o d)
  BY LoadIs
<1> HIDE DEF a, b, c, d
<1>3. PlainSeq(a \o b) /\ PlainSeq(c \o d)
  BY <1>1, PlainConcat
<1>4. PlainSeq(a \o (c \o d))
  BY <1>1, <1>3, PlainConcat
<1> QED
  BY <1>2, <1>3, <1>4

\* Loaded changes only what is believed.
Believes(o, l) ==
    /\ Shape(l) /\ l.cache = o.cache /\ l.clobbered = o.clobbered
    /\ l.gpr = o.gpr /\ l.pb = o.pb /\ l.data0 = o.data0 /\ l.last = o.last /\ l.auto = o.auto
    /\ l.cmderr = o.cmderr /\ l.mem = o.mem /\ l.csr = o.csr /\ l.step = o.step /\ l.hart = o.hart
    /\ l.link = o.link /\ l.faults = o.faults /\ l.touched = o.touched /\ l.err = o.err

LEMMA LoadedIs ==
    ASSUME NEW o, Shape(o), NEW code
    PROVE  /\ Believes(o, Loaded(o, code))
           /\ Loaded(o, code).progbuf = [i \in 0 .. 2 |-> IF i < Len(code) THEN code[i + 1]
                                                          ELSE IF i = Len(code) THEN "ebreak" ELSE o.progbuf[i]]
<1> DEFINE f == [i \in 0 .. 2 |-> IF i < Len(code) THEN code[i + 1]
                                  ELSE IF i = Len(code) THEN "ebreak" ELSE o.progbuf[i]]
<1>1. Loaded(o, code) = [o EXCEPT !.progbuf = f]
  BY DEF Loaded
<1> HIDE DEF f
<1>2. Believes(o, Loaded(o, code)) /\ Loaded(o, code).progbuf = f
  BY <1>1 DEF Believes, Shape, Fields
<1> QED
  BY <1>2 DEF f

LEMMA RunCodeLater ==
    ASSUME NEW o, Shape(o), ~o.err, NEW a, NEW code, NEW z,
           PlainSeq(a), PlainSeq(Load(o, code)), PlainSeq(z), NEW p \in RunCode(o, a, code, z)
    PROVE  Later(o, p)
<1> DEFINE l == Loaded(o, code)
           b == a \o Load(o, code) \o z
<1>1. Believes(o, l)
  BY LoadedIs
<1>2. PlainSeq(a \o Load(o, code))
  BY PlainConcat
<1>3. PlainSeq(b)
  BY <1>2, PlainConcat
<1>4. p \in Run(l, b)
  BY DEF RunCode
<1> HIDE DEF l, b
<1>5. Shape(l) /\ ~l.err
  BY <1>1 DEF Believes
<1>6. Later(l, p)
  BY <1>3, <1>4, <1>5, RunLater
<1>7. Later(o, l)
  BY <1>1 DEF Believes, Later, Shape
<1> QED
  BY <1>6, <1>7, LaterTrans

-----------------------------------------------------------------------------
(* What an operation that begins with the host right about the target      *)
(* leaves, failed or not.                                                   *)

CacheOk(o) == o.cache # NoRegs => o.hart = "halted" /\ Regs \subseteq DOMAIN o.cache
Known(o) ==
    /\ \A i \in 0 .. 2 : Agrees(o, o, i)
    /\ CacheOk(o)
    /\ o.cache # NoRegs => \A r \in Regs : r \in o.clobbered \/ o.cache[r] = o.gpr[r]
Good(o) == Shape(o) /\ o.link = "up" /\ ~o.err /\ ~o.auto /\ Known(o)

\* The user's registers are there, and only the memory of R was touched.
Holds(o, p, R) ==
    /\ Shape(p) /\ p.link = "up" /\ CacheOk(p) /\ p.touched \subseteq o.touched \cup R
    /\ Visible(p) = Visible(o)

\* ... and the host is right about the target, autoexec aside, or an access failed.
Open(o, p, R) == Holds(o, p, R) /\ (Known(p) \/ (p.err /\ p.faults > 0))
Leaves(o, p, R) == Open(o, p, R) /\ (~p.auto \/ (p.err /\ p.faults > 0))

LEMMA TrustedIs ==
    ASSUME NEW o, Shape(o), o.link = "up", CacheOk(o)
    PROVE  Trusted(o) <=> ~o.auto /\ Known(o)
<1>1. Trusted(o) <=> /\ ~o.auto
                     /\ \A i \in 0 .. 2 : o.progbuf[i] \in {"none", o.pb[i]}
                     /\ o.cache # NoRegs => o.hart = "halted" /\ \A r \in Regs \ o.clobbered : o.cache[r] = o.gpr[r]
  BY DEF Trusted
<1> QED
  BY <1>1 DEF Known, CacheOk, Agrees

LEMMA LeavesGood == ASSUME NEW o, NEW p, NEW R, Leaves(o, p, R), ~p.err PROVE Good(p)
  BY DEF Leaves, Open, Holds, Good

LEMMA LeavesSame == ASSUME NEW o, Good(o), NEW R PROVE Leaves(o, o, R)
  BY DEF Leaves, Open, Holds, Good, Known

LEMMA HoldsTrans ==
    ASSUME NEW o, NEW s, NEW p, NEW A, NEW B, NEW R, Holds(o, s, A), Holds(s, p, B), A \subseteq R, B \subseteq R
    PROVE  Holds(o, p, R)
  BY DEF Holds

LEMMA LeavesTrans ==
    ASSUME NEW o, NEW s, NEW p, NEW A, NEW B, NEW R, Leaves(o, s, A), Leaves(s, p, B), A \subseteq R, B \subseteq R
    PROVE  Leaves(o, p, R)
<1>1. Holds(o, p, R)
  BY HoldsTrans DEF Leaves, Open
<1> QED
  BY <1>1 DEF Leaves, Open

LEMMA OpenTrans ==
    ASSUME NEW o, NEW s, NEW p, NEW A, NEW B, NEW R, Leaves(o, s, A), Open(s, p, B), A \subseteq R, B \subseteq R
    PROVE  Open(o, p, R)
<1>1. Holds(o, p, R)
  BY HoldsTrans DEF Leaves, Open
<1> QED
  BY <1>1 DEF Open

LEMMA NotNone == ASSUME NEW f, Regs \subseteq DOMAIN f PROVE f # NoRegs
<1>1. S0 \in DOMAIN f
  BY DEF Regs
<1>2. Len(<<>>) = 0 /\ DOMAIN <<>> = 1 .. Len(<<>>)
  BY NothingSeq, SeqShape
<1>3. S0 \notin 1 .. 0
  OBVIOUS
<1>4. SUFFICES ASSUME f = <<>> PROVE FALSE
  BY DEF NoRegs
<1> QED
  BY <1>1, <1>2, <1>3, <1>4

LEMMA VisibleAt ==
    ASSUME NEW o
    PROVE  /\ \A r \in Regs : Visible(o)[r] = IF Spare(o, r) THEN o.cache[r] ELSE o.gpr[r]
           /\ Visible(o) = [r \in Regs |-> Visible(o)[r]]
  BY DEF Visible, Spare

LEMMA OneVisible ==
    ASSUME NEW o, NEW r \in Regs
    PROVE  Visible(o)[r] = IF Spare(o, r) THEN o.cache[r] ELSE o.gpr[r]
  BY DEF Visible, Spare

LEMMA VisibleSame ==
    ASSUME NEW o, NEW p, \A r \in Regs : Visible(p)[r] = Visible(o)[r]
    PROVE  Visible(p) = Visible(o)
<1>1. Visible(o) = [r \in Regs |-> Visible(o)[r]] /\ Visible(p) = [r \in Regs |-> Visible(p)[r]]
  BY VisibleAt
<1>2. [r \in Regs |-> Visible(o)[r]] = [r \in Regs |-> Visible(p)[r]]
  OBVIOUS
<1> QED
  BY <1>1, <1>2

\* What a batch may do on its way.
Wander(s, d, R) ==
    /\ Went(s, d) /\ d.hart = s.hart /\ d.touched \subseteq s.touched \cup R
    /\ \A r \in Regs : Spare(s, r) \/ d.gpr[r] = s.gpr[r]

LEMMA QuietWander == ASSUME NEW s, NEW d, Still(s, d), NEW R PROVE Wander(s, d, R)
  BY DEF Still, Wander

\* The host's part, unchanged, and the registers it has not saved, unchanged.
LEMMA WanderHolds ==
    ASSUME NEW o, Good(o), NEW l, Believes(o, l), NEW s, Same(l, s), NEW R, NEW d, Wander(s, d, R),
           NEW p, Alike(d, p)
    PROVE  Holds(o, p, R)
<1>1. p.cache = o.cache /\ p.clobbered = o.clobbered /\ p.hart = o.hart /\ p.link = "up" /\ Shape(p)
      /\ p.touched \subseteq o.touched \cup R
  BY DEF Good, Believes, Same, Wander, Went, Host, Alike
<1>2. \A r \in Regs : Spare(o, r) \/ p.gpr[r] = o.gpr[r]
  BY DEF Believes, Same, Wander, Alike, Spare
<1>3. CacheOk(p)
  BY <1>1 DEF CacheOk, Good, Known
<1>4. \A r \in Regs : Visible(p)[r] = Visible(o)[r]
  BY <1>1, <1>2, VisibleAt DEF Spare
<1> QED
  BY <1>1, <1>3, <1>4, VisibleSame DEF Holds

LEMMA WanderOpen ==
    ASSUME NEW o, Good(o), NEW l, Believes(o, l), NEW s, Same(l, s), NEW R, NEW b,
           NEW d, Wander(s, d, R), NEW p, RunOutcome(s, b, d, p),
           ~p.err => \A i \in 0 .. 2 : Agrees(l, d, i)
    PROVE  Open(o, p, R)
<1>1. Holds(o, p, R) /\ Alike(d, p)
  BY WanderHolds DEF RunOutcome
<1>2. \A r \in Regs : Spare(o, r) \/ p.gpr[r] = o.gpr[r]
  BY DEF Believes, Same, Wander, Alike, Spare, RunOutcome
<1>3. p.cache = o.cache /\ p.clobbered = o.clobbered
  BY DEF Believes, Same, Wander, Went, Host, Alike, RunOutcome
<1>4. ASSUME ~(p.err /\ p.faults > 0) PROVE Known(p)
  <2>1. \A i \in 0 .. 2 : Agrees(p, p, i)
    <3>1. CASE p.progbuf = Unknown
      <4>1. \A i \in 0 .. 2 : p.progbuf[i] = "none"
        BY <3>1 DEF Unknown
      <4> QED
        BY <4>1 DEF Agrees
    <3>2. CASE ~p.err
      <4>1. p = d /\ d.progbuf = s.progbuf /\ s.progbuf = l.progbuf
        BY <3>2 DEF RunOutcome, Wander, Went, Host, Same
      <4> QED
        BY <3>2, <4>1 DEF Agrees
    <3> QED
      BY <1>4, <3>1, <3>2 DEF RunOutcome
  <2>2. CacheOk(p)
    BY <1>1 DEF Holds
  <2>3. p.cache # NoRegs => \A r \in Regs : r \in p.clobbered \/ p.cache[r] = p.gpr[r]
    BY <1>2, <1>3 DEF Good, Known, Spare
  <2> QED
    BY <2>1, <2>2, <2>3 DEF Known
<1> QED
  BY <1>1, <1>4 DEF Open

LEMMA WanderLeaves ==
    ASSUME NEW o, Good(o), NEW l, Believes(o, l), NEW s, Same(l, s), NEW R, NEW b,
           NEW d, Wander(s, d, R), d.auto = s.auto, NEW p, RunOutcome(s, b, d, p),
           ~p.err => \A i \in 0 .. 2 : Agrees(l, d, i)
    PROVE  Leaves(o, p, R)
<1>1. Open(o, p, R)
  BY WanderOpen
<1>2. ~p.auto
  BY DEF RunOutcome, Alike, Same, Believes, Good
<1> QED
  BY <1>1, <1>2 DEF Leaves

LEMMA BelievesSame == ASSUME NEW o, Shape(o) PROVE Believes(o, o)
  BY DEF Believes

\* A batch that loads nothing.
LEMMA QuietLeaves ==
    ASSUME NEW o, Good(o), NEW s, Same(o, s), NEW b, NEW d, Quiet(s, d), NEW p, RunOutcome(s, b, d, p), NEW R
    PROVE  Leaves(o, p, R)
<1>1. Believes(o, o)
  BY BelievesSame DEF Good
<1>2. Wander(s, d, R) /\ d.auto = s.auto
  BY QuietWander, QuietShape DEF Quiet
<1>3. \A i \in 0 .. 2 : Agrees(o, d, i)
  BY DEF Quiet, Same, Good, Known, Agrees
<1> QED
  BY <1>1, <1>2, <1>3, WanderLeaves

-----------------------------------------------------------------------------
(* Registers. *)

\* A mark in the register cache.
LEMMA MarkLater ==
    ASSUME NEW o, Shape(o), NEW k
    PROVE  LET p == [o EXCEPT !.clobbered = k]
           IN  Later(o, p) /\ p.err = o.err
  BY DEF Later, Shape, Fields

Keep(s) == [s EXCEPT !.cache = [r \in Regs |-> s.out[IF r = S0 THEN 1 ELSE 2]], !.clobbered = {}]
RegsBatch == <<Read(S0), Get, Read(S1), Get>>

LEMMA SavedIs ==
    ASSUME NEW o, NEW p \in Saved(o)
    PROVE  \/ o.cache # NoRegs /\ p = o
           \/ o.cache = NoRegs /\ p \in Run(o, RegsBatch) /\ p.err
           \/ o.cache = NoRegs /\ \E s \in Run(o, RegsBatch) : ~s.err /\ p = Keep(s)
<1>1. CASE o.cache # NoRegs
  BY <1>1 DEF Saved
<1>2. CASE o.cache = NoRegs
  <2>1. Saved(o) = Then(Run(o, RegsBatch), LAMBDA s : {Keep(s)})
    BY <1>2, Zenon DEF Saved, Keep, RegsBatch
  <2>2. \/ p \in Run(o, RegsBatch) /\ p.err
        \/ \E s \in Run(o, RegsBatch) : ~s.err /\ p \in {Keep(s)}
    BY <2>1 DEF Then
  <2> QED
    BY <1>2, <2>2
<1> QED
  BY <1>1, <1>2

LEMMA RegsPlain == PlainSeq(RegsBatch)
  BY PlainIs, PlainFour DEF RegsBatch

LEMMA SavedLater == ASSUME NEW o, Shape(o), ~o.err, NEW p \in Saved(o) PROVE Later(o, p)
<1>1. ASSUME NEW s \in Run(o, RegsBatch), p = Keep(s) PROVE Later(o, p)
  <2>1. Later(o, s)
    BY RegsPlain, RunLater
  <2>2. Later(s, Keep(s))
    <3> DEFINE c == [r \in Regs |-> s.out[IF r = S0 THEN 1 ELSE 2]]
    <3>1. Keep(s) = [s EXCEPT !.cache = c, !.clobbered = {}]
      BY DEF Keep
    <3> HIDE DEF c
    <3>2. Shape(s)
      BY <2>1 DEF Later
    <3> QED
      BY <3>1, <3>2 DEF Later, Shape, Fields
  <2> QED
    BY <1>1, <2>1, <2>2, LaterTrans
<1>2. ASSUME p \in Run(o, RegsBatch) PROVE Later(o, p)
  BY <1>2, RegsPlain, RunLater
<1> QED
  BY <1>1, <1>2, SavedIs, LaterSame

LEMMA SavedLeaves ==
    ASSUME NEW o, Good(o), NEW p \in Saved(o)
    PROVE  /\ Leaves(o, p, {})
           /\ ~p.err => p.cache # NoRegs /\ p.mem = o.mem /\ p.csr = o.csr
<1>1. CASE o.cache # NoRegs /\ p = o
  BY <1>1, LeavesSame
<1>2. ASSUME NEW q \in Run(o, RegsBatch)
      PROVE  \E s, d : Same(o, s) /\ s.out = <<>> /\ ~s.auto /\ Shape(s) /\ Quiet(s, d) /\ d.csr = s.csr /\ RunOutcome(s, RegsBatch, d, q)
  <2>1. PICK s, d : Same(o, s) /\ s.out = <<>> /\ RunOutcome(s, RegsBatch, d, q)
    BY RegsPlain, RunUp DEF Good
  <2>2. Shape(s) /\ ~s.auto
    BY <2>1 DEF Same, Good
  <2>3. \A e \in Reach(s, RegsBatch) : Quiet(s, e) /\ e.csr = s.csr
    BY <2>1, <2>2, SavedBatch DEF RegsBatch
  <2> QED
    BY <2>1, <2>2, <2>3 DEF RunOutcome
<1>3. CASE p \in Run(o, RegsBatch) /\ p.err
  BY <1>2, <1>3, QuietLeaves
<1>4. ASSUME o.cache = NoRegs, NEW q \in Run(o, RegsBatch), ~q.err, p = Keep(q)
      PROVE  Leaves(o, p, {}) /\ p.cache # NoRegs /\ p.mem = o.mem /\ p.csr = o.csr
  <2>1. PICK s, d : Same(o, s) /\ s.out = <<>> /\ ~s.auto /\ Shape(s) /\ Quiet(s, d) /\ d.csr = s.csr /\ RunOutcome(s, RegsBatch, d, q)
    BY <1>2
  <2>2. q = d /\ d = Done(s, RegsBatch) /\ ~d.cmderr
    BY <1>4, <2>1 DEF RunOutcome
  <2> DEFINE c == [r \in Regs |-> q.out[IF r = S0 THEN 1 ELSE 2]]
  <2>3. s.hart = "halted" /\ \A r \in Regs : c[r] = s.gpr[r]
    BY <2>1, <2>2, SavedBatch DEF RegsBatch
  <2>4. Regs \subseteq DOMAIN c /\ c # NoRegs
    BY NotNone
  <2>5. p = [q EXCEPT !.cache = c, !.clobbered = {}]
    BY <1>4 DEF Keep
  <2> HIDE DEF c
  <2>6. Leaves(o, q, {})
    BY <2>1, QuietLeaves
  <2>7. /\ Shape(p) /\ p.link = q.link /\ p.err = q.err /\ p.faults = q.faults /\ p.auto = q.auto
        /\ p.cache = c /\ p.clobbered = {} /\ p.gpr = q.gpr /\ p.hart = q.hart /\ p.touched = q.touched
        /\ p.progbuf = q.progbuf /\ p.pb = q.pb /\ p.mem = q.mem /\ p.csr = q.csr
    BY <2>5, <2>6 DEF Leaves, Open, Holds, Shape, Fields
  <2>8. q.gpr = s.gpr /\ q.hart = "halted" /\ q.mem = o.mem /\ q.cache = NoRegs
    <3>1. \A r \in Regs : q.gpr[r] = s.gpr[r]
      BY <1>4, <2>1, <2>2 DEF Quiet, Still, Spare, Same
    <3>2. q.gpr = s.gpr
      BY <2>1, <2>2, <3>1 DEF Shape, Quiet, Still, Went
    <3> QED
      BY <1>4, <2>1, <2>2, <2>3, <3>2 DEF Quiet, Still, Went, Host, Same
  <2>9. p.csr = o.csr /\ ~q.auto /\ Known(q)
    BY <1>4, <2>1, <2>2, <2>6, <2>7 DEF Same, Leaves, Open
  <2>10. Visible(p) = Visible(o)
    <3>1. p.gpr = o.gpr
      BY <2>1, <2>7, <2>8 DEF Same
    <3>2. \A r : ~Spare(p, r) /\ ~Spare(o, r)
      BY <1>4, <2>7 DEF Spare
    <3>3. \A r \in Regs : Visible(p)[r] = Visible(o)[r]
      BY <3>1, <3>2, VisibleAt
    <3> QED
      BY <3>3, VisibleSame
  <2>11. Known(p)
    <3>1. \A i \in 0 .. 2 : Agrees(p, p, i)
      BY <2>7, <2>9 DEF Known, Agrees
    <3>2. CacheOk(p)
      BY <2>4, <2>7, <2>8 DEF CacheOk
    <3>3. \A r \in Regs : p.cache[r] = p.gpr[r]
      BY <2>3, <2>7, <2>8
    <3> QED
      BY <3>1, <3>2, <3>3 DEF Known
  <2>12. p.touched \subseteq o.touched \cup {} /\ p.link = "up"
    BY <2>6, <2>7 DEF Leaves, Open, Holds
  <2> QED
    BY <2>4, <2>7, <2>8, <2>9, <2>10, <2>11, <2>12 DEF Leaves, Open, Holds, Known
<1> QED
  BY <1>1, <1>3, <1>4, SavedIs

\* Scratch marks registers whose values are saved.
LEMMA ScratchIs ==
    ASSUME NEW o, NEW R, NEW p \in Scratch(o, R)
    PROVE  \/ p \in Saved(o) /\ p.err
           \/ \E s \in Saved(o) : ~s.err /\ p = [s EXCEPT !.clobbered = @ \cup R]
<1> DEFINE Mark(s) == [s EXCEPT !.clobbered = @ \cup R]
<1>1. Scratch(o, R) = Then(Saved(o), LAMBDA s : {Mark(s)})
  BY Zenon DEF Scratch
<1> HIDE DEF Mark
<1>2. \/ p \in Saved(o) /\ p.err
      \/ \E s \in Saved(o) : ~s.err /\ p \in {Mark(s)}
  BY <1>1 DEF Then
<1>3. \/ p \in Saved(o) /\ p.err
      \/ \E s \in Saved(o) : ~s.err /\ p = Mark(s)
  BY <1>2
<1> QED
  BY <1>3 DEF Mark

LEMMA ScratchLater == ASSUME NEW o, Shape(o), ~o.err, NEW R, NEW p \in Scratch(o, R) PROVE Later(o, p)
<1>1. ASSUME NEW s \in Saved(o), p = [s EXCEPT !.clobbered = @ \cup R] PROVE Later(o, p)
  <2>1. Later(o, s)
    BY SavedLater
  <2>2. Later(s, p)
    BY <1>1, <2>1 DEF Later, Shape, Fields
  <2> QED
    BY <2>1, <2>2, LaterTrans
<1> QED
  BY <1>1, ScratchIs, SavedLater

LEMMA ScratchLeaves ==
    ASSUME NEW o, Good(o), NEW R, NEW p \in Scratch(o, R)
    PROVE  /\ Leaves(o, p, {})
           /\ ~p.err => p.mem = o.mem /\ p.csr = o.csr /\ \A r \in R : Spare(p, r)
<1>1. ASSUME NEW s \in Saved(o), ~s.err, p = [s EXCEPT !.clobbered = @ \cup R]
      PROVE  Leaves(o, p, {}) /\ p.mem = o.mem /\ p.csr = o.csr /\ \A r \in R : Spare(p, r)
  <2>1. Leaves(o, s, {}) /\ s.cache # NoRegs /\ s.mem = o.mem /\ s.csr = o.csr
    BY <1>1, SavedLeaves
  <2>2. Good(s)
    BY <1>1, <2>1, LeavesGood
  <2>3. /\ Shape(p) /\ p.link = "up" /\ ~p.err /\ ~p.auto
        /\ p.cache = s.cache /\ p.clobbered = s.clobbered \cup R /\ p.gpr = s.gpr /\ p.hart = s.hart
        /\ p.touched = s.touched /\ p.progbuf = s.progbuf /\ p.pb = s.pb /\ p.mem = s.mem /\ p.csr = s.csr
    BY <1>1, <2>2 DEF Good, Shape, Fields
  <2>4. Known(p)
    BY <2>2, <2>3 DEF Good, Known, CacheOk, Agrees
  <2>5. Visible(p) = Visible(s)
    <3>0. \A q \in Regs : q \in s.clobbered \/ s.cache[q] = s.gpr[q]
      BY <2>1, <2>2 DEF Good, Known
    <3>1. ASSUME NEW r \in Regs PROVE Visible(p)[r] = Visible(s)[r]
      <4>1. Visible(p)[r] = IF Spare(p, r) THEN p.cache[r] ELSE p.gpr[r]
        BY OneVisible
      <4>2. Visible(s)[r] = IF Spare(s, r) THEN s.cache[r] ELSE s.gpr[r]
        BY OneVisible
      <4> QED
        BY <2>1, <2>3, <3>0, <4>1, <4>2 DEF Spare
    <3> QED
      BY <3>1, VisibleSame
  <2>6. Leaves(s, p, {})
    BY <2>3, <2>4, <2>5 DEF Leaves, Open, Holds, Known
  <2> QED
    BY <2>1, <2>3, <2>6, LeavesTrans DEF Spare
<1> QED
  BY <1>1, ScratchIs, SavedLeaves

\* A run of code: what has to be loaded, then the rest of the batch.
LEMMA CodeReach ==
    ASSUME NEW s, NEW a, NEW l, NEW z, PlainSeq(a), PlainSeq(l), PlainSeq(z)
    PROVE  LET t == Done(s, a)
               u == Done(t, l)
           IN  /\ PlainSeq(a \o l \o z)
               /\ Done(s, a \o l \o z) = Done(u, z)
               /\ Reach(s, a \o l \o z) \subseteq Reach(s, a) \cup Reach(t, l) \cup Reach(u, z)
<1> DEFINE al == a \o l
           t == Done(s, a)
           u == Done(t, l)
<1>1. PlainSeq(al) /\ Done(s, al) = u /\ Reach(s, al) \subseteq Reach(s, a) \cup Reach(t, l)
  BY PlainConcat, ReachConcat DEF PlainSeq
<1> HIDE DEF al, t, u
<1>2. PlainSeq(al \o z) /\ Done(s, al \o z) = Done(u, z) /\ Reach(s, al \o z) \subseteq Reach(s, al) \cup Reach(u, z)
  BY <1>1, PlainConcat, ReachConcat DEF PlainSeq
<1>3. Reach(s, al \o z) \subseteq Reach(s, a) \cup Reach(t, l) \cup Reach(u, z)
  BY <1>1, <1>2
<1> QED
  BY <1>2, <1>3 DEF al, t, u

LEMMA CodeUp ==
    ASSUME NEW o, Good(o), NEW a, NEW code, NEW z,
           PlainSeq(a), PlainSeq(Load(o, code)), PlainSeq(z), NEW p \in RunCode(o, a, code, z)
    PROVE  \E s, d : /\ Same(Loaded(o, code), s) /\ s.out = <<>>
                     /\ RunOutcome(s, a \o Load(o, code) \o z, d, p)
<1> DEFINE l == Loaded(o, code)
           b == a \o Load(o, code) \o z
<1>1. Believes(o, l)
  BY LoadedIs DEF Good
<1>2. PlainSeq(b)
  BY CodeReach
<1>3. p \in Run(l, b)
  BY DEF RunCode
<1> HIDE DEF l, b
<1>4. Shape(l) /\ ~l.err /\ l.link = "up"
  BY <1>1 DEF Believes, Good
<1>5. \E s, d : Same(l, s) /\ s.out = <<>> /\ RunOutcome(s, b, d, p)
  BY <1>2, <1>3, <1>4, RunUp
<1> QED
  BY <1>5 DEF l, b

LEMMA LoadedOne ==
    ASSUME NEW o, Good(o), NEW x, NEW d, d.pb[0] = x, d.pb[1] = "ebreak", d.pb[2] = o.pb[2]
    PROVE  Believes(o, Loaded(o, <<x>>)) /\ \A i \in 0 .. 2 : Agrees(Loaded(o, <<x>>), d, i)
<1> DEFINE c == <<x>>
           l == Loaded(o, c)
<1>1. Len(c) = 1 /\ c[1] = x
  BY SingleSeq
<1> HIDE DEF c
<1>2. Believes(o, l) /\ l.progbuf = [i \in 0 .. 2 |-> IF i < Len(c) THEN c[i + 1]
                                                       ELSE IF i = Len(c) THEN "ebreak" ELSE o.progbuf[i]]
  BY LoadedIs DEF Good
<1> HIDE DEF l
<1>3. l.progbuf[0] = x /\ l.progbuf[1] = "ebreak" /\ l.progbuf[2] = o.progbuf[2]
  BY <1>1, <1>2
<1>4. Agrees(o, o, 2)
  BY DEF Good, Known
<1>5. \A i \in 0 .. 2 : i = 0 \/ i = 1 \/ i = 2
  OBVIOUS
<1>6. \A i \in 0 .. 2 : Agrees(l, d, i)
  BY <1>3, <1>4, <1>5 DEF Agrees
<1> QED
  BY <1>2, <1>6 DEF l, c

LEMMA LoadedTwo ==
    ASSUME NEW o, Good(o), NEW x, NEW y, NEW d, d.pb[0] = x, d.pb[1] = y, d.pb[2] = "ebreak"
    PROVE  Believes(o, Loaded(o, <<x, y>>)) /\ \A i \in 0 .. 2 : Agrees(Loaded(o, <<x, y>>), d, i)
<1> DEFINE c == <<x, y>>
           l == Loaded(o, c)
<1>1. Len(c) = 2 /\ c[1] = x /\ c[2] = y
  <2> DEFINE S == {x, y}
  <2>1. x \in S /\ y \in S
    OBVIOUS
  <2> HIDE DEF S
  <2>2. <<x, y>> \in Seq(S)
    BY <2>1
  <2> QED
    BY <2>2
<1> HIDE DEF c
<1>2. Believes(o, l) /\ l.progbuf = [i \in 0 .. 2 |-> IF i < Len(c) THEN c[i + 1]
                                                       ELSE IF i = Len(c) THEN "ebreak" ELSE o.progbuf[i]]
  BY LoadedIs DEF Good
<1> HIDE DEF l
<1>3. l.progbuf[0] = x /\ l.progbuf[1] = y /\ l.progbuf[2] = "ebreak"
  BY <1>1, <1>2
<1>4. \A i \in 0 .. 2 : i = 0 \/ i = 1 \/ i = 2
  OBVIOUS
<1>5. \A i \in 0 .. 2 : Agrees(l, d, i)
  BY <1>3, <1>4 DEF Agrees
<1> QED
  BY <1>2, <1>5 DEF l, c

\* s is the state a batch of RunCode starts from.
LEMMA CodeStart ==
    ASSUME NEW o, Good(o), NEW code, NEW s, Same(Loaded(o, code), s)
    PROVE  /\ Shape(s) /\ ~s.auto /\ s.gpr = o.gpr /\ s.pb = o.pb /\ s.csr = o.csr /\ s.mem = o.mem
           /\ s.cache = o.cache /\ s.clobbered = o.clobbered /\ s.cmderr = o.cmderr /\ s.hart = o.hart
           /\ s.touched = o.touched
           /\ \A i \in 0 .. 2 : Agrees(o, s, i)
<1>1. Believes(o, Loaded(o, code))
  BY LoadedIs DEF Good
<1> QED
  BY <1>1 DEF Believes, Same, Good, Known, Agrees

\* The end of a run of one instruction that changes nothing else.
LEMMA OneLeaves ==
    ASSUME NEW o, Good(o), NEW x, NEW s, Same(Loaded(o, <<x>>), s), NEW b, NEW d,
           NEW p, RunOutcome(s, b, d, p), Still(s, d),
           ~p.err => d.pb[0] = x /\ d.pb[1] = "ebreak" /\ d.pb[2] = o.pb[2]
    PROVE  Leaves(o, p, {})
<1>1. Believes(o, Loaded(o, <<x>>))
  BY LoadedIs DEF Good
<1>2. Wander(s, d, {}) /\ d.auto = s.auto
  BY QuietWander DEF Still
<1>3. ~p.err => \A i \in 0 .. 2 : Agrees(Loaded(o, <<x>>), d, i)
  BY LoadedOne
<1> QED
  BY <1>1, <1>2, <1>3, WanderLeaves

LEMMA OutOne == ASSUME NEW s, s = <<>>, NEW x PROVE Append(s, x) = <<x>>
<1> DEFINE a == Append(s, x)
           b == <<x>>
<1>1. IsSeq(a) /\ Len(a) = 1 /\ a[1] = x
  BY OneOut
<1>2. IsSeq(b) /\ Len(b) = 1 /\ b[1] = x
  BY SingleSeq
<1> HIDE DEF a, b
<1>3. a = b
  BY <1>1, <1>2, SameSeq
<1> QED
  BY <1>3 DEF a, b

LEMMA CodeOnly ==
    ASSUME NEW s, NEW l, NEW z, PlainSeq(l), PlainSeq(z)
    PROVE  LET u == Done(s, l)
           IN  /\ Done(s, <<>> \o l \o z) = Done(u, z)
               /\ Reach(s, <<>> \o l \o z) \subseteq {s} \cup Reach(s, l) \cup Reach(u, z)
<1>1. ASSUME NEW a, PlainSeq(a), Done(s, a) = s, Reach(s, a) = {s}
      PROVE  /\ Done(s, a \o l \o z) = Done(Done(s, l), z)
             /\ Reach(s, a \o l \o z) \subseteq {s} \cup Reach(s, l) \cup Reach(Done(s, l), z)
  <2>0. PlainSeq(a)
    BY <1>1
  <2>1. /\ Done(s, a \o l \o z) = Done(Done(Done(s, a), l), z)
        /\ Reach(s, a \o l \o z) \subseteq Reach(s, a) \cup Reach(Done(s, a), l) \cup Reach(Done(Done(s, a), l), z)
    BY <2>0, CodeReach
  <2> QED
    BY <1>1, <2>1
<1>2. PlainSeq(<<>>) /\ Done(s, <<>>) = s /\ Reach(s, <<>>) = {s}
  BY PlainNone, ReachNone
<1> QED
  BY <1>1, <1>2, Zenon

\* read_csr.
CsrrBatch == <<Do(CMD_EXEC), Read(S0), Get>>

LEMMA CsrrCode ==
    ASSUME NEW o, Good(o), Spare(o, S0), NEW p \in RunCode(o, <<>>, <<"csrr">>, CsrrBatch)
    PROVE  Leaves(o, p, {}) /\ (~p.err => p.out = <<o.csr>>)
<1> DEFINE L == Load(o, <<"csrr">>)
           B == <<>> \o L \o CsrrBatch
<1>1. PlainSeq(L) /\ PlainSeq(<<>>) /\ PlainSeq(CsrrBatch)
  BY LoadPlain, PlainNone, PlainIs, PlainThree DEF CsrrBatch
<1>2. PICK s, d : Same(Loaded(o, <<"csrr">>), s) /\ s.out = <<>> /\ RunOutcome(s, B, d, p)
  BY <1>1, CodeUp
<1>3. /\ Shape(s) /\ ~s.auto /\ s.gpr = o.gpr /\ s.pb = o.pb /\ s.csr = o.csr
      /\ s.cache = o.cache /\ s.clobbered = o.clobbered /\ \A i \in 0 .. 2 : Agrees(o, s, i)
  BY <1>2, CodeStart
<1> DEFINE u == Done(s, L)
           v == Access(u, Do(CMD_EXEC))
           w == Access(v, Read(S0))
           x == Access(w, Get)
<1>4. /\ \A e \in Reach(s, L) : PbOnly(s, e)
      /\ PbOnly(s, u) /\ u.pb[0] = "csrr" /\ u.pb[1] = "ebreak" /\ u.pb[2] = o.pb[2]
  BY <1>3, LoadOne
<1>6. Done(u, CsrrBatch) = x /\ Reach(u, CsrrBatch) \subseteq {u, v, w, x}
  BY ReachThree DEF CsrrBatch
<1>7. Done(s, B) = Done(u, CsrrBatch) /\ Reach(s, B) \subseteq {s} \cup Reach(s, L) \cup Reach(u, CsrrBatch)
  BY <1>1, CodeOnly, Zenon
<1> HIDE DEF L, u, B
<1>8. Still(s, u) /\ Shape(u) /\ ~u.auto /\ Spare(u, S0) /\ u.out = <<>> /\ u.csr = o.csr
  BY <1>2, <1>3, <1>4 DEF PbOnly, Still, Went, Host, Spare
<1>9. Still(u, v) /\ v.pb = u.pb /\ v.out = u.out /\ (~v.cmderr => v.gpr[S0] = u.csr)
  BY <1>4, <1>8, CsrrExec
<1> HIDE DEF v
<1>10. Still(v, w) /\ w.pb = v.pb /\ w.out = v.out /\ (~w.cmderr => ~v.cmderr /\ w.data0 = v.gpr[S0])
  <2>1. Shape(v) /\ S0 \in Regs
    BY <1>9 DEF Still, Went, Regs
  <2> QED
    BY <2>1, ReadStill
<1> HIDE DEF w
<1>11. Still(s, v) /\ Still(s, w)
  BY <1>8, <1>9, <1>10, StillTrans
<1>12. Still(w, x) /\ x.pb = w.pb /\ x.out = Append(w.out, w.data0) /\ x.cmderr = w.cmderr
  <2>1. Shape(w) /\ ~w.auto
    BY <1>3, <1>11 DEF Still, Went
  <2> QED
    BY <2>1, GetStill
<1> HIDE DEF x
<1>13. Still(s, x)
  BY <1>11, <1>12, StillTrans
<1>14. Still(s, d)
  <2>1. Still(s, s)
    BY <1>3, StillSame
  <2> QED
    BY <1>2, <1>4, <1>6, <1>7, <1>8, <1>11, <1>13, <2>1 DEF RunOutcome, PbOnly
<1>15. ASSUME ~p.err PROVE /\ p = d /\ d = x /\ ~x.cmderr
                           /\ d.pb[0] = "csrr" /\ d.pb[1] = "ebreak" /\ d.pb[2] = o.pb[2]
  BY <1>2, <1>4, <1>6, <1>7, <1>9, <1>10, <1>12, <1>15 DEF RunOutcome
<1>16. Leaves(o, p, {})
  BY <1>2, <1>14, <1>15, OneLeaves
<1>17. ASSUME ~p.err PROVE p.out = <<o.csr>>
  <2>1. p.out = Append(w.out, o.csr) /\ w.out = <<>>
    BY <1>8, <1>9, <1>10, <1>12, <1>15, <1>17
  <2> QED
    BY <2>1, OutOne
<1> QED
  BY <1>16, <1>17

LEMMA ReadCsrIs ==
    ASSUME NEW o, NEW p \in ReadCsr(o)
    PROVE  \/ p \in Scratch(o, {S0}) /\ p.err
           \/ \E s \in Scratch(o, {S0}) : ~s.err /\ p \in RunCode(s, <<>>, <<"csrr">>, CsrrBatch)
<1>1. ReadCsr(o) = Then(Scratch(o, {S0}), LAMBDA s : RunCode(s, <<>>, <<"csrr">>, CsrrBatch))
  BY Zenon DEF ReadCsr, CsrrBatch
<1> QED
  BY <1>1 DEF Then

LEMMA ReadCsrLater == ASSUME NEW o, Shape(o), ~o.err, NEW p \in ReadCsr(o) PROVE Later(o, p)
<1>1. PlainSeq(<<>>) /\ PlainSeq(CsrrBatch)
  BY PlainNone, PlainIs, PlainThree DEF CsrrBatch
<1>2. ASSUME NEW s \in Scratch(o, {S0}), ~s.err, p \in RunCode(s, <<>>, <<"csrr">>, CsrrBatch) PROVE Later(o, p)
  <2>1. Later(o, s)
    BY ScratchLater
  <2>2. PlainSeq(Load(s, <<"csrr">>))
    BY LoadPlain
  <2>3. Later(s, p)
    BY <1>1, <1>2, <2>1, <2>2, RunCodeLater DEF Later
  <2> QED
    BY <2>1, <2>3, LaterTrans
<1> QED
  BY <1>2, ReadCsrIs, ScratchLater

LEMMA ReadCsrLeaves ==
    ASSUME NEW o, Good(o), NEW p \in ReadCsr(o)
    PROVE  Leaves(o, p, {}) /\ (~p.err => p.out = <<o.csr>>)
<1>1. ASSUME NEW s \in Scratch(o, {S0}), ~s.err, p \in RunCode(s, <<>>, <<"csrr">>, CsrrBatch)
      PROVE  Leaves(o, p, {}) /\ (~p.err => p.out = <<o.csr>>)
  <2>1. Leaves(o, s, {}) /\ s.csr = o.csr /\ Spare(s, S0)
    BY <1>1, ScratchLeaves
  <2>2. Good(s)
    BY <1>1, <2>1, LeavesGood
  <2>3. Leaves(s, p, {}) /\ (~p.err => p.out = <<s.csr>>)
    BY <1>1, <2>1, <2>2, CsrrCode
  <2> QED
    BY <2>1, <2>3, LeavesTrans
<1> QED
  BY <1>1, ReadCsrIs, ScratchLeaves

\* write_csr.
LEMMA CsrwCode ==
    ASSUME NEW o, Good(o), Spare(o, S0), NEW v,
           NEW p \in RunCode(o, <<Put(v), Write(S0)>>, <<"csrw">>, <<Do(CMD_EXEC)>>)
    PROVE  Leaves(o, p, {}) /\ (~p.err => p.csr = v)
<1> DEFINE A == <<Put(v), Write(S0)>>
           Z == <<Do(CMD_EXEC)>>
           L == Load(o, <<"csrw">>)
           B == A \o L \o Z
<1>1. PlainSeq(L) /\ PlainSeq(A) /\ PlainSeq(Z)
  BY LoadPlain, PlainIs, PlainTwo, PlainOne
<1>2. PICK s, d : Same(Loaded(o, <<"csrw">>), s) /\ RunOutcome(s, B, d, p)
  BY <1>1, CodeUp
<1>3. /\ Shape(s) /\ ~s.auto /\ s.pb = o.pb
      /\ s.cache = o.cache /\ s.clobbered = o.clobbered /\ \A i \in 0 .. 2 : Agrees(o, s, i)
  BY <1>2, CodeStart
<1> DEFINE t == Done(s, A)
           u == Done(t, L)
           x == Access(u, Do(CMD_EXEC))
<1>4. /\ \A e \in Reach(s, A) : Quiet(s, e)
      /\ ~t.cmderr => t.gpr[S0] = v
  <2>1. Spare(s, S0) /\ S0 \in Regs
    BY <1>3 DEF Spare, Regs
  <2> QED
    BY <1>3, <2>1, WriteBatch
<1>5. Done(s, B) = Done(u, Z) /\ Reach(s, B) \subseteq Reach(s, A) \cup Reach(t, L) \cup Reach(u, Z)
  BY <1>1, CodeReach
<1>6. Done(u, Z) = x /\ Reach(u, Z) = {u, x}
  BY ReachOne
<1>7. t \in Reach(s, A)
  BY <1>1, DoneReached DEF PlainSeq
<1> HIDE DEF t, A, Z, B
<1>8. Quiet(s, t) /\ Shape(t) /\ t.pb = o.pb /\ \A i \in 0 .. 2 : Agrees(o, t, i)
  BY <1>3, <1>4, <1>7 DEF Quiet, Still, Went, Agrees
<1>9. /\ \A e \in Reach(t, L) : PbOnly(t, e)
      /\ PbOnly(t, u) /\ u.pb[0] = "csrw" /\ u.pb[1] = "ebreak" /\ u.pb[2] = o.pb[2]
  BY <1>8, LoadOne
<1> HIDE DEF u, L
<1>10. Still(s, u) /\ Shape(u)
  BY <1>8, <1>9, StillTrans DEF Quiet, PbOnly, Still, Went
<1>11. Still(u, x) /\ x.pb = u.pb /\ (~x.cmderr => ~u.cmderr /\ x.csr = u.gpr[S0])
  BY <1>9, <1>10, CsrwExec
<1> HIDE DEF x
<1>12. Still(s, x)
  BY <1>10, <1>11, StillTrans
<1>13. Still(s, d)
  <2>1. \A e \in Reach(t, L) : Still(s, e)
    BY <1>8, <1>9, StillTrans DEF Quiet, PbOnly
  <2> QED
    BY <1>2, <1>4, <1>5, <1>6, <1>10, <1>12, <2>1 DEF RunOutcome, Quiet
<1>14. ASSUME ~p.err PROVE /\ p = d /\ d = x /\ ~x.cmderr
                           /\ d.pb[0] = "csrw" /\ d.pb[1] = "ebreak" /\ d.pb[2] = o.pb[2]
  BY <1>2, <1>5, <1>6, <1>9, <1>11, <1>14 DEF RunOutcome
<1>15. Leaves(o, p, {})
  BY <1>2, <1>13, <1>14, OneLeaves
<1>16. ASSUME ~p.err PROVE p.csr = v
  BY <1>4, <1>9, <1>11, <1>14, <1>16 DEF PbOnly
<1> QED
  BY <1>15, <1>16

LEMMA WriteCsrIs ==
    ASSUME NEW o, NEW v, NEW p \in WriteCsr(o, v)
    PROVE  \/ p \in Scratch(o, {S0}) /\ p.err
           \/ \E s \in Scratch(o, {S0}) :
                ~s.err /\ p \in RunCode(s, <<Put(v), Write(S0)>>, <<"csrw">>, <<Do(CMD_EXEC)>>)
<1>1. WriteCsr(o, v) = Then(Scratch(o, {S0}), LAMBDA s : RunCode(s, <<Put(v), Write(S0)>>, <<"csrw">>, <<Do(CMD_EXEC)>>))
  BY Zenon DEF WriteCsr
<1> QED
  BY <1>1 DEF Then

LEMMA WriteCsrLater == ASSUME NEW o, Shape(o), ~o.err, NEW v, NEW p \in WriteCsr(o, v) PROVE Later(o, p)
<1> DEFINE A == <<Put(v), Write(S0)>>
           Z == <<Do(CMD_EXEC)>>
<1>1. PlainSeq(A) /\ PlainSeq(Z)
  BY PlainIs, PlainTwo, PlainOne
<1>2. ASSUME NEW s \in Scratch(o, {S0}), ~s.err, p \in RunCode(s, A, <<"csrw">>, Z) PROVE Later(o, p)
  <2>1. Later(o, s)
    BY ScratchLater
  <2>2. PlainSeq(Load(s, <<"csrw">>))
    BY LoadPlain
  <2> HIDE DEF A, Z
  <2>3. Later(s, p)
    BY <1>1, <1>2, <2>1, <2>2, RunCodeLater DEF Later
  <2> QED
    BY <2>1, <2>3, LaterTrans
<1> QED
  BY <1>2, WriteCsrIs, ScratchLater

LEMMA WriteCsrLeaves ==
    ASSUME NEW o, Good(o), NEW v, NEW p \in WriteCsr(o, v)
    PROVE  Leaves(o, p, {}) /\ (~p.err => p.csr = v)
<1>1. ASSUME NEW s \in Scratch(o, {S0}), ~s.err, p \in RunCode(s, <<Put(v), Write(S0)>>, <<"csrw">>, <<Do(CMD_EXEC)>>)
      PROVE  Leaves(o, p, {}) /\ (~p.err => p.csr = v)
  <2>1. Leaves(o, s, {}) /\ Spare(s, S0)
    BY <1>1, ScratchLeaves
  <2>2. Good(s)
    BY <1>1, <2>1, LeavesGood
  <2>3. Leaves(s, p, {}) /\ (~p.err => p.csr = v)
    BY <1>1, <2>1, <2>2, CsrwCode
  <2> QED
    BY <2>1, <2>3, LeavesTrans
<1> QED
  BY <1>1, WriteCsrIs, ScratchLeaves

\* write_gpr.
Noted(s, r, v) == [s EXCEPT !.cache[r] = v, !.clobbered = @ \ {r}]

LEMMA WriteGprIs ==
    ASSUME NEW o, NEW r, NEW v, NEW p \in WriteGpr(o, r, v)
    PROVE  \/ p \in Saved(o) /\ p.err
           \/ \E s \in Saved(o) :
                /\ ~s.err
                /\ \/ p \in Run(s, <<Put(v), Write(r)>>) /\ p.err
                   \/ \E q \in Run(s, <<Put(v), Write(r)>>) :
                        ~q.err /\ p = Noted(q, r, v)
<1> DEFINE B == <<Put(v), Write(r)>>
<1>1. WriteGpr(o, r, v) = Then(Saved(o), LAMBDA s : Then(Run(s, B), LAMBDA q : {Noted(q, r, v)}))
  BY Zenon DEF WriteGpr, Noted
<1> HIDE DEF B
<1>2. \/ p \in Saved(o) /\ p.err
      \/ \E s \in Saved(o) : ~s.err /\ p \in Then(Run(s, B), LAMBDA q : {Noted(q, r, v)})
  BY <1>1 DEF Then
<1>3. ASSUME NEW s, p \in Then(Run(s, B), LAMBDA q : {Noted(q, r, v)})
      PROVE  \/ p \in Run(s, B) /\ p.err
             \/ \E q \in Run(s, B) : ~q.err /\ p = Noted(q, r, v)
  BY <1>3 DEF Then
<1>4. \/ p \in Saved(o) /\ p.err
      \/ \E s \in Saved(o) :
           /\ ~s.err
           /\ \/ p \in Run(s, B) /\ p.err
              \/ \E q \in Run(s, B) : ~q.err /\ p = Noted(q, r, v)
  BY <1>2, <1>3
<1> QED
  BY <1>4 DEF B

LEMMA WriteGprLater ==
    ASSUME NEW o, Shape(o), ~o.err, NEW r, NEW v, NEW p \in WriteGpr(o, r, v) PROVE Later(o, p)
<1> DEFINE B == <<Put(v), Write(r)>>
<1>1. PlainSeq(B)
  BY PlainIs, PlainTwo
<1>2. \A s \in Saved(o) : Later(o, s) /\ Shape(s)
  BY SavedLater DEF Later
<1>3. ASSUME NEW s \in Saved(o), ~s.err, NEW q \in Run(s, B) PROVE Later(o, q)
  <2> HIDE DEF B
  <2>1. Later(s, q)
    BY <1>1, <1>2, <1>3, RunLater
  <2> QED
    BY <1>2, <2>1, LaterTrans
<1>4. ASSUME NEW s \in Saved(o), ~s.err, NEW q \in Run(s, B), p = Noted(q, r, v)
      PROVE  Later(o, p)
  <2>1. Later(o, q)
    BY <1>3, <1>4
  <2>2. Later(q, p)
    BY <1>4, <2>1 DEF Later, Shape, Fields, Noted
  <2> QED
    BY <2>1, <2>2, LaterTrans
<1> QED
  BY <1>2, <1>3, <1>4, WriteGprIs

\* What a register write leaves: that register has the old value or the new one.
Rewrites(o, p, r, v) ==
    /\ Shape(p) /\ p.link = "up" /\ CacheOk(p) /\ p.touched \subseteq o.touched
    /\ Visible(p)[r] \in {Visible(o)[r], v}
    /\ \A q \in Regs : q # r => Visible(p)[q] = Visible(o)[q]
    /\ (Known(p) /\ ~p.auto) \/ (p.err /\ p.faults > 0)
    /\ ~p.err => Visible(p)[r] = v

LEMMA RewritesLeaves ==
    ASSUME NEW o, NEW p, Leaves(o, p, {}), p.err, NEW r, NEW v
    PROVE  Rewrites(o, p, r, v)
  BY DEF Rewrites, Leaves, Open, Holds

LEMMA WriteGprRewrites ==
    ASSUME NEW o, Good(o), NEW r \in Regs, NEW v, NEW p \in WriteGpr(o, r, v)
    PROVE  Rewrites(o, p, r, v)
<1> DEFINE B == <<Put(v), Write(r)>>
<1>1. PlainSeq(B)
  BY PlainIs, PlainTwo
<1>2. \A s \in Saved(o) : Leaves(o, s, {}) /\ (~s.err => Good(s) /\ s.cache # NoRegs)
  BY SavedLeaves, LeavesGood
<1>3. ASSUME NEW s \in Saved(o), ~s.err, NEW q \in Run(s, B)
      PROVE  \E t, d :
                /\ Same(s, t) /\ RunOutcome(t, B, d, q)
                /\ Went(t, d) /\ d.hart = t.hart /\ d.auto = t.auto /\ d.touched = t.touched /\ d.pb = t.pb
                /\ d.gpr[r] \in {t.gpr[r], v}
                /\ \A j \in Regs : j # r => d.gpr[j] = t.gpr[j]
                /\ d = Done(t, B) /\ d.cmderr => d.gpr[r] = t.gpr[r]
                /\ d = Done(t, B) /\ ~d.cmderr => d.gpr[r] = v
  <2>1. PICK t, d : Same(s, t) /\ RunOutcome(t, B, d, q)
    <3> HIDE DEF B
    <3> QED
      BY <1>1, <1>2, <1>3, RunUp DEF Good
  <2>2. Shape(t) /\ ~t.auto
    BY <1>2, <1>3, <2>1 DEF Same, Good
  <2>3. /\ \A e \in Reach(t, B) :
                    /\ Went(t, e) /\ e.hart = t.hart /\ e.auto = t.auto /\ e.mem = t.mem /\ e.touched = t.touched
                    /\ e.pb = t.pb /\ e.gpr[r] \in {t.gpr[r], v}
                    /\ \A j \in Regs : j # r => e.gpr[j] = t.gpr[j]
        /\ Done(t, B).cmderr => Done(t, B).gpr[r] = t.gpr[r]
        /\ ~Done(t, B).cmderr => Done(t, B).gpr[r] = v
    BY <2>2, WriteBatch
  <2> HIDE DEF B
  <2>4. d \in Reach(t, B)
    BY <2>1 DEF RunOutcome
  <2>5. /\ Went(t, d) /\ d.hart = t.hart /\ d.auto = t.auto /\ d.touched = t.touched /\ d.pb = t.pb
        /\ d.gpr[r] \in {t.gpr[r], v}
        /\ \A j \in Regs : j # r => d.gpr[j] = t.gpr[j]
    BY <2>3, <2>4
  <2> QED
    BY <2>1, <2>3, <2>5
<1>7. \/ p \in Saved(o) /\ p.err
      \/ \E s \in Saved(o) :
           /\ ~s.err
           /\ \/ p \in Run(s, B) /\ p.err
              \/ \E q \in Run(s, B) : ~q.err /\ p = Noted(q, r, v)
  BY WriteGprIs
<1> HIDE DEF B
<1>4. ASSUME NEW s \in Saved(o), ~s.err, NEW q \in Run(s, B), NEW t, NEW d,
             Same(s, t), RunOutcome(t, B, d, q), Went(t, d), d.hart = t.hart, d.auto = t.auto,
             d.touched = t.touched, d.pb = t.pb, d.gpr[r] \in {t.gpr[r], v}, \A j \in Regs : j # r => d.gpr[j] = t.gpr[j]
      PROVE  /\ Shape(q) /\ q.link = "up" /\ ~q.auto /\ q.cache = s.cache /\ q.clobbered = s.clobbered
             /\ q.hart = s.hart /\ q.touched = s.touched /\ q.pb = s.pb
             /\ q.gpr[r] \in {s.gpr[r], v} /\ \A j \in Regs : j # r => q.gpr[j] = s.gpr[j]
    <2>1. Good(s)
      BY <1>2, <1>4
    <2> QED
      BY <1>4, <2>1 DEF RunOutcome, Alike, Went, Host, Same, Good
<1>5. ASSUME NEW s \in Saved(o), ~s.err, NEW q \in Run(s, B), q.err PROVE Rewrites(o, q, r, v)
  <2>1. PICK t, d :
                /\ Same(s, t) /\ RunOutcome(t, B, d, q)
                /\ Went(t, d) /\ d.hart = t.hart /\ d.auto = t.auto /\ d.touched = t.touched /\ d.pb = t.pb
                /\ d.gpr[r] \in {t.gpr[r], v}
                /\ \A j \in Regs : j # r => d.gpr[j] = t.gpr[j]
                /\ d = Done(t, B) /\ d.cmderr => d.gpr[r] = t.gpr[r]
    BY <1>3, <1>5
  <2>2. /\ Shape(q) /\ q.link = "up" /\ ~q.auto /\ q.cache = s.cache /\ q.clobbered = s.clobbered
        /\ q.hart = s.hart /\ q.touched = s.touched /\ q.pb = s.pb
        /\ q.gpr[r] \in {s.gpr[r], v} /\ \A j \in Regs : j # r => q.gpr[j] = s.gpr[j]
    BY <1>4, <1>5, <2>1
  <2>3. Good(s) /\ Leaves(o, s, {})
    BY <1>2, <1>5
  <2>4. CacheOk(q) /\ q.touched \subseteq o.touched
    BY <2>2, <2>3 DEF CacheOk, Good, Known, Leaves, Open, Holds
  <2>5. Visible(s) = Visible(o)
    BY <2>3 DEF Leaves, Open, Holds
  <2>6. Visible(q)[r] \in {Visible(s)[r], v} /\ \A j \in Regs : j # r => Visible(q)[j] = Visible(s)[j]
    <3>1. ASSUME NEW j \in Regs
          PROVE  /\ Visible(q)[j] = IF Spare(s, j) THEN s.cache[j] ELSE q.gpr[j]
                 /\ Visible(s)[j] = IF Spare(s, j) THEN s.cache[j] ELSE s.gpr[j]
      <4>1. Spare(q, j) = Spare(s, j)
        BY <2>2 DEF Spare
      <4> QED
        BY <2>2, <4>1, OneVisible
    <3> QED
      BY <2>2, <3>1
  <2>7. q.faults > 0 \/ Known(q)
    <3>1. SUFFICES ASSUME ~(q.faults > 0) PROVE Known(q)
      OBVIOUS
    <3>2. q.progbuf = Unknown /\ d.gpr[r] = t.gpr[r]
      BY <1>5, <2>1, <3>1 DEF RunOutcome
    <3>3. \A i \in 0 .. 2 : q.progbuf[i] = "none"
      BY <3>2 DEF Unknown
    <3>4. q.gpr[r] = s.gpr[r]
      BY <2>1, <3>2 DEF RunOutcome, Alike, Same
    <3>5. \A j \in Regs : q.gpr[j] = s.gpr[j]
      BY <2>2, <3>4
    <3> QED
      BY <2>2, <2>3, <2>4, <3>3, <3>5 DEF Known, Agrees, Good
  <2> QED
    BY <1>5, <2>2, <2>4, <2>5, <2>6, <2>7 DEF Rewrites
<1>6. ASSUME NEW s \in Saved(o), ~s.err, NEW q \in Run(s, B), ~q.err,
             p = Noted(q, r, v)
      PROVE  Rewrites(o, p, r, v)
  <2>1. PICK t, d :
                /\ Same(s, t) /\ RunOutcome(t, B, d, q)
                /\ Went(t, d) /\ d.hart = t.hart /\ d.auto = t.auto /\ d.touched = t.touched /\ d.pb = t.pb
                /\ d.gpr[r] \in {t.gpr[r], v}
                /\ \A j \in Regs : j # r => d.gpr[j] = t.gpr[j]
                /\ d = Done(t, B) /\ ~d.cmderr => d.gpr[r] = v
    BY <1>3, <1>6
  <2>2. /\ Shape(q) /\ q.link = "up" /\ ~q.auto /\ q.cache = s.cache /\ q.clobbered = s.clobbered
        /\ q.hart = s.hart /\ q.touched = s.touched /\ q.pb = s.pb
        /\ \A j \in Regs : j # r => q.gpr[j] = s.gpr[j]
    BY <1>4, <1>6, <2>1
  <2>3. Good(s) /\ Leaves(o, s, {}) /\ s.cache # NoRegs
    BY <1>2, <1>6
  <2>4. q.gpr[r] = v /\ q.progbuf = s.progbuf
    BY <1>6, <2>1 DEF RunOutcome, Went, Host, Same
  <2> DEFINE c == [q.cache EXCEPT ![r] = v]
             k == q.clobbered \ {r}
  <2>5. p = [q EXCEPT !.cache = c, !.clobbered = k]
    BY <1>6 DEF Noted
  <2>6. /\ Shape(p) /\ p.link = "up" /\ ~p.err /\ ~p.auto /\ p.cache = c /\ p.clobbered = k
        /\ p.gpr = q.gpr /\ p.hart = q.hart /\ p.touched = q.touched /\ p.progbuf = q.progbuf /\ p.pb = q.pb
    <3> HIDE DEF c, k
    <3> QED
      BY <1>6, <2>2, <2>5 DEF Shape, Fields
  <2>7. Regs \subseteq DOMAIN s.cache /\ s.hart = "halted"
    BY <2>3 DEF Good, Known, CacheOk
  <2>8. c[r] = v /\ (\A j \in Regs : j # r => c[j] = s.cache[j]) /\ Regs \subseteq DOMAIN c
    BY <2>2, <2>7
  <2>9. c # NoRegs
    <3> HIDE DEF c
    <3> QED
      BY <2>8, NotNone
  <2>10. r \notin k /\ \A j \in Regs : j # r => (j \in k <=> j \in s.clobbered)
    BY <2>2
  <2> HIDE DEF c, k
  <2>11. CacheOk(p)
    BY <2>2, <2>6, <2>7, <2>8 DEF CacheOk
  <2>12. Visible(p)[r] = v /\ \A j \in Regs : j # r => Visible(p)[j] = Visible(s)[j]
    <3>1. ~Spare(p, r) /\ p.gpr[r] = v
      BY <2>4, <2>6, <2>10 DEF Spare
    <3>2. ASSUME NEW j \in Regs, j # r PROVE Visible(p)[j] = Visible(s)[j]
      <4>1. Spare(p, j) = Spare(s, j)
        BY <2>3, <2>6, <2>9, <2>10, <3>2 DEF Spare
      <4>2. p.cache[j] = s.cache[j] /\ p.gpr[j] = s.gpr[j]
        BY <2>2, <2>6, <2>8, <3>2
      <4> QED
        BY <4>1, <4>2, OneVisible
    <3> QED
      BY <3>1, <3>2, OneVisible
  <2>13. Known(p)
    <3>1. \A i \in 0 .. 2 : Agrees(p, p, i)
      BY <2>2, <2>3, <2>4, <2>6 DEF Agrees, Good, Known
    <3>2. \A j \in Regs : j \in p.clobbered \/ p.cache[j] = p.gpr[j]
      BY <2>2, <2>3, <2>4, <2>6, <2>8, <2>10 DEF Good, Known
    <3> QED
      BY <2>11, <3>1, <3>2 DEF Known
  <2>14. Visible(s) = Visible(o) /\ p.touched \subseteq o.touched
    BY <2>2, <2>3, <2>6 DEF Leaves, Open, Holds
  <2> QED
    BY <2>6, <2>11, <2>12, <2>13, <2>14 DEF Rewrites
<1> QED
  BY <1>2, <1>5, <1>6, <1>7, RewritesLeaves

\* restore_registers.
LEMMA RestoresPlain == ASSUME NEW o PROVE PlainSeq(Restores(o))
<1>1. ASSUME NEW r PROVE PlainSeq(Back(o, r))
  <2> DEFINE b == <<Put(o.cache[r]), Write(r)>>
  <2>1. PlainSeq(b)
    BY PlainIs, PlainTwo
  <2>2. Back(o, r) = b \/ Back(o, r) = <<>>
    BY DEF Back
  <2> HIDE DEF b
  <2> QED
    BY <2>1, <2>2, PlainNone
<1>2. PlainSeq(Back(o, S0) \o Back(o, S1))
  BY <1>1, PlainConcat
<1> QED
  BY <1>2, PlainNone, RestoresIs

RestoreIs(o, p) ==
    \/ o.clobbered = {} /\ p = o
    \/ p \in Run(o, Restores(o)) /\ p.err
    \/ \E s \in Run(o, Restores(o)) : ~s.err /\ p = [s EXCEPT !.clobbered = {}]

LEMMA RestoreParts == ASSUME NEW o, NEW p \in RestoreRegisters(o) PROVE RestoreIs(o, p)
<1>1. CASE o.clobbered = {}
  BY <1>1 DEF RestoreRegisters, RestoreIs
<1>2. CASE o.clobbered # {}
  <2> DEFINE D == Run(o, Restores(o))
  <2>1. RestoreRegisters(o) = Then(D, LAMBDA s : {[s EXCEPT !.clobbered = {}]})
    BY <1>2, Zenon DEF RestoreRegisters
  <2> HIDE DEF D
  <2>2. \/ p \in D /\ p.err
        \/ \E s \in D : ~s.err /\ p = [s EXCEPT !.clobbered = {}]
    BY <2>1 DEF Then
  <2> QED
    BY <2>2 DEF D, RestoreIs
<1> QED
  BY <1>1, <1>2

LEMMA RestoreLater == ASSUME NEW o, Shape(o), ~o.err, NEW p \in RestoreRegisters(o) PROVE Later(o, p)
<1>1. \A s \in Run(o, Restores(o)) : Later(o, s)
  BY RestoresPlain, RunLater
<1>2. ASSUME NEW s \in Run(o, Restores(o)), p = [s EXCEPT !.clobbered = {}] PROVE Later(o, p)
  <2>0. Shape(s)
    BY <1>1 DEF Later
  <2>1. Later(s, p)
    BY <1>2, <2>0 DEF Later, Shape, Fields
  <2> QED
    BY <1>1, <2>1, LaterTrans
<1> QED
  BY <1>1, <1>2, RestoreParts, LaterSame DEF RestoreIs

\* The registers are back.
LEMMA RestoresRun ==
    ASSUME NEW o, Good(o), NEW p \in Run(o, Restores(o))
    PROVE  Leaves(o, p, {}) /\ (~p.err => p.gpr = Visible(o))
<1> DEFINE B == Restores(o)
<1>1. PICK s, d : Same(o, s) /\ RunOutcome(s, B, d, p)
  BY RestoresPlain, RunUp DEF Good
<1>2. Shape(s) /\ ~s.auto /\ s.cache = o.cache /\ s.clobbered = o.clobbered /\ s.gpr = o.gpr
  BY <1>1 DEF Same, Good
<1>3. /\ \A e \in Reach(s, B) : Quiet(s, e)
      /\ ~Done(s, B).cmderr => \A r \in Regs : Spare(s, r) => Done(s, B).gpr[r] = s.cache[r]
  BY <1>2, RestoresBatch
<1> HIDE DEF B
<1>4. Quiet(s, d)
  BY <1>1, <1>3 DEF RunOutcome
<1>5. Leaves(o, p, {})
  BY <1>1, <1>4, QuietLeaves
<1>6. ASSUME ~p.err PROVE p.gpr = Visible(o)
  <2>1. p = d /\ d = Done(s, B) /\ ~d.cmderr /\ p.gpr = [r \in Regs |-> p.gpr[r]]
    BY <1>1, <1>6 DEF RunOutcome, Alike, Shape
  <2>2. ASSUME NEW r \in Regs PROVE p.gpr[r] = Visible(o)[r]
    <3>1. Spare(s, r) = Spare(o, r)
      BY <1>2 DEF Spare
    <3>2. Spare(o, r) => p.gpr[r] = o.cache[r]
      BY <1>2, <1>3, <2>1, <3>1
    <3>3. ~Spare(o, r) => p.gpr[r] = o.gpr[r]
      BY <1>2, <1>4, <2>1, <3>1 DEF Quiet, Still
    <3> QED
      BY <3>2, <3>3, OneVisible
  <2>3. Visible(o) = [r \in Regs |-> Visible(o)[r]]
    BY VisibleAt
  <2>4. [r \in Regs |-> p.gpr[r]] = [r \in Regs |-> Visible(o)[r]]
    BY <2>2
  <2> QED
    BY <2>1, <2>3, <2>4
<1> QED
  BY <1>5, <1>6

\* Registers the host no longer holds.
LEMMA DropLeaves ==
    ASSUME NEW o, Good(o), o.gpr = Visible(o), NEW p, Shape(p), p.link = "up", ~p.auto,
           p.clobbered = {}, p.cache \in {o.cache, NoRegs}, p.gpr = o.gpr, p.hart = o.hart, p.touched = o.touched,
           p.progbuf = o.progbuf, p.pb = o.pb, NEW R
    PROVE  Leaves(o, p, R)
<1>1. Visible(p) = Visible(o)
  <2>1. \A r \in Regs : ~Spare(p, r)
    BY DEF Spare
  <2>2. \A r \in Regs : Visible(p)[r] = Visible(o)[r]
    BY <2>1, OneVisible
  <2> QED
    BY <2>2, VisibleSame
<1>2. ASSUME NEW r \in Regs, p.cache # NoRegs PROVE p.cache[r] = p.gpr[r]
  <2>1. p.cache = o.cache
    BY <1>2
  <2>2. CASE r \in o.clobbered
    <3>1. Visible(o)[r] = o.cache[r]
      BY <1>2, <2>1, <2>2, OneVisible DEF Spare
    <3> QED
      BY <2>1, <3>1
  <2>3. CASE r \notin o.clobbered
    BY <1>2, <2>1, <2>3 DEF Good, Known
  <2> QED
    BY <2>2, <2>3
<1>3. Known(p)
  BY <1>2 DEF Known, CacheOk, Agrees, Good
<1> QED
  BY <1>1, <1>3 DEF Leaves, Open, Holds, Known

LEMMA RestoreLeaves ==
    ASSUME NEW o, Good(o), NEW p \in RestoreRegisters(o)
    PROVE  Leaves(o, p, {}) /\ (~p.err => p.gpr = Visible(o))
<1>1. CASE o.clobbered = {} /\ p = o
  <2>1. \A r \in Regs : Visible(o)[r] = o.gpr[r]
    BY <1>1, OneVisible DEF Spare
  <2>2. o.gpr = [r \in Regs |-> o.gpr[r]] /\ Visible(o) = [r \in Regs |-> Visible(o)[r]]
    BY VisibleAt DEF Good, Shape
  <2>3. [r \in Regs |-> o.gpr[r]] = [r \in Regs |-> Visible(o)[r]]
    BY <2>1
  <2> QED
    BY <1>1, <2>2, <2>3, LeavesSame
<1>2. ASSUME NEW s \in Run(o, Restores(o)), ~s.err, p = [s EXCEPT !.clobbered = {}]
      PROVE  Leaves(o, p, {}) /\ (~p.err => p.gpr = Visible(o))
  <2>1. Leaves(o, s, {}) /\ s.gpr = Visible(o)
    BY <1>2, RestoresRun
  <2>2. Good(s) /\ Visible(s) = Visible(o)
    BY <1>2, <2>1, LeavesGood DEF Leaves, Open, Holds
  <2>3. /\ Shape(p) /\ p.link = "up" /\ ~p.auto /\ p.clobbered = {} /\ p.cache = s.cache /\ p.gpr = s.gpr
        /\ p.hart = s.hart /\ p.touched = s.touched /\ p.progbuf = s.progbuf /\ p.pb = s.pb
    BY <1>2, <2>2 DEF Good, Shape, Fields
  <2>4. Leaves(s, p, {})
    BY <2>1, <2>2, <2>3, DropLeaves
  <2> QED
    BY <2>1, <2>3, <2>4, LeavesTrans
<1> QED
  BY <1>1, <1>2, RestoreParts, RestoresRun DEF RestoreIs

-----------------------------------------------------------------------------
(* Single accesses: run, halt, reset, and none. *)

LEMMA OneWent ==
    ASSUME NEW x \in {<<"run">>, <<"halt">>, <<"reset">>}
    PROVE  /\ IsSeq(<<x>>) /\ \A s : Shape(s) => \A d \in Reach(s, <<x>>) : Went(s, d)
<1>1. ASSUME NEW s, Shape(s) PROVE Went(s, Access(s, x)) /\ Went(s, s)
  <2>1. Went(s, s)
    BY <1>1 DEF Went, Host
  <2>2. CASE x = <<"run">>
    <3>1. Access(s, x) = [s EXCEPT !.hart = "running"]
      BY <2>2, AccessIs
    <3> QED
      BY <1>1, <2>1, <3>1 DEF Went, Host, Shape, Fields
  <2>3. CASE x = <<"halt">>
    <3>1. Access(s, x) = [s EXCEPT !.hart = "halted"]
      BY <2>3, AccessIs
    <3> QED
      BY <1>1, <2>1, <3>1 DEF Went, Host, Shape, Fields
  <2>4. CASE x = <<"reset">>
    <3>1. Access(s, x) = [s EXCEPT !.hart = "halted", !.gpr = [r \in Regs |-> 0], !.step = FALSE]
      BY <2>4, AccessIs
    <3> QED
      BY <1>1, <2>1, <3>1 DEF Went, Host, Shape, Fields
  <2> QED
    BY <2>1, <2>2, <2>3, <2>4
<1>2. ASSUME NEW s PROVE IsSeq(<<x>>) /\ Reach(s, <<x>>) = {s, Access(s, x)}
  BY ReachOne
<1> QED
  BY <1>1, <1>2

LEMMA NoneWent == IsSeq(<<>>) /\ \A s : Shape(s) => \A d \in Reach(s, <<>>) : Went(s, d)
<1>1. ASSUME NEW s, Shape(s) PROVE Went(s, s)
  BY <1>1 DEF Went, Host
<1> QED
  BY <1>1, ReachNone

\* What a single access leaves.
LEMMA DmOne ==
    ASSUME NEW o, Good(o), NEW x \in {<<"run">>, <<"halt">>, <<"reset">>}, NEW p \in DmAccess(o, <<x>>)
    PROVE  \E s, d : /\ Same(o, s) /\ Alike(d, p) /\ p.progbuf = s.progbuf
                     /\ d = s \/ d = Access(s, x)
                     /\ \/ p.err /\ p.faults > 0
                        \/ ~p.err /\ d = Access(s, x)
<1> DEFINE b == <<x>>
<1>1. IsSeq(b) /\ (\A s : Shape(s) => \A d \in Reach(s, b) : Went(s, d))
      /\ \A s : Done(s, b) = Access(s, x) /\ Reach(s, b) = {s, Access(s, x)}
  BY OneWent, ReachOne
<1>2. p \in DmAccess(o, b)
  OBVIOUS
<1> HIDE DEF b
<1>3. PICK s, d : Same(o, s) /\ DmOutcome(s, b, d, p)
  BY <1>1, <1>2, DmUp DEF Good
<1> QED
  BY <1>1, <1>3 DEF DmOutcome

LEMMA HaltLeaves == ASSUME NEW o, Good(o), NEW p \in DmAccess(o, <<<<"halt">>>>) PROVE Leaves(o, p, {})
<1>1. PICK s, d : /\ Same(o, s) /\ Alike(d, p) /\ p.progbuf = s.progbuf
                  /\ d = s \/ d = Access(s, <<"halt">>)
                  /\ \/ p.err /\ p.faults > 0
                     \/ ~p.err /\ d = Access(s, <<"halt">>)
  BY DmOne
<1> DEFINE e == [s EXCEPT !.hart = "halted"]
<1>2. Access(s, <<"halt">>) = e
  BY AccessIs
<1>3. /\ e.cache = s.cache /\ e.clobbered = s.clobbered /\ e.gpr = s.gpr /\ e.pb = s.pb /\ e.auto = s.auto
      /\ e.hart = "halted" /\ e.link = s.link /\ e.touched = s.touched
  BY <1>1 DEF Same, Shape, Fields
<1> HIDE DEF e
<1>4. /\ Shape(p) /\ p.cache = o.cache /\ p.clobbered = o.clobbered /\ p.gpr = o.gpr /\ p.pb = o.pb /\ ~p.auto
      /\ p.hart \in {o.hart, "halted"} /\ p.link = "up" /\ p.touched = o.touched /\ p.progbuf = o.progbuf
  BY <1>1, <1>2, <1>3 DEF Alike, Same, Good
<1>5. Known(p)
  BY <1>4 DEF Known, CacheOk, Agrees, Good
<1>6. Visible(p) = Visible(o)
  BY <1>4 DEF Visible
<1> QED
  BY <1>4, <1>5, <1>6 DEF Leaves, Open, Holds, Known

\* resume(): the hart runs, and the host holds no registers.
LEMMA RunLeaves ==
    ASSUME NEW o, Good(o), o.cache = NoRegs, NEW p \in DmAccess(o, <<<<"run">>>>) PROVE Leaves(o, p, {})
<1>1. PICK s, d : /\ Same(o, s) /\ Alike(d, p) /\ p.progbuf = s.progbuf
                  /\ d = s \/ d = Access(s, <<"run">>)
  BY DmOne
<1> DEFINE e == [s EXCEPT !.hart = "running"]
<1>2. Access(s, <<"run">>) = e
  BY AccessIs
<1>3. /\ e.cache = s.cache /\ e.clobbered = s.clobbered /\ e.gpr = s.gpr /\ e.pb = s.pb /\ e.auto = s.auto
      /\ e.link = s.link /\ e.touched = s.touched
  BY <1>1 DEF Same, Shape, Fields
<1> HIDE DEF e
<1>4. /\ Shape(p) /\ p.cache = NoRegs /\ p.clobbered = o.clobbered /\ p.gpr = o.gpr /\ p.pb = o.pb /\ ~p.auto
      /\ p.link = "up" /\ p.touched = o.touched /\ p.progbuf = o.progbuf
  BY <1>1, <1>2, <1>3 DEF Alike, Same, Good
<1>5. Known(p)
  BY <1>4 DEF Known, CacheOk, Agrees, Good
<1>6. Visible(p) = Visible(o)
  BY <1>4 DEF Visible
<1> QED
  BY <1>4, <1>5, <1>6 DEF Leaves, Open, Holds, Known

\* DMSTATUS, which every memory access reads first.
LEMMA NoneLeaves ==
    ASSUME NEW o, Good(o), NEW p \in DmAccess(o, <<>>)
    PROVE  Leaves(o, p, {}) /\ (~p.err => p.mem = o.mem /\ p.csr = o.csr /\ p.hart = o.hart)
<1>1. PICK s, d : Same(o, s) /\ DmOutcome(s, <<>>, d, p)
  BY NoneWent, DmUp DEF Good
<1>2. d = s
  BY <1>1, ReachNone DEF DmOutcome
<1>3. /\ Shape(p) /\ p.cache = o.cache /\ p.clobbered = o.clobbered /\ p.gpr = o.gpr /\ p.pb = o.pb /\ ~p.auto
      /\ p.hart = o.hart /\ p.link = "up" /\ p.touched = o.touched /\ p.progbuf = o.progbuf
      /\ p.mem = o.mem /\ p.csr = o.csr
  BY <1>1, <1>2 DEF DmOutcome, Alike, Same, Good
<1>4. Known(p)
  BY <1>3 DEF Known, CacheOk, Agrees, Good
<1>5. Visible(p) = Visible(o)
  BY <1>3 DEF Visible
<1> QED
  BY <1>3, <1>4, <1>5 DEF Leaves, Open, Holds, Known

LEMMA NoneLater == ASSUME NEW o, Shape(o), ~o.err, NEW p \in DmAccess(o, <<>>) PROVE Later(o, p)
  BY NoneWent, DmLater

LEMMA OneLater ==
    ASSUME NEW o, Shape(o), ~o.err, NEW x \in {<<"run">>, <<"halt">>, <<"reset">>}, NEW p \in DmAccess(o, <<x>>)
    PROVE  Later(o, p)
<1> DEFINE b == <<x>>
<1>1. IsSeq(b) /\ (\A s : Shape(s) => \A d \in Reach(s, b) : Went(s, d))
  BY OneWent
<1>2. p \in DmAccess(o, b)
  OBVIOUS
<1> HIDE DEF b
<1> QED
  BY <1>1, <1>2, DmLater

\* reset_halt(): the host forgets what it knew.
ResetIs(o, p) ==
    \/ p \in DmAccess(o, <<<<"reset">>>>) /\ p.err
    \/ \E s \in DmAccess(o, <<<<"reset">>>>) : ~s.err /\ (p = ForgetState(s) \/ p \in Fault(ForgetState(s)))

LEMMA ResetParts == ASSUME NEW o, NEW p \in ResetHalt(o) PROVE ResetIs(o, p)
<1> DEFINE D == DmAccess(o, <<<<"reset">>>>)
<1>1. ResetHalt(o) = Then(D, LAMBDA s : {ForgetState(s)} \cup Fault(ForgetState(s)))
  BY Zenon DEF ResetHalt
<1> HIDE DEF D
<1>2. \/ p \in D /\ p.err
      \/ \E s \in D : ~s.err /\ (p = ForgetState(s) \/ p \in Fault(ForgetState(s)))
  BY <1>1 DEF Then
<1> QED
  BY <1>2 DEF D, ResetIs

LEMMA FaultLater == ASSUME NEW o, Shape(o), NEW p \in Fault(o) PROVE Later(o, p)
<1>1. CASE o.link = "up"
  <2>1. Failed(o, p)
    BY <1>1, FaultUp
  <2> QED
    BY <1>1, <2>1 DEF Failed, Alike, Later, Shape
<1>2. CASE o.link = "down"
  <2>1. p = [o EXCEPT !.err = TRUE]
    BY <1>2, FaultDown
  <2> QED
    BY <2>1 DEF Later, Shape, Fields
<1> QED
  BY <1>1, <1>2 DEF Shape

LEMMA ResetLater == ASSUME NEW o, Shape(o), ~o.err, NEW p \in ResetHalt(o) PROVE Later(o, p)
<1>1. \A s \in DmAccess(o, <<<<"reset">>>>) : Later(o, s)
  BY OneLater
<1>2. ASSUME NEW s \in DmAccess(o, <<<<"reset">>>>), p = ForgetState(s) \/ p \in Fault(ForgetState(s)) PROVE Later(o, p)
  <2>1. Later(s, ForgetState(s)) /\ Shape(ForgetState(s))
    BY <1>1, ForgetLater DEF Later
  <2>2. Later(ForgetState(s), p)
    BY <1>2, <2>1, FaultLater, LaterSame
  <2>3. Later(o, ForgetState(s))
    BY <1>1, <2>1, LaterTrans
  <2> QED
    BY <2>2, <2>3, LaterTrans
<1> QED
  BY <1>1, <1>2, ResetParts DEF ResetIs

\* The registers are the chip's after a reset.
LEMMA ResetLeaves ==
    ASSUME NEW o, Good(o), NEW p \in ResetHalt(o)
    PROVE  /\ Shape(p) /\ p.link = "up" /\ CacheOk(p) /\ p.touched = o.touched
           /\ (Known(p) /\ ~p.auto) \/ (p.err /\ p.faults > 0)
           /\ p.cache = NoRegs \/ p.faults > 0
<1>1. ASSUME NEW q \in DmAccess(o, <<<<"reset">>>>)
      PROVE  /\ Shape(q) /\ q.link = "up" /\ CacheOk(q) /\ q.touched = o.touched /\ ~q.auto
             /\ q.err => q.faults > 0
  <2>1. PICK s, d : /\ Same(o, s) /\ Alike(d, q) /\ q.progbuf = s.progbuf
                    /\ d = s \/ d = Access(s, <<"reset">>)
                    /\ q.err => q.faults > 0
    BY DmOne
  <2> DEFINE e == [s EXCEPT !.hart = "halted", !.gpr = [r \in Regs |-> 0], !.step = FALSE]
  <2>2. Access(s, <<"reset">>) = e
    BY AccessIs
  <2>3. /\ e.cache = s.cache /\ e.clobbered = s.clobbered /\ e.pb = s.pb /\ e.auto = s.auto
        /\ e.hart = "halted" /\ e.link = s.link /\ e.touched = s.touched
    BY <2>1 DEF Same, Shape, Fields
  <2> HIDE DEF e
  <2>4. /\ Shape(q) /\ q.link = "up" /\ q.cache = o.cache /\ q.hart \in {o.hart, "halted"} /\ q.touched = o.touched /\ ~q.auto
    BY <2>1, <2>2, <2>3 DEF Alike, Same, Good
  <2> QED
    BY <2>1, <2>4 DEF CacheOk, Good, Known
<1>2. ASSUME NEW s \in DmAccess(o, <<<<"reset">>>>), p = ForgetState(s) \/ p \in Fault(ForgetState(s))
      PROVE  /\ Shape(p) /\ p.link = "up" /\ CacheOk(p) /\ p.touched = o.touched
             /\ Known(p) /\ ~p.auto /\ p.cache = NoRegs
  <2> DEFINE f == ForgetState(s)
  <2>1. f.cache = NoRegs /\ f.progbuf = Unknown /\ f.auto = s.auto /\ f.touched = s.touched /\ f.link = "up" /\ Shape(f)
    BY <1>1 DEF ForgetState, Forget, Shape, Fields
  <2>2. p = f \/ p \in Fault(f)
    BY <1>2
  <2> HIDE DEF f
  <2>3. p.cache = NoRegs /\ p.progbuf = Unknown /\ p.auto = s.auto /\ p.touched = s.touched /\ p.link = "up" /\ Shape(p)
    BY <2>1, <2>2, FaultUp DEF Failed, Alike
  <2>4. \A i \in 0 .. 2 : p.progbuf[i] = "none"
    BY <2>3 DEF Unknown
  <2> QED
    BY <1>1, <2>3, <2>4 DEF Known, CacheOk, Agrees
<1>3. ResetIs(o, p)
  BY ResetParts
<1>4. CASE p \in DmAccess(o, <<<<"reset">>>>) /\ p.err
  BY <1>1, <1>4
<1>5. CASE \E s \in DmAccess(o, <<<<"reset">>>>) : ~s.err /\ (p = ForgetState(s) \/ p \in Fault(ForgetState(s)))
  <2>1. PICK s \in DmAccess(o, <<<<"reset">>>>) : p = ForgetState(s) \/ p \in Fault(ForgetState(s))
    BY <1>5, Zenon
  <2>2. /\ Shape(p) /\ p.link = "up" /\ CacheOk(p) /\ p.touched = o.touched
        /\ Known(p) /\ ~p.auto /\ p.cache = NoRegs
    BY <1>2, <2>1, Zenon
  <2> QED
    BY <2>2
<1> QED
  BY <1>3, <1>4, <1>5, Zenon DEF ResetIs

-----------------------------------------------------------------------------
(* Code of one run of the program buffer: step, nostep and the fences.     *)

ExecBatch == <<Do(CMD_EXEC)>>

LEMMA ExecPlain == PlainSeq(ExecBatch)
  BY PlainIs, PlainOne DEF ExecBatch

\* One instruction, then what else the batch has.
LEMMA OneCode ==
    ASSUME NEW o, Good(o), NEW x \in {"step", "nostep"}, NEW z, PlainSeq(z),
           \A u : Shape(u) /\ ~u.auto /\ u.cache = o.cache /\ u.clobbered = o.clobbered =>
                    \A e \in Reach(u, z) : Quiet(u, e),
           NEW p \in RunCode(o, <<>>, <<x>>, ExecBatch \o z)
    PROVE  /\ Leaves(o, p, {})
           /\ ~p.err => \E t, u : /\ t.pb[0] = x /\ t.pb[1] = "ebreak" /\ Shape(t) /\ u = Access(t, Do(CMD_EXEC))
                                  /\ Shape(u) /\ ~u.auto /\ u.cache = o.cache /\ u.clobbered = o.clobbered
                                  /\ \A r \in Regs : Spare(o, r) \/ u.gpr[r] = o.gpr[r]
                                  /\ p = Done(u, z) /\ ~p.cmderr
<1> DEFINE L == Load(o, <<x>>)
           Z == ExecBatch \o z
           B == <<>> \o L \o Z
<1>1. PlainSeq(L) /\ PlainSeq(<<>>) /\ PlainSeq(Z)
  BY LoadPlain, PlainNone, ExecPlain, PlainConcat
<1>2. PICK s, d : Same(Loaded(o, <<x>>), s) /\ RunOutcome(s, B, d, p)
  BY <1>1, CodeUp
<1>3. /\ Shape(s) /\ ~s.auto /\ s.pb = o.pb /\ s.gpr = o.gpr
      /\ s.cache = o.cache /\ s.clobbered = o.clobbered /\ \A i \in 0 .. 2 : Agrees(o, s, i)
  BY <1>2, CodeStart
<1> DEFINE t == Done(s, L)
           u == Access(t, Do(CMD_EXEC))
<1>4. Done(s, B) = Done(t, Z) /\ Reach(s, B) \subseteq {s} \cup Reach(s, L) \cup Reach(t, Z)
  BY <1>1, CodeOnly
<1>5. Done(t, Z) = Done(u, z) /\ Reach(t, Z) \subseteq {t} \cup Reach(u, z)
  BY ReachFirst DEF PlainSeq, ExecBatch
<1> HIDE DEF B, Z
<1>6. /\ \A e \in Reach(s, L) : PbOnly(s, e)
      /\ PbOnly(s, t) /\ t.pb[0] = x /\ t.pb[1] = "ebreak" /\ t.pb[2] = o.pb[2]
  BY <1>3, LoadOne
<1> HIDE DEF t, L
<1>7. Still(s, t) /\ Shape(t)
  BY <1>6 DEF PbOnly, Still, Went
<1>8. Still(t, u) /\ u.pb = t.pb
  BY <1>6, <1>7, StepExec, NostepExec
<1>9. Still(s, u)
  BY <1>7, <1>8, StillTrans
<1>10. u = Access(t, Do(CMD_EXEC))
  OBVIOUS
<1> HIDE DEF u
<1>11. /\ Shape(u) /\ ~u.auto /\ u.cache = o.cache /\ u.clobbered = o.clobbered
       /\ \A r \in Regs : Spare(o, r) \/ u.gpr[r] = o.gpr[r]
  BY <1>3, <1>9 DEF Still, Went, Host, Spare
<1>12. \A e \in Reach(u, z) : Quiet(u, e)
  BY <1>11
<1>13. \A e \in Reach(u, z) : Still(s, e) /\ e.pb = t.pb
  BY <1>8, <1>9, <1>12, StillTrans DEF Quiet
<1>14. Still(s, d)
  BY <1>2, <1>3, <1>4, <1>5, <1>6, <1>7, <1>13, StillSame DEF RunOutcome, PbOnly
<1>15. Done(u, z) \in Reach(u, z)
  BY DoneReached DEF PlainSeq
<1>16. ASSUME ~p.err PROVE /\ p = Done(u, z) /\ p = d /\ ~p.cmderr
                           /\ d.pb[0] = x /\ d.pb[1] = "ebreak" /\ d.pb[2] = o.pb[2]
  BY <1>2, <1>4, <1>5, <1>6, <1>13, <1>15, <1>16 DEF RunOutcome
<1>17. Leaves(o, p, {})
  BY <1>2, <1>14, <1>16, OneLeaves
<1> QED
  BY <1>6, <1>7, <1>10, <1>11, <1>16, <1>17

\* step(), once the hart has halted.
LEMMA NostepCode ==
    ASSUME NEW o, Good(o), NEW p \in RunCode(o, <<>>, <<"nostep">>, ExecBatch)
    PROVE  Leaves(o, p, {}) /\ (~p.err => ~p.step)
<1> DEFINE z == <<>>
           x == "nostep"
<1>1. ExecBatch \o z = ExecBatch
  <2>1. ExecBatch \in Seq({Do(CMD_EXEC)})
    BY DEF ExecBatch
  <2> QED
    BY <2>1
<1>2. p \in RunCode(o, <<>>, <<x>>, ExecBatch \o z)
  BY <1>1
<1>3. PlainSeq(z) /\ \A u : Reach(u, z) = {u} /\ Done(u, z) = u
  BY PlainNone, ReachNone
<1>4. x \in {"step", "nostep"}
  OBVIOUS
<1> HIDE DEF z
<1>5. \A u : Shape(u) /\ ~u.auto /\ u.cache = o.cache /\ u.clobbered = o.clobbered => \A e \in Reach(u, z) : Quiet(u, e)
  BY <1>3, QuietSame
<1>6. /\ Leaves(o, p, {})
      /\ ~p.err => \E t, u : /\ t.pb[0] = x /\ t.pb[1] = "ebreak" /\ Shape(t) /\ u = Access(t, Do(CMD_EXEC))
                             /\ Shape(u) /\ ~u.auto /\ u.cache = o.cache /\ u.clobbered = o.clobbered
                             /\ \A r \in Regs : Spare(o, r) \/ u.gpr[r] = o.gpr[r]
                             /\ p = Done(u, z) /\ ~p.cmderr
  <2> HIDE DEF x
  <2> QED
    BY <1>2, <1>3, <1>4, <1>5, OneCode
<1>7. ASSUME NEW t, NEW u, t.pb[0] = x, t.pb[1] = "ebreak", Shape(t), u = Access(t, Do(CMD_EXEC)),
             p = Done(u, z), ~p.cmderr
      PROVE  ~p.step
  BY <1>3, <1>7, NostepExec
<1> QED
  BY <1>6, <1>7

\* resume(step=True): the registers go back in the batch that sets dcsr.step.
LEMMA StepCode ==
    ASSUME NEW o, Good(o), NEW p \in RunCode(o, <<>>, <<"step">>, ExecBatch \o Restores(o))
    PROVE  Leaves(o, p, {}) /\ (~p.err => p.gpr = Visible(o))
<1> DEFINE z == Restores(o)
           x == "step"
<1>1. PlainSeq(z)
  BY RestoresPlain
<1>2. ASSUME NEW u, Shape(u), ~u.auto, u.cache = o.cache, u.clobbered = o.clobbered
      PROVE  /\ \A e \in Reach(u, z) : Quiet(u, e)
             /\ ~Done(u, z).cmderr => \A r \in Regs : Spare(u, r) => Done(u, z).gpr[r] = u.cache[r]
  BY <1>2, RestoresBatch
<1>3. x \in {"step", "nostep"} /\ p \in RunCode(o, <<>>, <<x>>, ExecBatch \o z)
  OBVIOUS
<1> HIDE DEF z, x
<1>4. \A u : Shape(u) /\ ~u.auto /\ u.cache = o.cache /\ u.clobbered = o.clobbered => \A e \in Reach(u, z) : Quiet(u, e)
  BY <1>2
<1>5. /\ Leaves(o, p, {})
      /\ ~p.err => \E t, u : /\ t.pb[0] = x /\ t.pb[1] = "ebreak" /\ Shape(t) /\ u = Access(t, Do(CMD_EXEC))
                             /\ Shape(u) /\ ~u.auto /\ u.cache = o.cache /\ u.clobbered = o.clobbered
                             /\ \A r \in Regs : Spare(o, r) \/ u.gpr[r] = o.gpr[r]
                             /\ p = Done(u, z) /\ ~p.cmderr
  BY <1>1, <1>3, <1>4, OneCode
<1>6. ASSUME NEW u, Shape(u), ~u.auto, u.cache = o.cache, u.clobbered = o.clobbered,
             \A r \in Regs : Spare(o, r) \/ u.gpr[r] = o.gpr[r], p = Done(u, z), ~p.cmderr
      PROVE  p.gpr = Visible(o)
  <2>0. p \in Reach(u, z) /\ Quiet(u, p)
    BY <1>1, <1>2, <1>6, DoneReached DEF PlainSeq
  <2>1. p.gpr = [r \in Regs |-> p.gpr[r]]
    BY <2>0 DEF Quiet, Still, Went, Shape
  <2>2. ASSUME NEW r \in Regs PROVE p.gpr[r] = Visible(o)[r]
    <3>1. Spare(u, r) = Spare(o, r)
      BY <1>6 DEF Spare
    <3>2. Spare(o, r) => p.gpr[r] = o.cache[r]
      BY <1>2, <1>6, <3>1
    <3>3. ~Spare(o, r) => p.gpr[r] = o.gpr[r]
      BY <1>6, <2>0, <3>1 DEF Quiet, Still
    <3> QED
      BY <3>2, <3>3, OneVisible
  <2>3. Visible(o) = [r \in Regs |-> Visible(o)[r]]
    BY VisibleAt
  <2>4. [r \in Regs |-> p.gpr[r]] = [r \in Regs |-> Visible(o)[r]]
    BY <2>2
  <2> QED
    BY <2>1, <2>3, <2>4
<1> QED
  BY <1>5, <1>6

\* The fences change nothing.
LEMMA FenceCode ==
    ASSUME NEW o, Good(o), NEW p \in RunCode(o, <<>>, <<"fence", "fence">>, ExecBatch)
    PROVE  Leaves(o, p, {})
<1> DEFINE L == Load(o, <<"fence", "fence">>)
           B == <<>> \o L \o ExecBatch
<1>1. PlainSeq(L) /\ PlainSeq(<<>>) /\ PlainSeq(ExecBatch)
  BY LoadPlain, PlainNone, ExecPlain
<1>2. PICK s, d : Same(Loaded(o, <<"fence", "fence">>), s) /\ RunOutcome(s, B, d, p)
  BY <1>1, CodeUp
<1>3. Shape(s) /\ \A i \in 0 .. 2 : Agrees(o, s, i)
  BY <1>2, CodeStart
<1> DEFINE t == Done(s, L)
           u == Access(t, Do(CMD_EXEC))
<1>4. Done(s, B) = Done(t, ExecBatch) /\ Reach(s, B) \subseteq {s} \cup Reach(s, L) \cup Reach(t, ExecBatch)
  BY <1>1, CodeOnly
<1>5. Done(t, ExecBatch) = u /\ Reach(t, ExecBatch) = {t, u}
  BY ReachOne DEF ExecBatch
<1> HIDE DEF B
<1>6. /\ \A e \in Reach(s, L) : PbOnly(s, e)
      /\ PbOnly(s, t) /\ t.pb[0] = "fence" /\ t.pb[1] = "fence" /\ t.pb[2] = "ebreak"
  BY <1>3, LoadTwo
<1> HIDE DEF t, L
<1>7. Still(s, t) /\ Shape(t)
  BY <1>6 DEF PbOnly, Still, Went
<1>8. Still(t, u) /\ u.pb = t.pb
  BY <1>6, <1>7, FencesExec
<1> HIDE DEF u
<1>9. Still(s, u)
  BY <1>7, <1>8, StillTrans
<1>10. Still(s, d)
  BY <1>2, <1>3, <1>4, <1>5, <1>6, <1>7, <1>9, StillSame DEF RunOutcome, PbOnly
<1>11. ASSUME ~p.err PROVE d = u
  BY <1>2, <1>4, <1>5, <1>11 DEF RunOutcome
<1>12. Believes(o, Loaded(o, <<"fence", "fence">>))
  BY LoadedIs DEF Good
<1>13. ASSUME ~p.err PROVE \A i \in 0 .. 2 : Agrees(Loaded(o, <<"fence", "fence">>), d, i)
  <2>1. d.pb[0] = "fence" /\ d.pb[1] = "fence" /\ d.pb[2] = "ebreak"
    BY <1>6, <1>8, <1>11, <1>13
  <2> QED
    BY <2>1, LoadedTwo
<1>14. Wander(s, d, {}) /\ d.auto = s.auto
  BY <1>10, QuietWander DEF Still
<1> QED
  BY <1>2, <1>12, <1>13, <1>14, WanderLeaves

LEMMA ExecLater ==
    ASSUME NEW o, Shape(o), ~o.err, NEW x, NEW y, NEW p,
           \/ p \in RunCode(o, <<>>, <<x>>, ExecBatch)
           \/ p \in RunCode(o, <<>>, <<x>>, ExecBatch \o Restores(o))
           \/ p \in RunCode(o, <<>>, <<x, y>>, ExecBatch)
    PROVE  Later(o, p)
<1>1. /\ PlainSeq(<<>>) /\ PlainSeq(Load(o, <<x>>)) /\ PlainSeq(Load(o, <<x, y>>))
      /\ PlainSeq(ExecBatch) /\ PlainSeq(ExecBatch \o Restores(o))
  BY LoadPlain, PlainNone, ExecPlain, RestoresPlain, PlainConcat
<1> QED
  BY <1>1, RunCodeLater

\* resume().
Dropped(s) == [s EXCEPT !.clobbered = {}, !.cache = NoRegs]
Prepared(o, step) == IF step THEN RunCode(o, <<>>, <<"step">>, ExecBatch \o Restores(o)) ELSE Run(o, Restores(o))

LEMMA ResumeIs ==
    ASSUME NEW o, NEW step, NEW p \in Resume(o, step)
    PROVE  \/ p \in Prepared(o, step) /\ p.err
           \/ \E s \in Prepared(o, step) : ~s.err /\ p \in DmAccess(Dropped(s), <<<<"run">>>>)
<1>1. Resume(o, step) = Then(Prepared(o, step), LAMBDA s : DmAccess(Dropped(s), <<<<"run">>>>))
  BY Zenon DEF Resume, Prepared, Dropped, ExecBatch
<1> QED
  BY <1>1 DEF Then

LEMMA PreparedLater ==
    ASSUME NEW o, Shape(o), ~o.err, NEW step, NEW p \in Prepared(o, step) PROVE Later(o, p)
<1>1. CASE step
  BY <1>1, ExecLater DEF Prepared
<1>2. CASE ~step
  BY <1>2, RestoresPlain, RunLater DEF Prepared
<1> QED
  BY <1>1, <1>2

LEMMA DroppedIs ==
    ASSUME NEW s, Shape(s)
    PROVE  LET q == Dropped(s)
           IN  /\ Later(s, q) /\ q.err = s.err /\ q.link = s.link /\ q.auto = s.auto /\ q.clobbered = {} /\ q.cache = NoRegs
               /\ q.gpr = s.gpr /\ q.hart = s.hart /\ q.touched = s.touched /\ q.progbuf = s.progbuf /\ q.pb = s.pb
  BY DEF Dropped, Later, Shape, Fields

LEMMA ResumeLater == ASSUME NEW o, Shape(o), ~o.err, NEW step, NEW p \in Resume(o, step) PROVE Later(o, p)
<1>1. ASSUME NEW s \in Prepared(o, step), ~s.err, p \in DmAccess(Dropped(s), <<<<"run">>>>) PROVE Later(o, p)
  <2>1. Later(o, s)
    BY PreparedLater
  <2>2. Shape(s)
    BY <2>1 DEF Later
  <2>3. Later(s, Dropped(s)) /\ ~Dropped(s).err
    BY <1>1, <2>2, DroppedIs
  <2>4. Shape(Dropped(s))
    BY <2>3 DEF Later
  <2>5. Later(Dropped(s), p)
    BY <1>1, <2>3, <2>4, OneLater
  <2>6. Later(s, p)
    BY <2>2, <2>3, <2>5, LaterTrans
  <2> QED
    BY <2>1, <2>6, LaterTrans
<1> QED
  BY <1>1, PreparedLater, ResumeIs

LEMMA ResumeLeaves ==
    ASSUME NEW o, Good(o), NEW step, NEW p \in Resume(o, step) PROVE Leaves(o, p, {})
<1>1. ASSUME NEW s \in Prepared(o, step) PROVE Leaves(o, s, {}) /\ (~s.err => s.gpr = Visible(o))
  <2>1. CASE step
    BY <2>1, StepCode DEF Prepared
  <2>2. CASE ~step
    BY <2>2, RestoresRun DEF Prepared
  <2> QED
    BY <2>1, <2>2
<1>2. ASSUME NEW s \in Prepared(o, step), ~s.err, p \in DmAccess(Dropped(s), <<<<"run">>>>) PROVE Leaves(o, p, {})
  <2> DEFINE q == Dropped(s)
  <2>1. Leaves(o, s, {}) /\ Good(s) /\ s.gpr = Visible(o)
    BY <1>1, <1>2, LeavesGood
  <2>2. s.gpr = Visible(s)
    BY <2>1 DEF Leaves, Open, Holds
  <2>3. Shape(s) /\ s.link = "up" /\ ~s.auto
    BY <2>1 DEF Good
  <2>4. /\ q.err = s.err /\ q.link = s.link /\ q.auto = s.auto /\ q.clobbered = {} /\ q.cache = NoRegs /\ Shape(q)
        /\ q.gpr = s.gpr /\ q.hart = s.hart /\ q.touched = s.touched /\ q.progbuf = s.progbuf /\ q.pb = s.pb
    BY <2>3, DroppedIs DEF Later
  <2>5. p \in DmAccess(q, <<<<"run">>>>)
    BY <1>2
  <2> HIDE DEF q
  <2>6. Leaves(s, q, {})
    BY <2>1, <2>2, <2>3, <2>4, DropLeaves
  <2>7. Good(q)
    BY <1>2, <2>4, <2>6, LeavesGood
  <2>8. Leaves(q, p, {})
    BY <2>4, <2>5, <2>7, RunLeaves
  <2>9. Leaves(s, p, {})
    BY <2>6, <2>8, LeavesTrans
  <2> QED
    BY <2>1, <2>9, LeavesTrans
<1> QED
  BY <1>1, <1>2, ResumeIs

\* An access over the bus: the other AP is selected.
LEMMA SelectLater == ASSUME NEW o, Shape(o), ~o.err, NEW ap, NEW p \in Select(o, ap) PROVE Later(o, p)
<1>1. CASE o.link = "down"
  BY <1>1, SelectDown
<1>2. CASE o.link = "up"
  <2>1. Same(o, p) \/ Failed(o, p)
    BY <1>2, SelectUp
  <2> QED
    BY <1>2, <2>1 DEF Same, Failed, Alike, Later, Shape
<1> QED
  BY <1>1, <1>2 DEF Shape

LEMMA SelectLeaves == ASSUME NEW o, Good(o), NEW ap, NEW p \in Select(o, ap) PROVE Leaves(o, p, {})
<1>1. \/ Same(o, p)
      \/ Failed(o, p)
  BY SelectUp DEF Good
<1>2. /\ Shape(p) /\ p.cache = o.cache /\ p.clobbered = o.clobbered /\ p.gpr = o.gpr /\ p.pb = o.pb /\ ~p.auto
      /\ p.hart = o.hart /\ p.link = "up" /\ p.touched = o.touched /\ p.progbuf = o.progbuf
  BY <1>1 DEF Failed, Alike, Same, Good
<1>3. Known(p)
  BY <1>2 DEF Known, CacheOk, Agrees, Good
<1>4. Visible(p) = Visible(o)
  BY <1>2 DEF Visible
<1> QED
  BY <1>2, <1>3, <1>4 DEF Leaves, Open, Holds, Known

\* sync_code.
FenceRun(o) == RunCode(o, <<>>, <<"fence", "fence">>, ExecBatch)
Synced(o) == Then(Then(WriteCsr(o, 0), LAMBDA p : WriteCsr(p, 0)), FenceRun)

LEMMA SyncedIs ==
    ASSUME NEW o, NEW p \in Synced(o)
    PROVE  \/ p \in WriteCsr(o, 0) /\ p.err
           \/ \E s \in WriteCsr(o, 0) : /\ ~s.err
                                        /\ \/ p \in WriteCsr(s, 0) /\ p.err
                                           \/ \E q \in WriteCsr(s, 0) : ~q.err /\ p \in FenceRun(q)
<1> DEFINE C == Then(WriteCsr(o, 0), LAMBDA s : WriteCsr(s, 0))
<1>1. \A q \in C : \/ q \in WriteCsr(o, 0) /\ q.err
                   \/ \E s \in WriteCsr(o, 0) : ~s.err /\ q \in WriteCsr(s, 0)
  BY DEF Then
<1>2. Synced(o) = Then(C, FenceRun)
  BY DEF Synced
<1> HIDE DEF C
<1>3. \/ p \in C /\ p.err
      \/ \E q \in C : ~q.err /\ p \in FenceRun(q)
  BY <1>2 DEF Then
<1> QED
  BY <1>1, <1>3

LEMMA SyncedLater == ASSUME NEW o, Shape(o), ~o.err, NEW p \in Synced(o) PROVE Later(o, p)
<1>1. ASSUME NEW s \in WriteCsr(o, 0), ~s.err, NEW q \in WriteCsr(s, 0)
      PROVE  Later(o, q) /\ Shape(q) /\ (~q.err /\ p \in FenceRun(q) => Later(o, p))
  <2>1. Later(o, s)
    BY WriteCsrLater
  <2>2. Shape(s)
    BY <2>1 DEF Later
  <2>3. Later(s, q)
    BY <1>1, <2>2, WriteCsrLater
  <2>4. Later(o, q)
    BY <2>1, <2>3, LaterTrans
  <2>5. Shape(q)
    BY <2>4 DEF Later
  <2>6. ASSUME ~q.err, p \in FenceRun(q) PROVE Later(q, p)
    BY <2>5, <2>6, ExecLater DEF FenceRun
  <2> QED
    BY <2>4, <2>5, <2>6, LaterTrans
<1> QED
  BY <1>1, SyncedIs, WriteCsrLater

LEMMA SyncedLeaves == ASSUME NEW o, Good(o), NEW p \in Synced(o) PROVE Leaves(o, p, {})
<1>1. ASSUME NEW s \in WriteCsr(o, 0), ~s.err, NEW q \in WriteCsr(s, 0)
      PROVE  Leaves(o, q, {}) /\ (~q.err /\ p \in FenceRun(q) => Leaves(o, p, {}))
  <2>1. Leaves(o, s, {}) /\ Good(s)
    BY <1>1, WriteCsrLeaves, LeavesGood
  <2>2. Leaves(s, q, {})
    BY <2>1, WriteCsrLeaves
  <2>3. Leaves(o, q, {})
    BY <2>1, <2>2, LeavesTrans
  <2>4. ASSUME ~q.err, p \in FenceRun(q) PROVE Leaves(q, p, {})
    <3>1. Good(q)
      BY <2>3, <2>4, LeavesGood
    <3> QED
      BY <2>4, <3>1, FenceCode DEF FenceRun
  <2> QED
    BY <2>3, <2>4, LeavesTrans
<1> QED
  BY <1>1, SyncedIs, WriteCsrLeaves

Syncing(o) == WhenHalted(o, Synced)

LEMMA SyncingIs ==
    ASSUME NEW o, NEW p \in Syncing(o)
    PROVE  \/ p \in DmAccess(o, <<>>) /\ p.err
           \/ \E s \in DmAccess(o, <<>>) : ~s.err /\ p \in Synced(s)
  BY DEF Syncing, WhenHalted, Then

LEMMA SyncingLater == ASSUME NEW o, Shape(o), ~o.err, NEW p \in Syncing(o) PROVE Later(o, p)
<1>1. ASSUME NEW s \in DmAccess(o, <<>>), ~s.err, p \in Synced(s) PROVE Later(o, p)
  <2>1. Later(o, s)
    BY NoneLater
  <2>2. Shape(s)
    BY <2>1 DEF Later
  <2>3. Later(s, p)
    BY <1>1, <2>2, SyncedLater
  <2> QED
    BY <2>1, <2>3, LaterTrans
<1> QED
  BY <1>1, NoneLater, SyncingIs

LEMMA SyncingLeaves == ASSUME NEW o, Good(o), NEW p \in Syncing(o) PROVE Leaves(o, p, {})
<1>1. ASSUME NEW s \in DmAccess(o, <<>>), ~s.err, p \in Synced(s) PROVE Leaves(o, p, {})
  <2>1. Leaves(o, s, {}) /\ Good(s)
    BY <1>1, NoneLeaves, LeavesGood
  <2>2. Leaves(s, p, {})
    BY <1>1, <2>1, SyncedLeaves
  <2> QED
    BY <2>1, <2>2, LeavesTrans
<1> QED
  BY <1>1, NoneLeaves, SyncingIs

\* The rest of step().
Cleared(o) == IF o.hart = "halted" THEN RunCode(o, <<>>, <<"nostep">>, ExecBatch) ELSE {[o EXCEPT !.err = TRUE]}
Clearing(o) == WhenHalted(o, Cleared)

LEMMA ClearingIs ==
    ASSUME NEW o, NEW p \in Clearing(o)
    PROVE  \/ p \in DmAccess(o, <<>>) /\ p.err
           \/ \E s \in DmAccess(o, <<>>) : ~s.err /\ p \in Cleared(s)
  BY DEF Clearing, WhenHalted, Then

LEMMA ErrIs ==
    ASSUME NEW o, Shape(o), NEW b \in BOOLEAN
    PROVE  LET q == [o EXCEPT !.err = b]
           IN  /\ Later(o, q) /\ q.err = b /\ q.cache = o.cache /\ q.clobbered = o.clobbered /\ q.gpr = o.gpr
               /\ q.pb = o.pb /\ q.auto = o.auto /\ q.hart = o.hart /\ q.link = o.link /\ q.touched = o.touched
               /\ q.progbuf = o.progbuf /\ q.mem = o.mem /\ q.faults = o.faults /\ q.out = o.out /\ q.cmderr = o.cmderr
  BY DEF Later, Shape, Fields

LEMMA ErrLeaves == ASSUME NEW o, Good(o), NEW b \in BOOLEAN, NEW R PROVE Leaves(o, [o EXCEPT !.err = b], R)
<1> DEFINE p == [o EXCEPT !.err = b]
<1>1. /\ Shape(p) /\ p.cache = o.cache /\ p.clobbered = o.clobbered /\ p.gpr = o.gpr /\ p.pb = o.pb /\ ~p.auto
      /\ p.hart = o.hart /\ p.link = "up" /\ p.touched = o.touched /\ p.progbuf = o.progbuf
  BY ErrIs DEF Good, Later
<1> HIDE DEF p
<1>2. Known(p)
  BY <1>1 DEF Known, CacheOk, Agrees, Good
<1>3. Visible(p) = Visible(o)
  BY <1>1 DEF Visible
<1>4. Leaves(o, p, R)
  BY <1>1, <1>2, <1>3 DEF Leaves, Open, Holds, Known
<1> QED
  BY <1>4 DEF p

LEMMA ClearingLater == ASSUME NEW o, Shape(o), ~o.err, NEW p \in Clearing(o) PROVE Later(o, p)
<1>1. ASSUME NEW s \in DmAccess(o, <<>>), ~s.err, p \in Cleared(s) PROVE Later(o, p)
  <2>1. Later(o, s)
    BY NoneLater
  <2>2. Shape(s)
    BY <2>1 DEF Later
  <2>3. Later(s, p)
    <3>1. CASE s.hart = "halted"
      BY <1>1, <2>2, <3>1, ExecLater DEF Cleared
    <3>2. CASE s.hart # "halted"
      <4>1. p = [s EXCEPT !.err = TRUE]
        BY <1>1, <3>2 DEF Cleared
      <4> QED
        BY <2>2, <4>1, ErrIs
    <3> QED
      BY <3>1, <3>2
  <2> QED
    BY <2>1, <2>3, LaterTrans
<1> QED
  BY <1>1, NoneLater, ClearingIs

LEMMA ClearingLeaves ==
    ASSUME NEW o, Good(o), NEW p \in Clearing(o) PROVE Leaves(o, p, {}) /\ (~p.err => ~p.step)
<1>1. ASSUME NEW s \in DmAccess(o, <<>>), ~s.err, p \in Cleared(s) PROVE Leaves(o, p, {}) /\ (~p.err => ~p.step)
  <2>1. Leaves(o, s, {}) /\ Good(s)
    BY <1>1, NoneLeaves, LeavesGood
  <2>2. Leaves(s, p, {}) /\ (~p.err => ~p.step)
    <3>1. CASE s.hart = "halted"
      BY <1>1, <2>1, <3>1, NostepCode DEF Cleared
    <3>2. CASE s.hart # "halted"
      <4>1. p = [s EXCEPT !.err = TRUE] /\ Shape(s)
        BY <1>1, <2>1, <3>2 DEF Cleared, Good
      <4>2. Leaves(s, p, {})
        BY <2>1, <4>1, ErrLeaves
      <4>3. p.err
        BY <4>1, ErrIs
      <4> QED
        BY <4>2, <4>3
    <3> QED
      BY <3>1, <3>2
  <2> QED
    BY <2>1, <2>2, LeavesTrans
<1> QED
  BY <1>1, NoneLeaves, ClearingIs

-----------------------------------------------------------------------------
(* The pipeline of the memory accesses.                                    *)

\* lw and sw: a trap, or one word.
LEMMA LwIs ==
    ASSUME NEW v, Shape(v), ~v.cmderr, NEW u, u = Insn(v, "lw")
    PROVE  \/ u.cmderr /\ u.touched = v.touched /\ u.mem = v.mem
           \/ /\ ~u.cmderr /\ v.gpr[S0] \in Memory /\ u.touched = v.touched \cup {v.gpr[S0]} /\ u.mem = v.mem
              /\ u.gpr[S0] = v.gpr[S0] /\ u.gpr[S1] = v.mem[v.gpr[S0]]
<1> DEFINE x == v.gpr[S0]
           g == [v.gpr EXCEPT ![S1] = v.mem[x]]
<1>1. g[S0] = x /\ g[S1] = v.mem[x]
  <2>1. g = [[r \in Regs |-> v.gpr[r]] EXCEPT ![S1] = v.mem[x]]
    BY DEF Shape
  <2>2. S0 \in Regs /\ S1 \in Regs /\ S0 # S1
    BY DEF Regs, S0, S1
  <2> QED
    BY <2>1, <2>2
<1>2. CASE x \in Memory
  <2>1. u = [v EXCEPT !.gpr = g, !.touched = @ \cup {x}]
    BY <1>2, InsnIs
  <2> HIDE DEF g, x
  <2>2. u.cmderr = v.cmderr /\ u.gpr = g /\ u.touched = v.touched \cup {x} /\ u.mem = v.mem
    BY <2>1 DEF Shape, Fields
  <2> QED
    BY <1>1, <1>2, <2>2 DEF x
<1>3. CASE x \notin Memory
  <2>1. u = [v EXCEPT !.cmderr = TRUE]
    BY <1>3, InsnIs
  <2> QED
    BY <2>1 DEF Shape, Fields
<1> QED
  BY <1>2, <1>3

LEMMA SwIs ==
    ASSUME NEW v, Shape(v), ~v.cmderr, NEW u, u = Insn(v, "sw")
    PROVE  \/ u.cmderr /\ u.touched = v.touched /\ u.mem = v.mem
           \/ /\ ~u.cmderr /\ v.gpr[S0] \in Memory /\ u.touched = v.touched \cup {v.gpr[S0]}
              /\ u.mem = [v.mem EXCEPT ![v.gpr[S0]] = v.gpr[S1]] /\ u.gpr = v.gpr
<1> DEFINE x == v.gpr[S0]
           w == [v.mem EXCEPT ![x] = v.gpr[S1]]
<1>1. CASE x \in Memory
  <2>1. u = [v EXCEPT !.mem = w, !.touched = @ \cup {x}]
    BY <1>1, InsnIs
  <2> HIDE DEF w, x
  <2>2. u.cmderr = v.cmderr /\ u.gpr = v.gpr /\ u.touched = v.touched \cup {x} /\ u.mem = w
    BY <2>1 DEF Shape, Fields
  <2> QED
    BY <1>1, <2>2 DEF x, w
<1>2. CASE x \notin Memory
  <2>1. u = [v EXCEPT !.cmderr = TRUE]
    BY <1>2, InsnIs
  <2> QED
    BY <2>1 DEF Shape, Fields
<1> QED
  BY <1>1, <1>2

\* addi, after an access: the next address.
LEMMA AddiIs ==
    ASSUME NEW v, Shape(v), v.gpr[S0] \in Memory, NEW u, u = Insn(v, "addi")
    PROVE  /\ u.cmderr = v.cmderr /\ u.touched = v.touched /\ u.mem = v.mem
           /\ u.gpr[S0] = v.gpr[S0] + 1 /\ u.gpr[S1] = v.gpr[S1]
<1> DEFINE x == IF v.gpr[S0] < Top THEN v.gpr[S0] + 1 ELSE v.gpr[S0]
           g == [v.gpr EXCEPT ![S0] = x]
<1>1. g[S0] = x /\ g[S1] = v.gpr[S1]
  <2>1. g = [[r \in Regs |-> v.gpr[r]] EXCEPT ![S0] = x]
    BY DEF Shape
  <2>2. S0 \in Regs /\ S1 \in Regs /\ S0 # S1
    BY DEF Regs, S0, S1
  <2> QED
    BY <2>1, <2>2
<1>2. x = v.gpr[S0] + 1
  BY TopAssumption DEF Memory
<1>3. u = [v EXCEPT !.gpr = g]
  BY InsnIs
<1> HIDE DEF g, x
<1>4. u.cmderr = v.cmderr /\ u.touched = v.touched /\ u.mem = v.mem /\ u.gpr = g
  BY <1>3 DEF Shape, Fields
<1> QED
  BY <1>1, <1>2, <1>4

\* The move of a command.
LEMMA MovedIs ==
    ASSUME NEW t, Shape(t), NEW c, c.move \in {"zero", "read", "write"}, c.reg \in Regs, NEW v, v = Moved(t, c)
    PROVE  /\ Shape(v) /\ v.cmderr = t.cmderr /\ v.mem = t.mem /\ v.touched = t.touched /\ v.pb = t.pb /\ v.last = c
           /\ c.move # "write" => v.gpr = t.gpr
           /\ c.move = "read" => v.data0 = t.gpr[c.reg]
           /\ c.move = "write" => /\ v.gpr[c.reg] = t.data0
                                  /\ \A q \in Regs : q # c.reg => v.gpr[q] = t.gpr[q]
<1>1. CASE c.move = "read"
  <2>1. v = [t EXCEPT !.last = c, !.data0 = t.gpr[c.reg]]
    BY <1>1 DEF Moved
  <2> QED
    BY <1>1, <2>1 DEF Shape, Fields
<1>2. CASE c.move = "zero"
  <2>1. v = [t EXCEPT !.last = c, !.data0 = 0]
    BY <1>2 DEF Moved
  <2> QED
    BY <1>2, <2>1 DEF Shape, Fields
<1>3. CASE c.move = "write"
  <2> DEFINE g == [t.gpr EXCEPT ![c.reg] = t.data0]
  <2>1. v = [t EXCEPT !.last = c, !.gpr = g]
    BY <1>3 DEF Moved
  <2>2. /\ g = [r \in Regs |-> g[r]]
        /\ \A r \in Regs : g[r] = IF r = c.reg THEN t.data0 ELSE t.gpr[r]
    <3>1. t.gpr = [r \in Regs |-> t.gpr[r]]
      BY DEF Shape
    <3> QED
      BY <3>1, FunExcept
  <2> HIDE DEF g
  <2>3. /\ Shape(v) /\ v.cmderr = t.cmderr /\ v.mem = t.mem /\ v.touched = t.touched /\ v.pb = t.pb /\ v.last = c
        /\ v.gpr = g
    BY <2>1, <2>2 DEF Shape, Fields
  <2> QED
    BY <1>3, <2>2, <2>3
<1> QED
  BY <1>1, <1>2, <1>3

\* A command of the read pipeline: refused or trapped, or one word further.
Reads(t) == t.pb[0] = "lw" /\ t.pb[1] = "addi" /\ t.pb[2] = "ebreak"
Writes(t) == t.pb[0] = "sw" /\ t.pb[1] = "addi" /\ t.pb[2] = "ebreak"

LEMMA LwExec ==
    ASSUME NEW t, Shape(t), Reads(t), NEW c, c.exec, c.move \in {"zero", "read"}, c.reg \in Regs,
           NEW u, u = Command(t, c)
    PROVE  /\ Kept(t, u) /\ u.mem = t.mem
           /\ \/ u.cmderr /\ u.touched = t.touched
              \/ /\ ~u.cmderr /\ ~t.cmderr /\ u.touched = t.touched \cup {t.gpr[S0]} /\ u.last = c
                 /\ u.gpr[S0] = t.gpr[S0] + 1 /\ u.gpr[S1] = t.mem[t.gpr[S0]]
                 /\ c.move = "read" => u.data0 = t.gpr[c.reg]
<1>0. Kept(t, u)
  BY CommandKept
<1>1. CASE Still(t, u) /\ u.cmderr
  BY <1>0, <1>1 DEF Still
<1>2. CASE ~t.cmderr /\ t.hart = "halted" /\ u = RunProgbuf(Moved(t, c))
  <2> DEFINE v == Moved(t, c)
             w == Insn(v, "lw")
             y == Insn(w, "addi")
  <2>1. /\ Shape(v) /\ ~v.cmderr /\ v.mem = t.mem /\ v.touched = t.touched /\ v.last = c
        /\ v.gpr = t.gpr /\ (c.move = "read" => v.data0 = t.gpr[c.reg])
        /\ v.pb[0] = "lw" /\ v.pb[1] = "addi" /\ v.pb[2] = "ebreak"
    BY <1>2, MovedIs DEF Reads
  <2>2. u = IF w.cmderr THEN w ELSE y
    <3> HIDE DEF v
    <3> QED
      BY <1>2, <2>1, RunTwo DEF v
  <2> HIDE DEF v
  <2>3. Ran(v, w)
    BY <2>1, InsnRan
  <2>4. \/ w.cmderr /\ w.touched = v.touched /\ w.mem = v.mem
        \/ /\ ~w.cmderr /\ v.gpr[S0] \in Memory /\ w.touched = v.touched \cup {v.gpr[S0]} /\ w.mem = v.mem
           /\ w.gpr[S0] = v.gpr[S0] /\ w.gpr[S1] = v.mem[v.gpr[S0]]
    BY <2>1, LwIs
  <2> HIDE DEF w
  <2>5. CASE w.cmderr
    BY <1>0, <2>1, <2>2, <2>4, <2>5
  <2>6. CASE ~w.cmderr
    <3>1. Shape(w) /\ w.gpr[S0] \in Memory
      BY <2>3, <2>4, <2>6 DEF Ran
    <3>2. Ran(w, y)
      BY <3>1, InsnRan
    <3>3. /\ y.cmderr = w.cmderr /\ y.touched = w.touched /\ y.mem = w.mem
          /\ y.gpr[S0] = w.gpr[S0] + 1 /\ y.gpr[S1] = w.gpr[S1]
      BY <3>1, AddiIs
    <3>4. y.last = c /\ y.data0 = v.data0
      BY <2>1, <2>3, <3>2 DEF Ran
    <3>5. u = y
      BY <2>2, <2>6
    <3> HIDE DEF y
    <3> QED
      BY <1>0, <1>2, <2>1, <2>4, <2>6, <3>3, <3>4, <3>5
  <2> QED
    BY <2>5, <2>6
<1> QED
  BY <1>1, <1>2, ExecIs

\* ... and of the write pipeline.
LEMMA SwExec ==
    ASSUME NEW t, Shape(t), Writes(t), NEW c, c.exec, c.move = "write", c.reg = S1,
           NEW u, u = Command(t, c)
    PROVE  /\ Kept(t, u)
           /\ \/ u.cmderr /\ u.touched = t.touched
              \/ /\ ~u.cmderr /\ ~t.cmderr /\ u.touched = t.touched \cup {t.gpr[S0]} /\ u.last = c
                 /\ u.gpr[S0] = t.gpr[S0] + 1 /\ u.mem = [t.mem EXCEPT ![t.gpr[S0]] = t.data0]
<1>0. Kept(t, u)
  BY CommandKept
<1>1. CASE Still(t, u) /\ u.cmderr
  BY <1>0, <1>1 DEF Still
<1>2. CASE ~t.cmderr /\ t.hart = "halted" /\ u = RunProgbuf(Moved(t, c))
  <2> DEFINE v == Moved(t, c)
             w == Insn(v, "sw")
             y == Insn(w, "addi")
  <2>0. S0 \in Regs /\ S1 \in Regs /\ S0 # S1
    BY DEF Regs, S0, S1
  <2>1. /\ Shape(v) /\ ~v.cmderr /\ v.mem = t.mem /\ v.touched = t.touched /\ v.last = c
        /\ v.gpr[S1] = t.data0 /\ v.gpr[S0] = t.gpr[S0]
        /\ v.pb[0] = "sw" /\ v.pb[1] = "addi" /\ v.pb[2] = "ebreak"
    BY <1>2, <2>0, MovedIs DEF Writes
  <2>2. u = IF w.cmderr THEN w ELSE y
    <3> HIDE DEF v
    <3> QED
      BY <1>2, <2>1, RunTwo DEF v
  <2> HIDE DEF v
  <2>3. Ran(v, w)
    BY <2>1, InsnRan
  <2>4. \/ w.cmderr /\ w.touched = v.touched /\ w.mem = v.mem
        \/ /\ ~w.cmderr /\ v.gpr[S0] \in Memory /\ w.touched = v.touched \cup {v.gpr[S0]}
           /\ w.mem = [v.mem EXCEPT ![v.gpr[S0]] = v.gpr[S1]] /\ w.gpr = v.gpr
    BY <2>1, SwIs
  <2> HIDE DEF w
  <2>5. CASE w.cmderr
    BY <1>0, <2>1, <2>2, <2>4, <2>5
  <2>6. CASE ~w.cmderr
    <3>1. Shape(w) /\ w.gpr[S0] \in Memory
      BY <2>3, <2>4, <2>6 DEF Ran
    <3>2. Ran(w, y)
      BY <3>1, InsnRan
    <3>3. /\ y.cmderr = w.cmderr /\ y.touched = w.touched /\ y.mem = w.mem
          /\ y.gpr[S0] = w.gpr[S0] + 1
      BY <3>1, AddiIs
    <3>4. y.last = c
      BY <2>1, <2>3, <3>2 DEF Ran
    <3>5. u = y
      BY <2>2, <2>6
    <3> HIDE DEF y
    <3>6. w.mem = [t.mem EXCEPT ![t.gpr[S0]] = t.data0]
      BY <2>1, <2>4, <2>6
    <3> QED
      BY <1>0, <1>2, <2>1, <2>4, <2>6, <3>3, <3>4, <3>5, <3>6
  <2> QED
    BY <2>5, <2>6
<1> QED
  BY <1>1, <1>2, ExecIs

\* With both registers saved and marked, the hart's own are free: what is left
\* to keep track of is the memory and the program buffer.
Both(o) == Spare(o, S0) /\ Spare(o, S1)
Fit(p) == \A i \in 0 .. 2 : Agrees(p, p, i)
Work(o, p, R) ==
    /\ Shape(p) /\ p.link = "up" /\ p.cache = o.cache /\ p.clobbered = o.clobbered /\ p.hart = o.hart
    /\ p.touched \subseteq o.touched \cup R

LEMMA WorkOpen ==
    ASSUME NEW o, Good(o), Both(o), NEW p, NEW R, Work(o, p, R), Fit(p) \/ (p.err /\ p.faults > 0)
    PROVE  Open(o, p, R)
<1>1. CacheOk(p)
  BY DEF Work, Good, Known, CacheOk
<1>2. \A r \in Regs : Spare(p, r) /\ Spare(o, r) /\ p.cache = o.cache
  BY DEF Work, Both, Spare, Regs
<1>3. \A r \in Regs : Visible(p)[r] = Visible(o)[r]
  BY <1>2, OneVisible
<1>4. Holds(o, p, R)
  BY <1>1, <1>3, VisibleSame DEF Holds, Work
<1>5. Fit(p) => Known(p)
  BY <1>1, <1>2 DEF Fit, Known, Spare
<1> QED
  BY <1>4, <1>5 DEF Open

\* The end of the finally.
Off(q) == DmAccess([q EXCEPT !.err = FALSE], <<Autoexec(FALSE)>>)
Ended(q, r) == [r EXCEPT !.err = r.err \/ q.err]

LEMMA FinallyIs ==
    ASSUME NEW D, NEW p \in Finally(D)
    PROVE  \E q \in D : \E r \in Off(q) : p = Ended(q, r)
  BY DEF Finally, Off, Ended

LEMMA OffWent ==
    PlainSeq(<<Autoexec(FALSE)>>) /\ \A s : Shape(s) => \A d \in Reach(s, <<Autoexec(FALSE)>>) : Went(s, d)
<1> DEFINE b == <<Autoexec(FALSE)>>
<1>1. PlainSeq(b)
  BY PlainIs, PlainOne
<1> HIDE DEF b
<1>2. \A s : Shape(s) => \A d \in Reach(s, b) : Went(s, d)
  BY <1>1, PlainReach DEF PlainSeq
<1> QED
  BY <1>1, <1>2 DEF b

LEMMA FinallyLater ==
    ASSUME NEW q, Shape(q), NEW r \in Off(q) PROVE Later(q, Ended(q, r))
<1> DEFINE e == [q EXCEPT !.err = FALSE]
           b == <<Autoexec(FALSE)>>
<1>1. Later(q, e) /\ ~e.err
  BY ErrIs
<1>2. Shape(e)
  BY <1>1 DEF Later
<1>3. r \in DmAccess(e, b)
  BY DEF Off
<1>4. IsSeq(b) /\ \A s : Shape(s) => \A d \in Reach(s, b) : Went(s, d)
  BY OffWent DEF PlainSeq
<1> HIDE DEF e, b
<1>5. Later(e, r)
  BY <1>1, <1>2, <1>3, <1>4, DmLater
<1>6. Shape(r) /\ (r.err \/ q.err) \in BOOLEAN
  BY <1>5 DEF Later
<1>7. Later(r, Ended(q, r))
  BY <1>6, ErrIs DEF Ended
<1>8. Later(q, r)
  BY <1>1, <1>5, LaterTrans
<1> QED
  BY <1>7, <1>8, LaterTrans

\* Autoexec is off, or an access has failed.
LEMMA OffUp ==
    ASSUME NEW q, Shape(q), q.link = "up", NEW r \in Off(q)
    PROVE  /\ Shape(r) /\ r.cache = q.cache /\ r.clobbered = q.clobbered /\ r.gpr = q.gpr /\ r.pb = q.pb
           /\ r.mem = q.mem /\ r.csr = q.csr /\ r.hart = q.hart /\ r.link = "up" /\ r.touched = q.touched
           /\ r.progbuf = q.progbuf /\ r.faults >= q.faults
           /\ \/ r.err /\ r.faults > 0
              \/ ~r.err /\ ~r.auto /\ r.data0 = q.data0 /\ r.cmderr = q.cmderr /\ r.out = q.out
<1> DEFINE e == [q EXCEPT !.err = FALSE]
           b == <<Autoexec(FALSE)>>
<1>1. /\ Shape(e) /\ ~e.err /\ e.cache = q.cache /\ e.clobbered = q.clobbered /\ e.gpr = q.gpr /\ e.pb = q.pb
      /\ e.mem = q.mem /\ e.csr = q.csr /\ e.hart = q.hart /\ e.link = "up" /\ e.touched = q.touched
      /\ e.progbuf = q.progbuf /\ e.faults = q.faults /\ e.data0 = q.data0 /\ e.cmderr = q.cmderr /\ e.out = q.out
  BY DEF Shape, Fields
<1>2. r \in DmAccess(e, b)
  BY DEF Off
<1>3. IsSeq(b) /\ \A s : Shape(s) => \A d \in Reach(s, b) : Went(s, d)
  BY OffWent DEF PlainSeq
<1>4. ASSUME NEW s
      PROVE  Done(s, b) = [s EXCEPT !.auto = FALSE] /\ Reach(s, b) = {s, [s EXCEPT !.auto = FALSE]}
  <2>1. Access(s, Autoexec(FALSE)) = [s EXCEPT !.auto = FALSE]
    BY AccessIs
  <2>2. Done(s, b) = Access(s, Autoexec(FALSE)) /\ Reach(s, b) = {s, Access(s, Autoexec(FALSE))}
    BY ReachOne
  <2> QED
    BY <2>1, <2>2
<1> HIDE DEF e, b
<1>5. PICK s, d : Same(e, s) /\ s.out = e.out /\ DmOutcome(s, b, d, r)
  BY <1>1, <1>2, <1>3, DmUp
<1> DEFINE a == [s EXCEPT !.auto = FALSE]
<1>6. /\ Shape(a) /\ ~a.auto /\ a.cache = s.cache /\ a.clobbered = s.clobbered /\ a.gpr = s.gpr /\ a.pb = s.pb
      /\ a.mem = s.mem /\ a.csr = s.csr /\ a.hart = s.hart /\ a.link = s.link /\ a.touched = s.touched
      /\ a.data0 = s.data0 /\ a.cmderr = s.cmderr /\ a.out = s.out
  BY <1>5 DEF Same, Shape, Fields
<1>7. (d = s \/ d = a) /\ (d = Done(s, b) => d = a)
  BY <1>4, <1>5 DEF DmOutcome
<1> HIDE DEF a
<1>8. Same(e, s) /\ Alike(d, r) /\ r.progbuf = s.progbuf /\ r.faults >= s.faults
  BY <1>5 DEF DmOutcome
<1>9. \/ r.err /\ r.faults > 0
      \/ ~r.err /\ r = a
  BY <1>5, <1>7 DEF DmOutcome
<1>10. /\ Shape(r) /\ r.cache = q.cache /\ r.clobbered = q.clobbered /\ r.gpr = q.gpr /\ r.pb = q.pb
       /\ r.mem = q.mem /\ r.csr = q.csr /\ r.hart = q.hart /\ r.link = "up" /\ r.touched = q.touched
       /\ r.progbuf = q.progbuf /\ r.faults >= q.faults
  BY <1>1, <1>6, <1>7, <1>8 DEF Same, Alike
<1>11. ASSUME ~r.err PROVE ~r.auto /\ r.data0 = q.data0 /\ r.cmderr = q.cmderr /\ r.out = q.out
  BY <1>1, <1>5, <1>6, <1>9, <1>11 DEF Same
<1> QED
  BY <1>9, <1>10, <1>11

LEMMA FinallyLeaves ==
    ASSUME NEW o, Good(o), Both(o), NEW R, NEW q, Work(o, q, R), Fit(q) \/ (q.err /\ q.faults > 0),
           NEW r \in Off(q), NEW p, p = Ended(q, r)
    PROVE  /\ Leaves(o, p, R)
           /\ ~p.err => /\ ~q.err /\ p.data0 = q.data0 /\ p.cmderr = q.cmderr /\ p.out = q.out /\ p.mem = q.mem
                        /\ p.gpr = q.gpr /\ Both(p)
<1>0. Shape(q) /\ q.link = "up" /\ q.faults \in Nat
  BY DEF Work, Shape
<1>1. /\ Shape(r) /\ r.cache = q.cache /\ r.clobbered = q.clobbered /\ r.gpr = q.gpr /\ r.pb = q.pb
      /\ r.mem = q.mem /\ r.csr = q.csr /\ r.hart = q.hart /\ r.link = "up" /\ r.touched = q.touched
      /\ r.progbuf = q.progbuf /\ r.faults >= q.faults
      /\ \/ r.err /\ r.faults > 0
         \/ ~r.err /\ ~r.auto /\ r.data0 = q.data0 /\ r.cmderr = q.cmderr /\ r.out = q.out
  BY <1>0, OffUp
<1>2. /\ Shape(p) /\ p.err = (r.err \/ q.err) /\ p.cache = r.cache /\ p.clobbered = r.clobbered /\ p.gpr = r.gpr
      /\ p.pb = r.pb /\ p.mem = r.mem /\ p.hart = r.hart /\ p.link = r.link /\ p.touched = r.touched
      /\ p.progbuf = r.progbuf /\ p.faults = r.faults /\ p.data0 = r.data0 /\ p.cmderr = r.cmderr /\ p.out = r.out
      /\ p.auto = r.auto
  BY <1>1 DEF Ended, Shape, Fields
<1>3. Work(o, p, R)
  BY <1>1, <1>2 DEF Work
<1>4. Fit(q) => Fit(p)
  BY <1>1, <1>2 DEF Fit, Agrees
<1>5. r.faults \in Nat /\ r.err \in BOOLEAN /\ q.err \in BOOLEAN
  BY <1>0, <1>1 DEF Shape
<1>6. ASSUME q.err, q.faults > 0 PROVE p.err /\ p.faults > 0
  <2>1. p.err = (r.err \/ q.err) /\ p.faults = r.faults /\ r.faults >= q.faults
    BY <1>1, <1>2
  <2>2. p.err
    BY <2>1, <1>6, Zenon
  <2>3. p.faults > 0
    BY <1>0, <1>5, <1>6, <2>1
  <2> QED
    BY <2>2, <2>3
<1>7. Open(o, p, R)
  BY <1>3, <1>4, <1>6, WorkOpen
<1>8. ~p.auto \/ (p.err /\ p.faults > 0)
  BY <1>1, <1>2
<1>9. ~p.err => Both(p)
  BY <1>3 DEF Work, Both, Spare
<1> QED
  BY <1>1, <1>2, <1>7, <1>8, <1>9 DEF Leaves

\* Where the pipeline starts: the address in s0, the code loaded.
Primed(o, u, a, x) ==
    /\ Shape(u) /\ ~u.auto /\ u.out = <<>> /\ u.mem = o.mem /\ u.touched = o.touched
    /\ u.pb[0] = x /\ u.pb[1] = "addi" /\ u.pb[2] = "ebreak"
    /\ ~u.cmderr => u.gpr[S0] = a

\* What the rest of the batch keeps to: the memory of R, and V for autoexec.
Keeps(o, u, e, R, V) == e.touched \subseteq o.touched \cup R /\ e.pb = u.pb /\ e.auto \in V
Stays(o, a, x, z, R, V) == \A u, e : Primed(o, u, a, x) /\ e \in Reach(u, z) => Keeps(o, u, e, R, V)
StartBatch(a) == <<Put(a), Write(S0)>>
PipeRun(o, a, x, z) == RunCode(o, StartBatch(a), <<x, "addi">>, z)
Piping(o, p, a, x, z, R, V) ==
    /\ Work(o, p, R) /\ (Fit(p) \/ (p.err /\ p.faults > 0)) /\ p.auto \in V
    /\ ~p.err => ~p.cmderr /\ \E u : Primed(o, u, a, x) /\ p = Done(u, z)

\* A run of the code: what it leaves.
LEMMA PipeCode ==
    ASSUME NEW o, Good(o), Both(o), NEW x \in {"lw", "sw"}, NEW a, NEW z, PlainSeq(z), NEW R, NEW V, FALSE \in V,
           Stays(o, a, x, z, R, V), NEW p \in PipeRun(o, a, x, z)
    PROVE  Piping(o, p, a, x, z, R, V)
<1> DEFINE A == <<Put(a), Write(S0)>>
           c == <<x, "addi">>
           L == Load(o, c)
           b == A \o L \o z
<1>1. PlainSeq(L) /\ PlainSeq(A)
  BY LoadPlain, PlainIs, PlainTwo
<1>2. PICK s, d : Same(Loaded(o, c), s) /\ s.out = <<>> /\ RunOutcome(s, b, d, p)
  BY <1>1, CodeUp DEF PipeRun, StartBatch
<1>3. /\ Shape(s) /\ ~s.auto /\ s.pb = o.pb /\ s.mem = o.mem /\ s.touched = o.touched
      /\ s.cache = o.cache /\ s.clobbered = o.clobbered /\ \A i \in 0 .. 2 : Agrees(o, s, i)
  BY <1>2, CodeStart
<1> DEFINE t == Done(s, A)
           u == Done(t, L)
<1>4. /\ \A e \in Reach(s, A) : Quiet(s, e) /\ e.out = s.out
      /\ ~t.cmderr => t.gpr[S0] = a
  <2>1. Spare(s, S0) /\ S0 \in Regs
    BY <1>3 DEF Spare, Regs, Both
  <2> QED
    BY <1>3, <2>1, WriteBatch
<1>5. Done(s, b) = Done(u, z) /\ Reach(s, b) \subseteq Reach(s, A) \cup Reach(t, L) \cup Reach(u, z)
  BY <1>1, CodeReach
<1>6. t \in Reach(s, A)
  BY <1>1, DoneReached DEF PlainSeq
<1>7. PlainSeq(b)
  BY <1>1, CodeReach
<1>8. \A i \in 1 .. Len(b) : Plain(b[i])
  BY <1>7 DEF PlainSeq
<1>9. \A e \in Reach(s, b) : Went(s, e) /\ e.hart = s.hart
  BY <1>3, <1>7, <1>8, PlainReach DEF PlainSeq
<1> HIDE DEF t, A, b
<1>10. Quiet(s, t) /\ Shape(t) /\ t.out = <<>> /\ \A i \in 0 .. 2 : Agrees(o, t, i)
  BY <1>2, <1>3, <1>4, <1>6 DEF Quiet, Still, Went, Agrees
<1>11. /\ \A e \in Reach(t, L) : PbOnly(t, e)
       /\ PbOnly(t, u) /\ u.pb[0] = x /\ u.pb[1] = "addi" /\ u.pb[2] = "ebreak"
  BY <1>10, LoadTwo
<1> HIDE DEF u, L
<1>12. Primed(o, u, a, x)
  <2>1. Shape(u) /\ ~u.auto /\ u.out = <<>> /\ u.mem = o.mem /\ u.touched = o.touched
    BY <1>3, <1>10, <1>11 DEF Quiet, PbOnly, Still, Went
  <2>2. ~u.cmderr => u.gpr[S0] = a
    BY <1>4, <1>11 DEF PbOnly
  <2> QED
    BY <1>11, <2>1, <2>2 DEF Primed
<1>13. \A e \in Reach(u, z) : e.touched \subseteq o.touched \cup R /\ e.pb = u.pb /\ e.auto \in V
  BY <1>12 DEF Keeps, Stays
<1>14. \A e \in Reach(s, A) : e.touched = o.touched /\ e.auto \in V
  BY <1>3, <1>4 DEF Quiet, Still, Went, Shape
<1>15. \A e \in Reach(t, L) : e.touched = o.touched /\ e.auto \in V
  BY <1>3, <1>10, <1>11 DEF Quiet, PbOnly, Still, Went, Shape
<1>16. d.touched \subseteq o.touched \cup R /\ d.auto \in V
  BY <1>2, <1>5, <1>13, <1>14, <1>15 DEF RunOutcome
<1>17. /\ Went(s, d) /\ d.hart = s.hart /\ Alike(d, p)
  BY <1>2, <1>9 DEF RunOutcome
<1>18. Believes(o, Loaded(o, c))
  BY LoadedIs DEF Good
<1>19. Work(o, p, R) /\ p.auto \in V
  BY <1>16, <1>17, <1>18, <1>2 DEF Work, Went, Host, Alike, Same, Believes, Good
<1>20. Done(u, z) \in Reach(u, z)
  BY DoneReached DEF PlainSeq
<1>21. ASSUME ~p.err PROVE p = d /\ ~p.cmderr /\ p = Done(u, z)
  BY <1>2, <1>5, <1>21 DEF RunOutcome
<1>22. ASSUME ~p.err PROVE Fit(p)
  <2>1. p.pb[0] = x /\ p.pb[1] = "addi" /\ p.pb[2] = "ebreak"
    BY <1>11, <1>13, <1>20, <1>21, <1>22
  <2>2. \A i \in 0 .. 2 : Agrees(Loaded(o, c), p, i)
    BY <2>1, LoadedTwo
  <2>3. p.progbuf = Loaded(o, c).progbuf
    BY <1>2, <1>17, <1>21, <1>22 DEF Went, Host, Same
  <2> QED
    BY <2>2, <2>3 DEF Fit, Agrees
<1>23. ASSUME p.progbuf = Unknown PROVE Fit(p)
  <2>1. \A i \in 0 .. 2 : p.progbuf[i] = "none"
    BY <1>23 DEF Unknown
  <2> QED
    BY <2>1 DEF Fit, Agrees
<1>24. Fit(p) \/ (p.err /\ p.faults > 0)
  BY <1>2, <1>22, <1>23 DEF RunOutcome
<1> QED
  BY <1>12, <1>19, <1>21, <1>24 DEF Piping

\* _pb_read_words, from where the pipeline starts: the first two words.
RD == Cmd("read", S1, TRUE)
WR == Cmd("write", S1, TRUE)
FillBatch(n) == <<Do(CMD_EXEC), Do(RD)>> \o (IF n > 2 THEN <<Autoexec(TRUE)>> ELSE <<>>)

LEMMA CmdsAre ==
    /\ RD.exec /\ RD.move = "read" /\ RD.reg = S1 /\ WR.exec /\ WR.move = "write" /\ WR.reg = S1
    /\ CMD_EXEC.exec /\ CMD_EXEC.move = "zero" /\ CMD_EXEC.reg = S0 /\ S0 \in Regs /\ S1 \in Regs
  BY DEF RD, WR, CMD_EXEC, Cmd, Regs

LEMMA FillPlain == ASSUME NEW n PROVE PlainSeq(FillBatch(n))
<1>1. PlainSeq(<<Do(CMD_EXEC), Do(RD)>>) /\ PlainSeq(<<Autoexec(TRUE)>>) /\ PlainSeq(<<>>)
  BY PlainIs, PlainOne, PlainTwo, PlainNone
<1> QED
  BY <1>1, PlainConcat DEF FillBatch

\* The two commands.
LEMMA FirstReads ==
    ASSUME NEW o, NEW u, NEW a \in Int, Primed(o, u, a, "lw"),
           NEW v, v = Access(u, Do(CMD_EXEC)), NEW w, w = Access(v, Do(RD))
    PROVE  /\ Shape(v) /\ v.pb = u.pb /\ ~v.auto /\ v.out = <<>> /\ v.mem = o.mem
           /\ v.touched \subseteq o.touched \cup {a}
           /\ ~v.cmderr => v.gpr[S0] = a + 1 /\ v.gpr[S1] = o.mem[a]
           /\ Shape(w) /\ w.pb = u.pb /\ ~w.auto /\ w.out = <<>> /\ w.mem = o.mem
           /\ w.touched \subseteq o.touched \cup {a, a + 1}
           /\ ~w.cmderr => /\ w.gpr[S0] = a + 2 /\ w.gpr[S1] = o.mem[a + 1] /\ w.data0 = o.mem[a]
                           /\ w.last = RD
<1>1. v = Command(u, CMD_EXEC) /\ w = Command(v, RD)
  BY AccessIs
<1>2. Shape(u) /\ Reads(u)
  BY DEF Primed, Reads
<1>3. /\ Kept(u, v) /\ v.mem = u.mem
      /\ \/ v.cmderr /\ v.touched = u.touched
         \/ /\ ~v.cmderr /\ ~u.cmderr /\ v.touched = u.touched \cup {u.gpr[S0]}
            /\ v.gpr[S0] = u.gpr[S0] + 1 /\ v.gpr[S1] = u.mem[u.gpr[S0]]
  BY <1>1, <1>2, CmdsAre, LwExec
<1>4. /\ Shape(v) /\ v.pb = u.pb /\ ~v.auto /\ v.out = <<>> /\ v.mem = o.mem
      /\ v.touched \subseteq o.touched \cup {a}
      /\ ~v.cmderr => v.gpr[S0] = a + 1 /\ v.gpr[S1] = o.mem[a]
  BY <1>3 DEF Kept, Went, Primed
<1>5. Reads(v)
  BY <1>2, <1>4 DEF Reads
<1>6. /\ Kept(v, w) /\ w.mem = v.mem
      /\ \/ w.cmderr /\ w.touched = v.touched
         \/ /\ ~w.cmderr /\ ~v.cmderr /\ w.touched = v.touched \cup {v.gpr[S0]} /\ w.last = RD
            /\ w.gpr[S0] = v.gpr[S0] + 1 /\ w.gpr[S1] = v.mem[v.gpr[S0]]
            /\ w.data0 = v.gpr[S1]
  BY <1>1, <1>4, <1>5, CmdsAre, LwExec
<1>7. /\ Shape(w) /\ w.pb = u.pb /\ ~w.auto /\ w.out = <<>> /\ w.mem = o.mem
  BY <1>4, <1>6 DEF Kept, Went
<1>8. w.touched \subseteq o.touched \cup {a, a + 1}
  BY <1>4, <1>6
<1>9. ASSUME ~w.cmderr
      PROVE  /\ w.gpr[S0] = a + 2 /\ w.gpr[S1] = o.mem[a + 1] /\ w.data0 = o.mem[a] /\ w.last = RD
  <2>1. w.gpr[S0] = (a + 1) + 1 /\ w.gpr[S1] = o.mem[a + 1] /\ w.data0 = o.mem[a] /\ w.last = RD
    BY <1>4, <1>6, <1>9
  <2>2. (a + 1) + 1 = a + 2
    OBVIOUS
  <2> QED
    BY <2>1, <2>2
<1> QED
  BY <1>4, <1>7, <1>8, <1>9

\* The pipeline with i words read, one on its way and one in s1.
Piped(o, t, a, i) ==
    /\ Shape(t) /\ Reads(t) /\ t.mem = o.mem
    /\ t.touched \subseteq o.touched \cup (a .. a + i + 1)
    /\ ~t.cmderr => /\ t.last = RD /\ t.gpr[S0] = a + i + 2 /\ t.gpr[S1] = o.mem[a + i + 1] /\ t.data0 = o.mem[a + i]
                    /\ IsSeq(t.out) /\ Len(t.out) = i /\ \A j \in 1 .. i : t.out[j] = o.mem[a + j - 1]

LEMMA FillReads ==
    ASSUME NEW o, NEW a \in Int, NEW n \in Nat, NEW u, Primed(o, u, a, "lw")
    PROVE  /\ \A e \in Reach(u, FillBatch(n)) : Keeps(o, u, e, a .. a + 1, BOOLEAN)
           /\ Piped(o, Done(u, FillBatch(n)), a, 0)
           /\ n > 2 => Done(u, FillBatch(n)).auto
<1> DEFINE b == <<Do(CMD_EXEC), Do(RD)>>
           v == Access(u, Do(CMD_EXEC))
           w == Access(v, Do(RD))
           z == [w EXCEPT !.auto = TRUE]
<1>1. /\ Shape(v) /\ v.pb = u.pb /\ v.touched \subseteq o.touched \cup {a}
      /\ Shape(w) /\ w.pb = u.pb /\ ~w.auto /\ w.out = <<>> /\ w.mem = o.mem
      /\ w.touched \subseteq o.touched \cup {a, a + 1}
      /\ ~w.cmderr => /\ w.gpr[S0] = a + 2 /\ w.gpr[S1] = o.mem[a + 1] /\ w.data0 = o.mem[a]
                      /\ w.last = RD
  BY FirstReads
<1>2. Done(u, b) = w /\ Reach(u, b) \subseteq {u, v, w} /\ IsSeq(b)
  BY ReachTwo
<1>3. Access(w, Autoexec(TRUE)) = z
  BY AccessIs
<1>4. Done(w, <<Autoexec(TRUE)>>) = Access(w, Autoexec(TRUE)) /\ Reach(w, <<Autoexec(TRUE)>>) = {w, Access(w, Autoexec(TRUE))}
      /\ IsSeq(<<Autoexec(TRUE)>>)
  BY ReachOne
<1>5. Done(w, <<>>) = w /\ Reach(w, <<>>) = {w} /\ IsSeq(<<>>)
  BY ReachNone
<1> DEFINE q == IF n > 2 THEN <<Autoexec(TRUE)>> ELSE <<>>
<1>6. IsSeq(q) /\ Reach(w, q) \subseteq {w, z} /\ Done(w, q) = IF n > 2 THEN z ELSE w
  BY <1>3, <1>4, <1>5
<1>7. FillBatch(n) = b \o q
  BY DEF FillBatch
<1>8. u.touched = o.touched /\ Shape(u)
  BY DEF Primed
<1>9. Reads(w)
  BY <1>1 DEF Primed, Reads
<1>10. /\ z.touched = w.touched /\ z.pb = w.pb /\ z.auto /\ Shape(z) /\ z.mem = w.mem /\ z.cmderr = w.cmderr
       /\ z.gpr = w.gpr /\ z.data0 = w.data0 /\ z.last = w.last /\ z.out = w.out
  BY <1>1 DEF Shape, Fields
<1> HIDE DEF b, v, w, z, q
<1>11. Done(u, b \o q) = Done(Done(u, b), q) /\ Reach(u, b \o q) \subseteq Reach(u, b) \cup Reach(Done(u, b), q)
  BY <1>2, <1>6, ReachConcat
<1>12. Done(u, b \o q) = (IF n > 2 THEN z ELSE w) /\ Reach(u, b \o q) \subseteq {u, v, w, z}
  BY <1>2, <1>6, <1>11
<1>13. a .. a + 1 = {a, a + 1} /\ a + 0 + 1 = a + 1 /\ a + 0 + 2 = a + 2 /\ a + 0 = a /\ 1 .. 0 = {}
  OBVIOUS
<1>14. \A e \in {u, v, w, z} : Keeps(o, u, e, a .. a + 1, BOOLEAN)
  <2>1. \A e \in {u, v, w, z} : e.touched \subseteq o.touched \cup (a .. a + 1) /\ e.pb = u.pb /\ Shape(e)
    BY <1>1, <1>8, <1>10, <1>13
  <2> QED
    BY <2>1 DEF Keeps, Shape
<1>15. IsSeq(<<>>) /\ Len(<<>>) = 0
  BY NothingSeq
<1>16. \A e \in {w, z} : Piped(o, e, a, 0)
  BY <1>1, <1>9, <1>10, <1>13, <1>15 DEF Piped, Reads
<1> QED
  BY <1>7, <1>10, <1>12, <1>13, <1>14, <1>16

\* One read of data0.
LEMMA GetPiped ==
    ASSUME NEW o, NEW a \in Int, NEW i \in Nat, NEW t, Piped(o, t, a, i), t.auto \/ t.cmderr,
           NEW u, u = Access(t, Get)
    PROVE  Piped(o, u, a, i + 1) /\ u.auto = t.auto
<1> DEFINE v == [t EXCEPT !.out = Append(@, t.data0)]
<1>1. u = IF t.auto THEN Command(v, v.last) ELSE v
  <2>1. u = Again(v)
    BY AccessIs
  <2>2. v.auto = t.auto
    BY DEF Piped, Shape, Fields
  <2> HIDE DEF v
  <2> QED
    BY <2>1, <2>2 DEF Again
<1>2. /\ Shape(v) /\ v.pb = t.pb /\ v.auto = t.auto /\ v.mem = t.mem /\ v.touched = t.touched /\ v.cmderr = t.cmderr
      /\ v.last = t.last /\ v.gpr = t.gpr /\ v.data0 = t.data0 /\ v.out = Append(t.out, t.data0)
  BY DEF Piped, Shape, Fields
<1> HIDE DEF v
<1>3. a .. a + i + 1 \subseteq a .. a + (i + 1) + 1
  OBVIOUS
<1>4. ASSUME t.cmderr PROVE Piped(o, u, a, i + 1) /\ u.auto = t.auto
  <2>1. Command(v, v.last) = v
    BY <1>2, <1>4, CommandIs
  <2>2. u = v
    BY <1>1, <2>1
  <2>3. v.touched \subseteq o.touched \cup (a .. a + (i + 1) + 1)
    BY <1>2, <1>3 DEF Piped
  <2> QED
    BY <1>2, <1>4, <2>2, <2>3 DEF Piped, Reads
<1>5. ASSUME ~t.cmderr PROVE Piped(o, u, a, i + 1) /\ u.auto = t.auto
  <2>1. /\ t.auto /\ v.last = RD /\ v.gpr[S0] = a + i + 2 /\ v.gpr[S1] = o.mem[a + i + 1] /\ v.data0 = o.mem[a + i]
        /\ IsSeq(t.out) /\ Len(t.out) = i /\ (\A j \in 1 .. i : t.out[j] = o.mem[a + j - 1])
    BY <1>2, <1>5 DEF Piped
  <2>2. Reads(v) /\ v.mem = o.mem
    BY <1>2 DEF Piped, Reads
  <2>3. u = Command(v, RD)
    BY <1>1, <2>1
  <2>4. /\ Kept(v, u) /\ u.mem = v.mem
        /\ \/ u.cmderr /\ u.touched = v.touched
           \/ /\ ~u.cmderr /\ ~v.cmderr /\ u.touched = v.touched \cup {v.gpr[S0]} /\ u.last = RD
              /\ u.gpr[S0] = v.gpr[S0] + 1 /\ u.gpr[S1] = v.mem[v.gpr[S0]]
              /\ u.data0 = v.gpr[S1]
    BY <1>2, <2>2, <2>3, CmdsAre, LwExec
  <2>5. Shape(u) /\ Reads(u) /\ u.mem = o.mem /\ u.auto = t.auto /\ u.out = v.out
    BY <1>2, <2>2, <2>4 DEF Kept, Went, Reads
  <2>6. u.touched \subseteq o.touched \cup (a .. a + (i + 1) + 1)
    <3>1. a + i + 2 \in a .. a + (i + 1) + 1
      OBVIOUS
    <3>2. v.touched \subseteq o.touched \cup (a .. a + i + 1)
      BY <1>2 DEF Piped
    <3>3. u.touched \subseteq v.touched \cup {a + i + 2}
      BY <2>1, <2>4
    <3> QED
      BY <1>3, <3>1, <3>2, <3>3
  <2>7. ASSUME ~u.cmderr
        PROVE  /\ u.last = RD /\ u.gpr[S0] = a + (i + 1) + 2 /\ u.gpr[S1] = o.mem[a + (i + 1) + 1]
               /\ u.data0 = o.mem[a + (i + 1)]
    <3>1. u.last = RD /\ u.gpr[S0] = (a + i + 2) + 1 /\ u.gpr[S1] = o.mem[a + i + 2] /\ u.data0 = o.mem[a + i + 1]
      BY <2>1, <2>2, <2>4, <2>7
    <3>2. (a + i + 2) + 1 = a + (i + 1) + 2 /\ a + i + 2 = a + (i + 1) + 1 /\ a + i + 1 = a + (i + 1)
      OBVIOUS
    <3> QED
      BY <3>1, <3>2
  <2>8. IsSeq(u.out) /\ Len(u.out) = i + 1 /\ \A j \in 1 .. i + 1 : u.out[j] = o.mem[a + j - 1]
    <3> DEFINE x == t.data0
    <3>1. u.out = Append(t.out, x) /\ x = o.mem[a + i]
      BY <1>2, <2>1, <2>5
    <3> HIDE DEF x
    <3>2. /\ IsSeq(Append(t.out, x)) /\ Len(Append(t.out, x)) = i + 1
          /\ \A j \in 1 .. i : Append(t.out, x)[j] = t.out[j]
          /\ Append(t.out, x)[i + 1] = x
      BY <2>1, AppendSeq
    <3>3. ASSUME NEW j \in 1 .. i + 1 PROVE u.out[j] = o.mem[a + j - 1]
      <4>1. CASE j \in 1 .. i
        BY <2>1, <3>1, <3>2, <4>1
      <4>2. CASE j = i + 1
        <5>1. a + j - 1 = a + i
          BY <4>2
        <5> QED
          BY <3>1, <3>2, <4>2, <5>1
      <4> QED
        BY <4>1, <4>2
    <3> QED
      BY <3>1, <3>2, <3>3
  <2> QED
    BY <2>5, <2>6, <2>7, <2>8 DEF Piped
<1> QED
  BY <1>4, <1>5

\* A command is not run while cmderr is set, and leaves it set.
LEMMA GetRefused == ASSUME NEW t, Shape(t), t.cmderr, NEW u, u = Access(t, Get) PROVE u.cmderr
<1> DEFINE v == [t EXCEPT !.out = Append(@, t.data0)]
<1>1. u = Again(v)
  BY AccessIs
<1>2. v.cmderr
  BY DEF Shape, Fields
<1> HIDE DEF v
<1>3. Command(v, v.last) = v
  BY <1>2, CommandIs
<1> QED
  BY <1>1, <1>2, <1>3 DEF Again

\* k of them.
Gets(k) == [i \in 1 .. k |-> Get]

LEMMA GetsPlain == ASSUME NEW k \in Nat PROVE PlainSeq(Gets(k)) /\ Len(Gets(k)) = k
<1> DEFINE f == Gets(k)
<1>1. f = [i \in 1 .. k |-> f[i]] /\ \A i \in 1 .. k : f[i] = Get
  BY DEF Gets
<1> HIDE DEF f
<1>2. IsSeq(f) /\ Len(f) = k
  BY <1>1, FunSeq
<1>3. \A i \in 1 .. Len(f) : Plain(f[i])
  BY <1>1, <1>2, PlainIs
<1>4. PlainSeq(f)
  BY <1>2, <1>3 DEF PlainSeq
<1> QED
  BY <1>2, <1>4 DEF f

LEMMA GetsPiped ==
    ASSUME NEW o, NEW a \in Int, NEW k \in Nat, NEW t, Piped(o, t, a, 0), t.auto \/ t.cmderr
    PROVE  /\ Piped(o, Done(t, Gets(k)), a, k)
           /\ \A e \in Reach(t, Gets(k)) : \E i \in 0 .. k : Piped(o, e, a, i)
<1> DEFINE b == Gets(k)
<1>1. IsSeq(b) /\ Len(b) = k /\ \A i \in 1 .. k : b[i] = Get
  BY GetsPlain DEF PlainSeq, Gets
<1> HIDE DEF b
<1>2. PICK f : RunOf(f, t, b) /\ Done(t, b) = f[Len(b)] /\ Reach(t, b) = {f[i] : i \in 0 .. Len(b)}
  BY <1>1, BatchRun
<1>3. f[0] = t /\ \A i \in 1 .. k : f[i] = Access(f[i - 1], Get)
  BY <1>1, <1>2 DEF RunOf
<1> DEFINE T == {i \in Nat : i <= k => Piped(o, f[i], a, i) /\ (f[i].auto \/ f[i].cmderr)}
<1>4. 0 \in T
  BY <1>3
<1>5. ASSUME NEW i \in Nat, i \in T PROVE i + 1 \in T
  <2>1. SUFFICES ASSUME i + 1 <= k PROVE Piped(o, f[i + 1], a, i + 1) /\ (f[i + 1].auto \/ f[i + 1].cmderr)
    OBVIOUS
  <2>2. Piped(o, f[i], a, i) /\ (f[i].auto \/ f[i].cmderr)
    BY <1>5, <2>1
  <2>3. i + 1 \in 1 .. k /\ (i + 1) - 1 = i
    BY <2>1
  <2>4. f[i + 1] = Access(f[i], Get)
    BY <1>3, <2>3
  <2>5. Piped(o, f[i + 1], a, i + 1) /\ f[i + 1].auto = f[i].auto
    <3> HIDE DEF T
    <3> DEFINE x == f[i]
               u == f[i + 1]
    <3>1. Piped(o, x, a, i) /\ (x.auto \/ x.cmderr) /\ u = Access(x, Get)
      BY <2>2, <2>4
    <3> HIDE DEF x, u
    <3>2. Piped(o, u, a, i + 1) /\ u.auto = x.auto
      BY <3>1, GetPiped
    <3> QED
      BY <3>2 DEF x, u
  <2>6. f[i].cmderr => f[i + 1].cmderr
    <3>1. Shape(f[i])
      BY <2>2 DEF Piped
    <3> QED
      BY <2>4, <3>1, GetRefused
  <2> QED
    BY <2>2, <2>5, <2>6
<1> HIDE DEF T
<1>6. Nat \subseteq T
  BY <1>4, <1>5, NatsIn
<1>7. \A i \in 0 .. k : Piped(o, f[i], a, i)
  BY <1>6 DEF T
<1> QED
  BY <1>1, <1>2, <1>7 DEF b

\* One word, without the pipeline.
OneBatch == <<Do(CMD_EXEC), Read(S1), Get>>

LEMMA OnePlain == PlainSeq(OneBatch)
  BY PlainIs, PlainThree DEF OneBatch

LEMMA OneReads ==
    ASSUME NEW o, NEW a \in Int, NEW u, Primed(o, u, a, "lw")
    PROVE  /\ \A e \in Reach(u, OneBatch) : Keeps(o, u, e, {a}, {FALSE})
           /\ LET d == Done(u, OneBatch) IN ~d.cmderr => d.out = <<o.mem[a]>>
<1> DEFINE v == Access(u, Do(CMD_EXEC))
           w == Access(v, Read(S1))
           x == Access(w, Get)
<1>1. Done(u, OneBatch) = x /\ Reach(u, OneBatch) \subseteq {u, v, w, x}
  BY ReachThree DEF OneBatch
<1>2. /\ Shape(v) /\ v.pb = u.pb /\ ~v.auto /\ v.out = <<>>
      /\ v.touched \subseteq o.touched \cup {a}
      /\ ~v.cmderr => v.gpr[S1] = o.mem[a]
  BY FirstReads
<1>3. u.touched = o.touched /\ ~u.auto /\ Shape(u)
  BY DEF Primed
<1>4. w = Access(v, Read(S1)) /\ x = Access(w, Get)
  OBVIOUS
<1> HIDE DEF v, w, x
<1>5. /\ Still(v, w) /\ w.pb = v.pb /\ w.out = v.out
      /\ ~w.cmderr => ~v.cmderr /\ w.data0 = v.gpr[S1]
  BY <1>2, <1>4, CmdsAre, ReadStill
<1>6. Shape(w) /\ ~w.auto /\ w.touched = v.touched
  BY <1>2, <1>5 DEF Still, Went
<1>7. Still(w, x) /\ x.pb = w.pb /\ x.out = Append(w.out, w.data0) /\ x.cmderr = w.cmderr
  BY <1>4, <1>6, GetStill
<1>8. ~x.auto /\ x.touched = w.touched /\ Shape(x)
  BY <1>6, <1>7 DEF Still, Went
<1>9. \A e \in {u, v, w, x} : Keeps(o, u, e, {a}, {FALSE})
  <2>1. \A e \in {u, v, w, x} : e.touched \subseteq o.touched \cup {a} /\ e.pb = u.pb /\ ~e.auto /\ Shape(e)
    BY <1>2, <1>3, <1>5, <1>6, <1>7, <1>8
  <2> QED
    BY <2>1 DEF Keeps, Shape
<1>10. ASSUME ~x.cmderr PROVE x.out = <<o.mem[a]>>
  <2>1. w.out = <<>> /\ w.data0 = o.mem[a]
    BY <1>2, <1>5, <1>7, <1>10
  <2> QED
    BY <1>7, <2>1, OutOne
<1> QED
  BY <1>1, <1>9, <1>10

LEMMA ReadOne ==
    ASSUME NEW o, Good(o), Both(o), NEW a \in Int, NEW p \in PipeRun(o, a, "lw", OneBatch)
    PROVE  Leaves(o, p, {a}) /\ (~p.err => p.out = <<o.mem[a]>>)
<1> DEFINE z == OneBatch
           x == "lw"
           R == {a}
           V == {FALSE}
<1>1. Stays(o, a, x, z, R, V)
  BY OneReads DEF Stays
<1>2. x \in {"lw", "sw"} /\ PlainSeq(z) /\ FALSE \in V /\ p \in PipeRun(o, a, x, z)
  BY OnePlain
<1>3. \A u : Primed(o, u, a, x) /\ p = Done(u, z) /\ ~p.cmderr => p.out = <<o.mem[a]>>
  BY OneReads
<1>4. V = {FALSE}
  OBVIOUS
<1> HIDE DEF z, x, R, V
<1>5. Piping(o, p, a, x, z, R, V)
  BY <1>1, <1>2, PipeCode
<1>6. Open(o, p, R)
  BY <1>5, WorkOpen DEF Piping
<1> QED
  BY <1>3, <1>4, <1>5, <1>6 DEF Leaves, R, Piping

\* Several words: the pipeline is filled ...
FillRun(o, a, n) == PipeRun(o, a, "lw", FillBatch(n))

LEMMA FillLeaves ==
    ASSUME NEW o, Good(o), Both(o), NEW a \in Int, NEW n \in Nat, NEW p \in FillRun(o, a, n)
    PROVE  /\ Work(o, p, a .. a + 1) /\ (Fit(p) \/ (p.err /\ p.faults > 0))
           /\ ~p.err => ~p.cmderr /\ Piped(o, p, a, 0) /\ (n > 2 => p.auto)
<1> DEFINE z == FillBatch(n)
           x == "lw"
           V == BOOLEAN
           R == a .. a + 1
<1>1. Stays(o, a, x, z, R, V)
  BY FillReads DEF Stays
<1>2. x \in {"lw", "sw"} /\ PlainSeq(z) /\ FALSE \in V /\ p \in PipeRun(o, a, x, z)
  BY FillPlain DEF FillRun
<1>3. ASSUME NEW u, Primed(o, u, a, x), p = Done(u, z) PROVE Piped(o, p, a, 0) /\ (n > 2 => p.auto)
  BY <1>3, FillReads
<1> HIDE DEF z, x, R, V
<1>4. Piping(o, p, a, x, z, R, V)
  BY <1>1, <1>2, PipeCode
<1> QED
  BY <1>3, <1>4 DEF R, Piping

\* ... the words are read ...
Emptied(s) == [s EXCEPT !.out = <<>>]

LEMMA EmptiedIs ==
    ASSUME NEW s, Shape(s)
    PROVE  LET e == Emptied(s)
           IN  /\ Shape(e) /\ e.cache = s.cache /\ e.clobbered = s.clobbered /\ e.progbuf = s.progbuf /\ e.gpr = s.gpr
               /\ e.pb = s.pb /\ e.data0 = s.data0 /\ e.last = s.last /\ e.auto = s.auto /\ e.cmderr = s.cmderr
               /\ e.mem = s.mem /\ e.hart = s.hart /\ e.link = s.link /\ e.faults = s.faults
               /\ e.touched = s.touched /\ e.err = s.err /\ e.out = <<>>
  BY DEF Emptied, Shape, Fields

LEMMA GetsLeaves ==
    ASSUME NEW o, NEW R, NEW a \in Int, NEW k \in Nat, a .. a + k + 1 \subseteq R,
           NEW s, Work(o, s, R), Fit(s), ~s.err, Piped(o, s, a, 0), s.auto,
           NEW p \in DmAccess(Emptied(s), Gets(k))
    PROVE  /\ Work(o, p, R) /\ Fit(p) /\ (p.err => p.faults > 0)
           /\ ~p.err => Piped(o, p, a, k)
<1> DEFINE e == Emptied(s)
           b == Gets(k)
<1>0. Shape(s)
  BY DEF Work
<1>1. /\ Shape(e) /\ e.cache = s.cache /\ e.clobbered = s.clobbered /\ e.progbuf = s.progbuf /\ e.gpr = s.gpr
      /\ e.pb = s.pb /\ e.data0 = s.data0 /\ e.last = s.last /\ e.auto = s.auto /\ e.cmderr = s.cmderr
      /\ e.mem = s.mem /\ e.hart = s.hart /\ e.link = s.link /\ e.faults = s.faults
      /\ e.touched = s.touched /\ e.err = s.err /\ e.out = <<>>
  BY <1>0, EmptiedIs
<1>2. PlainSeq(b)
  BY GetsPlain
<1>3. IsSeq(b) /\ \A i \in 1 .. Len(b) : Plain(b[i])
  BY <1>2 DEF PlainSeq
<1>4. \A t : Piped(o, t, a, 0) /\ (t.auto \/ t.cmderr) =>
               /\ Piped(o, Done(t, b), a, k)
               /\ \A d \in Reach(t, b) : \E i \in 0 .. k : Piped(o, d, a, i)
  BY GetsPiped
<1>5. p \in DmAccess(e, b)
  OBVIOUS
<1> HIDE DEF e, b
<1>6. \A t : Shape(t) => \A d \in Reach(t, b) : Went(t, d) /\ d.hart = t.hart
  BY <1>3, PlainReach
<1>7. PICK t, d : Same(e, t) /\ t.out = e.out /\ DmOutcome(t, b, d, p)
  BY <1>1, <1>3, <1>5, <1>6, DmUp DEF Work
<1>8. IsSeq(<<>>) /\ Len(<<>>) = 0 /\ 1 .. 0 = {}
  BY NothingSeq
<1>9. Piped(o, t, a, 0) /\ t.auto
  <2>1. Shape(t) /\ Reads(t) /\ t.mem = o.mem /\ t.touched = s.touched /\ t.cmderr = s.cmderr /\ t.last = s.last
        /\ t.gpr = s.gpr /\ t.data0 = s.data0 /\ t.auto = s.auto /\ t.out = <<>>
    BY <1>1, <1>7 DEF Same, Piped, Reads
  <2> QED
    BY <1>8, <2>1 DEF Piped
<1>10. d \in Reach(t, b) /\ Alike(d, p) /\ p.progbuf = t.progbuf /\ (p.err => p.faults > 0) /\ (~p.err => p = Done(t, b))
  BY <1>7 DEF DmOutcome
<1>11. Went(t, d) /\ d.hart = t.hart
  BY <1>6, <1>7, <1>10 DEF Same
<1>12. PICK i \in 0 .. k : Piped(o, d, a, i)
  BY <1>4, <1>9, <1>10
<1>13. p.touched \subseteq o.touched \cup R
  <2>1. a .. a + i + 1 \subseteq a .. a + k + 1
    OBVIOUS
  <2>2. d.touched \subseteq o.touched \cup (a .. a + i + 1)
    BY <1>12 DEF Piped
  <2>3. p.touched = d.touched
    BY <1>10 DEF Alike
  <2> QED
    BY <2>1, <2>2, <2>3
<1>14. Work(o, p, R)
  BY <1>1, <1>7, <1>10, <1>11, <1>13 DEF Work, Same, Alike, Went, Host
<1>15. Fit(p)
  <2>1. \A j \in 0 .. 2 : s.pb[j] = p.pb[j]
    <3>1. s.pb[0] = p.pb[0] /\ s.pb[1] = p.pb[1] /\ s.pb[2] = p.pb[2]
      BY <1>10, <1>12 DEF Piped, Reads, Alike
    <3>2. \A j \in 0 .. 2 : j = 0 \/ j = 1 \/ j = 2
      OBVIOUS
    <3> QED
      BY <3>1, <3>2
  <2>2. p.progbuf = s.progbuf
    BY <1>1, <1>7, <1>10 DEF Same
  <2> QED
    BY <2>1, <2>2 DEF Fit, Agrees
<1>16. ~p.err => Piped(o, p, a, k)
  BY <1>4, <1>9, <1>10
<1> QED
  BY <1>10, <1>14, <1>15, <1>16

More(s, n) == IF n > 2 THEN DmAccess(Emptied(s), Gets(n - 2)) ELSE {s}
Filled(o, a, n) == Then(FillRun(o, a, n), LAMBDA s : More(s, n))

LEMMA FilledIs ==
    ASSUME NEW o, NEW a, NEW n, NEW p \in Filled(o, a, n)
    PROVE  \/ p \in FillRun(o, a, n) /\ p.err
           \/ \E s \in FillRun(o, a, n) : ~s.err /\ p \in More(s, n)
  BY DEF Filled, Then

LEMMA FilledLeaves ==
    ASSUME NEW o, Good(o), Both(o), NEW a \in Int, NEW n \in Nat, n >= 2, NEW p \in Filled(o, a, n)
    PROVE  /\ Work(o, p, a .. a + n - 1) /\ (Fit(p) \/ (p.err /\ p.faults > 0))
           /\ ~p.err => Piped(o, p, a, n - 2)
<1> DEFINE R == a .. a + n - 1
<1>1. a .. a + 1 \subseteq R
  OBVIOUS
<1>2. ASSUME NEW s \in FillRun(o, a, n)
      PROVE  /\ Work(o, s, R) /\ (Fit(s) \/ (s.err /\ s.faults > 0))
             /\ ~s.err => ~s.cmderr /\ Piped(o, s, a, 0) /\ (n > 2 => s.auto) /\ Fit(s)
  <2>1. /\ Work(o, s, a .. a + 1) /\ (Fit(s) \/ (s.err /\ s.faults > 0))
        /\ ~s.err => ~s.cmderr /\ Piped(o, s, a, 0) /\ (n > 2 => s.auto)
    BY FillLeaves
  <2>2. Work(o, s, R)
    BY <1>1, <2>1 DEF Work
  <2> QED
    BY <2>1, <2>2
<1>3. ASSUME NEW s \in FillRun(o, a, n), ~s.err, p \in More(s, n)
      PROVE  /\ Work(o, p, R) /\ (Fit(p) \/ (p.err /\ p.faults > 0))
             /\ ~p.err => Piped(o, p, a, n - 2)
  <2>1. CASE n > 2
    <3> DEFINE k == n - 2
    <3>1. k \in Nat /\ a + k + 1 = a + n - 1
      BY <2>1
    <3>2. a .. a + k + 1 \subseteq R
      BY <3>1
    <3>3. p \in DmAccess(Emptied(s), Gets(k))
      BY <1>3, <2>1 DEF More
    <3>4. Work(o, s, R) /\ Fit(s) /\ Piped(o, s, a, 0) /\ s.auto
      BY <1>2, <1>3, <2>1
    <3> HIDE DEF R, k
    <3>5. /\ Work(o, p, R) /\ Fit(p) /\ (p.err => p.faults > 0)
          /\ ~p.err => Piped(o, p, a, k)
      BY <1>3, <3>1, <3>2, <3>3, <3>4, GetsLeaves
    <3> QED
      BY <3>5 DEF k
  <2>2. CASE ~(n > 2)
    <3>1. p = s /\ n - 2 = 0
      BY <1>3, <2>2 DEF More
    <3> QED
      BY <1>2, <1>3, <3>1
  <2> QED
    BY <2>1, <2>2
<1> HIDE DEF R
<1>4. /\ Work(o, p, R) /\ (Fit(p) \/ (p.err /\ p.faults > 0))
      /\ ~p.err => Piped(o, p, a, n - 2)
  BY <1>2, <1>3, FilledIs
<1> QED
  BY <1>4 DEF R

\* ... and the last two are fetched without it.
TailBatch == <<Get, Read(S1), Get>>

LEMMA TailPlain == PlainSeq(TailBatch)
  BY PlainIs, PlainThree DEF TailBatch

LEMMA TailReads ==
    ASSUME NEW s, Shape(s), ~s.auto, IsSeq(s.out), Len(s.out) = 0
    PROVE  /\ \A e \in Reach(s, TailBatch) : Quiet(s, e)
           /\ LET d == Done(s, TailBatch)
              IN  ~d.cmderr => /\ ~s.cmderr /\ IsSeq(d.out) /\ Len(d.out) = 2
                               /\ d.out[1] = s.data0 /\ d.out[2] = s.gpr[S1]
<1> DEFINE t == Access(s, Get)
           u == Access(t, Read(S1))
           x == Access(u, Get)
<1>1. Done(s, TailBatch) = x /\ Reach(s, TailBatch) \subseteq {s, t, u, x}
  BY ReachThree DEF TailBatch
<1>2. t = Access(s, Get) /\ u = Access(t, Read(S1)) /\ x = Access(u, Get)
  OBVIOUS
<1> HIDE DEF t, u, x
<1>3. Quiet(s, t) /\ t.out = Append(s.out, s.data0) /\ t.gpr = s.gpr /\ t.cmderr = s.cmderr
  BY <1>2, GetStill DEF Quiet
<1>4. Shape(t) /\ ~t.auto
  BY <1>3, QuietShape
<1>5. Quiet(t, u) /\ u.out = t.out /\ (~u.cmderr => ~t.cmderr /\ u.data0 = t.gpr[S1])
  BY <1>2, <1>4, CmdsAre, ReadStill DEF Quiet
<1>6. Shape(u) /\ ~u.auto
  BY <1>4, <1>5, QuietShape
<1>7. Quiet(u, x) /\ x.out = Append(u.out, u.data0) /\ x.cmderr = u.cmderr
  BY <1>2, <1>6, GetStill DEF Quiet
<1>8. Quiet(s, s) /\ Quiet(s, u)
  BY <1>3, <1>5, QuietTrans, QuietSame
<1>9. Quiet(s, x)
  BY <1>7, <1>8, QuietTrans
<1>10. ASSUME ~x.cmderr
       PROVE  /\ ~s.cmderr /\ IsSeq(x.out) /\ Len(x.out) = 2
              /\ x.out[1] = s.data0 /\ x.out[2] = s.gpr[S1]
  <2>1. ~s.cmderr /\ u.out = t.out /\ u.data0 = s.gpr[S1]
    BY <1>3, <1>5, <1>7, <1>10
  <2>2. IsSeq(t.out) /\ Len(t.out) = Len(s.out) + 1 /\ t.out[Len(s.out) + 1] = s.data0
    BY <1>3, AppendSeq
  <2>3. IsSeq(u.out) /\ Len(u.out) = 1 /\ u.out[1] = s.data0
    BY <2>1, <2>2
  <2>4. /\ IsSeq(x.out) /\ Len(x.out) = Len(u.out) + 1
        /\ \A i \in 1 .. Len(u.out) : x.out[i] = u.out[i]
        /\ x.out[Len(u.out) + 1] = u.data0
    BY <1>7, <2>3, AppendSeq
  <2>5. IsSeq(x.out) /\ Len(x.out) = 2 /\ x.out[1] = s.data0 /\ x.out[2] = s.gpr[S1]
    BY <2>1, <2>3, <2>4
  <2> QED
    BY <2>1, <2>5
<1> QED
  BY <1>1, <1>3, <1>8, <1>9, <1>10

LEMMA TailLeaves ==
    ASSUME NEW o, Good(o), NEW p \in Run(o, TailBatch)
    PROVE  /\ Leaves(o, p, {})
           /\ ~p.err => /\ ~o.cmderr /\ IsSeq(p.out) /\ Len(p.out) = 2
                        /\ p.out[1] = o.data0 /\ p.out[2] = o.gpr[S1]
<1> DEFINE B == TailBatch
<1>1. PICK s, d : Same(o, s) /\ s.out = <<>> /\ RunOutcome(s, B, d, p)
  BY TailPlain, RunUp DEF Good
<1>2. Shape(s) /\ ~s.auto /\ s.gpr = o.gpr /\ s.data0 = o.data0 /\ s.cmderr = o.cmderr
  BY <1>1 DEF Same, Good
<1>3. /\ \A e \in Reach(s, B) : Quiet(s, e)
      /\ ~Done(s, B).cmderr => /\ ~s.cmderr /\ IsSeq(Done(s, B).out) /\ Len(Done(s, B).out) = 2
                               /\ Done(s, B).out[1] = s.data0 /\ Done(s, B).out[2] = s.gpr[S1]
  <2>1. IsSeq(s.out) /\ Len(s.out) = 0
    BY <1>1, NothingSeq
  <2> QED
    BY <1>2, <2>1, TailReads
<1> HIDE DEF B
<1>4. Quiet(s, d)
  BY <1>1, <1>3 DEF RunOutcome
<1>5. Leaves(o, p, {})
  BY <1>1, <1>4, QuietLeaves
<1>6. ASSUME ~p.err PROVE p = Done(s, B) /\ ~Done(s, B).cmderr
  BY <1>1, <1>6 DEF RunOutcome
<1> QED
  BY <1>2, <1>3, <1>5, <1>6

\* The words of a .. a + n - 1.
WordsOf(f, a, n) == [i \in 1 .. n |-> f[a + i - 1]]
Joined(s, r) == [r EXCEPT !.out = s.out \o @]
Tail2(s) == {Joined(s, r) : r \in Run(s, TailBatch)}
Many(o, a, n) == Then(Finally(Filled(o, a, n)), Tail2)

LEMMA ManyIs ==
    ASSUME NEW o, NEW a, NEW n, NEW p \in Many(o, a, n)
    PROVE  \/ p \in Finally(Filled(o, a, n)) /\ p.err
           \/ \E q \in Finally(Filled(o, a, n)) : ~q.err /\ \E r \in Run(q, TailBatch) : p = Joined(q, r)
  BY DEF Many, Then, Tail2

\* Before the last two.
LEMMA EndedLeaves ==
    ASSUME NEW o, Good(o), Both(o), NEW a \in Int, NEW n \in Nat, n >= 2, NEW q \in Finally(Filled(o, a, n))
    PROVE  /\ Leaves(o, q, a .. a + n - 1)
           /\ ~q.err => /\ ~q.cmderr => /\ IsSeq(q.out) /\ Len(q.out) = n - 2
                                        /\ \A j \in 1 .. n - 2 : q.out[j] = o.mem[a + j - 1]
                                        /\ q.data0 = o.mem[a + n - 2] /\ q.gpr[S1] = o.mem[a + n - 1]
                        /\ q.mem = o.mem
<1>1. PICK f \in Filled(o, a, n) : \E r \in Off(f) : q = Ended(f, r)
  BY FinallyIs
<1>2. PICK r \in Off(f) : q = Ended(f, r)
  BY <1>1
<1> DEFINE R == a .. a + n - 1
<1>3. /\ Work(o, f, R) /\ (Fit(f) \/ (f.err /\ f.faults > 0))
      /\ ~f.err => Piped(o, f, a, n - 2)
  BY FilledLeaves
<1> HIDE DEF R
<1>4. /\ Leaves(o, q, R)
      /\ ~q.err => /\ ~f.err /\ q.data0 = f.data0 /\ q.cmderr = f.cmderr /\ q.out = f.out /\ q.mem = f.mem
                   /\ q.gpr = f.gpr /\ Both(q)
  BY <1>2, <1>3, FinallyLeaves
<1>5. ASSUME ~q.err
      PROVE  /\ ~q.cmderr => /\ IsSeq(q.out) /\ Len(q.out) = n - 2
                             /\ \A j \in 1 .. n - 2 : q.out[j] = o.mem[a + j - 1]
                             /\ q.data0 = o.mem[a + n - 2] /\ q.gpr[S1] = o.mem[a + n - 1]
             /\ q.mem = o.mem
  <2>1. Piped(o, f, a, n - 2)
    BY <1>3, <1>4, <1>5
  <2>2. a + (n - 2) = a + n - 2 /\ a + (n - 2) + 1 = a + n - 1
    OBVIOUS
  <2>3. /\ f.mem = o.mem
        /\ ~f.cmderr => /\ f.gpr[S1] = o.mem[a + n - 1] /\ f.data0 = o.mem[a + n - 2]
                        /\ IsSeq(f.out) /\ Len(f.out) = n - 2 /\ \A j \in 1 .. n - 2 : f.out[j] = o.mem[a + j - 1]
    BY <2>1, <2>2 DEF Piped
  <2> QED
    BY <1>4, <1>5, <2>3
<1> QED
  BY <1>4, <1>5 DEF R

Joins(s, t, c) ==
    /\ IsSeq(c) /\ Len(c) = Len(s) + Len(t)
    /\ \A i \in 1 .. Len(s) : c[i] = s[i]
    /\ Len(t) = 2 => c[Len(s) + 1] = t[1] /\ c[Len(s) + 2] = t[2]

LEMMA JoinSeq ==
    ASSUME NEW s, NEW t, IsSeq(s), IsSeq(t), NEW c, c = s \o t
    PROVE  Joins(s, t, c)
<1>1. /\ IsSeq(c) /\ Len(c) = Len(s) + Len(t)
      /\ \A i \in 1 .. Len(s) : c[i] = s[i]
      /\ \A i \in 1 .. Len(t) : c[Len(s) + i] = t[i]
  BY ConcatSeq
<1>2. ASSUME Len(t) = 2 PROVE c[Len(s) + 1] = t[1] /\ c[Len(s) + 2] = t[2]
  <2>1. 1 \in 1 .. Len(t) /\ 2 \in 1 .. Len(t)
    BY <1>2
  <2> QED
    BY <1>1, <2>1, Zenon
<1> QED
  BY <1>1, <1>2 DEF Joins

\* All of them, one after the other.
LEMMA WordsJoin ==
    ASSUME NEW f, NEW a \in Int, NEW n \in Nat, n >= 2, NEW s, NEW t, Len(s) = n - 2, Len(t) = 2,
           \A j \in 1 .. n - 2 : s[j] = f[a + j - 1], t[1] = f[a + n - 2], t[2] = f[a + n - 1],
           NEW c, Joins(s, t, c)
    PROVE  c = WordsOf(f, a, n)
<1> DEFINE w == WordsOf(f, a, n)
<1>1. w = [i \in 1 .. n |-> f[a + i - 1]]
  BY DEF WordsOf
<1>2. /\ IsSeq(c) /\ Len(c) = Len(s) + Len(t)
      /\ \A i \in 1 .. Len(s) : c[i] = s[i]
      /\ Len(t) = 2 => c[Len(s) + 1] = t[1] /\ c[Len(s) + 2] = t[2]
  BY DEF Joins
<1> HIDE DEF w
<1>3. w = [i \in 1 .. n |-> w[i]] /\ \A i \in 1 .. n : w[i] = f[a + i - 1]
  BY <1>1
<1>4. IsSeq(w) /\ Len(w) = n
  BY <1>3, FunSeq
<1>5. Len(c) = n /\ (\A i \in 1 .. n - 2 : c[i] = s[i]) /\ c[n - 1] = t[1] /\ c[n] = t[2]
  BY <1>2
<1>6. ASSUME NEW i \in 1 .. n PROVE c[i] = w[i]
  <2>1. CASE i \in 1 .. n - 2
    BY <1>3, <1>5, <2>1
  <2>2. CASE i = n - 1
    <3>1. w[i] = f[a + n - 2]
      BY <1>3, <2>2
    <3> QED
      BY <1>5, <2>2, <3>1
  <2>3. CASE i = n
    <3>1. w[i] = f[a + n - 1]
      BY <1>3, <2>3
    <3> QED
      BY <1>5, <2>3, <3>1
  <2> QED
    BY <2>1, <2>2, <2>3
<1>7. c = w
  BY <1>2, <1>4, <1>5, <1>6, SameSeq
<1> QED
  BY <1>7 DEF w

LEMMA OutIs ==
    ASSUME NEW r, Shape(r), NEW x, NEW p, p = [r EXCEPT !.out = x]
    PROVE  /\ Shape(p) /\ p.cache = r.cache /\ p.clobbered = r.clobbered /\ p.progbuf = r.progbuf /\ p.gpr = r.gpr
           /\ p.pb = r.pb /\ p.auto = r.auto /\ p.hart = r.hart /\ p.link = r.link /\ p.faults = r.faults
           /\ p.touched = r.touched /\ p.err = r.err /\ p.out = x
<1>1. /\ p.cache = r.cache /\ p.clobbered = r.clobbered /\ p.progbuf = r.progbuf /\ p.gpr = r.gpr
      /\ p.pb = r.pb /\ p.auto = r.auto /\ p.hart = r.hart /\ p.link = r.link /\ p.faults = r.faults
      /\ p.touched = r.touched /\ p.err = r.err /\ p.out = x /\ p.mem = r.mem /\ p.cmderr = r.cmderr /\ DOMAIN p = DOMAIN r
  BY DEF Shape, Fields
<1> QED
  BY <1>1 DEF Shape

LEMMA SeenSame ==
    ASSUME NEW p, NEW r, p.cache = r.cache, p.clobbered = r.clobbered, p.gpr = r.gpr
    PROVE  Visible(p) = Visible(r)
<1>1. ASSUME NEW q \in Regs PROVE Visible(p)[q] = Visible(r)[q]
  BY OneVisible DEF Spare
<1> QED
  BY <1>1, VisibleSame

LEMMA OutLeaves ==
    ASSUME NEW o, NEW r, NEW R, Leaves(o, r, R), NEW x, NEW p, p = [r EXCEPT !.out = x]
    PROVE  Leaves(o, p, R) /\ p.err = r.err /\ p.out = x
<1>1. Shape(r)
  BY DEF Leaves, Open, Holds
<1>2. /\ Shape(p) /\ p.cache = r.cache /\ p.clobbered = r.clobbered /\ p.progbuf = r.progbuf /\ p.gpr = r.gpr
      /\ p.pb = r.pb /\ p.auto = r.auto /\ p.hart = r.hart /\ p.link = r.link /\ p.faults = r.faults
      /\ p.touched = r.touched /\ p.err = r.err /\ p.out = x
  BY <1>1, OutIs
<1>3. Visible(p) = Visible(r)
  BY <1>2, SeenSame
<1>4. CacheOk(p) <=> CacheOk(r)
  BY <1>2, Zenon DEF CacheOk
<1>5. Known(p) <=> Known(r)
  BY <1>2, <1>4, Zenon DEF Known, Agrees
<1> QED
  BY <1>2, <1>3, <1>4, <1>5 DEF Leaves, Open, Holds

LEMMA ManyLeaves ==
    ASSUME NEW o, Good(o), Both(o), NEW a \in Int, NEW n \in Nat, n >= 2, NEW p \in Many(o, a, n)
    PROVE  Leaves(o, p, a .. a + n - 1) /\ (~p.err => p.out = WordsOf(o.mem, a, n))
<1> DEFINE R == a .. a + n - 1
<1>1. ASSUME NEW q \in Finally(Filled(o, a, n))
      PROVE  /\ Leaves(o, q, R)
             /\ ~q.err => /\ ~q.cmderr => /\ IsSeq(q.out) /\ Len(q.out) = n - 2
                                          /\ \A j \in 1 .. n - 2 : q.out[j] = o.mem[a + j - 1]
                                          /\ q.data0 = o.mem[a + n - 2] /\ q.gpr[S1] = o.mem[a + n - 1]
                          /\ q.mem = o.mem
  BY EndedLeaves
<1>2. ASSUME NEW q \in Finally(Filled(o, a, n)), ~q.err, NEW r \in Run(q, TailBatch), p = Joined(q, r)
      PROVE  Leaves(o, p, R) /\ (~p.err => p.out = WordsOf(o.mem, a, n))
  <2>1. Leaves(o, q, R) /\ Good(q)
    BY <1>1, <1>2, LeavesGood
  <2>2. /\ Leaves(q, r, {})
        /\ ~r.err => /\ ~q.cmderr /\ IsSeq(r.out) /\ Len(r.out) = 2
                     /\ r.out[1] = q.data0 /\ r.out[2] = q.gpr[S1]
    BY <1>2, <2>1, TailLeaves
  <2> DEFINE x == q.out \o r.out
  <2>3. p = [r EXCEPT !.out = x]
    BY <1>2 DEF Joined
  <2> HIDE DEF x
  <2>4. R \subseteq R /\ {} \subseteq R
    OBVIOUS
  <2> HIDE DEF R
  <2>5. Leaves(o, r, R)
    BY <2>1, <2>2, <2>4, LeavesTrans
  <2>6. Leaves(o, p, R) /\ p.err = r.err /\ p.out = x
    BY <2>3, <2>5, OutLeaves
  <2>7. ASSUME ~r.err PROVE x = WordsOf(o.mem, a, n)
    <3> DEFINE s == q.out
               t == r.out
               f == o.mem
    <3>1. /\ IsSeq(s) /\ Len(s) = n - 2 /\ (\A j \in 1 .. n - 2 : s[j] = f[a + j - 1])
          /\ IsSeq(t) /\ Len(t) = 2 /\ t[1] = f[a + n - 2] /\ t[2] = f[a + n - 1]
      BY <1>1, <1>2, <2>2, <2>7
    <3>2. x = s \o t
      BY DEF x
    <3> HIDE DEF s, t, f
    <3>3. Joins(s, t, x)
      BY <3>1, <3>2, JoinSeq
    <3>4. x = WordsOf(f, a, n)
      BY <3>1, <3>3, WordsJoin
    <3> QED
      BY <3>4 DEF f
  <2> QED
    BY <2>6, <2>7
<1> HIDE DEF R
<1>3. Leaves(o, p, R) /\ (~p.err => p.out = WordsOf(o.mem, a, n))
  BY <1>1, <1>2, ManyIs
<1> QED
  BY <1>3 DEF R

\* Whatever the host believed.
LEMMA PlainIsWent ==
    ASSUME NEW b, PlainSeq(b)
    PROVE  IsSeq(b) /\ \A s : Shape(s) => \A d \in Reach(s, b) : Went(s, d)
  BY PlainReach DEF PlainSeq

LEMMA StartPlain == ASSUME NEW a PROVE PlainSeq(StartBatch(a))
  BY PlainIs, PlainTwo DEF StartBatch

LEMMA PipeLater ==
    ASSUME NEW o, Shape(o), ~o.err, NEW a, NEW x, NEW z, PlainSeq(z), NEW p \in PipeRun(o, a, x, z)
    PROVE  Later(o, p)
<1>1. PlainSeq(StartBatch(a)) /\ PlainSeq(Load(o, <<x, "addi">>))
  BY StartPlain, LoadPlain
<1>2. p \in RunCode(o, StartBatch(a), <<x, "addi">>, z)
  BY DEF PipeRun
<1> QED
  BY <1>1, <1>2, RunCodeLater

LEMMA FilledLater ==
    ASSUME NEW o, Shape(o), ~o.err, NEW a, NEW n \in Nat, NEW p \in Filled(o, a, n)
    PROVE  Later(o, p)
<1>1. ASSUME NEW s \in FillRun(o, a, n) PROVE Later(o, s)
  <2>1. s \in PipeRun(o, a, "lw", FillBatch(n)) /\ PlainSeq(FillBatch(n))
    BY FillPlain DEF FillRun
  <2> QED
    BY <2>1, PipeLater
<1>2. ASSUME NEW s \in FillRun(o, a, n), ~s.err, p \in More(s, n) PROVE Later(o, p)
  <2>1. Later(o, s) /\ Shape(s)
    BY <1>1 DEF Later
  <2>2. CASE n > 2
    <3> DEFINE e == Emptied(s)
               b == Gets(n - 2)
    <3>1. Later(s, e) /\ e.err = s.err
      BY <2>1, OutLater DEF Emptied
    <3>2. p \in DmAccess(e, b)
      BY <1>2, <2>2 DEF More
    <3>3. n - 2 \in Nat
      BY <2>2
    <3>4. PlainSeq(b)
      BY <3>3, GetsPlain
    <3> HIDE DEF e, b
    <3>5. Shape(e) /\ ~e.err
      BY <1>2, <3>1 DEF Later
    <3>6. IsSeq(b) /\ \A t : Shape(t) => \A d \in Reach(t, b) : Went(t, d)
      BY <3>4, PlainIsWent
    <3>7. Later(e, p)
      BY <3>2, <3>5, <3>6, DmLater
    <3>8. Later(s, p)
      BY <2>1, <3>1, <3>7, LaterTrans
    <3> QED
      BY <2>1, <3>8, LaterTrans
  <2>3. CASE ~(n > 2)
    <3>1. p = s
      BY <1>2, <2>3 DEF More
    <3> QED
      BY <2>1, <3>1
  <2> QED
    BY <2>2, <2>3
<1> QED
  BY <1>1, <1>2, FilledIs

LEMMA FinallyOf ==
    ASSUME NEW o, Shape(o), NEW D, \A q \in D : Later(o, q), NEW p \in Finally(D)
    PROVE  Later(o, p)
<1>1. PICK q \in D : \E r \in Off(q) : p = Ended(q, r)
  BY FinallyIs
<1>2. PICK r \in Off(q) : p = Ended(q, r)
  BY <1>1
<1>3. Later(o, q) /\ Shape(q)
  BY DEF Later
<1>4. Later(q, p)
  BY <1>2, <1>3, FinallyLater
<1> QED
  BY <1>3, <1>4, LaterTrans

LEMMA ManyLater ==
    ASSUME NEW o, Shape(o), ~o.err, NEW a, NEW n \in Nat, NEW p \in Many(o, a, n)
    PROVE  Later(o, p)
<1> DEFINE D == Filled(o, a, n)
<1>1. \A q \in D : Later(o, q)
  BY FilledLater
<1>2. \/ p \in Finally(D) /\ p.err
      \/ \E q \in Finally(D) : ~q.err /\ \E r \in Run(q, TailBatch) : p = Joined(q, r)
  BY ManyIs
<1> HIDE DEF D
<1>3. ASSUME NEW q \in Finally(D) PROVE Later(o, q)
  BY <1>1, FinallyOf
<1>4. ASSUME NEW q \in Finally(D), ~q.err, NEW r \in Run(q, TailBatch), p = Joined(q, r)
      PROVE  Later(o, p)
  <2>1. Later(o, q) /\ Shape(q)
    BY <1>3 DEF Later
  <2>2. Later(q, r) /\ Shape(r)
    <3>1. Later(q, r)
      BY <1>4, <2>1, TailPlain, RunLater
    <3> QED
      BY <3>1 DEF Later
  <2>3. Later(r, p)
    BY <1>4, <2>2, OutLater DEF Joined
  <2>4. Later(q, p)
    BY <2>1, <2>2, <2>3, LaterTrans
  <2> QED
    BY <2>1, <2>4, LaterTrans
<1> QED
  BY <1>2, <1>3, <1>4

\* _pb_read_words.
ReadPart(s, a, n) == IF n = 1 THEN PipeRun(s, a, "lw", OneBatch) ELSE Many(s, a, n)

LEMMA ReadWordsIs ==
    ASSUME NEW o, NEW a, NEW n, NEW p \in PbReadWords(o, a, n)
    PROVE  \/ p \in Scratch(o, {S0, S1}) /\ p.err
           \/ \E s \in Scratch(o, {S0, S1}) : ~s.err /\ p \in ReadPart(s, a, n)
<1>1. PbReadWords(o, a, n) = Then(Scratch(o, {S0, S1}), LAMBDA s : ReadPart(s, a, n))
  BY Zenon DEF PbReadWords, ReadPart, PipeRun, OneBatch, Many, Tail2, Joined, Filled, FillRun, FillBatch, More,
               Emptied, Gets, TailBatch, StartBatch, RD
<1> QED
  BY <1>1 DEF Then

LEMMA ReadWordsLater ==
    ASSUME NEW o, Shape(o), ~o.err, NEW a, NEW n \in Nat, NEW p \in PbReadWords(o, a, n)
    PROVE  Later(o, p)
<1>1. ASSUME NEW s \in Scratch(o, {S0, S1}), ~s.err, p \in ReadPart(s, a, n) PROVE Later(o, p)
  <2>1. Later(o, s)
    BY <1>1, ScratchLater
  <2>2. Shape(s)
    BY <2>1 DEF Later
  <2>3. CASE n = 1
    <3>1. p \in PipeRun(s, a, "lw", OneBatch)
      BY <1>1, <2>3 DEF ReadPart
    <3>2. Later(s, p)
      BY <1>1, <2>2, <3>1, OnePlain, PipeLater
    <3> QED
      BY <2>1, <3>2, LaterTrans
  <2>4. CASE n # 1
    <3>1. p \in Many(s, a, n)
      BY <1>1, <2>4 DEF ReadPart
    <3>2. Later(s, p)
      BY <1>1, <2>2, <3>1, ManyLater
    <3> QED
      BY <2>1, <3>2, LaterTrans
  <2> QED
    BY <2>3, <2>4
<1> QED
  BY <1>1, ReadWordsIs, ScratchLater

LEMMA OneWord ==
    ASSUME NEW f, NEW a \in Int
    PROVE  <<f[a]>> = WordsOf(f, a, 1)
<1> DEFINE w == WordsOf(f, a, 1)
           x == f[a]
           s == <<x>>
<1>1. w = [i \in 1 .. 1 |-> f[a + i - 1]]
  BY DEF WordsOf
<1>2. w = [i \in 1 .. 1 |-> w[i]] /\ w[1] = x
  BY <1>1
<1>3. IsSeq(s) /\ Len(s) = 1 /\ s[1] = x
  BY SingleSeq
<1> HIDE DEF w, x, s
<1>4. IsSeq(w) /\ Len(w) = 1
  BY <1>2, FunSeq
<1>5. \A i \in 1 .. Len(s) : s[i] = w[i]
  BY <1>2, <1>3
<1>6. s = w
  BY <1>3, <1>4, <1>5, SameSeq
<1> QED
  BY <1>6 DEF s, x, w

LEMMA ReadPartLeaves ==
    ASSUME NEW o, Good(o), Both(o), NEW a \in Int, NEW n \in Nat \ {0}, NEW p \in ReadPart(o, a, n)
    PROVE  Leaves(o, p, a .. a + n - 1) /\ (~p.err => p.out = WordsOf(o.mem, a, n))
<1>1. CASE n = 1
  <2>1. p \in PipeRun(o, a, "lw", OneBatch)
    BY <1>1 DEF ReadPart
  <2>2. Leaves(o, p, {a}) /\ (~p.err => p.out = <<o.mem[a]>>)
    BY <2>1, ReadOne
  <2>3. a .. a + n - 1 = {a}
    BY <1>1
  <2>4. ~p.err => p.out = WordsOf(o.mem, a, n)
    BY <1>1, <2>2, OneWord
  <2> QED
    BY <2>2, <2>3, <2>4
<1>2. CASE n # 1
  <2>1. p \in Many(o, a, n) /\ n >= 2 /\ n \in Nat
    BY <1>2 DEF ReadPart
  <2> QED
    BY <2>1, ManyLeaves
<1> QED
  BY <1>1, <1>2

LEMMA ScratchBoth ==
    ASSUME NEW o, Good(o), NEW s \in Scratch(o, {S0, S1})
    PROVE  Leaves(o, s, {}) /\ (~s.err => Good(s) /\ Both(s) /\ s.mem = o.mem)
<1> DEFINE R == {S0, S1}
<1>1. S0 \in R /\ S1 \in R
  OBVIOUS
<1>2. s \in Scratch(o, R)
  OBVIOUS
<1> HIDE DEF R
<1>3. Leaves(o, s, {}) /\ (~s.err => s.mem = o.mem /\ \A r \in R : Spare(s, r))
  BY <1>2, ScratchLeaves
<1> QED
  BY <1>1, <1>3, LeavesGood DEF Both

LEMMA ReadWordsLeaves ==
    ASSUME NEW o, Good(o), NEW a \in Int, NEW n \in Nat \ {0}, NEW p \in PbReadWords(o, a, n)
    PROVE  Leaves(o, p, a .. a + n - 1) /\ (~p.err => p.out = WordsOf(o.mem, a, n))
<1> DEFINE R == a .. a + n - 1
<1>1. {} \subseteq R /\ R \subseteq R
  OBVIOUS
<1>2. ASSUME NEW s \in Scratch(o, {S0, S1}), p = s, p.err
      PROVE  Leaves(o, p, R) /\ (~p.err => p.out = WordsOf(o.mem, a, n))
  <2>1. Leaves(o, p, {}) /\ Leaves(o, o, {})
    BY <1>2, ScratchBoth, LeavesSame
  <2> HIDE DEF R
  <2>2. Leaves(o, p, R)
    BY <2>1, <1>1, LeavesTrans
  <2> QED
    BY <1>2, <2>2
<1>3. ASSUME NEW s \in Scratch(o, {S0, S1}), ~s.err, p \in ReadPart(s, a, n)
      PROVE  Leaves(o, p, R) /\ (~p.err => p.out = WordsOf(o.mem, a, n))
  <2>1. Leaves(o, s, {}) /\ Good(s) /\ Both(s) /\ s.mem = o.mem
    BY <1>3, ScratchBoth
  <2>2. Leaves(s, p, R) /\ (~p.err => p.out = WordsOf(s.mem, a, n))
    BY <1>3, <2>1, ReadPartLeaves
  <2> HIDE DEF R
  <2>3. Leaves(o, p, R)
    BY <2>1, <2>2, <1>1, LeavesTrans
  <2> QED
    BY <2>1, <2>2, <2>3
<1> HIDE DEF R
<1>4. Leaves(o, p, R) /\ (~p.err => p.out = WordsOf(o.mem, a, n))
  BY <1>2, <1>3, ReadWordsIs
<1> QED
  BY <1>4 DEF R

\* read_words, which asks for DMSTATUS first.
Reading(o, a, n) == WhenHalted(o, LAMBDA s : PbReadWords(s, a, n))

LEMMA ReadingIs ==
    ASSUME NEW o, NEW a, NEW n, NEW p \in Reading(o, a, n)
    PROVE  \/ p \in DmAccess(o, <<>>) /\ p.err
           \/ \E s \in DmAccess(o, <<>>) : ~s.err /\ p \in PbReadWords(s, a, n)
  BY DEF Reading, WhenHalted, Then

LEMMA ReadingLater ==
    ASSUME NEW o, Shape(o), ~o.err, NEW a, NEW n \in Nat, NEW p \in Reading(o, a, n)
    PROVE  Later(o, p)
<1>1. ASSUME NEW s \in DmAccess(o, <<>>), ~s.err, p \in PbReadWords(s, a, n) PROVE Later(o, p)
  <2>1. Later(o, s)
    BY NoneLater
  <2>2. Shape(s)
    BY <2>1 DEF Later
  <2>3. Later(s, p)
    BY <1>1, <2>2, ReadWordsLater
  <2> QED
    BY <2>1, <2>3, LaterTrans
<1> QED
  BY <1>1, ReadingIs, NoneLater

LEMMA ReadingLeaves ==
    ASSUME NEW o, Good(o), NEW a \in Int, NEW n \in Nat \ {0}, NEW p \in Reading(o, a, n)
    PROVE  Leaves(o, p, a .. a + n - 1) /\ (~p.err => p.out = WordsOf(o.mem, a, n))
<1> DEFINE R == a .. a + n - 1
<1>1. {} \subseteq R /\ R \subseteq R
  OBVIOUS
<1>2. ASSUME p \in DmAccess(o, <<>>), p.err
      PROVE  Leaves(o, p, R) /\ (~p.err => p.out = WordsOf(o.mem, a, n))
  <2>1. Leaves(o, p, {}) /\ Leaves(o, o, {})
    BY <1>2, NoneLeaves, LeavesSame
  <2> HIDE DEF R
  <2>2. Leaves(o, p, R)
    BY <2>1, <1>1, LeavesTrans
  <2> QED
    BY <1>2, <2>2
<1>3. ASSUME NEW s \in DmAccess(o, <<>>), ~s.err, p \in PbReadWords(s, a, n)
      PROVE  Leaves(o, p, R) /\ (~p.err => p.out = WordsOf(o.mem, a, n))
  <2>1. Leaves(o, s, {}) /\ s.mem = o.mem
    BY <1>3, NoneLeaves
  <2>2. Good(s)
    BY <1>3, <2>1, LeavesGood
  <2>3. Leaves(s, p, R) /\ (~p.err => p.out = WordsOf(s.mem, a, n))
    BY <1>3, <2>2, ReadWordsLeaves
  <2> HIDE DEF R
  <2>4. Leaves(o, p, R)
    BY <2>1, <2>3, <1>1, LeavesTrans
  <2> QED
    BY <2>1, <2>3, <2>4
<1> HIDE DEF R
<1>4. Leaves(o, p, R) /\ (~p.err => p.out = WordsOf(o.mem, a, n))
  BY <1>2, <1>3, ReadingIs
<1> QED
  BY <1>4 DEF R

\* Memory with the first i of the words ws at a.
Stored(f, a, ws, i) == [x \in Memory |-> IF x \in a .. a + i - 1 THEN ws[x - a + 1] ELSE f[x]]

StoreAt(g, x, y) == [g EXCEPT ![x] = y]

LEMMA StoredNext ==
    ASSUME NEW f, NEW a \in Int, NEW ws, NEW i \in Nat, NEW v, v = ws[i + 1]
    PROVE  StoreAt(Stored(f, a, ws, i), a + i, v) = Stored(f, a, ws, i + 1)
<1> DEFINE g == Stored(f, a, ws, i)
           h == Stored(f, a, ws, i + 1)
           e == [g EXCEPT ![a + i] = v]
<1>1. g = [x \in Memory |-> g[x]] /\ \A x \in Memory : g[x] = IF x \in a .. a + i - 1 THEN ws[x - a + 1] ELSE f[x]
  BY DEF Stored
<1>2. h = [x \in Memory |-> h[x]] /\ \A x \in Memory : h[x] = IF x \in a .. a + i THEN ws[x - a + 1] ELSE f[x]
  <2>1. a + (i + 1) - 1 = a + i
    OBVIOUS
  <2> QED
    BY <2>1 DEF Stored
<1> HIDE DEF g, h
<1>3. e = [x \in Memory |-> e[x]] /\ \A x \in Memory : e[x] = IF x = a + i THEN v ELSE g[x]
  BY <1>1, FunExcept
<1> HIDE DEF e
<1>4. ASSUME NEW x \in Memory PROVE e[x] = h[x]
  <2>0. x \in Int
    BY TopAssumption DEF Memory
  <2>1. CASE x = a + i
    <3>1. x \in a .. a + i /\ x - a + 1 = i + 1
      BY <2>1
    <3> QED
      BY <1>2, <1>3, <2>1, <3>1
  <2>2. CASE x # a + i
    <3>1. (x \in a .. a + i) <=> (x \in a .. a + i - 1)
      BY <2>0, <2>2
    <3>2. e[x] = g[x]
      BY <1>3, <2>2
    <3> QED
      BY <1>1, <1>2, <3>1, <3>2
  <2> QED
    BY <2>1, <2>2
<1>5. [x \in Memory |-> e[x]] = [x \in Memory |-> h[x]]
  BY <1>4
<1>6. e = h
  BY <1>2, <1>3, <1>5
<1> QED
  BY <1>6 DEF e, g, h, StoreAt

LEMMA StoredNone ==
    ASSUME NEW f, f = [x \in Memory |-> f[x]], NEW a \in Int, NEW ws
    PROVE  Stored(f, a, ws, 0) = f
<1> DEFINE h == Stored(f, a, ws, 0)
<1>1. h = [x \in Memory |-> h[x]] /\ \A x \in Memory : h[x] = IF x \in a .. a + 0 - 1 THEN ws[x - a + 1] ELSE f[x]
  BY DEF Stored
<1>2. a .. a + 0 - 1 = {}
  OBVIOUS
<1> HIDE DEF h
<1>3. \A x \in Memory : h[x] = f[x]
  BY <1>1, <1>2
<1>4. [x \in Memory |-> h[x]] = [x \in Memory |-> f[x]]
  BY <1>3
<1>5. h = f
  BY <1>1, <1>4
<1> QED
  BY <1>5 DEF h

\* The pipeline with i words stored.
Stores(o, t, a, ws, i) ==
    /\ Shape(t) /\ Writes(t) /\ t.touched \subseteq o.touched \cup (a .. a + i - 1)
    /\ ~t.cmderr => t.last = WR /\ t.gpr[S0] = a + i /\ t.mem = Stored(o.mem, a, ws, i)

\* One command of it.
Fed(o, v, a, ws, i) ==
    /\ Shape(v) /\ Writes(v) /\ v.touched \subseteq o.touched \cup (a .. a + i - 1)
    /\ ~v.cmderr => v.gpr[S0] = a + i /\ v.mem = Stored(o.mem, a, ws, i) /\ v.data0 = ws[i + 1]

LEMMA SwStores ==
    ASSUME NEW o, NEW a \in Int, NEW ws, NEW i \in Nat, NEW v, Fed(o, v, a, ws, i),
           NEW u, u = Command(v, WR)
    PROVE  Stores(o, u, a, ws, i + 1) /\ u.auto = v.auto /\ u.pb = v.pb
<1>1. /\ Kept(v, u)
      /\ \/ u.cmderr /\ u.touched = v.touched
         \/ /\ ~u.cmderr /\ ~v.cmderr /\ u.touched = v.touched \cup {v.gpr[S0]} /\ u.last = WR
            /\ u.gpr[S0] = v.gpr[S0] + 1 /\ u.mem = [v.mem EXCEPT ![v.gpr[S0]] = v.data0]
  <2>1. Shape(v) /\ Writes(v)
    BY DEF Fed
  <2>2. WR.exec /\ WR.move = "write" /\ WR.reg = S1
    BY CmdsAre
  <2> QED
    BY <2>1, <2>2, SwExec
<1>2. Shape(u) /\ Writes(u) /\ u.auto = v.auto /\ u.pb = v.pb
  BY <1>1 DEF Kept, Went, Writes, Fed
<1>3. a + (i + 1) - 1 = a + i /\ a + i + 1 = a + (i + 1) /\ a .. a + i - 1 \subseteq a .. a + i /\ a + i \in a .. a + i
  OBVIOUS
<1>4. u.touched \subseteq o.touched \cup (a .. a + i)
  <2>0. v.touched \subseteq o.touched \cup (a .. a + i - 1)
    BY DEF Fed
  <2>1. CASE u.cmderr
    BY <1>1, <1>3, <2>0, <2>1
  <2>2. CASE ~u.cmderr
    <3>1. u.touched = v.touched \cup {a + i}
      BY <1>1, <2>2 DEF Fed
    <3> QED
      BY <1>3, <2>0, <3>1
  <2> QED
    BY <2>1, <2>2
<1>5. ASSUME ~u.cmderr
      PROVE  u.last = WR /\ u.gpr[S0] = a + (i + 1) /\ u.mem = Stored(o.mem, a, ws, i + 1)
  <2> DEFINE x == v.gpr[S0]
             y == v.data0
             f == o.mem
             g == v.mem
  <2>1. u.last = WR /\ u.gpr[S0] = x + 1 /\ u.mem = [g EXCEPT ![x] = y]
    BY <1>1, <1>5
  <2>2. x = a + i /\ g = Stored(f, a, ws, i) /\ y = ws[i + 1]
    BY <1>1, <1>5 DEF Fed
  <2> HIDE DEF x, y, f, g
  <2>3. u.mem = StoreAt(g, a + i, y)
    BY <2>1, <2>2 DEF StoreAt
  <2>4. StoreAt(Stored(f, a, ws, i), a + i, y) = Stored(f, a, ws, i + 1)
    BY <2>2, StoredNext
  <2>5. u.mem = Stored(f, a, ws, i + 1)
    BY <2>2, <2>3, <2>4
  <2> QED
    BY <1>3, <2>1, <2>2, <2>5 DEF f
<1> QED
  BY <1>2, <1>3, <1>4, <1>5 DEF Stores

\* The first word.
First(o, u, v, w, a, ws) ==
    /\ Shape(v) /\ v.pb = u.pb /\ ~v.auto /\ v.touched = o.touched
    /\ Stores(o, w, a, ws, 1) /\ ~w.auto /\ w.pb = u.pb

LEMMA FirstStores ==
    ASSUME NEW o, Shape(o), NEW u, NEW a \in Int, NEW ws, Primed(o, u, a, "sw"),
           NEW v, v = Access(u, Put(ws[1])), NEW w, w = Access(v, Do(WR))
    PROVE  First(o, u, v, w, a, ws)
<1>1. Shape(u) /\ ~u.auto /\ Writes(u) /\ u.mem = o.mem /\ u.touched = o.touched /\ (~u.cmderr => u.gpr[S0] = a)
  BY DEF Primed, Writes
<1> DEFINE y == ws[1]
<1>2. v = Access(u, Put(y))
  OBVIOUS
<1>3. y = ws[0 + 1]
  OBVIOUS
<1> HIDE DEF y
<1>4. Still(u, v) /\ v.data0 = y /\ v.gpr = u.gpr /\ v.pb = u.pb /\ v.cmderr = u.cmderr
  BY <1>1, <1>2, PutStill
<1>5. Shape(v) /\ ~v.auto /\ v.touched = o.touched /\ v.mem = o.mem /\ Writes(v)
  BY <1>1, <1>4 DEF Still, Went, Writes
<1>6. w = Command(v, WR)
  BY AccessIs
<1>7. a .. a + 0 - 1 = {} /\ a + 0 = a /\ 0 + 1 = 1 /\ 0 \in Nat
  OBVIOUS
<1>8. Stored(o.mem, a, ws, 0) = o.mem
  BY StoredNone DEF Shape
<1>9. ~v.cmderr => v.gpr[S0] = a + 0 /\ v.mem = Stored(o.mem, a, ws, 0) /\ v.data0 = ws[0 + 1]
  BY <1>1, <1>3, <1>4, <1>5, <1>7, <1>8
<1>10. v.touched \subseteq o.touched \cup (a .. a + 0 - 1)
  BY <1>5
<1> DEFINE i == 0
<1>11. Fed(o, v, a, ws, i) /\ i \in Nat
  BY <1>5, <1>9, <1>10 DEF Fed
<1> HIDE DEF i
<1>12. Stores(o, w, a, ws, i + 1) /\ w.auto = v.auto /\ w.pb = v.pb
  BY <1>6, <1>11, SwStores
<1>13. i + 1 = 1
  BY DEF i
<1> QED
  BY <1>4, <1>5, <1>12, <1>13 DEF First

\* Each of the others.
LEMMA AgainPut ==
    ASSUME NEW t, NEW y
    PROVE  Access(t, Put(y)) = Again([t EXCEPT !.data0 = y])
  BY AccessIs

LEMMA PutStores ==
    ASSUME NEW o, NEW a \in Int, NEW ws, NEW i \in Nat, NEW t, Stores(o, t, a, ws, i), t.auto \/ t.cmderr,
           NEW u, u = Access(t, Put(ws[i + 1]))
    PROVE  Stores(o, u, a, ws, i + 1) /\ (u.auto \/ u.cmderr)
<1> DEFINE y == ws[i + 1]
           v == [t EXCEPT !.data0 = y]
<1>0. y = ws[i + 1] /\ u = Access(t, Put(y))
  OBVIOUS
<1> HIDE DEF y
<1>1. u = Again(v)
  BY <1>0, AgainPut
<1>2. /\ Shape(v) /\ v.pb = t.pb /\ v.auto = t.auto /\ v.mem = t.mem /\ v.touched = t.touched /\ v.cmderr = t.cmderr
      /\ v.last = t.last /\ v.gpr = t.gpr /\ v.data0 = y
  BY DEF Stores, Shape, Fields
<1> HIDE DEF v
<1>3. Writes(v) /\ v.touched \subseteq o.touched \cup (a .. a + i - 1)
  BY <1>2 DEF Stores, Writes
<1>4. CASE t.cmderr
  <2>1. Command(v, v.last) = v
    BY <1>2, <1>4, CommandIs
  <2>2. u = v
    BY <1>1, <2>1 DEF Again
  <2>3. a .. a + i - 1 \subseteq a .. a + (i + 1) - 1
    OBVIOUS
  <2>4. v.touched \subseteq o.touched \cup (a .. a + (i + 1) - 1)
    BY <1>3, <2>3
  <2> QED
    BY <1>2, <1>3, <1>4, <2>2, <2>4 DEF Stores
<1>5. CASE ~t.cmderr
  <2>1. v.last = WR /\ v.auto /\ v.gpr[S0] = a + i /\ v.mem = Stored(o.mem, a, ws, i)
    BY <1>2, <1>5 DEF Stores
  <2>2. u = Command(v, WR)
    BY <1>1, <2>1 DEF Again
  <2>3. Fed(o, v, a, ws, i)
    BY <1>0, <1>2, <1>3, <2>1 DEF Fed
  <2>4. Stores(o, u, a, ws, i + 1) /\ u.auto = v.auto
    BY <2>2, <2>3, SwStores
  <2> QED
    BY <2>1, <2>4
<1> QED
  BY <1>4, <1>5

\* Autoexec on its own.
LEMMA AutoStores ==
    ASSUME NEW o, NEW a, NEW ws, NEW i, NEW t, Stores(o, t, a, ws, i), NEW b \in BOOLEAN, NEW u, u = Access(t, Autoexec(b))
    PROVE  Stores(o, u, a, ws, i) /\ u.auto = b /\ u.cmderr = t.cmderr
<1>1. u = [t EXCEPT !.auto = b]
  BY AccessIs
<1>2. /\ Shape(u) /\ u.pb = t.pb /\ u.mem = t.mem /\ u.touched = t.touched /\ u.cmderr = t.cmderr
      /\ u.last = t.last /\ u.gpr = t.gpr /\ u.auto = b
  BY <1>1 DEF Stores, Shape, Fields
<1> QED
  BY <1>2 DEF Stores, Writes

\* The words after the first.
Rest(ws) == [i \in 1 .. Len(ws) - 1 |-> Put(ws[i + 1])]
Puts(b, ws, k) == PlainSeq(b) /\ Len(b) = k /\ \A i \in 1 .. k : b[i] = Put(ws[i + 1])

LEMMA RestPuts ==
    ASSUME NEW ws, NEW k \in Nat, Len(ws) = k + 1
    PROVE  Puts(Rest(ws), ws, k)
<1> DEFINE f == Rest(ws)
<1>1. f = [i \in 1 .. k |-> f[i]] /\ \A i \in 1 .. k : f[i] = Put(ws[i + 1])
  <2>1. Len(ws) - 1 = k
    OBVIOUS
  <2> QED
    BY <2>1 DEF Rest
<1> HIDE DEF f
<1>2. IsSeq(f) /\ Len(f) = k
  BY <1>1, FunSeq
<1>3. \A i \in 1 .. Len(f) : Plain(f[i])
  BY <1>1, <1>2, PlainIs
<1>4. Puts(f, ws, k)
  BY <1>1, <1>2, <1>3 DEF Puts, PlainSeq
<1> QED
  BY <1>4 DEF f

Storing(o, t, a, ws, i) == Stores(o, t, a, ws, i) /\ (t.auto \/ t.cmderr)

LEMMA StoringNext ==
    ASSUME NEW o, NEW a \in Int, NEW ws, NEW i \in Nat, NEW t, Storing(o, t, a, ws, i + 1),
           NEW u, u = Access(t, Put(ws[(i + 1) + 1]))
    PROVE  Storing(o, u, a, ws, (i + 1) + 1)
<1> DEFINE j == i + 1
<1>1. j \in Nat /\ u = Access(t, Put(ws[j + 1])) /\ Storing(o, t, a, ws, j)
  OBVIOUS
<1> HIDE DEF j
<1>2. Stores(o, u, a, ws, j + 1) /\ (u.auto \/ u.cmderr)
  BY <1>1, PutStores DEF Storing
<1> QED
  BY <1>2 DEF Storing, j

LEMMA PutsStores ==
    ASSUME NEW o, NEW a \in Int, NEW ws, NEW k \in Nat, NEW b, Puts(b, ws, k), NEW t, Storing(o, t, a, ws, 1)
    PROVE  /\ Stores(o, Done(t, b), a, ws, k + 1)
           /\ \A e \in Reach(t, b) : \E i \in 1 .. k + 1 : Stores(o, e, a, ws, i)
<1>1. IsSeq(b) /\ Len(b) = k /\ \A i \in 1 .. k : b[i] = Put(ws[i + 1])
  BY DEF Puts, PlainSeq
<1>2. PICK f : RunOf(f, t, b) /\ Done(t, b) = f[Len(b)] /\ Reach(t, b) = {f[i] : i \in 0 .. Len(b)}
  BY <1>1, BatchRun
<1>3. f[0] = t /\ \A i \in 1 .. k : f[i] = Access(f[i - 1], Put(ws[i + 1]))
  BY <1>1, <1>2 DEF RunOf
<1> DEFINE T == {i \in Nat : i <= k => Storing(o, f[i], a, ws, i + 1)}
<1>4. 0 \in T
  BY <1>3
<1>5. ASSUME NEW i \in Nat, i \in T PROVE i + 1 \in T
  <2>1. SUFFICES ASSUME i + 1 <= k PROVE Storing(o, f[i + 1], a, ws, (i + 1) + 1)
    OBVIOUS
  <2>2. Storing(o, f[i], a, ws, i + 1)
    BY <1>5, <2>1
  <2>3. i + 1 \in 1 .. k /\ (i + 1) - 1 = i
    BY <2>1
  <2>4. f[i + 1] = Access(f[i], Put(ws[(i + 1) + 1]))
    BY <1>3, <2>3
  <2> HIDE DEF T
  <2> DEFINE x == f[i]
             u == f[i + 1]
  <2>5. Storing(o, x, a, ws, i + 1) /\ u = Access(x, Put(ws[(i + 1) + 1]))
    BY <2>2, <2>4
  <2> HIDE DEF x, u
  <2>6. Storing(o, u, a, ws, (i + 1) + 1)
    BY <2>5, StoringNext
  <2> QED
    BY <2>6 DEF u
<1> HIDE DEF T
<1>6. Nat \subseteq T
  BY <1>4, <1>5, NatsIn
<1>7. ASSUME NEW i \in 0 .. k PROVE Stores(o, f[i], a, ws, i + 1)
  BY <1>6 DEF T, Storing
<1>8. Stores(o, Done(t, b), a, ws, k + 1)
  <2>1. k \in 0 .. k /\ Done(t, b) = f[k]
    BY <1>1, <1>2
  <2> QED
    BY <1>7, <2>1
<1>9. ASSUME NEW e \in Reach(t, b) PROVE \E i \in 1 .. k + 1 : Stores(o, e, a, ws, i)
  <2>1. PICK i \in 0 .. k : e = f[i]
    BY <1>1, <1>2
  <2>2. Stores(o, e, a, ws, i + 1)
    BY <1>7, <2>1
  <2>3. i + 1 \in 1 .. k + 1
    OBVIOUS
  <2> QED
    BY <2>2, <2>3
<1> QED
  BY <1>8, <1>9

\* ... between autoexec on and autoexec off.
Streamed(ws) == IF Rest(ws) = <<>> THEN <<>> ELSE <<Autoexec(TRUE)>> \o Rest(ws) \o <<Autoexec(FALSE)>>
Reached(o, a, ws, n, e) == \E i \in 1 .. n : Stores(o, e, a, ws, i)

LEMMA StreamStores ==
    ASSUME NEW o, NEW a \in Int, NEW ws, NEW k \in Nat, NEW b, Puts(b, ws, k), NEW w, Stores(o, w, a, ws, 1)
    PROVE  LET q == <<Autoexec(TRUE)>> \o b \o <<Autoexec(FALSE)>>
           IN  /\ PlainSeq(q)
               /\ Stores(o, Done(w, q), a, ws, k + 1)
               /\ \A e \in Reach(w, q) : Reached(o, a, ws, k + 1, e)
<1> DEFINE s == <<Autoexec(TRUE)>>
           c == <<Autoexec(FALSE)>>
           x == Access(w, Autoexec(TRUE))
           z == Done(x, b)
           y == Access(z, Autoexec(FALSE))
           d == s \o b
<1>1. PlainSeq(s) /\ PlainSeq(b) /\ PlainSeq(c)
  BY PlainIs, PlainOne DEF Puts
<1>2. PlainSeq(d)
  BY <1>1, PlainConcat
<1>3. PlainSeq(d \o c)
  BY <1>1, <1>2, PlainConcat
<1>4. IsSeq(b) /\ IsSeq(c) /\ IsSeq(d)
  BY <1>1, <1>2 DEF PlainSeq
<1>5. Done(w, d) = Done(x, b) /\ Reach(w, d) \subseteq {w} \cup Reach(x, b)
  BY <1>4, ReachFirst
<1>6. Done(z, c) = y /\ Reach(z, c) = {z, y}
  BY ReachOne
<1>7. Storing(o, x, a, ws, 1)
  <2>1. TRUE \in BOOLEAN
    OBVIOUS
  <2>2. Stores(o, x, a, ws, 1) /\ x.auto = TRUE
    BY <2>1, AutoStores
  <2> QED
    BY <2>2 DEF Storing
<1> HIDE DEF d, s, c, x
<1>8. Stores(o, z, a, ws, k + 1) /\ \A e \in Reach(x, b) : \E i \in 1 .. k + 1 : Stores(o, e, a, ws, i)
  BY <1>7, PutsStores
<1>9. Stores(o, y, a, ws, k + 1)
  <2>1. FALSE \in BOOLEAN
    OBVIOUS
  <2> HIDE DEF z
  <2> QED
    BY <1>8, <2>1, AutoStores
<1> HIDE DEF y, z
<1>10. Done(w, d \o c) = Done(Done(w, d), c) /\ Reach(w, d \o c) \subseteq Reach(w, d) \cup Reach(Done(w, d), c)
  BY <1>4, ReachConcat
<1>11. Done(w, d) = z
  BY <1>5 DEF z
<1>12. Done(w, d \o c) = y /\ Reach(w, d \o c) \subseteq {w} \cup Reach(x, b) \cup {z, y}
  BY <1>5, <1>6, <1>10, <1>11
<1>13. 1 \in 1 .. k + 1 /\ k + 1 \in 1 .. k + 1
  OBVIOUS
<1>14. \A e \in {w} \cup Reach(x, b) \cup {z, y} : Reached(o, a, ws, k + 1, e)
  BY <1>8, <1>9, <1>13 DEF Reached
<1>15. PlainSeq(d \o c) /\ Stores(o, Done(w, d \o c), a, ws, k + 1) /\ \A e \in Reach(w, d \o c) : Reached(o, a, ws, k + 1, e)
  BY <1>3, <1>9, <1>12, <1>14
<1> QED
  BY <1>15 DEF d, s, c

LEMMA StreamedStores ==
    ASSUME NEW o, NEW a \in Int, NEW ws, NEW k \in Nat, Len(ws) = k + 1, NEW w, Stores(o, w, a, ws, 1)
    PROVE  LET q == Streamed(ws)
           IN  /\ PlainSeq(q)
               /\ Stores(o, Done(w, q), a, ws, k + 1)
               /\ \A e \in Reach(w, q) : Reached(o, a, ws, k + 1, e)
<1> DEFINE b == Rest(ws)
           q == <<Autoexec(TRUE)>> \o b \o <<Autoexec(FALSE)>>
<1>1. Puts(b, ws, k)
  BY RestPuts
<1> HIDE DEF b
<1>2. CASE b = <<>>
  <2>1. Streamed(ws) = <<>>
    BY <1>2, Zenon DEF Streamed, b
  <2>2. k = 0
    BY <1>1, <1>2, NothingSeq DEF Puts
  <2>3. PlainSeq(<<>>) /\ Done(w, <<>>) = w /\ Reach(w, <<>>) = {w}
    BY PlainNone, ReachNone
  <2>4. k + 1 = 1 /\ 1 \in 1 .. k + 1
    BY <2>2
  <2> DEFINE e == <<>>
  <2>5. PlainSeq(e) /\ Stores(o, Done(w, e), a, ws, k + 1) /\ \A d \in Reach(w, e) : Reached(o, a, ws, k + 1, d)
    BY <2>3, <2>4 DEF Reached
  <2> QED
    BY <2>1, <2>5, Zenon
<1>3. CASE b # <<>>
  <2>1. Streamed(ws) = q
    BY <1>3, Zenon DEF Streamed, b
  <2>2. PlainSeq(q) /\ Stores(o, Done(w, q), a, ws, k + 1) /\ \A e \in Reach(w, q) : Reached(o, a, ws, k + 1, e)
    BY <1>1, StreamStores
  <2> QED
    BY <2>1, <2>2, Zenon
<1> QED
  BY <1>2, <1>3

\* The batch of _pb_write_words.
StoreBatch(ws) == <<Put(ws[1]), Do(WR)>> \o Streamed(ws)

LEMMA StorePlain ==
    ASSUME NEW ws, NEW k \in Nat, Len(ws) = k + 1
    PROVE  PlainSeq(StoreBatch(ws))
<1> DEFINE b == <<Put(ws[1]), Do(WR)>>
           q == Streamed(ws)
<1>1. PlainSeq(b)
  BY PlainIs, PlainTwo
<1>2. PlainSeq(q)
  <2>1. Puts(Rest(ws), ws, k)
    BY RestPuts
  <2>2. PlainSeq(Rest(ws)) /\ PlainSeq(<<>>) /\ PlainSeq(<<Autoexec(TRUE)>>) /\ PlainSeq(<<Autoexec(FALSE)>>)
    BY <2>1, PlainIs, PlainOne, PlainNone DEF Puts
  <2>3. PlainSeq(<<Autoexec(TRUE)>> \o Rest(ws))
    BY <2>2, PlainConcat
  <2>4. PlainSeq(<<Autoexec(TRUE)>> \o Rest(ws) \o <<Autoexec(FALSE)>>)
    BY <2>2, <2>3, PlainConcat
  <2> QED
    BY <2>2, <2>4, Zenon DEF Streamed
<1> HIDE DEF b, q
<1>3. PlainSeq(b \o q)
  BY <1>1, <1>2, PlainConcat
<1> QED
  BY <1>3 DEF StoreBatch, b, q

LEMMA SamePb ==
    ASSUME NEW o, NEW u, NEW a, Primed(o, u, a, "sw"), NEW e, Shape(e), Writes(e)
    PROVE  e.pb = u.pb
<1>1. u.pb = [i \in 0 .. 2 |-> u.pb[i]] /\ e.pb = [i \in 0 .. 2 |-> e.pb[i]]
  BY DEF Primed, Shape
<1>2. \A i \in 0 .. 2 : e.pb[i] = u.pb[i]
  BY DEF Primed, Writes
<1>3. [i \in 0 .. 2 |-> u.pb[i]] = [i \in 0 .. 2 |-> e.pb[i]]
  BY <1>2
<1> QED
  BY <1>1, <1>3

LEMMA StoreKeeps ==
    ASSUME NEW o, NEW u, NEW a \in Int, Primed(o, u, a, "sw"), NEW ws, NEW k \in Nat, NEW e, Reached(o, a, ws, k + 1, e)
    PROVE  Keeps(o, u, e, a .. a + k, BOOLEAN)
<1>1. PICK i \in 1 .. k + 1 : Stores(o, e, a, ws, i)
  BY DEF Reached
<1>2. a .. a + i - 1 \subseteq a .. a + k
  OBVIOUS
<1>3. Shape(e) /\ Writes(e) /\ e.touched \subseteq o.touched \cup (a .. a + i - 1)
  BY <1>1 DEF Stores
<1>4. e.pb = u.pb
  BY <1>3, SamePb
<1>5. e.auto \in BOOLEAN
  BY <1>3 DEF Shape
<1> QED
  BY <1>2, <1>3, <1>4, <1>5 DEF Keeps

LEMMA StoreReach ==
    ASSUME NEW o, Shape(o), NEW a \in Int, NEW ws, NEW k \in Nat, Len(ws) = k + 1, NEW u, Primed(o, u, a, "sw")
    PROVE  /\ Stores(o, Done(u, StoreBatch(ws)), a, ws, k + 1)
           /\ \A e \in Reach(u, StoreBatch(ws)) : Keeps(o, u, e, a .. a + k, BOOLEAN)
<1> DEFINE b == <<Put(ws[1]), Do(WR)>>
           q == Streamed(ws)
           v == Access(u, Put(ws[1]))
           w == Access(v, Do(WR))
<1>1. IsSeq(b) /\ Done(u, b) = w /\ Reach(u, b) \subseteq {u, v, w}
  BY ReachTwo
<1>2. /\ Shape(v) /\ v.pb = u.pb /\ ~v.auto /\ v.touched = o.touched
      /\ Stores(o, w, a, ws, 1) /\ ~w.auto /\ w.pb = u.pb
  <2>1. First(o, u, v, w, a, ws)
    BY FirstStores
  <2> QED
    BY <2>1 DEF First
<1> HIDE DEF b, v, w
<1>3. /\ PlainSeq(q)
      /\ Stores(o, Done(w, q), a, ws, k + 1)
      /\ \A e \in Reach(w, q) : Reached(o, a, ws, k + 1, e)
  BY <1>2, StreamedStores
<1> HIDE DEF q
<1>4. IsSeq(q)
  BY <1>3 DEF PlainSeq
<1>5. Done(u, b \o q) = Done(Done(u, b), q) /\ Reach(u, b \o q) \subseteq Reach(u, b) \cup Reach(Done(u, b), q)
  BY <1>1, <1>4, ReachConcat
<1>6. Done(u, b \o q) = Done(w, q) /\ Reach(u, b \o q) \subseteq {u, v, w} \cup Reach(w, q)
  BY <1>1, <1>5
<1>7. \A e \in Reach(w, q) : Keeps(o, u, e, a .. a + k, BOOLEAN)
  BY <1>3, StoreKeeps
<1>8. Keeps(o, u, w, a .. a + k, BOOLEAN)
  <2>1. 1 \in 1 .. k + 1
    OBVIOUS
  <2>2. Reached(o, a, ws, k + 1, w)
    BY <1>2, <2>1 DEF Reached
  <2> QED
    BY <2>2, StoreKeeps
<1>9. Keeps(o, u, u, a .. a + k, BOOLEAN) /\ Keeps(o, u, v, a .. a + k, BOOLEAN)
  <2>1. u.touched = o.touched /\ Shape(u)
    BY DEF Primed
  <2>2. u.auto \in BOOLEAN /\ v.auto \in BOOLEAN
    BY <1>2, <2>1 DEF Shape
  <2> QED
    BY <1>2, <2>1, <2>2 DEF Keeps
<1>10. StoreBatch(ws) = b \o q
  BY DEF StoreBatch, b, q
<1>11. \A e \in Reach(u, b \o q) : Keeps(o, u, e, a .. a + k, BOOLEAN)
  BY <1>6, <1>7, <1>8, <1>9
<1> QED
  BY <1>3, <1>6, <1>10, <1>11

StoreRun(o, a, ws) == PipeRun(o, a, "sw", StoreBatch(ws))

LEMMA StoreLeaves ==
    ASSUME NEW o, Good(o), Both(o), NEW a \in Int, NEW ws, NEW k \in Nat, Len(ws) = k + 1, NEW p \in StoreRun(o, a, ws)
    PROVE  /\ Work(o, p, a .. a + k) /\ (Fit(p) \/ (p.err /\ p.faults > 0))
           /\ ~p.err => p.mem = Stored(o.mem, a, ws, k + 1)
<1> DEFINE z == StoreBatch(ws)
           x == "sw"
           V == BOOLEAN
           R == a .. a + k
<1>0. Shape(o)
  BY DEF Good
<1>1. Stays(o, a, x, z, R, V)
  BY <1>0, StoreReach DEF Stays
<1>2. x \in {"lw", "sw"} /\ PlainSeq(z) /\ FALSE \in V /\ p \in PipeRun(o, a, x, z)
  BY StorePlain DEF StoreRun
<1>3. ASSUME NEW u, Primed(o, u, a, x), p = Done(u, z) PROVE Stores(o, p, a, ws, k + 1)
  BY <1>0, <1>3, StoreReach
<1> HIDE DEF z, x, R, V
<1>4. Piping(o, p, a, x, z, R, V)
  BY <1>1, <1>2, PipeCode
<1>5. ASSUME ~p.err PROVE p.mem = Stored(o.mem, a, ws, k + 1)
  <2>1. ~p.cmderr /\ Stores(o, p, a, ws, k + 1)
    BY <1>3, <1>4, <1>5 DEF Piping
  <2> QED
    BY <2>1 DEF Stores
<1> QED
  BY <1>4, <1>5 DEF R, Piping

\* _pb_write_words.
LEMMA WriteWordsIs ==
    ASSUME NEW o, NEW a, NEW ws, NEW p \in PbWriteWords(o, a, ws)
    PROVE  \/ p \in Scratch(o, {S0, S1}) /\ p.err
           \/ \E s \in Scratch(o, {S0, S1}) : ~s.err /\ p \in Finally(StoreRun(s, a, ws))
<1>1. PbWriteWords(o, a, ws) = Then(Scratch(o, {S0, S1}), LAMBDA s : Finally(StoreRun(s, a, ws)))
  BY Zenon DEF PbWriteWords, StoreRun, PipeRun, StoreBatch, Streamed, Rest, StartBatch, WR
<1> QED
  BY <1>1 DEF Then

LEMMA StoreLater ==
    ASSUME NEW o, Shape(o), ~o.err, NEW a, NEW ws, NEW k \in Nat, Len(ws) = k + 1, NEW p \in Finally(StoreRun(o, a, ws))
    PROVE  Later(o, p)
<1> DEFINE D == StoreRun(o, a, ws)
<1>1. ASSUME NEW q \in D PROVE Later(o, q)
  <2>1. q \in PipeRun(o, a, "sw", StoreBatch(ws)) /\ PlainSeq(StoreBatch(ws))
    BY StorePlain DEF StoreRun
  <2> QED
    BY <2>1, PipeLater
<1>2. p \in Finally(D)
  OBVIOUS
<1> HIDE DEF D
<1> QED
  BY <1>1, <1>2, FinallyOf

LEMMA WriteWordsLater ==
    ASSUME NEW o, Shape(o), ~o.err, NEW a, NEW ws, NEW k \in Nat, Len(ws) = k + 1, NEW p \in PbWriteWords(o, a, ws)
    PROVE  Later(o, p)
<1>1. ASSUME NEW s \in Scratch(o, {S0, S1}), ~s.err, p \in Finally(StoreRun(s, a, ws)) PROVE Later(o, p)
  <2>1. Later(o, s)
    BY <1>1, ScratchLater
  <2>2. Shape(s)
    BY <2>1 DEF Later
  <2>3. Later(s, p)
    BY <1>1, <2>2, StoreLater
  <2> QED
    BY <2>1, <2>3, LaterTrans
<1> QED
  BY <1>1, WriteWordsIs, ScratchLater

\* What a write leaves: the words, if it succeeds.
Written(o, p, a, ws, k) == Leaves(o, p, a .. a + k) /\ (~p.err => p.mem = Stored(o.mem, a, ws, k + 1))

LEMMA StoreWrites ==
    ASSUME NEW o, Good(o), Both(o), NEW a \in Int, NEW ws, NEW k \in Nat, Len(ws) = k + 1,
           NEW p \in Finally(StoreRun(o, a, ws))
    PROVE  Written(o, p, a, ws, k)
<1>1. PICK f \in StoreRun(o, a, ws) : \E r \in Off(f) : p = Ended(f, r)
  BY FinallyIs
<1>2. PICK r \in Off(f) : p = Ended(f, r)
  BY <1>1
<1> DEFINE R == a .. a + k
           g == Stored(o.mem, a, ws, k + 1)
<1>3. /\ Work(o, f, R) /\ (Fit(f) \/ (f.err /\ f.faults > 0))
      /\ ~f.err => f.mem = g
  BY StoreLeaves
<1> HIDE DEF R, g
<1>4. Leaves(o, p, R) /\ (~p.err => ~f.err /\ p.mem = f.mem)
  BY <1>2, <1>3, FinallyLeaves
<1>5. Leaves(o, p, R) /\ (~p.err => p.mem = g)
  BY <1>3, <1>4
<1> QED
  BY <1>5 DEF R, g, Written

LEMMA WrittenAfter ==
    ASSUME NEW o, NEW s, Leaves(o, s, {}), s.mem = o.mem, NEW p, NEW a, NEW ws, NEW k, Written(s, p, a, ws, k)
    PROVE  Written(o, p, a, ws, k)
<1> DEFINE R == a .. a + k
<1>1. Leaves(s, p, R) /\ (~p.err => p.mem = Stored(o.mem, a, ws, k + 1))
  BY DEF Written
<1>2. {} \subseteq R /\ R \subseteq R
  OBVIOUS
<1> HIDE DEF R
<1>3. Leaves(o, p, R)
  BY <1>1, <1>2, LeavesTrans
<1> QED
  BY <1>1, <1>3 DEF R, Written

LEMMA WrittenNot ==
    ASSUME NEW o, Good(o), NEW p, Leaves(o, p, {}), p.err, NEW a, NEW ws, NEW k
    PROVE  Written(o, p, a, ws, k)
<1> DEFINE R == a .. a + k
<1>1. {} \subseteq R /\ Leaves(o, o, {})
  BY LeavesSame
<1> HIDE DEF R
<1>2. Leaves(o, p, R)
  BY <1>1, LeavesTrans
<1> QED
  BY <1>2 DEF R, Written

LEMMA WriteWordsLeaves ==
    ASSUME NEW o, Good(o), NEW a \in Int, NEW ws, NEW k \in Nat, Len(ws) = k + 1, NEW p \in PbWriteWords(o, a, ws)
    PROVE  Written(o, p, a, ws, k)
<1>1. ASSUME p \in Scratch(o, {S0, S1}), p.err PROVE Written(o, p, a, ws, k)
  BY <1>1, ScratchBoth, WrittenNot
<1>2. ASSUME NEW s \in Scratch(o, {S0, S1}), ~s.err, p \in Finally(StoreRun(s, a, ws)) PROVE Written(o, p, a, ws, k)
  <2>1. Leaves(o, s, {}) /\ Good(s) /\ Both(s) /\ s.mem = o.mem
    BY <1>2, ScratchBoth
  <2>2. Written(s, p, a, ws, k)
    BY <1>2, <2>1, StoreWrites
  <2> QED
    BY <2>1, <2>2, WrittenAfter
<1> QED
  BY <1>1, <1>2, WriteWordsIs

\* write_words, which asks for DMSTATUS first.
Writing(o, a, ws) == WhenHalted(o, LAMBDA s : PbWriteWords(s, a, ws))

LEMMA WritingIs ==
    ASSUME NEW o, NEW a, NEW ws, NEW p \in Writing(o, a, ws)
    PROVE  \/ p \in DmAccess(o, <<>>) /\ p.err
           \/ \E s \in DmAccess(o, <<>>) : ~s.err /\ p \in PbWriteWords(s, a, ws)
  BY DEF Writing, WhenHalted, Then

LEMMA WritingLater ==
    ASSUME NEW o, Shape(o), ~o.err, NEW a, NEW ws, NEW k \in Nat, Len(ws) = k + 1, NEW p \in Writing(o, a, ws)
    PROVE  Later(o, p)
<1>1. ASSUME NEW s \in DmAccess(o, <<>>), ~s.err, p \in PbWriteWords(s, a, ws) PROVE Later(o, p)
  <2>1. Later(o, s)
    BY NoneLater
  <2>2. Shape(s)
    BY <2>1 DEF Later
  <2>3. Later(s, p)
    BY <1>1, <2>2, WriteWordsLater
  <2> QED
    BY <2>1, <2>3, LaterTrans
<1> QED
  BY <1>1, WritingIs, NoneLater

LEMMA WritingLeaves ==
    ASSUME NEW o, Good(o), NEW a \in Int, NEW ws, NEW k \in Nat, Len(ws) = k + 1, NEW p \in Writing(o, a, ws)
    PROVE  Written(o, p, a, ws, k)
<1>1. ASSUME p \in DmAccess(o, <<>>), p.err PROVE Written(o, p, a, ws, k)
  BY <1>1, NoneLeaves, WrittenNot
<1>2. ASSUME NEW s \in DmAccess(o, <<>>), ~s.err, p \in PbWriteWords(s, a, ws) PROVE Written(o, p, a, ws, k)
  <2>1. Leaves(o, s, {}) /\ s.mem = o.mem
    BY <1>2, NoneLeaves
  <2>2. Good(s)
    BY <1>2, <2>1, LeavesGood
  <2>3. Written(s, p, a, ws, k)
    BY <1>2, <2>2, WriteWordsLeaves
  <2> QED
    BY <2>1, <2>3, WrittenAfter
<1> QED
  BY <1>1, <1>2, WritingIs

-----------------------------------------------------------------------------
(* Between operations.                                                     *)

Zero == [r \in Regs |-> 0]

\* While the host has begun no operation wrong about the target: g is what the
\* user knows of the registers.
FullOf(n, g) ==
    /\ Shape(n) /\ ~n.err /\ n.touched = {}
    /\ n.faults = 0 => Trusted(n)
    /\ n.link = "down" => n.hart = "running" /\ n.gpr = Zero /\ g = Zero
    /\ n.link = "up" => CacheOk(n) /\ Visible(n) = g
\* After one that did, an access must have failed.
LapsedOf(n) == Shape(n) /\ n.faults # 0

\* What the end of an operation makes of o.
Settle(o) == Settled([o EXCEPT !.err = FALSE, !.out = <<>>, !.touched = {}])

LEMMA SettleParts ==
    ASSUME NEW o, Shape(o), NEW n, n = Settle(o)
    PROVE  /\ Shape(n) /\ ~n.err /\ n.touched = {} /\ n.link = o.link /\ n.faults = o.faults /\ n.hart = o.hart
           /\ n.cache = o.cache /\ n.clobbered = o.clobbered /\ n.progbuf = o.progbuf /\ n.pb = o.pb /\ n.auto = o.auto
           /\ \/ n.gpr = o.gpr
              \/ n.gpr = [r \in Regs |-> IF r \in (IF o.cache = NoRegs THEN {} ELSE o.clobbered) THEN 0 ELSE o.gpr[r]]
<1> DEFINE x == [o EXCEPT !.err = FALSE, !.out = <<>>, !.touched = {}]
           l == [x EXCEPT !.mem = Contents, !.csr = Top]
           g == [r \in Regs |-> IF r \in (IF x.cache = NoRegs THEN {} ELSE x.clobbered) THEN 0 ELSE x.gpr[r]]
           s == [l EXCEPT !.data0 = 0, !.last = CMD_EXEC, !.gpr = g]
<1>1. /\ Shape(x) /\ ~x.err /\ x.touched = {} /\ x.link = o.link /\ x.faults = o.faults /\ x.hart = o.hart
      /\ x.cache = o.cache /\ x.clobbered = o.clobbered /\ x.progbuf = o.progbuf /\ x.pb = o.pb /\ x.auto = o.auto
      /\ x.gpr = o.gpr
  BY DEF Shape, Fields
<1>2. n = IF Trusted(x) THEN s ELSE l
  BY Zenon DEF Settle, Settled
<1> HIDE DEF x
<1>3. /\ Shape(l) /\ ~l.err /\ l.touched = {} /\ l.link = o.link /\ l.faults = o.faults /\ l.hart = o.hart
      /\ l.cache = o.cache /\ l.clobbered = o.clobbered /\ l.progbuf = o.progbuf /\ l.pb = o.pb /\ l.auto = o.auto
      /\ l.gpr = o.gpr
  <2>1. Contents = [y \in Memory |-> Contents[y]]
    BY DEF Contents
  <2> QED
    BY <1>1, <2>1 DEF Shape, Fields
<1>4. g = [r \in Regs |-> IF r \in (IF o.cache = NoRegs THEN {} ELSE o.clobbered) THEN 0 ELSE o.gpr[r]]
  BY <1>1
<1>5. g = [r \in Regs |-> g[r]]
  OBVIOUS
<1> HIDE DEF l, g
<1>6. /\ Shape(s) /\ ~s.err /\ s.touched = {} /\ s.link = o.link /\ s.faults = o.faults /\ s.hart = o.hart
      /\ s.cache = o.cache /\ s.clobbered = o.clobbered /\ s.progbuf = o.progbuf /\ s.pb = o.pb /\ s.auto = o.auto
      /\ s.gpr = g
  BY <1>3, <1>5 DEF Shape, Fields
<1> HIDE DEF s
<1> QED
  BY <1>2, <1>3, <1>4, <1>6

\* ... a register keeps its value, or is one whose value the host has saved.
SettledTo(o, n) ==
    /\ Shape(n) /\ ~n.err /\ n.touched = {} /\ n.link = o.link /\ n.faults = o.faults /\ n.hart = o.hart
    /\ n.cache = o.cache /\ n.clobbered = o.clobbered /\ n.progbuf = o.progbuf /\ n.pb = o.pb /\ n.auto = o.auto
    /\ n.gpr = [r \in Regs |-> n.gpr[r]]
    /\ \A r \in Regs : n.gpr[r] = o.gpr[r] \/ (Spare(o, r) /\ n.gpr[r] = 0)

LEMMA SettleIs ==
    ASSUME NEW o, Shape(o), NEW n, n = Settle(o)
    PROVE  SettledTo(o, n)
<1>1. /\ Shape(n) /\ ~n.err /\ n.touched = {} /\ n.link = o.link /\ n.faults = o.faults /\ n.hart = o.hart
      /\ n.cache = o.cache /\ n.clobbered = o.clobbered /\ n.progbuf = o.progbuf /\ n.pb = o.pb /\ n.auto = o.auto
      /\ \/ n.gpr = o.gpr
         \/ n.gpr = [r \in Regs |-> IF r \in (IF o.cache = NoRegs THEN {} ELSE o.clobbered) THEN 0 ELSE o.gpr[r]]
  BY SettleParts
<1>2. ASSUME NEW r \in Regs PROVE n.gpr[r] = o.gpr[r] \/ (Spare(o, r) /\ n.gpr[r] = 0)
  BY <1>1 DEF Spare
<1>3. n.gpr = [r \in Regs |-> n.gpr[r]]
  BY <1>1 DEF Shape
<1> QED
  BY <1>1, <1>2, <1>3 DEF SettledTo

LEMMA SettleSees ==
    ASSUME NEW o, Shape(o), NEW n, n = Settle(o)
    PROVE  Visible(n) = Visible(o)
<1>1. /\ n.cache = o.cache /\ n.clobbered = o.clobbered
      /\ \A r \in Regs : n.gpr[r] = o.gpr[r] \/ (Spare(o, r) /\ n.gpr[r] = 0)
  <2>1. SettledTo(o, n)
    BY SettleIs
  <2> QED
    BY <2>1 DEF SettledTo
<1>2. ASSUME NEW r \in Regs PROVE Visible(n)[r] = Visible(o)[r]
  <2>1. Spare(n, r) <=> Spare(o, r)
    BY <1>1 DEF Spare
  <2> QED
    BY <1>1, <2>1, OneVisible
<1> QED
  BY <1>2, VisibleSame

LEMMA SettleKnown ==
    ASSUME NEW o, Shape(o), Known(o), NEW n, n = Settle(o)
    PROVE  Known(n)
<1>1. /\ n.cache = o.cache /\ n.clobbered = o.clobbered /\ n.hart = o.hart /\ n.progbuf = o.progbuf /\ n.pb = o.pb
      /\ \A r \in Regs : n.gpr[r] = o.gpr[r] \/ (Spare(o, r) /\ n.gpr[r] = 0)
  <2>1. SettledTo(o, n)
    BY SettleIs
  <2> QED
    BY <2>1 DEF SettledTo
<1>2. \A i \in 0 .. 2 : Agrees(n, n, i)
  BY <1>1 DEF Known, Agrees
<1>3. CacheOk(n)
  BY <1>1 DEF Known, CacheOk
<1>4. ASSUME n.cache # NoRegs, NEW r \in Regs PROVE r \in n.clobbered \/ n.cache[r] = n.gpr[r]
  BY <1>1, <1>4 DEF Known, Spare
<1> QED
  BY <1>2, <1>3, <1>4 DEF Known

\* An operation that leaves o, with the link up and down.
LEMMA SettleUp ==
    ASSUME NEW o, Shape(o), o.link = "up", CacheOk(o), (Known(o) /\ ~o.auto) \/ o.faults > 0, NEW n, n = Settle(o)
    PROVE  FullOf(n, Visible(o))
<1>1. /\ Shape(n) /\ ~n.err /\ n.touched = {} /\ n.link = "up" /\ n.faults = o.faults /\ n.hart = o.hart
      /\ n.cache = o.cache /\ n.auto = o.auto
  <2>1. SettledTo(o, n)
    BY SettleIs
  <2> QED
    BY <2>1 DEF SettledTo
<1>2. Visible(n) = Visible(o)
  BY SettleSees
<1>3. CacheOk(n)
  BY <1>1 DEF CacheOk
<1>4. ASSUME n.faults = 0 PROVE Trusted(n)
  <2>1. Known(o) /\ ~n.auto
    BY <1>1, <1>4
  <2>2. Known(n)
    BY <2>1, SettleKnown
  <2> QED
    BY <1>1, <1>3, <2>1, <2>2, TrustedIs
<1> QED
  BY <1>1, <1>2, <1>3, <1>4 DEF FullOf

LEMMA SettleDown ==
    ASSUME NEW o, Shape(o), o.link = "down", o.hart = "running", o.gpr = Zero, NEW n, n = Settle(o)
    PROVE  FullOf(n, Zero)
<1>1. /\ Shape(n) /\ ~n.err /\ n.touched = {} /\ n.link = "down" /\ n.hart = "running"
      /\ n.gpr = [r \in Regs |-> n.gpr[r]]
      /\ \A r \in Regs : n.gpr[r] = o.gpr[r] \/ (Spare(o, r) /\ n.gpr[r] = 0)
  <2>1. SettledTo(o, n)
    BY SettleIs
  <2> QED
    BY <2>1 DEF SettledTo
<1>2. \A r \in Regs : n.gpr[r] = 0
  BY <1>1 DEF Zero
<1>3. [r \in Regs |-> n.gpr[r]] = Zero
  BY <1>2 DEF Zero
<1>4. n.gpr = Zero
  BY <1>1, <1>3
<1>5. Trusted(n)
  BY <1>1 DEF Trusted
<1> QED
  BY <1>1, <1>4, <1>5 DEF FullOf

\* An operation from w, when the user then knows the registers to be h.
Outcome(w, o, R, h) ==
    Good(w) => /\ Shape(o) /\ o.link = "up" /\ CacheOk(o) /\ o.touched \subseteq R /\ Visible(o) = h
               /\ (Known(o) /\ ~o.auto) \/ o.faults > 0

LEMMA LeavesOutcome ==
    ASSUME NEW w, NEW g, FullOf(w, g), NEW o, NEW R, Good(w) => Leaves(w, o, R)
    PROVE  Outcome(w, o, R, g)
<1>1. SUFFICES ASSUME Good(w)
      PROVE  /\ Shape(o) /\ o.link = "up" /\ CacheOk(o) /\ o.touched \subseteq R /\ Visible(o) = g
             /\ (Known(o) /\ ~o.auto) \/ o.faults > 0
  BY DEF Outcome
<1>2. Leaves(w, o, R)
  BY <1>1
<1>3. w.touched = {} /\ Visible(w) = g
  BY <1>1 DEF FullOf, Good
<1> QED
  BY <1>2, <1>3 DEF Leaves, Open, Holds

LEMMA FullGood ==
    ASSUME NEW w, NEW g, FullOf(w, g), w.link = "up", Trusted(w)
    PROVE  Good(w)
<1>1. Shape(w) /\ ~w.err /\ CacheOk(w)
  BY DEF FullOf
<1>2. ~w.auto /\ Known(w)
  BY <1>1, TrustedIs
<1> QED
  BY <1>1, <1>2 DEF Good

LEMMA OpFull ==
    ASSUME NEW w, NEW g, FullOf(w, g), NEW o, Later(w, o), NEW R, NEW h, Outcome(w, o, R, h), w.link = "down" => h = g,
           NEW n, n = Settle(o)
    PROVE  IF Trusted(w) THEN FullOf(n, h) /\ o.touched \subseteq R ELSE LapsedOf(n)
<1>0. Shape(o) /\ Shape(w) /\ w.link \in {"up", "down"}
  BY DEF Later, FullOf, Shape
<1>1. CASE ~Trusted(w)
  <2>1. w.faults # 0 /\ w.faults \in Nat /\ o.faults \in Nat /\ o.faults >= w.faults
    BY <1>0, <1>1 DEF FullOf, Later, Shape
  <2>2. Shape(n) /\ n.faults = o.faults
    BY <1>0, SettleIs DEF SettledTo
  <2>3. n.faults # 0
    BY <2>1, <2>2
  <2> QED
    BY <1>1, <2>2, <2>3 DEF LapsedOf
<1>2. CASE Trusted(w) /\ w.link = "up"
  <2>1. Good(w)
    BY <1>2, FullGood
  <2>2. /\ Shape(o) /\ o.link = "up" /\ CacheOk(o) /\ o.touched \subseteq R /\ Visible(o) = h
        /\ (Known(o) /\ ~o.auto) \/ o.faults > 0
    BY <2>1 DEF Outcome
  <2>3. FullOf(n, h)
    BY <2>2, SettleUp
  <2> QED
    BY <1>2, <2>2, <2>3
<1>3. CASE Trusted(w) /\ w.link = "down"
  <2>1. o.link = "down" /\ o.hart = "running" /\ o.gpr = Zero /\ o.touched = {} /\ h = Zero
    BY <1>3 DEF FullOf, Later
  <2>2. FullOf(n, Zero)
    BY <1>0, <2>1, SettleDown
  <2> QED
    BY <1>3, <2>1, <2>2
<1> QED
  BY <1>0, <1>1, <1>2, <1>3

-----------------------------------------------------------------------------
(* The invariant, and one lemma for each operation.                        *)

HartInv ==
    /\ lapse \in BOOLEAN /\ ~wrong
    /\ IF lapse THEN LapsedOf(m) ELSE FullOf(m, real) /\ ~stray

\* The part of Ends that does not depend on what the operation was asked to do.
EndsIn(o, R) == m' = Settle(o) /\ lapse' = ~Trusted(m) /\ stray' = (stray \/ ~(o.touched \subseteq R))

LEMMA Begin ==
    ASSUME HartInv, ~lapse
    PROVE  /\ FullOf(m, real) /\ Shape(m) /\ ~m.err /\ ~stray /\ ~wrong
           /\ m.link = "up" /\ Trusted(m) => Good(m)
           /\ Good(m) => Visible(m) = real
<1>1. FullOf(m, real) /\ ~stray /\ ~wrong
  BY DEF HartInv
<1>2. Shape(m) /\ ~m.err /\ (m.link = "up" => Visible(m) = real)
  BY <1>1 DEF FullOf
<1>3. m.link = "up" /\ Trusted(m) => Good(m)
  BY <1>1, FullGood
<1> QED
  BY <1>1, <1>2, <1>3 DEF Good

LEMMA EndsInv ==
    ASSUME HartInv, ~lapse, NEW o, NEW R, EndsIn(o, R), Later(m, o), Outcome(m, o, R, real'),
           m.link = "down" => real' = real, ~wrong'
    PROVE  HartInv'
<1>1. FullOf(m, real) /\ ~stray
  BY DEF HartInv
<1>2. m' = Settle(o) /\ lapse' = ~Trusted(m) /\ stray' = (stray \/ ~(o.touched \subseteq R))
  BY DEF EndsIn
<1>3. IF Trusted(m) THEN FullOf(m', real') /\ o.touched \subseteq R ELSE LapsedOf(m')
  BY <1>1, <1>2, OpFull
<1>4. lapse' \in BOOLEAN
  BY <1>2
<1>5. CASE Trusted(m)
  <2>1. ~lapse' /\ ~stray'
    BY <1>1, <1>2, <1>3, <1>5
  <2> QED
    BY <1>3, <1>4, <1>5, <2>1 DEF HartInv
<1>6. CASE ~Trusted(m)
  <2>1. lapse'
    BY <1>2, <1>6
  <2> QED
    BY <1>3, <1>4, <1>6, <2>1 DEF HartInv
<1> QED
  BY <1>5, <1>6

LEMMA LeavesInv ==
    ASSUME HartInv, ~lapse, NEW o, NEW R, EndsIn(o, R), Later(m, o), Good(m) => Leaves(m, o, R),
           UNCHANGED real, ~wrong'
    PROVE  HartInv'
<1>1. FullOf(m, real)
  BY DEF HartInv
<1>2. Outcome(m, o, R, real)
  BY <1>1, LeavesOutcome
<1>3. Outcome(m, o, R, real')
  BY <1>2
<1> QED
  BY <1>3, EndsInv

LEMMA ReadRegistersInv == ASSUME HartInv, ReadRegisters, UNCHANGED real PROVE HartInv'
<1>1. PICK o \in Saved(m) : /\ ~lapse /\ EndsIn(o, {})
                            /\ wrong' = (wrong \/ (m.link = "up" /\ Trusted(m) /\ ~o.err /\ ~(Visible(o) = real)))
  BY DEF ReadRegisters, Ends, EndsIn, Settle
<1>2. Shape(m) /\ ~m.err /\ ~wrong /\ (m.link = "up" /\ Trusted(m) => Good(m)) /\ (Good(m) => Visible(m) = real)
  BY <1>1, Begin
<1>3. Later(m, o)
  BY <1>2, SavedLater
<1>4. Good(m) => Leaves(m, o, {})
  BY SavedLeaves
<1>5. Good(m) => Visible(o) = real
  BY <1>2, <1>4 DEF Leaves, Open, Holds
<1>6. ~wrong'
  BY <1>1, <1>2, <1>5
<1> QED
  BY <1>1, <1>3, <1>4, <1>6, LeavesInv

LEMMA ReadControlInv == ASSUME HartInv, ReadControl, UNCHANGED real PROVE HartInv'
<1>1. PICK o \in ReadCsr(m) : /\ ~lapse /\ EndsIn(o, {})
                              /\ wrong' = (wrong \/ (m.link = "up" /\ Trusted(m) /\ ~o.err /\ ~(o.out = <<m.csr>>)))
  BY DEF ReadControl, Ends, EndsIn, Settle
<1>2. Shape(m) /\ ~m.err /\ ~wrong /\ (m.link = "up" /\ Trusted(m) => Good(m))
  BY <1>1, Begin
<1>3. Later(m, o)
  BY <1>2, ReadCsrLater
<1>4. Good(m) => Leaves(m, o, {}) /\ (~o.err => o.out = <<m.csr>>)
  BY ReadCsrLeaves
<1>5. ~wrong'
  BY <1>1, <1>2, <1>4
<1> QED
  BY <1>1, <1>3, <1>4, <1>5, LeavesInv

LEMMA WriteControlInv == ASSUME HartInv, WriteControl, UNCHANGED real PROVE HartInv'
<1>1. PICK v \in Words : Ends(WriteCsr(m, v), "idle", LAMBDA o : o.csr = v, {})
  BY DEF WriteControl
<1>2. PICK o \in WriteCsr(m, v) : /\ ~lapse /\ EndsIn(o, {})
                                  /\ wrong' = (wrong \/ (m.link = "up" /\ Trusted(m) /\ ~o.err /\ ~(o.csr = v)))
  BY <1>1 DEF Ends, EndsIn, Settle
<1>3. Shape(m) /\ ~m.err /\ ~wrong /\ (m.link = "up" /\ Trusted(m) => Good(m))
  BY <1>2, Begin
<1>4. Later(m, o)
  BY <1>3, WriteCsrLater
<1>5. Good(m) => Leaves(m, o, {}) /\ (~o.err => o.csr = v)
  BY WriteCsrLeaves
<1>6. ~wrong'
  BY <1>2, <1>3, <1>5
<1> QED
  BY <1>2, <1>4, <1>5, <1>6, LeavesInv

\* The operations that promise nothing more.
LEMMA BusAccessInv == ASSUME HartInv, BusAccess, UNCHANGED real PROVE HartInv'
<1>1. PICK o \in Select(m, "mem") : ~lapse /\ EndsIn(o, {}) /\ wrong' = (wrong \/ FALSE)
  BY DEF BusAccess, Ends, EndsIn, Settle, Free
<1>2. Shape(m) /\ ~m.err /\ ~wrong
  BY <1>1, Begin
<1>3. Later(m, o)
  BY <1>2, SelectLater
<1>4. Good(m) => Leaves(m, o, {})
  BY SelectLeaves
<1> QED
  BY <1>1, <1>2, <1>3, <1>4, LeavesInv

LEMMA SyncCodeInv == ASSUME HartInv, SyncCode, UNCHANGED real PROVE HartInv'
<1>1. Ends(Syncing(m), "idle", Free, {})
  BY Zenon DEF SyncCode, Syncing, Synced, FenceRun, ExecBatch, WhenHalted, Then, Ends
<1>2. PICK o \in Syncing(m) : ~lapse /\ EndsIn(o, {}) /\ wrong' = (wrong \/ FALSE)
  BY <1>1 DEF Ends, EndsIn, Settle, Free
<1>3. Shape(m) /\ ~m.err /\ ~wrong
  BY <1>2, Begin
<1>4. Later(m, o)
  BY <1>3, SyncingLater
<1>5. Good(m) => Leaves(m, o, {})
  BY SyncingLeaves
<1> QED
  BY <1>2, <1>3, <1>4, <1>5, LeavesInv

LEMMA CloseInv == ASSUME HartInv, Close, UNCHANGED real PROVE HartInv'
<1>1. PICK o \in RestoreRegisters(m) :
        /\ ~lapse /\ EndsIn(o, {})
        /\ wrong' = (wrong \/ (m.link = "up" /\ Trusted(m) /\ ~o.err /\ ~(o.gpr = real)))
  BY DEF Close, Ends, EndsIn, Settle
<1>2. Shape(m) /\ ~m.err /\ ~wrong /\ (m.link = "up" /\ Trusted(m) => Good(m)) /\ (Good(m) => Visible(m) = real)
  BY <1>1, Begin
<1>3. Later(m, o)
  BY <1>2, RestoreLater
<1>4. Good(m) => Leaves(m, o, {}) /\ (~o.err => o.gpr = Visible(m))
  BY RestoreLeaves
<1>5. ~wrong'
  BY <1>1, <1>2, <1>4
<1> QED
  BY <1>1, <1>3, <1>4, <1>5, LeavesInv

LEMMA HaltInv == ASSUME HartInv, Halt, UNCHANGED real PROVE HartInv'
<1>1. PICK o \in DmAccess(m, <<<<"halt">>>>) : ~lapse /\ EndsIn(o, {}) /\ wrong' = (wrong \/ FALSE)
  BY DEF Halt, Ends, EndsIn, Settle, Free
<1>2. Shape(m) /\ ~m.err /\ ~wrong
  BY <1>1, Begin
<1>3. Later(m, o)
  <2> DEFINE x == <<"halt">>
  <2>1. x \in {<<"run">>, <<"halt">>, <<"reset">>} /\ o \in DmAccess(m, <<x>>)
    OBVIOUS
  <2> HIDE DEF x
  <2> QED
    BY <1>2, <2>1, OneLater
<1>4. Good(m) => Leaves(m, o, {})
  BY HaltLeaves
<1> QED
  BY <1>1, <1>2, <1>3, <1>4, LeavesInv

LEMMA ResumeInv ==
    ASSUME HartInv, NEW step, NEW p, Ends(Resume(m, step), p, Free, {}), UNCHANGED real
    PROVE  HartInv'
<1>1. PICK o \in Resume(m, step) : ~lapse /\ EndsIn(o, {}) /\ wrong' = (wrong \/ FALSE)
  BY DEF Ends, EndsIn, Settle, Free
<1>2. Shape(m) /\ ~m.err /\ ~wrong
  BY <1>1, Begin
<1>3. Later(m, o)
  BY <1>2, ResumeLater
<1>4. Good(m) => Leaves(m, o, {})
  BY ResumeLeaves
<1> QED
  BY <1>1, <1>2, <1>3, <1>4, LeavesInv

LEMMA ContinueInv == ASSUME HartInv, Continue, UNCHANGED real PROVE HartInv'
<1>1. Ends(Resume(m, FALSE), "idle", Free, {})
  BY DEF Continue
<1> QED
  BY <1>1, ResumeInv

LEMMA StepInv == ASSUME HartInv, Step, UNCHANGED real PROVE HartInv'
<1>1. Ends(Resume(m, TRUE), "stepping", Free, {})
  BY DEF Step
<1> QED
  BY <1>1, ResumeInv

LEMMA StepEndsInv == ASSUME HartInv, StepEnds, UNCHANGED real PROVE HartInv'
<1>1. Ends(Clearing(m), "idle", LAMBDA o : ~o.step, {})
  BY Zenon DEF StepEnds, Clearing, Cleared, ExecBatch, WhenHalted, Then, Ends
<1>2. PICK o \in Clearing(m) : /\ ~lapse /\ EndsIn(o, {})
                               /\ wrong' = (wrong \/ (m.link = "up" /\ Trusted(m) /\ ~o.err /\ ~~o.step))
  BY <1>1 DEF Ends, EndsIn, Settle
<1>3. Shape(m) /\ ~m.err /\ ~wrong /\ (m.link = "up" /\ Trusted(m) => Good(m))
  BY <1>2, Begin
<1>4. Later(m, o)
  BY <1>3, ClearingLater
<1>5. Good(m) => Leaves(m, o, {}) /\ (~o.err => ~o.step)
  BY ClearingLeaves
<1>6. ~wrong'
  BY <1>2, <1>3, <1>5
<1> QED
  BY <1>2, <1>4, <1>5, <1>6, LeavesInv

LEMMA ReadMemoryInv ==
    ASSUME HartInv, NEW a \in Memory, NEW n \in 1 .. Top, ReadMemory(a, n), UNCHANGED real
    PROVE  HartInv'
<1>0. a \in Int /\ n \in Nat \ {0} /\ n \in Nat
  BY TopAssumption DEF Memory
<1> DEFINE R == a .. a + n - 1
<1>1. Ends(Reading(m, a, n), "idle", LAMBDA o : o.out = [i \in 1 .. n |-> m.mem[a + i - 1]], R)
  BY DEF ReadMemory, Reading
<1>2. PICK o \in Reading(m, a, n) :
        /\ ~lapse /\ EndsIn(o, R)
        /\ wrong' = (wrong \/ (m.link = "up" /\ Trusted(m) /\ ~o.err /\ ~(o.out = WordsOf(m.mem, a, n))))
  BY <1>1, Zenon DEF Ends, EndsIn, Settle, WordsOf
<1>3. Shape(m) /\ ~m.err /\ ~wrong /\ (m.link = "up" /\ Trusted(m) => Good(m))
  BY <1>2, Begin
<1>4. Later(m, o)
  BY <1>0, <1>3, ReadingLater
<1>5. Good(m) => Leaves(m, o, R) /\ (~o.err => o.out = WordsOf(m.mem, a, n))
  BY <1>0, ReadingLeaves
<1> HIDE DEF R
<1>6. ~wrong'
  BY <1>2, <1>3, <1>5
<1> QED
  BY <1>2, <1>4, <1>5, <1>6, LeavesInv

\* What WriteMemory writes.
New(x) == (x + 1) % (Top + 1)
NewWords(a, n) == [i \in 1 .. n |-> New(a + i - 1)]
NewMem(f, a, n) == [x \in Memory |-> IF x \in a .. a + n - 1 THEN New(x) ELSE f[x]]

LEMMA NewWordsIs ==
    ASSUME NEW f, NEW a \in Int, NEW n \in Nat
    PROVE  /\ Len(NewWords(a, n)) = n
           /\ Stored(f, a, NewWords(a, n), n) = NewMem(f, a, n)
<1> DEFINE w == NewWords(a, n)
           h == Stored(f, a, w, n)
           g == [x \in Memory |-> IF x \in a .. a + n - 1 THEN New(x) ELSE f[x]]
<1>1. w = [i \in 1 .. n |-> w[i]] /\ \A i \in 1 .. n : w[i] = New(a + i - 1)
  BY DEF NewWords
<1> HIDE DEF w
<1>2. Len(w) = n
  BY <1>1, FunSeq
<1>3. ASSUME NEW x \in Memory, x \in a .. a + n - 1 PROVE w[x - a + 1] = New(x)
  <2>0. x \in Int
    BY TopAssumption DEF Memory
  <2>1. x - a + 1 \in 1 .. n /\ a + (x - a + 1) - 1 = x
    BY <1>3, <2>0
  <2> QED
    BY <1>1, <2>1
<1>4. \A x \in Memory : (IF x \in a .. a + n - 1 THEN w[x - a + 1] ELSE f[x])
                            = (IF x \in a .. a + n - 1 THEN New(x) ELSE f[x])
  BY <1>3
<1>5. h = [x \in Memory |-> IF x \in a .. a + n - 1 THEN w[x - a + 1] ELSE f[x]]
  BY DEF Stored
<1>6. h = g
  BY <1>4, <1>5
<1>7. g = NewMem(f, a, n)
  BY DEF NewMem
<1> HIDE DEF g, h
<1>8. h = NewMem(f, a, n)
  BY <1>6, <1>7
<1> QED
  BY <1>2, <1>8 DEF w, h

LEMMA WriteMemoryInv ==
    ASSUME HartInv, NEW a \in Memory, NEW n \in 1 .. Top, WriteMemory(a, n), UNCHANGED real
    PROVE  HartInv'
<1> DEFINE k == n - 1
           R == a .. a + n - 1
           ws == NewWords(a, n)
           g == Stored(m.mem, a, ws, n)
<1>0. a \in Int /\ n \in Nat /\ k \in Nat /\ n = k + 1 /\ R = a .. a + k
  BY TopAssumption DEF Memory
<1>1. Ends(Writing(m, a, ws), "idle",
           LAMBDA o : o.mem = NewMem(m.mem, a, n), R)
  BY Zenon DEF WriteMemory, Writing, NewWords, New, NewMem
<1>2. Len(ws) = n /\ g = NewMem(m.mem, a, n)
  BY <1>0, NewWordsIs
<1> HIDE DEF ws
<1>3. PICK o \in Writing(m, a, ws) :
        /\ ~lapse /\ EndsIn(o, R)
        /\ wrong' = (wrong \/ (m.link = "up" /\ Trusted(m) /\ ~o.err /\ ~(o.mem = g)))
  <2> HIDE DEF g
  <2> QED
    BY <1>1, <1>2 DEF Ends, EndsIn, Settle
<1>4. Shape(m) /\ ~m.err /\ ~wrong /\ (m.link = "up" /\ Trusted(m) => Good(m))
  BY <1>3, Begin
<1> HIDE DEF k
<1>5. Later(m, o)
  BY <1>0, <1>2, <1>4, WritingLater
<1>6. Good(m) => Leaves(m, o, R) /\ (~o.err => o.mem = g)
  <2>1. Good(m) => Written(m, o, a, ws, k)
    BY <1>0, <1>2, WritingLeaves
  <2> QED
    BY <1>0, <2>1 DEF Written
<1> HIDE DEF R, g
<1>7. ~wrong'
  BY <1>3, <1>4, <1>6
<1> QED
  BY <1>3, <1>5, <1>6, <1>7, LeavesInv

\* A register write: the user knows the register to be what it is found to be.
LEMMA WriteRegisterInv ==
    ASSUME HartInv, NEW r \in Regs, NEW v \in Words, WriteRegister(r, v)
    PROVE  HartInv'
<1>1. PICK o \in WriteGpr(m, r, v) :
        /\ ~lapse /\ EndsIn(o, {})
        /\ wrong' = (wrong \/ (m.link = "up" /\ Trusted(m) /\ ~o.err /\ ~(Visible(o)[r] = v)))
  BY DEF WriteRegister, Ends, EndsIn, Settle
<1>2. real' = IF m.link = "up" /\ Visible(m')[r] = v THEN [real EXCEPT ![r] = v] ELSE real
  BY DEF WriteRegister
<1>3. Shape(m) /\ ~m.err /\ ~wrong /\ (m.link = "up" /\ Trusted(m) => Good(m)) /\ (Good(m) => Visible(m) = real)
  BY <1>1, Begin
<1>4. Later(m, o) /\ Shape(o)
  <2>1. Later(m, o)
    BY <1>3, WriteGprLater
  <2> QED
    BY <2>1 DEF Later
<1>5. Good(m) => Rewrites(m, o, r, v)
  BY WriteGprRewrites
<1>6. ~wrong'
  BY <1>1, <1>3, <1>5 DEF Rewrites
<1>7. Visible(m') = Visible(o)
  BY <1>1, <1>4, SettleSees DEF EndsIn
<1>8. m.link = "down" => real' = real
  BY <1>2
<1>9. Outcome(m, o, {}, real')
  <2>1. SUFFICES ASSUME Good(m)
        PROVE  /\ Shape(o) /\ o.link = "up" /\ CacheOk(o) /\ o.touched \subseteq {} /\ Visible(o) = real'
               /\ (Known(o) /\ ~o.auto) \/ o.faults > 0
    BY DEF Outcome
  <2>2. /\ o.link = "up" /\ CacheOk(o) /\ o.touched \subseteq m.touched
        /\ Visible(o)[r] \in {Visible(m)[r], v}
        /\ \A q \in Regs : q # r => Visible(o)[q] = Visible(m)[q]
        /\ (Known(o) /\ ~o.auto) \/ o.faults > 0
    BY <1>5, <2>1 DEF Rewrites
  <2>3. m.touched = {} /\ m.link = "up"
    BY <1>1, <2>1, Begin DEF FullOf, Good
  <2>4. real = Visible(m) /\ real = [q \in Regs |-> real[q]]
    <3>1. real = Visible(m)
      BY <1>3, <2>1
    <3> QED
      BY <3>1, VisibleAt
  <2>5. Visible(o) = real'
    <3> DEFINE e == [real EXCEPT ![r] = v]
               s == Visible(o)
    <3>1. s = [q \in Regs |-> s[q]]
      BY VisibleAt
    <3>2. s[r] \in {real[r], v} /\ \A q \in Regs : q # r => s[q] = real[q]
      BY <2>2, <2>4
    <3>3. real' = IF s[r] = v THEN e ELSE real
      BY <1>2, <1>7, <2>3
    <3>4. e = [q \in Regs |-> e[q]] /\ \A q \in Regs : e[q] = IF q = r THEN v ELSE real[q]
      BY <2>4, FunExcept
    <3> HIDE DEF e, s
    <3>5. CASE s[r] = v
      <4>1. \A q \in Regs : s[q] = e[q]
        BY <3>2, <3>4, <3>5
      <4>2. [q \in Regs |-> s[q]] = [q \in Regs |-> e[q]]
        BY <4>1
      <4>3. s = e
        BY <3>1, <3>4, <4>2
      <4> QED
        BY <3>3, <3>5, <4>3 DEF s
    <3>6. CASE s[r] # v
      <4>1. \A q \in Regs : s[q] = real[q]
        BY <3>2, <3>6
      <4>2. [q \in Regs |-> s[q]] = [q \in Regs |-> real[q]]
        BY <4>1
      <4>3. s = real
        BY <2>4, <3>1, <4>2
      <4> QED
        BY <3>3, <3>6, <4>3 DEF s
    <3> QED
      BY <3>5, <3>6
  <2> QED
    BY <1>4, <2>2, <2>3, <2>5
<1> QED
  BY <1>1, <1>4, <1>6, <1>8, <1>9, EndsInv

\* After a reset the registers are the chip's.
LEMMA ResetInv == ASSUME HartInv, Reset PROVE HartInv'
<1>1. PICK o \in ResetHalt(m) : m' = Settle(o)
  <2>1. \E o \in ResetHalt(m) : m' = Settled([o EXCEPT !.err = FALSE, !.out = <<>>, !.touched = {}])
    BY Zenon DEF Reset
  <2> QED
    BY <2>1, Zenon DEF Settle
<1>2. /\ ~lapse /\ lapse' = (~Trusted(m) \/ (m.link = "up" /\ m'.cache # NoRegs))
      /\ real' = (IF m.link = "up" THEN m'.gpr ELSE real) /\ stray' = stray /\ wrong' = wrong
  BY DEF Reset
<1>3. Shape(m) /\ ~m.err /\ ~wrong /\ ~stray /\ FullOf(m, real)
  BY <1>2, Begin
<1>4. Later(m, o) /\ Shape(o)
  <2>1. Later(m, o)
    BY <1>3, ResetLater
  <2> QED
    BY <2>1 DEF Later
<1>5. SettledTo(o, m')
  BY <1>1, <1>4, SettleIs
<1>6. Good(m) => /\ o.link = "up" /\ CacheOk(o) /\ o.touched = {}
                 /\ (Known(o) /\ ~o.auto) \/ o.faults > 0
                 /\ o.cache = NoRegs \/ o.faults > 0
  <2>1. Good(m) => m.touched = {}
    BY <1>2, Begin DEF FullOf
  <2> QED
    BY <1>1, <2>1, ResetLeaves
<1>7. CASE Trusted(m) /\ m.link = "up" /\ m'.cache # NoRegs
  <2>1. Good(m)
    BY <1>2, <1>7, Begin
  <2>2. o.faults > 0
    BY <1>5, <1>6, <1>7, <2>1 DEF SettledTo
  <2>3. LapsedOf(m')
    BY <1>4, <1>5, <2>2 DEF LapsedOf, SettledTo, Shape
  <2> QED
    BY <1>2, <1>3, <1>7, <2>3 DEF HartInv
<1>8. CASE ~(Trusted(m) /\ m.link = "up" /\ m'.cache # NoRegs)
  <2>1. lapse' = ~Trusted(m)
    BY <1>2, <1>8
  <2>2. Good(m) => o.touched = {} /\ Trusted(m) /\ m.link = "up"
    BY <1>6, TrustedIs DEF Good, Known
  <2>3. Outcome(m, o, {}, real')
    <3>1. SUFFICES ASSUME Good(m)
          PROVE  /\ Shape(o) /\ o.link = "up" /\ CacheOk(o) /\ o.touched \subseteq {} /\ Visible(o) = real'
                 /\ (Known(o) /\ ~o.auto) \/ o.faults > 0
      BY DEF Outcome
    <3>2. m'.cache = NoRegs /\ o.cache = NoRegs
      BY <1>5, <1>8, <2>2, <3>1 DEF SettledTo
    <3>3. \A r \in Regs : Visible(m')[r] = m'.gpr[r]
      BY <3>2, VisibleAt DEF Spare
    <3>4. Visible(m') = m'.gpr
      <4>1. Visible(m') = [r \in Regs |-> Visible(m')[r]] /\ m'.gpr = [r \in Regs |-> m'.gpr[r]]
        BY <1>5, VisibleAt DEF SettledTo
      <4>2. [r \in Regs |-> Visible(m')[r]] = [r \in Regs |-> m'.gpr[r]]
        BY <3>3
      <4> QED
        BY <4>1, <4>2
    <3>5. Visible(m') = Visible(o)
      BY <1>1, <1>4, SettleSees
    <3> QED
      BY <1>2, <1>4, <1>6, <2>2, <3>1, <3>4, <3>5
  <2>4. IF Trusted(m) THEN FullOf(m', real') /\ o.touched \subseteq {} ELSE LapsedOf(m')
    <3>1. m.link = "down" => real' = real
      BY <1>2, <1>3 DEF Shape
    <3> QED
      BY <1>1, <1>3, <1>4, <2>3, <3>1, OpFull
  <2> QED
    BY <1>2, <1>3, <2>1, <2>4 DEF HartInv
<1> QED
  BY <1>7, <1>8

LEMMA ReattachInv == ASSUME HartInv, Reattach, UNCHANGED real PROVE HartInv'
<1> DEFINE anew == [m EXCEPT !.link = "up", !.ap = "dm", !.auto = FALSE, !.cmderr = FALSE]
           f == [anew EXCEPT !.cache = NoRegs, !.clobbered = {}]
           o == [f EXCEPT !.progbuf = Unknown]
<1>1. m.link = "down" /\ Ends({o}, "idle", Free, {})
  BY DEF Reattach, ForgetState, Forget
<1>2. /\ ~lapse /\ m' = Settle(o) /\ lapse' = ~Trusted(m)
      /\ stray' = (stray \/ ~(o.touched \subseteq {})) /\ wrong' = (wrong \/ FALSE)
  <2> HIDE DEF o
  <2> QED
    BY <1>1 DEF Ends, Settle, Free
<1>3. FullOf(m, real) /\ Shape(m) /\ ~stray /\ ~wrong /\ m.touched = {}
  BY <1>2, Begin DEF FullOf
<1>4. Shape(o) /\ o.link = "up" /\ o.cache = NoRegs /\ ~o.auto /\ o.touched = {} /\ o.gpr = m.gpr
      /\ o.progbuf = Unknown
  <2>1. /\ Shape(anew) /\ anew.link = "up" /\ ~anew.auto /\ anew.touched = {} /\ anew.gpr = m.gpr
    BY <1>3 DEF Shape, Fields
  <2> HIDE DEF anew
  <2>2. /\ Shape(f) /\ f.link = "up" /\ ~f.auto /\ f.touched = {} /\ f.gpr = m.gpr /\ f.cache = NoRegs
    BY <2>1 DEF Shape, Fields
  <2> HIDE DEF f
  <2> QED
    BY <2>2 DEF Shape, Fields
<1> HIDE DEF o
<1>5. Trusted(m) /\ m.gpr = Zero /\ real = Zero
  BY <1>1, <1>3 DEF FullOf, Trusted
<1>6. CacheOk(o) /\ Known(o)
  <2>1. \A i \in 0 .. 2 : Agrees(o, o, i)
    BY <1>4 DEF Agrees, Unknown
  <2> QED
    BY <1>4, <2>1 DEF CacheOk, Known
<1>7. Visible(o) = real
  <2>1. Visible(o) = [r \in Regs |-> o.gpr[r]]
    BY <1>4 DEF Visible
  <2> QED
    BY <1>4, <1>5, <2>1 DEF Shape
<1>8. FullOf(m', real)
  BY <1>2, <1>4, <1>6, <1>7, SettleUp
<1>9. ~lapse' /\ ~stray' /\ ~wrong' /\ lapse' \in BOOLEAN
  BY <1>2, <1>3, <1>4, <1>5
<1>10. FullOf(m', real')
  BY <1>8
<1> QED
  BY <1>9, <1>10 DEF HartInv

-----------------------------------------------------------------------------
(* The target.                                                             *)

\* A running hart has no saved registers, so those it stops with are what the
\* user sees.
LEMMA HartStopsInv == ASSUME HartInv, HartStops PROVE HartInv'
<1>1. PICK g \in [Regs -> Words] : m' = [m EXCEPT !.hart = "halted", !.gpr = g] /\ real' = g
  BY DEF HartStops
<1>2. m.hart = "running" /\ m.link = "up" /\ lapse' = lapse /\ stray' = stray /\ wrong' = wrong
  BY DEF HartStops
<1>3. lapse \in BOOLEAN /\ ~wrong /\ Shape(m)
  BY DEF HartInv, FullOf, LapsedOf
<1> DEFINE n == [m EXCEPT !.hart = "halted", !.gpr = g]
<1>4. /\ Shape(n) /\ n.err = m.err /\ n.touched = m.touched /\ n.faults = m.faults /\ n.link = m.link
      /\ n.hart = "halted" /\ n.cache = m.cache /\ n.clobbered = m.clobbered
      /\ n.progbuf = m.progbuf /\ n.pb = m.pb /\ n.auto = m.auto /\ n.gpr = g
  BY <1>3 DEF Shape, Fields
<1>5. m' = n
  BY <1>1
<1> HIDE DEF n
<1>6. CASE lapse
  <2>1. LapsedOf(m)
    BY <1>6 DEF HartInv
  <2>2. LapsedOf(n)
    BY <1>4, <2>1 DEF LapsedOf
  <2>3. LapsedOf(m')
    BY <1>5, <2>2
  <2> QED
    BY <1>2, <1>3, <1>6, <2>3 DEF HartInv
<1>7. CASE ~lapse
  <2>1. FullOf(m, real) /\ ~stray
    BY <1>7 DEF HartInv
  <2>2. ~m.err /\ m.touched = {} /\ CacheOk(m) /\ (m.faults = 0 => Trusted(m))
    BY <1>2, <2>1 DEF FullOf
  <2>3. n.cache = NoRegs
    BY <1>2, <1>4, <2>2 DEF CacheOk
  <2>4. n.faults = 0 => Trusted(n)
    BY <1>2, <1>4, <2>2, <2>3 DEF Trusted
  <2>5. Visible(n) = g
    <3>1. Visible(n) = [r \in Regs |-> n.gpr[r]]
      BY <2>3 DEF Visible
    <3> QED
      BY <1>4, <3>1 DEF Shape
  <2>6. n.link = "up" /\ ~n.err /\ n.touched = {} /\ CacheOk(n)
    BY <1>2, <1>4, <2>2, <2>3 DEF CacheOk
  <2>7. FullOf(n, g)
    BY <1>4, <2>4, <2>5, <2>6 DEF FullOf
  <2>8. FullOf(m', real')
    BY <1>1, <1>5, <2>7
  <2> QED
    BY <1>2, <1>3, <1>7, <2>1, <2>8 DEF HartInv
<1> QED
  BY <1>3, <1>6, <1>7

LEMMA ChipResetInv == ASSUME HartInv, ChipReset PROVE HartInv'
<1> DEFINE n == [m EXCEPT !.link = "down", !.hart = "running", !.gpr = [r \in Regs |-> 0],
                          !.pb = [i \in 0 .. 2 |-> "junk"], !.data0 = 0, !.last = CMD_EXEC,
                          !.auto = FALSE, !.cmderr = FALSE, !.step = FALSE]
<1>1. m' = n /\ real' = [r \in Regs |-> 0] /\ lapse' = lapse /\ stray' = stray /\ wrong' = wrong
  BY DEF ChipReset
<1>2. real' = Zero
  BY <1>1 DEF Zero
<1>3. lapse \in BOOLEAN /\ ~wrong /\ Shape(m)
  BY DEF HartInv, FullOf, LapsedOf
<1>4. /\ Shape(n) /\ n.err = m.err /\ n.touched = m.touched /\ n.faults = m.faults
      /\ n.link = "down" /\ n.hart = "running" /\ n.gpr = Zero
  BY <1>3 DEF Shape, Fields, Zero
<1> HIDE DEF n
<1>5. CASE lapse
  <2>1. LapsedOf(m)
    BY <1>5 DEF HartInv
  <2>2. LapsedOf(n)
    BY <1>4, <2>1 DEF LapsedOf
  <2>3. LapsedOf(m')
    BY <1>1, <2>2
  <2> QED
    BY <1>1, <1>3, <1>5, <2>3 DEF HartInv
<1>6. CASE ~lapse
  <2>1. FullOf(m, real) /\ ~stray
    BY <1>6 DEF HartInv
  <2>2. ~n.err /\ n.touched = {} /\ Trusted(n)
    BY <1>4, <2>1 DEF FullOf, Trusted
  <2>3. FullOf(n, Zero)
    BY <1>4, <2>2 DEF FullOf
  <2>4. FullOf(m', real')
    BY <1>1, <1>2, <2>3
  <2> QED
    BY <1>1, <1>3, <1>6, <2>1, <2>4 DEF HartInv
<1> QED
  BY <1>3, <1>5, <1>6

-----------------------------------------------------------------------------
(* The theorems.                                                           *)

LEMMA InitInv == ASSUME Init PROVE HartInv
<1>1. PICK g \in [Regs -> Words] :
        /\ m = [cache |-> NoRegs, clobbered |-> {}, progbuf |-> Unknown, ap |-> "dm", gpr |-> g,
                pb |-> [i \in 0 .. 2 |-> "junk"], data0 |-> 0, last |-> CMD_EXEC, auto |-> FALSE,
                cmderr |-> FALSE, mem |-> Contents, csr |-> Top, step |-> FALSE, hart |-> "running",
                link |-> "up", faults |-> 0, touched |-> {}, out |-> <<>>, err |-> FALSE]
        /\ real = g
  BY DEF Init
<1>2. lapse = FALSE /\ stray = FALSE /\ wrong = FALSE
  BY DEF Init
<1>3. Contents = [x \in Memory |-> Contents[x]] /\ g = [r \in Regs |-> g[r]]
  BY DEF Contents
<1>4. /\ Shape(m) /\ ~m.err /\ m.touched = {} /\ m.link = "up" /\ m.cache = NoRegs
      /\ m.progbuf = Unknown /\ ~m.auto /\ m.gpr = g
  BY <1>1, <1>3 DEF Shape, Fields
<1>5. CacheOk(m)
  BY <1>4 DEF CacheOk
<1>6. Trusted(m)
  BY <1>4 DEF Trusted, Unknown
<1>7. Visible(m) = real
  <2>1. Visible(m) = [r \in Regs |-> m.gpr[r]]
    BY <1>4 DEF Visible
  <2> QED
    BY <1>1, <1>4, <2>1 DEF Shape
<1>8. FullOf(m, real)
  BY <1>4, <1>5, <1>6, <1>7 DEF FullOf
<1> QED
  BY <1>2, <1>8 DEF HartInv

LEMMA OperationInv == ASSUME HartInv, Operation, UNCHANGED real PROVE HartInv'
<1>1. CASE ReadRegisters
  BY <1>1, ReadRegistersInv
<1>2. CASE ReadControl
  BY <1>2, ReadControlInv
<1>3. CASE WriteControl
  BY <1>3, WriteControlInv
<1>4. CASE BusAccess
  BY <1>4, BusAccessInv
<1>5. CASE SyncCode
  BY <1>5, SyncCodeInv
<1>6. CASE Close
  BY <1>6, CloseInv
<1>7. CASE Halt
  BY <1>7, HaltInv
<1>8. CASE Continue
  BY <1>8, ContinueInv
<1>9. CASE Step
  BY <1>9, StepInv
<1>10. CASE StepEnds
  BY <1>10, StepEndsInv
<1>11. CASE Reattach
  BY <1>11, ReattachInv
<1>12. CASE \E a \in Memory, n \in 1 .. Top : a + n <= Top + 1 /\ (ReadMemory(a, n) \/ WriteMemory(a, n))
  <2>1. PICK a \in Memory, n \in 1 .. Top : ReadMemory(a, n) \/ WriteMemory(a, n)
    BY <1>12
  <2>2. CASE ReadMemory(a, n)
    BY <2>2, ReadMemoryInv
  <2>3. CASE WriteMemory(a, n)
    BY <2>3, WriteMemoryInv
  <2> QED
    BY <2>1, <2>2, <2>3
<1> QED
  BY Zenon, <1>1, <1>2, <1>3, <1>4, <1>5, <1>6, <1>7, <1>8, <1>9, <1>10, <1>11, <1>12 DEF Operation

LEMMA NextInv == ASSUME HartInv, [Next]_vars PROVE HartInv'
<1>1. CASE Operation /\ UNCHANGED real
  BY <1>1, OperationInv
<1>2. CASE \E r \in Regs, v \in Words : WriteRegister(r, v)
  BY <1>2, WriteRegisterInv
<1>3. CASE Reset
  BY <1>3, ResetInv
<1>4. CASE HartStops
  BY <1>4, HartStopsInv
<1>5. CASE ChipReset
  BY <1>5, ChipResetInv
<1>6. CASE UNCHANGED vars
  <2>1. m' = m /\ real' = real /\ lapse' = lapse /\ stray' = stray /\ wrong' = wrong
    BY <1>6 DEF vars
  <2> QED
    BY <2>1 DEF HartInv
<1> QED
  BY <1>1, <1>2, <1>3, <1>4, <1>5, <1>6 DEF Next

\* The inductive invariant: as long as no operation has begun with the host
\* wrong about the target, what FullOf says of the caches and the registers.
THEOREM Invariance == Spec => []HartInv
<1>1. Init => HartInv
  BY InitInv
<1>2. HartInv /\ [Next]_vars => HartInv'
  BY NextInv
<1> QED
  BY <1>1, <1>2, PTL DEF Spec

\* s0 and s1 are free for the operations to use: after any sequence of them,
\* with commands refused, accesses failed and the chip reset in between, the
\* registers that _queue_restore will give back, or that a running hart was
\* given, are the ones the user knows.
THEOREM RegistersGivenBack == Spec => []ScratchTransparent
<1>1. HartInv => ScratchTransparent
  BY DEF HartInv, FullOf, ScratchTransparent
<1> QED
  BY <1>1, Invariance, PTL

\* The pipelines of _pb_read_words and _pb_write_words, for memories and ranges
\* of any size: an operation that reports success has read or written exactly
\* what it was asked to, whatever was left in the program buffer and in data0.
THEOREM SuccessIsDone == Spec => []WorkDone
<1>1. HartInv => WorkDone
  BY DEF HartInv, WorkDone
<1> QED
  BY <1>1, Invariance, PTL

\* No operation touches memory outside the range it was given, the one whose
\* batch was cut off included: the pipeline of _pb_read_words stops short of
\* the word after the last.
THEOREM NeverBeyondRange == Spec => []StaysInRange
<1>1. HartInv => StaysInRange
  BY DEF HartInv, StaysInRange
<1> QED
  BY <1>1, Invariance, PTL

\* While no access has failed the host's caches (the registers, the program
\* buffer) say what the target holds and autoexec is off, whatever the module
\* refused and however often the chip was reset.
THEOREM CachesAgreeAlways == Spec => []CachesAgree
<1>1. HartInv => CachesAgree
  BY DEF HartInv, FullOf, LapsedOf, CachesAgree
<1> QED
  BY <1>1, Invariance, PTL
=============================================================================
