---------------------------- MODULE TaskViewProofs ----------------------------
(***************************************************************************)
(* NumbersName, OfflineTrue, ViewTrue and WritesReachTheirTask of         *)
(* TaskView, for every number of slots, tasks, threads and faults.         *)
(*                                                                         *)
(* A number cannot name two tasks because identities is injective and      *)
(* agrees with every thread ever listed, and because next is above every   *)
(* number given out, listed or not.  A frozen view has no identities, and  *)
(* keeps its numbers because it is valid and is never decoded again.  A    *)
(* live view is true because what makes it valid is a decoding, and what   *)
(* moves the target after it invalidates it, or is noted in unnoted.  The  *)
(* thread GDB means, if it can mean one, is the one the server selects,    *)
(* and stays so when the view is dropped, because its task is still in its *)
(* slot and identities still has its number.                               *)
(***************************************************************************)
EXTENDS TaskView, FiniteSetTheorems, TLAPS

Fields == {"tasks", "current", "selected", "valid", "verified", "identities", "next", "frozen"}

\* The threads kn are pairs, and their numbers are below n and tell them apart.
Distinct(kn) ==
    /\ \A x \in kn : x = <<x[1], x[2]>> /\ x[1] \in Int
    /\ \A x, y \in kn : x[1] = y[1] => x = y
Below(kn, n) == \A x \in kn : x[1] < n

Agree(ids, kn, n) ==
    /\ n \in Int
    /\ \A key \in DOMAIN ids : ids[key] \in Int /\ ids[key] < n
    /\ \A key \in DOMAIN ids : \A x \in kn : x[1] = ids[key] => x[2] = key
    /\ \A key1, key2 \in DOMAIN ids : ids[key1] = ids[key2] => key1 = key2

Shape(r) ==
    /\ DOMAIN r = Fields
    /\ r.current \in Threads(r)
Numbers(r, kn) == Below(kn, r.next) /\ Agree(r.identities, kn, r.next)

Ok(r, kn) ==
    /\ Shape(r) /\ Distinct(kn) /\ Listed(r) \subseteq kn
    /\ ~r.frozen => Numbers(r, kn)

FrozenView ==
    rt.frozen => /\ rt.valid /\ phase \in {"closed", "offline"}
                 /\ rt.tasks = captured.tasks /\ rt.current = captured.current
                 /\ rt.selected \in Threads(rt)
                 /\ gdbThread # None => rt.selected = gdbThread

IInv == Ok(rt, known) /\ FrozenView

-----------------------------------------------------------------------------
(* Numbers. *)

\* Unknown tasks are finitely many, and so are those in lower slots.
LEMMA UnknownFinite ==
    ASSUME NEW r, NEW m
    PROVE  /\ IsFiniteSet(Unknown(r, m)) /\ Cardinality(Unknown(r, m)) \in Nat
           /\ Unknown(r, m) \subseteq Used(m) /\ Used(m) \subseteq Slots /\ Slots \subseteq Nat
<1>1. Cardinality(Slots) \in Nat
  BY SlotsAssumption, FS_CardinalityType
<1>2. IsFiniteSet(Slots) /\ Slots \subseteq Nat
  BY <1>1, SlotsAssumption
<1>3. Unknown(r, m) \subseteq Used(m) /\ Used(m) \subseteq Slots
  BY DEF Unknown, Used
<1>4. IsFiniteSet(Unknown(r, m))
  BY <1>2, <1>3, FS_Subset
<1> QED
  BY <1>2, <1>3, <1>4, FS_CardinalityType

\* The rank of an unknown slot is below their number and grows with the slot.
Rank(r, m, s) == Cardinality({x \in Unknown(r, m) : x < s})

LEMMA RankBound ==
    ASSUME NEW r, NEW m, NEW s \in Unknown(r, m)
    PROVE  Rank(r, m, s) \in Nat /\ Rank(r, m, s) < Cardinality(Unknown(r, m))
<1> DEFINE U == Unknown(r, m)
           L == {x \in U : x < s}
<1>1. IsFiniteSet(U) /\ Cardinality(U) \in Nat /\ U \subseteq Nat
  BY UnknownFinite
<1>2. L \subseteq U /\ s \notin L /\ s \in U
  BY <1>1
<1> HIDE DEF L, U
<1>3. IsFiniteSet(L) /\ Cardinality(L) <= Cardinality(U) /\ (Cardinality(U) = Cardinality(L) => U = L)
  BY <1>1, <1>2, FS_Subset
<1>4. Cardinality(L) \in Nat
  BY <1>3, FS_CardinalityType
<1>5. Cardinality(L) < Cardinality(U)
  BY <1>1, <1>2, <1>3, <1>4
<1> QED
  BY <1>4, <1>5 DEF Rank, L, U

LEMMA RankGrows ==
    ASSUME NEW r, NEW m, NEW s \in Unknown(r, m), NEW t \in Unknown(r, m), s < t
    PROVE  Rank(r, m, s) # Rank(r, m, t)
<1> DEFINE U == Unknown(r, m)
           L == {x \in U : x < s}
           G == {x \in U : x < t}
<1>1. IsFiniteSet(U) /\ U \subseteq Nat
  BY UnknownFinite
<1>2. L \subseteq G /\ G \subseteq U /\ s \in G /\ s \notin L
  BY <1>1
<1> HIDE DEF L, G, U
<1>3. IsFiniteSet(G)
  BY <1>1, <1>2, FS_Subset
<1>4. Cardinality(G) = Cardinality(L) => G = L
  BY <1>2, <1>3, FS_Subset
<1> QED
  BY <1>2, <1>4 DEF Rank, L, G, U

LEMMA RanksDiffer ==
    ASSUME NEW r, NEW m, NEW s \in Unknown(r, m), NEW t \in Unknown(r, m), s # t
    PROVE  Rank(r, m, s) # Rank(r, m, t)
<1>1. s \in Nat /\ t \in Nat
  BY UnknownFinite
<1>2. s < t \/ t < s
  BY <1>1
<1> QED
  BY <1>2, RankGrows

\* What a decoding gives to the task in a slot: the number of its key, or one
\* that is not below next; below the new next; to every slot its own.
After(r, m) == r.next + Cardinality(Unknown(r, m))

LEMMA NumberIs ==
    ASSUME NEW r, NEW m, NEW kn, Agree(r.identities, kn, r.next), NEW s \in Used(m)
    PROVE  /\ Number(r, m, s) \in Int /\ Number(r, m, s) < After(r, m)
           /\ s \notin Unknown(r, m) => /\ Number(r, m, s) = r.identities[Key(m, s)]
                                        /\ Key(m, s) \in DOMAIN r.identities
                                        /\ Number(r, m, s) < r.next
           /\ s \in Unknown(r, m) => Number(r, m, s) = r.next + Rank(r, m, s) /\ Number(r, m, s) >= r.next
<1>1. Cardinality(Unknown(r, m)) \in Nat /\ r.next \in Int
  BY UnknownFinite DEF Agree
<1>2. CASE s \in Unknown(r, m)
  <2>1. Number(r, m, s) = r.next + Rank(r, m, s)
    BY <1>2 DEF Number, Rank
  <2>2. Rank(r, m, s) \in Nat /\ Rank(r, m, s) < Cardinality(Unknown(r, m))
    BY <1>2, RankBound
  <2> QED
    BY <1>1, <1>2, <2>1, <2>2 DEF After
<1>3. CASE s \notin Unknown(r, m)
  <2>1. Number(r, m, s) = r.identities[Key(m, s)] /\ Key(m, s) \in DOMAIN r.identities
    BY <1>3 DEF Number, Unknown
  <2>2. Number(r, m, s) \in Int /\ Number(r, m, s) < r.next
    BY <2>1 DEF Agree
  <2> QED
    BY <1>1, <1>3, <2>1, <2>2 DEF After
<1> QED
  BY <1>2, <1>3

LEMMA KeySlots ==
    ASSUME NEW m, NEW s, NEW t, Key(m, s) = Key(m, t)
    PROVE  s = t
BY DEF Key, Task

LEMMA NumbersDiffer ==
    ASSUME NEW r, NEW m, NEW kn, Agree(r.identities, kn, r.next),
           NEW s \in Used(m), NEW t \in Used(m), Number(r, m, s) = Number(r, m, t)
    PROVE  s = t
<1>1. r.next \in Int
  BY DEF Agree
<1>2. CASE s \in Unknown(r, m) /\ t \in Unknown(r, m)
  <2>1. Rank(r, m, s) \in Nat /\ Rank(r, m, t) \in Nat
    BY <1>2, RankBound
  <2>2. Number(r, m, s) = r.next + Rank(r, m, s)
    BY <1>2, NumberIs
  <2>3. Number(r, m, t) = r.next + Rank(r, m, t)
    BY <1>2, NumberIs
  <2>4. Rank(r, m, s) = Rank(r, m, t)
    <3>1. \A a, b, c \in Int : a + b = a + c => b = c
      OBVIOUS
    <3>2. r.next + Rank(r, m, s) = r.next + Rank(r, m, t)
      BY <2>2, <2>3
    <3> HIDE DEF Rank
    <3> QED
      BY <1>1, <2>1, <3>1, <3>2
  <2> QED
    BY <1>2, <2>4, RanksDiffer
<1>3. CASE s \notin Unknown(r, m) /\ t \notin Unknown(r, m)
  <2>1. Number(r, m, s) = r.identities[Key(m, s)] /\ Key(m, s) \in DOMAIN r.identities
    BY <1>3, NumberIs
  <2>2. Number(r, m, t) = r.identities[Key(m, t)] /\ Key(m, t) \in DOMAIN r.identities
    BY <1>3, NumberIs
  <2>3. Key(m, s) = Key(m, t)
    BY <2>1, <2>2 DEF Agree
  <2> QED
    BY <2>3, KeySlots
<1>4. CASE s \in Unknown(r, m) /\ t \notin Unknown(r, m)
  <2>1. Number(r, m, s) >= r.next /\ Number(r, m, t) < r.next /\ Number(r, m, s) \in Int
    BY <1>4, NumberIs
  <2> QED
    BY <1>1, <2>1
<1>5. CASE s \notin Unknown(r, m) /\ t \in Unknown(r, m)
  <2>1. Number(r, m, t) >= r.next /\ Number(r, m, s) < r.next /\ Number(r, m, s) \in Int
    BY <1>5, NumberIs
  <2> QED
    BY <1>1, <2>1
<1> QED
  BY <1>2, <1>3, <1>4, <1>5

-----------------------------------------------------------------------------
(* Decoding. *)

\* Threads that are told apart stay so when the threads of a decoding join them,
\* and what it remembers agrees with all of them.
LEMMA DecodeOK ==
    ASSUME NEW r, NEW m, NEW kn, Shape(r), Distinct(kn), Numbers(r, kn)
    PROVE  LET d == Decode(r, m)
           IN  /\ Shape(d) /\ d.frozen = r.frozen /\ d.valid
               /\ Distinct(kn \cup Listed(d)) /\ Numbers(d, kn \cup Listed(d))
<1> DEFINE d == Decode(r, m)
           U == Used(m)
           num(s) == Number(r, m, s)
           slot(t) == CHOOSE s \in U : num(s) = t
           numbers == {num(s) : s \in U}
           current == IF Live(m) = None THEN Hart ELSE num(Live(m))
<1>1. DOMAIN r = Fields /\ Agree(r.identities, kn, r.next) /\ Below(kn, r.next)
  BY DEF Shape, Numbers
<1>2. /\ DOMAIN d = Fields /\ d.frozen = r.frozen /\ d.valid = TRUE
      /\ d.tasks = [t \in numbers |-> Task(m, slot(t))]
      /\ d.current = current
      /\ d.identities = [key \in {Key(m, s) : s \in U} |-> Number(r, m, key[1])]
      /\ d.next = After(r, m)
  BY <1>1 DEF Decode, Fields, After
<1>3. \A s \in U : slot(num(s)) = s
  <2> SUFFICES ASSUME NEW s \in U PROVE slot(num(s)) = s
    OBVIOUS
  <2>1. slot(num(s)) \in U /\ num(slot(num(s))) = num(s)
    OBVIOUS
  <2> HIDE DEF slot
  <2> QED
    BY <1>1, <2>1, NumbersDiffer
<1>4. Listed(d) = {<<num(s), Task(m, s)>> : s \in U}
  <2>1. Listed(d) = {<<t, Task(m, slot(t))>> : t \in numbers}
    <3>1. DOMAIN d.tasks = numbers /\ \A t \in numbers : d.tasks[t] = Task(m, slot(t))
      BY <1>2
    <3> HIDE DEF d, numbers, slot
    <3> QED
      BY <3>1 DEF Listed
  <2> HIDE DEF slot, num
  <2> QED
    BY <1>3, <2>1
<1>5. \A s \in U : d.identities[Key(m, s)] = num(s)
  <2> SUFFICES ASSUME NEW s \in U PROVE d.identities[Key(m, s)] = num(s)
    OBVIOUS
  <2>1. Key(m, s)[1] = s
    BY DEF Key, Task
  <2> QED
    BY <1>2, <2>1
<1>6. Live(m) = None \/ Live(m) \in U
  BY DEF Live
<1>7. Shape(d)
  <2>1. current = Hart \/ current \in numbers
    BY <1>6
  <2> QED
    BY <1>2, <2>1 DEF Shape, Threads
<1>8. \A s \in U : num(s) \in Int /\ num(s) < d.next
  <2> SUFFICES ASSUME NEW s \in U PROVE num(s) \in Int /\ num(s) < d.next
    OBVIOUS
  <2>1. Number(r, m, s) \in Int /\ Number(r, m, s) < After(r, m)
    BY <1>1, NumberIs
  <2> QED
    BY <1>2, <2>1
<1>9. r.next \in Int /\ d.next \in Int /\ r.next <= d.next
  BY <1>1, <1>2, UnknownFinite DEF Agree, After
\* An old thread with the number of a slot is the task in that slot.
<1>10. \A x \in kn : \A s \in U : x[1] = num(s) => x[2] = Task(m, s)
  <2> SUFFICES ASSUME NEW x \in kn, NEW s \in U, x[1] = num(s) PROVE x[2] = Task(m, s)
    OBVIOUS
  <2>1. x[1] \in Int /\ x[1] < r.next
    BY <1>1 DEF Distinct, Below
  <2>2. s \notin Unknown(r, m)
    <3>1. s \in Unknown(r, m) => num(s) >= r.next /\ num(s) \in Int
      BY <1>1, NumberIs
    <3> HIDE DEF num
    <3> QED
      BY <1>9, <2>1, <3>1
  <2>3. num(s) = r.identities[Key(m, s)] /\ Key(m, s) \in DOMAIN r.identities
    BY <1>1, <2>2, NumberIs
  <2>4. x[2] = Key(m, s)
    BY <1>1, <2>3 DEF Agree
  <2> QED
    BY <2>4 DEF Key
<1> HIDE DEF num, slot, numbers, current, d
<1> DEFINE all == kn \cup Listed(d)
<1>11. \A s, t \in U : num(s) = num(t) => s = t
  BY <1>1, NumbersDiffer DEF num
<1>12. ASSUME NEW y \in Listed(d)
       PROVE  \E s \in U : y = <<num(s), Task(m, s)>> /\ y[1] = num(s) /\ y[2] = Task(m, s)
  BY <1>4
<1>13. Distinct(all)
  <2>1. \A x \in all : x = <<x[1], x[2]>> /\ x[1] \in Int
    BY <1>8, <1>12 DEF Distinct
  <2>2. ASSUME NEW x \in all, NEW y \in all, x[1] = y[1] PROVE x = y
    <3>1. CASE x \in kn /\ y \in kn
      BY <2>2, <3>1 DEF Distinct
    <3>2. CASE x \in kn /\ y \in Listed(d)
      <4>1. x[2] = y[2]
        BY <1>10, <1>12, <2>2, <3>2
      <4> QED
        BY <2>1, <2>2, <4>1
    <3>3. CASE x \in Listed(d) /\ y \in kn
      <4>1. x[2] = y[2]
        BY <1>10, <1>12, <2>2, <3>3
      <4> QED
        BY <2>1, <2>2, <4>1
    <3>4. CASE x \in Listed(d) /\ y \in Listed(d)
      BY <1>11, <1>12, <2>2, <3>4
    <3> QED
      BY <3>1, <3>2, <3>3, <3>4
  <2> QED
    BY <2>1, <2>2 DEF Distinct
<1>14. Below(all, d.next)
  <2>1. \A x \in kn : x[1] < d.next
    <3>1. \A x \in kn : x[1] \in Int /\ x[1] < r.next
      BY <1>1 DEF Below, Distinct
    <3> QED
      BY <1>9, <3>1
  <2>2. \A x \in Listed(d) : x[1] < d.next
    BY <1>8, <1>12
  <2> QED
    BY <2>1, <2>2 DEF Below
<1>15. Agree(d.identities, all, d.next)
  <2>1. DOMAIN d.identities = {Key(m, s) : s \in U}
    BY <1>2
  <2>2. \A key \in DOMAIN d.identities : \E s \in U : key = Key(m, s) /\ d.identities[key] = num(s)
    BY <1>5, <2>1
  <2>3. \A key \in DOMAIN d.identities : d.identities[key] \in Int /\ d.identities[key] < d.next
    BY <1>8, <2>2
  <2>4. ASSUME NEW key \in DOMAIN d.identities, NEW x \in all, x[1] = d.identities[key]
        PROVE  x[2] = key
    <3>1. PICK s \in U : key = Key(m, s) /\ d.identities[key] = num(s)
      BY <2>2
    <3>2. CASE x \in kn
      BY <1>10, <2>4, <3>1, <3>2 DEF Key
    <3>3. CASE x \in Listed(d)
      <4>1. PICK t \in U : x[1] = num(t) /\ x[2] = Task(m, t)
        BY <1>12, <3>3
      <4>2. t = s
        BY <1>11, <2>4, <3>1, <4>1
      <4> QED
        BY <3>1, <4>1, <4>2 DEF Key
    <3> QED
      BY <3>2, <3>3
  <2>5. \A key1, key2 \in DOMAIN d.identities :
          d.identities[key1] = d.identities[key2] => key1 = key2
    BY <1>11, <2>2
  <2> QED
    BY <1>9, <2>3, <2>4, <2>5 DEF Agree
<1> QED
  BY <1>2, <1>7, <1>13, <1>14, <1>15 DEF Numbers, d

-----------------------------------------------------------------------------
(* What the server does to the view. *)

LEMMA FewerOK ==
    ASSUME NEW r, NEW kn, NEW fewer, Ok(r, kn), fewer \subseteq kn, Listed(r) \subseteq fewer
    PROVE  Ok(r, fewer)
BY DEF Ok, Distinct, Numbers, Below, Agree

\* A view that differs in what is not numbered.
LEMMA SameOK ==
    ASSUME NEW r, NEW s, NEW kn, Ok(r, kn), Shape(s), s.frozen = r.frozen,
           s.next = r.next, s.identities = r.identities,
           Listed(s) \subseteq kn
    PROVE  Ok(s, kn)
BY DEF Ok, Numbers

LEMMA NothingListed == ASSUME NEW r, r.tasks = Empty PROVE Listed(r) = {}
BY DEF Listed, Empty

Selecting(r, x) == [r EXCEPT !.selected = x]

LEMMA SelectOK ==
    ASSUME NEW r, NEW kn, NEW x, Ok(r, kn), NEW s, s = Selecting(r, x)
    PROVE  /\ Ok(s, kn) /\ s.frozen = r.frozen /\ s.valid = r.valid /\ s.selected = x
           /\ s.tasks = r.tasks /\ s.current = r.current /\ Listed(s) = Listed(r)
<1>1. DOMAIN r = Fields /\ r.current \in Threads(r)
  BY DEF Ok, Shape
<1>2. /\ DOMAIN s = Fields /\ s.frozen = r.frozen /\ s.valid = r.valid /\ s.selected = x
      /\ s.tasks = r.tasks /\ s.current = r.current /\ s.next = r.next
      /\ s.identities = r.identities
  BY <1>1 DEF Fields, Selecting
<1>3. Listed(s) = Listed(r) /\ Shape(s)
  BY <1>1, <1>2 DEF Listed, Shape, Threads
<1>4. Listed(s) \subseteq kn
  BY <1>3 DEF Ok
<1>5. Ok(s, kn)
  BY <1>2, <1>3, <1>4, SameOK
<1> QED
  BY <1>2, <1>3, <1>5

LEMMA InvalidateOK ==
    ASSUME NEW r, NEW kn, NEW reset, Ok(r, kn), ~r.frozen
    PROVE  LET s == Invalidate(r, reset)
           IN  Ok(s, kn) /\ ~s.frozen /\ Listed(s) = {}
<1> DEFINE s == Invalidate(r, reset)
<1>1. DOMAIN r = Fields
  BY DEF Ok, Shape
<1>2. s = InvalidateFrozen(r, reset)
  BY DEF Invalidate
<1>3. /\ DOMAIN s = Fields /\ s.frozen = r.frozen /\ s.tasks = Empty /\ s.current = Hart
      /\ s.next = r.next /\ s.identities = r.identities
  BY <1>1, <1>2 DEF InvalidateFrozen, Fields
<1> HIDE DEF s
<1>4. Listed(s) = {} /\ Shape(s)
  BY <1>3, NothingListed DEF Shape, Threads
<1>5. Ok(s, kn)
  BY <1>3, <1>4, SameOK
<1> QED
  BY <1>3, <1>4, <1>5 DEF s

\* What a call of refresh() on r comes to.
Good(r, kn, o) ==
    /\ Ok(o.r, kn \cup Listed(o.r)) /\ o.r.frozen = r.frozen
    /\ r.valid => o.r = r /\ o.ok = TRUE
    /\ o.ok => o.r.valid
Kept(r) == r.frozen => r.valid

LEMMA RefreshOK ==
    ASSUME NEW r, NEW m, NEW stopped, NEW same, NEW kn, Ok(r, kn), Kept(r),
           NEW o, o \in Refresh(r, m, stopped, same)
    PROVE  Good(r, kn, o)
<1> SUFFICES /\ Ok(o.r, kn \cup Listed(o.r)) /\ o.r.frozen = r.frozen
             /\ r.valid => o.r = r /\ o.ok = TRUE
             /\ o.ok => o.r.valid
  BY DEF Good
<1>1. DOMAIN r = Fields /\ r.current \in Threads(r) /\ Listed(r) \subseteq kn
  BY DEF Ok, Shape
<1>2. kn \cup Listed(r) = kn
  BY <1>1
<1>3. CASE r.valid
  <2>1. o = Result(r, TRUE)
    BY <1>3 DEF Refresh
  <2>2. o.r = r /\ o.ok = TRUE
    BY <2>1 DEF Result
  <2> QED
    BY <1>2, <1>3, <2>2
<1>4. CASE ~r.valid
  <2>1. ~r.frozen
    BY <1>4 DEF Kept
  <2>2. CASE o.r = r /\ o.ok = FALSE
    BY <1>2, <1>4, <2>2
  <2>3. ASSUME NEW v, v = r \/ v = [r EXCEPT !.verified = TRUE], o = Result(Nobody(v), TRUE)
        PROVE  Ok(o.r, kn \cup Listed(o.r)) /\ o.r.frozen = r.frozen /\ o.r.valid
    <3>1. /\ DOMAIN v = Fields /\ v.frozen = r.frozen /\ v.next = r.next /\ v.identities = r.identities
      BY <1>1, <2>3 DEF Fields
    <3> DEFINE d == Nobody(v)
    <3>2. /\ DOMAIN d = Fields /\ d.frozen = r.frozen /\ d.next = r.next /\ d.identities = r.identities
          /\ d.tasks = Empty /\ d.current = Hart /\ d.valid = TRUE
      BY <3>1 DEF Nobody, Fields
    <3>3. o.r = d
      BY <2>3 DEF Result
    <3> HIDE DEF d
    <3>4. Listed(d) = {} /\ Shape(d)
      BY <3>2, NothingListed DEF Shape, Threads
    <3>5. Ok(d, kn)
      BY <3>2, <3>4, SameOK
    <3>6. kn \cup Listed(d) = kn
      BY <3>4
    <3> QED
      BY <3>2, <3>3, <3>5, <3>6
  <2>4. CASE o = Result(Decode(r, m), TRUE)
    <3>1. o.r = Decode(r, m)
      BY <2>4 DEF Result
    <3>2. Shape(r) /\ Distinct(kn) /\ Numbers(r, kn)
      BY <2>1 DEF Ok
    <3>3. /\ Shape(o.r) /\ o.r.frozen = r.frozen /\ o.r.valid
          /\ Distinct(kn \cup Listed(o.r)) /\ Numbers(o.r, kn \cup Listed(o.r))
      BY <3>1, <3>2, DecodeOK
    <3> QED
      BY <1>4, <3>3 DEF Ok
  <2>5. CASE o \in Raised(r, m)
    <3>0. PICK n \in 0 .. Cardinality(Unknown(r, m)) :
            o = [r |-> [r EXCEPT !.verified = TRUE, !.next = @ + n], ok |-> FALSE, faults |-> 1]
      BY <2>5 DEF Raised
    <3> DEFINE d == [r EXCEPT !.verified = TRUE, !.next = @ + n]
    <3>1. o.r = d /\ o.ok = FALSE
      BY <3>0
    <3>2. /\ DOMAIN d = Fields /\ d.frozen = r.frozen /\ d.next = r.next + n
          /\ d.identities = r.identities /\ d.tasks = r.tasks /\ d.current = r.current
      BY <1>1 DEF Fields
    <3> HIDE DEF d
    <3>3. Listed(d) = Listed(r) /\ Shape(d)
      BY <1>1, <3>2 DEF Listed, Shape, Threads
    <3>4. Numbers(r, kn) /\ Distinct(kn)
      BY <2>1 DEF Ok
    <3>5. r.next \in Int /\ d.next \in Int /\ r.next <= d.next
      BY <3>0, <3>2, <3>4 DEF Numbers, Agree
    <3>6. Below(kn, d.next)
      <4>1. \A x \in kn : x[1] \in Int /\ x[1] < r.next
        BY <3>4 DEF Numbers, Below, Distinct
      <4> QED
        BY <3>5, <4>1 DEF Below
    <3>7. Agree(d.identities, kn, d.next)
      <4>1. \A key \in DOMAIN d.identities : d.identities[key] \in Int /\ d.identities[key] < d.next
        BY <3>2, <3>4, <3>5 DEF Numbers, Agree
      <4> QED
        BY <3>2, <3>4, <3>5, <4>1 DEF Numbers, Agree
    <3> QED
      BY <1>1, <1>2, <1>4, <3>1, <3>2, <3>3, <3>4, <3>6, <3>7 DEF Ok, Numbers
  <2>6. \/ o.r = r /\ o.ok = FALSE
        \/ o = Result(Nobody(r), TRUE)
        \/ o = Result(Nobody([r EXCEPT !.verified = TRUE]), TRUE)
        \/ o = Result(Decode(r, m), TRUE)
        \/ o \in Raised(r, m)
    BY <1>4 DEF Refresh, Result
  <2>7. CASE o = Result(Nobody(r), TRUE)
    BY <1>4, <2>3, <2>7
  <2>8. CASE o = Result(Nobody([r EXCEPT !.verified = TRUE]), TRUE)
    BY <1>4, <2>3, <2>8
  <2> QED
    BY <2>2, <2>4, <2>5, <2>6, <2>7, <2>8
<1> QED
  BY <1>3, <1>4

LEMMA StopReplyOK ==
    ASSUME NEW r, NEW m, NEW kn, Ok(r, kn), ~r.frozen, known \subseteq kn, StopReply(r, m)
    PROVE  Ok(rt', known') /\ ~rt'.frozen
<1> DEFINE s == Invalidate(r, FALSE)
<1>1. Ok(s, kn) /\ ~s.frozen /\ Listed(s) = {}
  BY InvalidateOK
<1>2. Ok(s, known)
  BY <1>1, FewerOK
<1>3. PICK o \in Refreshed(s, m, TRUE) :
        Becomes(IF o.ok THEN [o.r EXCEPT !.selected = o.r.current] ELSE o.r, o)
  BY DEF StopReply
<1>4. o \in Refresh(s, m, TRUE, image)
  BY <1>3 DEF Refreshed
<1> HIDE DEF s
<1>5. Ok(o.r, known \cup Listed(o.r)) /\ ~o.r.frozen
  <2>1. Kept(s)
    BY <1>1 DEF Kept
  <2>2. Good(s, known, o)
    BY <1>2, <1>4, <2>1, RefreshOK
  <2> QED
    BY <1>1, <2>2 DEF Good
<1>6. CASE o.ok
  <2>1. rt' = Selecting(o.r, o.r.current) /\ known' = known \cup Listed(rt')
    BY <1>3, <1>6 DEF Becomes, Selecting
  <2>2. Listed(rt') = Listed(o.r) /\ Ok(rt', known \cup Listed(o.r)) /\ ~rt'.frozen
    BY <1>5, <2>1, SelectOK
  <2> QED
    BY <2>1, <2>2
<1>7. CASE ~o.ok
  BY <1>3, <1>5, <1>7 DEF Becomes
<1> QED
  BY <1>6, <1>7

-----------------------------------------------------------------------------
(* The invariant. *)

\* Every step of a live view, but for the capture, keeps it live.
Live2 == Ok(rt', known') /\ ~rt'.frozen

LEMMA LiveStep == ASSUME Live2 PROVE IInv'
BY DEF Live2, IInv, FrozenView

\* The frozen view and what is listed stay; GDB selects what the view has.
LEMMA FrozenStep ==
    ASSUME IInv, rt.frozen, NEW x, x \in Threads(rt),
           rt' = Selecting(rt, x), known' = known,
           phase' \in {"closed", "offline"}, captured' = captured,
           gdbThread' # None => gdbThread' = x
    PROVE  IInv'
<1>1. Ok(rt, known)
  BY DEF IInv
<1>2. /\ Ok(rt', known) /\ rt'.frozen = rt.frozen /\ rt'.valid = rt.valid /\ rt'.selected = x
      /\ rt'.tasks = rt.tasks /\ rt'.current = rt.current
  <2>1. Ok(rt', known)
    BY <1>1, SelectOK
  <2>2. rt'.frozen = rt.frozen
    BY <1>1, SelectOK
  <2>3. rt'.valid = rt.valid
    BY <1>1, SelectOK
  <2>4. rt'.selected = x
    BY <1>1, SelectOK
  <2>5. rt'.tasks = rt.tasks /\ rt'.current = rt.current
    BY <1>1, SelectOK
  <2> QED
    BY <2>1, <2>2, <2>3, <2>4, <2>5
<1>3. Threads(rt') = Threads(rt)
  BY <1>2 DEF Threads
<1>4. /\ rt.valid /\ rt.tasks = captured.tasks /\ rt.current = captured.current
  BY DEF IInv, FrozenView
<1> QED
  BY <1>2, <1>3, <1>4 DEF IInv, FrozenView

LEMMA FrozenSame ==
    ASSUME IInv, rt.frozen, rt' = rt, known' = known,
           phase' \in {"closed", "offline"}, captured' = captured,
           gdbThread' = None \/ gdbThread' = gdbThread
    PROVE  IInv'
BY DEF IInv, FrozenView

\* A handler that calls refresh() on the view of the server.
LEMMA RefreshedOK ==
    ASSUME IInv, NEW m, NEW stopped, NEW o \in Refreshed(rt, m, stopped)
    PROVE  /\ Ok(o.r, known \cup Listed(o.r)) /\ o.r.frozen = rt.frozen
           /\ rt.frozen => o.r = rt
           /\ o.ok => o.r.valid
<1>1. o \in Refresh(rt, m, stopped, image)
  BY DEF Refreshed
<1>2. Ok(rt, known) /\ Kept(rt)
  BY DEF IInv, FrozenView, Kept
<1>3. Good(rt, known, o)
  BY <1>1, <1>2, RefreshOK
<1>4. rt.frozen => rt.valid
  BY DEF IInv, FrozenView
<1> QED
  BY <1>3, <1>4 DEF Good

LEMMA IInvInit == Init => IInv
<1> SUFFICES ASSUME Init PROVE IInv
  OBVIOUS
<1>1. /\ DOMAIN rt = Fields /\ rt.tasks = Empty /\ rt.current = Hart /\ ~rt.frozen
      /\ rt.identities = Empty /\ rt.next = 2 /\ known = {}
  BY DEF Init, Fields
<1>2. Shape(rt) /\ Listed(rt) = {}
  BY <1>1, NothingListed DEF Shape, Threads
<1>3. DOMAIN Empty = {}
  BY DEF Empty
<1>4. Numbers(rt, known) /\ Distinct(known)
  BY <1>1, <1>3 DEF Numbers, Below, Agree, Distinct
<1> QED
  BY <1>1, <1>2, <1>4 DEF IInv, Ok, FrozenView

LEMMA FrozenNext ==
    ASSUME IInv, rt.frozen, Next
    PROVE  IInv'
<1>1. /\ rt.valid /\ phase \in {"closed", "offline"} /\ Ok(rt, known)
      /\ rt.selected \in Threads(rt) /\ rt.current \in Threads(rt) /\ Listed(rt) \subseteq known
  BY DEF IInv, FrozenView, Ok, Shape
<1>2. CASE Accept
  <2>1. /\ phase' = "offline" /\ gdbThread' = None /\ rt' = rt /\ known' = known /\ captured' = captured
    BY <1>2 DEF Accept, Fixed
  <2> QED
    BY <2>1, FrozenSame
<1>3. CASE Why
  <2>1. StopReply(rt, k) /\ phase' = phase /\ captured' = captured
    BY <1>3 DEF Why, Fixed
  <2>2. Invalidate(rt, FALSE) = rt
    BY DEF Invalidate
  <2>3. PICK o \in Refreshed(rt, k, TRUE) :
          /\ Becomes(IF o.ok THEN [o.r EXCEPT !.selected = o.r.current] ELSE o.r, o)
          /\ gdbThread' = IF o.ok THEN o.r.current ELSE None
    BY <2>1, <2>2 DEF StopReply
  <2>4. o \in Refresh(rt, k, TRUE, image)
    BY <2>3 DEF Refreshed
  <2>5. o.r = rt /\ o.ok = TRUE
    <3>1. Good(rt, known, o)
      BY <1>1, <2>4, RefreshOK DEF Kept
    <3> QED
      BY <1>1, <3>1 DEF Good
  <2>6. /\ rt' = Selecting(rt, rt.current) /\ known' = known \cup Listed(rt')
        /\ gdbThread' = rt.current
    BY <2>3, <2>5 DEF Becomes, Selecting
  <2>7. Listed(rt') = Listed(rt)
    BY <1>1, <2>6, SelectOK
  <2>8. known' = known
    BY <1>1, <2>6, <2>7
  <2> QED
    BY <1>1, <2>1, <2>6, <2>8, FrozenStep
<1>4. CASE \E t \in 0 .. MaxThread : Hg(t)
  <2>1. PICK t : Hg(t)
    BY <1>4
  <2>2. phase' = phase /\ captured' = captured
    BY <2>1 DEF Hg, Fixed
  <2>3. PICK o \in Refreshed(rt, k, Halts) :
          \E w : /\ w \in Threads(o.r) /\ Becomes([o.r EXCEPT !.selected = w], o)
                 /\ gdbThread' = IF unnoted THEN None ELSE w
    BY <2>1 DEF Hg
  <2>4. PICK wanted :
          /\ wanted \in Threads(o.r) /\ Becomes([o.r EXCEPT !.selected = wanted], o)
          /\ gdbThread' = IF unnoted THEN None ELSE wanted
    BY <2>3
  <2>5. o.r = rt
    BY <2>3, RefreshedOK
  <2>6. rt' = Selecting(rt, wanted) /\ known' = known \cup Listed(rt')
    BY <2>4, <2>5 DEF Becomes, Selecting
  <2>7. Listed(rt') = Listed(rt)
    BY <1>1, <2>6, SelectOK
  <2>8. known' = known
    BY <1>1, <2>6, <2>7
  <2> QED
    BY <1>1, <2>2, <2>4, <2>5, <2>6, <2>8, FrozenStep
<1>5. CASE Disconnect
  <2>1. /\ phase' = "closed" /\ gdbThread' = None /\ rt' = rt /\ known' = known /\ captured' = captured
    BY <1>5 DEF Disconnect, Fixed
  <2> QED
    BY <2>1, FrozenSame
<1>6. ~Inspect /\ ~Runs
  BY <1>1 DEF Inspect, Runs
<1>7. ~(M \/ S \/ C \/ MonitorReset \/ FlashDone \/ Capture \/ P \/ Stop \/ ChipReset \/ ResetUnseen)
  BY <1>1 DEF M, S, C, MonitorReset, FlashDone, Capture, P, Stop, ChipReset, ResetUnseen
<1> QED
  BY <1>2, <1>3, <1>4, <1>5, <1>6, <1>7 DEF Next, Packet

LEMMA LiveNext ==
    ASSUME IInv, ~rt.frozen, Next
    PROVE  IInv'
<1>1. Ok(rt, known)
  BY DEF IInv
<1>2. CASE Accept \/ M \/ Disconnect \/ Runs \/ ResetUnseen
  <2>1. rt' = rt /\ known' = known
    BY <1>2 DEF Accept, M, Disconnect, Runs, ResetUnseen, Fixed
  <2> QED
    BY <1>1, <2>1, LiveStep DEF Live2
<1>3. CASE Why \/ Stop
  <2>1. StopReply(rt, k)
    BY <1>3 DEF Why, Stop
  <2> QED
    BY <1>1, <2>1, StopReplyOK, LiveStep DEF Live2
<1>4. CASE Inspect
  <2>1. PICK o \in Refreshed(rt, k, Halts) : Becomes(o.r, o)
    BY <1>4 DEF Inspect
  <2>2. Ok(o.r, known \cup Listed(o.r)) /\ o.r.frozen = rt.frozen
    BY <2>1, RefreshedOK
  <2> QED
    BY <2>1, <2>2, LiveStep DEF Live2, Becomes
<1>5. CASE \E t \in 0 .. MaxThread : Hg(t)
  <2>0. PICK o \in Refreshed(rt, k, Halts) : \E w : Becomes([o.r EXCEPT !.selected = w], o)
    BY <1>5 DEF Hg
  <2>1. PICK wanted : Becomes([o.r EXCEPT !.selected = wanted], o)
    BY <2>0
  <2>2. Ok(o.r, known \cup Listed(o.r)) /\ o.r.frozen = rt.frozen
    BY <2>1, RefreshedOK
  <2>3. rt' = Selecting(o.r, wanted) /\ known' = known \cup Listed(rt')
    BY <2>1 DEF Becomes, Selecting
  <2>4. Ok(rt', known \cup Listed(o.r)) /\ rt'.frozen = o.r.frozen /\ Listed(rt') = Listed(o.r)
    BY <2>2, <2>3, SelectOK
  <2> QED
    BY <2>2, <2>3, <2>4, LiveStep DEF Live2
<1>6. CASE P
  <2>1. PICK o \in Refreshed(rt, k, Halts) :
          \/ Becomes(Written(o.r), o)
          \/ rt' = o.r /\ known' = known \cup Listed(o.r)
    BY <1>6 DEF P
  <2>2. Ok(o.r, known \cup Listed(o.r)) /\ o.r.frozen = rt.frozen
    BY <2>1, RefreshedOK
  <2>3. CASE Becomes(Written(o.r), o)
    <3> DEFINE s == Invalidate(o.r, FALSE)
    <3>1. rt' = s /\ known' = known \cup Listed(s)
      BY <2>3 DEF Becomes, Written
    <3>2. Ok(s, known \cup Listed(o.r)) /\ ~s.frozen /\ Listed(s) = {}
      BY <2>2, InvalidateOK
    <3> HIDE DEF s
    <3>3. known' = known
      BY <3>1, <3>2
    <3>4. Ok(s, known)
      BY <3>2, FewerOK
    <3> QED
      BY <3>1, <3>2, <3>3, <3>4, LiveStep DEF Live2
  <2>4. CASE rt' = o.r /\ known' = known \cup Listed(o.r)
    BY <2>2, <2>4, LiveStep DEF Live2
  <2> QED
    BY <2>1, <2>3, <2>4
<1>7. CASE S
  <2>1. PICK o \in Refreshed(rt, k, Halts), m \in Moves(k) :
          \/ StopReply(o.r, m)
          \/ rt' = o.r /\ known' = known \cup Listed(o.r)
    BY <1>7 DEF S
  <2>2. Ok(o.r, known \cup Listed(o.r)) /\ o.r.frozen = rt.frozen
    BY <2>1, RefreshedOK
  <2>3. CASE StopReply(o.r, m)
    <3>1. known \subseteq known \cup Listed(o.r) /\ ~o.r.frozen
      BY <2>2
    <3> QED
      BY <2>2, <2>3, <3>1, StopReplyOK, LiveStep DEF Live2
  <2>4. CASE rt' = o.r /\ known' = known \cup Listed(o.r)
    BY <2>2, <2>4, LiveStep DEF Live2
  <2> QED
    BY <2>1, <2>3, <2>4
<1>8. CASE C \/ MonitorReset \/ ChipReset \/ FlashDone
  <2>1. known' = known /\ (rt' = rt \/ \E reset \in BOOLEAN : rt' = Invalidate(rt, reset))
    BY <1>8 DEF C, MonitorReset, ChipReset, FlashDone, AfterReset, ResetFails
  <2>2. CASE rt' = rt
    BY <1>1, <2>1, <2>2, LiveStep DEF Live2
  <2>3. CASE \E reset \in BOOLEAN : rt' = Invalidate(rt, reset)
    BY <1>1, <2>1, <2>3, InvalidateOK, LiveStep DEF Live2
  <2> QED
    BY <2>1, <2>2, <2>3
<1>9. CASE Capture
  <2>1. PICK o \in Refreshed(rt, k, Halts) :
          /\ o.ok
          /\ Becomes(Offline(o.r), o)
          /\ captured' = [tasks |-> o.r.tasks, current |-> o.r.current]
          /\ phase' = "closed" /\ gdbThread' = None
    BY <1>9 DEF Capture
  <2>2. Ok(o.r, known \cup Listed(o.r)) /\ o.r.valid
    BY <2>1, RefreshedOK
  <2>3. DOMAIN o.r = Fields /\ o.r.current \in Threads(o.r)
    BY <2>2 DEF Ok, Shape
  <2>4. /\ DOMAIN rt' = Fields /\ rt'.frozen = TRUE /\ rt'.tasks = o.r.tasks
        /\ rt'.current = o.r.current /\ rt'.selected = o.r.current /\ rt'.valid = o.r.valid
        /\ known' = known \cup Listed(rt')
    BY <2>1, <2>3 DEF Becomes, Fields, Offline
  <2>5. Threads(rt') = Threads(o.r) /\ Listed(rt') = Listed(o.r)
    BY <2>4 DEF Threads, Listed
  <2>6. Shape(rt') /\ Distinct(known') /\ Listed(rt') \subseteq known'
    BY <2>2, <2>3, <2>4, <2>5 DEF Ok, Shape
  <2>7. captured'.tasks = o.r.tasks /\ captured'.current = o.r.current
    BY <2>1
  <2> QED
    BY <2>1, <2>2, <2>3, <2>4, <2>5, <2>6, <2>7 DEF IInv, Ok, FrozenView
<1> QED
  BY <1>2, <1>3, <1>4, <1>5, <1>6, <1>7, <1>8, <1>9 DEF Next, Packet

LEMMA IInvNext == IInv /\ [Next]_vars => IInv'
<1> SUFFICES ASSUME IInv, [Next]_vars PROVE IInv'
  OBVIOUS
<1>1. CASE UNCHANGED vars
  BY <1>1 DEF vars, IInv, FrozenView
<1>2. CASE Next
  BY <1>2, FrozenNext, LiveNext
<1> QED
  BY <1>1, <1>2

\* A number names one task for ever, whatever tasks come and go, through resets
\* and decodings that raise half way (LiteOS.refresh, identities and next_id).
THEOREM NumbersNameAlways == Spec => []NumbersName
<1>1. Init => IInv
  BY IInvInit
<1>2. IInv /\ [Next]_vars => IInv'
  BY IInvNext
<1>3. IInv => NumbersName
  BY DEF IInv, Ok, Distinct, NumbersName
<1> QED
  BY <1>1, <1>2, <1>3, PTL DEF Spec

\* The offline server shows the tasks and the numbers of the capture, and its
\* selection is the one GDB made (ws63diagnose.offline_serve, frozen views).
THEOREM OfflineTrueAlways == Spec => []OfflineTrue
<1>1. Init => IInv
  BY IInvInit
<1>2. IInv /\ [Next]_vars => IInv'
  BY IInvNext
<1>3. IInv => OfflineTrue
  BY DEF IInv, FrozenView, OfflineTrue
<1> QED
  BY <1>1, <1>2, <1>3, PTL DEF Spec

-----------------------------------------------------------------------------
(* What a view shows is what memory and registers say. *)

\* Truth and ViewTrue, of any target and view.
TruthIn(m) == IF m.pc = "vector" \/ ~m.sched THEN {} ELSE {Task(m, s) : s \in Used(m)}
Shows(r, m) ==
    /\ {r.tasks[t] : t \in DOMAIN r.tasks} = TruthIn(m)
    /\ r.current = Hart <=> TruthIn(m) = {} \/ Live(m) = None
    /\ r.current # Hart => r.tasks[r.current][1] = Live(m)
    /\ r.selected \in Threads(r)

\* No task has the number of the boot context.
High(r) == /\ r.next >= 2
           /\ \A key \in DOMAIN r.identities : r.identities[key] >= 2

\* A target that runs has no view, or GDB has not asked since it ran, or there
\* is no session; only then is the hart halted with the view as it was.
ShowInv ==
    ~rt.frozen =>
        /\ High(rt)
        /\ rt.valid /\ Halts /\ ~unnoted => Shows(rt, k)
        /\ rt.valid /\ ~Halts => unnoted \/ phase = "closed"

LEMMA NumberHigh ==
    ASSUME NEW r, NEW m, NEW kn, Agree(r.identities, kn, r.next), High(r), NEW s \in Used(m)
    PROVE  Number(r, m, s) \in Int /\ Number(r, m, s) >= 2
<1>1. CASE s \in Unknown(r, m)
  <2>1. Number(r, m, s) \in Int /\ Number(r, m, s) >= r.next /\ r.next \in Int /\ r.next >= 2
    BY <1>1, NumberIs DEF Agree, High
  <2> HIDE DEF Number
  <2> QED
    BY <2>1
<1>2. CASE s \notin Unknown(r, m)
  <2>1. Number(r, m, s) \in Int /\ Number(r, m, s) = r.identities[Key(m, s)] /\ Key(m, s) \in DOMAIN r.identities
    BY <1>2, NumberIs
  <2> QED
    BY <2>1 DEF High
<1> QED
  BY <1>1, <1>2

\* A decoding shows every task in use, once, and the current one.
LEMMA DecodeShows ==
    ASSUME NEW r, NEW m, NEW kn, Shape(r), Distinct(kn), Numbers(r, kn), High(r),
           m.sched, m.pc # "vector"
    PROVE  High(Decode(r, m)) /\ Shows(Decode(r, m), m)
<1> DEFINE d == Decode(r, m)
           U == Used(m)
           num(s) == Number(r, m, s)
           slot(t) == CHOOSE s \in U : num(s) = t
           numbers == {num(s) : s \in U}
           current == IF Live(m) = None THEN Hart ELSE num(Live(m))
<1>1. DOMAIN r = Fields /\ Agree(r.identities, kn, r.next)
  BY DEF Shape, Numbers
<1>2. /\ d.tasks = [t \in numbers |-> Task(m, slot(t))]
      /\ d.current = current
      /\ d.selected = IF r.selected \in numbers THEN r.selected ELSE current
      /\ d.identities = [key \in {Key(m, s) : s \in U} |-> Number(r, m, key[1])]
      /\ d.next = After(r, m)
  BY <1>1 DEF Decode, Fields, After
<1>3. \A s \in U : slot(num(s)) = s
  <2> SUFFICES ASSUME NEW s \in U PROVE slot(num(s)) = s
    OBVIOUS
  <2>1. slot(num(s)) \in U /\ num(slot(num(s))) = num(s)
    OBVIOUS
  <2> HIDE DEF slot
  <2> QED
    BY <1>1, <2>1, NumbersDiffer
<1>4. Live(m) = None \/ Live(m) \in U
  BY DEF Live
<1>5. \A s \in U : num(s) \in Int /\ num(s) >= 2 /\ Task(m, s)[1] = s /\ Key(m, s)[1] = s
  <2> SUFFICES ASSUME NEW s \in U
               PROVE  num(s) \in Int /\ num(s) >= 2 /\ Task(m, s)[1] = s /\ Key(m, s)[1] = s
    OBVIOUS
  <2>1. Number(r, m, s) \in Int /\ Number(r, m, s) >= 2
    BY <1>1, NumberHigh
  <2> QED
    BY <2>1 DEF Key, Task
<1>6. U \subseteq Slots /\ None \notin Slots
  BY SlotsAssumption, FS_CardinalityType DEF Used, None
<1>7. r.next \in Int /\ After(r, m) \in Int /\ After(r, m) >= r.next
  BY <1>1, UnknownFinite DEF Agree, After
<1>8. High(d)
  <2>1. \A key \in DOMAIN d.identities : d.identities[key] >= 2
    <3>1. \A key \in DOMAIN d.identities : \E s \in U : d.identities[key] = num(s)
      BY <1>2, <1>5
    <3> HIDE DEF d, num
    <3> QED
      BY <1>5, <3>1
  <2>2. d.next >= 2
    BY <1>2, <1>7 DEF High
  <2> QED
    BY <2>1, <2>2 DEF High
<1>9. TruthIn(m) = {Task(m, s) : s \in U}
  BY DEF TruthIn
<1>10. DOMAIN d.tasks = numbers /\ \A s \in U : d.tasks[num(s)] = Task(m, s)
  <2>1. DOMAIN d.tasks = numbers /\ \A t \in numbers : d.tasks[t] = Task(m, slot(t))
    BY <1>2
  <2> HIDE DEF d, slot, num
  <2> QED
    BY <1>3, <2>1
<1> HIDE DEF num, slot, U, d
<1>11. {d.tasks[t] : t \in DOMAIN d.tasks} = TruthIn(m)
  BY <1>9, <1>10
<1>12. CASE Live(m) = None
  <2>1. d.current = Hart
    BY <1>2, <1>12
  <2>2. d.selected \in Threads(d)
    BY <1>2, <1>10, <2>1 DEF Threads
  <2> QED
    BY <1>8, <1>11, <1>12, <2>1, <2>2 DEF Shows, d
<1>13. CASE Live(m) # None
  <2>1. Live(m) \in U /\ d.current = num(Live(m))
    BY <1>2, <1>4, <1>13
  <2>2. d.current # Hart /\ d.tasks[d.current] = Task(m, Live(m)) /\ TruthIn(m) # {}
    BY <1>5, <1>9, <1>10, <2>1 DEF Hart
  <2>3. d.selected \in Threads(d)
    BY <1>2, <1>10, <2>1 DEF Threads
  <2>4. d.tasks[d.current][1] = Live(m)
    BY <1>5, <2>1, <2>2
  <2> QED
    BY <1>8, <1>11, <1>13, <2>2, <2>3, <2>4 DEF Shows, d
<1> QED
  BY <1>12, <1>13

\* refresh() makes a view valid only by decoding the target as it is.
LEMMA RefreshShows ==
    ASSUME NEW r, NEW m, NEW stopped, NEW same, NEW kn, Ok(r, kn), ~r.frozen, High(r),
           NEW o, o \in Refresh(r, m, stopped, same)
    PROVE  /\ High(o.r)
           /\ ~r.valid /\ o.r.valid => stopped /\ Shows(o.r, m)
<1>0. ~stopped => o.r = r
  BY DEF Refresh, Result
<1> SUFFICES High(o.r) /\ (~r.valid /\ o.r.valid => Shows(o.r, m))
  BY <1>0
<1>1. DOMAIN r = Fields /\ Shape(r) /\ Distinct(kn) /\ Numbers(r, kn)
  BY DEF Ok, Shape
<1>2. CASE o.r = r
  BY <1>2
<1>3. ASSUME NEW v, v = r \/ v = [r EXCEPT !.verified = TRUE], o = Result(Nobody(v), TRUE),
             m.pc = "vector" \/ ~m.sched
      PROVE  High(o.r) /\ Shows(o.r, m)
  <2>1. DOMAIN v = Fields /\ v.next = r.next /\ v.identities = r.identities
    BY <1>1, <1>3 DEF Fields
  <2> DEFINE d == Nobody(v)
  <2>2. /\ d.next = r.next /\ d.identities = r.identities
        /\ d.tasks = Empty /\ d.current = Hart /\ d.selected = Hart
    BY <2>1 DEF Nobody, Fields
  <2>3. o.r = d
    BY <1>3 DEF Result
  <2> HIDE DEF d
  <2>4. TruthIn(m) = {}
    BY <1>3 DEF TruthIn
  <2>5. DOMAIN d.tasks = {}
    BY <2>2 DEF Empty
  <2>6. {d.tasks[t] : t \in DOMAIN d.tasks} = {}
    BY <2>5
  <2>7. d.selected \in Threads(d)
    BY <2>2 DEF Threads
  <2>8. High(d)
    BY <2>2 DEF High
  <2> QED
    BY <2>2, <2>3, <2>4, <2>6, <2>7, <2>8 DEF Shows
<1>4. CASE o = Result(Decode(r, m), TRUE) /\ m.sched /\ m.pc # "vector"
  <2>1. o.r = Decode(r, m)
    BY <1>4 DEF Result
  <2>2. High(Decode(r, m)) /\ Shows(Decode(r, m), m)
    BY <1>1, <1>4, DecodeShows
  <2> QED
    BY <2>1, <2>2
<1>5. CASE o \in Raised(r, m) /\ ~r.valid
  <2>0. PICK n \in 0 .. Cardinality(Unknown(r, m)) :
          o = [r |-> [r EXCEPT !.verified = TRUE, !.next = @ + n], ok |-> FALSE, faults |-> 1]
    BY <1>5 DEF Raised
  <2> DEFINE d == [r EXCEPT !.verified = TRUE, !.next = @ + n]
  <2>1. o.r = d
    BY <2>0
  <2>2. d.next = r.next + n /\ d.identities = r.identities /\ d.valid = r.valid
    BY <1>1 DEF Fields
  <2> HIDE DEF d
  <2>3. r.next \in Int /\ r.next >= 2
    BY <1>1 DEF Numbers, Agree, High
  <2>4. d.next >= 2
    BY <2>0, <2>2, <2>3
  <2> QED
    BY <1>5, <2>1, <2>2, <2>4 DEF High
<1>7. \/ o.r = r
      \/ o = Result(Nobody(r), TRUE) /\ m.pc = "vector"
      \/ o = Result(Nobody([r EXCEPT !.verified = TRUE]), TRUE) /\ ~m.sched
      \/ o = Result(Decode(r, m), TRUE) /\ m.sched /\ m.pc # "vector"
      \/ o \in Raised(r, m) /\ ~r.valid
  BY DEF Refresh, Result
<1>8. CASE o = Result(Nobody(r), TRUE) /\ m.pc = "vector"
  BY <1>3, <1>8
<1>9. CASE o = Result(Nobody([r EXCEPT !.verified = TRUE]), TRUE) /\ ~m.sched
  BY <1>3, <1>9
<1> QED
  BY <1>2, <1>4, <1>5, <1>7, <1>8, <1>9

LEMMA InvalidateShows ==
    ASSUME NEW r, NEW kn, NEW reset, Ok(r, kn), ~r.frozen, High(r)
    PROVE  High(Invalidate(r, reset)) /\ ~Invalidate(r, reset).valid
<1>1. DOMAIN r = Fields
  BY DEF Ok, Shape
<1>2. Invalidate(r, reset) = InvalidateFrozen(r, reset)
  BY DEF Invalidate
<1>3. /\ InvalidateFrozen(r, reset).next = r.next
      /\ InvalidateFrozen(r, reset).identities = r.identities
      /\ InvalidateFrozen(r, reset).valid = FALSE
  BY <1>1 DEF InvalidateFrozen, Fields
<1> QED
  BY <1>2, <1>3 DEF High

LEMMA SelectShows ==
    ASSUME NEW r, NEW kn, NEW x, Ok(r, kn), NEW s, s = Selecting(r, x)
    PROVE  /\ High(r) => High(s)
           /\ \A m : Shows(r, m) /\ x \in Threads(r) => Shows(s, m)
<1>1. DOMAIN r = Fields
  BY DEF Ok, Shape
<1>2. /\ s.tasks = r.tasks /\ s.current = r.current /\ s.selected = x
      /\ s.next = r.next /\ s.identities = r.identities
  BY <1>1 DEF Fields, Selecting
<1>3. Threads(s) = Threads(r)
  BY <1>2 DEF Threads
<1> QED
  BY <1>2, <1>3 DEF High, Shows

\* What a stop reply leaves valid it has just decoded.
LEMMA StopReplyShows ==
    ASSUME NEW r, NEW m, NEW kn, Ok(r, kn), ~r.frozen, known \subseteq kn, High(r),
           StopReply(r, m)
    PROVE  High(rt') /\ (rt'.valid => Shows(rt', m))
<1> DEFINE s == Invalidate(r, FALSE)
<1>1. Ok(s, kn) /\ ~s.frozen /\ Listed(s) = {}
  BY InvalidateOK
<1>2. Ok(s, known)
  BY <1>1, FewerOK
<1>3. High(s) /\ ~s.valid
  BY InvalidateShows
<1>4. PICK o \in Refreshed(s, m, TRUE) :
        Becomes(IF o.ok THEN [o.r EXCEPT !.selected = o.r.current] ELSE o.r, o)
  BY DEF StopReply
<1>5. o \in Refresh(s, m, TRUE, image)
  BY <1>4 DEF Refreshed
<1> HIDE DEF s
<1>6. Good(s, known, o)
  BY <1>1, <1>2, <1>5, RefreshOK DEF Kept
<1>7. High(o.r) /\ (o.r.valid => Shows(o.r, m))
  BY <1>1, <1>2, <1>3, <1>5, RefreshShows
<1>8. CASE o.ok
  <2>1. rt' = Selecting(o.r, o.r.current)
    BY <1>4, <1>8 DEF Becomes, Selecting
  <2>2. Ok(o.r, known \cup Listed(o.r)) /\ o.r.valid /\ o.r.current \in Threads(o.r)
    BY <1>6, <1>8 DEF Good, Ok, Shape
  <2> QED
    BY <1>7, <2>1, <2>2, SelectShows
<1>9. CASE ~o.ok
  BY <1>4, <1>7, <1>9 DEF Becomes
<1> QED
  BY <1>8, <1>9

\* A handler that calls refresh() on the live view of the server.
LEMMA RefreshedShows ==
    ASSUME IInv, ShowInv, ~rt.frozen, NEW o \in Refreshed(rt, k, Halts)
    PROVE  /\ High(o.r)
           /\ rt.valid => o.r = rt
           /\ o.r.valid /\ ~rt.valid => Halts /\ Shows(o.r, k)
           /\ o.r.valid /\ Halts /\ ~unnoted => Shows(o.r, k)
<1>1. o \in Refresh(rt, k, Halts, image)
  BY DEF Refreshed
<1>2. Ok(rt, known) /\ Kept(rt) /\ High(rt)
  BY DEF IInv, Kept, ShowInv
<1>3. High(o.r) /\ (~rt.valid /\ o.r.valid => Halts /\ Shows(o.r, k))
  BY <1>1, <1>2, RefreshShows
<1>4. rt.valid => o.r = rt
  <2>1. Good(rt, known, o)
    BY <1>1, <1>2, RefreshOK
  <2> QED
    BY <2>1 DEF Good
<1> QED
  BY <1>3, <1>4 DEF ShowInv

\* A frozen view stays frozen.
LEMMA FrozenStays ==
    ASSUME IInv, rt.frozen, Next
    PROVE  rt'.frozen
<1>1. IInv' /\ FrozenView
  BY FrozenNext DEF IInv
<1>2. ~(M \/ S \/ C \/ MonitorReset \/ FlashDone \/ Capture \/ P \/ Stop \/ ChipReset \/ ResetUnseen \/ Inspect \/ Runs)
  BY <1>1 DEF FrozenView, M, S, C, MonitorReset, FlashDone, Capture, P, Stop, ChipReset, ResetUnseen, Inspect, Runs
<1>3. CASE Accept \/ Disconnect
  BY <1>3 DEF Accept, Disconnect, Fixed
<1>4. CASE Why
  <2>1. Invalidate(rt, FALSE) = rt
    BY DEF Invalidate
  <2>2. PICK o \in Refreshed(rt, k, TRUE) :
          Becomes(IF o.ok THEN [o.r EXCEPT !.selected = o.r.current] ELSE o.r, o)
    BY <1>4, <2>1 DEF Why, StopReply
  <2>3. o.r = rt
    BY <2>2, RefreshedOK
  <2>4. rt' = rt \/ rt' = Selecting(rt, rt.current)
    BY <2>2, <2>3 DEF Becomes, Selecting
  <2> QED
    BY <2>4, SelectOK DEF IInv
<1>5. CASE \E t \in 0 .. MaxThread : Hg(t)
  <2>1. PICK o \in Refreshed(rt, k, Halts) : \E w : Becomes([o.r EXCEPT !.selected = w], o)
    BY <1>5 DEF Hg
  <2>2. o.r = rt
    BY <2>1, RefreshedOK
  <2>3. PICK w : rt' = Selecting(rt, w)
    BY <2>1, <2>2 DEF Becomes, Selecting
  <2> QED
    BY <2>3, SelectOK DEF IInv
<1> QED
  BY <1>2, <1>3, <1>4, <1>5 DEF Next, Packet

LEMMA ShowNext ==
    ASSUME IInv, ShowInv, Next
    PROVE  ShowInv'
<1> SUFFICES ASSUME ~rt.frozen PROVE ShowInv'
  <2>1. rt.frozen => rt'.frozen
    BY FrozenStays
  <2> QED
    BY <2>1 DEF ShowInv
<1>1. Ok(rt, known) /\ High(rt)
  BY DEF IInv, ShowInv
<1>2. CASE Accept
  <2>1. rt' = rt /\ unnoted'
    BY <1>2 DEF Accept, Fixed
  <2> QED
    BY <1>1, <2>1 DEF ShowInv
<1>3. CASE Why \/ Stop
  <2>1. StopReply(rt, k) /\ hart' = "halted" /\ k' = k
    BY <1>3 DEF Why, Stop
  <2> QED
    BY <1>1, <2>1, StopReplyShows DEF ShowInv, Halts
<1>4. CASE Inspect
  <2>1. PICK o \in Refreshed(rt, k, Halts) : Becomes(o.r, o)
    BY <1>4 DEF Inspect
  <2>2. rt' = o.r /\ hart' = hart /\ k' = k /\ unnoted' = unnoted /\ phase' = phase /\ ~rt.valid
    BY <1>4, <2>1 DEF Inspect, Becomes
  <2> QED
    BY <2>1, <2>2, RefreshedShows DEF ShowInv, Halts
<1>5. CASE \E t \in 0 .. MaxThread : Hg(t)
  <2>0. PICK o \in Refreshed(rt, k, Halts) :
          \E w \in Threads(o.r) : Becomes([o.r EXCEPT !.selected = w], o)
    BY <1>5 DEF Hg
  <2>1. PICK wanted \in Threads(o.r) : Becomes([o.r EXCEPT !.selected = wanted], o)
    BY <2>0
  <2>2. rt' = Selecting(o.r, wanted) /\ hart' = hart /\ k' = k /\ unnoted' = unnoted /\ phase' = phase
    BY <1>5, <2>1 DEF Hg, Becomes, Selecting
  <2>3. Ok(o.r, known \cup Listed(o.r))
    BY RefreshedOK
  <2>4. rt'.valid = o.r.valid /\ (High(o.r) => High(rt'))
    BY <2>2, <2>3, SelectOK, SelectShows
  <2>5. Shows(o.r, k) => Shows(rt', k)
    BY <2>2, <2>3, SelectShows
  <2> QED
    BY <2>2, <2>4, <2>5, RefreshedShows DEF ShowInv, Halts
<1>6. CASE M
  <2>1. /\ rt' = rt /\ hart' = hart /\ Halts /\ unnoted' = (unnoted \/ rt.valid)
    BY <1>6 DEF M
  <2> QED
    BY <1>1, <2>1 DEF ShowInv, Halts
<1>7. CASE P
  <2>1. PICK o \in Refreshed(rt, k, Halts) :
          \/ Becomes(Written(o.r), o)
          \/ rt' = o.r /\ unnoted' = TRUE
    BY <1>7 DEF P
  <2>2. Ok(o.r, known \cup Listed(o.r)) /\ o.r.frozen = rt.frozen /\ High(o.r)
    BY <2>1, RefreshedOK, RefreshedShows
  <2>3. CASE Becomes(Written(o.r), o)
    <3>1. rt' = Invalidate(o.r, FALSE)
      BY <2>3 DEF Becomes, Written
    <3> QED
      BY <2>2, <3>1, InvalidateShows DEF ShowInv
  <2>4. CASE rt' = o.r /\ unnoted' = TRUE
    BY <2>2, <2>4 DEF ShowInv
  <2> QED
    BY <2>1, <2>3, <2>4
<1>8. CASE S
  <2>1. PICK o \in Refreshed(rt, k, Halts), m \in Moves(k) :
          /\ k' = m
          /\ StopReply(o.r, m) \/ (rt' = o.r /\ unnoted' = TRUE)
    BY <1>8 DEF S
  <2>2. Ok(o.r, known \cup Listed(o.r)) /\ o.r.frozen = rt.frozen /\ High(o.r)
    BY <2>1, RefreshedOK, RefreshedShows
  <2>3. hart' = "halted"
    BY <1>8 DEF S, Halts
  <2>4. CASE StopReply(o.r, m)
    <3>1. High(rt') /\ (rt'.valid => Shows(rt', k'))
      BY <2>1, <2>2, <2>4, StopReplyShows
    <3> QED
      BY <2>3, <3>1 DEF ShowInv, Halts
  <2>5. CASE rt' = o.r /\ unnoted' = TRUE
    BY <2>2, <2>5 DEF ShowInv
  <2> QED
    BY <2>1, <2>4, <2>5
<1>9. CASE C \/ MonitorReset \/ ChipReset \/ FlashDone
  <2>1. \/ rt' = rt /\ unnoted' = rt.valid
        \/ \E reset \in BOOLEAN : rt' = Invalidate(rt, reset)
    BY <1>9 DEF C, MonitorReset, ChipReset, FlashDone, AfterReset, ResetFails
  <2>2. CASE rt' = rt /\ unnoted' = rt.valid
    BY <1>1, <2>2 DEF ShowInv
  <2>3. CASE \E reset \in BOOLEAN : rt' = Invalidate(rt, reset)
    BY <1>1, <2>3, InvalidateShows DEF ShowInv
  <2> QED
    BY <2>1, <2>2, <2>3
<1>10. CASE Capture
  <2>1. PICK o \in Refreshed(rt, k, Halts) : Becomes(Offline(o.r), o)
    BY <1>10 DEF Capture
  <2>2. DOMAIN o.r = Fields
    BY RefreshedOK DEF Ok, Shape
  <2>3. rt'.frozen = TRUE
    BY <2>1, <2>2 DEF Becomes, Offline, Fields
  <2> QED
    BY <2>3 DEF ShowInv
<1>11. CASE Disconnect
  <2>1. /\ rt' = rt /\ k' = k /\ unnoted' = unnoted /\ phase' = "closed"
        /\ hart' = IF needsReset THEN "halted" ELSE "running"
        /\ phase # "closed"
    BY <1>11 DEF Disconnect, Fixed, AtPrompt
  <2>2. rt.valid /\ ~unnoted => Halts
    BY <2>1 DEF ShowInv
  <2> QED
    BY <1>1, <2>1, <2>2 DEF ShowInv, Halts
<1>12. CASE Runs
  <2>1. rt' = rt /\ hart' = hart /\ hart = "running" /\ unnoted' = unnoted /\ phase' = phase
    BY <1>12 DEF Runs
  <2> QED
    BY <1>1, <2>1 DEF ShowInv, Halts
<1>13. CASE ResetUnseen
  <2>1. rt' = rt /\ unnoted' = TRUE
    BY <1>13 DEF ResetUnseen
  <2> QED
    BY <1>1, <2>1 DEF ShowInv
<1> QED
  BY <1>2, <1>3, <1>4, <1>5, <1>6, <1>7, <1>8, <1>9, <1>10, <1>11, <1>12, <1>13 DEF Next, Packet

\* While the hart is halted a valid view is what memory and registers say,
\* but for what nothing tells it of (LiteOS.refresh, invalidate and its callers).
THEOREM ViewTrueAlways == Spec => []ViewTrue
<1>1. Init => IInv /\ ShowInv
  <2>1. Init => ShowInv
    BY DEF Init, ShowInv, High, Empty
  <2> QED
    BY <2>1, IInvInit
<1>2. IInv /\ ShowInv /\ [Next]_vars => IInv' /\ ShowInv'
  <2>1. IInv /\ ShowInv /\ UNCHANGED vars => ShowInv'
    BY DEF vars, ShowInv, Halts
  <2> QED
    BY <2>1, IInvNext, ShowNext
<1>3. ShowInv => ViewTrue
  <2>1. TruthIn(k) = Truth
    BY DEF TruthIn, Truth
  <2> QED
    BY <2>1 DEF ShowInv, ViewTrue, Shows
<1> QED
  BY <1>1, <1>2, <1>3, PTL DEF Spec

-----------------------------------------------------------------------------
(* A register write reaches the task GDB means. *)

\* What a view lists it remembers.
Remembers(r) == \A t \in DOMAIN r.tasks : r.tasks[t] \in DOMAIN r.identities /\ r.identities[r.tasks[t]] = t

\* The thread t is a task of the target m, and a refresh of r would number it so.
Stands(r, m, kn, t) ==
    /\ m.pc # "vector" /\ m.sched
    /\ \E key \in DOMAIN r.identities :
        /\ r.identities[key] = t /\ <<t, key>> \in kn
        /\ key[1] \in Used(m) /\ key = Key(m, key[1])

\* While the hart is halted, the thread GDB believes selected is the one the
\* server has selected, and its task is still there, valid view or not.
Means(r, m, kn, t) == t \notin {None, Hart} => r.selected = t /\ Stands(r, m, kn, t)

WriteInv ==
    ~rt.frozen =>
        /\ Remembers(rt)
        /\ unnoted => gdbThread = None
        /\ Halts => Means(rt, k, known, gdbThread)
WInv == WriteInv /\ WritesReachTheirTask

LEMMA DecodeRemembers ==
    ASSUME NEW r, NEW m, NEW kn, Shape(r), Distinct(kn), Numbers(r, kn)
    PROVE  /\ Remembers(Decode(r, m))
           /\ \A t : r.selected = t /\ Stands(r, m, kn, t) => Decode(r, m).selected = t
<1> DEFINE d == Decode(r, m)
           U == Used(m)
           num(s) == Number(r, m, s)
           slot(t) == CHOOSE s \in U : num(s) = t
           numbers == {num(s) : s \in U}
           current == IF Live(m) = None THEN Hart ELSE num(Live(m))
<1>1. DOMAIN r = Fields /\ Agree(r.identities, kn, r.next)
  BY DEF Shape, Numbers
<1>2. /\ d.tasks = [t \in numbers |-> Task(m, slot(t))]
      /\ d.selected = IF r.selected \in numbers THEN r.selected ELSE current
      /\ d.identities = [key \in {Key(m, s) : s \in U} |-> Number(r, m, key[1])]
  BY <1>1 DEF Decode, Fields
<1>3. \A s \in U : slot(num(s)) = s
  <2> SUFFICES ASSUME NEW s \in U PROVE slot(num(s)) = s
    OBVIOUS
  <2>1. slot(num(s)) \in U /\ num(slot(num(s))) = num(s)
    OBVIOUS
  <2> HIDE DEF slot
  <2> QED
    BY <1>1, <2>1, NumbersDiffer
<1>4. \A s \in U : Key(m, s) \in DOMAIN d.identities /\ d.identities[Key(m, s)] = num(s)
  <2> SUFFICES ASSUME NEW s \in U
               PROVE  Key(m, s) \in DOMAIN d.identities /\ d.identities[Key(m, s)] = num(s)
    OBVIOUS
  <2>1. Key(m, s)[1] = s
    BY DEF Key, Task
  <2> QED
    BY <1>2, <2>1
<1>5. DOMAIN d.tasks = numbers /\ \A s \in U : d.tasks[num(s)] = Key(m, s)
  <2>1. DOMAIN d.tasks = numbers /\ \A t \in numbers : d.tasks[t] = Task(m, slot(t))
    BY <1>2
  <2> HIDE DEF d, slot, num
  <2> QED
    BY <1>3, <2>1 DEF Key
<1>6. Remembers(d)
  <2> HIDE DEF d, num
  <2> QED
    BY <1>4, <1>5 DEF Remembers
<1>7. ASSUME NEW t, r.selected = t, Stands(r, m, kn, t)
      PROVE  d.selected = t
  <2>1. PICK key \in DOMAIN r.identities :
          r.identities[key] = t /\ key[1] \in Used(m) /\ key = Key(m, key[1])
    BY <1>7 DEF Stands
  <2>2. key[1] \notin Unknown(r, m)
    BY <2>1 DEF Unknown
  <2>3. num(key[1]) = t
    BY <2>1, <2>2 DEF Number
  <2> HIDE DEF num, d
  <2> QED
    BY <1>2, <1>7, <2>1, <2>3
<1> QED
  BY <1>6, <1>7

LEMMA RefreshRemembers ==
    ASSUME NEW r, NEW m, NEW stopped, NEW same, NEW kn, Ok(r, kn), ~r.frozen, Remembers(r),
           NEW o, o \in Refresh(r, m, stopped, same), NEW t
    PROVE  /\ Remembers(o.r)
           /\ Means(r, m, kn, t) /\ t \notin {None, Hart} =>
                  o.r.selected = t /\ (~o.r.valid => o.r.identities = r.identities)
<1>1. DOMAIN r = Fields /\ Shape(r) /\ Distinct(kn) /\ Numbers(r, kn)
  BY DEF Ok, Shape
<1>2. CASE o.r = r
  BY <1>2 DEF Means
<1>3. ASSUME NEW v, v = r \/ v = [r EXCEPT !.verified = TRUE], o = Result(Nobody(v), TRUE),
             m.pc = "vector" \/ ~m.sched
      PROVE  Remembers(o.r) /\ ~(Means(r, m, kn, t) /\ t \notin {None, Hart})
  <2>1. DOMAIN v = Fields
    BY <1>1, <1>3 DEF Fields
  <2>2. o.r = Nobody(v)
    BY <1>3 DEF Result
  <2>3. Nobody(v).tasks = Empty
    BY <2>1 DEF Nobody, Fields
  <2>4. DOMAIN o.r.tasks = {}
    BY <2>2, <2>3 DEF Empty
  <2> QED
    BY <1>3, <2>4 DEF Remembers, Means, Stands
<1>4. CASE o = Result(Decode(r, m), TRUE)
  <2>1. o.r = Decode(r, m)
    BY <1>4 DEF Result
  <2>2. Decode(r, m).valid
    BY <1>1, DecodeOK
  <2>3. Remembers(Decode(r, m)) /\ \A x : r.selected = x /\ Stands(r, m, kn, x) => Decode(r, m).selected = x
    BY <1>1, DecodeRemembers
  <2> QED
    BY <2>1, <2>2, <2>3 DEF Means
<1>5. CASE o \in Raised(r, m)
  <2>0. PICK n \in 0 .. Cardinality(Unknown(r, m)) :
          o = [r |-> [r EXCEPT !.verified = TRUE, !.next = @ + n], ok |-> FALSE, faults |-> 1]
    BY <1>5 DEF Raised
  <2> DEFINE d == [r EXCEPT !.verified = TRUE, !.next = @ + n]
  <2>1. o.r = d
    BY <2>0
  <2>2. d.identities = r.identities /\ d.tasks = r.tasks /\ d.selected = r.selected
    BY <1>1 DEF Fields
  <2> HIDE DEF d
  <2> QED
    BY <2>1, <2>2 DEF Remembers, Means
<1>6. \/ o.r = r
      \/ o = Result(Nobody(r), TRUE) /\ m.pc = "vector"
      \/ o = Result(Nobody([r EXCEPT !.verified = TRUE]), TRUE) /\ ~m.sched
      \/ o = Result(Decode(r, m), TRUE)
      \/ o \in Raised(r, m)
  BY DEF Refresh, Result
<1>7. CASE o = Result(Nobody(r), TRUE) /\ m.pc = "vector"
  BY <1>3, <1>7
<1>8. CASE o = Result(Nobody([r EXCEPT !.verified = TRUE]), TRUE) /\ ~m.sched
  BY <1>3, <1>8
<1> QED
  BY <1>2, <1>4, <1>5, <1>6, <1>7, <1>8

\* What a view shows stands.
LEMMA ShownStands ==
    ASSUME NEW r, NEW m, NEW kn, Remembers(r), Listed(r) \subseteq kn, Shows(r, m),
           NEW t \in DOMAIN r.tasks
    PROVE  Stands(r, m, kn, t)
<1>1. r.tasks[t] \in TruthIn(m)
  BY DEF Shows
<1>2. m.pc # "vector" /\ m.sched
  BY <1>1 DEF TruthIn
<1>3. PICK s \in Used(m) : r.tasks[t] = Task(m, s)
  BY <1>1, <1>2 DEF TruthIn
<1>4. r.tasks[t][1] = s /\ r.tasks[t] = Key(m, r.tasks[t][1])
  BY <1>3 DEF Key, Task
<1>5. <<t, r.tasks[t]>> \in kn
  BY DEF Listed
<1> QED
  BY <1>2, <1>4, <1>5 DEF Remembers, Stands

LEMMA StandsStill ==
    ASSUME NEW r, NEW r2, NEW m, NEW kn, NEW kn2, NEW t, Stands(r, m, kn, t),
           r2.identities = r.identities, kn \subseteq kn2
    PROVE  Stands(r2, m, kn2, t)
BY DEF Stands

LEMMA InvalidateRemembers ==
    ASSUME NEW r, NEW kn, NEW reset, Ok(r, kn), ~r.frozen
    PROVE  /\ Remembers(Invalidate(r, reset))
           /\ Invalidate(r, reset).identities = r.identities
           /\ Invalidate(r, FALSE).selected = r.selected
<1>1. DOMAIN r = Fields
  BY DEF Ok, Shape
<1>2. /\ InvalidateFrozen(r, reset).tasks = Empty
      /\ InvalidateFrozen(r, reset).identities = r.identities
      /\ InvalidateFrozen(r, FALSE).selected = r.selected
  BY <1>1 DEF InvalidateFrozen, Fields
<1>3. DOMAIN Empty = {}
  BY DEF Empty
<1> QED
  BY <1>2, <1>3 DEF Invalidate, Remembers

LEMMA SelectRemembers ==
    ASSUME NEW r, NEW kn, NEW x, Ok(r, kn), NEW s, s = Selecting(r, x)
    PROVE  (Remembers(r) => Remembers(s)) /\ s.selected = x
<1>1. DOMAIN r = Fields
  BY DEF Ok, Shape
<1>2. s.tasks = r.tasks /\ s.identities = r.identities /\ s.selected = x
  BY <1>1 DEF Fields, Selecting
<1> QED
  BY <1>2 DEF Remembers

\* GDB takes the current thread of a stop reply, and so does the server.
LEMMA StopReplyMeans ==
    ASSUME NEW r, NEW m, NEW kn, Ok(r, kn), ~r.frozen, known \subseteq kn, High(r),
           StopReply(r, m)
    PROVE  Remembers(rt') /\ Means(rt', m, known', gdbThread') /\ ~unnoted'
<1> DEFINE s == Invalidate(r, FALSE)
<1>1. Ok(s, kn) /\ ~s.frozen /\ Listed(s) = {}
  BY InvalidateOK
<1>2. Ok(s, known)
  BY <1>1, FewerOK
<1>3. High(s) /\ ~s.valid
  BY InvalidateShows
<1>4. Remembers(s)
  BY InvalidateRemembers
<1>5. PICK o \in Refreshed(s, m, TRUE) :
        /\ Becomes(IF o.ok THEN [o.r EXCEPT !.selected = o.r.current] ELSE o.r, o)
        /\ gdbThread' = IF o.ok THEN o.r.current ELSE None
  BY DEF StopReply
<1>6. o \in Refresh(s, m, TRUE, image)
  BY <1>5 DEF Refreshed
<1>0. ~unnoted'
  BY DEF StopReply
<1> HIDE DEF s
<1>7. Good(s, known, o)
  BY <1>1, <1>2, <1>6, RefreshOK DEF Kept
<1>8. Remembers(o.r)
  BY <1>1, <1>2, <1>4, <1>6, RefreshRemembers
<1>9. CASE o.ok
  <2>1. rt' = Selecting(o.r, o.r.current) /\ known' = known \cup Listed(rt') /\ gdbThread' = o.r.current
    BY <1>5, <1>9 DEF Becomes, Selecting
  <2>2. Ok(o.r, known \cup Listed(o.r)) /\ o.r.valid /\ o.r.current \in Threads(o.r)
    BY <1>7, <1>9 DEF Good, Ok, Shape
  <2>3. Shows(o.r, m)
    BY <1>1, <1>2, <1>3, <1>6, <2>2, RefreshShows
  <2>4. Shows(rt', m)
    BY <2>1, <2>2, <2>3, SelectShows
  <2>5. Remembers(rt') /\ rt'.selected = gdbThread'
    BY <1>8, <2>1, <2>2, SelectRemembers
  <2>6. rt'.tasks = o.r.tasks
    BY <2>1, <2>2, SelectOK
  <2>7. gdbThread' # Hart => gdbThread' \in DOMAIN rt'.tasks
    BY <2>1, <2>2, <2>6 DEF Threads
  <2>8. gdbThread' # Hart => Stands(rt', m, known', gdbThread')
    BY <2>1, <2>4, <2>5, <2>7, ShownStands
  <2> QED
    BY <1>0, <2>5, <2>8 DEF Means
<1>10. CASE ~o.ok
  BY <1>0, <1>5, <1>8, <1>10 DEF Becomes, Means
<1> QED
  BY <1>9, <1>10

\* What a handler that calls refresh() finds of the thread GDB means.
LEMMA RefreshedMeans ==
    ASSUME IInv, ShowInv, WriteInv, ~rt.frozen, NEW o \in Refreshed(rt, k, Halts)
    PROVE  /\ Remembers(o.r)
           /\ Halts => Means(o.r, k, known \cup Listed(o.r), gdbThread)
<1>1. o \in Refresh(rt, k, Halts, image)
  BY DEF Refreshed
<1>2. Ok(rt, known) /\ Remembers(rt)
  BY DEF IInv, WriteInv
<1>3. Remembers(o.r)
  BY <1>1, <1>2, RefreshRemembers
<1>4. ASSUME Halts, gdbThread \notin {None, Hart}
      PROVE  o.r.selected = gdbThread /\ Stands(o.r, k, known \cup Listed(o.r), gdbThread)
  <2>1. Means(rt, k, known, gdbThread) /\ ~unnoted
    BY <1>4 DEF WriteInv
  <2>2. o.r.selected = gdbThread /\ (~o.r.valid => o.r.identities = rt.identities)
    <3>1. Means(rt, k, known, gdbThread) /\ gdbThread \notin {None, Hart} =>
              o.r.selected = gdbThread /\ (~o.r.valid => o.r.identities = rt.identities)
      BY <1>1, <1>2, RefreshRemembers
    <3> QED
      BY <1>4, <2>1, <3>1
  <2>3. CASE o.r.valid
    <3>1. Shows(o.r, k)
      BY <1>4, <2>1, <2>3, RefreshedShows
    <3>2. gdbThread \in DOMAIN o.r.tasks
      BY <1>4, <2>2, <3>1 DEF Shows, Threads
    <3> QED
      BY <1>3, <2>2, <3>1, <3>2, ShownStands
  <2>4. CASE ~o.r.valid
    BY <1>4, <2>1, <2>2, <2>4, StandsStill DEF Means
  <2> QED
    BY <2>3, <2>4
<1> QED
  BY <1>3, <1>4 DEF Means

\* write_reg on a thread that the server holds live is on the task GDB means.
LEMMA WritesMeant ==
    ASSUME IInv, ShowInv, WriteInv, ~rt.frozen, Halts, ~unnoted, gdbThread \notin {None, Hart},
           NEW o \in Refreshed(rt, k, Halts), o.ok, Writable(o.r)
    PROVE  Meant(gdbThread)
<1>1. Ok(o.r, known \cup Listed(o.r)) /\ o.r.valid
  BY RefreshedOK
<1>2. Shows(o.r, k)
  BY <1>1, RefreshedShows
<1>3. o.r.selected = gdbThread /\ o.r.current = gdbThread
  BY RefreshedMeans DEF Means, Writable
<1>4. gdbThread \in DOMAIN o.r.tasks /\ o.r.tasks[gdbThread][1] = Live(k)
  BY <1>2, <1>3 DEF Shows, Threads
<1>5. <<gdbThread, o.r.tasks[gdbThread]>> \in known \cup Listed(o.r)
  BY <1>4 DEF Listed
<1>6. PICK key : <<gdbThread, key>> \in known /\ key = Key(k, key[1])
  BY DEF WriteInv, Means, Stands
<1>7. key = o.r.tasks[gdbThread]
  <2>1. Distinct(known \cup Listed(o.r))
    BY <1>1 DEF Ok
  <2>2. <<gdbThread, key>> = <<gdbThread, o.r.tasks[gdbThread]>>
    BY <1>5, <1>6, <2>1 DEF Distinct
  <2> QED
    BY <2>2
<1>8. Live(k) # None
  <2>1. ~(TruthIn(k) = {} \/ Live(k) = None)
    BY <1>2, <1>3 DEF Shows
  <2> QED
    BY <2>1
<1>9. Live(k) = k.run /\ k.sp = k.run
  BY <1>8 DEF Live
<1> QED
  BY <1>4, <1>6, <1>7, <1>9 DEF Meant, Key

\* Of a target that differs in the stack alone, and in the control blocks of
\* other tasks, what stood still stands.
LEMMA StandsMoved ==
    ASSUME NEW r, NEW m, NEW n, NEW kn, NEW t, Stands(r, m, kn, t),
           n.pc = m.pc, n.sched = m.sched,
           \A key : <<t, key>> \in kn /\ key[1] \in Used(m) => n.tcb[key[1]] = m.tcb[key[1]]
    PROVE  Stands(r, n, kn, t)
<1>1. PICK key \in DOMAIN r.identities :
        /\ r.identities[key] = t /\ <<t, key>> \in kn
        /\ key[1] \in Used(m) /\ key = Key(m, key[1])
  BY DEF Stands
<1>2. n.tcb[key[1]] = m.tcb[key[1]]
  BY <1>1
<1>3. key[1] \in Used(n) /\ Key(n, key[1]) = Key(m, key[1])
  BY <1>1, <1>2 DEF Used, Key, Task
<1> QED
  BY <1>1, <1>3 DEF Stands

\* The kernel is a record of its fields.
KernelFields == {"tcb", "run", "sp", "sched", "pc", "boot"}
Kernel(m) == DOMAIN m = KernelFields /\ DOMAIN m.tcb = Slots

LEMMA WriteNext ==
    ASSUME IInv, ShowInv, WriteInv, Kernel(k), ~rt.frozen, Next
    PROVE  WriteInv'
<1> SUFFICES ASSUME ~rt'.frozen PROVE WriteInv'
  BY DEF WriteInv
<1>1. Ok(rt, known) /\ High(rt) /\ Remembers(rt) /\ (unnoted => gdbThread = None)
  BY DEF IInv, ShowInv, WriteInv
<1>0. \A m, r, kn : Means(r, m, kn, None)
  BY DEF Means
<1>2. CASE Accept \/ Disconnect \/ ResetUnseen
  <2>1. rt' = rt /\ gdbThread' = None
    BY <1>2 DEF Accept, Disconnect, ResetUnseen, Fixed
  <2> QED
    BY <1>0, <1>1, <2>1 DEF WriteInv
<1>3. CASE Why \/ Stop
  <2>1. StopReply(rt, k) /\ k' = k
    BY <1>3 DEF Why, Stop
  <2> QED
    BY <1>1, <2>1, StopReplyMeans DEF WriteInv
<1>4. CASE Inspect
  <2>1. PICK o \in Refreshed(rt, k, Halts) : Becomes(o.r, o)
    BY <1>4 DEF Inspect
  <2>2. /\ rt' = o.r /\ known' = known \cup Listed(o.r)
        /\ hart' = hart /\ k' = k /\ unnoted' = unnoted /\ gdbThread' = gdbThread
    BY <1>4, <2>1 DEF Inspect, Becomes
  <2> QED
    BY <1>1, <2>1, <2>2, RefreshedMeans DEF WriteInv, Halts
<1>5. CASE \E t \in 0 .. MaxThread : Hg(t)
  <2>0. PICK o \in Refreshed(rt, k, Halts) :
          \E w \in Threads(o.r) : /\ o.ok /\ Becomes([o.r EXCEPT !.selected = w], o)
                                  /\ gdbThread' = IF unnoted THEN None ELSE w
    BY <1>5 DEF Hg
  <2>1. PICK w \in Threads(o.r) : /\ o.ok /\ Becomes([o.r EXCEPT !.selected = w], o)
                                  /\ gdbThread' = IF unnoted THEN None ELSE w
    BY <2>0
  <2>2. /\ rt' = Selecting(o.r, w) /\ known' = known \cup Listed(rt')
        /\ hart' = hart /\ k' = k /\ unnoted' = unnoted
    BY <1>5, <2>1 DEF Hg, Becomes, Selecting
  <2>3. Ok(o.r, known \cup Listed(o.r)) /\ o.r.valid
    BY <2>1, RefreshedOK
  <2>4. Remembers(rt') /\ rt'.selected = w
    BY <2>2, <2>3, SelectRemembers, RefreshedMeans
  <2>5. unnoted' => gdbThread' = None
    BY <2>1, <2>2
  <2>6. ASSUME Halts', gdbThread' \notin {None, Hart}
        PROVE  rt'.selected = gdbThread' /\ Stands(rt', k', known', gdbThread')
    <3>1. gdbThread' = w /\ ~unnoted /\ Halts
      BY <2>1, <2>2, <2>6 DEF Halts
    <3>2. Shows(o.r, k)
      BY <2>3, <3>1, RefreshedShows
    <3>3. Shows(rt', k)
      BY <2>2, <2>3, <3>2, SelectShows
    <3>4. w \in DOMAIN rt'.tasks
      <4>1. rt'.tasks = o.r.tasks
        BY <2>2, <2>3, SelectOK
      <4> QED
        BY <2>6, <3>1, <4>1 DEF Threads
    <3>5. Stands(rt', k, known', w)
      BY <2>2, <2>4, <3>3, <3>4, ShownStands
    <3> QED
      BY <2>2, <2>4, <3>1, <3>5
  <2> QED
    BY <2>4, <2>5, <2>6 DEF WriteInv, Means
<1>6. CASE M
  <2>1. /\ rt' = rt /\ known' = known /\ hart' = hart /\ Halts /\ unnoted' = (unnoted \/ rt.valid)
    BY <1>6 DEF M
  <2>2. PICK s \in Slots, x \in Tcbs :
          /\ k' = [k EXCEPT !.tcb[s] = x]
          /\ gdbThread' = IF rt.valid \/ \E y \in known : y[1] = gdbThread /\ y[2][1] = s
                          THEN None ELSE gdbThread
    BY <1>6 DEF M
  <2>3. CASE rt.valid \/ \E y \in known : y[1] = gdbThread /\ y[2][1] = s
    <3>1. gdbThread' = None
      BY <2>2, <2>3
    <3> QED
      BY <1>0, <1>1, <2>1, <3>1 DEF WriteInv
  <2>4. CASE ~(rt.valid \/ \E y \in known : y[1] = gdbThread /\ y[2][1] = s)
    <3>1. gdbThread' = gdbThread /\ (unnoted' <=> unnoted)
      <4>1. gdbThread' = gdbThread
        BY <2>2, <2>4
      <4>2. unnoted' <=> unnoted
        BY <2>1, <2>4
      <4> QED
        BY <4>1, <4>2
    <3>2. ASSUME gdbThread \notin {None, Hart}
          PROVE  rt.selected = gdbThread /\ Stands(rt, k', known, gdbThread)
      <4>1. rt.selected = gdbThread /\ Stands(rt, k, known, gdbThread)
        BY <2>1, <3>2 DEF WriteInv, Means
      <4>2. k'.pc = k.pc /\ k'.sched = k.sched /\ \A y : y # s => k'.tcb[y] = k.tcb[y]
        BY <2>2 DEF Kernel, KernelFields
      <4>3. \A key : <<gdbThread, key>> \in known => key[1] # s
        BY <2>4
      <4> QED
        BY <4>1, <4>2, <4>3, StandsMoved
    <3> QED
      BY <1>1, <2>1, <3>1, <3>2 DEF WriteInv, Means
  <2> QED
    BY <2>3, <2>4
<1>7. CASE P
  <2>1. PICK o \in Refreshed(rt, k, Halts) :
          \/ Becomes(Written(o.r), o) /\ unnoted' = FALSE /\ gdbThread' = gdbThread
          \/ rt' = o.r /\ gdbThread' = None
    BY <1>7 DEF P
  <2>2. Ok(o.r, known \cup Listed(o.r)) /\ o.r.frozen = rt.frozen /\ Remembers(o.r)
    BY <2>1, RefreshedOK, RefreshedMeans
  <2>3. CASE Becomes(Written(o.r), o) /\ unnoted' = FALSE /\ gdbThread' = gdbThread
    <3>1. rt' = Invalidate(o.r, FALSE) /\ known' = known \cup Listed(rt')
      BY <2>3 DEF Becomes, Written
    <3>2. Remembers(rt') /\ rt'.identities = o.r.identities /\ rt'.selected = o.r.selected
      BY <2>2, <3>1, InvalidateRemembers
    <3>3. ASSUME gdbThread \notin {None, Hart}
          PROVE  rt'.selected = gdbThread /\ Stands(rt', k', known', gdbThread)
      <4>1. Halts /\ \E s \in Slots \cup {Isr} : k' = [k EXCEPT !.sp = s]
        BY <1>7 DEF P
      <4>2. o.r.selected = gdbThread /\ Stands(o.r, k, known \cup Listed(o.r), gdbThread)
        BY <2>1, <3>3, <4>1, RefreshedMeans DEF Means
      <4>3. Stands(rt, k, known, gdbThread)
        BY <3>3, <4>1 DEF WriteInv, Means
      <4>4. Stands(rt', k, known, gdbThread)
        <5>1. PICK old : <<gdbThread, old>> \in known
          BY <4>3 DEF Stands
        <5>2. PICK key \in DOMAIN o.r.identities :
                /\ o.r.identities[key] = gdbThread /\ <<gdbThread, key>> \in known \cup Listed(o.r)
                /\ key[1] \in Used(k) /\ key = Key(k, key[1])
          BY <4>2 DEF Stands
        <5>3. <<gdbThread, key>> = <<gdbThread, old>>
          BY <2>2, <5>1, <5>2 DEF Ok, Distinct
        <5>4. <<gdbThread, key>> \in known
          BY <5>1, <5>3
        <5> QED
          BY <3>2, <4>3, <5>2, <5>4 DEF Stands
      <4>5. k'.pc = k.pc /\ k'.sched = k.sched /\ k'.tcb = k.tcb
        BY <4>1 DEF Kernel, KernelFields
      <4>6. Stands(rt', k', known, gdbThread)
        BY <4>4, <4>5, StandsMoved
      <4>7. Stands(rt', k', known', gdbThread)
        BY <3>1, <4>6, StandsStill
      <4> QED
        BY <3>2, <4>2, <4>7
    <3> QED
      BY <2>3, <3>2, <3>3 DEF WriteInv, Means
  <2>4. CASE rt' = o.r /\ gdbThread' = None
    BY <1>0, <2>2, <2>4 DEF WriteInv
  <2> QED
    BY <2>1, <2>3, <2>4
<1>8. CASE S
  <2>1. PICK o \in Refreshed(rt, k, Halts), m \in Moves(k) :
          /\ k' = m
          /\ StopReply(o.r, m) \/ (rt' = o.r /\ gdbThread' = None)
    BY <1>8 DEF S
  <2>2. /\ Ok(o.r, known \cup Listed(o.r)) /\ o.r.frozen = rt.frozen /\ High(o.r)
        /\ Remembers(o.r)
    BY <2>1, RefreshedOK, RefreshedShows, RefreshedMeans
  <2>3. CASE StopReply(o.r, m)
    <3>1. Remembers(rt') /\ Means(rt', k', known', gdbThread') /\ ~unnoted'
      BY <2>1, <2>2, <2>3, StopReplyMeans
    <3> QED
      BY <3>1 DEF WriteInv
  <2>4. CASE rt' = o.r /\ gdbThread' = None
    BY <1>0, <2>2, <2>4 DEF WriteInv
  <2> QED
    BY <2>1, <2>3, <2>4
<1>9. CASE C \/ MonitorReset \/ ChipReset \/ FlashDone
  <2>1. gdbThread' = None /\ (rt' = rt \/ \E reset \in BOOLEAN : rt' = Invalidate(rt, reset))
    BY <1>9 DEF C, MonitorReset, ChipReset, FlashDone, AfterReset, ResetFails
  <2>2. Remembers(rt')
    BY <1>1, <2>1, InvalidateRemembers DEF WriteInv
  <2> QED
    BY <1>0, <2>1, <2>2 DEF WriteInv
<1>10. CASE Capture
  <2>1. PICK o \in Refreshed(rt, k, Halts) : Becomes(Offline(o.r), o)
    BY <1>10 DEF Capture
  <2>2. DOMAIN o.r = Fields
    BY RefreshedOK DEF Ok, Shape
  <2>3. rt'.frozen = TRUE
    BY <2>1, <2>2 DEF Becomes, Offline, Fields
  <2> QED
    BY <2>3
<1>11. CASE Runs
  <2>1. rt' = rt /\ hart' = hart /\ hart = "running" /\ unnoted' = unnoted /\ gdbThread' = gdbThread
    BY <1>11 DEF Runs
  <2> QED
    BY <1>1, <2>1 DEF WriteInv, Halts
<1> QED
  BY <1>2, <1>3, <1>4, <1>5, <1>6, <1>7, <1>8, <1>9, <1>10, <1>11 DEF Next, Packet

LEMMA KernelNext ==
    ASSUME Kernel(k), Next
    PROVE  Kernel(k)'
<1>1. \A m \in Moves(k) : Kernel(m)
  <2> SUFFICES ASSUME NEW m \in Moves(k) PROVE Kernel(m)
    OBVIOUS
  <2>1. CASE m \in Leave(k) \cup Clear(k)
    <3>1. CASE m = [k EXCEPT !.pc = "code"]
      BY <3>1 DEF Kernel, KernelFields
    <3>2. CASE m = [k EXCEPT !.tcb = [s \in Slots |-> Free], !.sched = FALSE, !.boot = FALSE]
      BY <3>2 DEF Kernel, KernelFields
    <3> QED
      BY <2>1, <3>1, <3>2 DEF Leave, Clear
  <2>2. CASE m \in Create(k) \cup Delete(k)
    BY <2>2 DEF Kernel, KernelFields, Create, Delete, Used
  <2>3. CASE m \in Switch(k) \cup Irq(k)
    BY <2>3 DEF Kernel, KernelFields, Switch, Irq
  <2>4. m \in Leave(k) \cup Clear(k) \cup Create(k) \cup Delete(k) \cup Switch(k) \cup Irq(k)
    BY DEF Moves
  <2> QED
    BY <2>1, <2>2, <2>3, <2>4
<1>2. CASE S \/ Runs
  BY <1>1, <1>2 DEF S, Runs
<1>3. CASE M \/ P \/ Capture
  BY <1>3 DEF Kernel, KernelFields, M, P, Capture
<1>4. CASE MonitorReset \/ ChipReset \/ ResetUnseen
  BY <1>4 DEF Kernel, KernelFields, MonitorReset, ChipReset, AfterReset, ResetFails, ResetUnseen, Rebooted
<1>5. CASE Accept \/ Why \/ Stop \/ Inspect \/ (\E t \in 0 .. MaxThread : Hg(t)) \/ C \/ FlashDone \/ Disconnect
  <2>1. k' = k
    BY <1>5 DEF Accept, Why, Stop, Inspect, Hg, C, FlashDone, Disconnect
  <2> QED
    BY <2>1
<1> QED
  BY <1>2, <1>3, <1>4, <1>5 DEF Next, Packet

LEMMA StrayedNext ==
    ASSUME IInv, ShowInv, WriteInv, ~strayed, Next
    PROVE  ~strayed'
<1>1. CASE P
  <2>1. phase = "prompt" /\ Halts /\ \E o \in Refreshed(rt, k, Halts) : o.ok /\ Writable(o.r)
    BY <1>1 DEF P
  <2>2. ~rt.frozen
    BY <2>1 DEF IInv, FrozenView
  <2>3. ~unnoted /\ gdbThread \notin {None, Hart} => Meant(gdbThread)
    BY <2>1, <2>2, WritesMeant
  <2> QED
    BY <1>1, <2>3 DEF P
<1>2. CASE ~P
  <2>1. strayed' = strayed
    BY <1>2 DEF Next, Packet, Accept, Why, Stop, Inspect, Hg, C, FlashDone, Disconnect, M, S, Capture,
                MonitorReset, ChipReset, AfterReset, ResetFails, ResetUnseen, Runs, Fixed
  <2> QED
    BY <2>1
<1> QED
  BY <1>1, <1>2

\* A register packet writes the registers of the task that GDB means, or is
\* refused (gdbserver.write_reg, LiteOS.select, refresh and stop_reply).
THEOREM WritesReachAlways == Spec => []WritesReachTheirTask
<1> DEFINE All == IInv /\ ShowInv /\ WriteInv /\ Kernel(k) /\ ~strayed
<1>1. Init => All
  <2> SUFFICES ASSUME Init PROVE All
    OBVIOUS
  <2>1. ShowInv
    BY DEF Init, ShowInv, High, Empty
  <2>2. WriteInv
    BY DEF Init, WriteInv, Remembers, Means, Empty
  <2>3. Kernel(k) /\ ~strayed
    BY DEF Init, Kernel, KernelFields
  <2> QED
    BY <2>1, <2>2, <2>3, IInvInit
<1>2. All /\ [Next]_vars => All'
  <2>1. All /\ UNCHANGED vars => All'
    <3> SUFFICES ASSUME All, UNCHANGED vars PROVE All'
      OBVIOUS
    <3>1. IInv' /\ ShowInv' /\ WriteInv'
      BY IInvNext DEF vars, ShowInv, WriteInv, Halts
    <3> QED
      BY <3>1 DEF vars
  <2>2. All /\ Next => All'
    <3> SUFFICES ASSUME All, Next PROVE All'
      OBVIOUS
    <3>1. IInv' /\ ShowInv' /\ Kernel(k)' /\ ~strayed'
      BY IInvNext, ShowNext, KernelNext, StrayedNext
    <3>2. WriteInv'
      <4>1. CASE ~rt.frozen
        BY <4>1, WriteNext
      <4>2. CASE rt.frozen
        BY <4>2, FrozenStays DEF WriteInv
      <4> QED
        BY <4>1, <4>2
    <3> QED
      BY <3>1, <3>2
  <2> QED
    BY <2>1, <2>2
<1>3. All => WritesReachTheirTask
  BY DEF WritesReachTheirTask
<1> HIDE DEF All
<1> QED
  BY <1>1, <1>2, <1>3, PTL DEF Spec

=============================================================================
