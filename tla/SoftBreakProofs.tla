--------------------------- MODULE SoftBreakProofs ---------------------------
(***************************************************************************)
(* Proofs about SoftBreak, for any layout of RAM and Flash, any program,   *)
(* and any number of failed accesses.                                      *)
(*                                                                         *)
(* The invariants hold at every point inside a handler, whether an error   *)
(* is on its way or not.  So every lemma is about one operator on          *)
(* debuggers, and a handler follows from the lemmas of its parts.          *)
(***************************************************************************)
EXTENDS SoftBreak, FiniteSetTheorems, TLAPS

\* The tables describe instructions that lie in one kind of memory, none of
\* them inside another.
Placed(x) ==
    /\ \A a \in At(x) : InsnAt(a, Length(x, a))
    /\ \A a, b \in At(x) : a # b => Patched(x, a) \cap Patched(x, b) = {}

\* What GDB may see at c.
Stands(c, v, u) == v = u[c] \/ (c \in Flash /\ v = Torn)

\* The saved instructions and the memory without an entry are the user's.
SavedTrue(x, u) == \A a \in At(x) : \A i \in 1 .. Length(x, a) : Stands(a + i - 1, x.entries[a][i], u)
Clean(x, u)     == \A c \in Cells \ Covered(x) : Stands(c, x.mem[c], u) /\ x.fetch[c] \notin Patches

\* dcsr.ebreakm is in the debugger's hands, or as the user has it.
Saves(x, o) == IF x.saved = "none" THEN x.ebreakm = o ELSE x.saved = o

Sound(x, u, o) ==
    /\ x \in Debugger
    /\ Placed(x) /\ SavedTrue(x, u) /\ Clean(x, u)
    /\ Saves(x, o)

\* Every breakpoint stops the hart in the debugger, but for one in a torn sector.
InPlace(x, a) == Cut(x.mem, a, Length(x, a)) = PatchFor(Length(x, a))
                 /\ Cut(x.fetch, a, Length(x, a)) = PatchFor(Length(x, a))
InTorn(x, a)  == a \in Flash /\ \E c \in Patched(x, a) : x.mem[c] = Torn
Armed(x) ==
    /\ At(x) # {} => x.ebreakm = "on"
    /\ \A a \in At(x) : InPlace(x, a) \/ InTorn(x, a)

-----------------------------------------------------------------------------
(* Cells, instructions and patches.                                        *)

LEMMA CellFacts ==
    /\ Cells \subseteq Nat /\ Ram \subseteq Cells /\ Flash \subseteq Cells
    /\ \A c \in Cells : c \in Flash <=> c \notin Ram
    /\ Code \subseteq Values /\ Patches \subseteq Values /\ Torn \in Values
    /\ Torn \notin Patches /\ Torn \notin Code /\ Code \cap Patches = {}
  BY PlacesAssumption, CodeAssumption DEF Cells, Values, Torn, Patches

LEMMA LenOf ==
    ASSUME NEW n \in Nat, NEW S, NEW f \in [1 .. n -> S]
    PROVE  Len(f) = n /\ f \in Seq(S)
  OBVIOUS

LEMMA InsnFacts ==
    ASSUME NEW f \in Insns
    PROVE  /\ Len(f) \in {1, 2} /\ f \in [1 .. Len(f) -> Values]
           /\ f # None
  <1>1. PICK n \in {1, 2} : f \in [1 .. n -> Values]
    BY DEF Insns
  <1>2. Len(f) = n
    BY <1>1, LenOf
  <1>3. Len(None) = 0
    BY DEF None
  <1>4. QED
    BY <1>1, <1>2, <1>3

LEMMA PatchFacts ==
    ASSUME NEW n \in {1, 2}
    PROVE  /\ PatchFor(n) \in [1 .. n -> Patches] /\ Len(PatchFor(n)) = n
           /\ PatchFor(n) \in Seq(Values)
  BY CellFacts DEF PatchFor, Patches

LEMMA SpanFacts ==
    ASSUME NEW a \in Int, NEW n \in Int, NEW c
    PROVE  c \in Span(a, n) <=> c \in Int /\ a <= c /\ c < a + n
  BY DEF Span

LEMMA InsnIn ==
    ASSUME NEW a \in Cells, NEW n \in {1, 2}, InsnAt(a, n)
    PROVE  /\ Span(a, n) \subseteq Cells
           /\ a \in Flash => Span(a, n) \subseteq Flash
           /\ a \in Ram => Span(a, n) \subseteq Ram
           /\ a \in Span(a, n)
  <1>1. a \in Nat
    BY CellFacts
  <1>2. a \in Span(a, n)
    BY <1>1, SpanFacts
  <1>3. QED
    BY <1>2, CellFacts DEF InsnAt

Halfwords(f, n) == f = [i \in 1 .. n |-> f[i]]

LEMMA CutIs ==
    ASSUME NEW a \in Nat, NEW n \in Nat, NEW mem, NEW f, Halfwords(f, n)
    PROVE  (Cut(mem, a, n) = f) <=> (\A c \in Span(a, n) : mem[c] = f[c - a + 1])
  <1>1. Cut(mem, a, n) = [i \in 1 .. n |-> mem[a + i - 1]]
    BY DEF Cut
  <1>2. ASSUME Cut(mem, a, n) = f, NEW c \in Span(a, n)
        PROVE  mem[c] = f[c - a + 1]
    <2>1. c - a + 1 \in 1 .. n /\ a + (c - a + 1) - 1 = c
      BY SpanFacts
    <2>2. QED
      BY <1>1, <1>2, <2>1
  <1>3. ASSUME \A c \in Span(a, n) : mem[c] = f[c - a + 1]
        PROVE  Cut(mem, a, n) = f
    <2>1. ASSUME NEW i \in 1 .. n PROVE mem[a + i - 1] = f[i]
      <3>1. a + i - 1 \in Span(a, n) /\ (a + i - 1) - a + 1 = i
        BY SpanFacts
      <3>2. QED
        BY <1>3, <3>1
    <2>2. QED
      BY <1>1, <2>1 DEF Halfwords
  <1>4. QED
    BY <1>2, <1>3

-----------------------------------------------------------------------------
(* Debuggers.                                                              *)

LEMMA Parts ==
    ASSUME NEW x \in Debugger
    PROVE  /\ x.mem \in [Cells -> Values]
           /\ x.fetch \in [Cells -> Patches \cup {"code", Torn}]
           /\ x.entries \in [Cells -> {None} \cup Insns]
           /\ x.saved \in {"none", "off", "on"} /\ x.ebreakm \in {"off", "on"}
           /\ x.unsafe \in BOOLEAN /\ x.hart \in {"halted", "running"}
           /\ x.faults \in Nat /\ x.err \in BOOLEAN
  BY DEF Debugger

\* The same but for errors, the hart, and the Flash flag.
Same(x, z) ==
    /\ z \in Debugger
    /\ z.mem = x.mem /\ z.fetch = x.fetch /\ z.entries = x.entries
    /\ z.saved = x.saved /\ z.ebreakm = x.ebreakm

LEMMA SetErr ==
    ASSUME NEW x \in Debugger, NEW e \in BOOLEAN
    PROVE  Same(x, [x EXCEPT !.err = e]) /\ [x EXCEPT !.err = e].err = e
           /\ [x EXCEPT !.err = e].hart = x.hart
  BY DEF Debugger, Same

LEMMA SetHart ==
    ASSUME NEW x \in Debugger, NEW h \in {"halted", "running"}
    PROVE  Same(x, [x EXCEPT !.hart = h]) /\ [x EXCEPT !.hart = h].err = x.err
  BY DEF Debugger, Same

LEMMA SetUnsafe ==
    ASSUME NEW x \in Debugger, NEW b \in BOOLEAN
    PROVE  Same(x, [x EXCEPT !.unsafe = b]) /\ [x EXCEPT !.unsafe = b].err = x.err
  BY DEF Debugger, Same

LEMMA SetMem ==
    ASSUME NEW x \in Debugger, NEW m \in [Cells -> Values]
    PROVE  LET z == [x EXCEPT !.mem = m]
           IN  z \in Debugger /\ z.mem = m /\ z.fetch = x.fetch /\ z.entries = x.entries
               /\ z.saved = x.saved /\ z.ebreakm = x.ebreakm /\ z.err = x.err
  BY DEF Debugger

LEMMA SetFetch ==
    ASSUME NEW x \in Debugger, NEW f \in [Cells -> Patches \cup {"code", Torn}]
    PROVE  LET z == [x EXCEPT !.fetch = f]
           IN  z \in Debugger /\ z.mem = x.mem /\ z.fetch = f /\ z.entries = x.entries
               /\ z.saved = x.saved /\ z.ebreakm = x.ebreakm /\ z.err = x.err
  BY DEF Debugger

LEMMA SetEntries ==
    ASSUME NEW x \in Debugger, NEW e \in [Cells -> {None} \cup Insns]
    PROVE  LET z == [x EXCEPT !.entries = e]
           IN  z \in Debugger /\ z.mem = x.mem /\ z.fetch = x.fetch /\ z.entries = e
               /\ z.saved = x.saved /\ z.ebreakm = x.ebreakm /\ z.err = x.err
  BY DEF Debugger

LEMMA SetSaved ==
    ASSUME NEW x \in Debugger, NEW v \in {"none", "off", "on"}
    PROVE  LET z == [x EXCEPT !.saved = v]
           IN  z \in Debugger /\ z.mem = x.mem /\ z.fetch = x.fetch /\ z.entries = x.entries
               /\ z.saved = v /\ z.ebreakm = x.ebreakm /\ z.err = x.err
  BY DEF Debugger

LEMMA SetEbreakm ==
    ASSUME NEW x \in Debugger, NEW v \in {"off", "on"}
    PROVE  LET z == [x EXCEPT !.ebreakm = v]
           IN  z \in Debugger /\ z.mem = x.mem /\ z.fetch = x.fetch /\ z.entries = x.entries
               /\ z.saved = x.saved /\ z.ebreakm = v /\ z.err = x.err
  BY DEF Debugger

LEMMA SameTrans ==
    ASSUME NEW x, NEW y, NEW z, Same(x, y), Same(y, z)
    PROVE  Same(x, z)
  BY DEF Same

LEMMA SameSound ==
    ASSUME NEW x, NEW z, NEW u, NEW o, Same(x, z)
    PROVE  /\ Sound(x, u, o) => Sound(z, u, o)
           /\ Armed(x) => Armed(z)
           /\ At(z) = At(x)
  BY DEF Same, Sound, Placed, SavedTrue, Clean, Saves, Armed, InPlace, InTorn, At, Length, Patched, Covered

-----------------------------------------------------------------------------
(* Accesses.                                                               *)

LEMMA FaultFacts ==
    ASSUME NEW x \in Debugger, NEW z \in Fault(x)
    PROVE  Same(x, z) /\ z.err /\ z.hart = x.hart
  <1> DEFINE y == [x EXCEPT !.err = TRUE]
  <1>1. z = [y EXCEPT !.faults = y.faults + 1]
    BY DEF Fault, Raise
  <1>2. Same(x, y) /\ y.err = TRUE /\ y.hart = x.hart
    BY SetErr
  <1> HIDE DEF y
  <1>3. y \in Debugger /\ y.faults + 1 \in Nat
    BY <1>2, Parts DEF Same
  <1>4. Same(y, z) /\ z.err = y.err /\ z.hart = y.hart
    BY <1>1, <1>3 DEF Debugger, Same
  <1>5. QED
    BY <1>2, <1>4, SameTrans

LEMMA RaiseFacts ==
    ASSUME NEW x \in Debugger
    PROVE  Same(x, Raise(x)) /\ Raise(x).err
  BY SetErr DEF Raise

LEMMA SameSelf ==
    ASSUME NEW x \in Debugger
    PROVE  Same(x, x)
  BY DEF Same

LEMMA AccessFacts ==
    ASSUME NEW x \in Debugger, NEW z \in Access(x)
    PROVE  Same(x, z) /\ (z = x \/ z.err)
  BY FaultFacts, SameSelf DEF Access

LEMMA HaltedFacts ==
    ASSUME NEW x \in Debugger, NEW D, NEW z \in Halted(x, D)
    PROVE  z \in D \/ (Same(x, z) /\ z.err)
  BY RaiseFacts DEF Halted

LEMMA HaltFacts ==
    ASSUME NEW x \in Debugger, NEW z \in HaltHart(x)
    PROVE  Same(x, z)
  <1>1. [x EXCEPT !.hart = "halted"] \in Debugger /\ Same(x, [x EXCEPT !.hart = "halted"])
    BY SetHart DEF Same
  <1>2. z \in Access([x EXCEPT !.hart = "halted"]) \/ z \in Fault(x)
    BY DEF HaltHart
  <1>3. QED
    BY <1>1, <1>2, AccessFacts, FaultFacts, SameTrans

LEMMA ResumeFacts ==
    ASSUME NEW x \in Debugger, NEW z \in ResumeHart(x)
    PROVE  Same(x, z)
  <1>1. [x EXCEPT !.hart = "running"] \in Debugger /\ Same(x, [x EXCEPT !.hart = "running"])
    BY SetHart DEF Same
  <1>2. z \in Access([x EXCEPT !.hart = "running"]) \/ z \in Fault(x) \/ (Same(x, z) /\ z.err)
    BY HaltedFacts DEF ResumeHart
  <1>3. QED
    BY <1>1, <1>2, AccessFacts, FaultFacts, SameTrans

-----------------------------------------------------------------------------
(* Writing memory.                                                         *)

Aside(x, z) == z \in Debugger /\ z.entries = x.entries /\ z.saved = x.saved /\ z.ebreakm = x.ebreakm

\* Memory holds data at a.
Holds(z, a, data) == \A c \in Span(a, Len(data)) : z.mem[c] = data[c - a + 1]

\* What the hart fetches once it has been synchronized.
Fetched(mem) == [c \in Cells |-> IF mem[c] \in Code THEN "code" ELSE mem[c]]

\* A write of data at a went half way: each cell has it or not, or the whole
\* sector is torn.
Partly(x, z, a, data) ==
    \A c \in Cells : z.mem[c] = x.mem[c] \/ (c \in Span(a, Len(data)) /\ z.mem[c] = data[c - a + 1])
Tears(x, z, a) ==
    a \in Flash /\ (\A c \in Flash : z.mem[c] = Torn) /\ \A c \in Ram : z.mem[c] = x.mem[c]

Wrote(x, z, a, data) ==
    /\ Aside(x, z)
    /\ Partly(x, z, a, data) \/ Tears(x, z, a)
    /\ z.fetch = x.fetch \/ (z.fetch = Fetched(z.mem) /\ Holds(z, a, data) /\ Partly(x, z, a, data))
    /\ ~z.err => z.fetch = Fetched(z.mem) /\ Holds(z, a, data) /\ Partly(x, z, a, data)

LEMMA FetchedType ==
    ASSUME NEW mem \in [Cells -> Values]
    PROVE  Fetched(mem) \in [Cells -> Patches \cup {"code", Torn}]
  BY DEF Fetched, Values

LEMMA DataFacts ==
    ASSUME NEW data \in Seq(Values), NEW a \in Cells, NEW c \in Span(a, Len(data))
    PROVE  c - a + 1 \in 1 .. Len(data) /\ data[c - a + 1] \in Values
  BY CellFacts, SpanFacts

LEMMA WriteRamFacts ==
    ASSUME NEW x \in Debugger, NEW a \in Cells, NEW data \in Seq(Values),
           NEW z \in WriteRam(x, a, data)
    PROVE  /\ Aside(x, z) /\ z.fetch = x.fetch /\ Partly(x, z, a, data)
           /\ ~z.err => Holds(z, a, data) \/ ~(Span(a, Len(data)) \subseteq Cells)
  <1> DEFINE mem(w)  == [c \in Cells |-> IF c \in Span(a, Len(data)) /\ c \div 2 <= w THEN data[c - a + 1] ELSE x.mem[c]]
             upto(w) == [x EXCEPT !.mem = mem(w)]
             last == (a + Len(data) - 1) \div 2
  <1>1. ASSUME NEW w PROVE mem(w) \in [Cells -> Values]
    <2>1. ASSUME NEW c \in Cells
          PROVE  (IF c \in Span(a, Len(data)) /\ c \div 2 <= w THEN data[c - a + 1] ELSE x.mem[c]) \in Values
      BY DataFacts, Parts
    <2>2. QED
      BY <2>1
  <1>2. ASSUME NEW w
        PROVE  Aside(x, upto(w)) /\ upto(w).fetch = x.fetch /\ Partly(x, upto(w), a, data)
               /\ upto(w).mem = mem(w)
    <2>1. mem(w) \in [Cells -> Values]
      BY <1>1
    <2>2. \A c \in Cells : mem(w)[c] = x.mem[c] \/ (c \in Span(a, Len(data)) /\ mem(w)[c] = data[c - a + 1])
      OBVIOUS
    <2> HIDE DEF mem
    <2>3. QED
      BY <2>1, <2>2, SetMem DEF Aside, Partly
  <1>3. Span(a, Len(data)) \subseteq Cells => Holds(upto(last), a, data)
    <2>1. ASSUME Span(a, Len(data)) \subseteq Cells, NEW c \in Span(a, Len(data))
          PROVE  mem(last)[c] = data[c - a + 1]
      <3>1. Len(data) \in Nat /\ a \in Nat /\ c \in Int /\ c <= a + Len(data) - 1
        BY CellFacts, SpanFacts
      <3>2. c \div 2 <= last
        BY <3>1
      <3>3. c \in Cells
        BY <2>1
      <3> HIDE DEF last
      <3>4. QED
        BY <2>1, <3>2, <3>3
    <2>2. upto(last).mem = mem(last)
      BY <1>2
    <2> HIDE DEF mem, upto, last
    <2>3. QED
      BY <2>1, <2>2 DEF Holds
  <1>4. z = upto(last) \/ \E w : z \in Fault(upto(w))
    <2>1. WriteRam(x, a, data) = {upto(last)} \cup UNION {Fault(upto(w)) : w \in (a \div 2) - 1 .. last}
      BY DEF WriteRam
    <2> HIDE DEF upto, last
    <2>2. QED
      BY <2>1
  <1> HIDE DEF mem, upto, last
  <1>5. ASSUME NEW w, z \in Fault(upto(w))
        PROVE  Aside(x, z) /\ z.fetch = x.fetch /\ Partly(x, z, a, data) /\ z.err
    BY <1>2, <1>5, FaultFacts DEF Aside, Same, Partly
  <1>6. QED
    BY <1>2, <1>3, <1>4, <1>5

LEMMA SyncedFacts ==
    ASSUME NEW x \in Debugger
    PROVE  /\ Aside(x, Synced(x)) /\ Synced(x).mem = x.mem /\ Synced(x).fetch = Fetched(x.mem)
           /\ Synced(x).err = x.err
  <1>1. Synced(x) = [x EXCEPT !.fetch = Fetched(x.mem)]
    BY DEF Synced, Fetched
  <1>2. Fetched(x.mem) \in [Cells -> Patches \cup {"code", Torn}]
    BY FetchedType, Parts
  <1>3. QED
    BY <1>1, <1>2, SetFetch DEF Aside

LEMMA SyncFacts ==
    ASSUME NEW x \in Debugger, NEW z \in Sync(x)
    PROVE  /\ Aside(x, z) /\ z.mem = x.mem
           /\ z.fetch = x.fetch \/ z.fetch = Fetched(x.mem)
           /\ ~z.err => z.fetch = Fetched(x.mem)
  <1>1. z \in Access(Synced(x)) \/ z \in Fault(x) \/ (Same(x, z) /\ z.err)
    BY HaltedFacts DEF Sync
  <1>2. Synced(x) \in Debugger
    BY SyncedFacts DEF Aside
  <1>3. z \in Access(Synced(x)) => Same(Synced(x), z)
    BY <1>2, AccessFacts
  <1>4. z \in Fault(x) => Same(x, z) /\ z.err
    BY FaultFacts
  <1>5. QED
    BY <1>1, <1>3, <1>4, SyncedFacts DEF Same, Aside

LEMMA PutFacts ==
    ASSUME NEW x \in Debugger, NEW a \in Cells, NEW data \in Seq(Values)
    PROVE  /\ Put(x.mem, a, data) \in [Cells -> Values]
           /\ \A c \in Cells : Put(x.mem, a, data)[c] = IF c \in Span(a, Len(data)) THEN data[c - a + 1] ELSE x.mem[c]
  <1>1. ASSUME NEW c \in Cells
        PROVE  (IF c \in Span(a, Len(data)) THEN data[c - a + 1] ELSE x.mem[c]) \in Values
    BY DataFacts, Parts
  <1>2. QED
    BY <1>1 DEF Put

LEMMA ApplyFacts ==
    ASSUME NEW x \in Debugger, NEW a \in Flash, NEW data \in Seq(Values), Span(a, Len(data)) \subseteq Cells,
           NEW z \in Apply(x, a, data)
    PROVE  /\ Aside(x, z)
           /\ Partly(x, z, a, data) \/ Tears(x, z, a)
           /\ z.fetch = x.fetch \/ (z.fetch = Fetched(z.mem) /\ Holds(z, a, data) /\ Partly(x, z, a, data))
           /\ ~z.err => Holds(z, a, data) /\ Partly(x, z, a, data)
  <1> DEFINE mem  == Put(x.mem, a, data)
             done == [x EXCEPT !.mem = mem]
             tmem == [c \in Cells |-> IF c \in Flash THEN Torn ELSE x.mem[c]]
             torn == [x EXCEPT !.mem = tmem]
             unsafe(y, b) == [y EXCEPT !.unsafe = b]
             Fine(y) == /\ Aside(x, y)
                        /\ Partly(x, y, a, data) \/ Tears(x, y, a)
                        /\ y.fetch = x.fetch \/ (y.fetch = Fetched(y.mem) /\ Holds(y, a, data) /\ Partly(x, y, a, data))
             Complete(y) == Fine(y) /\ Holds(y, a, data) /\ Partly(x, y, a, data)
  <1>0. a \in Cells
    BY CellFacts
  <1>1. Complete(done)
    <2>1. done \in Debugger /\ Aside(x, done) /\ done.fetch = x.fetch /\ done.mem = mem
      BY <1>0, PutFacts, SetMem DEF Aside
    <2>2. \A c \in Cells : mem[c] = IF c \in Span(a, Len(data)) THEN data[c - a + 1] ELSE x.mem[c]
      BY <1>0, PutFacts
    <2> HIDE DEF done, mem
    <2>3. QED
      BY <2>1, <2>2 DEF Holds, Partly
  <1>2. Complete(Synced(done))
    <2>1. done \in Debugger
      BY <1>1 DEF Aside
    <2> HIDE DEF done
    <2>2. QED
      BY <1>1, <2>1, SyncedFacts DEF Aside, Partly, Holds
  <1>3. Fine(torn)
    <2>1. tmem \in [Cells -> Values]
      BY Parts, CellFacts
    <2>2. torn \in Debugger /\ Aside(x, torn) /\ torn.fetch = x.fetch /\ torn.mem = tmem
      BY <2>1, SetMem DEF Aside
    <2>3. (\A c \in Flash : tmem[c] = Torn) /\ \A c \in Ram : tmem[c] = x.mem[c]
      BY CellFacts
    <2> HIDE DEF torn, tmem
    <2>4. QED
      BY <2>2, <2>3 DEF Tears
  <1>4. Fine(x)
    BY DEF Aside, Partly
  <1>5. ASSUME NEW y, NEW w, Fine(y), Same(y, w)
        PROVE  Fine(w) /\ (Complete(y) => Complete(w))
    BY <1>5 DEF Same, Aside, Partly, Tears, Holds
  <1>6. ASSUME NEW y, Fine(y), NEW b \in BOOLEAN
        PROVE  Same(y, unsafe(y, b)) /\ unsafe(y, b) \in Debugger
    BY <1>6, SetUnsafe DEF Aside, Same
  <1>7. ASSUME NEW y, Fine(y), z \in Fault(unsafe(y, TRUE))
        PROVE  Fine(z) /\ z.err
    <2>1. Same(y, unsafe(y, TRUE)) /\ unsafe(y, TRUE) \in Debugger
      BY <1>6, <1>7
    <2> HIDE DEF unsafe, Fine, Complete
    <2>2. Same(y, z) /\ z.err
      BY <1>7, <2>1, FaultFacts, SameTrans
    <2>3. QED
      BY <1>5, <1>7, <2>2
  <1>8. \/ z = x /\ done = x
        \/ z = unsafe(Synced(done), FALSE)
        \/ z \in Fault(x)
        \/ \E y \in {x, torn, done, Synced(done)} : z \in Fault(unsafe(y, TRUE))
        \/ Same(x, z) /\ z.err
    <2>1. Apply(x, a, data) =
            Halted(x, Fault(x) \cup (IF done = x THEN {x} \cup Fault(unsafe(x, TRUE))
                     ELSE {unsafe(Synced(done), FALSE)}
                          \cup UNION {Fault(unsafe(y, TRUE)) : y \in {x, torn, done, Synced(done)}}))
      BY DEF Apply
    <2> HIDE DEF done, torn, unsafe, Fine, Complete
    <2>2. QED
      BY <2>1, HaltedFacts
  <1> HIDE DEF done, torn, unsafe
  <1>9. CASE z = x /\ done = x
    BY <1>1, <1>9
  <1>10. CASE z = unsafe(Synced(done), FALSE)
    <2>1. Complete(z)
      <3> HIDE DEF Fine
      <3>1. Fine(Synced(done)) /\ Complete(Synced(done))
        BY <1>2
      <3>2. Same(Synced(done), z)
        BY <1>6, <1>10, <3>1
      <3>3. QED
        BY <1>5, <3>1, <3>2
    <2>2. QED
      BY <2>1
  <1>11. CASE \E y \in {x, torn, done, Synced(done)} : z \in Fault(unsafe(y, TRUE))
    <2>1. PICK y \in {x, torn, done, Synced(done)} : z \in Fault(unsafe(y, TRUE))
      BY <1>11
    <2>2. Fine(y)
      <3> HIDE DEF Fine
      <3> QED BY <1>1, <1>2, <1>3, <1>4
    <2>3. Fine(z) /\ z.err
      <3> HIDE DEF Fine
      <3> QED BY <1>7, <2>1, <2>2
    <2>4. QED
      BY <2>3
  <1>12. CASE z \in Fault(x) \/ (Same(x, z) /\ z.err)
    <2>1. Same(x, z) /\ z.err
      BY <1>12, FaultFacts
    <2>2. Fine(z)
      <3> HIDE DEF Fine
      <3> QED BY <1>4, <1>5, <2>1
    <2>3. QED
      BY <2>1, <2>2
  <1>13. QED
    BY <1>8, <1>9, <1>10, <1>11, <1>12

\* SoftwareBreakpoints._write
LEMMA PatchWriteFacts ==
    ASSUME NEW x \in Debugger, NEW a \in Cells, NEW data \in Seq(Values), Span(a, Len(data)) \subseteq Cells,
           NEW z \in PatchWrite(x, a, data)
    PROVE  Wrote(x, z, a, data)
  <1> DEFINE put == IF a \in Flash THEN Apply(x, a, data) ELSE WriteRam(x, a, data)
             compared(y) == IF Cut(y.mem, a, Len(data)) = data THEN y ELSE Raise(y)
             verified(y) == Then(Access(y), LAMBDA w : {compared(w)})
             Fine(y) == /\ Aside(x, y)
                        /\ Partly(x, y, a, data) \/ Tears(x, y, a)
                        /\ y.fetch = x.fetch \/ (y.fetch = Fetched(y.mem) /\ Holds(y, a, data) /\ Partly(x, y, a, data))
  <1>1. ASSUME NEW y \in put
        PROVE  Fine(y) /\ (~y.err => Holds(y, a, data) /\ Partly(x, y, a, data))
    BY <1>1, ApplyFacts, WriteRamFacts
  <1>2. \/ z \in put /\ z.err
        \/ \E y \in put : ~y.err /\ z \in Sync(y) /\ z.err
        \/ \E y \in put : ~y.err /\ \E w \in Sync(y) : ~w.err /\ z \in verified(w)
    <2>1. PatchWrite(x, a, data) = Then(put, LAMBDA y : Then(Sync(y), verified))
      BY DEF PatchWrite
    <2> HIDE DEF put, verified
    <2>2. QED
      BY <2>1 DEF Then, Ok, Bad
  <1>3. CASE z \in put /\ z.err
    BY <1>1, <1>3 DEF Wrote
  <1>4. ASSUME NEW y \in put, ~y.err, NEW w \in Sync(y)
        PROVE  /\ Aside(x, w) /\ Holds(w, a, data) /\ Partly(x, w, a, data)
               /\ w.fetch = x.fetch \/ w.fetch = Fetched(w.mem)
               /\ ~w.err => w.fetch = Fetched(w.mem)
    <2>1. Fine(y) /\ Holds(y, a, data) /\ Partly(x, y, a, data)
      BY <1>1, <1>4
    <2>2. y \in Debugger
      BY <2>1 DEF Aside
    <2> HIDE DEF put
    <2>3. QED
      BY <1>4, <2>1, <2>2, SyncFacts DEF Aside, Holds, Partly
  <1>5. ASSUME NEW w \in Debugger, ~w.err, z \in verified(w) PROVE Same(w, z)
    <2>1. (z \in Access(w) /\ z.err) \/ \E q \in Access(w) : ~q.err /\ z = compared(q)
      BY <1>5 DEF Then, Ok, Bad
    <2>2. \A q \in Access(w) : Same(w, q) /\ q \in Debugger
      BY AccessFacts DEF Same
    <2>3. \A q \in Access(w) : Same(w, compared(q))
      BY <2>2, RaiseFacts, SameTrans
    <2>4. QED
      BY <2>1, <2>2, <2>3
  <1> HIDE DEF put, verified, Fine
  <1>6. CASE \E y \in put : ~y.err /\ z \in Sync(y) /\ z.err
    BY <1>4, <1>6 DEF Wrote
  <1>7. CASE \E y \in put : ~y.err /\ \E w \in Sync(y) : ~w.err /\ z \in verified(w)
    <2>0. PICK y \in put : ~y.err /\ \E w \in Sync(y) : ~w.err /\ z \in verified(w)
      BY <1>7
    <2>1. PICK w \in Sync(y) : ~w.err /\ z \in verified(w)
      BY <2>0
    <2>2. Aside(x, w) /\ Holds(w, a, data) /\ Partly(x, w, a, data) /\ w.fetch = Fetched(w.mem)
      BY <1>4, <2>0, <2>1
    <2>3. Same(w, z)
      BY <1>5, <2>1, <2>2 DEF Aside
    <2>4. QED
      BY <2>2, <2>3 DEF Wrote, Same, Aside, Holds, Partly
  <1>8. QED
    BY <1>2, <1>3, <1>6, <1>7

-----------------------------------------------------------------------------
(* What a write to an instruction's place does to the tables.               *)

User == [Cells -> Code]

\* A patch is nothing a program holds.
LEMMA Apart ==
    ASSUME NEW n \in {1, 2}, NEW i \in 1 .. n
    PROVE  PatchFor(n)[i] \in Patches /\ PatchFor(n)[i] \notin Code /\ PatchFor(n)[i] # Torn
  BY CellFacts, PatchFacts

LEMMA StandsFacts ==
    ASSUME NEW u \in User, NEW c \in Cells, NEW v, Stands(c, v, u)
    PROVE  v \notin Patches /\ v \in Code \cup {Torn}
  BY CellFacts DEF Stands, User

LEMMA EntryFacts ==
    ASSUME NEW x \in Debugger, Placed(x), NEW a \in At(x)
    PROVE  /\ a \in Cells /\ a \in Nat /\ x.entries[a] \in Insns
           /\ Length(x, a) \in {1, 2} /\ Len(x.entries[a]) = Length(x, a)
           /\ x.entries[a] \in Seq(Values) /\ x.entries[a] \in [1 .. Length(x, a) -> Values]
           /\ Patched(x, a) = Span(a, Length(x, a)) /\ Patched(x, a) \subseteq Cells
           /\ a \in Patched(x, a)
           /\ a \in Flash => Patched(x, a) \subseteq Flash
           /\ a \in Ram => Patched(x, a) \subseteq Ram
  <1>1. a \in Cells /\ x.entries[a] \in Insns
    BY Parts DEF At
  <1>2. Length(x, a) \in {1, 2} /\ x.entries[a] \in [1 .. Length(x, a) -> Values]
    BY <1>1, InsnFacts DEF Length
  <1>3. InsnAt(a, Length(x, a))
    BY DEF Placed
  <1>4. x.entries[a] \in Seq(Values)
    BY <1>2, LenOf
  <1>5. Patched(x, a) = Span(a, Length(x, a)) /\ Len(x.entries[a]) = Length(x, a)
    BY DEF Patched, Length
  <1>6. /\ Span(a, Length(x, a)) \subseteq Cells
        /\ a \in Flash => Span(a, Length(x, a)) \subseteq Flash
        /\ a \in Ram => Span(a, Length(x, a)) \subseteq Ram
        /\ a \in Span(a, Length(x, a))
    BY <1>1, <1>2, <1>3, InsnIn
  <1>7. a \in Nat
    BY <1>1, CellFacts
  <1>8. QED
    BY <1>1, <1>2, <1>4, <1>5, <1>6, <1>7

\* Cells under an entry, by their place in its instruction.
LEMMA InPatch ==
    ASSUME NEW a \in Nat, NEW n \in {1, 2}, NEW i \in 1 .. n
    PROVE  a + i - 1 \in Span(a, n) /\ (a + i - 1) - a + 1 = i
  BY SpanFacts

LEMMA InPlaceIff ==
    ASSUME NEW x \in Debugger, Placed(x), NEW a \in At(x)
    PROVE  InPlace(x, a) <=> \A c \in Patched(x, a) : /\ x.mem[c] = PatchFor(Length(x, a))[c - a + 1]
                                                      /\ x.fetch[c] = PatchFor(Length(x, a))[c - a + 1]
  <1> DEFINE n == Length(x, a)
             f == PatchFor(n)
  <1>1. a \in Nat /\ n \in {1, 2} /\ Patched(x, a) = Span(a, n)
    BY EntryFacts
  <1>2. f \in [1 .. n -> Patches]
    BY <1>1, PatchFacts
  <1>3. InPlace(x, a) <=> Cut(x.mem, a, n) = f /\ Cut(x.fetch, a, n) = f
    BY DEF InPlace
  <1> HIDE DEF n, f
  <1>4. n \in Nat
    BY <1>1
  <1>5. ASSUME NEW m PROVE (Cut(m, a, n) = f) <=> (\A c \in Span(a, n) : m[c] = f[c - a + 1])
    <2>1. a \in Nat /\ Halfwords(f, n)
      BY <1>1, <1>2 DEF Halfwords
    <2>2. QED
      BY <1>4, <2>1, CutIs
  <1>6. /\ (Cut(x.mem, a, n) = f) <=> (\A c \in Span(a, n) : x.mem[c] = f[c - a + 1])
        /\ (Cut(x.fetch, a, n) = f) <=> (\A c \in Span(a, n) : x.fetch[c] = f[c - a + 1])
    BY <1>5
  <1>7. QED
    BY <1>1, <1>3, <1>6 DEF n, f

ArmedBut(x, a) ==
    /\ At(x) \ {a} # {} => x.ebreakm = "on"
    /\ \A b \in At(x) \ {a} : InPlace(x, b) \/ InTorn(x, b)

LEMMA AsideFacts ==
    ASSUME NEW x, NEW z, Aside(x, z)
    PROVE  /\ z \in Debugger /\ At(z) = At(x) /\ Covered(z) = Covered(x)
           /\ \A a : Length(z, a) = Length(x, a) /\ Patched(z, a) = Patched(x, a)
           /\ Placed(x) => Placed(z)
           /\ \A u : SavedTrue(x, u) => SavedTrue(z, u)
           /\ \A o : Saves(x, o) => Saves(z, o)
  BY DEF Aside, At, Covered, Patched, Length, Placed, SavedTrue, Saves

\* Writing over the place of an entry leaves the rest as it was.
LEMMA WroteSound ==
    ASSUME NEW u \in User, NEW o, NEW x, Sound(x, u, o), NEW a \in At(x), NEW data,
           Len(data) = Length(x, a), NEW z, Wrote(x, z, a, data)
    PROVE  /\ Sound(z, u, o) /\ At(z) = At(x) /\ z.entries = x.entries
           /\ ArmedBut(x, a) => ArmedBut(z, a)
  <1>1. Aside(x, z) /\ x \in Debugger /\ Placed(x)
    BY DEF Wrote, Sound
  <1>2. /\ Span(a, Len(data)) = Patched(x, a) /\ Patched(x, a) \subseteq Covered(x)
        /\ \A c \in Covered(x) : c \in Cells
    BY <1>1, EntryFacts DEF Covered
  <1>3. ASSUME NEW c \in Cells \ Patched(x, a)
        PROVE  /\ z.mem[c] = x.mem[c] \/ (c \in Flash /\ z.mem[c] = Torn)
               /\ z.fetch[c] = x.fetch[c]
                  \/ (z.mem[c] = x.mem[c] /\ z.fetch[c] = IF x.mem[c] \in Code THEN "code" ELSE x.mem[c])
    BY <1>2, CellFacts DEF Wrote, Partly, Tears, Fetched
  <1>4. Clean(z, u)
    <2>1. ASSUME NEW c \in Cells \ Covered(x)
          PROVE  Stands(c, z.mem[c], u) /\ z.fetch[c] \notin Patches
      <3>1. c \notin Patched(x, a)
        BY <1>2
      <3>2. Stands(c, x.mem[c], u) /\ x.fetch[c] \notin Patches
        BY DEF Sound, Clean
      <3>3. Stands(c, z.mem[c], u)
        BY <1>3, <3>1, <3>2 DEF Stands
      <3>4. x.mem[c] \notin Patches
        BY <3>2, StandsFacts
      <3>5. "code" \notin Patches
        BY DEF Patches
      <3>6. QED
        BY <1>3, <3>1, <3>2, <3>3, <3>4, <3>5
    <2>2. QED
      BY <1>1, <2>1, AsideFacts DEF Clean
  <1>5. Sound(z, u, o)
    BY <1>1, <1>4, AsideFacts DEF Sound
  <1>6. ASSUME ArmedBut(x, a) PROVE ArmedBut(z, a)
    <2>1. z \in Debugger /\ Placed(z) /\ At(z) = At(x) /\ z.ebreakm = x.ebreakm
      BY <1>1, AsideFacts DEF Aside
    <2>2. ASSUME NEW b \in At(x), b # a, InPlace(x, b) \/ InTorn(x, b)
          PROVE  InPlace(z, b) \/ InTorn(z, b)
      <3>1. Patched(z, b) = Patched(x, b) /\ Length(z, b) = Length(x, b) /\ b \in At(z)
        BY <1>1, <2>1, AsideFacts
      <3>2. Patched(x, b) \cap Patched(x, a) = {} /\ Patched(x, b) \subseteq Cells /\ b \in Patched(x, b)
            /\ (b \in Flash => Patched(x, b) \subseteq Flash) /\ (b \notin Flash => Patched(x, b) \subseteq Ram)
            /\ b \in Nat /\ Length(x, b) \in {1, 2} /\ Patched(x, b) = Span(b, Length(x, b))
        BY <1>1, <2>2, EntryFacts, CellFacts DEF Placed
      <3>3. CASE Tears(x, z, a) /\ b \in Flash
        BY <3>1, <3>2, <3>3 DEF Tears, InTorn
      <3>4. CASE ~Tears(x, z, a) \/ b \notin Flash
        <4>1. \A c \in Patched(x, b) : z.mem[c] = x.mem[c]
          BY <1>2, <3>2, <3>4 DEF Wrote, Partly, Tears
        <4>2. CASE InTorn(x, b)
          BY <3>1, <4>1, <4>2 DEF InTorn
        <4>3. CASE InPlace(x, b)
          <5>1. ASSUME NEW c \in Patched(x, b)
                PROVE  z.mem[c] = PatchFor(Length(x, b))[c - b + 1] /\ z.fetch[c] = PatchFor(Length(x, b))[c - b + 1]
            <6>1. x.mem[c] = PatchFor(Length(x, b))[c - b + 1] /\ x.fetch[c] = PatchFor(Length(x, b))[c - b + 1]
              BY <1>1, <2>2, <4>3, InPlaceIff
            <6>2. c - b + 1 \in 1 .. Length(x, b)
              BY <3>2, SpanFacts
            <6>3. PatchFor(Length(x, b))[c - b + 1] \notin Code
              BY <3>2, <6>2, Apart
            <6>4. c \in Cells \ Patched(x, a)
              BY <3>2
            <6>5. QED
              BY <1>3, <4>1, <6>1, <6>3, <6>4
          <5>2. QED
            BY <2>1, <3>1, <5>1, InPlaceIff
        <4>4. QED
          BY <2>2, <4>2, <4>3
      <3>5. QED
        BY <3>3, <3>4
    <2>3. QED
      BY <1>6, <2>1, <2>2 DEF ArmedBut
  <1>7. QED
    BY <1>1, <1>5, <1>6, AsideFacts DEF Aside

\* The patch is in place once it is written.
LEMMA WrotePatch ==
    ASSUME NEW u \in User, NEW o, NEW x, Sound(x, u, o), NEW a \in At(x),
           NEW z, Wrote(x, z, a, PatchFor(Length(x, a))), ~z.err, x.ebreakm = "on", ArmedBut(x, a)
    PROVE  Armed(z)
  <1> DEFINE n == Length(x, a)
  <1>1. x \in Debugger /\ Placed(x) /\ Aside(x, z)
    BY DEF Sound, Wrote
  <1>2. n \in {1, 2} /\ Patched(x, a) = Span(a, n) /\ Patched(x, a) \subseteq Cells
    BY <1>1, EntryFacts
  <1>3. Len(PatchFor(n)) = n
    BY <1>2, PatchFacts
  <1>4. z \in Debugger /\ Placed(z) /\ a \in At(z) /\ Length(z, a) = n /\ Patched(z, a) = Span(a, n) /\ At(z) = At(x)
    BY <1>1, <1>2, AsideFacts
  <1>5. ASSUME NEW c \in Span(a, n)
        PROVE  z.mem[c] = PatchFor(n)[c - a + 1] /\ z.fetch[c] = PatchFor(n)[c - a + 1]
    <2>1. z.mem[c] = PatchFor(n)[c - a + 1]
      BY <1>3, <1>5 DEF Wrote, Holds
    <2>2. z.fetch = Fetched(z.mem)
      BY DEF Wrote
    <2>3. c - a + 1 \in 1 .. n /\ c \in Cells
      BY <1>1, <1>2, <1>5, SpanFacts, EntryFacts
    <2>4. z.mem[c] \notin Code
      BY <1>2, <2>1, <2>3, Apart
    <2>5. QED
      BY <2>1, <2>2, <2>3, <2>4 DEF Fetched
  <1>6. InPlace(z, a)
    BY <1>4, <1>5, InPlaceIff
  <1>7. ArmedBut(z, a)
    BY <1>3, WroteSound
  <1>8. z.ebreakm = "on"
    BY <1>1 DEF Aside
  <1>9. QED
    BY <1>6, <1>7, <1>8 DEF Armed, ArmedBut

-----------------------------------------------------------------------------
(* dcsr.ebreakm.                                                           *)

\* ebreakm was to become v.
Turned(x, z, v) ==
    /\ z \in Debugger
    /\ z.mem = x.mem /\ z.fetch = x.fetch /\ z.entries = x.entries /\ z.saved = x.saved
    /\ z.ebreakm \in {x.ebreakm, v}
    /\ ~z.err => z.ebreakm = v

LEMMA ReadDcsrFacts ==
    ASSUME NEW x \in Debugger, NEW z \in ReadDcsr(x)
    PROVE  Same(x, z)
  BY HaltedFacts, AccessFacts DEF ReadDcsr

LEMMA WriteDcsrFacts ==
    ASSUME NEW x \in Debugger, NEW v \in {"off", "on"}, NEW z \in WriteDcsr(x, v)
    PROVE  Turned(x, z, v)
  <1> DEFINE y == [x EXCEPT !.ebreakm = v]
  <1>1. /\ y \in Debugger /\ y.mem = x.mem /\ y.fetch = x.fetch /\ y.entries = x.entries
        /\ y.saved = x.saved /\ y.ebreakm = v
    BY SetEbreakm
  <1>2. z \in Access(y) \/ z \in Fault(x) \/ (Same(x, z) /\ z.err)
    BY HaltedFacts DEF WriteDcsr
  <1> HIDE DEF y
  <1>3. z \in Access(y) => Same(y, z)
    BY <1>1, AccessFacts
  <1>4. z \in Fault(x) => Same(x, z) /\ z.err
    BY FaultFacts
  <1>5. QED
    BY <1>1, <1>2, <1>3, <1>4 DEF Same, Turned

LEMMA SetDcsrFacts ==
    ASSUME NEW x \in Debugger, NEW v \in {"off", "on"}, NEW z \in SetDcsr(x, v)
    PROVE  Turned(x, z, v)
  <1>1. (z \in ReadDcsr(x) /\ z.err) \/ \E y \in ReadDcsr(x) : z \in WriteDcsr(y, v)
    BY DEF SetDcsr, Then, Ok, Bad
  <1>2. ASSUME NEW y \in ReadDcsr(x), z \in WriteDcsr(y, v) PROVE Turned(x, z, v)
    <2>1. Same(x, y) /\ y \in Debugger
      BY ReadDcsrFacts DEF Same
    <2>2. Turned(y, z, v)
      BY <1>2, <2>1, WriteDcsrFacts
    <2>3. QED
      BY <2>1, <2>2 DEF Same, Turned
  <1>3. QED
    BY <1>1, <1>2, ReadDcsrFacts DEF Same, Turned

LEMMA TurnedSound ==
    ASSUME NEW x, NEW z, NEW v, Turned(x, z, v)
    PROVE  /\ \A u, o : Sound(x, u, o) /\ x.saved # "none" => Sound(z, u, o)
           /\ At(z) = At(x)
           /\ v = "on" \/ At(x) = {} => (Armed(x) => Armed(z))
           /\ (\A a \in At(x) : InPlace(x, a) \/ InTorn(x, a)) /\ v = "on" /\ ~z.err => Armed(z)
  BY DEF Turned, Sound, Placed, SavedTrue, Clean, Saves, Armed, InPlace, InTorn, At, Length, Patched, Covered

\* SoftwareBreakpoints._save_dcsr
LEMMA SavedSound ==
    ASSUME NEW u, NEW o, NEW x, Sound(x, u, o), x.ebreakm = o
    PROVE  LET z == [x EXCEPT !.saved = x.ebreakm]
           IN  /\ Sound(z, u, o) /\ z.saved # "none" /\ At(z) = At(x) /\ z.entries = x.entries
               /\ Armed(x) => Armed(z)
  <1> DEFINE z == [x EXCEPT !.saved = x.ebreakm]
  <1>1. /\ z \in Debugger /\ z.mem = x.mem /\ z.fetch = x.fetch /\ z.entries = x.entries
        /\ z.saved = x.ebreakm /\ z.ebreakm = x.ebreakm /\ z.saved # "none"
    <2>1. x \in Debugger /\ x.ebreakm \in {"off", "on"}
      BY Parts DEF Sound
    <2>2. QED
      BY <2>1 DEF Debugger
  <1> HIDE DEF z
  <1>2. At(z) = At(x) /\ Covered(z) = Covered(x)
        /\ \A a : Length(z, a) = Length(x, a) /\ Patched(z, a) = Patched(x, a)
    BY <1>1 DEF At, Covered, Length, Patched
  <1>3. Placed(z) /\ SavedTrue(z, u) /\ Clean(z, u)
    BY <1>1, <1>2 DEF Sound, Placed, SavedTrue, Clean
  <1>4. Saves(z, o)
    BY <1>1 DEF Saves
  <1>5. Armed(x) => Armed(z)
    BY <1>1, <1>2 DEF Armed, InPlace, InTorn
  <1>6. QED
    BY <1>1, <1>2, <1>3, <1>4, <1>5 DEF z, Sound

LEMMA RestoreDcsrFacts ==
    ASSUME NEW u, NEW o, NEW x, Sound(x, u, o), NEW z \in RestoreDcsr(x)
    PROVE  Sound(z, u, o) /\ z.entries = x.entries /\ (Armed(x) => Armed(z))
  <1>1. CASE ~(At(x) = {} /\ x.saved # "none")
    BY <1>1 DEF RestoreDcsr
  <1>2. CASE At(x) = {} /\ x.saved # "none"
    <2>1. x \in Debugger /\ x.saved \in {"off", "on"} /\ x.saved = o
      BY <1>2, Parts DEF Sound, Saves
    <2>2. \/ z \in SetDcsr(x, x.saved)
          \/ \E y \in SetDcsr(x, x.saved) : ~y.err /\ z = [y EXCEPT !.saved = "none"]
      BY <1>2 DEF RestoreDcsr, Then, Ok, Bad
    <2>3. ASSUME NEW y \in SetDcsr(x, x.saved)
          PROVE  /\ Sound(y, u, o) /\ y.entries = x.entries /\ (Armed(x) => Armed(y))
                 /\ At(y) = {} /\ y \in Debugger /\ (~y.err => y.ebreakm = o)
      <3>1. Turned(x, y, x.saved)
        BY <2>1, SetDcsrFacts
      <3>2. QED
        BY <1>2, <2>1, <3>1, TurnedSound DEF Turned
    <2>4. ASSUME NEW y \in SetDcsr(x, x.saved), ~y.err, z = [y EXCEPT !.saved = "none"]
          PROVE  Sound(z, u, o) /\ z.entries = x.entries /\ (Armed(x) => Armed(z))
      <3>1. Sound(y, u, o) /\ y.entries = x.entries /\ At(y) = {} /\ y \in Debugger /\ y.ebreakm = o
        BY <2>3, <2>4
      <3>2. /\ z \in Debugger /\ z.mem = y.mem /\ z.fetch = y.fetch /\ z.entries = y.entries
            /\ z.saved = "none" /\ z.ebreakm = y.ebreakm
        BY <2>4, <3>1, SetSaved
      <3>3. QED
        BY <3>1, <3>2 DEF Sound, Placed, SavedTrue, Clean, Saves, Armed, At, Length, Patched, Covered
    <2>5. QED
      BY <2>2, <2>3, <2>4
  <1>3. QED
    BY <1>1, <1>2

-----------------------------------------------------------------------------
(* Taking a breakpoint away.                                               *)

\* The place of an entry is as if it had never had one.
Restored(x, a) == Holds(x, a, x.entries[a]) /\ \A c \in Patched(x, a) : x.fetch[c] \notin Patches

LEMMA SavedCell ==
    ASSUME NEW u, NEW o, NEW x, Sound(x, u, o), NEW a \in At(x), NEW c \in Patched(x, a)
    PROVE  Stands(c, x.entries[a][c - a + 1], u)
  <1>1. x \in Debugger /\ Placed(x)
    BY DEF Sound
  <1>2. a \in Nat /\ Length(x, a) \in {1, 2} /\ c \in Span(a, Length(x, a))
    BY <1>1, EntryFacts
  <1>3. c - a + 1 \in 1 .. Length(x, a) /\ a + (c - a + 1) - 1 = c
    BY <1>2, SpanFacts
  <1>4. \A i \in 1 .. Length(x, a) : Stands(a + i - 1, x.entries[a][i], u)
    BY DEF Sound, SavedTrue
  <1>5. Stands(a + (c - a + 1) - 1, x.entries[a][c - a + 1], u)
    BY <1>3, <1>4
  <1>6. QED
    BY <1>3, <1>5

LEMMA WroteRestored ==
    ASSUME NEW u \in User, NEW o, NEW x, Sound(x, u, o), NEW a \in At(x),
           NEW z, Wrote(x, z, a, x.entries[a]), ~z.err
    PROVE  Restored(z, a)
  <1>1. x \in Debugger /\ Placed(x) /\ Aside(x, z)
    BY DEF Sound, Wrote
  <1>2. z.entries = x.entries /\ Patched(z, a) = Patched(x, a) /\ Patched(x, a) \subseteq Cells
        /\ Patched(x, a) = Span(a, Len(x.entries[a]))
    BY <1>1, AsideFacts, EntryFacts DEF Aside
  <1>3. Holds(z, a, x.entries[a]) /\ z.fetch = Fetched(z.mem)
    BY DEF Wrote
  <1>4. ASSUME NEW c \in Patched(x, a) PROVE z.fetch[c] \notin Patches
    <2>1. Stands(c, x.entries[a][c - a + 1], u) /\ c \in Cells
      BY <1>2, SavedCell
    <2>2. z.mem[c] = x.entries[a][c - a + 1]
      BY <1>2, <1>3 DEF Holds
    <2>3. z.mem[c] \notin Patches
      BY <2>1, <2>2, StandsFacts
    <2>4. "code" \notin Patches
      BY DEF Patches
    <2>5. QED
      BY <1>3, <2>1, <2>3, <2>4 DEF Fetched
  <1>5. QED
    BY <1>2, <1>3, <1>4 DEF Restored

LEMMA ForgetSound ==
    ASSUME NEW u, NEW o, NEW x, Sound(x, u, o), NEW a \in At(x), Restored(x, a)
    PROVE  LET y == [x EXCEPT !.entries[a] = None]
           IN  /\ Sound(y, u, o) /\ y.entries = [x.entries EXCEPT ![a] = None]
               /\ ArmedBut(x, a) => Armed(y)
  <1> DEFINE e == [x.entries EXCEPT ![a] = None]
             y == [x EXCEPT !.entries = e]
  <1>1. x \in Debugger /\ Placed(x) /\ a \in Cells
    BY EntryFacts DEF Sound
  <1>2. e \in [Cells -> {None} \cup Insns]
    BY <1>1, Parts
  <1>3. /\ y \in Debugger /\ y.mem = x.mem /\ y.fetch = x.fetch /\ y.entries = e
        /\ y.saved = x.saved /\ y.ebreakm = x.ebreakm
    BY <1>1, <1>2, SetEntries
  <1>4. At(y) = At(x) \ {a} /\ \A b \in At(y) : y.entries[b] = x.entries[b]
    BY <1>1, <1>3, Parts DEF At
  <1>5. [x EXCEPT !.entries[a] = None] = y
    OBVIOUS
  <1> HIDE DEF y
  <1>6. \A b \in At(y) : b \in At(x) /\ b # a /\ Length(y, b) = Length(x, b) /\ Patched(y, b) = Patched(x, b)
    BY <1>4 DEF Length, Patched
  <1>7. Covered(x) \subseteq Covered(y) \cup Patched(x, a)
    BY <1>4, <1>6 DEF Covered
  <1>8. Placed(y)
    BY <1>1, <1>6 DEF Placed
  <1>9. SavedTrue(y, u)
    BY <1>4, <1>6 DEF Sound, SavedTrue
  <1>10. Clean(y, u)
    <2>1. ASSUME NEW c \in Cells, c \notin Covered(y)
          PROVE  Stands(c, x.mem[c], u) /\ x.fetch[c] \notin Patches
      <3>1. CASE c \notin Covered(x)
        BY <3>1 DEF Sound, Clean
      <3>2. CASE c \in Patched(x, a)
        <4>1. Stands(c, x.entries[a][c - a + 1], u)
          BY <3>2, SavedCell
        <4>2. c \in Span(a, Len(x.entries[a]))
          BY <1>1, <3>2, EntryFacts
        <4>3. QED
          BY <3>2, <4>1, <4>2 DEF Restored, Holds
      <3>3. QED
        BY <1>7, <2>1, <3>1, <3>2
    <2>2. QED
      BY <1>3, <2>1 DEF Clean
  <1>11. Sound(y, u, o)
    BY <1>3, <1>8, <1>9, <1>10 DEF Sound, Saves
  <1>12. ArmedBut(x, a) => Armed(y)
    BY <1>3, <1>4, <1>6 DEF ArmedBut, Armed, InPlace, InTorn
  <1>13. QED
    BY <1>3, <1>5, <1>11, <1>12

LEMMA ForgottenFacts ==
    ASSUME NEW u, NEW o, NEW x, Sound(x, u, o), NEW a \in At(x), Restored(x, a),
           NEW z \in Forgotten(x, a)
    PROVE  /\ Sound(z, u, o) /\ z.entries[a] = None
           /\ ArmedBut(x, a) => Armed(z)
  <1> DEFINE y == [x EXCEPT !.entries[a] = None]
  <1>1. Sound(y, u, o) /\ y.entries = [x.entries EXCEPT ![a] = None] /\ (ArmedBut(x, a) => Armed(y))
    BY ForgetSound
  <1>2. z \in RestoreDcsr(y)
    BY DEF Forgotten
  <1>3. y.entries[a] = None
    <2>1. x.entries \in [Cells -> {None} \cup Insns] /\ a \in Cells
      BY Parts, EntryFacts DEF Sound
    <2> HIDE DEF y
    <2>2. QED
      BY <1>1, <2>1
  <1> HIDE DEF y
  <1>4. Sound(z, u, o) /\ z.entries = y.entries /\ (Armed(y) => Armed(z))
    BY <1>1, <1>2, RestoreDcsrFacts
  <1>5. QED
    BY <1>1, <1>3, <1>4

LEMMA ArmedAway ==
    ASSUME NEW x, NEW a, Armed(x)
    PROVE  ArmedBut(x, a)
  BY DEF Armed, ArmedBut

\* SoftwareBreakpoints.remove
LEMMA RemoveFacts ==
    ASSUME NEW u \in User, NEW o, NEW x, Sound(x, u, o), NEW a \in At(x), NEW z \in Remove(x, a)
    PROVE  Sound(z, u, o) /\ (Armed(x) /\ ~z.err => Armed(z))
  <1> DEFINE old == x.entries[a]
             restore(y) == Then(PatchWrite(y, a, old), LAMBDA w : Forgotten(w, a))
  <1>1. x \in Debugger /\ Placed(x)
    BY DEF Sound
  <1>2. z \in Access(x) \/ \E y \in Access(x) : z = Raise(y) \/ z \in restore(y)
    <2>1. Remove(x, a) = Then(Access(x), LAMBDA y :
              IF Cut(y.mem, a, Len(old)) \in {old, PatchFor(Len(old))} THEN restore(y) ELSE {Raise(y)})
      BY DEF Remove
    <2> HIDE DEF restore, old
    <2>2. QED
      BY <2>1 DEF Then, Ok, Bad
  <1>3. \A y \in Access(x) : Same(x, y) /\ y \in Debugger
    BY <1>1, AccessFacts DEF Same
  <1>4. ASSUME NEW y \in Access(x), z \in restore(y)
        PROVE  Sound(z, u, o) /\ (Armed(x) /\ ~z.err => Armed(z))
    <2>1. Same(x, y) /\ y \in Debugger
      BY <1>3
    <2>2. Sound(y, u, o) /\ At(y) = At(x) /\ y.entries[a] = old /\ (Armed(x) => Armed(y))
      BY <2>1, SameSound DEF Same
    <2>3. Placed(y) /\ a \in At(y)
      BY <2>2 DEF Sound
    <2>4. old \in Seq(Values) /\ Len(old) = Length(y, a) /\ Span(a, Len(old)) \subseteq Cells /\ a \in Cells
      BY <2>1, <2>2, <2>3, EntryFacts
    <2>5. \/ z \in PatchWrite(y, a, old) /\ z.err
          \/ \E w \in PatchWrite(y, a, old) : ~w.err /\ z \in Forgotten(w, a)
      <3> HIDE DEF old
      <3> QED BY <1>4 DEF Then, Ok, Bad
    <2> HIDE DEF old, restore
    <2>6. ASSUME NEW w \in PatchWrite(y, a, old)
          PROVE  Wrote(y, w, a, old) /\ Sound(w, u, o) /\ a \in At(w) /\ (Armed(x) => ArmedBut(w, a))
      <3>1. Wrote(y, w, a, old)
        BY <2>1, <2>4, PatchWriteFacts
      <3>2. QED
        BY <2>2, <2>3, <2>4, <3>1, WroteSound, ArmedAway
    <2>7. ASSUME NEW w \in PatchWrite(y, a, old), ~w.err PROVE Restored(w, a)
      BY <2>2, <2>3, <2>6, <2>7, WroteRestored
    <2>8. QED
      BY <2>5, <2>6, <2>7, ForgottenFacts
  <1> HIDE DEF restore
  <1>5. QED
    BY <1>2, <1>3, <1>4, RaiseFacts, SameTrans, SameSound

-----------------------------------------------------------------------------
(* Inserting a breakpoint.                                                 *)

\* The hart fetches no patch from a place that memory has none in.
NoGhost(x, a) == Holds(x, a, x.entries[a]) => \A c \in Patched(x, a) : x.fetch[c] \notin Patches

LEMMA CutHolds ==
    ASSUME NEW x \in Debugger, Placed(x), NEW a \in At(x),
           Cut(x.mem, a, Len(x.entries[a])) = x.entries[a]
    PROVE  Holds(x, a, x.entries[a])
  <1> DEFINE f == x.entries[a]
             n == Length(x, a)
             m == x.mem
  <1>1. a \in Nat /\ n \in {1, 2} /\ f \in [1 .. n -> Values] /\ Len(f) = n
    BY EntryFacts
  <1>2. Halfwords(f, n) /\ Cut(m, a, n) = f
    BY <1>1 DEF Halfwords
  <1>3. Holds(x, a, f) <=> \A c \in Span(a, n) : m[c] = f[c - a + 1]
    BY <1>1 DEF Holds
  <1> HIDE DEF f, n, m
  <1>4. n \in Nat
    BY <1>1
  <1>5. \A c \in Span(a, n) : m[c] = f[c - a + 1]
    BY <1>1, <1>2, <1>4, CutIs
  <1>6. QED
    BY <1>3, <1>5 DEF f

\* The except of SoftwareBreakpoints.insert
LEMMA RollbackFacts ==
    ASSUME NEW u \in User, NEW o, NEW x, Sound(x, u, o), NEW a \in At(x), NoGhost(x, a),
           NEW z \in Rollback(x, a)
    PROVE  /\ Sound(z, u, o) /\ z.err
           /\ ArmedBut(x, a) /\ z.entries[a] = None => Armed(z)
  <1> DEFINE old == x.entries[a]
             x0 == [x EXCEPT !.err = FALSE]
             back(y) == IF Cut(y.mem, a, Len(old)) # old THEN PatchWrite(y, a, old) ELSE {y}
             undo(y) == Then(back(y), LAMBDA w : Forgotten(w, a))
             Good(w) == Sound(w, u, o) /\ (ArmedBut(x, a) /\ w.entries[a] = None => Armed(w))
  <1>1. x \in Debugger /\ Placed(x)
    BY DEF Sound
  <1>2. \E w : z = Raise(w) /\ (w \in Access(x0) \/ \E y \in Access(x0) : w \in undo(y))
    <2>1. Rollback(x, a) = {Raise(w) : w \in Then(Access(x0), undo)}
      BY DEF Rollback
    <2> HIDE DEF undo, x0
    <2>2. QED
      BY <2>1 DEF Then, Ok, Bad
  <1>3. ASSUME NEW y \in Access(x0)
        PROVE  /\ Same(x, y) /\ y \in Debugger /\ Sound(y, u, o) /\ At(y) = At(x) /\ y.entries[a] = old
               /\ (ArmedBut(x, a) => ArmedBut(y, a)) /\ Placed(y) /\ NoGhost(y, a)
    <2>1. Same(x, x0) /\ x0 \in Debugger
      BY <1>1, SetErr DEF Same
    <2> HIDE DEF x0
    <2>2. Same(x, y)
      BY <2>1, AccessFacts, SameTrans
    <2>3. Sound(y, u, o) /\ At(y) = At(x)
      BY <2>2, SameSound
    <2>4. ArmedBut(x, a) => ArmedBut(y, a)
      BY <2>2, <2>3 DEF Same, ArmedBut, InPlace, InTorn, Length, Patched
    <2>5. NoGhost(y, a)
      BY <2>2 DEF Same, NoGhost, Holds, Length, Patched
    <2>6. QED
      BY <2>2, <2>3, <2>4, <2>5 DEF Same, Sound
  <1>4. old # None
    BY DEF At
  <1>5. ASSUME NEW y \in Access(x0), NEW w \in back(y)
        PROVE  /\ Sound(w, u, o) /\ a \in At(w) /\ w.entries[a] = old /\ (ArmedBut(x, a) => ArmedBut(w, a))
               /\ ~w.err => Restored(w, a)
    <2>1. /\ y \in Debugger /\ Placed(y) /\ Sound(y, u, o) /\ a \in At(y) /\ y.entries[a] = old
          /\ (ArmedBut(x, a) => ArmedBut(y, a)) /\ NoGhost(y, a)
      BY <1>3
    <2>2. CASE w = y /\ Cut(y.mem, a, Len(old)) = old
      <3>1. Holds(y, a, y.entries[a])
        BY <2>1, <2>2, CutHolds
      <3>2. QED
        BY <2>1, <2>2, <3>1 DEF Restored, NoGhost
    <2>3. CASE w \in PatchWrite(y, a, old)
      <3>1. old \in Seq(Values) /\ Len(old) = Length(y, a) /\ Span(a, Len(old)) \subseteq Cells /\ a \in Cells
        BY <2>1, EntryFacts
      <3> HIDE DEF old
      <3>2. Wrote(y, w, a, old)
        BY <2>1, <2>3, <3>1, PatchWriteFacts
      <3>3. Sound(w, u, o) /\ At(w) = At(y) /\ w.entries = y.entries /\ (ArmedBut(y, a) => ArmedBut(w, a))
        BY <2>1, <3>1, <3>2, WroteSound
      <3>4. ~w.err => Restored(w, a)
        BY <2>1, <3>2, WroteRestored
      <3>5. QED
        BY <2>1, <3>3, <3>4
    <2>4. QED
      BY <2>2, <2>3
  <1>6. ASSUME NEW y \in Access(x0), NEW w \in undo(y) PROVE Good(w)
    <2>1. w \in back(y) \/ \E q \in back(y) : ~q.err /\ w \in Forgotten(q, a)
      <3> HIDE DEF back
      <3> QED BY <1>6 DEF Then, Ok, Bad
    <2> HIDE DEF back, x0, old
    <2>2. CASE w \in back(y)
      BY <1>4, <1>5, <2>2
    <2>3. ASSUME NEW q \in back(y), ~q.err, w \in Forgotten(q, a) PROVE Good(w)
      <3>1. Sound(q, u, o) /\ a \in At(q) /\ Restored(q, a) /\ (ArmedBut(x, a) => ArmedBut(q, a))
        BY <1>5, <2>3
      <3>2. QED
        BY <2>3, <3>1, ForgottenFacts
    <2>4. QED
      BY <2>1, <2>2, <2>3
  <1>7. ASSUME NEW w, Good(w), z = Raise(w)
        PROVE  Good(z) /\ z.err
    <2>1. Same(w, z) /\ z.err
      BY <1>7, RaiseFacts DEF Sound
    <2>2. z.entries = w.entries
      BY <2>1 DEF Same
    <2>3. QED
      BY <1>7, <2>1, <2>2, SameSound
  <1>8. \A y \in Access(x0) : Good(y)
    BY <1>3, <1>4
  <1> HIDE DEF undo, x0, old, Good
  <1>9. Good(z) /\ z.err
    BY <1>2, <1>6, <1>7, <1>8
  <1>10. QED
    BY <1>9 DEF Good

\* The new entry, before its patch is written.
Registered(x, a, n) == [x EXCEPT !.entries[a] = Cut(x.mem, a, n)]

LEMMA RegisterSound ==
    ASSUME NEW u \in User, NEW o, NEW x, Sound(x, u, o), x.saved # "none",
           NEW a \in Cells, NEW n \in {1, 2}, InsnAt(a, n),
           x.entries[a] = None, Span(a, n) \cap Covered(x) = {}
    PROVE  LET y == Registered(x, a, n)
           IN  /\ Sound(y, u, o) /\ a \in At(y) /\ Length(y, a) = n
               /\ y.mem = x.mem /\ y.fetch = x.fetch /\ y.ebreakm = x.ebreakm
               /\ \A c \in Patched(y, a) : y.fetch[c] \notin Patches
               /\ Armed(x) => ArmedBut(y, a)
  <1> DEFINE f == Cut(x.mem, a, n)
             e == [x.entries EXCEPT ![a] = f]
             y == [x EXCEPT !.entries = e]
  <1>1. x \in Debugger /\ Placed(x) /\ Span(a, n) \subseteq Cells /\ a \in Nat
    BY InsnIn, CellFacts DEF Sound
  <1>2. f \in [1 .. n -> Values] /\ f \in Insns /\ Len(f) = n /\ f # None
    <2>1. \A i \in 1 .. n : a + i - 1 \in Cells
      BY <1>1, InPatch
    <2>2. f \in [1 .. n -> Values]
      BY <1>1, <2>1, Parts DEF Cut
    <2> HIDE DEF f
    <2>3. f \in Insns
      BY <2>2 DEF Insns
    <2>4. QED
      BY <2>2, <2>3, InsnFacts, LenOf
  <1>3. \A i \in 1 .. n : f[i] = x.mem[a + i - 1]
    BY DEF Cut
  <1> HIDE DEF f
  <1>4. e \in [Cells -> {None} \cup Insns] /\ e[a] = f /\ \A b \in Cells \ {a} : e[b] = x.entries[b]
    BY <1>1, <1>2, Parts
  <1>5. /\ y \in Debugger /\ y.mem = x.mem /\ y.fetch = x.fetch /\ y.entries = e
        /\ y.saved = x.saved /\ y.ebreakm = x.ebreakm
    BY <1>1, <1>4, SetEntries
  <1>6. y = Registered(x, a, n)
    BY DEF Registered, f
  <1> HIDE DEF y, e
  <1>7. /\ At(y) = At(x) \cup {a} /\ a \notin At(x)
        /\ Length(y, a) = n /\ Patched(y, a) = Span(a, n)
        /\ \A b \in At(x) : b # a /\ y.entries[b] = x.entries[b] /\ Length(y, b) = Length(x, b) /\ Patched(y, b) = Patched(x, b)
    BY <1>2, <1>4, <1>5 DEF At, Length, Patched
  <1>8. Covered(y) = Covered(x) \cup Span(a, n)
    BY <1>7 DEF Covered
  <1>9. \A b \in At(x) : Patched(x, b) \cap Span(a, n) = {}
    BY DEF Covered
  <1>10. Placed(y)
    BY <1>1, <1>7, <1>9 DEF Placed
  <1>11. SavedTrue(y, u)
    <2>1. ASSUME NEW i \in 1 .. n PROVE Stands(a + i - 1, f[i], u)
      <3>1. a + i - 1 \in Span(a, n)
        BY <1>1, InPatch
      <3>2. a + i - 1 \in Cells \ Covered(x)
        BY <1>1, <3>1
      <3>3. Stands(a + i - 1, x.mem[a + i - 1], u)
        BY <3>2 DEF Sound, Clean
      <3>4. QED
        BY <1>3, <3>3
    <2>2. \A i \in 1 .. Length(y, a) : Stands(a + i - 1, y.entries[a][i], u)
      BY <1>4, <1>5, <1>7, <2>1
    <2>3. QED
      BY <1>7, <2>2 DEF Sound, SavedTrue
  <1>12. Clean(y, u)
    BY <1>5, <1>8 DEF Sound, Clean
  <1>13. Sound(y, u, o)
    BY <1>5, <1>10, <1>11, <1>12 DEF Sound, Saves
  <1>14. \A c \in Patched(y, a) : y.fetch[c] \notin Patches
    BY <1>1, <1>5, <1>7 DEF Sound, Clean
  <1>15. Armed(x) => ArmedBut(y, a)
    BY <1>5, <1>7 DEF Armed, ArmedBut, InPlace, InTorn
  <1>16. QED
    BY <1>5, <1>6, <1>7, <1>13, <1>14, <1>15

\* A patch written, or not, over a new entry.
LEMMA PatchGhost ==
    ASSUME NEW u \in User, NEW o, NEW x, Sound(x, u, o), NEW a \in At(x),
           \A c \in Patched(x, a) : x.fetch[c] \notin Patches,
           NEW z, Wrote(x, z, a, PatchFor(Length(x, a)))
    PROVE  NoGhost(z, a)
  <1> DEFINE n == Length(x, a)
  <1>1. x \in Debugger /\ Placed(x) /\ Aside(x, z) /\ z.entries = x.entries
    BY DEF Sound, Wrote, Aside
  <1>2. n \in {1, 2} /\ Patched(x, a) = Span(a, n) /\ Patched(z, a) = Span(a, n) /\ a \in Span(a, n)
        /\ Len(x.entries[a]) = n /\ Len(PatchFor(n)) = n /\ a \in Nat /\ Patched(x, a) \subseteq Cells
    BY <1>1, EntryFacts, PatchFacts, AsideFacts
  <1>3. CASE z.fetch = x.fetch
    BY <1>2, <1>3 DEF NoGhost
  <1>4. CASE Holds(z, a, PatchFor(n))
    <2>1. z.mem[a] = PatchFor(n)[1]
      BY <1>2, <1>4 DEF Holds
    <2>2. Stands(a, x.entries[a][1], u)
      <3>1. Stands(a, x.entries[a][a - a + 1], u)
        BY <1>2, SavedCell
      <3>2. a - a + 1 = 1
        BY <1>2
      <3>3. QED
        BY <3>1, <3>2
    <2>3. x.entries[a][1] # PatchFor(n)[1]
      <3>1. PatchFor(n)[1] \in Patches
        BY <1>2, Apart
      <3>2. QED
        BY <1>2, <2>2, <3>1, StandsFacts
    <2>4. ~Holds(z, a, x.entries[a])
      BY <1>2, <2>1, <2>3 DEF Holds
    <2>5. QED
      BY <1>1, <2>4 DEF NoGhost
  <1>5. QED
    BY <1>3, <1>4 DEF Wrote

\* SoftwareBreakpoints.insert.  When it fails with the entry taken back, the
\* breakpoints there were are as they were.
LEMMA InsertFacts ==
    ASSUME NEW u \in User, NEW o, NEW x, Sound(x, u, o),
           NEW a \in Cells, NEW n \in {1, 2}, InsnAt(a, n), NEW z \in Insert(x, a, n)
    PROVE  /\ Sound(z, u, o)
           /\ Armed(x) /\ (~z.err \/ z.entries[a] = None \/ x.entries[a] # None) => Armed(z)
  <1> DEFINE save(y) == IF y.saved # "none" THEN {y}
                        ELSE Then(ReadDcsr(y), LAMBDA q : {[q EXCEPT !.saved = q.ebreakm]})
             register(y) == Registered(y, a, n)
             write(y) == PatchWrite(register(y), a, PatchFor(n))
             patch(y) == Ok(write(y)) \cup UNION {Rollback(q, a) : q \in Bad(write(y))}
             Fresh(y) == x.entries[a] = None /\ Span(a, n) \cap Covered(x) = {}
                         /\ y.entries = x.entries /\ Sound(y, u, o) /\ (Armed(x) => Armed(y))
  <1>1. x \in Debugger
    BY DEF Sound
  <1>2. \/ z = x \/ z = Raise(x)
        \/ x.entries[a] = None /\ Span(a, n) \cap Covered(x) = {}
           /\ (z \in Access(x) \/ \E y \in Access(x) :
                 z \in save(y) \/ \E w \in save(y) :
                   ~w.err /\ (z \in SetDcsr(w, "on") \/ \E q \in SetDcsr(w, "on") : ~q.err /\ z \in patch(q)))
    <2>1. Insert(x, a, n) =
            IF x.entries[a] # None THEN {IF Length(x, a) = n THEN x ELSE Raise(x)}
            ELSE IF Span(a, n) \cap Covered(x) # {} THEN {Raise(x)}
            ELSE Then(Access(x), LAMBDA y : Then(save(y), LAMBDA w : Then(SetDcsr(w, "on"), patch)))
      BY DEF Insert, Registered
    <2> HIDE DEF save, patch
    <2>2. ASSUME z \in Then(Access(x), LAMBDA y : Then(save(y), LAMBDA w : Then(SetDcsr(w, "on"), patch)))
          PROVE  z \in Access(x) \/ \E y \in Access(x) :
                   z \in save(y) \/ \E w \in save(y) :
                     ~w.err /\ (z \in SetDcsr(w, "on") \/ \E q \in SetDcsr(w, "on") : ~q.err /\ z \in patch(q))
      BY <2>2 DEF Then, Ok, Bad
    <2>3. QED
      BY <2>1, <2>2
  <1>3. CASE z = x \/ z = Raise(x)
    BY <1>1, <1>3, RaiseFacts, SameSound
  <1>4. ASSUME x.entries[a] = None, Span(a, n) \cap Covered(x) = {}
        PROVE  Fresh(x)
    BY <1>4
  <1>5. ASSUME Fresh(x), NEW y \in Access(x)
        PROVE  Fresh(y)
    <2>1. Same(x, y)
      BY <1>1, AccessFacts
    <2>2. QED
      BY <1>5, <2>1, SameSound DEF Same
  <1>6. ASSUME NEW y, Fresh(y), NEW w \in save(y)
        PROVE  Fresh(w) /\ (~w.err => w.saved # "none")
    <2>1. y \in Debugger
      BY <1>6 DEF Sound
    <2>2. CASE w \in ReadDcsr(y)
               /\ w.err
      <3>1. Same(y, w)
        BY <2>1, <2>2, ReadDcsrFacts
      <3>2. QED
        BY <1>6, <2>2, <3>1, SameSound DEF Same
    <2>3. ASSUME y.saved = "none", NEW q \in ReadDcsr(y), w = [q EXCEPT !.saved = q.ebreakm]
          PROVE  Fresh(w) /\ w.saved # "none"
      <3>1. Same(y, q)
        BY <2>1, <2>3, ReadDcsrFacts
      <3>2. Sound(q, u, o) /\ q.entries = x.entries /\ (Armed(x) => Armed(q)) /\ q.ebreakm = o
        BY <1>6, <2>3, <3>1, SameSound DEF Same, Sound, Saves
      <3>3. Sound(w, u, o) /\ w.saved # "none" /\ w.entries = q.entries /\ (Armed(q) => Armed(w))
        BY <2>3, <3>2, SavedSound
      <3>4. QED
        BY <1>6, <3>2, <3>3
    <2>4. (w = y /\ y.saved # "none") \/ (w \in ReadDcsr(y) /\ w.err)
          \/ (y.saved = "none" /\ \E q \in ReadDcsr(y) : w = [q EXCEPT !.saved = q.ebreakm])
      BY <1>6 DEF Then, Ok, Bad
    <2> HIDE DEF Fresh, save
    <2>5. QED
      BY <1>6, <2>2, <2>3, <2>4
  <1>7. ASSUME NEW w, Fresh(w), w.saved # "none" \/ w.err, NEW q \in SetDcsr(w, "on")
        PROVE  ~w.err => Fresh(q) /\ q.saved # "none" /\ (~q.err => q.ebreakm = "on")
    <2>1. w \in Debugger
      BY <1>7 DEF Sound
    <2>2. Turned(w, q, "on")
      BY <1>7, <2>1, SetDcsrFacts
    <2>3. QED
      BY <1>7, <2>2, TurnedSound DEF Turned
  <1>8. ASSUME NEW q, Fresh(q), q.saved # "none", q.ebreakm = "on", z \in patch(q)
        PROVE  /\ Sound(z, u, o)
               /\ Armed(x) /\ (~z.err \/ z.entries[a] = None) => Armed(z)
    <2> DEFINE r == register(q)
    <2>1. q.entries[a] = None /\ Span(a, n) \cap Covered(q) = {} /\ Sound(q, u, o) /\ (Armed(x) => Armed(q))
      BY <1>8 DEF Covered, At, Patched, Length
    <2>2. /\ Sound(r, u, o) /\ a \in At(r) /\ Length(r, a) = n /\ r.ebreakm = "on"
          /\ \A c \in Patched(r, a) : r.fetch[c] \notin Patches
          /\ Armed(x) => ArmedBut(r, a)
      BY <1>8, <2>1, RegisterSound
    <2>3. (z \in write(q) /\ ~z.err) \/ \E p \in write(q) : z \in Rollback(p, a)
      <3> HIDE DEF write
      <3> QED BY <1>8 DEF Ok, Bad
    <2>4. write(q) = PatchWrite(r, a, PatchFor(n))
      OBVIOUS
    <2> HIDE DEF r, write
    <2>5. r \in Debugger /\ Span(a, n) \subseteq Cells /\ PatchFor(n) \in Seq(Values) /\ Len(PatchFor(n)) = n
      BY <2>2, InsnIn, PatchFacts DEF Sound
    <2>6. ASSUME NEW p \in write(q)
          PROVE  /\ Wrote(r, p, a, PatchFor(n)) /\ Sound(p, u, o) /\ a \in At(p) /\ NoGhost(p, a)
                 /\ Armed(x) => ArmedBut(p, a)
                 /\ Armed(x) /\ ~p.err => Armed(p)
      <3>1. Wrote(r, p, a, PatchFor(n))
        BY <2>4, <2>5, <2>6, PatchWriteFacts
      <3>2. Sound(p, u, o) /\ At(p) = At(r) /\ (ArmedBut(r, a) => ArmedBut(p, a))
        BY <2>2, <2>5, <3>1, WroteSound
      <3>3. NoGhost(p, a)
        BY <2>2, <3>1, PatchGhost
      <3>4. Armed(x) /\ ~p.err => Armed(p)
        BY <2>2, <3>1, WrotePatch
      <3>5. QED
        BY <2>2, <3>1, <3>2, <3>3, <3>4
    <2>7. CASE z \in write(q) /\ ~z.err
      BY <2>6, <2>7
    <2>8. ASSUME NEW p \in write(q), z \in Rollback(p, a)
          PROVE  Sound(z, u, o) /\ z.err /\ (Armed(x) /\ z.entries[a] = None => Armed(z))
      <3>1. Sound(p, u, o) /\ a \in At(p) /\ NoGhost(p, a) /\ (Armed(x) => ArmedBut(p, a))
        BY <2>6, <2>8
      <3>2. QED
        BY <2>8, <3>1, RollbackFacts
    <2>9. QED
      BY <2>3, <2>7, <2>8
  <1>9. ASSUME NEW y, Fresh(y)
        PROVE  Sound(y, u, o) /\ (Armed(x) => Armed(y)) /\ x.entries[a] = None
    BY <1>9
  <1> HIDE DEF save, patch, register, write, Fresh
  <1>10. ASSUME x.entries[a] = None, Span(a, n) \cap Covered(x) = {},
                NEW y \in Access(x), NEW w \in save(y), ~w.err, NEW q \in SetDcsr(w, "on")
         PROVE  Fresh(q) /\ q.saved # "none" /\ (~q.err => q.ebreakm = "on")
    <2>1. Fresh(y)
      BY <1>4, <1>5, <1>10
    <2>2. Fresh(w) /\ w.saved # "none"
      BY <1>6, <1>10, <2>1
    <2>3. QED
      BY <1>7, <1>10, <2>2
  <1>11. ASSUME x.entries[a] = None, Span(a, n) \cap Covered(x) = {},
                z \in Access(x) \/ \E y \in Access(x) :
                  z \in save(y) \/ \E w \in save(y) :
                    ~w.err /\ (z \in SetDcsr(w, "on") \/ \E q \in SetDcsr(w, "on") : ~q.err /\ z \in patch(q))
         PROVE  Sound(z, u, o) /\ (Armed(x) /\ (~z.err \/ z.entries[a] = None) => Armed(z))
    <2>1. CASE z \in Access(x) \/ \E y \in Access(x) : z \in save(y)
      BY <1>4, <1>5, <1>6, <1>9, <1>11, <2>1
    <2>2. CASE \E y \in Access(x) : \E w \in save(y) : ~w.err /\ z \in SetDcsr(w, "on")
      BY <1>9, <1>10, <1>11, <2>2
    <2>3. CASE \E y \in Access(x) : \E w \in save(y) : \E q \in SetDcsr(w, "on") : ~w.err /\ ~q.err /\ z \in patch(q)
      BY <1>8, <1>10, <1>11, <2>3
    <2>4. QED
      BY <1>11, <2>1, <2>2, <2>3
  <1>12. QED
    BY <1>2, <1>3, <1>11

-----------------------------------------------------------------------------
(* Writing memory under breakpoints.                                       *)

LEMMA SeenFacts ==
    ASSUME NEW x \in Debugger, Placed(x)
    PROVE  /\ \A b \in At(x) : \A c \in Patched(x, b) : Seen(x)[c] = x.entries[b][c - b + 1]
           /\ \A c \in Cells \ Covered(x) : Seen(x)[c] = x.mem[c]
  <1>1. ASSUME NEW b \in At(x), NEW c \in Patched(x, b)
        PROVE  Seen(x)[c] = x.entries[b][c - b + 1]
    <2> DEFINE q == CHOOSE e \in At(x) : c \in Patched(x, e)
    <2>1. q \in At(x) /\ c \in Patched(x, q)
      BY <1>1
    <2>2. c \in Cells /\ c \in Covered(x)
      BY <1>1, EntryFacts DEF Covered
    <2>3. Seen(x)[c] = x.entries[q][c - q + 1]
      BY <2>2 DEF Seen
    <2> HIDE DEF q
    <2>4. q = b
      BY <1>1, <2>1 DEF Placed
    <2>5. QED
      BY <2>3, <2>4
  <1>2. ASSUME NEW c \in Cells \ Covered(x) PROVE Seen(x)[c] = x.mem[c]
    BY DEF Seen
  <1>3. QED
    BY <1>1, <1>2

\* v was to be written to n cells at a: to the saved instructions where there
\* are any, and to memory where there are none; a patch may come back.
Rewritten(x, z, a, n, v) ==
    /\ z \in Debugger /\ z.saved = x.saved /\ z.ebreakm = x.ebreakm
    /\ At(z) = At(x) /\ \A b \in At(x) : Length(z, b) = Length(x, b)
    /\ z.fetch = x.fetch \/ z.fetch = Fetched(z.mem)
    /\ \A c \in Cells \ Covered(x) : z.mem[c] = x.mem[c] \/ (c \in Span(a, n) /\ z.mem[c] = v)
    /\ \A b \in At(x) : \A c \in Patched(x, b) :
          /\ \/ z.entries[b][c - b + 1] = x.entries[b][c - b + 1]
             \/ c \in Span(a, n) /\ z.entries[b][c - b + 1] = v
          /\ \/ z.mem[c] = x.mem[c]
             \/ c \in Ram /\ z.mem[c] = PatchFor(Length(x, b))[c - b + 1]
    /\ ~z.err => /\ \A c \in Span(a, n) \ Covered(x) : z.mem[c] = v
                 /\ \A b \in At(x) : \A c \in Patched(x, b) \cap Span(a, n) : z.entries[b][c - b + 1] = v

LEMMA RewriteSound ==
    ASSUME NEW u \in User, NEW o, NEW x, Sound(x, u, o), NEW a, NEW n, Span(a, n) \subseteq Cells,
           NEW v \in Code, NEW z, Rewritten(x, z, a, n, v),
           NEW u2, u2 = [c \in Cells |-> IF c \in Span(a, n) /\ Seen(z)[c] = v THEN v ELSE u[c]]
    PROVE  /\ Sound(z, u2, o) /\ u2 \in User
           /\ ~z.err => \A c \in Span(a, n) : Seen(z)[c] = v
           /\ Armed(x) => Armed(z)
  <1>1. x \in Debugger /\ Placed(x) /\ z \in Debugger /\ At(z) = At(x)
    BY DEF Sound, Rewritten
  <1>2. u2 \in User
    BY DEF User
  <1>3. \A b \in At(x) : Length(z, b) = Length(x, b) /\ Patched(z, b) = Patched(x, b)
    BY DEF Rewritten, Patched
  <1>4. Covered(z) = Covered(x)
    BY <1>1, <1>3 DEF Covered
  <1>5. Placed(z)
    BY <1>1, <1>3 DEF Placed
  <1>6. /\ \A b \in At(x) : \A c \in Patched(x, b) : Seen(z)[c] = z.entries[b][c - b + 1]
        /\ \A c \in Cells \ Covered(x) : Seen(z)[c] = z.mem[c]
    BY <1>1, <1>3, <1>4, <1>5, SeenFacts
  <1>7. SavedTrue(z, u2)
    <2>1. ASSUME NEW b \in At(x), NEW i \in 1 .. Length(x, b)
          PROVE  Stands(b + i - 1, z.entries[b][i], u2)
      <3> DEFINE c == b + i - 1
      <3>1. b \in Nat /\ Length(x, b) \in {1, 2} /\ Patched(x, b) = Span(b, Length(x, b)) /\ Patched(x, b) \subseteq Cells
        BY <1>1, EntryFacts
      <3>2. c \in Patched(x, b) /\ c - b + 1 = i /\ c \in Cells
        BY <3>1, InPatch
      <3> HIDE DEF c
      <3>3. Stands(c, x.entries[b][i], u)
        BY <3>2, SavedCell
      <3>4. Seen(z)[c] = z.entries[b][i]
        BY <1>6, <3>2
      <3>5. z.entries[b][i] = x.entries[b][i] \/ (c \in Span(a, n) /\ z.entries[b][i] = v)
        BY <3>2 DEF Rewritten
      <3>6. Stands(c, z.entries[b][i], u2)
        BY <3>2, <3>3, <3>4, <3>5 DEF Stands
      <3>7. QED
        BY <3>6 DEF c
    <2>2. QED
      BY <1>1, <1>3, <2>1 DEF SavedTrue
  <1>8. Clean(z, u2)
    <2>1. ASSUME NEW c \in Cells \ Covered(x)
          PROVE  Stands(c, z.mem[c], u2) /\ z.fetch[c] \notin Patches
      <3>1. Stands(c, x.mem[c], u) /\ x.fetch[c] \notin Patches
        BY DEF Sound, Clean
      <3>2. Seen(z)[c] = z.mem[c]
        BY <1>6
      <3>3. z.mem[c] = x.mem[c] \/ (c \in Span(a, n) /\ z.mem[c] = v)
        BY DEF Rewritten
      <3>4. Stands(c, z.mem[c], u2)
        BY <3>1, <3>2, <3>3 DEF Stands
      <3>5. z.mem[c] \notin Patches /\ "code" \notin Patches
        BY <1>2, <3>4, StandsFacts DEF Patches
      <3>6. z.fetch = x.fetch \/ z.fetch = Fetched(z.mem)
        BY DEF Rewritten
      <3>7. QED
        BY <3>1, <3>4, <3>5, <3>6 DEF Fetched
    <2>2. QED
      BY <1>4, <2>1 DEF Clean
  <1>9. Sound(z, u2, o)
    BY <1>1, <1>5, <1>7, <1>8 DEF Sound, Saves, Rewritten
  <1>10. ASSUME ~z.err, NEW c \in Span(a, n) PROVE Seen(z)[c] = v
    <2>1. CASE c \in Covered(x)
      <3>1. PICK b \in At(x) : c \in Patched(x, b)
        BY <2>1 DEF Covered
      <3>2. QED
        BY <1>6, <1>10, <3>1 DEF Rewritten
    <2>2. CASE c \notin Covered(x)
      BY <1>6, <1>10, <2>2 DEF Rewritten
    <2>3. QED
      BY <2>1, <2>2
  <1>11. ASSUME NEW b \in At(x), InPlace(x, b) \/ InTorn(x, b)
         PROVE  InPlace(z, b) \/ InTorn(z, b)
    <2>1. /\ b \in Flash => Patched(x, b) \subseteq Flash
          /\ Length(x, b) \in {1, 2} /\ Patched(x, b) = Span(b, Length(x, b)) /\ Patched(x, b) \subseteq Cells /\ b \in Nat
      BY <1>1, EntryFacts
    <2>2. CASE InTorn(x, b)
      BY <1>3, <2>1, <2>2, CellFacts DEF InTorn, Rewritten
    <2>3. CASE InPlace(x, b)
      <3>1. ASSUME NEW c \in Patched(x, b)
            PROVE  z.mem[c] = PatchFor(Length(x, b))[c - b + 1] /\ z.fetch[c] = PatchFor(Length(x, b))[c - b + 1]
        <4>1. x.mem[c] = PatchFor(Length(x, b))[c - b + 1] /\ x.fetch[c] = PatchFor(Length(x, b))[c - b + 1]
          BY <1>1, <2>3, InPlaceIff
        <4>2. z.mem[c] = PatchFor(Length(x, b))[c - b + 1]
          BY <4>1 DEF Rewritten
        <4>3. c - b + 1 \in 1 .. Length(x, b) /\ c \in Cells
          BY <2>1, SpanFacts
        <4>4. z.mem[c] \notin Code
          BY <2>1, <4>2, <4>3, Apart
        <4>5. z.fetch = x.fetch \/ z.fetch = Fetched(z.mem)
          BY DEF Rewritten
        <4>6. QED
          BY <4>1, <4>2, <4>3, <4>4, <4>5 DEF Fetched
      <3>2. QED
        BY <1>1, <1>3, <1>5, <3>1, InPlaceIff
    <2>4. QED
      BY <1>11, <2>2, <2>3
  <1>12. Armed(x) => Armed(z)
    BY <1>1, <1>11 DEF Armed, Rewritten
  <1>13. QED
    BY <1>2, <1>9, <1>10, <1>12

\* SoftwareBreakpoints.write
LEMMA WriteFacts ==
    ASSUME NEW u \in User, NEW o, NEW x, Sound(x, u, o),
           NEW a \in Ram, NEW n \in Nat, Span(a, n) \subseteq Ram, NEW v \in Code,
           NEW z \in Write(x, a, [i \in 1 .. n |-> v])
    PROVE  Rewritten(x, z, a, n, v)
  <1> DEFINE data == [i \in 1 .. n |-> v]
             span == Span(a, Len(data))
             hit  == {b \in At(x) : Patched(x, b) \cap span # {}}
             phys(i) == IF \E b \in hit : a + i - 1 \in Patched(x, b)
                        THEN LET b == CHOOSE q \in hit : a + i - 1 \in Patched(x, q)
                             IN  PatchFor(Length(x, b))[a + i - b]
                        ELSE data[i]
             physical == [i \in 1 .. Len(data) |-> phys(i)]
             entry(y, b) == [i \in 1 .. Length(x, b) |-> IF b + i - 1 \in span THEN data[b + i - a] ELSE y.entries[b][i]]
             table(y) == [b \in Cells |-> IF b \in hit THEN entry(y, b) ELSE y.entries[b]]
             changed(y) == [y EXCEPT !.entries = table(y)]
  <1>1. x \in Debugger /\ Placed(x) /\ a \in Nat /\ a \in Cells /\ v \in Values
    BY CellFacts DEF Sound
  <1>2. Len(data) = n /\ span = Span(a, n) /\ \A i \in 1 .. n : data[i] = v
    OBVIOUS
  <1>3. \/ z \in WriteRam(x, a, physical) /\ (z.err \/ hit = {})
        \/ \E y \in WriteRam(x, a, physical) : ~y.err /\ z \in Sync(changed(y))
    <2>1. Write(x, a, data) = Then(WriteRam(x, a, physical), LAMBDA y : IF hit = {} THEN {y} ELSE Sync(changed(y)))
      BY DEF Write
    <2> HIDE DEF physical, changed, hit
    <2>2. QED
      BY <2>1 DEF Then, Ok, Bad
  <1>4. ASSUME NEW i \in 1 .. n
        PROVE  /\ phys(i) \in Values
               /\ a + i - 1 \notin Covered(x) => phys(i) = v
               /\ \A b \in At(x) : a + i - 1 \in Patched(x, b) => phys(i) = PatchFor(Length(x, b))[a + i - b]
    <2> DEFINE c == a + i - 1
               some == CHOOSE q \in hit : c \in Patched(x, q)
    <2>1. c \in span
      <3> HIDE DEF data
      <3> QED BY <1>1, <1>2, SpanFacts
    <2>2. CASE c \notin Covered(x)
      <3>1. \A b \in At(x) : c \notin Patched(x, b)
        BY <2>2 DEF Covered
      <3>2. phys(i) = data[i]
        BY <3>1
      <3>3. QED
        BY <1>1, <1>2, <3>1, <3>2
    <2>3. ASSUME NEW b \in At(x), c \in Patched(x, b)
          PROVE  phys(i) = PatchFor(Length(x, b))[a + i - b] /\ phys(i) \in Values
      <3>1. b \in hit
        BY <2>1, <2>3
      <3>2. some \in hit /\ c \in Patched(x, some)
        BY <2>3, <3>1
      <3>3. phys(i) = PatchFor(Length(x, some))[a + i - some]
        BY <2>3, <3>1
      <3> HIDE DEF some, phys
      <3>4. some = b
        BY <1>1, <2>3, <3>2 DEF Placed
      <3>5. Length(x, b) \in {1, 2} /\ c \in Span(b, Length(x, b)) /\ b \in Nat
        BY <1>1, <2>3, EntryFacts
      <3>6. a + i - b \in 1 .. Length(x, b)
        BY <1>1, <3>5, SpanFacts
      <3>7. QED
        BY <3>3, <3>4, <3>5, <3>6, Apart, CellFacts
    <2> HIDE DEF phys
    <2>4. QED
      BY <2>2, <2>3 DEF Covered
  <1> HIDE DEF phys, data
  <1>5. physical \in Seq(Values) /\ Len(physical) = n
    <2>1. physical \in [1 .. n -> Values]
      BY <1>2, <1>4
    <2> HIDE DEF physical
    <2>2. QED
      BY <2>1, LenOf
  <1>6. ASSUME NEW c \in span
        PROVE  /\ c \notin Covered(x) => physical[c - a + 1] = v
               /\ \A b \in At(x) : c \in Patched(x, b) => physical[c - a + 1] = PatchFor(Length(x, b))[c - b + 1]
    <2> DEFINE i == c - a + 1
    <2>1. i \in 1 .. n /\ a + i - 1 = c /\ c \in Int
      BY <1>1, <1>2, SpanFacts
    <2>2. physical[i] = phys(i)
      BY <1>2, <2>1
    <2> HIDE DEF physical
    <2>3. \A b \in At(x) : c \in Patched(x, b) => b \in Int
      BY <1>1, EntryFacts
    <2>4. \A b \in Int : a + i - b = c - b + 1
      BY <1>1, <2>1
    <2>5. QED
      BY <1>4, <2>1, <2>2, <2>3, <2>4
  <1>7. \A b \in At(x) : \A c \in Patched(x, b) : c \in Cells /\ c \in Covered(x)
    BY <1>1, EntryFacts DEF Covered
  <1> HIDE DEF physical
  <1>8. ASSUME NEW y \in WriteRam(x, a, physical)
        PROVE  /\ Aside(x, y) /\ y.fetch = x.fetch
               /\ \A c \in Cells \ Covered(x) : y.mem[c] = x.mem[c] \/ (c \in span /\ y.mem[c] = v)
               /\ \A b \in At(x) : \A c \in Patched(x, b) :
                     y.mem[c] = x.mem[c] \/ (c \in Ram /\ y.mem[c] = PatchFor(Length(x, b))[c - b + 1])
               /\ ~y.err => \A c \in span \ Covered(x) : y.mem[c] = v
    <2>1. Aside(x, y) /\ y.fetch = x.fetch /\ Partly(x, y, a, physical) /\ (~y.err => Holds(y, a, physical))
      <3>1. Span(a, Len(physical)) \subseteq Cells
        BY <1>5, CellFacts
      <3>2. QED
        BY <1>1, <1>5, <3>1, WriteRamFacts
    <2>2. \A c \in Cells : y.mem[c] = x.mem[c] \/ (c \in span /\ y.mem[c] = physical[c - a + 1])
      BY <1>2, <1>5, <2>1 DEF Partly
    <2>3. ~y.err => \A c \in span : y.mem[c] = physical[c - a + 1]
      BY <1>2, <1>5, <2>1 DEF Holds
    <2> HIDE DEF span
    <2>4. span \subseteq Ram
      BY <1>2
    <2>5. QED
      BY <1>6, <1>7, <2>1, <2>2, <2>3, <2>4
  <1>9. CASE z \in WriteRam(x, a, physical) /\ (z.err \/ hit = {})
    <2>1. /\ Aside(x, z) /\ z.fetch = x.fetch
          /\ \A c \in Cells \ Covered(x) : z.mem[c] = x.mem[c] \/ (c \in span /\ z.mem[c] = v)
          /\ \A b \in At(x) : \A c \in Patched(x, b) :
                z.mem[c] = x.mem[c] \/ (c \in Ram /\ z.mem[c] = PatchFor(Length(x, b))[c - b + 1])
          /\ ~z.err => \A c \in span \ Covered(x) : z.mem[c] = v
      BY <1>8, <1>9
    <2>2. z.entries = x.entries /\ At(z) = At(x) /\ \A b \in At(x) : Length(z, b) = Length(x, b)
      BY <2>1, AsideFacts DEF Aside
    <2>3. ~z.err => \A b \in At(x) : Patched(x, b) \cap span = {}
      BY <1>9
    <2>4. QED
      BY <1>2, <2>1, <2>2, <2>3 DEF Rewritten, Aside
  <1>10. ASSUME NEW y \in WriteRam(x, a, physical), ~y.err, z \in Sync(changed(y))
         PROVE  Rewritten(x, z, a, n, v)
    <2> DEFINE w == changed(y)
    <2>1. /\ Aside(x, y) /\ y.fetch = x.fetch
          /\ \A c \in Cells \ Covered(x) : y.mem[c] = x.mem[c] \/ (c \in span /\ y.mem[c] = v)
          /\ \A b \in At(x) : \A c \in Patched(x, b) :
                y.mem[c] = x.mem[c] \/ (c \in Ram /\ y.mem[c] = PatchFor(Length(x, b))[c - b + 1])
          /\ \A c \in span \ Covered(x) : y.mem[c] = v
      BY <1>8, <1>10
    <2>2. y \in Debugger /\ y.entries = x.entries
      BY <2>1 DEF Aside
    <2>3. ASSUME NEW b \in hit
          PROVE  /\ entry(y, b) \in Insns /\ Len(entry(y, b)) = Length(x, b) /\ entry(y, b) # None
                 /\ \A c \in Patched(x, b) : entry(y, b)[c - b + 1] = IF c \in span THEN v ELSE x.entries[b][c - b + 1]
      <3>1. /\ b \in At(x) /\ Length(x, b) \in {1, 2} /\ b \in Nat /\ Patched(x, b) = Span(b, Length(x, b))
            /\ x.entries[b] \in [1 .. Length(x, b) -> Values]
        BY <1>1, EntryFacts
      <3>2. ASSUME NEW i \in 1 .. Length(x, b), b + i - 1 \in span
            PROVE  data[b + i - a] = v
        <4>1. b + i - 1 \in Span(a, n) /\ i \in Int
          BY <1>2, <3>2
        <4>2. b + i - a \in 1 .. n
          BY <1>1, <3>1, <4>1, SpanFacts
        <4>3. QED
          BY <1>2, <4>2
      <3> HIDE DEF span
      <3>3. \A i \in 1 .. Length(x, b) : entry(y, b)[i] = IF b + i - 1 \in span THEN v ELSE x.entries[b][i]
        BY <2>2, <3>2
      <3>4. entry(y, b) \in [1 .. Length(x, b) -> Values]
        BY <1>1, <2>2, <3>1, <3>2
      <3>5. \A c \in Patched(x, b) : c - b + 1 \in 1 .. Length(x, b) /\ b + (c - b + 1) - 1 = c
        BY <3>1, SpanFacts
      <3> HIDE DEF entry
      <3>6. entry(y, b) \in Insns
        BY <3>1, <3>4 DEF Insns
      <3>7. Len(entry(y, b)) = Length(x, b)
        BY <3>1, <3>4, LenOf
      <3>8. entry(y, b) # None
        BY <3>6, InsnFacts
      <3>9. QED
        BY <3>3, <3>5, <3>6, <3>7, <3>8
    <2>4. /\ table(y) \in [Cells -> {None} \cup Insns]
          /\ \A b \in Cells : table(y)[b] = IF b \in hit THEN entry(y, b) ELSE x.entries[b]
      <3> HIDE DEF entry, hit
      <3> QED BY <1>1, <2>2, <2>3, Parts
    <2> HIDE DEF table, entry
    <2>5. /\ w \in Debugger /\ w.mem = y.mem /\ w.fetch = x.fetch /\ w.entries = table(y)
          /\ w.saved = x.saved /\ w.ebreakm = x.ebreakm
      BY <2>1, <2>2, <2>4, SetEntries DEF Aside
    <2> HIDE DEF w, changed
    <2>6. Aside(w, z) /\ z.mem = y.mem /\ (z.fetch = x.fetch \/ z.fetch = Fetched(z.mem))
      <3>1. z \in Sync(w)
        BY <1>10 DEF w
      <3>2. QED
        BY <2>5, <3>1, SyncFacts
    <2>7. z.entries = table(y)
      BY <2>5, <2>6 DEF Aside
    <2>8. \A b \in Cells : z.entries[b] = IF b \in hit THEN entry(y, b) ELSE x.entries[b]
      BY <2>4, <2>7
    <2>9. At(z) = At(x) /\ \A b \in At(x) : Length(z, b) = Length(x, b)
      BY <2>3, <2>8 DEF At, Length
    <2>10. ASSUME NEW b \in At(x), NEW c \in Patched(x, b)
           PROVE  z.entries[b][c - b + 1] = IF c \in span THEN v ELSE x.entries[b][c - b + 1]
      <3>1. b \in Cells /\ (c \in span => b \in hit)
        BY DEF At
      <3> HIDE DEF hit, span
      <3>2. QED
        BY <2>3, <2>8, <3>1
    <2> HIDE DEF hit
    <2>11. z \in Debugger /\ z.saved = x.saved /\ z.ebreakm = x.ebreakm
      BY <2>5, <2>6 DEF Aside
    <2>12. QED
      BY <1>2, <2>1, <2>6, <2>9, <2>10, <2>11 DEF Rewritten
  <1> HIDE DEF hit, changed
  <1>11. QED
    BY <1>3, <1>9, <1>10

-----------------------------------------------------------------------------
(* Stepping over a breakpoint.                                             *)

\* SoftwareBreakpoints.displaced around Run.step
LEMMA DisplacedFacts ==
    ASSUME NEW u \in User, NEW o, NEW x, Sound(x, u, o), NEW a \in Cells, NEW z \in Displaced(x, a)
    PROVE  Sound(z, u, o) /\ (Armed(x) /\ ~z.err => Armed(z))
  <1> DEFINE step(y) == Halted(y, Access(y) \cup Fault([y EXCEPT !.hart = "running"]))
             write(y, n) == PatchWrite([y EXCEPT !.err = FALSE], a, PatchFor(n))
             again(y, n) == {[w EXCEPT !.err = w.err \/ y.err] : w \in write(y, n)}
             undo == PatchWrite(x, a, x.entries[a])
  <1>1. x \in Debugger /\ Placed(x)
    BY DEF Sound
  <1>2. ASSUME NEW y \in Debugger, NEW w \in step(y) PROVE Same(y, w)
    <2>1. [y EXCEPT !.hart = "running"] \in Debugger /\ Same(y, [y EXCEPT !.hart = "running"])
      BY SetHart DEF Same
    <2>2. w \in Access(y) \/ w \in Fault([y EXCEPT !.hart = "running"]) \/ Same(y, w)
      BY <1>2, HaltedFacts
    <2>3. QED
      BY <2>1, <2>2, AccessFacts, FaultFacts, SameTrans
  <1>3. \/ x.entries[a] = None /\ z \in step(x)
        \/ x.entries[a] # None /\ (\/ z \in undo /\ z.err
                                   \/ \E y \in undo : \E w \in step(y) : z \in again(w, Length(x, a)))
    <2>1. Displaced(x, a) = IF x.entries[a] = None THEN step(x)
                            ELSE Bad(undo) \cup UNION {UNION {again(w, Length(x, a)) : w \in step(y)} : y \in Ok(undo)}
      BY DEF Displaced
    <2> HIDE DEF step, again, undo
    <2>2. QED
      BY <2>1 DEF Ok, Bad
  <1>4. CASE z \in step(x)
    <2> HIDE DEF step
    <2> QED BY <1>1, <1>2, <1>4, SameSound
  <1>5. ASSUME x.entries[a] # None
        PROVE  a \in At(x)
    BY <1>5 DEF At
  <1>6. ASSUME a \in At(x), NEW y \in undo
        PROVE  y \in Debugger /\ Sound(y, u, o) /\ At(y) = At(x) /\ y.entries = x.entries /\ y.ebreakm = x.ebreakm
               /\ (Armed(x) => ArmedBut(y, a))
    <2>1. x.entries[a] \in Seq(Values) /\ Len(x.entries[a]) = Length(x, a) /\ Span(a, Len(x.entries[a])) \subseteq Cells
      BY <1>1, <1>6, EntryFacts
    <2>2. Wrote(x, y, a, x.entries[a])
      BY <1>1, <1>6, <2>1, PatchWriteFacts
    <2>3. Sound(y, u, o) /\ At(y) = At(x) /\ y.entries = x.entries /\ (ArmedBut(x, a) => ArmedBut(y, a))
      BY <1>6, <2>1, <2>2, WroteSound
    <2>4. QED
      BY <2>2, <2>3, ArmedAway DEF Wrote, Aside
  <1>7. ASSUME a \in At(x), NEW y \in undo, NEW w \in step(y), NEW q \in write(w, Length(x, a))
        PROVE  q \in Debugger /\ Sound(q, u, o) /\ (Armed(x) /\ ~q.err => Armed(q))
    <2> DEFINE w0 == [w EXCEPT !.err = FALSE]
               n == Length(x, a)
    <2>1. /\ y \in Debugger /\ Sound(y, u, o) /\ At(y) = At(x) /\ y.entries = x.entries /\ y.ebreakm = x.ebreakm
          /\ Armed(x) => ArmedBut(y, a)
      BY <1>6, <1>7
    <2>2. Same(y, w) /\ w \in Debugger
      <3> HIDE DEF undo, step
      <3> QED BY <1>2, <1>7, <2>1 DEF Same
    <2>3. Same(w, w0)
      BY <2>2, SetErr
    <2> HIDE DEF w0
    <2>4. Same(y, w0)
      BY <2>2, <2>3, SameTrans
    <2>5. /\ w0 \in Debugger /\ Sound(w0, u, o) /\ At(w0) = At(x) /\ w0.ebreakm = x.ebreakm /\ Length(w0, a) = n
          /\ ArmedBut(y, a) => ArmedBut(w0, a)
      <3>1. w0 \in Debugger /\ Sound(w0, u, o) /\ At(w0) = At(x)
        BY <2>1, <2>4, SameSound DEF Same
      <3>2. w0.ebreakm = x.ebreakm /\ Length(w0, a) = n
        BY <2>1, <2>4 DEF Same, Length
      <3>3. ArmedBut(y, a) => ArmedBut(w0, a)
        BY <2>1, <2>4, <3>1 DEF Same, ArmedBut, InPlace, InTorn, Length, Patched
      <3>4. QED
        BY <3>1, <3>2, <3>3
    <2>6. n \in {1, 2} /\ Span(a, n) \subseteq Cells
      BY <1>1, <1>7, EntryFacts
    <2>7. PatchFor(n) \in Seq(Values) /\ Len(PatchFor(n)) = n
      BY <2>6, PatchFacts
    <2>8. q \in PatchWrite(w0, a, PatchFor(n))
      BY <1>7 DEF w0
    <2> HIDE DEF n
    <2>9. Wrote(w0, q, a, PatchFor(n))
      BY <2>5, <2>6, <2>7, <2>8, PatchWriteFacts
    <2>10. q \in Debugger /\ Sound(q, u, o)
      BY <1>7, <2>5, <2>7, <2>9, WroteSound DEF Sound
    <2>11. ASSUME Armed(x), ~q.err PROVE Armed(q)
      <3>1. w0.ebreakm = "on" /\ ArmedBut(w0, a)
        BY <1>7, <2>1, <2>5, <2>11 DEF Armed
      <3>2. QED
        BY <1>7, <2>5, <2>9, <2>11, <3>1, WrotePatch
    <2>12. QED
      BY <2>10, <2>11
  <1>8. ASSUME a \in At(x), NEW y \in undo, NEW w \in step(y), z \in again(w, Length(x, a))
        PROVE  Sound(z, u, o) /\ (Armed(x) /\ ~z.err => Armed(z))
    <2>1. PICK q \in write(w, Length(x, a)) : z = [q EXCEPT !.err = q.err \/ w.err]
      <3> HIDE DEF write, undo, step
      <3> QED BY <1>8
    <2>2. q \in Debugger /\ Sound(q, u, o) /\ (Armed(x) /\ ~q.err => Armed(q))
      <3> HIDE DEF write, undo, step
      <3> QED BY <1>7, <1>8
    <2> HIDE DEF write, undo, step, again
    <2>3. (q.err \/ w.err) \in BOOLEAN
      OBVIOUS
    <2>4. Same(q, z) /\ z.err = (q.err \/ w.err)
      BY <2>1, <2>2, <2>3, SetErr
    <2>5. QED
      BY <2>2, <2>4, SameSound
  <1> HIDE DEF step, again, undo
  <1>9. QED
    BY <1>3, <1>4, <1>5, <1>6, <1>8, ArmedAway

\* Server.step_over
LEMMA StepOverFacts ==
    ASSUME NEW u \in User, NEW o, NEW x, Sound(x, u, o), NEW a \in Cells, NEW z \in StepOver(x, a)
    PROVE  Sound(z, u, o) /\ (Armed(x) /\ ~z.err => Armed(z))
  <1> DEFINE clear(y) == [y EXCEPT !.err = FALSE]
             behind(y) == {[w EXCEPT !.err = w.err \/ y.err] : w \in Access(clear(y))}
  <1>1. x \in Debugger
    BY DEF Sound
  <1>2. \/ z \in Halted(x, Access(x))
        \/ \E y \in Halted(x, Access(x)) : \E w \in Displaced(y, a) : z \in behind(w)
    <2>1. StepOver(x, a) = Then(Halted(x, Access(x)), LAMBDA y : UNION {behind(w) : w \in Displaced(y, a)})
      BY DEF StepOver
    <2> HIDE DEF behind
    <2>2. QED
      BY <2>1 DEF Then, Ok, Bad
  <1>3. ASSUME NEW y \in Halted(x, Access(x)) PROVE Same(x, y) /\ Sound(y, u, o) /\ (Armed(x) => Armed(y))
    <2>1. Same(x, y)
      BY <1>1, HaltedFacts, AccessFacts
    <2>2. QED
      BY <2>1, SameSound
  <1>4. ASSUME NEW y \in Halted(x, Access(x)), NEW w \in Displaced(y, a), z \in behind(w)
        PROVE  Sound(z, u, o) /\ (Armed(x) /\ ~z.err => Armed(z))
    <2>1. Sound(w, u, o) /\ w \in Debugger /\ (Armed(x) /\ ~w.err => Armed(w))
      BY <1>3, <1>4, DisplacedFacts DEF Sound
    <2>2. PICK q \in Access(clear(w)) : z = [q EXCEPT !.err = q.err \/ w.err]
      BY <1>4
    <2>3. Same(w, clear(w)) /\ clear(w) \in Debugger
      BY <2>1, SetErr DEF Same
    <2> HIDE DEF clear, behind
    <2>4. Same(w, q) /\ q \in Debugger
      BY <2>2, <2>3, AccessFacts, SameTrans DEF Same
    <2>5. (q.err \/ w.err) \in BOOLEAN
      OBVIOUS
    <2>6. Same(q, z) /\ z.err = (q.err \/ w.err)
      BY <2>2, <2>4, <2>5, SetErr
    <2>7. Same(w, z)
      BY <2>4, <2>6, SameTrans
    <2>8. QED
      BY <2>1, <2>6, <2>7, SameSound
  <1> HIDE DEF behind
  <1>5. QED
    BY <1>2, <1>3, <1>4

-----------------------------------------------------------------------------
(* Resets.                                                                 *)

\* The chip was reset: RAM is the user's, as dcsr is, and the Flash has kept
\* its patches, which the table of the debugger still describes.
Anew(x, u, o) ==
    /\ x \in Debugger /\ Placed(x) /\ x.ebreakm = o
    /\ \A a \in At(x) \cap Flash : \A i \in 1 .. Length(x, a) : Stands(a + i - 1, x.entries[a][i], u)
    /\ \A c \in Cells : c \in Ram \/ c \notin Covered(x) => Stands(c, x.mem[c], u) /\ x.fetch[c] \notin Patches
    /\ \A a \in At(x) \cap Flash : InPlace(x, a) \/ InTorn(x, a) \/ alarm

\* SoftwareBreakpoints.reset
LEMMA SoftResetFacts ==
    ASSUME NEW u, NEW o, NEW x, Anew(x, u, o), NEW z \in SoftReset(x)
    PROVE  Sound(z, u, o) /\ (~alarm /\ ~z.err => Armed(z))
  <1> DEFINE e == [a \in Cells |-> IF a \in Flash THEN x.entries[a] ELSE None]
             k == [x EXCEPT !.entries = e, !.saved = "none"]
             save(y) == [y EXCEPT !.saved = y.ebreakm]
  <1>1. x \in Debugger /\ Placed(x) /\ x.ebreakm = o
    BY DEF Anew
  <1>2. e \in [Cells -> {None} \cup Insns]
    BY <1>1, Parts
  <1>3. \A a \in Cells : e[a] = IF a \in Flash THEN x.entries[a] ELSE None
    OBVIOUS
  <1>4. Kept(x) = k
    BY DEF Kept
  <1> HIDE DEF e
  <1>5. /\ k \in Debugger /\ k.mem = x.mem /\ k.fetch = x.fetch /\ k.entries = e
        /\ k.saved = "none" /\ k.ebreakm = x.ebreakm
    BY <1>1, <1>2 DEF Debugger
  <1> HIDE DEF k
  <1>6. At(k) = At(x) \cap Flash
    BY <1>3, <1>5, CellFacts DEF At
  <1>7. \A a \in At(k) : k.entries[a] = x.entries[a] /\ Length(k, a) = Length(x, a) /\ Patched(k, a) = Patched(x, a)
    BY <1>3, <1>5 DEF At, Length, Patched
  <1>8. Placed(k)
    BY <1>1, <1>6, <1>7 DEF Placed
  <1>9. ASSUME NEW c \in Cells \ Covered(k) PROVE c \in Ram \/ c \notin Covered(x)
    <2>1. ASSUME NEW a \in At(x), c \in Patched(x, a), c \notin Ram PROVE c \in Covered(k)
      <3>1. a \in Flash
        BY <1>1, <2>1, EntryFacts, CellFacts
      <3>2. QED
        BY <1>6, <1>7, <2>1, <3>1 DEF Covered
    <2>2. QED
      BY <1>9, <2>1 DEF Covered
  <1>10. Sound(k, u, o)
    <2>1. SavedTrue(k, u)
      BY <1>6, <1>7 DEF SavedTrue, Anew
    <2>2. Clean(k, u)
      BY <1>5, <1>9 DEF Clean, Anew
    <2>3. QED
      BY <1>1, <1>5, <1>8, <2>1, <2>2 DEF Sound, Saves
  <1>11. ~alarm => \A a \in At(k) : InPlace(k, a) \/ InTorn(k, a)
    BY <1>5, <1>6, <1>7 DEF Anew, InPlace, InTorn
  <1>12. \/ z = k /\ At(k) = {}
         \/ z \in ReadDcsr(k) /\ z.err
         \/ \E y \in ReadDcsr(k) : z \in SetDcsr(save(y), "on")
    <2>1. SoftReset(x) = IF At(k) = {} THEN {k} ELSE Then(ReadDcsr(k), LAMBDA y : SetDcsr(save(y), "on"))
      BY <1>4 DEF SoftReset
    <2> HIDE DEF save
    <2>2. QED
      BY <2>1 DEF Then, Ok, Bad
  <1>13. CASE z = k /\ At(k) = {}
    BY <1>10, <1>13 DEF Armed
  <1>14. CASE z \in ReadDcsr(k) /\ z.err
    BY <1>5, <1>10, <1>14, ReadDcsrFacts, SameSound
  <1>15. ASSUME NEW y \in ReadDcsr(k), z \in SetDcsr(save(y), "on")
         PROVE  Sound(z, u, o) /\ (~alarm /\ ~z.err => Armed(z))
    <2> DEFINE w == save(y)
    <2>1. Same(k, y)
      BY <1>5, ReadDcsrFacts
    <2>2. Sound(y, u, o) /\ y.ebreakm = o
      BY <1>1, <1>5, <1>10, <2>1, SameSound DEF Same
    <2>3. Sound(w, u, o) /\ w.saved # "none" /\ w \in Debugger
      BY <2>2, SavedSound DEF Sound
    <2>4. w.mem = k.mem /\ w.fetch = k.fetch /\ w.entries = k.entries
      BY <2>1 DEF Same, Debugger
    <2> HIDE DEF w
    <2>5. At(w) = At(k) /\ \A a \in At(w) : (InPlace(k, a) => InPlace(w, a)) /\ (InTorn(k, a) => InTorn(w, a))
      BY <2>4 DEF At, InPlace, InTorn, Length, Patched
    <2>6. Turned(w, z, "on")
      BY <1>15, <2>3, SetDcsrFacts DEF w
    <2>7. QED
      BY <1>11, <2>3, <2>5, <2>6, TurnedSound
  <1> HIDE DEF save
  <1>16. QED
    BY <1>12, <1>13, <1>14, <1>15

-----------------------------------------------------------------------------
(* The server.                                                             *)

Inv ==
    missed \/ /\ user \in User
              /\ Sound(d, user, own)
              /\ alarm \/ Armed(d)

\* What a handler may leave behind.
Leaves(D, u, o) == \A x \in D : Sound(x, u, o) /\ (~alarm /\ ~x.err => Armed(x))

LEMMA EndsFacts ==
    ASSUME NEW D, NEW u, NEW o, Leaves(D, u, o), NEW ok, NEW failed, Ends(D, ok, failed)
    PROVE  Sound(d', u, o) /\ (alarm' \/ Armed(d'))
  <1>1. PICK x \in D : d' = [x EXCEPT !.err = FALSE] /\ alarm' = (alarm \/ x.err)
    BY DEF Ends
  <1>2. Sound(x, u, o) /\ (~alarm /\ ~x.err => Armed(x))
    BY DEF Leaves
  <1>3. Same(x, d')
    BY <1>1, <1>2, SetErr DEF Sound
  <1>4. Sound(d', u, o) /\ (Armed(x) => Armed(d'))
    BY <1>2, <1>3, SameSound
  <1>5. QED
    BY <1>1, <1>2, <1>4

LEMMA SameLeaves ==
    ASSUME NEW u, NEW o, NEW x, Sound(x, u, o), ~alarm => Armed(x),
           NEW D, \A z \in D : Same(x, z)
    PROVE  Leaves(D, u, o)
  BY SameSound DEF Leaves

LEMMA LetGoFacts ==
    ASSUME NEW x \in Debugger, NEW z \in LetGo(x)
    PROVE  Same(x, z)
  BY AccessFacts, ResumeFacts DEF LetGo

LEMMA AccessHalt ==
    ASSUME NEW x \in Debugger, NEW z \in Then(Access(x), HaltHart)
    PROVE  Same(x, z)
  <1>1. z \in Access(x) \/ \E y \in Access(x) : z \in HaltHart(y)
    BY DEF Then, Ok, Bad
  <1>2. \A y \in Access(x) : Same(x, y) /\ y \in Debugger
    BY AccessFacts DEF Same
  <1>3. QED
    BY <1>1, <1>2, HaltFacts, SameTrans

LEMMA AccessLetGo ==
    ASSUME NEW x \in Debugger, NEW z \in Then(Access(x), LetGo)
    PROVE  Same(x, z)
  <1>1. z \in Access(x) \/ \E y \in Access(x) : z \in LetGo(y)
    BY DEF Then, Ok, Bad
  <1>2. \A y \in Access(x) : Same(x, y) /\ y \in Debugger
    BY AccessFacts DEF Same
  <1>3. QED
    BY <1>1, <1>2, LetGoFacts, SameTrans

\* Server.after_reset, as do_continue calls it, and as monitor reset does.
LEMMA AfterResetFacts ==
    ASSUME NEW u, NEW o, NEW x, Anew(x, u, o),
           NEW D, D = Then(SoftReset(x), Access)
                  \/ D = Then(SoftReset(x), LAMBDA y : Then(Access(y), ResumeHart))
    PROVE  Leaves(D, u, o)
  <1>1. ASSUME NEW y \in SoftReset(x)
        PROVE  y \in Debugger /\ Sound(y, u, o) /\ (~alarm /\ ~y.err => Armed(y))
    BY SoftResetFacts DEF Sound
  <1>2. ASSUME NEW y \in SoftReset(x), NEW z \in Access(y)
        PROVE  Same(y, z) /\ z \in Debugger
    BY <1>1, AccessFacts DEF Same
  <1>3. ASSUME NEW z \in D
        PROVE  \/ z \in SoftReset(x) /\ z.err
               \/ \E y \in SoftReset(x) : ~y.err /\ (z \in Access(y) \/ \E w \in Access(y) : z \in ResumeHart(w))
    <2>1. CASE D = Then(SoftReset(x), Access)
      BY <1>3, <2>1 DEF Then, Ok, Bad
    <2>2. CASE D = Then(SoftReset(x), LAMBDA y : Then(Access(y), ResumeHart))
      BY <1>3, <2>2 DEF Then, Ok, Bad
    <2>3. QED
      BY <2>1, <2>2
  <1>4. ASSUME NEW y \in SoftReset(x), ~y.err, NEW z, z \in Access(y) \/ \E w \in Access(y) : z \in ResumeHart(w)
        PROVE  Sound(z, u, o) /\ (~alarm => Armed(z))
    <2>1. Same(y, z)
      BY <1>2, <1>4, ResumeFacts, SameTrans
    <2>2. QED
      BY <1>1, <1>4, <2>1, SameSound
  <1>5. QED
    BY <1>1, <1>3, <1>4 DEF Leaves

LEMMA AnewSame ==
    ASSUME NEW u, NEW o, NEW x, Anew(x, u, o), NEW z, Same(x, z)
    PROVE  Anew(z, u, o)
  BY DEF Same, Anew, Placed, InPlace, InTorn, At, Length, Patched, Covered

\* The chip as do_continue finds it after a reset behind its back.
LEMMA ChipResetAnew ==
    ASSUME user \in User, Sound(d, user, own), alarm \/ Armed(d),
           NEW image \in [Ram -> Code],
           NEW mem, mem = [c \in Cells |-> IF c \in Ram THEN image[c] ELSE d.mem[c]],
           NEW u, u = [c \in Cells |-> IF c \in Ram THEN image[c] ELSE user[c]]
    PROVE  Anew(Synced([d EXCEPT !.mem = mem, !.ebreakm = "off"]), u, "off") /\ u \in User
  <1> DEFINE y == [d EXCEPT !.mem = mem, !.ebreakm = "off"]
             z == Synced(y)
  <1>1. d \in Debugger /\ Placed(d)
    BY DEF Sound
  <1>2. mem \in [Cells -> Values] /\ u \in User
    BY <1>1, Parts, CellFacts DEF User
  <1>3. /\ y \in Debugger /\ y.mem = mem /\ y.fetch = d.fetch /\ y.entries = d.entries
        /\ y.saved = d.saved /\ y.ebreakm = "off"
    BY <1>1, <1>2 DEF Debugger
  <1> HIDE DEF y
  <1>4. z \in Debugger /\ z.mem = mem /\ z.fetch = Fetched(mem) /\ z.entries = d.entries /\ z.ebreakm = "off"
    BY <1>3, SyncedFacts DEF Aside
  <1> HIDE DEF z
  <1>5. /\ At(z) = At(d) /\ Covered(z) = Covered(d)
        /\ \A a : Length(z, a) = Length(d, a) /\ Patched(z, a) = Patched(d, a)
    BY <1>4 DEF At, Covered, Length, Patched
  <1>6. Placed(z)
    BY <1>1, <1>5 DEF Placed
  <1>7. \A c \in Flash : c \in Cells /\ c \notin Ram /\ mem[c] = d.mem[c] /\ u[c] = user[c]
    BY CellFacts
  <1>8. ASSUME NEW a \in At(d) \cap Flash, NEW i \in 1 .. Length(d, a)
        PROVE  Stands(a + i - 1, d.entries[a][i], u)
    <2>1. a + i - 1 \in Flash
      <3>1. a \in Nat /\ Length(d, a) \in {1, 2} /\ Patched(d, a) = Span(a, Length(d, a)) /\ Patched(d, a) \subseteq Flash
        BY <1>1, EntryFacts
      <3>2. a + i - 1 \in Span(a, Length(d, a))
        BY <3>1, InPatch
      <3>3. QED
        BY <3>1, <3>2
    <2>2. Stands(a + i - 1, d.entries[a][i], user)
      BY DEF Sound, SavedTrue
    <2>3. QED
      BY <1>7, <2>1, <2>2 DEF Stands
  <1>9. ASSUME NEW c \in Cells, c \in Ram \/ c \notin Covered(d)
        PROVE  Stands(c, mem[c], u) /\ z.fetch[c] \notin Patches
    <2>1. Stands(c, mem[c], u)
      <3>1. CASE c \in Ram
        BY <3>1 DEF Stands
      <3>2. CASE c \notin Ram
        <4>1. Stands(c, d.mem[c], user)
          BY <1>9, <3>2 DEF Sound, Clean
        <4>2. QED
          BY <1>7, <3>2, <4>1 DEF Stands, Cells
      <3>3. QED
        BY <3>1, <3>2
    <2>2. mem[c] \notin Patches /\ "code" \notin Patches
      BY <1>2, <2>1, StandsFacts DEF Patches
    <2>3. QED
      BY <1>4, <2>1, <2>2 DEF Fetched
  <1>10. ASSUME NEW a \in At(d) \cap Flash, ~alarm
         PROVE  InPlace(z, a) \/ InTorn(z, a)
    <2>1. /\ Patched(d, a) \subseteq Flash /\ Length(d, a) \in {1, 2}
          /\ Patched(d, a) = Span(a, Length(d, a)) /\ a \in Nat
      BY <1>1, EntryFacts
    <2>2. CASE InTorn(d, a)
      BY <1>4, <1>5, <1>7, <2>1, <2>2 DEF InTorn
    <2>3. CASE InPlace(d, a)
      <3>1. ASSUME NEW c \in Patched(d, a)
            PROVE  z.mem[c] = PatchFor(Length(d, a))[c - a + 1] /\ z.fetch[c] = PatchFor(Length(d, a))[c - a + 1]
        <4>1. d.mem[c] = PatchFor(Length(d, a))[c - a + 1]
          BY <1>1, <2>3, InPlaceIff
        <4>2. c - a + 1 \in 1 .. Length(d, a) /\ c \in Flash
          BY <2>1, SpanFacts
        <4>3. d.mem[c] \notin Code
          BY <2>1, <4>1, <4>2, Apart
        <4>4. QED
          BY <1>4, <1>7, <4>1, <4>2, <4>3 DEF Fetched
      <3>2. QED
        BY <1>4, <1>5, <1>6, <3>1, InPlaceIff
    <2>4. InPlace(d, a) \/ InTorn(d, a)
      BY <1>10 DEF Armed
    <2>5. QED
      BY <2>2, <2>3, <2>4
  <1>11. Anew(z, u, "off")
    BY <1>4, <1>5, <1>6, <1>8, <1>9, <1>10 DEF Anew
  <1>12. QED
    BY <1>2, <1>11 DEF y, z

-----------------------------------------------------------------------------
(* The invariant.                                                          *)

LEMMA InvInit == Init => Inv
  <1> SUFFICES ASSUME Init PROVE user \in User /\ Sound(d, user, own) /\ Armed(d)
    BY DEF Inv
  <1>1. user \in User /\ own \in {"off", "on"}
    BY DEF Init, User
  <1>2. \A c \in Cells : user[c] \in Values
    BY <1>1, CellFacts DEF User
  <1>3. d \in Debugger /\ At(d) = {} /\ Covered(d) = {}
    BY <1>1, <1>2 DEF Init, Debugger, At, Covered
  <1>4. Clean(d, user)
    BY DEF Init, Clean, Stands, Patches
  <1>5. Saves(d, own)
    BY DEF Init, Saves
  <1>6. QED
    BY <1>1, <1>3, <1>4, <1>5 DEF Sound, Placed, SavedTrue, Armed

LEMMA InvStep == Inv /\ [Next]_vars => Inv'
  <1> SUFFICES ASSUME Inv, [Next]_vars, ~missed'
               PROVE  user' \in User /\ Sound(d', user', own') /\ (alarm' \/ Armed(d'))
    BY DEF Inv, User, Sound, Placed, SavedTrue, Clean, Saves, Stands, Armed, InPlace, InTorn,
           At, Length, Patched, Covered
  <1>1. ~missed
    BY DEF vars, Next, Handler, Session, InsertBreakpoint, RemoveBreakpoint, Step, Continue, WriteMemory,
           Interrupt, MonitorReset, Detach, Accept, Stop, InterruptRunning, ChipReset, Disconnect, Bye,
           ClearNext, ResetCleared, DetachCleared, CloseCleared, Quiet
  <1>2. /\ user \in User /\ Sound(d, user, own) /\ (~alarm => Armed(d))
        /\ d \in Debugger /\ Placed(d)
    BY <1>1 DEF Inv, Sound
  <1>3. ASSUME UNCHANGED <<d, user, own, alarm>>
        PROVE  user' \in User /\ Sound(d', user', own') /\ (alarm' \/ Armed(d'))
    BY <1>2, <1>3
  <1>4. ASSUME NEW D, Leaves(D, user, own), NEW ok, NEW failed, Ends(D, ok, failed), Quiet
        PROVE  user' \in User /\ Sound(d', user', own') /\ (alarm' \/ Armed(d'))
    <2>1. user' = user /\ own' = own
      BY <1>4 DEF Quiet
    <2>2. QED
      BY <1>2, <1>4, <2>1, EndsFacts
  <1>5. ASSUME NEW D, \A z \in D : Same(d, z), NEW ok, NEW failed, Ends(D, ok, failed), Quiet
        PROVE  user' \in User /\ Sound(d', user', own') /\ (alarm' \/ Armed(d'))
    BY <1>2, <1>4, <1>5, SameLeaves
  <1>6. \A z \in HaltHart(d) : Same(d, z)
    BY <1>2, HaltFacts
  <1>7. CASE vars' = vars
    BY <1>3, <1>7 DEF vars
  <1>8. ASSUME NEW a \in Cells, NEW n \in {1, 2}, InsnAt(a, n), InsertBreakpoint(a, n)
        PROVE  user' \in User /\ Sound(d', user', own') /\ (alarm' \/ Armed(d'))
    <2>1. PICK x \in Insert(d, a, n) : /\ d' = [x EXCEPT !.err = FALSE]
                                       /\ alarm' = (alarm \/ (x.err /\ x.entries[a] # None))
      BY <1>8 DEF InsertBreakpoint
    <2>2. /\ Sound(x, user, own) /\ x \in Debugger
          /\ Armed(d) /\ (~x.err \/ x.entries[a] = None) => Armed(x)
      BY <1>2, <1>8, InsertFacts DEF Sound
    <2>3. Same(x, d')
      BY <2>1, <2>2, SetErr
    <2>4. Sound(d', user, own) /\ (Armed(x) => Armed(d'))
      BY <2>2, <2>3, SameSound
    <2>5. user' = user /\ own' = own
      BY <1>8 DEF InsertBreakpoint, Quiet
    <2>6. QED
      BY <1>2, <2>1, <2>2, <2>4, <2>5
  <1>9. \A a \in At(d) : Leaves(Remove(d, a), user, own)
    BY <1>2, RemoveFacts DEF Leaves
  <1>10. ASSUME NEW a \in Cells, RemoveBreakpoint(a)
         PROVE  user' \in User /\ Sound(d', user', own') /\ (alarm' \/ Armed(d'))
    BY <1>4, <1>9, <1>10 DEF RemoveBreakpoint, At
  <1>11. \A pc \in Cells : Leaves(StepOver(d, pc), user, own)
    BY <1>2, StepOverFacts DEF Leaves
  <1>12. ASSUME NEW pc \in Cells, Step(pc)
         PROVE  user' \in User /\ Sound(d', user', own') /\ (alarm' \/ Armed(d'))
    BY <1>4, <1>11, <1>12 DEF Step
  <1>13. ASSUME NEW pc \in Cells, Continue(pc)
         PROVE  user' \in User /\ Sound(d', user', own') /\ (alarm' \/ Armed(d'))
    <2> DEFINE over == IF d.entries[pc] # None THEN StepOver(d, pc) ELSE Halted(d, Access(d))
    <2>1. Leaves(over, user, own)
      <3>1. \A z \in Halted(d, Access(d)) : Same(d, z)
        BY <1>2, HaltedFacts, AccessFacts
      <3>2. Leaves(Halted(d, Access(d)), user, own)
        BY <1>2, <3>1, SameLeaves
      <3>3. QED
        BY <1>11, <3>2
    <2>2. Quiet /\ (Ends(Then(over, ResumeHart), "loop", "prompt") \/ Ends(over, "prompt", "prompt"))
      BY <1>13 DEF Continue
    <2> HIDE DEF over
    <2>3. Leaves(Then(over, ResumeHart), user, own)
      <3>1. ASSUME NEW z \in Then(over, ResumeHart)
            PROVE  (z \in over /\ z.err) \/ \E y \in over : ~y.err /\ z \in ResumeHart(y)
        BY <3>1 DEF Then, Ok, Bad
      <3>2. ASSUME NEW y \in over, ~y.err, NEW z \in ResumeHart(y)
            PROVE  Sound(z, user, own) /\ (~alarm => Armed(z))
        <4>1. Sound(y, user, own) /\ y \in Debugger /\ (~alarm => Armed(y))
          BY <2>1, <3>2 DEF Leaves, Sound
        <4>2. Same(y, z)
          BY <3>2, <4>1, ResumeFacts
        <4>3. QED
          BY <4>1, <4>2, SameSound
      <3>3. QED
        BY <2>1, <3>1, <3>2 DEF Leaves
    <2>4. QED
      BY <1>4, <2>1, <2>2, <2>3
  <1>14. ASSUME NEW a \in Ram, NEW n \in 1 .. Cardinality(Ram), NEW v \in Code,
                Span(a, n) \subseteq Ram, WriteMemory(a, n, v)
         PROVE  user' \in User /\ Sound(d', user', own') /\ (alarm' \/ Armed(d'))
    <2>1. PICK x \in Write(d, a, [i \in 1 .. n |-> v]) :
              /\ d' = [x EXCEPT !.err = FALSE]
              /\ user' = [c \in Cells |-> IF c \in Span(a, n) /\ (x.err => Seen(x)[c] = v) THEN v ELSE user[c]]
      BY <1>14 DEF WriteMemory
    <2>2. own' = own /\ alarm' = alarm
      BY <1>14 DEF WriteMemory
    <2>3. n \in Nat /\ Span(a, n) \subseteq Cells
      <3>1. Cardinality(Ram) \in Nat
        BY PlacesAssumption, FS_CardinalityType
      <3>2. n \in Nat
        BY <3>1
      <3>3. QED
        BY <1>14, <3>2, CellFacts
    <2>4. Rewritten(d, x, a, n, v)
      BY <1>2, <1>14, <2>3, WriteFacts
    <2> DEFINE u2 == [c \in Cells |-> IF c \in Span(a, n) /\ Seen(x)[c] = v THEN v ELSE user[c]]
    <2>5. /\ Sound(x, u2, own) /\ u2 \in User /\ (Armed(d) => Armed(x)) /\ x \in Debugger
          /\ ~x.err => \A c \in Span(a, n) : Seen(x)[c] = v
      BY <1>2, <2>3, <2>4, RewriteSound DEF Sound
    <2>6. user' = u2
      BY <2>1, <2>5
    <2> HIDE DEF u2
    <2>7. Same(x, d')
      BY <2>1, <2>5, SetErr
    <2>8. Sound(d', u2, own) /\ (Armed(x) => Armed(d'))
      BY <2>5, <2>7, SameSound
    <2>9. QED
      BY <1>2, <2>2, <2>5, <2>6, <2>8
  <1>15. ASSUME Interrupt \/ InterruptRunning \/ Bye
         PROVE  user' \in User /\ Sound(d', user', own') /\ (alarm' \/ Armed(d'))
    BY <1>5, <1>6, <1>15 DEF Interrupt, InterruptRunning, Bye
  <1>16. ASSUME MonitorReset \/ Detach
         PROVE  user' \in User /\ Sound(d', user', own') /\ (alarm' \/ Armed(d'))
    BY <1>3, <1>16 DEF MonitorReset, Detach, Quiet
  <1>17. ASSUME Accept
         PROVE  user' \in User /\ Sound(d', user', own') /\ (alarm' \/ Armed(d'))
    <2>1. \A z \in Then(Access(d), HaltHart) : Same(d, z)
      BY <1>2, AccessHalt
    <2>2. QED
      BY <1>5, <1>17, <2>1 DEF Accept
  <1>18. ASSUME Stop
         PROVE  user' \in User /\ Sound(d', user', own') /\ (alarm' \/ Armed(d'))
    <2>1. [d EXCEPT !.hart = "halted"] \in Debugger /\ Same(d, [d EXCEPT !.hart = "halted"])
      BY <1>2, SetHart DEF Same
    <2>2. \A z \in Access([d EXCEPT !.hart = "halted"]) : Same(d, z)
      BY <2>1, AccessFacts, SameTrans
    <2>3. QED
      BY <1>5, <1>18, <2>2 DEF Stop
  <1>19. ASSUME Disconnect
         PROVE  user' \in User /\ Sound(d', user', own') /\ (alarm' \/ Armed(d'))
    <2>1. CASE phase = "loop"
      BY <1>5, <1>6, <1>19, <2>1 DEF Disconnect
    <2>2. CASE phase # "loop"
      BY <1>3, <1>19, <2>2 DEF Disconnect, Quiet
    <2>3. QED
      BY <2>1, <2>2
  <1>20. ASSUME ClearNext
         PROVE  user' \in User /\ Sound(d', user', own') /\ (alarm' \/ Armed(d'))
    BY <1>4, <1>9, <1>20 DEF ClearNext
  <1>21. ASSUME DetachCleared \/ CloseCleared
         PROVE  user' \in User /\ Sound(d', user', own') /\ (alarm' \/ Armed(d'))
    <2>1. \A z \in Then(Access(d), LetGo) : Same(d, z)
      BY <1>2, AccessLetGo
    <2>2. QED
      BY <1>5, <1>21, <2>1 DEF DetachCleared, CloseCleared
  <1>22. ASSUME ChipReset
         PROVE  user' \in User /\ Sound(d', user', own') /\ (alarm' \/ Armed(d'))
    <2> DEFINE mem(image) == [c \in Cells |-> IF c \in Ram THEN image[c] ELSE d.mem[c]]
               reset(image) == Synced([d EXCEPT !.mem = mem(image), !.ebreakm = "off"])
               anew(x) == Then(SoftReset(x), LAMBDA y : Then(Access(y), ResumeHart))
    <2>1. PICK image \in [Ram -> Code] :
              /\ Ends(Then(Ok(HaltHart(reset(image))), anew), "loop", "prompt")
              /\ user' = [c \in Cells |-> IF c \in Ram THEN image[c] ELSE user[c]]
      <3> HIDE DEF anew
      <3>1. \E image \in [Ram -> Code] :
              /\ \/ missed' = TRUE
                 \/ Ends(Then(Ok(HaltHart(reset(image))), anew), "loop", "prompt")
              /\ user' = [c \in Cells |-> IF c \in Ram THEN image[c] ELSE user[c]]
        BY <1>22 DEF ChipReset, anew
      <3> HIDE DEF reset
      <3>2. QED
        BY <3>1
    <2>2. own' = "off"
      BY <1>22 DEF ChipReset
    <2>3. Anew(reset(image), user', "off") /\ user' \in User
      BY <1>2, <2>1, ChipResetAnew
    <2> HIDE DEF reset
    <2>4. ASSUME NEW x \in HaltHart(reset(image)) PROVE Anew(x, user', "off")
      <3>1. reset(image) \in Debugger
        BY <2>3 DEF Anew
      <3>2. Same(reset(image), x)
        BY <3>1, HaltFacts
      <3>3. QED
        BY <2>3, <3>2, AnewSame
    <2>5. ASSUME NEW x \in HaltHart(reset(image)) PROVE Leaves(anew(x), user', "off")
      BY <2>4, AfterResetFacts
    <2> HIDE DEF anew
    <2>6. Leaves(Then(Ok(HaltHart(reset(image))), anew), user', "off")
      <3>1. ASSUME NEW z \in Then(Ok(HaltHart(reset(image))), anew)
            PROVE  \E x \in HaltHart(reset(image)) : z \in anew(x)
        BY <3>1 DEF Then, Ok, Bad
      <3>2. QED
        BY <2>5, <3>1 DEF Leaves
    <2>7. QED
      BY <2>1, <2>2, <2>3, <2>6, EndsFacts
  <1>23. ASSUME ResetCleared
         PROVE  user' \in User /\ Sound(d', user', own') /\ (alarm' \/ Armed(d'))
    <2> DEFINE reset == [d EXCEPT !.ebreakm = "off", !.hart = "halted"]
               anew == Then(SoftReset(reset), Access)
    <2>1. /\ At(d) = {} /\ user' = user
          /\ \/ Ends(Fault(d), "prompt", "prompt") /\ own' = own
             \/ Ends(anew, "prompt", "prompt") /\ own' = "off"
      BY <1>23 DEF ResetCleared, Cleared
    <2>2. CASE Ends(Fault(d), "prompt", "prompt") /\ own' = own
      <3>1. \A z \in Fault(d) : Same(d, z)
        BY <1>2, FaultFacts
      <3>2. QED
        BY <1>2, <2>1, <2>2, <3>1, SameLeaves, EndsFacts
    <2>3. CASE Ends(anew, "prompt", "prompt") /\ own' = "off"
      <3>1. /\ reset \in Debugger /\ reset.mem = d.mem /\ reset.fetch = d.fetch /\ reset.entries = d.entries
            /\ reset.ebreakm = "off"
        BY <1>2 DEF Debugger
      <3>2. Covered(d) = {}
        BY <2>1 DEF Covered
      <3> HIDE DEF reset
      <3>3. At(reset) = {} /\ Covered(reset) = {}
        BY <2>1, <3>1, <3>2 DEF At, Covered
      <3>4. \A c \in Cells : Stands(c, d.mem[c], user) /\ d.fetch[c] \notin Patches
        BY <1>2, <3>2 DEF Sound, Clean
      <3>5. Anew(reset, user, "off")
        BY <3>1, <3>3, <3>4 DEF Anew, Placed
      <3>6. Leaves(anew, user, "off")
        BY <3>5, AfterResetFacts
      <3>7. QED
        BY <1>2, <2>1, <2>3, <3>6, EndsFacts
    <2>4. QED
      BY <2>1, <2>2, <2>3
  <1>24. QED
    BY <1>7, <1>8, <1>10, <1>12, <1>13, <1>14, <1>15, <1>16, <1>17, <1>18, <1>19, <1>20, <1>21, <1>22, <1>23
       DEF Next, Handler, Session

LEMMA Invariant == Spec => []Inv
  BY InvInit, InvStep, PTL DEF Spec

\* docs/04-debugger.md 4.4, "what GDB reads is the original instructions": after
\* any inserts, removals, writes over a breakpoint, steps over one and resets,
\* with any accesses of them failing, a read through SoftwareBreakpoints.read
\* shows the user's program, except where the Flash is torn.
THEOREM GdbSeesTheProgram == Spec => []Transparent
  <1>1. Inv => Transparent
    <2> SUFFICES ASSUME Inv, ~missed, NEW c \in Cells
                 PROVE  Seen(d)[c] = user[c] \/ (c \in Flash /\ Seen(d)[c] = Torn)
      BY DEF Transparent
    <2>1. Sound(d, user, own) /\ d \in Debugger /\ Placed(d)
      BY DEF Inv, Sound
    <2>2. CASE c \in Covered(d)
      <3>1. PICK b \in At(d) : c \in Patched(d, b)
        BY <2>2 DEF Covered
      <3>2. Seen(d)[c] = d.entries[b][c - b + 1]
        BY <2>1, <3>1, SeenFacts
      <3>3. Stands(c, d.entries[b][c - b + 1], user)
        BY <2>1, <3>1, SavedCell
      <3>4. QED
        BY <3>2, <3>3 DEF Stands
    <2>3. CASE c \notin Covered(d)
      BY <2>1, <2>3, SeenFacts DEF Sound, Clean, Stands
    <2>4. QED
      BY <2>2, <2>3
  <1>2. QED
    BY <1>1, Invariant, PTL

\* Whatever fails in insert, its rollback, remove, write or displaced, a patch
\* that is in memory, or that the hart may still fetch from its caches, has an
\* entry in the table, by which clear() can take it away.
THEOREM PatchesHaveOwners == Spec => []NoOrphanPatch
  <1>1. Inv => NoOrphanPatch
    <2> SUFFICES ASSUME Inv, ~missed, NEW c \in Cells \ Covered(d)
                 PROVE  d.mem[c] \notin Patches /\ d.fetch[c] \notin Patches
      BY DEF NoOrphanPatch
    <2>1. user \in User /\ Stands(c, d.mem[c], user) /\ d.fetch[c] \notin Patches
      BY DEF Inv, Sound, Clean
    <2>2. QED
      BY <2>1, StandsFacts
  <1>2. QED
    BY <1>1, Invariant, PTL

\* While do_continue waits for a stop and no command has been answered with an
\* error, every entry of the table is a breakpoint: its patch is in memory, the
\* hart fetches it, and dcsr.ebreakm sends it to the debugger.
THEOREM LoopIsArmed == Spec => []BreakpointsArmed
  <1>1. Inv => BreakpointsArmed
    <2> SUFFICES ASSUME Inv, ~alarm, ~missed, NEW a \in At(d), a \in Ram \/ \A c \in Flash : d.mem[c] # Torn
                 PROVE  /\ Cut(d.mem, a, Length(d, a)) = PatchFor(Length(d, a))
                        /\ Cut(d.fetch, a, Length(d, a)) = PatchFor(Length(d, a)) /\ d.ebreakm = "on"
      BY DEF BreakpointsArmed
    <2>1. Sound(d, user, own) /\ Armed(d) /\ d \in Debugger /\ Placed(d)
      BY DEF Inv, Sound
    <2>2. ~InTorn(d, a)
      BY <2>1, EntryFacts, CellFacts DEF InTorn
    <2>3. QED
      BY <2>1, <2>2 DEF Armed, InPlace
  <1>2. QED
    BY <1>1, Invariant, PTL

\* The user's dcsr.ebreakm is never lost: SoftwareBreakpoints holds it while it
\* has the bit set, and _restore_dcsr forgets it only once it is written back.
THEOREM EbreakReturned == Spec => []EbreakGivenBack
  <1>1. Inv => EbreakGivenBack
    BY DEF Inv, Sound, Saves, EbreakGivenBack
  <1>2. QED
    BY <1>1, Invariant, PTL

=============================================================================
