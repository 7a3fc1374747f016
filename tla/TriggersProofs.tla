--------------------------- MODULE TriggersProofs ---------------------------
(***************************************************************************)
(* Proofs about Triggers, for every number of slots, every set of          *)
(* breakpoint addresses and watchpoints, and any number of faults.         *)
(*                                                                         *)
(* Two inductive invariants.  Inv is about ownership, and holds whatever   *)
(* fails.  LossInv is about what the slots hold, and is claimed until the  *)
(* first error that GDB sees; the lemmas for it, whose names end in Ok,    *)
(* Fine and Loss, follow each operator along its path without a failure.   *)
(***************************************************************************)
EXTENDS Triggers, FiniteSetTheorems, TLAPS

LEMMA ConfigFacts ==
    /\ Off \in Config
    /\ \A a \in Addrs : Exec(a) \in Config /\ Exec(a) # Off
    /\ \A w \in Watches : Data(w) \in Config /\ Data(w) # Off
    /\ \A a \in Addrs, w \in Watches : Exec(a) # Data(w)
    /\ \A v, w \in Watches : Data(v) = Data(w) => v = w
  BY DEF Off, Exec, Data, Config

-----------------------------------------------------------------------------
(* What the accesses to the target leave alone.                            *)

SameTables(m, o) == o.bps = m.bps /\ o.wps = m.wps /\ o.exc = m.exc
Keeps(m, o) ==
    /\ o \in Debugger
    /\ SameTables(m, o)
    /\ o.hw = m.hw /\ o.blocked = m.blocked

\* The part of the inductive invariant that is about the debugger.
Good(m) == m \in Debugger /\ Exclusive(m) /\ Owned(m)

LEMMA KeepsGood ==
    ASSUME NEW m, Good(m), NEW o, Keeps(m, o)
    PROVE  Good(o)
  BY DEF Good, Keeps, SameTables, Exclusive, Owned, ExecSlots, WatchSlots

LEMMA KeepsTrans ==
    ASSUME NEW m, NEW o, NEW q, Keeps(m, o), Keeps(o, q)
    PROVE  Keeps(m, q)
  BY DEF Keeps, SameTables

LEMMA FaultKeeps ==
    ASSUME NEW m \in Debugger, NEW o \in Fault(m)
    PROVE  Keeps(m, o) /\ o.err
  <1>1. PICK l \in {m.link, "down"} : o = [m EXCEPT !.err = TRUE, !.faults = @ + 1, !.link = l]
    BY DEF Fault
  <1>2. l \in {"up", "down", "stale"} /\ m.faults + 1 \in Nat
    BY DEF Debugger
  <1>3. o \in Debugger
    BY <1>1, <1>2 DEF Debugger
  <1>4. QED
    BY <1>1, <1>3 DEF Debugger, Keeps, SameTables

LEMMA ErrKeeps ==
    ASSUME NEW m \in Debugger, NEW b \in BOOLEAN
    PROVE  Keeps(m, [m EXCEPT !.err = b])
  BY DEF Debugger, Keeps, SameTables

LEMMA FailsKeeps ==
    ASSUME NEW m \in Debugger, NEW o \in Fails(m)
    PROVE  Keeps(m, o) /\ o.err
  <1>1. CASE CanDebug(m)
    BY <1>1, FaultKeeps DEF Fails
  <1>2. CASE ~CanDebug(m)
    <2>1. o = [m EXCEPT !.err = TRUE]
      BY <1>2 DEF Fails
    <2>2. QED
      BY <2>1, ErrKeeps DEF Debugger
  <1>3. QED
    BY <1>1, <1>2

LEMMA AccessKeeps ==
    ASSUME NEW m \in Debugger, NEW o \in Access(m)
    PROVE  Keeps(m, o)
  BY FailsKeeps DEF Access, Keeps, SameTables

LEMMA ResumeKeeps ==
    ASSUME NEW m \in Debugger, NEW o \in ResumeHart(m)
    PROVE  Keeps(m, o)
  <1> DEFINE run == [m EXCEPT !.hart = "running", !.pc = Elsewhere, !.cause = "other"]
  <1>1. Keeps(m, run)
    BY DEF Debugger, Keeps, SameTables, Places
  <1>2. o = run \/ o \in Fault(run) \/ o \in Fails(m)
    BY DEF ResumeHart
  <1>3. QED
    <2> HIDE DEF run
    <2> QED BY <1>1, <1>2, FaultKeeps, FailsKeeps, KeepsTrans DEF Keeps

LEMMA StepKeeps ==
    ASSUME NEW m \in Debugger, NEW o \in StepHart(m)
    PROVE  Keeps(m, o)
  <1> DEFINE run == [m EXCEPT !.hart = "running", !.pc = Elsewhere, !.cause = "other"]
             there == {[m EXCEPT !.pc = x[1], !.cause = x[2]] : x \in Places \X {"step", "other"}}
  <1>1. Keeps(m, run)
    BY DEF Debugger, Keeps, SameTables, Places
  <1>2. ASSUME NEW t \in there PROVE Keeps(m, t)
    <2>1. PICK x \in Places \X {"step", "other"} : t = [m EXCEPT !.pc = x[1], !.cause = x[2]]
      OBVIOUS
    <2>2. x[1] \in Places /\ x[2] \in {"trigger", "haltreq", "step", "other"}
      OBVIOUS
    <2>3. QED
      BY <2>1, <2>2 DEF Debugger, Keeps, SameTables
  <1>3. o \in there \/ o \in Fault(run) \/ (\E t \in there : o \in Fault(t)) \/ o \in Fails(m)
    BY DEF StepHart
  <1>4. QED
    <2> HIDE DEF run, there
    <2> QED BY <1>1, <1>2, <1>3, FaultKeeps, FailsKeeps, KeepsTrans DEF Keeps

LEMMA HaltKeeps ==
    ASSUME NEW m \in Debugger, NEW o \in HaltHart(m)
    PROVE  Keeps(m, o)
  <1> DEFINE asked == [m EXCEPT !.reset = FALSE]
             there == IF m.hart = "halted" THEN {asked}
                      ELSE {[asked EXCEPT !.hart = "halted", !.pc = p, !.cause = "haltreq"] : p \in Places}
  <1>1. Keeps(m, m) /\ Keeps(m, asked)
    BY DEF Debugger, Keeps, SameTables
  <1>2. ASSUME NEW t \in there PROVE Keeps(m, t)
    <2>1. CASE m.hart = "halted"
      BY <2>1, <1>1
    <2>2. CASE m.hart # "halted"
      <3>1. PICK p \in Places :
                t = [m EXCEPT !.reset = FALSE, !.hart = "halted", !.pc = p, !.cause = "haltreq"]
        BY <2>2 DEF Debugger
      <3>2. QED
        BY <3>1 DEF Debugger, Keeps, SameTables
    <2>3. QED
      BY <2>1, <2>2
  <1>3. \/ o \in there
        \/ \E t \in there \cup {m, asked} : o \in Fault(t)
        \/ o = [m EXCEPT !.err = TRUE]
    BY DEF HaltHart
  <1>4. QED
    <2> HIDE DEF asked, there
    <2> QED BY <1>1, <1>2, <1>3, FaultKeeps, ErrKeeps, KeepsTrans DEF Keeps

-----------------------------------------------------------------------------
(* Writing slots.                                                          *)

LEMMA OverwriteSlots ==
    ASSUME NEW h \in [Slots -> Config], NEW want,
           \A i \in DOMAIN want \cap Slots : want[i] \in Config
    PROVE  /\ Overwrite(h, want) \in [Slots -> Config]
           /\ \A i \in Slots : Overwrite(h, want)[i] = IF i \in DOMAIN want THEN want[i] ELSE h[i]
  BY DEF Overwrite

\* The outcome of programming some slots.
Wrote(m, want, o) ==
    /\ o \in Debugger
    /\ SameTables(m, o)
    /\ o.blocked = m.blocked
    /\ \A i \in Slots : \/ o.hw[i] = m.hw[i] \/ o.hw[i] = Off
                        \/ i \in DOMAIN want /\ o.hw[i] = want[i]
    /\ ~o.err => \A i \in DOMAIN want \cap Slots : o.hw[i] = want[i]

LEMMA WriteSlotsWrites ==
    ASSUME NEW m \in Debugger, NEW want,
           \A i \in DOMAIN want : i \in Slots /\ want[i] \in Config,
           NEW o \in WriteSlots(m, want)
    PROVE  Wrote(m, want, o)
  <1> DEFINE all == [m EXCEPT !.hw = Overwrite(m.hw, want)]
             mix(done, i, c) == [j \in done \cup {i} |-> IF j = i THEN c ELSE want[j]]
             part(done, i, c) == [m EXCEPT !.hw = Overwrite(m.hw, mix(done, i, c))]
  <1>1. CASE DOMAIN want = {}
    BY <1>1 DEF WriteSlots, Wrote, SameTables
  <1>2. CASE DOMAIN want # {} /\ ~CanDebug(m)
    <2>1. Keeps(m, o) /\ o.err
      BY <1>2, FailsKeeps DEF WriteSlots
    <2>2. QED
      BY <2>1 DEF Wrote, Keeps
  <1>3. CASE DOMAIN want # {} /\ CanDebug(m) /\ o = all
    <2>1. Overwrite(m.hw, want) \in [Slots -> Config]
      BY OverwriteSlots DEF Debugger
    <2>2. o \in Debugger /\ o.hw = Overwrite(m.hw, want)
      BY <1>3, <2>1 DEF Debugger
    <2>3. SameTables(m, o) /\ o.blocked = m.blocked
      BY <1>3 DEF SameTables, Debugger
    <2>4. \A i \in Slots : o.hw[i] = IF i \in DOMAIN want THEN want[i] ELSE m.hw[i]
      BY <2>2 DEF Overwrite
    <2>5. QED
      BY <2>2, <2>3, <2>4 DEF Wrote
  <1>4. CASE \E i \in DOMAIN want : \E done \in SUBSET (DOMAIN want \ {i}) :
                \E c \in {m.hw[i], Off, want[i]} : o \in Fault(part(done, i, c))
    <2>0. PICK i \in DOMAIN want : \E done \in SUBSET (DOMAIN want \ {i}) :
                \E c \in {m.hw[i], Off, want[i]} : o \in Fault(part(done, i, c))
      BY <1>4
    <2>1. PICK done \in SUBSET (DOMAIN want \ {i}) :
                \E c \in {m.hw[i], Off, want[i]} : o \in Fault(part(done, i, c))
      BY <2>0
    <2>11. PICK c \in {m.hw[i], Off, want[i]} : o \in Fault(part(done, i, c))
      BY <2>1
    <2>2. i \in Slots /\ c \in Config /\ done \in SUBSET Slots
      BY ConfigFacts DEF Debugger
    <2>3. \A j \in DOMAIN mix(done, i, c) \cap Slots : mix(done, i, c)[j] \in Config
      BY <2>2
    <2>4. Overwrite(m.hw, mix(done, i, c)) \in [Slots -> Config]
      <3> HIDE DEF mix
      <3> QED BY <2>3, OverwriteSlots DEF Debugger
    <2>5. part(done, i, c) \in Debugger /\ part(done, i, c).hw = Overwrite(m.hw, mix(done, i, c))
          /\ SameTables(m, part(done, i, c)) /\ part(done, i, c).blocked = m.blocked
      <3> HIDE DEF mix
      <3> QED BY <2>4 DEF Debugger, SameTables
    <2>6. Keeps(part(done, i, c), o) /\ o.err
      <3> HIDE DEF part
      <3> QED BY <2>11, <2>5, FaultKeeps
    <2>7. \A j \in Slots : Overwrite(m.hw, mix(done, i, c))[j]
                = IF j = i THEN c ELSE IF j \in done THEN want[j] ELSE m.hw[j]
      BY <2>2 DEF Overwrite
    <2>8. \A j \in Slots : o.hw[j] = IF j = i THEN c ELSE IF j \in done THEN want[j] ELSE m.hw[j]
      <3> HIDE DEF part, mix
      <3> QED BY <2>5, <2>6, <2>7 DEF Keeps
    <2>9. o \in Debugger /\ SameTables(m, o) /\ o.blocked = m.blocked
      <3> HIDE DEF part
      <3> QED BY <2>5, <2>6 DEF Keeps, SameTables
    <2>10. QED
      BY <2>2, <2>6, <2>8, <2>9 DEF Wrote
  <1>5. ASSUME DOMAIN want # {}, CanDebug(m), o # all
        PROVE  \E i \in DOMAIN want : \E done \in SUBSET (DOMAIN want \ {i}) :
                  \E c \in {m.hw[i], Off, want[i]} : o \in Fault(part(done, i, c))
    <2>1. PICK i \in DOMAIN want :
                o \in UNION {UNION {Fault(part(done, i, c)) : c \in {m.hw[i], Off, want[i]}}
                                : done \in SUBSET (DOMAIN want \ {i})}
      BY <1>5 DEF WriteSlots
    <2>2. PICK done \in SUBSET (DOMAIN want \ {i}) :
                o \in UNION {Fault(part(done, i, c)) : c \in {m.hw[i], Off, want[i]}}
      <3> HIDE DEF part
      <3> QED BY <2>1
    <2>3. \E c \in {m.hw[i], Off, want[i]} : o \in Fault(part(done, i, c))
      <3> HIDE DEF part
      <3> QED BY <2>2
    <2>4. QED
      BY <2>3
  <1>6. QED
    BY <1>1, <1>2, <1>3, <1>4, <1>5

\* A configuration that gives no slot to a watchpoint that does not own it.
Legal(m, want) ==
    \A i \in DOMAIN want :
        i \in Slots /\ want[i] \in Config /\ \A w \in Watches : want[i] = Data(w) => i \in m.wps[w]

LEMMA LegalWrite ==
    ASSUME NEW m, Good(m), NEW want, Legal(m, want), NEW o \in WriteSlots(m, want)
    PROVE  Good(o) /\ Wrote(m, want, o)
  <1>1. Wrote(m, want, o)
    BY WriteSlotsWrites DEF Good, Legal
  <1>2. Owned(o)
    BY <1>1, ConfigFacts DEF Wrote, Good, Owned, Legal, SameTables
  <1>3. Exclusive(o)
    BY <1>1 DEF Wrote, Good, SameTables, Exclusive, ExecSlots, WatchSlots
  <1>4. QED
    BY <1>1, <1>2, <1>3 DEF Good, Wrote

LEMMA LegalOverwrite ==
    ASSUME NEW m, Good(m), NEW want, Legal(m, want)
    PROVE  /\ Good([m EXCEPT !.hw = Overwrite(m.hw, want)])
           /\ SameTables(m, [m EXCEPT !.hw = Overwrite(m.hw, want)])
           /\ [m EXCEPT !.hw = Overwrite(m.hw, want)].blocked = m.blocked
  <1> DEFINE o == [m EXCEPT !.hw = Overwrite(m.hw, want)]
  <1>1. Overwrite(m.hw, want) \in [Slots -> Config]
    BY OverwriteSlots DEF Good, Debugger, Legal
  <1>2. o \in Debugger /\ o.hw = Overwrite(m.hw, want) /\ SameTables(m, o) /\ o.blocked = m.blocked
    BY <1>1 DEF Good, Debugger, SameTables
  <1>3. Owned(o)
    <2> HIDE DEF o
    <2> QED BY <1>2 DEF Overwrite, Good, Owned, Legal, SameTables
  <1>4. Exclusive(o)
    <2> HIDE DEF o
    <2> QED BY <1>2 DEF Good, SameTables, Exclusive, ExecSlots, WatchSlots
  <1>5. QED
    BY <1>2, <1>3, <1>4 DEF Good

LEMMA TableFacts ==
    ASSUME NEW m \in Debugger
    PROVE  /\ ExecSlots(m) \subseteq Slots
           /\ WatchSlots(m) \subseteq Slots
           /\ ExcSlots(m) \subseteq Slots
           /\ \A w \in Watches : m.wps[w] \subseteq Slots
  BY DEF Debugger, ExecSlots, WatchSlots, ExcSlots

LEMMA ClearedLegal ==
    ASSUME NEW m, NEW S \in SUBSET Slots
    PROVE  Legal(m, Cleared(S)) /\ DOMAIN Cleared(S) = S /\ \A i \in S : Cleared(S)[i] = Off
  BY ConfigFacts DEF Legal, Cleared

LEMMA ArmedBpsLegal ==
    ASSUME NEW m \in Debugger
    PROVE  Legal(m, ArmedBps(m))
  <1> SUFFICES ASSUME NEW i \in ExecSlots(m)
               PROVE  /\ i \in Slots
                      /\ \E a \in Addrs : ArmedBps(m)[i] = Exec(a)
    BY ConfigFacts DEF Legal, ArmedBps
  <1>1. \E a \in Addrs : m.bps[a] = i
    BY DEF ExecSlots
  <1>2. QED
    BY <1>1, TableFacts DEF ArmedBps

LEMMA ArmedExcLegal ==
    ASSUME NEW m \in Debugger
    PROVE  Legal(m, ArmedExc(m))
  BY TableFacts, ConfigFacts, PlacesAssumption DEF Legal, ArmedExc

LEMMA ArmedWatchLegal ==
    ASSUME NEW m \in Debugger, NEW w \in Watches
    PROVE  Legal(m, ArmedWatch(m, w))
  BY TableFacts, ConfigFacts DEF Legal, ArmedWatch

LEMMA ArmedWatchesLegal ==
    ASSUME NEW m \in Debugger, NEW W \in SUBSET Watches
    PROVE  Legal(m, ArmedWatches(m, W))
  <1> SUFFICES ASSUME NEW i \in UNION {m.wps[w] : w \in W}
               PROVE  /\ i \in Slots
                      /\ \E w \in W : ArmedWatches(m, W)[i] = Data(w) /\ i \in m.wps[w]
    BY ConfigFacts DEF Legal, ArmedWatches
  <1>1. \E w \in W : i \in m.wps[w]
    OBVIOUS
  <1>2. QED
    BY <1>1, TableFacts DEF ArmedWatches

\* Changes that touch neither the slots nor who owns them.
LEMMA OtherFields ==
    ASSUME NEW m, Good(m), NEW o \in Debugger, SameTables(m, o), o.hw = m.hw
    PROVE  Good(o)
  BY DEF Good, SameTables, Exclusive, Owned, ExecSlots, WatchSlots

LEMMA BlockGood ==
    ASSUME NEW m, Good(m), NEW w \in Watches
    PROVE  /\ Good([m EXCEPT !.blocked = @ \cup {w}])
           /\ SameTables(m, [m EXCEPT !.blocked = @ \cup {w}])
  <1> DEFINE o == [m EXCEPT !.blocked = @ \cup {w}]
  <1>1. o \in Debugger /\ SameTables(m, o) /\ o.hw = m.hw
    BY DEF Good, Debugger, SameTables
  <1>2. QED
    <2> HIDE DEF o
    <2> QED BY <1>1, OtherFields DEF o

\* Forgetting owners, when no slot they own is armed any more.
LEMMA ShrinkGood ==
    ASSUME NEW m, Good(m), NEW o \in Debugger, o.hw = m.hw,
           \A a \in Addrs : o.bps[a] = m.bps[a] \/ o.bps[a] = NoSlot,
           o.exc = m.exc \/ o.exc = NoSlot,
           \A w \in Watches : o.wps[w] = m.wps[w] \/ o.wps[w] = {},
           \A w \in Watches : \A i \in m.wps[w] \ o.wps[w] : m.hw[i] # Data(w)
    PROVE  Good(o)
  <1>1. ExecSlots(o) \subseteq ExecSlots(m) /\ WatchSlots(o) \subseteq WatchSlots(m)
    BY DEF ExecSlots, WatchSlots
  <1>2. Exclusive(o)
    <2>1. \A a, b \in Addrs : a # b /\ o.bps[a] = o.bps[b] => o.bps[a] = NoSlot
      BY DEF Good, Exclusive
    <2>2. \A v, w \in Watches : v # w => o.wps[v] \cap o.wps[w] = {}
      BY DEF Good, Exclusive
    <2>3. o.exc \notin ExecSlots(o) \cup WatchSlots(o)
      <3>1. NoSlot \notin ExecSlots(o) /\ NoSlot \notin Slots
        BY SlotsAssumption DEF ExecSlots, NoSlot, Slots
      <3>2. QED
        BY <3>1, <1>1, TableFacts DEF Good, Exclusive
    <2>4. QED
      BY <2>1, <2>2, <2>3, <1>1 DEF Good, Exclusive
  <1>3. Owned(o)
    BY DEF Good, Owned
  <1>4. QED
    BY <1>2, <1>3 DEF Good

-----------------------------------------------------------------------------
(* The watchpoints.                                                        *)

LEMMA EntriesWatches ==
    ASSUME NEW m PROVE Entries(m) \subseteq Watches
  BY DEF Entries

LEMMA RemoveWatchGood ==
    ASSUME NEW m, Good(m), NEW w \in Watches, NEW o \in RemoveWatch(m, w)
    PROVE  Good(o)
  <1> DEFINE D == WriteSlots(m, Cleared(m.wps[w]))
  <1>1. \A d \in D : Good(d) /\ Wrote(m, Cleared(m.wps[w]), d)
    BY TableFacts, ClearedLegal, LegalWrite DEF Good
  <1>2. CASE \E d \in Bad(D) : o = [d EXCEPT !.blocked = @ \cup {w}]
    BY <1>2, <1>1, BlockGood DEF Bad
  <1>3. CASE \E d \in Ok(D) : o = [d EXCEPT !.wps[w] = {}, !.blocked = @ \ {w}]
    <2>1. PICK d \in Ok(D) : o = [d EXCEPT !.wps[w] = {}, !.blocked = @ \ {w}]
      BY <1>3
    <2>2. Good(d) /\ d.wps = m.wps /\ \A i \in m.wps[w] : d.hw[i] = Off
      <3>1. d \in D /\ ~d.err
        BY DEF Ok
      <3> HIDE DEF D
      <3>2. Good(d) /\ Wrote(m, Cleared(m.wps[w]), d)
        BY <1>1, <3>1
      <3>3. QED
        BY <3>1, <3>2, TableFacts, ClearedLegal DEF Wrote, SameTables, Good
    <2>3. o \in Debugger /\ o.hw = d.hw /\ o.bps = d.bps /\ o.exc = d.exc
          /\ o.wps = [d.wps EXCEPT ![w] = {}]
      BY <2>1, <2>2 DEF Good, Debugger
    <2>4. \A v \in Watches : o.wps[v] = IF v = w THEN {} ELSE d.wps[v]
      BY <2>2, <2>3 DEF Good, Debugger
    <2>5. \A v \in Watches : \A i \in d.wps[v] \ o.wps[v] : d.hw[i] # Data(v)
      BY <2>2, <2>4, ConfigFacts
    <2>6. QED
      BY <2>2, <2>3, <2>4, <2>5, ShrinkGood
  <1>4. QED
    BY <1>2, <1>3 DEF RemoveWatch

LEMMA LowestFreeFree ==
    ASSUME NEW m, NEW n
    PROVE  LowestFree(m, n) \in SUBSET (Slots \ AllTriggers(m))
  BY DEF LowestFree

LEMMA InsertWatchGood ==
    ASSUME NEW m, Good(m), NEW w \in Watches, w \notin Entries(m), NEW o \in InsertWatch(m, w)
    PROVE  Good(o)
  <1> DEFINE T     == LowestFree(m, Need[w])
             owned == [m EXCEPT !.wps[w] = LowestFree(m, Need[w])]
             D     == WriteSlots(owned, ArmedWatch(owned, w))
             raw(d) == [d EXCEPT !.blocked = @ \cup {w}, !.err = FALSE]
  <1>1. T \subseteq Slots /\ T \cap AllTriggers(m) = {}
    BY LowestFreeFree
  <1>2. Good(owned)
    <2>1. owned \in Debugger /\ owned.hw = m.hw /\ owned.bps = m.bps /\ owned.exc = m.exc
          /\ \A v \in Watches : owned.wps[v] = IF v = w THEN T ELSE m.wps[v]
      BY <1>1 DEF Good, Debugger
    <2> HIDE DEF T, owned
    <2>2. m.wps[w] = {}
      BY DEF Entries
    <2>3. Owned(owned)
      BY <2>1, <2>2 DEF Good, Owned
    <2>4. \A v \in Watches \ {w} : T \cap m.wps[v] = {}
      BY <1>1 DEF AllTriggers, WatchSlots
    <2>5. WatchSlots(owned) \subseteq WatchSlots(m) \cup T
      BY <2>1 DEF WatchSlots
    <2>6. T \cap ExecSlots(m) = {} /\ m.exc \notin T
      <3>1. NoSlot \notin T
        BY <1>1, SlotsAssumption DEF Slots, NoSlot
      <3>2. QED
        BY <3>1, <1>1 DEF AllTriggers, ExcSlots
    <2>7. ExecSlots(owned) = ExecSlots(m)
      BY <2>1 DEF ExecSlots
    <2>8. Exclusive(owned)
      <3>1. \A u, v \in Watches : u # v => owned.wps[u] \cap owned.wps[v] = {}
        BY <2>1, <2>4 DEF Good, Exclusive
      <3>2. QED
        BY <3>1, <2>1, <2>5, <2>6, <2>7 DEF Good, Exclusive
    <2>9. QED
      BY <2>1, <2>3, <2>8 DEF Good
  <1>3. \A d \in D : Good(d)
    <2> HIDE DEF owned
    <2> QED BY <1>2, ArmedWatchLegal, LegalWrite DEF Good
  <1>4. \A d \in D : Good(raw(d))
    <2> TAKE d \in D
    <2>1. Good(d)
      BY <1>3
    <2> HIDE DEF D
    <2>2. raw(d) \in Debugger /\ SameTables(d, raw(d)) /\ raw(d).hw = d.hw
      BY <2>1 DEF Good, Debugger, SameTables
    <2> HIDE DEF raw
    <2>3. QED
      BY <2>1, <2>2, OtherFields
  <1>5. \A d \in D : \A u \in RemoveWatch(raw(d), w) : Good([u EXCEPT !.err = TRUE])
    <2> TAKE d \in D
    <2> TAKE u \in RemoveWatch(raw(d), w)
    <2>1. Good(u)
      <3> HIDE DEF raw, D
      <3> QED BY <1>4, RemoveWatchGood
    <2>2. QED
      BY <2>1, ErrKeeps, KeepsGood DEF Good
  <1>6. \/ o \in Ok(D)
        \/ \E d \in Bad(D) : \E u \in RemoveWatch(raw(d), w) : o = [u EXCEPT !.err = TRUE]
    <2> HIDE DEF D
    <2>1. o \in Ok(D) \cup {[x EXCEPT !.err = TRUE] : x \in UNION {RemoveWatch(raw(b), w) : b \in Bad(D)}}
      BY DEF InsertWatch, D
    <2>2. QED
      <3> HIDE DEF raw
      <3> QED BY <2>1
  <1>7. QED
    <2> HIDE DEF D, raw
    <2> QED BY <1>3, <1>5, <1>6 DEF Ok, Bad

LEMMA DisableWatchesGood ==
    ASSUME NEW m, Good(m), NEW o \in DisableWatches(m)
    PROVE  Good(o)
  <1> DEFINE all == WriteSlots(m, Cleared(WatchSlots(m)))
             until(before) ==
                [m EXCEPT !.hw = Overwrite(m.hw, Cleared(UNION {m.wps[v] : v \in before}))]
             D(before, w) == WriteSlots(until(before), Cleared(m.wps[w]))
  <1>1. \A d \in all : Good(d)
    BY TableFacts, ClearedLegal, LegalWrite DEF Good
  <1>2. ASSUME NEW w \in Entries(m), NEW before \in SUBSET (Entries(m) \ {w}), NEW d \in D(before, w)
        PROVE  Good([d EXCEPT !.blocked = @ \cup {w}])
    <2>1. w \in Watches /\ UNION {m.wps[v] : v \in before} \subseteq Slots /\ m.wps[w] \subseteq Slots
      BY <1>2, EntriesWatches, TableFacts DEF Good
    <2>2. Good(until(before))
      BY <2>1, ClearedLegal, LegalOverwrite
    <2>3. Good(d)
      <3> HIDE DEF until
      <3> QED BY <1>2, <2>1, <2>2, ClearedLegal, LegalWrite
    <2>4. QED
      <3> HIDE DEF D
      <3> QED BY <2>1, <2>3, BlockGood
  <1>3. \/ o \in all
        \/ \E w \in Entries(m) : \E before \in SUBSET (Entries(m) \ {w}) :
              \E d \in D(before, w) : o = [d EXCEPT !.blocked = @ \cup {w}]
    <2> HIDE DEF D, all
    <2>1. o \in Ok(all) \cup
            UNION {UNION {{[x EXCEPT !.blocked = @ \cup {w}] : x \in Bad(D(before, w))}
                : before \in SUBSET (Entries(m) \ {w})} : w \in Entries(m)}
      BY DEF DisableWatches, D, all
    <2>2. CASE o \in Ok(all)
      BY <2>2 DEF Ok
    <2>3. CASE o \notin Ok(all)
      <3>1. PICK w \in Entries(m) :
              o \in UNION {{[x EXCEPT !.blocked = @ \cup {w}] : x \in Bad(D(before, w))}
                : before \in SUBSET (Entries(m) \ {w})}
        BY <2>1, <2>3
      <3>2. QED
        BY <3>1 DEF Bad
    <2>4. QED
      BY <2>2, <2>3
  <1>4. QED
    <2> HIDE DEF D, all
    <2> QED BY <1>1, <1>2, <1>3

LEMMA EnableWatchesGood ==
    ASSUME NEW m, Good(m), NEW o \in EnableWatches(m)
    PROVE  Good(o)
  <1> DEFINE all == WriteSlots(m, ArmedWatches(m, Watches))
             until(before) == [m EXCEPT !.hw = Overwrite(m.hw, ArmedWatches(m, before))]
             D(before, w) == WriteSlots(until(before), ArmedWatch(m, w))
  <1>1. \A d \in all : Good(d)
    BY ArmedWatchesLegal, LegalWrite DEF Good
  <1>2. ASSUME NEW w \in Entries(m), NEW before \in SUBSET (Entries(m) \ {w}), NEW d \in D(before, w)
        PROVE  Good([d EXCEPT !.blocked = @ \cup {w}])
    <2>1. w \in Watches /\ before \subseteq Watches
      BY <1>2, EntriesWatches
    <2>2. Good(until(before)) /\ SameTables(m, until(before))
      BY <2>1, ArmedWatchesLegal, LegalOverwrite DEF Good
    <2>3. Good(d)
      <3> HIDE DEF until
      <3>1. Legal(until(before), ArmedWatch(m, w))
        BY <2>1, <2>2, ArmedWatchLegal DEF Good, Legal, SameTables
      <3>2. QED
        BY <1>2, <2>2, <3>1, LegalWrite
    <2>4. QED
      <3> HIDE DEF D
      <3> QED BY <2>1, <2>3, BlockGood
  <1>3. \/ o \in all
        \/ \E w \in Entries(m) : \E before \in SUBSET (Entries(m) \ {w}) :
              \E d \in D(before, w) : o = [d EXCEPT !.blocked = @ \cup {w}]
    <2> HIDE DEF D, all
    <2>1. o \in Ok(all) \cup
            UNION {UNION {{[x EXCEPT !.blocked = @ \cup {w}] : x \in Bad(D(before, w))}
                : before \in SUBSET (Entries(m) \ {w})} : w \in Entries(m)}
      BY DEF EnableWatches, D, all
    <2>2. CASE o \in Ok(all)
      BY <2>2 DEF Ok
    <2>3. CASE o \notin Ok(all)
      <3>1. PICK w \in Entries(m) :
              o \in UNION {{[x EXCEPT !.blocked = @ \cup {w}] : x \in Bad(D(before, w))}
                : before \in SUBSET (Entries(m) \ {w})}
        BY <2>1, <2>3
      <3>2. QED
        BY <3>1 DEF Bad
    <2>4. QED
      BY <2>2, <2>3
  <1>4. QED
    <2> HIDE DEF D, all
    <2> QED BY <1>1, <1>2, <1>3

\* clear() either removes every entry or raises.
LEMMA ClearWatchesGood ==
    ASSUME NEW m, Good(m), NEW o \in ClearWatches(m)
    PROVE  /\ Good(o)
           /\ ~o.err => /\ WatchSlots(o) = {} /\ o.blocked = {}
                        /\ o.bps = m.bps /\ o.exc = m.exc
  <1> DEFINE all == WriteSlots(m, Cleared(WatchSlots(m)))
             none == [w \in Watches |-> {}]
             removed(before) ==
               [m EXCEPT !.hw = Overwrite(m.hw, Cleared(UNION {m.wps[v] : v \in before})),
                         !.wps = [v \in Watches |-> IF v \in before THEN {} ELSE m.wps[v]],
                         !.blocked = @ \ before]
  <1>1. ASSUME NEW d \in Ok(all), o = [d EXCEPT !.wps = none, !.blocked = {}]
        PROVE  Good(o) /\ WatchSlots(o) = {} /\ o.blocked = {} /\ o.bps = m.bps /\ o.exc = m.exc
    <2>1. Good(d) /\ Wrote(m, Cleared(WatchSlots(m)), d) /\ ~d.err
      BY <1>1, TableFacts, ClearedLegal, LegalWrite DEF Good, Ok
    <2>2. \A i \in WatchSlots(m) : d.hw[i] = Off
      BY <2>1, TableFacts, ClearedLegal DEF Wrote, Good
    <2>3. o \in Debugger /\ o.hw = d.hw /\ o.bps = d.bps /\ o.exc = d.exc /\ o.wps = none /\ o.blocked = {}
      BY <1>1, <2>1 DEF Good, Debugger
    <2> HIDE DEF all
    <2>4. \A w \in Watches : \A i \in d.wps[w] \ o.wps[w] : d.hw[i] # Data(w)
      BY <2>1, <2>2, ConfigFacts DEF Wrote, SameTables, WatchSlots
    <2>5. QED
      BY <2>1, <2>3, <2>4, ShrinkGood DEF WatchSlots, Wrote, SameTables
  <1>2. ASSUME NEW w \in Entries(m), NEW before \in SUBSET (Entries(m) \ {w}),
               o \in Bad(RemoveWatch(removed(before), w))
        PROVE  Good(o) /\ o.err
    <2> DEFINE S == UNION {m.wps[v] : v \in before}
               mid == [m EXCEPT !.hw = Overwrite(m.hw, Cleared(S))]
    <2>1. w \in Watches /\ before \subseteq Watches /\ S \subseteq Slots
      BY EntriesWatches, TableFacts DEF Good
    <2>2. Good(mid) /\ SameTables(m, mid) /\ mid.hw = Overwrite(m.hw, Cleared(S))
      BY <2>1, ClearedLegal, LegalOverwrite DEF Good, Debugger
    <2>3. \A i \in S : mid.hw[i] = Off
      <3> HIDE DEF mid
      <3> QED BY <2>1, <2>2, ClearedLegal DEF Overwrite
    <2>4. removed(before) \in Debugger /\ removed(before).hw = mid.hw
          /\ removed(before).bps = mid.bps /\ removed(before).exc = mid.exc
          /\ removed(before).wps = [v \in Watches |-> IF v \in before THEN {} ELSE m.wps[v]]
      <3>1. mid.hw \in [Slots -> Config]
        BY <2>2 DEF Good, Debugger
      <3>2. Overwrite(m.hw, Cleared(S)) \in [Slots -> Config]
        BY <2>2, <3>1
      <3>3. QED
        BY <3>2 DEF Good, Debugger
    <2>5. Good(removed(before))
      <3> HIDE DEF mid, removed
      <3>1. \A v \in Watches : \A i \in mid.wps[v] \ removed(before).wps[v] : mid.hw[i] # Data(v)
        BY <2>2, <2>3, <2>4, ConfigFacts DEF SameTables
      <3>2. \A v \in Watches : removed(before).wps[v] = mid.wps[v] \/ removed(before).wps[v] = {}
        BY <2>2, <2>4 DEF SameTables
      <3>3. QED
        BY <2>2, <2>4, <3>1, <3>2, ShrinkGood
    <2>6. QED
      <3> HIDE DEF removed
      <3> QED BY <1>2, <2>1, <2>5, RemoveWatchGood DEF Bad
  <1>3. \/ \E d \in Ok(all) : o = [d EXCEPT !.wps = none, !.blocked = {}]
        \/ \E w \in Entries(m) : \E before \in SUBSET (Entries(m) \ {w}) :
              o \in Bad(RemoveWatch(removed(before), w))
    <2> HIDE DEF all, removed, none
    <2>1. o \in {[d EXCEPT !.wps = none, !.blocked = {}] : d \in Ok(all)} \cup
            UNION {UNION {Bad(RemoveWatch(removed(before), w))
                : before \in SUBSET (Entries(m) \ {w})} : w \in Entries(m)}
      BY DEF ClearWatches, all, removed, none
    <2>2. CASE o \in {[d EXCEPT !.wps = none, !.blocked = {}] : d \in Ok(all)}
      BY <2>2
    <2>3. CASE o \notin {[d EXCEPT !.wps = none, !.blocked = {}] : d \in Ok(all)}
      <3>1. PICK w \in Entries(m) :
              o \in UNION {Bad(RemoveWatch(removed(before), w)) : before \in SUBSET (Entries(m) \ {w})}
        BY <2>1, <2>3
      <3>2. QED
        BY <3>1
    <2>4. QED
      BY <2>2, <2>3
  <1>4. QED
    <2> HIDE DEF all, removed
    <2> QED BY <1>1, <1>2, <1>3

-----------------------------------------------------------------------------
(* The helpers of the server.                                              *)

LEMMA DisableTriggersGood ==
    ASSUME NEW m, Good(m), NEW o \in DisableTriggers(m)
    PROVE  Good(o)
  <1> DEFINE D == WriteSlots(m, Cleared(ExecSlots(m) \cup ExcSlots(m)))
  <1>1. \A d \in D : Good(d)
    BY TableFacts, ClearedLegal, LegalWrite DEF Good
  <1>2. o \in D \/ \E d \in D : o \in DisableWatches(d)
    BY DEF DisableTriggers, Then, Ok, Bad
  <1>3. QED
    BY <1>1, <1>2, DisableWatchesGood

LEMMA EnableTriggersGood ==
    ASSUME NEW m, Good(m), NEW o \in EnableTriggers(m)
    PROVE  Good(o)
  <1> DEFINE D == WriteSlots(m, ArmedBps(m))
  <1>1. \A d \in D : Good(d)
    BY ArmedBpsLegal, LegalWrite DEF Good
  <1>2. ASSUME NEW d, Good(d), NEW e \in ArmException(d)
        PROVE  Good(e)
    BY <1>2, ArmedExcLegal, LegalWrite DEF ArmException, Good
  <1>3. \/ o \in D
        \/ \E d \in D : o \in EnableWatches(d)
        \/ \E d \in D : \E e \in EnableWatches(d) : o \in ArmException(e)
    BY DEF EnableTriggers, Then, Ok, Bad
  <1>4. QED
    <2> HIDE DEF D
    <2> QED BY <1>1, <1>2, <1>3, EnableWatchesGood

LEMMA ErrGood ==
    ASSUME NEW m, Good(m), NEW b \in BOOLEAN
    PROVE  Good([m EXCEPT !.err = b])
  BY ErrKeeps, KeepsGood DEF Good

LEMMA TargetGood ==
    ASSUME NEW m, Good(m),
           NEW o \in Access(m) \cup ResumeHart(m) \cup StepHart(m) \cup HaltHart(m)
    PROVE  Good(o) /\ SameTables(m, o) /\ o.blocked = m.blocked
  <1>1. Keeps(m, o)
    BY AccessKeeps, ResumeKeeps, StepKeeps, HaltKeeps DEF Good
  <1>2. QED
    BY <1>1, KeepsGood DEF Keeps

LEMMA FaultGood ==
    ASSUME NEW m, Good(m), NEW o \in Fault(m)
    PROVE  Good(o)
  BY FaultKeeps, KeepsGood DEF Good

LEMMA StepOverGood ==
    ASSUME NEW m, Good(m), NEW o \in StepOver(m)
    PROVE  Good(o)
  <1> DEFINE displaced(d) == Then(Access(d), StepHart)
             finally(t) == {[e EXCEPT !.err = @ \/ t.err] : e \in EnableTriggers([t EXCEPT !.err = FALSE])}
             body(d) == UNION {finally(t) : t \in displaced(d)}
  <1>1. CASE m.blocked # {}
    BY <1>1, ErrGood DEF StepOver
  <1>2. ASSUME NEW d, Good(d), NEW t \in displaced(d)
        PROVE  Good(t)
    <2>1. t \in Access(d) \/ \E a \in Access(d) : t \in StepHart(a)
      BY <1>2 DEF Then, Ok, Bad
    <2>2. QED
      BY <1>2, <2>1, TargetGood
  <1>3. ASSUME NEW t, Good(t), NEW x \in finally(t)
        PROVE  Good(x)
    <2>1. PICK e \in EnableTriggers([t EXCEPT !.err = FALSE]) : x = [e EXCEPT !.err = @ \/ t.err]
      BY <1>3
    <2>2. Good(e)
      BY <1>3, ErrGood, EnableTriggersGood
    <2>3. (e.err \/ t.err) \in BOOLEAN /\ x = [e EXCEPT !.err = e.err \/ t.err]
      BY <2>1
    <2>4. QED
      BY <2>2, <2>3, ErrGood
  <1>4. CASE m.blocked = {}
    <2>1. o \in Then(DisableTriggers(m), body)
      BY <1>4 DEF StepOver
    <2>2. o \in DisableTriggers(m) \/ \E d \in DisableTriggers(m) : o \in body(d)
      <3> HIDE DEF finally, displaced
      <3> QED BY <2>1 DEF Then, Ok, Bad
    <2>3. CASE \E d \in DisableTriggers(m) : o \in body(d)
      <3>1. PICK d \in DisableTriggers(m) : o \in body(d)
        BY <2>3
      <3>2. PICK t \in displaced(d) : o \in finally(t)
        <4> HIDE DEF finally, displaced
        <4> QED BY <3>1
      <3>3. QED
        <4> HIDE DEF finally, displaced
        <4> QED BY <3>1, <3>2, <1>2, <1>3, DisableTriggersGood
    <2>4. QED
      BY <2>2, <2>3, DisableTriggersGood
  <1>5. QED
    BY <1>1, <1>4

LEMMA StopGood ==
    ASSUME NEW m, Good(m), NEW p \in Places \cup {NoPc}
    PROVE  Good([m EXCEPT !.stop = p]) /\ Good([m EXCEPT !.stop = p, !.reset = FALSE])
  <1>1. /\ [m EXCEPT !.stop = p] \in Debugger
        /\ SameTables(m, [m EXCEPT !.stop = p])
        /\ [m EXCEPT !.stop = p].hw = m.hw
    BY DEF Good, Debugger, SameTables
  <1>2. /\ [m EXCEPT !.stop = p, !.reset = FALSE] \in Debugger
        /\ SameTables(m, [m EXCEPT !.stop = p, !.reset = FALSE])
        /\ [m EXCEPT !.stop = p, !.reset = FALSE].hw = m.hw
    BY DEF Good, Debugger, SameTables
  <1>3. QED
    BY <1>1, <1>2, OtherFields

LEMMA StopReplyGood ==
    ASSUME NEW m, Good(m), NEW o \in StopReply(m)
    PROVE  Good(o)
  <1>1. \/ o \in Access(m)
        \/ \E a \in Access(m) : o = a \/ o = [a EXCEPT !.stop = a.pc]
    BY DEF StopReply, Then, Ok, Bad
  <1>2. \A a \in Access(m) : Good(a) /\ a.pc \in Places
    BY TargetGood DEF Good, Debugger
  <1>3. QED
    BY <1>1, <1>2, StopGood

LEMMA AfterResetGood ==
    ASSUME NEW m, Good(m), NEW o \in AfterReset(m)
    PROVE  Good(o)
  <1> DEFINE D == IF m.hart = "halted" THEN Access(m) ELSE HaltHart(m)
  <1>1. \A d \in D : Good(d)
    BY TargetGood
  <1>2. \/ o \in D
        \/ \E d \in D : o \in EnableTriggers([d EXCEPT !.stop = NoPc, !.reset = FALSE])
    <2> HIDE DEF D
    <2>1. o \in Then(D, LAMBDA d : EnableTriggers([d EXCEPT !.stop = NoPc, !.reset = FALSE]))
      BY DEF AfterReset, D
    <2>2. QED
      BY <2>1 DEF Then, Ok, Bad
  <1>3. QED
    <2> HIDE DEF D
    <2> QED BY <1>1, <1>2, StopGood, EnableTriggersGood

LEMMA ResetHaltGood ==
    ASSUME NEW m, Good(m), NEW o \in ResetHalt(m)
    PROVE  Good(o)
  <1> DEFINE gone  == [m EXCEPT !.hw = [i \in Slots |-> Off], !.pc = Elsewhere, !.cause = "other"]
             there == [gone EXCEPT !.hart = "halted", !.cause = "haltreq", !.reset = FALSE]
             lost  == [gone EXCEPT !.hart = "running", !.reset = TRUE]
  <1>1. ASSUME NEW t \in {there, lost}
        PROVE  Good(t)
    <2>0. [i \in Slots |-> Off] \in [Slots -> Config]
      BY ConfigFacts
    <2>4. t = there => t \in Debugger /\ SameTables(m, t) /\ t.hw = [i \in Slots |-> Off]
      BY <2>0 DEF Good, Debugger, SameTables, Places
    <2>5. t = lost => t \in Debugger /\ SameTables(m, t) /\ t.hw = [i \in Slots |-> Off]
      BY <2>0 DEF Good, Debugger, SameTables, Places
    <2>1. t \in Debugger /\ SameTables(m, t) /\ t.hw = [i \in Slots |-> Off]
      <3> HIDE DEF there, lost
      <3> QED BY <1>1, <2>4, <2>5
    <2> HIDE DEF there, lost
    <2>2. Owned(t)
      BY <2>1, ConfigFacts DEF Owned
    <2>3. QED
      BY <2>1, <2>2 DEF Good, SameTables, Exclusive, ExecSlots, WatchSlots
  <1>2. \/ o = there \/ o \in Fault(m) \/ o \in Fault(there) \/ o \in Fault(lost)
        \/ o = [m EXCEPT !.err = TRUE]
    BY DEF ResetHalt
  <1>3. QED
    <2> HIDE DEF there, lost
    <2> QED BY <1>1, <1>2, FaultKeeps, KeepsGood, ErrGood DEF Good

LEMMA ForgetBps ==
    ASSUME NEW m, Good(m)
    PROVE  /\ Good([m EXCEPT !.bps = [a \in Addrs |-> NoSlot]])
           /\ [m EXCEPT !.bps = [a \in Addrs |-> NoSlot]].bps = [a \in Addrs |-> NoSlot]
  <1> DEFINE o == [m EXCEPT !.bps = [a \in Addrs |-> NoSlot]]
  <1>1. o \in Debugger /\ o.hw = m.hw /\ o.wps = m.wps /\ o.exc = m.exc /\ o.bps = [a \in Addrs |-> NoSlot]
    BY DEF Good, Debugger
  <1> HIDE DEF o
  <1>2. Good(o)
    BY <1>1, ShrinkGood
  <1>3. QED
    BY <1>1, <1>2 DEF o

LEMMA ForgetExc ==
    ASSUME NEW m, Good(m)
    PROVE  /\ Good([m EXCEPT !.exc = NoSlot])
           /\ LET o == [m EXCEPT !.exc = NoSlot]
              IN  o.bps = m.bps /\ o.wps = m.wps /\ o.exc = NoSlot /\ o.blocked = m.blocked
  <1> DEFINE o == [m EXCEPT !.exc = NoSlot]
  <1>1. o \in Debugger /\ o.hw = m.hw /\ o.wps = m.wps /\ o.bps = m.bps /\ o.exc = NoSlot
        /\ o.blocked = m.blocked
    BY DEF Good, Debugger
  <1> HIDE DEF o
  <1>2. Good(o)
    BY <1>1, ShrinkGood
  <1>3. QED
    BY <1>1, <1>2 DEF o

Empty(m) == AllTriggers(m) = {} /\ m.blocked = {}

LEMMA ReleaseGood ==
    ASSUME NEW m, Good(m), NEW o \in Release(m)
    PROVE  Good(o) /\ (~o.err => Empty(o))
  <1> DEFINE bare(d)    == [d EXCEPT !.bps = [a \in Addrs |-> NoSlot]]
             watches(d) == ClearWatches(bare(d))
             go(d)      == ResumeHart([d EXCEPT !.exc = NoSlot])
             D == DisableTriggers(m)
             E == Then(D, watches)
  <1>1. \A d \in D : Good(d)
    BY DisableTriggersGood
  <1>2. ASSUME NEW e \in E
        PROVE  Good(e) /\ (~e.err => WatchSlots(e) = {} /\ e.blocked = {} /\ e.bps = [a \in Addrs |-> NoSlot])
    <2>1. e \in Bad(D) \/ \E d \in D : e \in ClearWatches(bare(d))
      <3> HIDE DEF D, bare
      <3> QED BY <1>2 DEF Then, Ok, Bad
    <2>2. CASE e \in Bad(D)
      BY <2>2, <1>1 DEF Bad
    <2>3. CASE \E d \in D : e \in ClearWatches(bare(d))
      <3>1. PICK d \in D : e \in ClearWatches(bare(d))
        BY <2>3
      <3>2. Good(bare(d)) /\ bare(d).bps = [a \in Addrs |-> NoSlot]
        BY <1>1, ForgetBps
      <3> HIDE DEF D, bare
      <3>3. QED
        BY <3>1, <3>2, ClearWatchesGood
    <2>4. QED
      BY <2>1, <2>2, <2>3
  <1>3. o \in Bad(E) \/ \E e \in Ok(E) : o \in ResumeHart([e EXCEPT !.exc = NoSlot])
    <2>1. o \in Then(E, go)
      BY DEF Release
    <2> HIDE DEF E
    <2>2. QED
      BY <2>1 DEF Then
  <1>4. CASE o \in Bad(E)
    <2> HIDE DEF E
    <2> QED BY <1>2, <1>4 DEF Bad
  <1>5. CASE \E e \in Ok(E) : o \in ResumeHart([e EXCEPT !.exc = NoSlot])
    <2>1. PICK e \in Ok(E) : o \in ResumeHart([e EXCEPT !.exc = NoSlot])
      BY <1>5
    <2>2. Good(e) /\ WatchSlots(e) = {} /\ e.blocked = {} /\ e.bps = [a \in Addrs |-> NoSlot]
      <3> HIDE DEF E
      <3> QED BY <1>2, <2>1 DEF Ok
    <2> DEFINE x == [e EXCEPT !.exc = NoSlot]
    <2>3. Good(x) /\ x.bps = e.bps /\ x.wps = e.wps /\ x.exc = NoSlot /\ x.blocked = {}
      BY <2>2, ForgetExc
    <2>4. o \in ResumeHart(x)
      BY <2>1
    <2> HIDE DEF x, E
    <2>5. Good(o) /\ SameTables(x, o) /\ o.blocked = {}
      BY <2>3, <2>4, TargetGood
    <2>6. AllTriggers(o) = {}
      BY <2>2, <2>3, <2>5 DEF SameTables, AllTriggers, ExecSlots, WatchSlots, ExcSlots
    <2>7. QED
      BY <2>5, <2>6 DEF Empty
  <1>6. QED
    BY <1>3, <1>4, <1>5

LEMMA CleanupGood ==
    ASSUME NEW m, Good(m), NEW o \in Cleanup(m)
    PROVE  Good(o) /\ (~o.err => Empty(o))
  <1> DEFINE halt == IF m.hart = "halted" THEN {m} ELSE HaltHart(m)
  <1>1. \A h \in halt : Good(h)
    BY TargetGood
  <1>2. \/ o = [m EXCEPT !.err = TRUE]
        \/ o \in Bad(halt)
        \/ \E h \in halt : o \in Release(h)
    <2> HIDE DEF halt
    <2> QED BY DEF Cleanup, halt, Then, Ok, Bad
  <1>3. QED
    <2>1. ([m EXCEPT !.err = TRUE]).err
      BY DEF Good, Debugger
    <2> HIDE DEF halt
    <2>2. QED
      BY <1>1, <1>2, <2>1, ErrGood, ReleaseGood DEF Bad

-----------------------------------------------------------------------------
(* The inductive invariant: the debugger is Good, and a session that ended  *)
(* cleanly has left the tables empty.  NoOrphanWatch is inductive only      *)
(* together with exclusive ownership: a slot given to a second owner could  *)
(* be cleared, or forgotten, by the first.                                  *)

Sessions == {"prompt", "cont", "lost"}

Inv ==
    /\ Good(dbg)
    /\ ~dbg.err
    /\ phase \in Phases
    /\ told \in SUBSET Points /\ inherited \in SUBSET Points
    /\ seen \in BOOLEAN /\ alarm \in BOOLEAN
    /\ phase = "closed" => Empty(dbg)
    /\ phase \notin Sessions => inherited = Listed(dbg)

LEMMA InvInit == Init => Inv
  <1> SUFFICES ASSUME Init PROVE Inv
    OBVIOUS
  <1>1. NoSlot \notin Slots
    BY SlotsAssumption DEF Slots, NoSlot
  <1>2. dbg \in Debugger
    BY ConfigFacts DEF Init, Debugger, Places
  <1>3. ExecSlots(dbg) = {} /\ WatchSlots(dbg) = {} /\ ExcSlots(dbg) = {}
    BY DEF Init, ExecSlots, WatchSlots, ExcSlots
  <1>4. Owned(dbg)
    BY ConfigFacts DEF Init, Owned
  <1>5. Exclusive(dbg)
    BY <1>3 DEF Exclusive, Init
  <1>6. Empty(dbg)
    BY <1>3 DEF Empty, AllTriggers, Init
  <1>7. inherited = Listed(dbg)
    BY DEF Init, Listed, Entries
  <1>8. QED
    BY <1>2, <1>4, <1>5, <1>6, <1>7 DEF Inv, Good, Init, Phases, Points

\* Every entry is one of a stop.
LEMMA ListedPoints ==
    ASSUME NEW m
    PROVE  Listed(m) \in SUBSET Points
  BY DEF Listed, Entries, Points

LEMMA ReplyInv ==
    ASSUME Inv, NEW o, Good(o), NEW p \in Sessions, NEW t \in SUBSET Points, Reply(o, p, t)
    PROVE  Inv'
  <1>1. Good(dbg') /\ ~dbg'.err
    BY ErrGood DEF Reply, Good, Debugger
  <1>2. alarm' \in BOOLEAN /\ seen' \in BOOLEAN
    BY DEF Reply
  <1>3. told' \in SUBSET Points /\ inherited' \in SUBSET Points
    BY DEF Reply, Inv
  <1>4. phase' \in Phases /\ phase' \in Sessions /\ phase' # "closed"
    BY DEF Reply, Phases, Sessions
  <1>5. QED
    BY <1>1, <1>2, <1>3, <1>4 DEF Inv, Good, Exclusive, Owned, ExecSlots, WatchSlots

LEMMA EndedInv ==
    ASSUME Inv, NEW D, \A o \in D : Good(o) /\ (~o.err => Empty(o)),
           NEW raised, Ended(D, raised)
    PROVE  Inv'
  <1>1. PICK o \in D : /\ dbg' = [o EXCEPT !.err = FALSE]
                       /\ phase' = IF o.err THEN "failed" ELSE "closed"
                       /\ told' = {} /\ inherited' = Listed(o) /\ seen' = FALSE
                       /\ alarm' = (alarm \/ raised \/ o.err)
    BY DEF Ended
  <1>2. Good(o)
    OBVIOUS
  <1>3. Keeps(o, dbg')
    BY <1>1, <1>2, ErrKeeps DEF Good
  <1>4. Good(dbg') /\ ~dbg'.err
    BY <1>1, <1>2, <1>3, KeepsGood DEF Good, Debugger
  <1>5. ~o.err => Empty(dbg')
    BY <1>3 DEF Keeps, SameTables, Empty, AllTriggers, ExecSlots, WatchSlots, ExcSlots
  <1>6. /\ phase' \in Phases /\ told' \in SUBSET Points /\ inherited' \in SUBSET Points
        /\ seen' \in BOOLEAN /\ alarm' \in BOOLEAN
    BY <1>1, ListedPoints DEF Phases, Sessions
  <1>7. inherited' = Listed(dbg')
    BY <1>1, <1>3 DEF Keeps, SameTables, Listed, Entries
  <1>8. QED
    BY <1>1, <1>4, <1>5, <1>6, <1>7 DEF Inv, Listed, Entries, Good, Exclusive, Owned, ExecSlots, WatchSlots, Empty, AllTriggers, ExcSlots

-----------------------------------------------------------------------------
(* Giving a free slot an owner.                                            *)

LEMMA FreeFacts ==
    ASSUME NEW m, NEW n, NEW i \in LowestFree(m, n)
    PROVE  i \in Slots /\ i \notin ExecSlots(m) /\ i \notin WatchSlots(m) /\ i \notin ExcSlots(m) /\ i # NoSlot
  BY SlotsAssumption DEF LowestFree, AllTriggers, Slots, NoSlot

LEMMA ExecLegal ==
    ASSUME NEW m, NEW i \in Slots, NEW a \in Addrs
    PROVE  Legal(m, [j \in {i} |-> Exec(a)])
  BY ConfigFacts DEF Legal

LEMMA OwnBpGood ==
    ASSUME NEW m, Good(m), NEW a \in Addrs, NEW i \in LowestFree(m, 1), NEW o, Good(o), SameTables(m, o)
    PROVE  Good([o EXCEPT !.bps[a] = i])
  <1> DEFINE q == [o EXCEPT !.bps[a] = i]
  <1>1. i \in Slots /\ i \notin ExecSlots(o) /\ i \notin WatchSlots(o) /\ i \notin ExcSlots(o) /\ i # NoSlot
    BY FreeFacts DEF SameTables, ExecSlots, WatchSlots, ExcSlots
  <1>2. /\ q \in Debugger
        /\ q.hw = o.hw /\ q.wps = o.wps /\ q.exc = o.exc
        /\ \A b \in Addrs : q.bps[b] = IF b = a THEN i ELSE o.bps[b]
    BY <1>1 DEF Good, Debugger
  <1> HIDE DEF q
  <1>3. ExecSlots(q) \subseteq ExecSlots(o) \cup {i} /\ WatchSlots(q) = WatchSlots(o)
    BY <1>2 DEF ExecSlots, WatchSlots
  <1>4. Exclusive(q)
    <2>1. \A b \in Addrs : o.bps[b] # i
      BY <1>1 DEF ExecSlots
    <2>2. \A b, c \in Addrs : b # c /\ q.bps[b] = q.bps[c] => q.bps[b] = NoSlot
      BY <1>2, <2>1 DEF Good, Exclusive
    <2>3. o.exc # i
      BY <1>1 DEF ExcSlots
    <2>4. ExecSlots(q) \cap WatchSlots(q) = {} /\ q.exc \notin ExecSlots(q) \cup WatchSlots(q)
      BY <1>1, <1>2, <1>3, <2>3 DEF Good, Exclusive
    <2>5. QED
      BY <1>2, <2>2, <2>4 DEF Good, Exclusive
  <1>5. Owned(q)
    BY <1>2 DEF Good, Owned
  <1>6. QED
    BY <1>2, <1>4, <1>5 DEF Good, q

LEMMA OwnExcGood ==
    ASSUME NEW m, Good(m), NEW i \in LowestFree(m, 1), NEW o, Good(o), SameTables(m, o)
    PROVE  Good([o EXCEPT !.exc = i])
  <1> DEFINE q == [o EXCEPT !.exc = i]
  <1>1. i \in Slots /\ i \notin ExecSlots(o) /\ i \notin WatchSlots(o)
    BY FreeFacts DEF SameTables, ExecSlots, WatchSlots
  <1>2. q \in Debugger /\ q.hw = o.hw /\ q.wps = o.wps /\ q.bps = o.bps /\ q.exc = i
    BY <1>1 DEF Good, Debugger
  <1> HIDE DEF q
  <1>3. Exclusive(q) /\ Owned(q)
    BY <1>1, <1>2 DEF Good, Exclusive, Owned, ExecSlots, WatchSlots
  <1>4. QED
    BY <1>2, <1>3 DEF Good, q

-----------------------------------------------------------------------------
(* Every action keeps the invariant.                                       *)

LEMMA AcceptInv == Inv /\ Accept => Inv'
  <1> SUFFICES ASSUME Inv, Accept PROVE Inv'
    OBVIOUS
  <1>1. PICK o \in Then(HaltHart(dbg), Access) :
            IF o.err THEN Ended(Cleanup([o EXCEPT !.err = FALSE]), TRUE) ELSE Reply(o, "prompt", {})
    BY DEF Accept
  <1>2. o \in HaltHart(dbg) \/ \E h \in HaltHart(dbg) : o \in Access(h)
    BY DEF Then, Ok, Bad
  <1>3. Good(o)
    BY <1>2, TargetGood DEF Inv
  <1>4. CASE o.err
    BY <1>1, <1>3, <1>4, ErrGood, CleanupGood, EndedInv
  <1>5. CASE ~o.err
    BY <1>1, <1>3, <1>5, ReplyInv DEF Phases, Sessions
  <1>6. QED
    BY <1>4, <1>5

LEMMA DisconnectInv == Inv /\ Disconnect => Inv'
  BY CleanupGood, EndedInv DEF Inv, Disconnect

LEMMA DetachInv == Inv /\ Detach => Inv'
  <1> SUFFICES ASSUME Inv, Detach PROVE Inv'
    OBVIOUS
  <1>1. PICK o \in Release(dbg) : Ended(Cleanup([o EXCEPT !.err = FALSE]), o.err)
    BY DEF Detach
  <1>2. Good([o EXCEPT !.err = FALSE])
    BY <1>1, ReleaseGood, ErrGood DEF Inv
  <1>3. QED
    BY <1>1, <1>2, CleanupGood, EndedInv

LEMMA KillInv == Inv /\ Kill => Inv'
  <1> SUFFICES ASSUME Inv, Kill PROVE Inv'
    OBVIOUS
  <1> DEFINE bare(d) == [d EXCEPT !.bps = [a \in Addrs |-> NoSlot]]
             go(d)   == ResumeHart(bare(d))
             D == DisableTriggers(dbg)
             E == Then(D, ClearWatches)
  <1>1. PICK o \in Then(E, go) : Ended(Cleanup([o EXCEPT !.err = FALSE]), o.err)
    BY DEF Kill
  <1>2. \A d \in D : Good(d)
    BY DisableTriggersGood DEF Inv
  <1>3. ASSUME NEW e \in E
        PROVE  Good(e)
    <2>1. e \in D \/ \E d \in D : e \in ClearWatches(d)
      <3> HIDE DEF D
      <3> QED BY <1>3 DEF Then, Ok, Bad
    <2> HIDE DEF D
    <2>2. QED
      BY <2>1, <1>2, ClearWatchesGood
  <1>4. o \in E \/ \E e \in E : o \in ResumeHart(bare(e))
    <2> HIDE DEF E, bare
    <2> QED BY <1>1 DEF Then, Ok, Bad
  <1>5. \A e \in E : Good(bare(e))
    <2> HIDE DEF E
    <2> QED BY <1>3, ForgetBps
  <1>6. Good(o)
    <2> HIDE DEF E, bare
    <2> QED BY <1>3, <1>4, <1>5, TargetGood
  <1>7. Good([o EXCEPT !.err = FALSE])
    BY <1>6, ErrGood
  <1>8. QED
    BY <1>1, <1>7, CleanupGood, EndedInv

LEMMA StoppedGood ==
    ASSUME NEW m, Good(m), NEW o \in Then(HaltHart(m), StopReply)
    PROVE  Good(o)
  <1>1. o \in HaltHart(m) \/ \E h \in HaltHart(m) : o \in StopReply(h)
    BY DEF Then, Ok, Bad
  <1>2. QED
    BY <1>1, TargetGood, StopReplyGood

LEMMA InterruptInv == Inv /\ (Interrupt \/ InterruptRunning) => Inv'
  <1> SUFFICES ASSUME Inv, Interrupt \/ InterruptRunning PROVE Inv'
    OBVIOUS
  <1>1. \A o \in Then(HaltHart(dbg), StopReply) : Good(o)
    BY StoppedGood DEF Inv
  <1>2. CASE InterruptRunning
    BY <1>1, <1>2, ReplyInv DEF InterruptRunning, Inv, Phases, Sessions
  <1>3. CASE Interrupt
    <2>1. PICK o \in Then(HaltHart(dbg), StopReply) :
            IF o.err THEN Ended(Cleanup([o EXCEPT !.err = FALSE]), TRUE) ELSE Reply(o, "prompt", told)
      BY <1>3 DEF Interrupt
    <2>2. CASE o.err
      BY <1>1, <2>1, <2>2, ErrGood, CleanupGood, EndedInv
    <2>3. CASE ~o.err
      BY <1>1, <2>1, <2>3, ReplyInv DEF Inv, Phases, Sessions
    <2>4. QED
      BY <2>2, <2>3
  <1>4. QED
    BY <1>2, <1>3

LEMMA MonitorResetInv == Inv /\ MonitorReset => Inv'
  <1> SUFFICES ASSUME Inv, MonitorReset PROVE Inv'
    OBVIOUS
  <1>1. PICK o \in Then(ResetHalt(dbg), AfterReset) : Reply(o, "prompt", told)
    BY DEF MonitorReset
  <1>2. o \in ResetHalt(dbg) \/ \E r \in ResetHalt(dbg) : o \in AfterReset(r)
    BY DEF Then, Ok, Bad
  <1>3. Good(o)
    BY <1>2, ResetHaltGood, AfterResetGood DEF Inv
  <1>4. QED
    BY <1>1, <1>3, ReplyInv DEF Inv, Phases, Sessions

LEMMA BreakpointInv ==
    ASSUME Inv, NEW a \in Addrs, InsertBreakpoint(a) \/ RemoveBreakpoint(a)
    PROVE  Inv'
  <1>1. Good(dbg) /\ told \cup {a} \in SUBSET Points /\ told \ {a} \in SUBSET Points /\ told \in SUBSET Points
        /\ "prompt" \in Sessions
    BY DEF Inv, Points, Phases, Sessions
  <1>2. CASE InsertBreakpoint(a) /\ dbg.bps[a] # NoSlot
    BY <1>1, <1>2, ReplyInv DEF InsertBreakpoint
  <1>3. CASE InsertBreakpoint(a) /\ dbg.bps[a] = NoSlot
    <2>1. PICK i \in LowestFree(dbg, 1) : \E o \in WriteSlots(dbg, [j \in {i} |-> Exec(a)]) :
                IF o.err THEN Reply(o, "prompt", told)
                ELSE Reply([o EXCEPT !.bps[a] = i], "prompt", told \cup {a})
      BY <1>3 DEF InsertBreakpoint
    <2>2. PICK o \in WriteSlots(dbg, [j \in {i} |-> Exec(a)]) :
                IF o.err THEN Reply(o, "prompt", told)
                ELSE Reply([o EXCEPT !.bps[a] = i], "prompt", told \cup {a})
      BY <2>1
    <2>3. i \in Slots
      BY <2>1, FreeFacts
    <2>4. Good(o) /\ SameTables(dbg, o)
      BY <1>1, <2>2, <2>3, ExecLegal, LegalWrite DEF Wrote
    <2>5. Good([o EXCEPT !.bps[a] = i])
      BY <1>1, <2>1, <2>4, OwnBpGood
    <2>6. QED
      BY <1>1, <2>2, <2>4, <2>5, ReplyInv
  <1>4. CASE RemoveBreakpoint(a)
    <2> DEFINE q == [dbg EXCEPT !.bps[a] = NoSlot]
    <2>1. PICK o \in WriteSlots(q, Cleared({dbg.bps[a]})) : Reply(o, "prompt", told \ {a})
      BY <1>4 DEF RemoveBreakpoint
    <2>2. dbg.bps[a] \in Slots
      BY <1>1, <1>4 DEF RemoveBreakpoint, Good, Debugger
    <2>3. /\ q \in Debugger /\ q.hw = dbg.hw /\ q.wps = dbg.wps /\ q.exc = dbg.exc
          /\ \A b \in Addrs : q.bps[b] = dbg.bps[b] \/ q.bps[b] = NoSlot
      BY <1>1 DEF Good, Debugger
    <2> HIDE DEF q
    <2>4. Good(q)
      BY <1>1, <2>3, ShrinkGood
    <2>5. Good(o)
      BY <2>1, <2>2, <2>4, ClearedLegal, LegalWrite
    <2>6. QED
      BY <1>1, <2>1, <2>5, ReplyInv
  <1>5. QED
    BY <1>2, <1>3, <1>4

LEMMA WatchpointInv ==
    ASSUME Inv, NEW w \in Watches, InsertWatchpoint(w) \/ RemoveWatchpoint(w)
    PROVE  Inv'
  <1>1. Good(dbg) /\ told \cup {w} \in SUBSET Points /\ told \ {w} \in SUBSET Points /\ told \in SUBSET Points
        /\ "prompt" \in Sessions
    BY DEF Inv, Points, Phases, Sessions
  <1>2. CASE InsertWatchpoint(w) /\ w \in Entries(dbg)
    BY <1>1, <1>2, ReplyInv, ErrGood DEF InsertWatchpoint
  <1>3. CASE InsertWatchpoint(w) /\ w \notin Entries(dbg)
    <2>1. PICK o \in InsertWatch(dbg, w) : Reply(o, "prompt", IF o.err THEN told ELSE told \cup {w})
      BY <1>3 DEF InsertWatchpoint
    <2>2. Good(o)
      BY <1>1, <1>3, <2>1, InsertWatchGood
    <2>3. QED
      BY <1>1, <2>1, <2>2, ReplyInv
  <1>4. CASE RemoveWatchpoint(w)
    BY <1>1, <1>4, RemoveWatchGood, ReplyInv DEF RemoveWatchpoint
  <1>5. QED
    BY <1>2, <1>3, <1>4

LEMMA ExceptionsInv == Inv /\ (CatchExceptions \/ ExceptionsOff) => Inv'
  <1> SUFFICES ASSUME Inv, CatchExceptions \/ ExceptionsOff PROVE Inv'
    OBVIOUS
  <1> DEFINE P == "exceptions"
  <1>1. Good(dbg) /\ told \cup {P} \in SUBSET Points /\ told \ {P} \in SUBSET Points /\ told \in SUBSET Points
        /\ "prompt" \in Sessions
    BY DEF Inv, Points, Phases, Sessions
  <1>2. CASE CatchExceptions /\ dbg.exc # NoSlot
    BY <1>1, <1>2, ReplyInv DEF CatchExceptions
  <1>3. CASE CatchExceptions /\ dbg.exc = NoSlot
    <2>1. PICK i \in LowestFree(dbg, 1) : \E o \in WriteSlots(dbg, [j \in {i} |-> Exec(ExcAddr)]) :
                IF o.err THEN Reply(o, "prompt", told)
                ELSE Reply([o EXCEPT !.exc = i], "prompt", told \cup {P})
      BY <1>3 DEF CatchExceptions
    <2>2. PICK o \in WriteSlots(dbg, [j \in {i} |-> Exec(ExcAddr)]) :
                IF o.err THEN Reply(o, "prompt", told)
                ELSE Reply([o EXCEPT !.exc = i], "prompt", told \cup {P})
      BY <2>1
    <2>3. i \in Slots
      BY <2>1, FreeFacts
    <2>4. Good(o) /\ SameTables(dbg, o)
      <3>1. Legal(dbg, [j \in {i} |-> Exec(ExcAddr)])
        BY <2>3, ExecLegal, PlacesAssumption
      <3>2. QED
        BY <1>1, <2>2, <3>1, LegalWrite DEF Wrote
    <2>5. Good([o EXCEPT !.exc = i])
      BY <1>1, <2>1, <2>4, OwnExcGood
    <2>6. QED
      BY <1>1, <2>2, <2>4, <2>5, ReplyInv
  <1>4. CASE ExceptionsOff
    <2>1. PICK o \in WriteSlots(dbg, Cleared({dbg.exc})) :
              Reply(IF o.err THEN o ELSE [o EXCEPT !.exc = NoSlot], "prompt", told \ {P})
      BY <1>4 DEF ExceptionsOff
    <2>2. dbg.exc \in Slots
      BY <1>1, <1>4 DEF ExceptionsOff, Good, Debugger
    <2>3. Good(o)
      BY <1>1, <2>1, <2>2, ClearedLegal, LegalWrite
    <2>4. Good(IF o.err THEN o ELSE [o EXCEPT !.exc = NoSlot])
      BY <2>3, ForgetExc
    <2>5. QED
      BY <1>1, <2>1, <2>4, ReplyInv
  <1>5. QED
    BY <1>2, <1>3, <1>4

LEMMA SetPcGood ==
    ASSUME NEW m, Good(m), NEW p \in Places \cup {NoPc}, NEW o \in SetPc(m, p)
    PROVE  Good(o)
  <1>1. CASE p = NoPc
    BY <1>1 DEF SetPc
  <1>2. CASE p # NoPc
    <2>1. PICK a \in Access(m) : o = IF a.err THEN a ELSE [a EXCEPT !.pc = p]
      BY <1>2 DEF SetPc
    <2>2. Good(a)
      BY TargetGood
    <2> DEFINE q == [a EXCEPT !.pc = p]
    <2>3. q \in Debugger /\ SameTables(a, q) /\ q.hw = a.hw
      BY <2>2, <1>2 DEF Good, Debugger, SameTables
    <2>4. Good(q)
      <3> HIDE DEF q
      <3> QED BY <2>2, <2>3, OtherFields
    <2>5. QED
      BY <2>1, <2>2, <2>4
  <1>3. QED
    BY <1>1, <1>2

LEMMA ContinueInv ==
    ASSUME Inv, NEW p \in Places \cup {NoPc}, Continue(p)
    PROVE  Inv'
  <1> DEFINE started(o) == \E r \in ResumeHart([o EXCEPT !.stop = NoPc]) :
                               Reply(r, IF r.err THEN "prompt" ELSE "cont", told)
             stepFirst(o) == ExecutionBreakpointAt(o, o.pc) \/ o.pc = o.stop
             D == Then(SetPc(dbg, p), Access)
  <1>1. Good(dbg) /\ told \in SUBSET Points /\ {"prompt", "cont"} \subseteq Sessions
    BY DEF Inv, Phases, Sessions
  <1>2. ASSUME NEW o, Good(o), started(o)
        PROVE  Inv'
    <2>1. PICK r \in ResumeHart([o EXCEPT !.stop = NoPc]) : Reply(r, IF r.err THEN "prompt" ELSE "cont", told)
      BY <1>2
    <2>2. Good(r)
      BY <1>2, StopGood, TargetGood
    <2>3. QED
      BY <1>1, <2>1, <2>2, ReplyInv
  <1>3. CASE ~MayRun(dbg)
    BY <1>1, <1>3, ErrGood, ReplyInv DEF Continue, Refuse
  <1>4. CASE MayRun(dbg)
    <2>1. \E o \in D :
                IF o.err THEN Reply(o, "prompt", told)
                ELSE IF ~stepFirst(o) THEN started(o)
                ELSE \E s \in StepOver(o) :
                    IF s.err THEN Reply(s, "prompt", told)
                    ELSE IF s.cause = "step" THEN started(s)
                    ELSE \E r \in StopReply(s) : Reply(r, "prompt", told)
      BY <1>4 DEF Continue
    <2>2. ASSUME NEW o \in D PROVE Good(o)
      <3>1. o \in SetPc(dbg, p) \/ \E q \in SetPc(dbg, p) : o \in Access(q)
        BY DEF Then, Ok, Bad
      <3>2. QED
        BY <1>1, <3>1, SetPcGood, TargetGood
    <2> HIDE DEF D, started, stepFirst
    <2>3. PICK o \in D :
                IF o.err THEN Reply(o, "prompt", told)
                ELSE IF ~stepFirst(o) THEN started(o)
                ELSE \E s \in StepOver(o) :
                    IF s.err THEN Reply(s, "prompt", told)
                    ELSE IF s.cause = "step" THEN started(s)
                    ELSE \E r \in StopReply(s) : Reply(r, "prompt", told)
      BY <2>1
    <2>4. Good(o)
      BY <2>2
    <2>5. CASE o.err
      BY <1>1, <2>3, <2>4, <2>5, ReplyInv
    <2>6. CASE ~o.err /\ ~stepFirst(o)
      BY <1>2, <2>3, <2>4, <2>6
    <2>7. CASE ~o.err /\ stepFirst(o)
      <3>1. PICK s \in StepOver(o) :
                    IF s.err THEN Reply(s, "prompt", told)
                    ELSE IF s.cause = "step" THEN started(s)
                    ELSE \E r \in StopReply(s) : Reply(r, "prompt", told)
        BY <2>3, <2>7
      <3>2. Good(s)
        BY <2>4, <3>1, StepOverGood
      <3>3. \A r \in StopReply(s) : Good(r)
        BY <3>2, StopReplyGood
      <3>4. QED
        BY <1>1, <1>2, <3>1, <3>2, <3>3, ReplyInv
    <2>8. QED
      BY <2>5, <2>6, <2>7
  <1>5. QED
    BY <1>3, <1>4

LEMMA StepInv ==
    ASSUME Inv, NEW p \in Places \cup {NoPc}, Step(p)
    PROVE  Inv'
  <1>1. Good(dbg) /\ told \in SUBSET Points /\ "prompt" \in Sessions
    BY DEF Inv, Phases, Sessions
  <1>2. CASE ~MayRun(dbg)
    BY <1>1, <1>2, ErrGood, ReplyInv DEF Step, Refuse
  <1>3. CASE MayRun(dbg)
    <2>1. PICK o \in Then(Then(SetPc(dbg, p), StepOver), StopReply) : Reply(o, "prompt", told)
      BY <1>3 DEF Step
    <2>2. \/ o \in SetPc(dbg, p)
          \/ \E q \in SetPc(dbg, p) : o \in StepOver(q)
          \/ \E q \in SetPc(dbg, p) : \E s \in StepOver(q) : o \in StopReply(s)
      BY DEF Then, Ok, Bad
    <2>3. Good(o)
      BY <1>1, <2>2, SetPcGood, StepOverGood, StopReplyGood
    <2>4. QED
      BY <1>1, <2>1, <2>3, ReplyInv
  <1>4. QED
    BY <1>2, <1>3

LEMMA LoopInv == Inv /\ (PollLost \/ Reattach \/ PollStop \/ PollGuard) => Inv'
  <1> SUFFICES ASSUME Inv, PollLost \/ Reattach \/ PollStop \/ PollGuard PROVE Inv'
    OBVIOUS
  <1>1. Good(dbg) /\ told \in SUBSET Points /\ {"prompt", "cont", "lost"} \subseteq Sessions
    BY DEF Inv, Phases, Sessions
  <1>2. CASE PollLost
    <2>1. PICK o \in IF Reach(dbg) THEN Fault(dbg) ELSE {dbg} :
            Reply([o EXCEPT !.err = FALSE], "lost", told)
      BY <1>2 DEF PollLost
    <2>2. Good([o EXCEPT !.err = FALSE])
      BY <1>1, <2>1, FaultGood, ErrGood
    <2>3. QED
      BY <1>1, <2>1, <2>2, ReplyInv
  <1>3. CASE Reattach
    <2> DEFINE back == [dbg EXCEPT !.link = "up"]
               look == {back} \cup Fault(back)
    <2>1. PICK o \in IF dbg.reset THEN Then(Then(look, AfterReset), ResumeHart) ELSE look :
            Reply(o, IF o.err THEN "prompt" ELSE "cont", told)
      BY <1>3 DEF Reattach
    <2>2. back \in Debugger /\ SameTables(dbg, back) /\ back.hw = dbg.hw
      BY <1>1 DEF Good, Debugger, SameTables
    <2> HIDE DEF back
    <2>3. Good(back)
      BY <1>1, <2>2, OtherFields
    <2>4. \A l \in look : Good(l)
      BY <2>3, FaultGood
    <2>5. \E l \in look : o = l \/ o \in AfterReset(l) \/ \E a \in AfterReset(l) : o \in ResumeHart(a)
      <3> HIDE DEF look
      <3> QED BY <2>1 DEF Then, Ok, Bad
    <2>6. Good(o)
      <3> HIDE DEF look
      <3> QED BY <2>4, <2>5, AfterResetGood, TargetGood
    <2>7. QED
      BY <1>1, <2>1, <2>6, ReplyInv
  <1>4. CASE PollStop
    BY <1>1, <1>4, StopReplyGood, ReplyInv DEF PollStop
  <1>5. CASE PollGuard
    <2>1. PICK s \in StepOver(dbg) :
            IF s.err THEN Reply(s, "prompt", told)
            ELSE IF s.cause = "step"
            THEN \E o \in ResumeHart(s) : Reply(o, IF o.err THEN "prompt" ELSE "cont", told)
            ELSE \E o \in StopReply(s) : Reply(o, "prompt", told)
      BY <1>5 DEF PollGuard
    <2>2. Good(s)
      BY <1>1, StepOverGood
    <2>3. (\A o \in ResumeHart(s) : Good(o)) /\ (\A o \in StopReply(s) : Good(o))
      BY <2>2, TargetGood, StopReplyGood
    <2>4. QED
      BY <1>1, <2>1, <2>2, <2>3, ReplyInv
  <1>6. QED
    BY <1>2, <1>3, <1>4, <1>5

LEMMA TargetInv ==
    ASSUME Inv, NEW o \in Debugger, SameTables(dbg, o), o.blocked = dbg.blocked, ~o.err, Owned(o),
           Target(o)
    PROVE  Inv'
  <1>1. Exclusive(o)
    BY DEF Inv, Good, SameTables, Exclusive, ExecSlots, WatchSlots
  <1>2. phase = "closed" => Empty(o)
    BY DEF Inv, SameTables, Empty, AllTriggers, ExecSlots, WatchSlots, ExcSlots
  <1>3. Good(o)
    BY <1>1 DEF Good
  <1>4. /\ dbg' = o /\ phase' = phase
        /\ told' = told /\ inherited' = inherited /\ seen' = seen /\ alarm' = alarm
    BY DEF Target, ghosts
  <1>5. Good(dbg)' /\ (phase = "closed" => Empty(dbg))'
    BY <1>2, <1>3, <1>4 DEF Good, Exclusive, Owned, ExecSlots, WatchSlots, Empty, AllTriggers, ExcSlots
  <1>6. phase' \notin Sessions => inherited' = Listed(dbg')
    BY <1>4 DEF Inv, SameTables, Listed, Entries
  <1>7. QED
    BY <1>4, <1>5, <1>6 DEF Inv, Listed, Entries

LEMMA EnvironmentInv == Inv /\ Environment => Inv'
  <1> SUFFICES ASSUME Inv, Environment PROVE Inv'
    OBVIOUS
  <1>1. dbg \in Debugger /\ Owned(dbg) /\ ~dbg.err
    BY DEF Inv, Good
  <1>2. ASSUME NEW i \in Slots, TriggerFires(i)
        PROVE  Inv'
    <2>1. PICK p \in Places : Target([dbg EXCEPT !.hart = "halted", !.pc = p, !.cause = "trigger"])
      BY <1>2 DEF TriggerFires
    <2> DEFINE o == [dbg EXCEPT !.hart = "halted", !.pc = p, !.cause = "trigger"]
    <2>2. o \in Debugger /\ SameTables(dbg, o) /\ o.blocked = dbg.blocked /\ o.hw = dbg.hw /\ ~o.err
      BY <1>1 DEF Debugger, SameTables
    <2>3. Target(o)
      BY <2>1
    <2> HIDE DEF o
    <2>4. Owned(o)
      BY <1>1, <2>2 DEF Owned, SameTables
    <2>5. QED
      BY <1>1, <1>2, <2>2, <2>3, <2>4, TargetInv DEF TriggerFires
  <1>3. CASE ChipReset
    <2> DEFINE o == [dbg EXCEPT !.hw = [i \in Slots |-> Off], !.reset = TRUE, !.link = "down",
                                !.hart = "running", !.pc = Elsewhere, !.cause = "other"]
    <2>1. [i \in Slots |-> Off] \in [Slots -> Config]
      BY ConfigFacts
    <2>2. /\ o \in Debugger /\ SameTables(dbg, o) /\ o.blocked = dbg.blocked
          /\ o.hw = [i \in Slots |-> Off] /\ ~o.err
      BY <1>1, <2>1 DEF Debugger, SameTables, Places
    <2>3. Target(o)
      BY <1>3 DEF ChipReset
    <2> HIDE DEF o
    <2>4. Owned(o)
      BY <2>2, ConfigFacts DEF Owned
    <2>5. QED
      BY <2>2, <2>3, <2>4, TargetInv
  <1>4. ASSUME NEW l \in {"down", "stale"}, Target([dbg EXCEPT !.link = l])
        PROVE  Inv'
    <2> DEFINE o == [dbg EXCEPT !.link = l]
    <2>1. o \in Debugger /\ SameTables(dbg, o) /\ o.blocked = dbg.blocked /\ o.hw = dbg.hw /\ ~o.err
      BY <1>1 DEF Debugger, SameTables
    <2>2. Target(o)
      BY <1>4
    <2> HIDE DEF o
    <2>3. Owned(o)
      BY <1>1, <2>1 DEF Owned, SameTables
    <2>4. QED
      BY <1>1, <1>4, <2>1, <2>2, <2>3, TargetInv
  <1>5. QED
    BY <1>2, <1>3, <1>4 DEF Environment, PinsAway, PinsBack

LEMMA NextInv == Inv /\ [Next]_vars => Inv'
  <1> SUFFICES ASSUME Inv, [Next]_vars PROVE Inv'
    OBVIOUS
  <1>1. CASE Serve
    <2>1. CASE Accept
      BY <2>1, AcceptInv
    <2>2. CASE Disconnect
      BY <2>2, DisconnectInv
    <2>3. CASE Detach
      BY <2>3, DetachInv
    <2>4. CASE Kill
      BY <2>4, KillInv
    <2>5. CASE Interrupt
      BY <2>5, InterruptInv
    <2>6. CASE MonitorReset
      BY <2>6, MonitorResetInv
    <2>7. CASE CatchExceptions \/ ExceptionsOff
      BY <2>7, ExceptionsInv
    <2>8. ASSUME NEW a \in Addrs, InsertBreakpoint(a) \/ RemoveBreakpoint(a) PROVE Inv'
      BY <2>8, BreakpointInv
    <2>9. ASSUME NEW w \in Watches, InsertWatchpoint(w) \/ RemoveWatchpoint(w) PROVE Inv'
      BY <2>9, WatchpointInv
    <2>10. ASSUME NEW p \in Places \cup {NoPc}, Continue(p) \/ Step(p) PROVE Inv'
      BY <2>10, ContinueInv, StepInv
    <2>11. QED
      BY <1>1, <2>1, <2>2, <2>3, <2>4, <2>5, <2>6, <2>7, <2>8, <2>9, <2>10 DEF Serve
  <1>2. CASE Loop
    BY <1>2, LoopInv, InterruptInv DEF Loop
  <1>3. CASE Environment
    BY <1>3, EnvironmentInv
  <1>4. CASE UNCHANGED vars
    BY <1>4 DEF vars, ghosts, Inv, Listed, Entries, Good, Exclusive, Owned, ExecSlots, WatchSlots, Empty, AllTriggers, ExcSlots
  <1>5. QED
    BY <1>1, <1>2, <1>3, <1>4 DEF Next

-----------------------------------------------------------------------------
(* Theorems                                                                *)

\* Inv holds in every reachable state of the server.
THEOREM Invariance == Spec => []Inv
  BY InvInit, NextInv, PTL DEF Spec

\* Every field of the debugger and of the session stays in its range, and no
\* error is left in flight between two handlers.
THEOREM TypeCorrect == Spec => []TypeOK
  <1>1. Inv => TypeOK
    BY DEF Inv, Good, TypeOK
  <1>2. QED
    BY <1>1, Invariance, PTL

\* free_trigger and Watchpoints.insert never give a slot to two of the three
\* tables, nor to two entries of one, whatever failed before.
THEOREM SlotOwnership == Spec => []SlotsExclusive
  <1>1. Inv => SlotsExclusive
    BY DEF Inv, Good, SlotsExclusive
  <1>2. QED
    BY <1>1, Invariance, PTL

\* A slot that may hold a block of a watchpoint belongs to that watchpoint, so
\* Watchpoints.remove, disable and the cleanup can still reach it.
THEOREM WatchOwnership == Spec => []NoOrphanWatch
  <1>1. Inv => NoOrphanWatch
    BY DEF Inv, Good, NoOrphanWatch
  <1>2. QED
    BY <1>1, Invariance, PTL

\* A session whose cleanup succeeded leaves empty tables and no data trigger.
THEOREM CleanTables == Spec => []ClosedTables
  <1>1. ASSUME Inv PROVE ClosedTables
    <2>1. SUFFICES ASSUME phase = "closed"
                   PROVE  /\ AllTriggers(dbg) = {} /\ dbg.blocked = {}
                          /\ \A i \in Slots : \A w \in Watches : dbg.hw[i] # Data(w)
      BY DEF ClosedTables
    <2>2. Empty(dbg) /\ Owned(dbg)
      BY <1>1, <2>1 DEF Inv, Good
    <2>3. QED
      BY <2>2 DEF Empty, Owned, AllTriggers, WatchSlots
  <1>2. QED
    BY <1>1, Invariance, PTL
-----------------------------------------------------------------------------
(* Nothing is lost in silence.  As long as nothing has failed, the slots    *)
(* hold what the tables say and nothing else; or the target was reset, the  *)
(* slots are empty, and nothing reaches the target before Reattach has      *)
(* looked at havereset.  A session that takes over what failed before it    *)
(* knows less: the entries it inherited, and the slots that no table owns,  *)
(* hold anything.  So the statements have two parameters: xs, the entries   *)
(* that are excepted, and strict, whether what no table owns is off.        *)

Blank(m) == \A i \in Slots : m.hw[i] = Off

\* What no table owns is off.
Rest(m) == \A i \in Slots \ AllTriggers(m) : m.hw[i] = Off

InStep(m, xs, strict) ==
    /\ \A a \in Addrs \ xs : m.bps[a] # NoSlot => m.hw[m.bps[a]] = Exec(a)
    /\ \A w \in Watches \ xs : \A i \in m.wps[w] : m.hw[i] = Data(w)
    /\ "exceptions" \notin xs /\ m.exc # NoSlot => m.hw[m.exc] = Exec(ExcAddr)
    /\ strict => Rest(m)

Fine(m, xs, strict) ==
    IF m.reset THEN m.link # "up" /\ Blank(m) ELSE InStep(m, xs, strict)

\* What GDB was told is set has an entry in a table.
Tracked(m, t) ==
    /\ \A a \in Addrs \cap t : m.bps[a] # NoSlot
    /\ t \cap Watches \subseteq Entries(m)
    /\ "exceptions" \in t => m.exc # NoSlot

LossInv ==
    /\ ~alarm => /\ Fine(dbg, {}, TRUE) /\ Tracked(dbg, told)
                 /\ phase = "closed" => dbg.hart = "running"
    /\ ~seen /\ phase \in Sessions => Fine(dbg, inherited, FALSE) /\ Tracked(dbg, told)

\* Nothing changes but the hart, its registers, and the number of faults.
Still(m, o) ==
    /\ o \in Debugger /\ SameTables(m, o)
    /\ o.hw = m.hw /\ o.reset = m.reset /\ o.link = m.link

LEMMA StillFine ==
    ASSUME NEW m, NEW o, Still(m, o)
    PROVE  /\ \A xs, strict : Fine(m, xs, strict) => Fine(o, xs, strict)
           /\ Rest(m) => Rest(o)
           /\ Blank(m) => Blank(o)
           /\ \A t : Tracked(m, t) => Tracked(o, t)
  <1>1. AllTriggers(o) = AllTriggers(m) /\ Entries(o) = Entries(m)
    BY DEF Still, SameTables, AllTriggers, ExecSlots, WatchSlots, ExcSlots, Entries
  <1>2. Rest(m) => Rest(o)
    BY <1>1 DEF Still, Rest
  <1>3. ASSUME NEW xs, NEW strict, InStep(m, xs, strict) PROVE InStep(o, xs, strict)
    BY <1>2, <1>3 DEF Still, SameTables, InStep
  <1>4. Blank(m) => Blank(o)
    BY DEF Still, Blank
  <1>5. ASSUME NEW xs, NEW strict, Fine(m, xs, strict) PROVE Fine(o, xs, strict)
    BY <1>3, <1>4, <1>5 DEF Still, Fine
  <1>6. \A t : Tracked(m, t) => Tracked(o, t)
    BY <1>1 DEF Still, SameTables, Tracked
  <1>7. QED
    BY <1>2, <1>4, <1>5, <1>6

LEMMA StillTrans ==
    ASSUME NEW m, NEW o, NEW q, Still(m, o), Still(o, q)
    PROVE  Still(m, q)
  BY DEF Still, SameTables

LEMMA StillErr ==
    ASSUME NEW m \in Debugger, NEW b \in BOOLEAN
    PROVE  Still(m, [m EXCEPT !.err = b]) /\ [m EXCEPT !.err = b].hart = m.hart
  BY DEF Debugger, Still, SameTables

\* While a reset is pending nothing reaches the target.
LEMMA FineReach ==
    ASSUME NEW m, NEW xs, NEW strict, Fine(m, xs, strict), Reach(m)
    PROVE  ~m.reset /\ InStep(m, xs, strict)
  BY DEF Fine, Reach

LEMMA FineRest ==
    ASSUME NEW m, NEW xs, NEW strict, Fine(m, xs, strict), strict
    PROVE  Rest(m)
  BY DEF Fine, InStep, Blank, Rest

\* An exception for what has no entry excepts nothing.
LEMMA FineListed ==
    ASSUME NEW m, NEW xs, NEW strict, Fine(m, xs, strict)
    PROVE  Fine(m, xs \cap Listed(m), strict)
  <1>1. CASE m.reset
    BY <1>1 DEF Fine
  <1>2. CASE ~m.reset
    <2>1. InStep(m, xs, strict)
      BY <1>2 DEF Fine
    <2>2. InStep(m, xs \cap Listed(m), strict)
      BY <2>1 DEF InStep, Listed, Entries
    <2>3. QED
      BY <1>2, <2>2 DEF Fine
  <1>3. QED
    BY <1>1, <1>2

-----------------------------------------------------------------------------
(* What an access does that does not fail.                                 *)

LEMMA AccessOk ==
    ASSUME NEW m \in Debugger, NEW o \in Access(m), ~o.err
    PROVE  o = m /\ CanDebug(m) /\ Still(m, o)
  <1>1. o \notin Fails(m)
    BY FailsKeeps
  <1>2. o = m /\ CanDebug(m)
    BY <1>1 DEF Access
  <1>3. QED
    BY <1>2 DEF Still, SameTables

LEMMA ResumeOk ==
    ASSUME NEW m \in Debugger, NEW o \in ResumeHart(m), ~o.err
    PROVE  Still(m, o) /\ Reach(m) /\ o.hart = "running"
  <1> DEFINE run == [m EXCEPT !.hart = "running", !.pc = Elsewhere, !.cause = "other"]
  <1>1. run \in Debugger /\ Still(m, run) /\ run.hart = "running"
    BY DEF Debugger, Still, SameTables, Places
  <1>2. o \notin Fails(m) /\ o \notin Fault(run)
    <2> HIDE DEF run
    <2> QED BY <1>1, FailsKeeps, FaultKeeps
  <1>3. o = run /\ CanDebug(m)
    BY <1>2 DEF ResumeHart
  <1>4. QED
    BY <1>1, <1>3 DEF CanDebug

LEMMA StepOk ==
    ASSUME NEW m \in Debugger, NEW o \in StepHart(m), ~o.err
    PROVE  Still(m, o) /\ Reach(m)
  <1> DEFINE run == [m EXCEPT !.hart = "running", !.pc = Elsewhere, !.cause = "other"]
             there == {[m EXCEPT !.pc = x[1], !.cause = x[2]] : x \in Places \X {"step", "other"}}
  <1>1. run \in Debugger
    BY DEF Debugger, Places
  <1>2. ASSUME NEW t \in there PROVE Still(m, t)
    <2>1. PICK x \in Places \X {"step", "other"} : t = [m EXCEPT !.pc = x[1], !.cause = x[2]]
      OBVIOUS
    <2>2. x[1] \in Places /\ x[2] \in {"trigger", "haltreq", "step", "other"}
      OBVIOUS
    <2>3. QED
      BY <2>1, <2>2 DEF Debugger, Still, SameTables
  <1>3. \/ CanDebug(m) /\ (o \in there \/ o \in Fault(run) \/ \E t \in there : o \in Fault(t))
        \/ o \in Fails(m)
    BY DEF StepHart
  <1>4. QED
    <2> HIDE DEF run, there
    <2> QED BY <1>1, <1>2, <1>3, FailsKeeps, FaultKeeps DEF Still, CanDebug

LEMMA HaltOk ==
    ASSUME NEW m \in Debugger, NEW o \in HaltHart(m), ~o.err
    PROVE  /\ o \in Debugger /\ SameTables(m, o) /\ o.hw = m.hw /\ o.link = m.link
           /\ Reach(m) /\ ~o.reset /\ o.hart = "halted"
  <1> DEFINE asked == [m EXCEPT !.reset = FALSE]
             there == IF m.hart = "halted" THEN {asked}
                      ELSE {[asked EXCEPT !.hart = "halted", !.pc = p, !.cause = "haltreq"] : p \in Places}
             Right(t) == /\ t \in Debugger /\ SameTables(m, t) /\ t.hw = m.hw /\ t.link = m.link
                         /\ ~t.reset /\ t.hart = "halted"
  <1>1. asked \in Debugger /\ [m EXCEPT !.err = TRUE].err
    BY DEF Debugger
  <1>2. ASSUME NEW t \in there PROVE Right(t)
    <2>1. CASE m.hart = "halted"
      BY <2>1 DEF Debugger, SameTables
    <2>2. CASE m.hart # "halted"
      <3>1. PICK p \in Places :
                t = [m EXCEPT !.reset = FALSE, !.hart = "halted", !.pc = p, !.cause = "haltreq"]
        BY <2>2 DEF Debugger
      <3>2. QED
        BY <3>1 DEF Debugger, SameTables
    <2>3. QED
      BY <2>1, <2>2
  <1>3. \/ Reach(m) /\ (o \in there \/ \E t \in there \cup {m, asked} : o \in Fault(t))
        \/ o = [m EXCEPT !.err = TRUE]
    BY DEF HaltHart
  <1>4. QED
    <2> HIDE DEF asked, there
    <2> QED BY <1>1, <1>2, <1>3, FaultKeeps

\* Halting finds nothing pending, and the slots in step.
LEMMA HaltFine ==
    ASSUME NEW m \in Debugger, NEW xs, NEW strict, Fine(m, xs, strict),
           NEW o \in HaltHart(m), ~o.err
    PROVE  o \in Debugger /\ Still(m, o) /\ Fine(o, xs, strict) /\ Reach(o)
  <1>1. /\ o \in Debugger /\ SameTables(m, o) /\ o.hw = m.hw /\ o.link = m.link
        /\ Reach(m) /\ ~o.reset
    BY HaltOk
  <1>2. ~m.reset
    BY <1>1, FineReach
  <1>3. o.reset = m.reset
    BY <1>1, <1>2 DEF Debugger
  <1>4. Still(m, o)
    BY <1>1, <1>3 DEF Still
  <1>5. QED
    BY <1>1, <1>4, StillFine DEF Reach

-----------------------------------------------------------------------------
(* Slots that are written without a failure.                               *)

Sets(m, want, o) ==
    /\ o \in Debugger /\ SameTables(m, o) /\ o.reset = m.reset /\ o.link = m.link
    /\ \A i \in Slots : o.hw[i] = IF i \in DOMAIN want THEN want[i] ELSE m.hw[i]

LEMMA WriteOk ==
    ASSUME NEW m \in Debugger, NEW want,
           \A i \in DOMAIN want : i \in Slots /\ want[i] \in Config,
           NEW o \in WriteSlots(m, want), ~o.err
    PROVE  Sets(m, want, o) /\ (DOMAIN want = {} \/ CanDebug(m)) /\ o.hart = m.hart
  <1> DEFINE all == [m EXCEPT !.hw = Overwrite(m.hw, want)]
             mix(done, i, c) == [j \in done \cup {i} |-> IF j = i THEN c ELSE want[j]]
             part(done, i, c) == [m EXCEPT !.hw = Overwrite(m.hw, mix(done, i, c))]
  <1>1. CASE DOMAIN want = {}
    BY <1>1 DEF WriteSlots, Sets, SameTables
  <1>2. CASE DOMAIN want # {} /\ ~CanDebug(m)
    BY <1>2, FailsKeeps DEF WriteSlots
  <1>3. CASE DOMAIN want # {} /\ CanDebug(m) /\ o = all
    <2>1. Overwrite(m.hw, want) \in [Slots -> Config]
      BY OverwriteSlots DEF Debugger
    <2>2. o \in Debugger /\ o.hw = Overwrite(m.hw, want) /\ o.reset = m.reset /\ o.link = m.link
          /\ o.hart = m.hart
      BY <1>3, <2>1 DEF Debugger
    <2>3. SameTables(m, o)
      BY <1>3 DEF SameTables, Debugger
    <2>4. \A i \in Slots : o.hw[i] = IF i \in DOMAIN want THEN want[i] ELSE m.hw[i]
      BY <2>2 DEF Overwrite
    <2>5. QED
      BY <1>3, <2>2, <2>3, <2>4 DEF Sets
  <1>4. CASE DOMAIN want # {} /\ CanDebug(m) /\ o # all
    <2>1. PICK i \in DOMAIN want :
                o \in UNION {UNION {Fault(part(done, i, c)) : c \in {m.hw[i], Off, want[i]}}
                                : done \in SUBSET (DOMAIN want \ {i})}
      BY <1>4 DEF WriteSlots
    <2>2. PICK done \in SUBSET (DOMAIN want \ {i}) :
                o \in UNION {Fault(part(done, i, c)) : c \in {m.hw[i], Off, want[i]}}
      <3> HIDE DEF part
      <3> QED BY <2>1
    <2>3. PICK c \in {m.hw[i], Off, want[i]} : o \in Fault(part(done, i, c))
      <3> HIDE DEF part
      <3> QED BY <2>2
    <2>4. i \in Slots /\ c \in Config /\ done \in SUBSET Slots
      BY ConfigFacts DEF Debugger
    <2>5. \A j \in DOMAIN mix(done, i, c) \cap Slots : mix(done, i, c)[j] \in Config
      BY <2>4
    <2>6. Overwrite(m.hw, mix(done, i, c)) \in [Slots -> Config]
      <3> HIDE DEF mix
      <3> QED BY <2>5, OverwriteSlots DEF Debugger
    <2>7. part(done, i, c) \in Debugger
      <3> HIDE DEF mix
      <3> QED BY <2>6 DEF Debugger
    <2>8. QED
      <3> HIDE DEF part
      <3> QED BY <2>3, <2>7, FaultKeeps
  <1>5. QED
    BY <1>1, <1>2, <1>3, <1>4

\* No slot is in two entries.
LEMMA Apart ==
    ASSUME NEW m, Good(m)
    PROVE  /\ NoSlot \notin Slots
           /\ \A a \in Addrs : m.bps[a] # NoSlot =>
                 /\ m.bps[a] \in Slots /\ m.bps[a] \in ExecSlots(m) /\ m.bps[a] \notin WatchSlots(m)
                 /\ m.bps[a] # m.exc
           /\ \A w \in Watches : m.wps[w] \subseteq Slots /\ m.wps[w] \subseteq WatchSlots(m)
           /\ m.exc # NoSlot => m.exc \in Slots /\ m.exc \in ExcSlots(m) /\ m.exc \notin WatchSlots(m)
           /\ \A a, b \in Addrs : a # b /\ m.bps[a] = m.bps[b] => m.bps[a] = NoSlot
           /\ \A v, w \in Watches : v # w => m.wps[v] \cap m.wps[w] = {}
  <1>1. NoSlot \notin Slots
    BY SlotsAssumption DEF Slots, NoSlot
  <1>2. QED
    BY <1>1 DEF Good, Exclusive, Debugger, ExecSlots, WatchSlots, ExcSlots

\* Clearing the slots of an entry and dropping the entry.
LEMMA DropFine ==
    ASSUME NEW m, Good(m), NEW o \in Debugger, NEW S \in SUBSET Slots,
           NEW xs, NEW strict, Fine(m, xs, strict),
           o.reset = m.reset, o.link = m.link,
           \A i \in Slots : o.hw[i] = IF i \in S THEN Off ELSE m.hw[i],
           \A a \in Addrs : o.bps[a] = IF m.bps[a] \in S THEN NoSlot ELSE m.bps[a],
           \A w \in Watches : o.wps[w] = IF m.wps[w] \cap S = {} THEN m.wps[w] ELSE {},
           \A w \in Watches : m.wps[w] \cap S = {} \/ m.wps[w] \subseteq S,
           o.exc = IF m.exc \in S THEN NoSlot ELSE m.exc
    PROVE  Fine(o, xs, strict)
  <1>1. CASE m.reset
    BY <1>1 DEF Fine, Blank
  <1>2. CASE ~m.reset
    <2>1. InStep(m, xs, strict)
      BY <1>2 DEF Fine
    <2>2. \A a \in Addrs \ xs : o.bps[a] # NoSlot => o.hw[o.bps[a]] = Exec(a)
      BY <2>1, Apart DEF InStep
    <2>3. \A w \in Watches \ xs : \A i \in o.wps[w] : o.hw[i] = Data(w)
      BY <2>1, Apart DEF InStep
    <2>4. "exceptions" \notin xs /\ o.exc # NoSlot => o.hw[o.exc] = Exec(ExcAddr)
      BY <2>1, Apart DEF InStep
    <2>5. strict => Rest(o)
      <3>1. SUFFICES ASSUME strict, NEW i \in Slots \ AllTriggers(o), i \notin S PROVE i \notin AllTriggers(m)
        BY <2>1 DEF Rest, InStep
      <3>2. i \in ExecSlots(m) => i \in ExecSlots(o)
        BY <3>1 DEF ExecSlots
      <3>3. i \in WatchSlots(m) => i \in WatchSlots(o)
        BY <3>1 DEF WatchSlots
      <3>4. i \in ExcSlots(m) => i \in ExcSlots(o)
        BY <3>1 DEF ExcSlots
      <3>5. QED
        BY <3>1, <3>2, <3>3, <3>4 DEF AllTriggers
    <2>6. QED
      BY <1>2, <2>2, <2>3, <2>4, <2>5 DEF Fine, InStep
  <1>3. QED
    BY <1>1, <1>2

\* An entry with its slots written, in slots that nobody had.
LEMMA AddFine ==
    ASSUME NEW m, Good(m), NEW o \in Debugger, NEW S \in SUBSET (Slots \ AllTriggers(m)),
           NEW xs, NEW strict, Fine(m, xs, strict), ~m.reset, ~o.reset,
           \A i \in Slots \ S : o.hw[i] = m.hw[i],
           \A a \in Addrs : o.bps[a] = m.bps[a] \/ (o.bps[a] \in S /\ o.hw[o.bps[a]] = Exec(a)),
           \A w \in Watches : o.wps[w] = m.wps[w] \/ (o.wps[w] = S /\ \A i \in S : o.hw[i] = Data(w)),
           \A a \in Addrs : o.bps[a] = m.bps[a] \/ m.bps[a] = NoSlot,
           \A w \in Watches : o.wps[w] = m.wps[w] \/ m.wps[w] = {},
           o.exc = m.exc \/ (m.exc = NoSlot /\ o.exc \in S /\ o.hw[o.exc] = Exec(ExcAddr)),
           S \subseteq AllTriggers(o)
    PROVE  Fine(o, xs, strict)
  <1>1. InStep(m, xs, strict)
    BY DEF Fine
  <1>2. \A i \in S : i \notin ExecSlots(m) /\ i \notin WatchSlots(m) /\ i \notin ExcSlots(m)
    BY DEF AllTriggers
  <1>3. \A a \in Addrs \ xs : o.bps[a] # NoSlot => o.hw[o.bps[a]] = Exec(a)
    BY <1>1, <1>2, Apart DEF InStep
  <1>4. \A w \in Watches \ xs : \A i \in o.wps[w] : o.hw[i] = Data(w)
    BY <1>1, <1>2, Apart DEF InStep
  <1>5. "exceptions" \notin xs /\ o.exc # NoSlot => o.hw[o.exc] = Exec(ExcAddr)
    BY <1>1, <1>2, Apart DEF InStep
  <1>6. strict => Rest(o)
    <2>1. SUFFICES ASSUME strict, NEW i \in Slots \ AllTriggers(o) PROVE i \notin AllTriggers(m)
      BY <1>1 DEF Rest, InStep
    <2>2. i \in ExecSlots(m) => i \in ExecSlots(o)
      BY DEF ExecSlots
    <2>3. i \in WatchSlots(m) => i \in WatchSlots(o)
      BY DEF WatchSlots
    <2>4. i \in ExcSlots(m) => i \in ExcSlots(o)
      BY DEF ExcSlots
    <2>5. QED
      BY <2>1, <2>2, <2>3, <2>4 DEF AllTriggers
  <1>7. QED
    BY <1>3, <1>4, <1>5, <1>6 DEF Fine, InStep

LEMMA RemoveWatchOk ==
    ASSUME NEW m, Good(m), NEW w \in Watches, NEW o \in RemoveWatch(m, w), ~o.err
    PROVE  /\ o \in Debugger /\ o.bps = m.bps /\ o.exc = m.exc /\ o.reset = m.reset /\ o.link = m.link
           /\ \A v \in Watches : o.wps[v] = IF v = w THEN {} ELSE m.wps[v]
           /\ \A i \in Slots : o.hw[i] = IF i \in m.wps[w] THEN Off ELSE m.hw[i]
  <1> DEFINE D == WriteSlots(m, Cleared(m.wps[w]))
  <1>0. m \in Debugger /\ m.wps[w] \subseteq Slots
    BY TableFacts DEF Good
  <1>1. \A d \in D : d \in Debugger /\ (~d.err => Sets(m, Cleared(m.wps[w]), d))
    <2>1. \A i \in DOMAIN Cleared(m.wps[w]) : i \in Slots /\ Cleared(m.wps[w])[i] \in Config
      BY <1>0, ClearedLegal DEF Legal
    <2>2. QED
      BY <1>0, <2>1, WriteSlotsWrites, WriteOk DEF Wrote
  <1>2. CASE \E d \in Bad(D) : o = [d EXCEPT !.blocked = @ \cup {w}]
    <2>1. PICK d \in Bad(D) : o = [d EXCEPT !.blocked = @ \cup {w}]
      BY <1>2
    <2>2. d \in Debugger /\ d.err
      <3> HIDE DEF D
      <3> QED BY <1>1 DEF Bad
    <2>3. o.err
      BY <2>1, <2>2 DEF Debugger
    <2>4. QED
      BY <2>3
  <1>3. CASE \E d \in Ok(D) : o = [d EXCEPT !.wps[w] = {}, !.blocked = @ \ {w}]
    <2>1. PICK d \in Ok(D) : o = [d EXCEPT !.wps[w] = {}, !.blocked = @ \ {w}]
      BY <1>3
    <2>2. d \in Debugger /\ Sets(m, Cleared(m.wps[w]), d)
      <3> HIDE DEF D
      <3> QED BY <1>1 DEF Ok
    <2>3. /\ o \in Debugger /\ o.hw = d.hw /\ o.bps = d.bps /\ o.exc = d.exc
          /\ o.reset = d.reset /\ o.link = d.link /\ o.wps = [d.wps EXCEPT ![w] = {}]
      BY <2>1, <2>2 DEF Debugger
    <2>4. \A v \in Watches : o.wps[v] = IF v = w THEN {} ELSE d.wps[v]
      BY <2>2, <2>3 DEF Debugger
    <2>5. \A i \in Slots : d.hw[i] = IF i \in m.wps[w] THEN Off ELSE m.hw[i]
      BY <1>0, <2>2, ClearedLegal DEF Sets
    <2>6. QED
      BY <2>2, <2>3, <2>4, <2>5 DEF Sets, SameTables
  <1>4. QED
    BY <1>2, <1>3 DEF RemoveWatch

LEMMA RemoveWatchFine ==
    ASSUME NEW m, Good(m), NEW xs, NEW strict, Fine(m, xs, strict), NEW w \in Watches,
           NEW o \in RemoveWatch(m, w), ~o.err, NEW t, Tracked(m, t)
    PROVE  Fine(o, xs, strict) /\ Tracked(o, t \ {w})
  <1>1. /\ o \in Debugger /\ o.bps = m.bps /\ o.exc = m.exc /\ o.reset = m.reset /\ o.link = m.link
        /\ \A v \in Watches : o.wps[v] = IF v = w THEN {} ELSE m.wps[v]
        /\ \A i \in Slots : o.hw[i] = IF i \in m.wps[w] THEN Off ELSE m.hw[i]
    BY RemoveWatchOk
  <1>2. m.wps[w] \subseteq Slots /\ \A a \in Addrs : m.bps[a] \notin m.wps[w]
    BY Apart
  <1>3. m.exc \notin m.wps[w]
    BY Apart
  <1>4. \A v \in Watches : m.wps[v] \cap m.wps[w] = {} \/ v = w
    BY Apart
  <1>5. Fine(o, xs, strict)
    <2> DEFINE S == m.wps[w]
    <2>1. S \in SUBSET Slots /\ \A i \in Slots : o.hw[i] = IF i \in S THEN Off ELSE m.hw[i]
      BY <1>1, <1>2
    <2>2. \A a \in Addrs : o.bps[a] = IF m.bps[a] \in S THEN NoSlot ELSE m.bps[a]
      BY <1>1, <1>2
    <2>3. \A v \in Watches : o.wps[v] = IF m.wps[v] \cap S = {} THEN m.wps[v] ELSE {}
      BY <1>1, <1>4
    <2>4. \A v \in Watches : m.wps[v] \cap S = {} \/ m.wps[v] \subseteq S
      BY <1>4
    <2>5. o.exc = IF m.exc \in S THEN NoSlot ELSE m.exc
      BY <1>1, <1>3
    <2> HIDE DEF S
    <2>6. QED
      BY <1>1, <2>1, <2>2, <2>3, <2>4, <2>5, DropFine
  <1>6. Tracked(o, t \ {w})
    BY <1>1 DEF Tracked, Entries
  <1>7. QED
    BY <1>5, <1>6

LEMMA InsertWatchFine ==
    ASSUME NEW m, Good(m), NEW xs, NEW strict, Fine(m, xs, strict),
           NEW w \in Watches, w \notin Entries(m),
           Cardinality(LowestFree(m, Need[w])) = Need[w],
           NEW o \in InsertWatch(m, w), ~o.err, NEW t, Tracked(m, t)
    PROVE  Fine(o, xs, strict) /\ Tracked(o, t \cup {w})
  <1> DEFINE S     == LowestFree(m, Need[w])
             owned == [m EXCEPT !.wps[w] = LowestFree(m, Need[w])]
             D     == WriteSlots(owned, ArmedWatch(owned, w))
             raw(d) == [d EXCEPT !.blocked = @ \cup {w}, !.err = FALSE]
  <1>1. S \subseteq Slots \ AllTriggers(m)
    BY LowestFreeFree
  <1>2. S # {}
    <2>1. Need[w] \in Nat /\ Need[w] # 0
      BY NeedAssumption
    <2>2. QED
      BY <2>1, FS_EmptySet
  <1>3. /\ owned \in Debugger /\ owned.hw = m.hw /\ owned.bps = m.bps /\ owned.exc = m.exc
        /\ owned.reset = m.reset /\ owned.link = m.link
        /\ \A v \in Watches : owned.wps[v] = IF v = w THEN S ELSE m.wps[v]
    BY <1>1 DEF Good, Debugger
  <1>4. o \in D
    <2>1. \/ o \in Ok(D)
          \/ \E d \in Bad(D) : \E u \in RemoveWatch(raw(d), w) : o = [u EXCEPT !.err = TRUE]
      <3> HIDE DEF D
      <3>1. o \in Ok(D) \cup {[x EXCEPT !.err = TRUE] : x \in UNION {RemoveWatch(raw(b), w) : b \in Bad(D)}}
        BY DEF InsertWatch, D
      <3> HIDE DEF raw
      <3>2. QED
        BY <3>1
    <2>2. ASSUME NEW u, o = [u EXCEPT !.err = TRUE] PROVE FALSE
      <3>1. o \in Debugger
        BY InsertWatchGood DEF Good
      <3>2. "err" \in DOMAIN o /\ DOMAIN o = DOMAIN u
        BY <2>2, <3>1 DEF Debugger
      <3>3. o.err
        BY <2>2, <3>2
      <3>4. QED
        BY <3>3
    <2> HIDE DEF D, raw
    <2>3. QED
      BY <2>1, <2>2 DEF Ok
  <1>5. Legal(owned, ArmedWatch(owned, w)) /\ DOMAIN ArmedWatch(owned, w) = S
        /\ \A i \in S : ArmedWatch(owned, w)[i] = Data(w)
    <2> HIDE DEF owned, S
    <2> QED BY <1>3, ArmedWatchLegal DEF ArmedWatch
  <1>6. Sets(owned, ArmedWatch(owned, w), o) /\ CanDebug(owned)
    <2> HIDE DEF owned, S
    <2> QED BY <1>2, <1>3, <1>4, <1>5, WriteOk DEF Legal
  <1> HIDE DEF owned, S, D
  <1>7. ~m.reset
    BY <1>3, <1>6, FineReach DEF CanDebug, Reach
  <1>8. /\ o \in Debugger /\ o.bps = m.bps /\ o.exc = m.exc /\ ~o.reset
        /\ \A v \in Watches : o.wps[v] = IF v = w THEN S ELSE m.wps[v]
        /\ \A i \in Slots : o.hw[i] = IF i \in S THEN Data(w) ELSE m.hw[i]
    BY <1>3, <1>5, <1>6, <1>7 DEF Sets, SameTables
  <1>9. m.wps[w] = {}
    BY DEF Entries
  <1>10. S \subseteq AllTriggers(o)
    BY <1>8 DEF AllTriggers, WatchSlots
  <1>11. Fine(o, xs, strict)
    <2>1. \A i \in Slots \ S : o.hw[i] = m.hw[i]
      BY <1>8
    <2>2. \A a \in Addrs : o.bps[a] = m.bps[a]
      BY <1>8
    <2>3. \A v \in Watches : o.wps[v] = m.wps[v] \/ (o.wps[v] = S /\ \A i \in S : o.hw[i] = Data(v))
      BY <1>1, <1>8
    <2>4. \A v \in Watches : o.wps[v] = m.wps[v] \/ m.wps[v] = {}
      BY <1>8, <1>9
    <2>5. S \in SUBSET (Slots \ AllTriggers(m)) /\ o \in Debugger /\ o.exc = m.exc /\ ~o.reset
      BY <1>1, <1>8
    <2>6. \A a \in Addrs : \/ o.bps[a] = m.bps[a]
                           \/ o.bps[a] \in S /\ o.hw[o.bps[a]] = Exec(a)
      BY <2>2
    <2>7. \A a \in Addrs : o.bps[a] = m.bps[a] \/ m.bps[a] = NoSlot
      BY <2>2
    <2>8. o.exc = m.exc \/ (m.exc = NoSlot /\ o.exc \in S /\ o.hw[o.exc] = Exec(ExcAddr))
      BY <2>5
    <2>9. QED
      BY <1>7, <1>10, <2>1, <2>3, <2>4, <2>5, <2>6, <2>7, <2>8, AddFine
  <1>12. Tracked(o, t \cup {w})
    <2>1. Entries(m) \cup {w} \subseteq Entries(o)
      BY <1>2, <1>8, <1>9 DEF Entries
    <2>2. w \notin Addrs /\ w # "exceptions"
      BY PointsAssumption
    <2>3. QED
      BY <1>8, <2>1, <2>2 DEF Tracked
  <1>13. QED
    BY <1>11, <1>12

-----------------------------------------------------------------------------
(* Clearing and programming all slots without a failure.                   *)

\* The slots may change, and nothing else that the invariant speaks of.
Steady(m, o) == o \in Debugger /\ SameTables(m, o) /\ o.reset = m.reset /\ o.link = m.link

LEMMA SteadyTrans ==
    ASSUME NEW m, NEW o, NEW q, Steady(m, o), Steady(o, q)
    PROVE  Steady(m, q)
  BY DEF Steady, SameTables

LEMMA StillSteady ==
    ASSUME NEW m, NEW o, Still(m, o)
    PROVE  Steady(m, o)
  BY DEF Still, Steady

LEMMA SteadyTables ==
    ASSUME NEW m, NEW o, Steady(m, o)
    PROVE  /\ ExecSlots(o) = ExecSlots(m) /\ WatchSlots(o) = WatchSlots(m) /\ ExcSlots(o) = ExcSlots(m)
           /\ AllTriggers(o) = AllTriggers(m) /\ Entries(o) = Entries(m)
  BY DEF Steady, SameTables, AllTriggers, ExecSlots, WatchSlots, ExcSlots, Entries

LEMMA SteadyTracked ==
    ASSUME NEW m, NEW o, Steady(m, o), NEW t, Tracked(m, t)
    PROVE  Tracked(o, t)
  BY DEF Steady, SameTables, Tracked, Entries

\* A failure that was noted in blocked is still a failure.
LEMMA BlockErr ==
    ASSUME NEW d \in Debugger, d.err, NEW w
    PROVE  [d EXCEPT !.blocked = @ \cup {w}].err
  BY DEF Debugger

LEMMA SetsLegal ==
    ASSUME NEW m, Good(m), NEW want, Legal(m, want), NEW o \in WriteSlots(m, want), ~o.err
    PROVE  /\ Good(o) /\ Steady(m, o)
           /\ \A i \in Slots : o.hw[i] = IF i \in DOMAIN want THEN want[i] ELSE m.hw[i]
  <1>1. Sets(m, want, o)
    BY WriteOk DEF Good, Legal
  <1>2. QED
    BY <1>1, LegalWrite DEF Sets, Steady

LEMMA DisableWatchesOk ==
    ASSUME NEW m, Good(m), NEW o \in DisableWatches(m), ~o.err
    PROVE  /\ Good(o) /\ Steady(m, o)
           /\ \A i \in Slots : o.hw[i] = IF i \in WatchSlots(m) THEN Off ELSE m.hw[i]
  <1> DEFINE all == WriteSlots(m, Cleared(WatchSlots(m)))
             until(before) ==
                [m EXCEPT !.hw = Overwrite(m.hw, Cleared(UNION {m.wps[v] : v \in before}))]
             D(before, w) == WriteSlots(until(before), Cleared(m.wps[w]))
  <1>1. ASSUME NEW w \in Entries(m), NEW before \in SUBSET (Entries(m) \ {w}), NEW d \in D(before, w)
        PROVE  d \in Debugger
    <2>1. w \in Watches /\ UNION {m.wps[v] : v \in before} \subseteq Slots /\ m.wps[w] \subseteq Slots
      BY <1>1, EntriesWatches, TableFacts DEF Good
    <2>2. Good(until(before))
      BY <2>1, ClearedLegal, LegalOverwrite
    <2>3. QED
      <3> HIDE DEF until
      <3> QED BY <1>1, <2>1, <2>2, ClearedLegal, LegalWrite DEF Good
  <1>2. \/ o \in all
        \/ \E w \in Entries(m) : \E before \in SUBSET (Entries(m) \ {w}) :
              \E d \in Bad(D(before, w)) : o = [d EXCEPT !.blocked = @ \cup {w}]
    <2> HIDE DEF D, all
    <2>1. o \in Ok(all) \cup
            UNION {UNION {{[x EXCEPT !.blocked = @ \cup {w}] : x \in Bad(D(before, w))}
                : before \in SUBSET (Entries(m) \ {w})} : w \in Entries(m)}
      BY DEF DisableWatches, D, all
    <2>2. CASE o \in Ok(all)
      BY <2>2 DEF Ok
    <2>3. CASE o \notin Ok(all)
      <3>1. PICK w \in Entries(m) :
              o \in UNION {{[x EXCEPT !.blocked = @ \cup {w}] : x \in Bad(D(before, w))}
                : before \in SUBSET (Entries(m) \ {w})}
        BY <2>1, <2>3
      <3>2. QED
        BY <3>1
    <2>4. QED
      BY <2>2, <2>3
  <1>3. o \in all
    <2> HIDE DEF D, all
    <2> QED BY <1>1, <1>2, BlockErr DEF Bad
  <1>4. Legal(m, Cleared(WatchSlots(m))) /\ DOMAIN Cleared(WatchSlots(m)) = WatchSlots(m)
        /\ \A i \in WatchSlots(m) : Cleared(WatchSlots(m))[i] = Off
    BY TableFacts, ClearedLegal DEF Good
  <1>5. QED
    BY <1>3, <1>4, SetsLegal

LEMMA EnableWatchesOk ==
    ASSUME NEW m, Good(m), NEW o \in EnableWatches(m), ~o.err
    PROVE  /\ Good(o) /\ Steady(m, o)
           /\ \A w \in Watches : \A i \in m.wps[w] : o.hw[i] = Data(w)
           /\ \A i \in Slots \ WatchSlots(m) : o.hw[i] = m.hw[i]
  <1> DEFINE all == WriteSlots(m, ArmedWatches(m, Watches))
             until(before) == [m EXCEPT !.hw = Overwrite(m.hw, ArmedWatches(m, before))]
             D(before, w) == WriteSlots(until(before), ArmedWatch(m, w))
  <1>1. ASSUME NEW w \in Entries(m), NEW before \in SUBSET (Entries(m) \ {w}), NEW d \in D(before, w)
        PROVE  d \in Debugger
    <2>1. w \in Watches /\ before \subseteq Watches
      BY <1>1, EntriesWatches
    <2>2. Good(until(before)) /\ SameTables(m, until(before))
      BY <2>1, ArmedWatchesLegal, LegalOverwrite DEF Good
    <2>3. QED
      <3> HIDE DEF until
      <3>1. Legal(until(before), ArmedWatch(m, w))
        BY <2>1, <2>2, ArmedWatchLegal DEF Good, Legal, SameTables
      <3>2. QED
        BY <1>1, <2>2, <3>1, LegalWrite DEF Good
  <1>2. \/ o \in all
        \/ \E w \in Entries(m) : \E before \in SUBSET (Entries(m) \ {w}) :
              \E d \in Bad(D(before, w)) : o = [d EXCEPT !.blocked = @ \cup {w}]
    <2> HIDE DEF D, all
    <2>1. o \in Ok(all) \cup
            UNION {UNION {{[x EXCEPT !.blocked = @ \cup {w}] : x \in Bad(D(before, w))}
                : before \in SUBSET (Entries(m) \ {w})} : w \in Entries(m)}
      BY DEF EnableWatches, D, all
    <2>2. CASE o \in Ok(all)
      BY <2>2 DEF Ok
    <2>3. CASE o \notin Ok(all)
      <3>1. PICK w \in Entries(m) :
              o \in UNION {{[x EXCEPT !.blocked = @ \cup {w}] : x \in Bad(D(before, w))}
                : before \in SUBSET (Entries(m) \ {w})}
        BY <2>1, <2>3
      <3>2. QED
        BY <3>1
    <2>4. QED
      BY <2>2, <2>3
  <1>3. o \in all
    <2> HIDE DEF D, all
    <2> QED BY <1>1, <1>2, BlockErr DEF Bad
  <1>4. Legal(m, ArmedWatches(m, Watches)) /\ DOMAIN ArmedWatches(m, Watches) = WatchSlots(m)
    BY ArmedWatchesLegal DEF Good, ArmedWatches, WatchSlots
  <1>5. \A w \in Watches : \A i \in m.wps[w] : ArmedWatches(m, Watches)[i] = Data(w)
    <2> TAKE w \in Watches
    <2> TAKE i \in m.wps[w]
    <2>1. \A v \in Watches : i \in m.wps[v] => v = w
      BY Apart
    <2>2. (CHOOSE v \in Watches : i \in m.wps[v]) = w
      BY <2>1
    <2>3. i \in UNION {m.wps[v] : v \in Watches}
      OBVIOUS
    <2>4. QED
      BY <2>2, <2>3 DEF ArmedWatches
  <1>6. \A w \in Watches : m.wps[w] \subseteq Slots /\ m.wps[w] \subseteq WatchSlots(m)
    BY Apart
  <1>7. QED
    BY <1>3, <1>4, <1>5, <1>6, SetsLegal

LEMMA DisableTriggersOk ==
    ASSUME NEW m, Good(m), NEW o \in DisableTriggers(m), ~o.err
    PROVE  Good(o) /\ Steady(m, o) /\ (Rest(m) => Blank(o))
  <1> DEFINE S == ExecSlots(m) \cup ExcSlots(m)
             D == WriteSlots(m, Cleared(S))
  <1>1. PICK d \in D : ~d.err /\ o \in DisableWatches(d)
    BY DEF DisableTriggers, Then, Ok, Bad
  <1>2. Legal(m, Cleared(S)) /\ DOMAIN Cleared(S) = S /\ \A i \in S : Cleared(S)[i] = Off
    BY TableFacts, ClearedLegal DEF Good
  <1>3. Good(d) /\ Steady(m, d) /\ \A i \in Slots : d.hw[i] = IF i \in S THEN Off ELSE m.hw[i]
    <2> HIDE DEF S
    <2> QED BY <1>1, <1>2, SetsLegal
  <1>4. Good(o) /\ Steady(d, o) /\ \A i \in Slots : o.hw[i] = IF i \in WatchSlots(d) THEN Off ELSE d.hw[i]
    BY <1>1, <1>3, DisableWatchesOk
  <1>5. WatchSlots(d) = WatchSlots(m)
    BY <1>3, SteadyTables
  <1>6. Rest(m) => Blank(o)
    BY <1>3, <1>4, <1>5 DEF Blank, Rest, AllTriggers
  <1>7. QED
    BY <1>3, <1>4, <1>6, SteadyTrans

LEMMA EnableTriggersOk ==
    ASSUME NEW m, Good(m), NEW o \in EnableTriggers(m), ~o.err
    PROVE  Good(o) /\ Steady(m, o) /\ InStep(o, {}, FALSE) /\ (Rest(m) => Rest(o))
  <1>1. PICK d \in WriteSlots(m, ArmedBps(m)) :
            ~d.err /\ \E e \in EnableWatches(d) : ~e.err /\ o \in ArmException(e)
    BY DEF EnableTriggers, Then, Ok, Bad
  <1>2. PICK e \in EnableWatches(d) : ~e.err /\ o \in ArmException(e)
    BY <1>1
  <1>3. /\ Good(d) /\ Steady(m, d)
        /\ \A i \in Slots : d.hw[i] = IF i \in ExecSlots(m) THEN ArmedBps(m)[i] ELSE m.hw[i]
    <2>1. Legal(m, ArmedBps(m)) /\ DOMAIN ArmedBps(m) = ExecSlots(m)
      BY ArmedBpsLegal DEF Good, ArmedBps
    <2>2. QED
      BY <1>1, <2>1, SetsLegal
  <1>4. /\ Good(e) /\ Steady(d, e)
        /\ \A w \in Watches : \A i \in d.wps[w] : e.hw[i] = Data(w)
        /\ \A i \in Slots \ WatchSlots(d) : e.hw[i] = d.hw[i]
    BY <1>2, <1>3, EnableWatchesOk
  <1>5. /\ Good(o) /\ Steady(e, o)
        /\ \A i \in Slots : o.hw[i] = IF i \in ExcSlots(e) THEN Exec(ExcAddr) ELSE e.hw[i]
    <2>1. Legal(e, ArmedExc(e)) /\ DOMAIN ArmedExc(e) = ExcSlots(e)
          /\ \A i \in ExcSlots(e) : ArmedExc(e)[i] = Exec(ExcAddr)
      BY <1>4, ArmedExcLegal DEF Good, ArmedExc
    <2>2. QED
      BY <1>2, <1>4, <2>1, SetsLegal DEF ArmException
  <1>6. Steady(m, o) /\ Steady(m, d) /\ Steady(m, e)
    BY <1>3, <1>4, <1>5, SteadyTrans
  <1>7. /\ WatchSlots(d) = WatchSlots(m) /\ ExcSlots(e) = ExcSlots(m)
        /\ d.wps = m.wps /\ o.bps = m.bps /\ o.wps = m.wps /\ o.exc = m.exc
        /\ AllTriggers(o) = AllTriggers(m)
    BY <1>6, SteadyTables DEF Steady, SameTables
  <1>8. \A a \in Addrs : o.bps[a] # NoSlot => o.hw[o.bps[a]] = Exec(a)
    <2> SUFFICES ASSUME NEW a \in Addrs, m.bps[a] # NoSlot PROVE o.hw[m.bps[a]] = Exec(a)
      BY <1>7
    <2> DEFINE i == m.bps[a]
    <2>1. i \in Slots /\ i \in ExecSlots(m) /\ i \notin WatchSlots(m) /\ i # m.exc
      BY Apart
    <2>2. \A b \in Addrs : m.bps[b] = i => b = a
      BY Apart
    <2>3. (CHOOSE b \in Addrs : m.bps[b] = i) = a
      BY <2>2
    <2>4. ArmedBps(m)[i] = Exec(a)
      BY <2>1, <2>3 DEF ArmedBps
    <2>5. i \notin ExcSlots(m)
      BY <2>1 DEF ExcSlots
    <2> HIDE DEF i
    <2>6. o.hw[i] = Exec(a)
      BY <1>3, <1>4, <1>5, <1>7, <2>1, <2>4, <2>5
    <2>7. QED
      BY <2>6 DEF i
  <1>9. \A w \in Watches : \A i \in o.wps[w] : o.hw[i] = Data(w)
    <2> SUFFICES ASSUME NEW w \in Watches, NEW i \in m.wps[w] PROVE o.hw[i] = Data(w)
      BY <1>7
    <2>1. i \in Slots /\ i \in WatchSlots(m)
      BY Apart
    <2>2. i \notin ExcSlots(m)
      BY <2>1, Apart DEF ExcSlots
    <2>3. QED
      BY <1>4, <1>5, <1>7, <2>1, <2>2
  <1>10. o.exc # NoSlot => o.hw[o.exc] = Exec(ExcAddr)
    BY <1>5, <1>7, Apart
  <1>11. Rest(m) => Rest(o)
    BY <1>3, <1>4, <1>5, <1>7 DEF Rest, AllTriggers
  <1>12. QED
    BY <1>5, <1>6, <1>8, <1>9, <1>10, <1>11 DEF InStep

-----------------------------------------------------------------------------
(* The helpers of the server, without a failure.                           *)

\* Slots that hold all the tables say are in step whatever is excepted.
LEMMA InStepAll ==
    ASSUME NEW m, InStep(m, {}, FALSE), ~m.reset, NEW xs, NEW strict, strict => Rest(m)
    PROVE  Fine(m, xs, strict)
  BY DEF InStep, Fine

LEMMA StopOk ==
    ASSUME NEW m \in Debugger, NEW p \in Places \cup {NoPc}
    PROVE  /\ Still(m, [m EXCEPT !.stop = p]) /\ [m EXCEPT !.stop = p].err = m.err
           /\ [m EXCEPT !.stop = p].hart = m.hart
  BY DEF Debugger, Still, SameTables

LEMMA StepOverOk ==
    ASSUME NEW m, Good(m), NEW xs, NEW strict, Fine(m, xs, strict), NEW o \in StepOver(m), ~o.err
    PROVE  Steady(m, o) /\ Fine(o, xs, strict)
  <1> DEFINE displaced(d) == Then(Access(d), StepHart)
             finally(t) == {[e EXCEPT !.err = @ \/ t.err] : e \in EnableTriggers([t EXCEPT !.err = FALSE])}
             body(d) == UNION {finally(t) : t \in displaced(d)}
  <1>1. m.blocked = {}
    BY DEF StepOver, Good, Debugger
  <1>2. \E d \in DisableTriggers(m) : ~d.err /\ o \in body(d)
    <2>1. o \in Then(DisableTriggers(m), body)
      BY <1>1 DEF StepOver
    <2>2. QED
      <3> HIDE DEF finally, displaced
      <3> QED BY <2>1 DEF Then, Ok, Bad
  <1>3. PICK d \in DisableTriggers(m) : ~d.err /\ o \in body(d)
    BY <1>2
  <1>4. Good(d) /\ Steady(m, d) /\ (strict => Rest(d))
    BY <1>3, FineRest, DisableTriggersOk DEF Blank, Rest
  <1>5. PICK t \in displaced(d) : o \in finally(t)
    <2> HIDE DEF finally, displaced
    <2> QED BY <1>3
  <1>6. t \in Access(d) \/ \E a \in Access(d) : ~a.err /\ t \in StepHart(a)
    BY DEF Then, Ok, Bad
  <1>7. Good(t)
    BY <1>4, <1>6, TargetGood
  <1>8. PICK e \in EnableTriggers([t EXCEPT !.err = FALSE]) : o = [e EXCEPT !.err = @ \/ t.err]
    BY <1>5
  <1>9. Good([t EXCEPT !.err = FALSE]) /\ Still(t, [t EXCEPT !.err = FALSE])
    BY <1>7, ErrGood, StillErr DEF Good
  <1>10. Good(e)
    BY <1>8, <1>9, EnableTriggersGood
  <1>11. ~e.err /\ ~t.err /\ Still(e, o)
    <2>1. o.err = (e.err \/ t.err)
      BY <1>8, <1>10 DEF Good, Debugger
    <2>2. (e.err \/ t.err) \in BOOLEAN /\ o = [e EXCEPT !.err = e.err \/ t.err]
      BY <1>8
    <2>3. QED
      BY <1>10, <2>1, <2>2, StillErr DEF Good
  <1>12. Still(d, t) /\ Reach(d)
    <2>1. CASE t \in Access(d)
      BY <1>4, <1>11, <2>1, AccessOk DEF Good, CanDebug
    <2>2. CASE \E a \in Access(d) : ~a.err /\ t \in StepHart(a)
      BY <1>4, <1>11, <2>2, AccessOk, StepOk DEF Good, CanDebug
    <2>3. QED
      BY <1>6, <2>1, <2>2
  <1>13. Still(d, [t EXCEPT !.err = FALSE])
    BY <1>9, <1>12, StillTrans
  <1>14. strict => Rest([t EXCEPT !.err = FALSE])
    BY <1>4, <1>13, StillFine
  <1>15. Steady([t EXCEPT !.err = FALSE], e) /\ InStep(e, {}, FALSE) /\ (strict => Rest(e))
    BY <1>8, <1>9, <1>11, <1>14, EnableTriggersOk
  <1>16. Steady(m, e)
    BY <1>4, <1>13, <1>15, StillSteady, SteadyTrans
  <1>17. ~m.reset
    BY <1>4, <1>12, FineReach DEF Steady, Reach
  <1>18. Fine(e, xs, strict)
    BY <1>15, <1>16, <1>17, InStepAll DEF Steady
  <1>19. QED
    BY <1>11, <1>16, <1>18, StillFine, StillSteady, SteadyTrans

LEMMA StopReplyOk ==
    ASSUME NEW m, Good(m), NEW o \in StopReply(m), ~o.err
    PROVE  Still(m, o) /\ CanDebug(m)
  <1>1. \/ o \in Access(m)
        \/ \E a \in Access(m) : ~a.err /\ (o = a \/ o = [a EXCEPT !.stop = a.pc])
    BY DEF StopReply, Then, Ok, Bad
  <1>2. \A a \in Access(m) : ~a.err => a \in Debugger /\ a.pc \in Places /\ Still(m, a) /\ CanDebug(m)
    BY AccessOk DEF Good, Debugger
  <1>3. QED
    BY <1>1, <1>2, StopOk, StillTrans

LEMMA AfterResetOk ==
    ASSUME NEW m, Good(m), NEW o \in AfterReset(m), ~o.err
    PROVE  /\ SameTables(m, o) /\ ~o.reset /\ o \in Debugger
           /\ InStep(o, {}, FALSE) /\ (Rest(m) => Rest(o))
  <1> DEFINE D == IF m.hart = "halted" THEN Access(m) ELSE HaltHart(m)
             clean(d) == [d EXCEPT !.stop = NoPc, !.reset = FALSE]
  <1>1. \E d \in D : ~d.err /\ o \in EnableTriggers(clean(d))
    <2> HIDE DEF D
    <2>1. o \in Then(D, LAMBDA d : EnableTriggers(clean(d)))
      BY DEF AfterReset, D
    <2>2. QED
      <3> HIDE DEF clean
      <3> QED BY <2>1 DEF Then, Ok, Bad
  <1>2. PICK d \in D : ~d.err /\ o \in EnableTriggers(clean(d))
    BY <1>1
  <1>3. d \in Debugger /\ SameTables(m, d) /\ d.hw = m.hw
    BY <1>2, AccessOk, HaltOk DEF Good, Still
  <1>4. Good(d)
    BY <1>3, OtherFields
  <1>5. /\ Good(clean(d)) /\ SameTables(d, clean(d)) /\ clean(d).hw = d.hw /\ ~clean(d).reset
    BY <1>4, StopGood DEF Good, Debugger, SameTables
  <1> HIDE DEF clean, D
  <1>6. Rest(m) => Rest(clean(d))
    BY <1>3, <1>5 DEF Rest, SameTables, AllTriggers, ExecSlots, WatchSlots, ExcSlots
  <1>7. Steady(clean(d), o) /\ InStep(o, {}, FALSE) /\ (Rest(clean(d)) => Rest(o))
    BY <1>2, <1>5, <1>6, EnableTriggersOk
  <1>8. QED
    BY <1>3, <1>5, <1>6, <1>7 DEF Steady, SameTables

LEMMA ResetHaltOk ==
    ASSUME NEW m, Good(m), NEW o \in ResetHalt(m), ~o.err
    PROVE  SameTables(m, o) /\ Blank(o) /\ ~o.reset
  <1> DEFINE gone  == [m EXCEPT !.hw = [i \in Slots |-> Off], !.pc = Elsewhere, !.cause = "other"]
             there == [gone EXCEPT !.hart = "halted", !.cause = "haltreq", !.reset = FALSE]
             lost  == [gone EXCEPT !.hart = "running", !.reset = TRUE]
  <1>1. [i \in Slots |-> Off] \in [Slots -> Config]
    BY ConfigFacts
  <1>2. there \in Debugger /\ SameTables(m, there) /\ there.hw = [i \in Slots |-> Off] /\ ~there.reset
    BY <1>1 DEF Good, Debugger, SameTables, Places
  <1>3. lost \in Debugger
    BY <1>1 DEF Good, Debugger, Places
  <1>4. \/ o = there \/ o \in Fault(m) \/ o \in Fault(there) \/ o \in Fault(lost)
        \/ o = [m EXCEPT !.err = TRUE]
    BY DEF ResetHalt
  <1>5. [m EXCEPT !.err = TRUE].err
    BY DEF Good, Debugger
  <1>6. QED
    <2> HIDE DEF there, lost
    <2> QED BY <1>2, <1>3, <1>4, <1>5, FaultKeeps DEF Good, Blank

LEMMA SetPcOk ==
    ASSUME NEW m, Good(m), NEW p \in Places \cup {NoPc}, NEW o \in SetPc(m, p), ~o.err
    PROVE  Still(m, o)
  <1>1. CASE p = NoPc
    BY <1>1 DEF SetPc, Good, Still, SameTables
  <1>2. CASE p # NoPc
    <2>1. PICK a \in Access(m) : o = IF a.err THEN a ELSE [a EXCEPT !.pc = p]
      BY <1>2 DEF SetPc
    <2>2. ~a.err
      BY <2>1
    <2>3. a \in Debugger /\ Still(m, a)
      BY <2>2, AccessOk DEF Good, Still
    <2>4. Still(a, [a EXCEPT !.pc = p])
      BY <1>2, <2>3 DEF Debugger, Still, SameTables
    <2>5. QED
      BY <2>1, <2>2, <2>3, <2>4, StillTrans
  <1>3. QED
    BY <1>1, <1>2

LEMMA ClearWatchesOk ==
    ASSUME NEW m, Good(m), NEW o \in ClearWatches(m), ~o.err
    PROVE  /\ o \in Debugger /\ o.bps = m.bps /\ o.exc = m.exc /\ o.reset = m.reset /\ o.link = m.link
           /\ \A i \in Slots : o.hw[i] = IF i \in WatchSlots(m) THEN Off ELSE m.hw[i]
  <1> DEFINE all == WriteSlots(m, Cleared(WatchSlots(m)))
             none == [w \in Watches |-> {}]
             removed(before) ==
               [m EXCEPT !.hw = Overwrite(m.hw, Cleared(UNION {m.wps[v] : v \in before})),
                         !.wps = [v \in Watches |-> IF v \in before THEN {} ELSE m.wps[v]],
                         !.blocked = @ \ before]
  <1>1. \E d \in Ok(all) : o = [d EXCEPT !.wps = none, !.blocked = {}]
    <2> HIDE DEF all, removed, none
    <2>1. o \in {[d EXCEPT !.wps = none, !.blocked = {}] : d \in Ok(all)} \cup
            UNION {UNION {Bad(RemoveWatch(removed(before), w))
                : before \in SUBSET (Entries(m) \ {w})} : w \in Entries(m)}
      BY DEF ClearWatches, all, removed, none
    <2>2. ASSUME o \notin {[d EXCEPT !.wps = none, !.blocked = {}] : d \in Ok(all)}
          PROVE  FALSE
      <3>1. PICK w \in Entries(m) :
              o \in UNION {Bad(RemoveWatch(removed(before), w)) : before \in SUBSET (Entries(m) \ {w})}
        BY <2>1, <2>2
      <3>2. QED
        BY <3>1 DEF Bad
    <2>3. QED
      BY <2>2
  <1>2. PICK d \in Ok(all) : o = [d EXCEPT !.wps = none, !.blocked = {}]
    BY <1>1
  <1>3. Legal(m, Cleared(WatchSlots(m))) /\ DOMAIN Cleared(WatchSlots(m)) = WatchSlots(m)
        /\ \A i \in WatchSlots(m) : Cleared(WatchSlots(m))[i] = Off
    BY TableFacts, ClearedLegal DEF Good
  <1>4. /\ Good(d) /\ Steady(m, d)
        /\ \A i \in Slots : d.hw[i] = IF i \in WatchSlots(m) THEN Off ELSE m.hw[i]
    BY <1>2, <1>3, SetsLegal DEF Ok
  <1>5. o \in Debugger /\ o.hw = d.hw /\ o.bps = d.bps /\ o.exc = d.exc /\ o.reset = d.reset /\ o.link = d.link
    BY <1>2, <1>4 DEF Good, Debugger
  <1>6. QED
    BY <1>4, <1>5 DEF Steady, SameTables

\* With no table entry left, blank slots are in step.
LEMMA EmptyFine ==
    ASSUME NEW m, Good(m), Empty(m), Blank(m), ~m.reset
    PROVE  Fine(m, {}, TRUE)
  <1>1. ExecSlots(m) = {} /\ WatchSlots(m) = {} /\ ExcSlots(m) = {}
    BY DEF Empty, AllTriggers
  <1>2. InStep(m, {}, TRUE)
    BY <1>1, Apart DEF InStep, Blank, Rest
  <1>3. QED
    BY <1>2 DEF Fine

LEMMA ReleaseOk ==
    ASSUME NEW m, Good(m), Rest(m), Reach(m) => ~m.reset, NEW o \in Release(m), ~o.err
    PROVE  Good(o) /\ Fine(o, {}, TRUE) /\ o.hart = "running"
  <1> DEFINE bare(d)    == [d EXCEPT !.bps = [a \in Addrs |-> NoSlot]]
             watches(d) == ClearWatches(bare(d))
             go(d)      == ResumeHart([d EXCEPT !.exc = NoSlot])
             D == DisableTriggers(m)
             E == Then(D, watches)
  <1>1. \E e \in E : ~e.err /\ o \in ResumeHart([e EXCEPT !.exc = NoSlot])
    <2>1. o \in Then(E, go)
      BY DEF Release
    <2> HIDE DEF E
    <2>2. QED
      BY <2>1 DEF Then, Ok, Bad
  <1>2. PICK e \in E : ~e.err /\ o \in ResumeHart([e EXCEPT !.exc = NoSlot])
    BY <1>1
  <1>3. \E d \in D : ~d.err /\ e \in ClearWatches(bare(d))
    <2> HIDE DEF D, bare
    <2> QED BY <1>2 DEF Then, Ok, Bad
  <1>4. PICK d \in D : ~d.err /\ e \in ClearWatches(bare(d))
    BY <1>3
  <1>5. Good(d) /\ Steady(m, d) /\ Blank(d)
    BY <1>4, DisableTriggersOk
  <1>6. /\ Good(bare(d)) /\ bare(d).hw = d.hw /\ bare(d).reset = d.reset /\ bare(d).link = d.link
    BY <1>5, ForgetBps DEF Good, Debugger
  <1> HIDE DEF bare, E
  <1>7. e \in Debugger /\ e.reset = m.reset /\ e.link = m.link /\ Blank(e)
    BY <1>2, <1>4, <1>5, <1>6, ClearWatchesOk DEF Steady, Blank
  <1> DEFINE x == [e EXCEPT !.exc = NoSlot]
  <1>8. x \in Debugger /\ x.reset = m.reset /\ x.link = m.link /\ x.hw = e.hw
    BY <1>7 DEF Debugger
  <1>9. o \in ResumeHart(x)
    BY <1>2
  <1> HIDE DEF x
  <1>10. Still(x, o) /\ Reach(x) /\ o.hart = "running"
    BY <1>8, <1>9, ResumeOk
  <1>11. ~o.reset /\ Blank(o)
    BY <1>7, <1>8, <1>10 DEF Still, Reach, Blank
  <1>12. Good(o) /\ Empty(o)
    BY ReleaseGood
  <1>13. QED
    BY <1>10, <1>11, <1>12, EmptyFine

\* The cleanup needs only that no slot is armed behind the tables' back.
LEMMA CleanupOk ==
    ASSUME NEW m, Good(m), Rest(m), Reach(m) => ~m.reset, NEW o \in Cleanup(m), ~o.err
    PROVE  Good(o) /\ Fine(o, {}, TRUE) /\ o.hart = "running"
  <1> DEFINE halt == IF m.hart = "halted" THEN {m} ELSE HaltHart(m)
  <1>1. [m EXCEPT !.err = TRUE].err
    BY DEF Good, Debugger
  <1>2. \E h \in halt : ~h.err /\ o \in Release(h)
    <2> HIDE DEF halt
    <2> QED BY <1>1 DEF Cleanup, halt, Then, Ok, Bad
  <1>3. PICK h \in halt : ~h.err /\ o \in Release(h)
    BY <1>2
  <1>4. Good(h) /\ Rest(h) /\ (Reach(h) => ~h.reset)
    <2>1. CASE m.hart = "halted"
      BY <1>3, <2>1
    <2>2. CASE m.hart # "halted"
      <3>1. h \in Debugger /\ SameTables(m, h) /\ h.hw = m.hw /\ ~h.reset
        BY <1>3, <2>2, HaltOk DEF Good
      <3>2. Good(h)
        BY <3>1, OtherFields
      <3>3. Rest(h)
        BY <3>1 DEF Rest, SameTables, AllTriggers, ExecSlots, WatchSlots, ExcSlots
      <3>4. QED
        BY <3>1, <3>2, <3>3
    <2>3. QED
      BY <2>1, <2>2
  <1>5. QED
    BY <1>3, <1>4, ReleaseOk

-----------------------------------------------------------------------------
(* Every handler keeps the slots in step, or GDB sees an error.            *)

LEMMA LossPrime ==
    ASSUME ~alarm' => /\ Fine(dbg', {}, TRUE) /\ Tracked(dbg', told')
                      /\ phase' = "closed" => dbg'.hart = "running",
           ~seen' /\ phase' \in Sessions => Fine(dbg', inherited', FALSE) /\ Tracked(dbg', told')
    PROVE  LossInv'
  BY DEF LossInv, Fine, Tracked, InStep, Blank, Rest, AllTriggers, ExecSlots, WatchSlots, ExcSlots, Entries

\* What the invariants say of a session in which GDB has seen no error.
Calm(xs, strict) == Good(dbg) /\ ~dbg.err /\ Fine(dbg, xs, strict) /\ Tracked(dbg, told)

\* What is left of it in m, with t told.
Follows(m, t) ==
    \A xs \in SUBSET Points : \A strict \in BOOLEAN :
        Calm(xs, strict) => Fine(m, xs, strict) /\ Tracked(m, t)

\* And of a history in which nothing has failed.
LEMMA CalmFacts ==
    ASSUME Inv, LossInv, ~alarm
    PROVE  /\ Calm({}, TRUE) /\ Good(dbg) /\ ~dbg.err /\ Fine(dbg, {}, TRUE)
           /\ dbg \in Debugger /\ Rest(dbg) /\ (Reach(dbg) => ~dbg.reset)
  <1>1. Calm({}, TRUE) /\ Good(dbg) /\ ~dbg.err /\ Fine(dbg, {}, TRUE)
    BY DEF Inv, LossInv, Calm
  <1>2. QED
    BY <1>1, FineRest, FineReach DEF Good

LEMMA ReplyLoss ==
    ASSUME Inv, LossInv, phase \in Sessions,
           NEW o \in Debugger, NEW p \in Sessions, NEW t, Reply(o, p, t), ~o.err => Follows(o, t)
    PROVE  LossInv'
  <1>1. Still(o, dbg') /\ phase' = p /\ p # "closed"
    BY StillErr DEF Reply, Sessions
  <1>2. ASSUME NEW xs \in SUBSET Points, NEW strict \in BOOLEAN, Calm(xs, strict), ~o.err
        PROVE  Fine(dbg', xs, strict) /\ Fine(o, xs, strict) /\ Tracked(dbg', t)
    BY <1>1, <1>2, StillFine DEF Follows
  <1>3. ASSUME ~alarm'
        PROVE  Fine(dbg', {}, TRUE) /\ Tracked(dbg', told')
    <2>1. ~alarm /\ ~o.err
      BY <1>3 DEF Reply, Inv
    <2>2. Fine(dbg', {}, TRUE) /\ Tracked(dbg', t)
      BY <1>2, <2>1, CalmFacts
    <2>3. told' = t \/ told' = {}
      BY DEF Reply
    <2>4. QED
      BY <2>2, <2>3 DEF Tracked
  <1>4. ASSUME ~seen'
        PROVE  Fine(dbg', inherited', FALSE) /\ Tracked(dbg', told')
    <2>1. ~seen /\ ~o.err /\ told' = t /\ inherited' = inherited \cap Listed(o)
      BY <1>4 DEF Reply, Inv
    <2>2. Calm(inherited, FALSE) /\ inherited \in SUBSET Points
      BY <2>1 DEF Calm, Inv, LossInv
    <2>3. Fine(o, inherited, FALSE) /\ Tracked(dbg', t)
      BY <1>2, <2>1, <2>2
    <2>4. Fine(o, inherited \cap Listed(o), FALSE)
      BY <2>3, FineListed
    <2>5. QED
      BY <1>1, <2>1, <2>3, <2>4, StillFine
  <1>5. QED
    BY <1>1, <1>3, <1>4, LossPrime

LEMMA EndedLoss ==
    ASSUME Inv, NEW raised, NEW D, Ended(D, raised),
           \A o \in D : /\ o \in Debugger
                        /\ ~alarm /\ ~raised /\ ~o.err => Fine(o, {}, TRUE) /\ o.hart = "running"
    PROVE  LossInv'
  <1>1. PICK o \in D : /\ dbg' = [o EXCEPT !.err = FALSE]
                       /\ phase' = IF o.err THEN "failed" ELSE "closed"
                       /\ told' = {} /\ alarm' = (alarm \/ raised \/ o.err)
    BY DEF Ended
  <1>2. Still(o, dbg') /\ dbg'.hart = o.hart
    BY <1>1, StillErr
  <1>3. ~alarm' => ~alarm /\ ~raised /\ ~o.err
    BY <1>1
  <1>4. ~alarm' => Fine(dbg', {}, TRUE) /\ dbg'.hart = "running"
    BY <1>2, <1>3, StillFine
  <1>5. Tracked(dbg', told') /\ phase' \notin Sessions
    BY <1>1 DEF Tracked, Sessions
  <1>6. QED
    BY <1>4, <1>5, LossPrime

\* After an error a cleanup may leave what it likes.
LEMMA RaisedLoss ==
    ASSUME Inv, NEW m, Good(m), Ended(Cleanup(m), TRUE)
    PROVE  LossInv'
  BY CleanupGood, EndedLoss DEF Good

\* A new session knows nothing of the entries it finds.
LEMMA AcceptLoss == Inv /\ LossInv /\ Accept => LossInv'
  <1> SUFFICES ASSUME Inv, LossInv, Accept PROVE LossInv'
    OBVIOUS
  <1>1. PICK o \in Then(HaltHart(dbg), Access) :
            IF o.err THEN Ended(Cleanup([o EXCEPT !.err = FALSE]), TRUE) ELSE Reply(o, "prompt", {})
    BY DEF Accept
  <1>2. o \in HaltHart(dbg) \/ \E h \in HaltHart(dbg) : ~h.err /\ o \in Access(h)
    BY DEF Then, Ok, Bad
  <1>3. Good(o)
    BY <1>2, TargetGood DEF Inv
  <1>4. CASE o.err
    BY <1>1, <1>3, <1>4, ErrGood, RaisedLoss
  <1>5. CASE ~o.err
    <2>1. PICK h \in HaltHart(dbg) : ~h.err /\ (o = h \/ o \in Access(h))
      BY <1>2, <1>5
    <2>2. h \in Debugger /\ SameTables(dbg, h) /\ ~h.reset
      BY <2>1, HaltOk DEF Inv, Good
    <2>3. o = h
      BY <1>5, <2>1, <2>2, AccessOk
    <2>4. Reply(o, "prompt", {}) /\ phase \in {"closed", "failed"}
      BY <1>1, <1>5 DEF Accept
    <2>5. Still(o, dbg')
      BY <2>2, <2>3, <2>4, StillErr DEF Reply
    <2>6. Tracked(dbg', told') /\ phase' # "closed"
      BY <2>4 DEF Reply, Tracked
    <2>7. ASSUME ~alarm' PROVE Fine(dbg', {}, TRUE)
      <3>1. ~alarm
        BY <2>4, <2>7 DEF Reply, Inv
      <3>2. Fine(o, {}, TRUE)
        BY <2>1, <2>3, <3>1, CalmFacts, HaltFine
      <3>3. QED
        BY <2>5, <3>2, StillFine
    <2>8. ASSUME ~seen' PROVE Fine(dbg', inherited', FALSE)
      <3>1. inherited' = inherited \cap Listed(o) /\ inherited = Listed(dbg)
        BY <2>4, <2>8 DEF Reply, Inv, Sessions
      <3>2. Listed(o) = Listed(dbg)
        BY <2>2, <2>3 DEF SameTables, Listed, Entries
      <3>3. Fine(o, Listed(o), FALSE)
        BY <2>2, <2>3 DEF Fine, InStep, Listed, Entries
      <3>4. inherited' = Listed(o)
        BY <3>1, <3>2
      <3>5. QED
        BY <2>5, <3>3, <3>4, StillFine
    <2>9. QED
      BY <2>6, <2>7, <2>8, LossPrime
  <1>6. QED
    BY <1>4, <1>5

LEMMA DisconnectLoss == Inv /\ LossInv /\ Disconnect => LossInv'
  <1> SUFFICES ASSUME Inv, LossInv, Disconnect PROVE LossInv'
    OBVIOUS
  <1>1. Ended(Cleanup(dbg), FALSE)
    BY DEF Disconnect
  <1>2. ASSUME NEW o \in Cleanup(dbg)
        PROVE  o \in Debugger /\ (~alarm /\ ~o.err => Fine(o, {}, TRUE) /\ o.hart = "running")
    <2>1. o \in Debugger
      BY CleanupGood DEF Inv, Good
    <2>2. ASSUME ~alarm, ~o.err PROVE Fine(o, {}, TRUE) /\ o.hart = "running"
      BY <2>2, CalmFacts, CleanupOk
    <2>3. QED
      BY <2>1, <2>2
  <1>3. QED
    BY <1>1, <1>2, EndedLoss

LEMMA DetachLoss == Inv /\ LossInv /\ Detach => LossInv'
  <1> SUFFICES ASSUME Inv, LossInv, Detach PROVE LossInv'
    OBVIOUS
  <1>1. PICK o \in Release(dbg) : Ended(Cleanup([o EXCEPT !.err = FALSE]), o.err)
    BY DEF Detach
  <1> DEFINE q == [o EXCEPT !.err = FALSE]
  <1>2. Good(o) /\ Good(q) /\ Still(o, q)
    BY <1>1, ReleaseGood, ErrGood, StillErr DEF Inv, Good
  <1> HIDE DEF q
  <1>3. ASSUME NEW c \in Cleanup(q)
        PROVE  c \in Debugger /\ (~alarm /\ ~o.err /\ ~c.err => Fine(c, {}, TRUE) /\ c.hart = "running")
    <2>1. c \in Debugger
      BY <1>2, CleanupGood DEF Good
    <2>2. ASSUME ~alarm, ~o.err, ~c.err PROVE Fine(c, {}, TRUE) /\ c.hart = "running"
      <3>1. Fine(o, {}, TRUE)
        BY <2>2, CalmFacts, ReleaseOk
      <3>2. Fine(q, {}, TRUE)
        BY <1>2, <3>1, StillFine
      <3>3. QED
        BY <1>2, <2>2, <3>2, FineRest, FineReach, CleanupOk
    <2>3. QED
      BY <2>1, <2>2
  <1>4. Ended(Cleanup(q), o.err)
    BY <1>1 DEF q
  <1>5. QED
    BY <1>3, <1>4, EndedLoss

LEMMA KillLoss == Inv /\ LossInv /\ Kill => LossInv'
  <1> SUFFICES ASSUME Inv, LossInv, Kill PROVE LossInv'
    OBVIOUS
  <1> DEFINE bare(d) == [d EXCEPT !.bps = [a \in Addrs |-> NoSlot]]
             go(d)   == ResumeHart(bare(d))
             D == DisableTriggers(dbg)
             E == Then(D, ClearWatches)
  <1>1. PICK o \in Then(E, go) : Ended(Cleanup([o EXCEPT !.err = FALSE]), o.err)
    BY DEF Kill
  <1> DEFINE q == [o EXCEPT !.err = FALSE]
  <1>2. \A d \in D : Good(d)
    BY DisableTriggersGood DEF Inv
  <1>3. ASSUME NEW e \in E
        PROVE  Good(e)
    <2>1. e \in D \/ \E d \in D : e \in ClearWatches(d)
      <3> HIDE DEF D
      <3> QED BY <1>3 DEF Then, Ok, Bad
    <2> HIDE DEF D
    <2>2. QED
      BY <2>1, <1>2, ClearWatchesGood
  <1>4. (o \in E /\ o.err) \/ \E e \in E : ~e.err /\ o \in ResumeHart(bare(e))
    <2> HIDE DEF E, bare
    <2> QED BY <1>1 DEF Then, Ok, Bad
  <1>5. \A e \in E : Good(bare(e))
    <2> HIDE DEF E
    <2> QED BY <1>3, ForgetBps
  <1>6. Good(o)
    <2> HIDE DEF E, bare
    <2> QED BY <1>3, <1>4, <1>5, TargetGood
  <1>7. Good(q) /\ Still(o, q)
    BY <1>6, ErrGood, StillErr DEF Good
  <1>8. ASSUME ~alarm, ~o.err PROVE Rest(o) /\ ~o.reset
    <2>1. PICK e \in E : ~e.err /\ o \in ResumeHart(bare(e))
      <3> HIDE DEF E, bare
      <3> QED BY <1>4, <1>8
    <2>2. \E d \in D : ~d.err /\ e \in ClearWatches(d)
      <3> HIDE DEF D
      <3> QED BY <2>1 DEF Then, Ok, Bad
    <2>3. PICK d \in D : ~d.err /\ e \in ClearWatches(d)
      BY <2>2
    <2>4. Good(d) /\ Steady(dbg, d) /\ Blank(d)
      BY <1>8, <2>3, CalmFacts, DisableTriggersOk
    <2>5. e \in Debugger /\ e.reset = dbg.reset /\ e.link = dbg.link /\ Blank(e)
      <3> HIDE DEF D, E
      <3> QED BY <2>1, <2>3, <2>4, ClearWatchesOk DEF Steady, Blank
    <2>6. bare(e) \in Debugger /\ bare(e).hw = e.hw /\ bare(e).reset = e.reset /\ bare(e).link = e.link
      BY <2>5 DEF Debugger
    <2> HIDE DEF bare, E
    <2>7. Still(bare(e), o) /\ Reach(bare(e))
      BY <1>8, <2>1, <2>6, ResumeOk
    <2>8. Reach(dbg)
      BY <2>5, <2>6, <2>7 DEF Reach
    <2>9. QED
      BY <1>8, <2>5, <2>6, <2>7, <2>8, CalmFacts DEF Still, Rest, Blank
  <1> HIDE DEF q
  <1>9. ASSUME NEW c \in Cleanup(q)
        PROVE  c \in Debugger /\ (~alarm /\ ~o.err /\ ~c.err => Fine(c, {}, TRUE) /\ c.hart = "running")
    <2>1. c \in Debugger
      BY <1>7, CleanupGood DEF Good
    <2>2. ASSUME ~alarm, ~o.err, ~c.err PROVE Fine(c, {}, TRUE) /\ c.hart = "running"
      <3>1. Rest(q) /\ ~q.reset
        BY <1>7, <1>8, <2>2, StillFine DEF Still
      <3>2. QED
        BY <1>7, <2>2, <3>1, CleanupOk
    <2>3. QED
      BY <2>1, <2>2
  <1>10. Ended(Cleanup(q), o.err)
    BY <1>1 DEF q
  <1>11. QED
    BY <1>9, <1>10, EndedLoss

\* ^C: halting is harmless while no reset is pending, and cannot reach the
\* target while one is.
LEMMA InterruptLoss == Inv /\ LossInv /\ (Interrupt \/ InterruptRunning) => LossInv'
  <1> SUFFICES ASSUME Inv, LossInv, Interrupt \/ InterruptRunning PROVE LossInv'
    OBVIOUS
  <1>1. ASSUME NEW o \in Then(HaltHart(dbg), StopReply)
        PROVE  Good(o) /\ (~o.err => Follows(o, told))
    <2>1. Good(o)
      BY StoppedGood DEF Inv
    <2>2. ASSUME ~o.err, NEW xs \in SUBSET Points, NEW strict \in BOOLEAN, Calm(xs, strict)
          PROVE  Fine(o, xs, strict) /\ Tracked(o, told)
      <3>1. Good(dbg) /\ Fine(dbg, xs, strict) /\ Tracked(dbg, told) /\ dbg \in Debugger
        BY <2>2 DEF Calm, Good
      <3>2. \E h \in HaltHart(dbg) : ~h.err /\ (o = h \/ o \in StopReply(h))
        BY <2>2 DEF Then, Ok, Bad
      <3>3. PICK h \in HaltHart(dbg) : ~h.err /\ (o = h \/ o \in StopReply(h))
        BY <3>2
      <3>4. h \in Debugger /\ Still(dbg, h) /\ Fine(h, xs, strict) /\ Good(h)
        BY <3>1, <3>3, HaltFine, TargetGood
      <3>5. o = h \/ Still(h, o)
        BY <2>2, <3>3, <3>4, StopReplyOk
      <3>6. QED
        BY <3>1, <3>4, <3>5, StillFine
    <2>3. QED
      BY <2>1, <2>2 DEF Follows
  <1>2. "prompt" \in Sessions /\ "cont" \in Sessions
    BY DEF Sessions
  <1>3. CASE InterruptRunning
    BY <1>1, <1>2, <1>3, ReplyLoss DEF InterruptRunning, Good
  <1>4. CASE Interrupt
    <2>1. PICK o \in Then(HaltHart(dbg), StopReply) :
            IF o.err THEN Ended(Cleanup([o EXCEPT !.err = FALSE]), TRUE) ELSE Reply(o, "prompt", told)
      BY <1>4 DEF Interrupt
    <2>2. CASE o.err
      BY <1>1, <2>1, <2>2, ErrGood, RaisedLoss
    <2>3. CASE ~o.err
      BY <1>1, <1>2, <1>4, <2>1, <2>3, ReplyLoss DEF Good, Interrupt
    <2>4. QED
      BY <2>2, <2>3
  <1>5. QED
    BY <1>3, <1>4

LEMMA MonitorResetLoss == Inv /\ LossInv /\ MonitorReset => LossInv'
  <1> SUFFICES ASSUME Inv, LossInv, MonitorReset PROVE LossInv'
    OBVIOUS
  <1>1. PICK o \in Then(ResetHalt(dbg), AfterReset) : Reply(o, "prompt", told)
    BY DEF MonitorReset
  <1>2. o \in ResetHalt(dbg) \/ \E r \in ResetHalt(dbg) : o \in AfterReset(r)
    BY DEF Then, Ok, Bad
  <1>3. Good(o)
    BY <1>2, ResetHaltGood, AfterResetGood DEF Inv
  <1>4. ASSUME ~o.err, NEW xs \in SUBSET Points, NEW strict \in BOOLEAN, Calm(xs, strict)
        PROVE  Fine(o, xs, strict) /\ Tracked(o, told)
    <2>1. Good(dbg) /\ Tracked(dbg, told)
      BY <1>4 DEF Calm
    <2>2. (o \in ResetHalt(dbg) /\ o.err) \/ \E r \in ResetHalt(dbg) : ~r.err /\ o \in AfterReset(r)
      BY DEF Then, Ok, Bad
    <2>3. PICK r \in ResetHalt(dbg) : ~r.err /\ o \in AfterReset(r)
      BY <1>4, <2>2
    <2>4. Good(r) /\ SameTables(dbg, r) /\ Rest(r)
      BY <2>1, <2>3, ResetHaltGood, ResetHaltOk DEF Blank, Rest
    <2>5. SameTables(r, o) /\ ~o.reset /\ InStep(o, {}, FALSE) /\ Rest(o)
      BY <1>4, <2>3, <2>4, AfterResetOk
    <2>6. QED
      BY <2>1, <2>4, <2>5, InStepAll DEF Tracked, SameTables, Entries
  <1>5. "prompt" \in Sessions /\ phase \in Sessions
    BY DEF MonitorReset, Sessions
  <1>6. QED
    BY <1>1, <1>3, <1>4, <1>5, ReplyLoss DEF Good, Follows

LEMMA TrackedAddr ==
    ASSUME NEW m, NEW t, Tracked(m, t), NEW a \in Addrs
    PROVE  /\ m.bps[a] # NoSlot => Tracked(m, t \cup {a})
           /\ \A o : (o.wps = m.wps /\ o.exc = m.exc /\ \A b \in Addrs \ {a} : o.bps[b] = m.bps[b])
                        => Tracked(o, t \ {a}) /\ (o.bps[a] # NoSlot => Tracked(o, t \cup {a}))
  BY PointsAssumption DEF Tracked, Entries

LEMMA BreakpointLoss ==
    ASSUME Inv, LossInv, NEW a \in Addrs, InsertBreakpoint(a) \/ RemoveBreakpoint(a)
    PROVE  LossInv'
  <1>1. Good(dbg) /\ dbg \in Debugger /\ phase \in Sessions /\ "prompt" \in Sessions
    BY DEF Inv, Good, InsertBreakpoint, RemoveBreakpoint, Sessions
  <1>2. ASSUME NEW xs \in SUBSET Points, NEW strict \in BOOLEAN, Calm(xs, strict)
        PROVE  Fine(dbg, xs, strict) /\ Tracked(dbg, told) /\ (Reach(dbg) => ~dbg.reset)
    BY <1>2, FineReach DEF Calm
  <1>3. CASE InsertBreakpoint(a) /\ dbg.bps[a] # NoSlot
    <2>1. Reply(dbg, "prompt", told \cup {a})
      BY <1>3 DEF InsertBreakpoint
    <2>2. Follows(dbg, told \cup {a})
      BY <1>2, <1>3, TrackedAddr DEF Follows
    <2>3. QED
      BY <1>1, <2>1, <2>2, ReplyLoss
  <1>4. CASE InsertBreakpoint(a) /\ dbg.bps[a] = NoSlot
    <2>1. PICK i \in LowestFree(dbg, 1) : \E o \in WriteSlots(dbg, [j \in {i} |-> Exec(a)]) :
                IF o.err THEN Reply(o, "prompt", told)
                ELSE Reply([o EXCEPT !.bps[a] = i], "prompt", told \cup {a})
      BY <1>4 DEF InsertBreakpoint
    <2>2. PICK o \in WriteSlots(dbg, [j \in {i} |-> Exec(a)]) :
                IF o.err THEN Reply(o, "prompt", told)
                ELSE Reply([o EXCEPT !.bps[a] = i], "prompt", told \cup {a})
      BY <2>1
    <2> DEFINE q    == [o EXCEPT !.bps[a] = i]
               want == [j \in {i} |-> Exec(a)]
    <2>3. i \in Slots /\ {i} \in SUBSET (Slots \ AllTriggers(dbg)) /\ i # NoSlot
      BY <2>1, FreeFacts, LowestFreeFree
    <2>4. Legal(dbg, want) /\ DOMAIN want = {i} /\ want[i] = Exec(a)
      BY <2>3, ExecLegal
    <2>5. Good(o)
      BY <1>1, <2>2, <2>4, LegalWrite
    <2>6. CASE o.err
      BY <1>1, <2>2, <2>5, <2>6, ReplyLoss DEF Good
    <2>7. CASE ~o.err
      <3>1. /\ Steady(dbg, o) /\ CanDebug(dbg)
            /\ \A j \in Slots : o.hw[j] = IF j = i THEN Exec(a) ELSE dbg.hw[j]
        <4> HIDE DEF want
        <4>1. o \in WriteSlots(dbg, want)
          BY <2>2 DEF want
        <4>2. CanDebug(dbg)
          BY <1>1, <2>4, <2>7, <4>1, WriteOk DEF Legal
        <4>3. QED
          BY <1>1, <2>4, <2>7, <4>1, <4>2, SetsLegal
      <3>2. /\ q \in Debugger /\ q.hw = o.hw /\ q.wps = o.wps /\ q.exc = o.exc
            /\ q.reset = o.reset /\ q.bps[a] = i
            /\ \A b \in Addrs \ {a} : q.bps[b] = o.bps[b]
        BY <2>3, <2>5 DEF Good, Debugger
      <3>3. Reply(q, "prompt", told \cup {a})
        BY <2>2, <2>7
      <3> HIDE DEF q
      <3>4. ASSUME NEW xs \in SUBSET Points, NEW strict \in BOOLEAN, Calm(xs, strict)
            PROVE  Fine(q, xs, strict) /\ Tracked(q, told \cup {a})
        <4>1. ~dbg.reset
          BY <1>2, <3>1, <3>4 DEF CanDebug
        <4>2. /\ q.wps = dbg.wps /\ q.exc = dbg.exc /\ ~q.reset
              /\ \A b \in Addrs \ {a} : q.bps[b] = dbg.bps[b]
          BY <3>1, <3>2, <4>1 DEF Steady, SameTables
        <4>3. Tracked(q, told \cup {a})
          BY <1>2, <2>3, <3>2, <3>4, <4>2, TrackedAddr
        <4>4. \A j \in Slots \ {i} : q.hw[j] = dbg.hw[j]
          BY <3>1, <3>2
        <4>5. \A b \in Addrs : q.bps[b] = dbg.bps[b] \/ (q.bps[b] \in {i} /\ q.hw[q.bps[b]] = Exec(b))
          BY <2>3, <3>1, <3>2, <4>2
        <4>6. \A b \in Addrs : q.bps[b] = dbg.bps[b] \/ dbg.bps[b] = NoSlot
          BY <1>4, <4>2
        <4>7. {i} \subseteq AllTriggers(q)
          BY <2>3, <3>2 DEF AllTriggers, ExecSlots
        <4>8. Fine(q, xs, strict)
          BY <1>1, <1>2, <2>3, <3>2, <3>4, <4>1, <4>2, <4>4, <4>5, <4>6, <4>7, AddFine
        <4>9. QED
          BY <4>3, <4>8
      <3>5. QED
        BY <1>1, <3>2, <3>3, <3>4, ReplyLoss DEF Follows
    <2>8. QED
      BY <2>6, <2>7
  <1>5. CASE RemoveBreakpoint(a)
    <2> DEFINE q == [dbg EXCEPT !.bps[a] = NoSlot]
               i == dbg.bps[a]
    <2>1. PICK o \in WriteSlots(q, Cleared({dbg.bps[a]})) : Reply(o, "prompt", told \ {a})
      BY <1>5 DEF RemoveBreakpoint
    <2>2. i \in Slots /\ i # NoSlot
      BY <1>1, <1>5 DEF RemoveBreakpoint, Good, Debugger
    <2>3. /\ q \in Debugger /\ q.hw = dbg.hw /\ q.wps = dbg.wps /\ q.exc = dbg.exc
          /\ q.reset = dbg.reset /\ q.link = dbg.link /\ q.bps[a] = NoSlot
          /\ \A b \in Addrs \ {a} : q.bps[b] = dbg.bps[b]
      BY <1>1 DEF Good, Debugger
    <2>4. o \in WriteSlots(q, Cleared({i}))
      BY <2>1
    <2> HIDE DEF q
    <2>5. \A b \in Addrs : q.bps[b] = dbg.bps[b] \/ q.bps[b] = NoSlot
      BY <2>3
    <2>6. Good(q)
      BY <1>1, <2>3, <2>5, ShrinkGood
    <2>7. Legal(q, Cleared({i})) /\ DOMAIN Cleared({i}) = {i} /\ Cleared({i})[i] = Off
      BY <2>2, ClearedLegal
    <2>8. Good(o)
      BY <2>4, <2>6, <2>7, LegalWrite
    <2>9. ASSUME ~o.err, NEW xs \in SUBSET Points, NEW strict \in BOOLEAN, Calm(xs, strict)
          PROVE  Fine(o, xs, strict) /\ Tracked(o, told \ {a})
      <3>1. Steady(q, o) /\ \A j \in Slots : o.hw[j] = IF j = i THEN Off ELSE q.hw[j]
        <4> HIDE DEF i
        <4> QED BY <2>4, <2>6, <2>7, <2>9, SetsLegal
      <3>2. /\ o.wps = dbg.wps /\ o.exc = dbg.exc /\ o.reset = dbg.reset /\ o.link = dbg.link
            /\ o.bps[a] = NoSlot /\ \A b \in Addrs \ {a} : o.bps[b] = dbg.bps[b]
        BY <2>3, <3>1 DEF Steady, SameTables
      <3>3. Tracked(o, told \ {a})
        BY <1>2, <2>9, <3>2, TrackedAddr
      <3>4. i # dbg.exc /\ (\A w \in Watches : i \notin dbg.wps[w])
            /\ \A b \in Addrs \ {a} : dbg.bps[b] # i
        BY <1>1, <2>2, Apart
      <3>5. \A j \in Slots : o.hw[j] = IF j \in {i} THEN Off ELSE dbg.hw[j]
        BY <2>3, <3>1
      <3>6. \A b \in Addrs : o.bps[b] = IF dbg.bps[b] \in {i} THEN NoSlot ELSE dbg.bps[b]
        BY <3>2, <3>4
      <3>7. \A w \in Watches : dbg.wps[w] \cap {i} = {}
        BY <3>4
      <3>8. \A w \in Watches : o.wps[w] = IF dbg.wps[w] \cap {i} = {} THEN dbg.wps[w] ELSE {}
        BY <3>2, <3>7
      <3>9. \A w \in Watches : dbg.wps[w] \cap {i} = {} \/ dbg.wps[w] \subseteq {i}
        BY <3>7
      <3>10. o.exc = IF dbg.exc \in {i} THEN NoSlot ELSE dbg.exc
        BY <3>2, <3>4
      <3>11. o \in Debugger /\ {i} \in SUBSET Slots
        BY <2>2, <2>8 DEF Good
      <3> HIDE DEF i
      <3>12. Fine(o, xs, strict)
        BY <1>1, <2>9, <3>2, <3>5, <3>6, <3>8, <3>9, <3>10, <3>11, DropFine DEF Calm
      <3>13. QED
        BY <3>3, <3>12
    <2>10. QED
      BY <1>1, <2>1, <2>8, <2>9, ReplyLoss DEF Good, Follows
  <1>6. QED
    BY <1>3, <1>4, <1>5

LEMMA WatchpointLoss ==
    ASSUME Inv, LossInv, NEW w \in Watches, InsertWatchpoint(w) \/ RemoveWatchpoint(w)
    PROVE  LossInv'
  <1>1. Good(dbg) /\ dbg \in Debugger /\ phase \in Sessions /\ "prompt" \in Sessions
    BY DEF Inv, Good, InsertWatchpoint, RemoveWatchpoint, Sessions
  <1>2. ASSUME NEW xs \in SUBSET Points, NEW strict \in BOOLEAN, Calm(xs, strict)
        PROVE  Fine(dbg, xs, strict) /\ Tracked(dbg, told)
    BY <1>2 DEF Calm
  <1>3. CASE InsertWatchpoint(w) /\ w \in Entries(dbg) /\ w \in dbg.blocked
    <2>1. Reply([dbg EXCEPT !.err = TRUE], "prompt", told)
      BY <1>3 DEF InsertWatchpoint
    <2>2. [dbg EXCEPT !.err = TRUE] \in Debugger /\ [dbg EXCEPT !.err = TRUE].err
      BY <1>1 DEF Debugger
    <2>3. QED
      BY <1>1, <2>1, <2>2, ReplyLoss
  <1>4. CASE InsertWatchpoint(w) /\ w \in Entries(dbg) /\ w \notin dbg.blocked
    <2>1. Reply(dbg, "prompt", told \cup {w})
      BY <1>4 DEF InsertWatchpoint
    <2>2. ASSUME NEW xs \in SUBSET Points, NEW strict \in BOOLEAN, Calm(xs, strict)
          PROVE  Tracked(dbg, told \cup {w})
      BY <1>2, <1>4, <2>2, PointsAssumption DEF Tracked
    <2>3. Follows(dbg, told \cup {w})
      BY <1>2, <2>2 DEF Follows
    <2>4. QED
      BY <1>1, <2>1, <2>3, ReplyLoss
  <1>5. CASE InsertWatchpoint(w) /\ w \notin Entries(dbg)
    <2>1. PICK o \in InsertWatch(dbg, w) : Reply(o, "prompt", IF o.err THEN told ELSE told \cup {w})
      BY <1>5 DEF InsertWatchpoint
    <2>2. Cardinality(LowestFree(dbg, Need[w])) = Need[w]
      BY <1>5 DEF InsertWatchpoint
    <2>3. o \in Debugger
      BY <1>1, <1>5, <2>1, InsertWatchGood DEF Good
    <2>4. CASE o.err
      BY <1>1, <2>1, <2>3, <2>4, ReplyLoss
    <2>5. CASE ~o.err
      <3>1. ASSUME NEW xs \in SUBSET Points, NEW strict \in BOOLEAN, Calm(xs, strict)
            PROVE  Fine(o, xs, strict) /\ Tracked(o, told \cup {w})
        BY <1>1, <1>2, <1>5, <2>1, <2>2, <2>5, <3>1, InsertWatchFine
      <3>2. Reply(o, "prompt", told \cup {w})
        BY <2>1, <2>5
      <3>3. QED
        BY <1>1, <2>3, <3>1, <3>2, ReplyLoss DEF Follows
    <2>6. QED
      BY <2>4, <2>5
  <1>6. CASE RemoveWatchpoint(w)
    <2>1. PICK o \in RemoveWatch(dbg, w) : Reply(o, "prompt", told \ {w})
      BY <1>6 DEF RemoveWatchpoint
    <2>2. o \in Debugger
      BY <1>1, <2>1, RemoveWatchGood DEF Good
    <2>3. ASSUME ~o.err, NEW xs \in SUBSET Points, NEW strict \in BOOLEAN, Calm(xs, strict)
          PROVE  Fine(o, xs, strict) /\ Tracked(o, told \ {w})
      BY <1>1, <1>2, <2>1, <2>3, RemoveWatchFine
    <2>4. QED
      BY <1>1, <2>1, <2>2, <2>3, ReplyLoss DEF Follows
  <1>7. QED
    BY <1>3, <1>4, <1>5, <1>6

LEMMA ExceptionsLoss == Inv /\ LossInv /\ (CatchExceptions \/ ExceptionsOff) => LossInv'
  <1> SUFFICES ASSUME Inv, LossInv, CatchExceptions \/ ExceptionsOff PROVE LossInv'
    OBVIOUS
  <1> DEFINE P == "exceptions"
  <1>1. Good(dbg) /\ dbg \in Debugger /\ phase \in Sessions /\ "prompt" \in Sessions
    BY DEF Inv, Good, CatchExceptions, ExceptionsOff, Sessions
  <1>2. ASSUME NEW xs \in SUBSET Points, NEW strict \in BOOLEAN, Calm(xs, strict)
        PROVE  Fine(dbg, xs, strict) /\ Tracked(dbg, told) /\ (Reach(dbg) => ~dbg.reset)
    BY <1>2, FineReach DEF Calm
  <1>3. CASE CatchExceptions /\ dbg.exc # NoSlot
    <2>1. Reply(dbg, "prompt", told \cup {P})
      BY <1>3 DEF CatchExceptions
    <2>2. ASSUME NEW xs \in SUBSET Points, NEW strict \in BOOLEAN, Calm(xs, strict)
          PROVE  Tracked(dbg, told \cup {P})
      BY <1>2, <1>3, <2>2, PointsAssumption DEF Tracked
    <2>3. Follows(dbg, told \cup {P})
      BY <1>2, <2>2 DEF Follows
    <2>4. QED
      BY <1>1, <2>1, <2>3, ReplyLoss
  <1>4. CASE CatchExceptions /\ dbg.exc = NoSlot
    <2>1. PICK i \in LowestFree(dbg, 1) : \E o \in WriteSlots(dbg, [j \in {i} |-> Exec(ExcAddr)]) :
                IF o.err THEN Reply(o, "prompt", told)
                ELSE Reply([o EXCEPT !.exc = i], "prompt", told \cup {P})
      BY <1>4 DEF CatchExceptions
    <2>2. PICK o \in WriteSlots(dbg, [j \in {i} |-> Exec(ExcAddr)]) :
                IF o.err THEN Reply(o, "prompt", told)
                ELSE Reply([o EXCEPT !.exc = i], "prompt", told \cup {P})
      BY <2>1
    <2> DEFINE q    == [o EXCEPT !.exc = i]
               want == [j \in {i} |-> Exec(ExcAddr)]
    <2>3. i \in Slots /\ {i} \in SUBSET (Slots \ AllTriggers(dbg)) /\ i # NoSlot
      BY <2>1, FreeFacts, LowestFreeFree
    <2>4. Legal(dbg, want) /\ DOMAIN want = {i} /\ want[i] = Exec(ExcAddr)
      BY <2>3, ExecLegal, PlacesAssumption
    <2>5. Good(o)
      BY <1>1, <2>2, <2>4, LegalWrite
    <2>6. CASE o.err
      BY <1>1, <2>2, <2>5, <2>6, ReplyLoss DEF Good
    <2>7. CASE ~o.err
      <3>1. /\ Steady(dbg, o) /\ CanDebug(dbg)
            /\ \A j \in Slots : o.hw[j] = IF j = i THEN Exec(ExcAddr) ELSE dbg.hw[j]
        <4> HIDE DEF want
        <4>1. o \in WriteSlots(dbg, want)
          BY <2>2 DEF want
        <4>2. CanDebug(dbg)
          BY <1>1, <2>4, <2>7, <4>1, WriteOk DEF Legal
        <4>3. QED
          BY <1>1, <2>4, <2>7, <4>1, <4>2, SetsLegal
      <3>2. /\ q \in Debugger /\ q.hw = o.hw /\ q.wps = o.wps /\ q.bps = o.bps
            /\ q.reset = o.reset /\ q.exc = i
        BY <2>3, <2>5 DEF Good, Debugger
      <3>3. Reply(q, "prompt", told \cup {P})
        BY <2>2, <2>7
      <3> HIDE DEF q
      <3>4. ASSUME NEW xs \in SUBSET Points, NEW strict \in BOOLEAN, Calm(xs, strict)
            PROVE  Fine(q, xs, strict) /\ Tracked(q, told \cup {P})
        <4>1. ~dbg.reset
          BY <1>2, <3>1, <3>4 DEF CanDebug
        <4>2. q.wps = dbg.wps /\ q.bps = dbg.bps /\ ~q.reset
          BY <3>1, <3>2, <4>1 DEF Steady, SameTables
        <4>3. Tracked(q, told \cup {P})
          BY <1>2, <2>3, <3>2, <3>4, <4>2, PointsAssumption DEF Tracked, Entries
        <4>4. \A j \in Slots \ {i} : q.hw[j] = dbg.hw[j]
          BY <3>1, <3>2
        <4>5. q.exc = dbg.exc \/ (dbg.exc = NoSlot /\ q.exc \in {i} /\ q.hw[q.exc] = Exec(ExcAddr))
          BY <1>4, <2>3, <3>1, <3>2
        <4>6. {i} \subseteq AllTriggers(q)
          BY <2>3, <3>2 DEF AllTriggers, ExcSlots
        <4>7. \A b \in Addrs : q.bps[b] = dbg.bps[b]
          BY <4>2
        <4>8. \A v \in Watches : q.wps[v] = dbg.wps[v]
          BY <4>2
        <4>9. Fine(q, xs, strict)
          BY <1>1, <1>2, <2>3, <3>2, <3>4, <4>1, <4>2, <4>4, <4>5, <4>6, <4>7, <4>8, AddFine
        <4>10. QED
          BY <4>3, <4>9
      <3>5. QED
        BY <1>1, <3>2, <3>3, <3>4, ReplyLoss DEF Follows
    <2>8. QED
      BY <2>6, <2>7
  <1>5. CASE ExceptionsOff
    <2> DEFINE i == dbg.exc
    <2>1. PICK o \in WriteSlots(dbg, Cleared({dbg.exc})) :
              Reply(IF o.err THEN o ELSE [o EXCEPT !.exc = NoSlot], "prompt", told \ {P})
      BY <1>5 DEF ExceptionsOff
    <2> DEFINE q == [o EXCEPT !.exc = NoSlot]
    <2>2. i \in Slots /\ i # NoSlot
      BY <1>1, <1>5 DEF ExceptionsOff, Good, Debugger
    <2>3. Legal(dbg, Cleared({i})) /\ DOMAIN Cleared({i}) = {i} /\ Cleared({i})[i] = Off
      BY <2>2, ClearedLegal
    <2>4. o \in WriteSlots(dbg, Cleared({i}))
      BY <2>1
    <2> HIDE DEF i
    <2>5. Good(o)
      BY <1>1, <2>3, <2>4, LegalWrite
    <2>6. CASE o.err
      BY <1>1, <2>1, <2>5, <2>6, ReplyLoss DEF Good
    <2>7. CASE ~o.err
      <3>1. Steady(dbg, o) /\ \A j \in Slots : o.hw[j] = IF j = i THEN Off ELSE dbg.hw[j]
        BY <1>1, <2>3, <2>4, <2>7, SetsLegal
      <3>2. /\ q \in Debugger /\ q.hw = o.hw /\ q.wps = o.wps /\ q.bps = o.bps
            /\ q.reset = o.reset /\ q.link = o.link /\ q.exc = NoSlot
        BY <2>5 DEF Good, Debugger
      <3>3. Reply(q, "prompt", told \ {P})
        BY <2>1, <2>7
      <3> HIDE DEF q
      <3>4. ASSUME NEW xs \in SUBSET Points, NEW strict \in BOOLEAN, Calm(xs, strict)
            PROVE  Fine(q, xs, strict) /\ Tracked(q, told \ {P})
        <4>1. q.wps = dbg.wps /\ q.bps = dbg.bps /\ q.reset = dbg.reset /\ q.link = dbg.link
          BY <3>1, <3>2 DEF Steady, SameTables
        <4>2. Tracked(q, told \ {P})
          BY <1>2, <3>4, <4>1 DEF Tracked, Entries
        <4>3. (\A w \in Watches : i \notin dbg.wps[w]) /\ (\A b \in Addrs : dbg.bps[b] # i)
          BY <1>1, <2>2, Apart DEF i
        <4>4. \A j \in Slots : q.hw[j] = IF j \in {i} THEN Off ELSE dbg.hw[j]
          BY <3>1, <3>2
        <4>5. \A b \in Addrs : q.bps[b] = IF dbg.bps[b] \in {i} THEN NoSlot ELSE dbg.bps[b]
          BY <4>1, <4>3
        <4>6. \A w \in Watches : dbg.wps[w] \cap {i} = {}
          BY <4>3
        <4>7. \A w \in Watches : q.wps[w] = IF dbg.wps[w] \cap {i} = {} THEN dbg.wps[w] ELSE {}
          BY <4>1, <4>6
        <4>8. \A w \in Watches : dbg.wps[w] \cap {i} = {} \/ dbg.wps[w] \subseteq {i}
          BY <4>6
        <4>9. q.exc = IF dbg.exc \in {i} THEN NoSlot ELSE dbg.exc
          BY <3>2 DEF i
        <4>10. {i} \in SUBSET Slots
          BY <2>2
        <4>11. Fine(q, xs, strict)
          BY <1>1, <3>2, <3>4, <4>1, <4>4, <4>5, <4>7, <4>8, <4>9, <4>10, DropFine DEF Calm
        <4>12. QED
          BY <4>2, <4>11
      <3>5. QED
        BY <1>1, <3>2, <3>3, <3>4, ReplyLoss DEF Follows
    <2>8. QED
      BY <2>6, <2>7
  <1>6. QED
    BY <1>3, <1>4, <1>5

\* The three ways a run command ends: the hart runs, the step failed, or the
\* stop is reported.
LEMMA ResumeLoss ==
    ASSUME Inv, LossInv, phase \in Sessions, NEW m, Good(m), Follows(m, told),
           NEW r \in ResumeHart(m), Reply(r, IF r.err THEN "prompt" ELSE "cont", told)
    PROVE  LossInv'
  <1>1. r \in Debugger
    BY TargetGood DEF Good
  <1>2. ~r.err => Follows(r, told)
    BY ResumeOk, StillFine DEF Good, Follows
  <1>3. (IF r.err THEN "prompt" ELSE "cont") \in Sessions
    BY DEF Sessions
  <1>4. QED
    BY <1>1, <1>2, <1>3, ReplyLoss

LEMMA StopLoss ==
    ASSUME Inv, LossInv, phase \in Sessions, NEW m, Good(m), Follows(m, told),
           NEW r \in StopReply(m), Reply(r, "prompt", told)
    PROVE  LossInv'
  <1>1. r \in Debugger
    BY StopReplyGood DEF Good
  <1>2. ~r.err => Follows(r, told)
    BY StopReplyOk, StillFine DEF Follows
  <1>3. QED
    BY <1>1, <1>2, ReplyLoss DEF Sessions

LEMMA StepOverLoss ==
    ASSUME NEW m, Good(m), Follows(m, told), NEW s \in StepOver(m)
    PROVE  Good(s) /\ (~s.err => Follows(s, told))
  BY StepOverGood, StepOverOk, SteadyTracked DEF Follows

\* The link matters only while a reset is pending.
LEMMA RelinkFine ==
    ASSUME NEW m, NEW o, SameTables(m, o), o.hw = m.hw, o.reset = m.reset,
           Reach(m) \/ o.link = m.link \/ ~m.reset
    PROVE  /\ \A xs, strict : Fine(m, xs, strict) => Fine(o, xs, strict)
           /\ \A t : Tracked(m, t) => Tracked(o, t)
  <1>1. AllTriggers(o) = AllTriggers(m) /\ Entries(o) = Entries(m)
    BY DEF SameTables, AllTriggers, ExecSlots, WatchSlots, ExcSlots, Entries
  <1>2. Rest(m) => Rest(o)
    BY <1>1 DEF Rest
  <1>3. ASSUME NEW xs, NEW strict, Fine(m, xs, strict) PROVE Fine(o, xs, strict)
    BY <1>2, <1>3 DEF Fine, InStep, Blank, Reach, SameTables
  <1>4. \A t : Tracked(m, t) => Tracked(o, t)
    BY <1>1 DEF SameTables, Tracked
  <1>5. QED
    BY <1>3, <1>4

\* What a handler starts from.
LEMMA FollowsNow ==
    ASSUME Inv
    PROVE  Good(dbg) /\ dbg \in Debugger /\ Follows(dbg, told)
  BY DEF Inv, Good, Follows, Calm

LEMMA RefuseLoss ==
    ASSUME Inv, LossInv, phase \in Sessions, Refuse
    PROVE  LossInv'
  <1>1. [dbg EXCEPT !.err = TRUE] \in Debugger /\ [dbg EXCEPT !.err = TRUE].err
    BY DEF Inv, Good, Debugger
  <1>2. QED
    BY <1>1, ReplyLoss DEF Refuse, Sessions

LEMMA ContinueLoss ==
    ASSUME Inv, LossInv, NEW p \in Places \cup {NoPc}, Continue(p)
    PROVE  LossInv'
  <1> DEFINE started(o) == \E r \in ResumeHart([o EXCEPT !.stop = NoPc]) :
                               Reply(r, IF r.err THEN "prompt" ELSE "cont", told)
             stepFirst(o) == ExecutionBreakpointAt(o, o.pc) \/ o.pc = o.stop
             D == Then(SetPc(dbg, p), Access)
             Right(o) == Good(o) /\ Follows(o, told)
  <1>1. Right(dbg) /\ phase \in Sessions /\ "prompt" \in Sessions
    BY FollowsNow DEF Continue, Sessions
  <1>2. ASSUME NEW o, Right(o), started(o)
        PROVE  LossInv'
    <2>1. PICK r \in ResumeHart([o EXCEPT !.stop = NoPc]) : Reply(r, IF r.err THEN "prompt" ELSE "cont", told)
      BY <1>2
    <2>2. Good([o EXCEPT !.stop = NoPc]) /\ Still(o, [o EXCEPT !.stop = NoPc])
      BY <1>2, StopGood, StopOk DEF Good
    <2>3. Follows([o EXCEPT !.stop = NoPc], told)
      BY <1>2, <2>2, StillFine DEF Follows
    <2>4. QED
      BY <1>1, <2>1, <2>2, <2>3, ResumeLoss
  <1>3. CASE ~MayRun(dbg)
    BY <1>1, <1>3, RefuseLoss DEF Continue
  <1>4. CASE MayRun(dbg)
    <2>1. \E o \in D :
                IF o.err THEN Reply(o, "prompt", told)
                ELSE IF ~stepFirst(o) THEN started(o)
                ELSE \E s \in StepOver(o) :
                    IF s.err THEN Reply(s, "prompt", told)
                    ELSE IF s.cause = "step" THEN started(s)
                    ELSE \E r \in StopReply(s) : Reply(r, "prompt", told)
      BY <1>4 DEF Continue
    <2>2. ASSUME NEW o \in D PROVE Good(o) /\ (~o.err => Right(o))
      <3>1. (o \in SetPc(dbg, p) /\ o.err) \/ \E q \in SetPc(dbg, p) : ~q.err /\ o \in Access(q)
        BY DEF Then, Ok, Bad
      <3>2. Good(o)
        BY <1>1, <3>1, SetPcGood, TargetGood
      <3>3. ASSUME ~o.err PROVE Follows(o, told)
        <4>1. PICK q \in SetPc(dbg, p) : ~q.err /\ o \in Access(q)
          BY <3>1, <3>3
        <4>2. Still(dbg, q) /\ Good(q)
          BY <1>1, <4>1, SetPcOk, SetPcGood
        <4>3. o = q
          BY <3>3, <4>1, <4>2, AccessOk DEF Good
        <4>4. QED
          BY <1>1, <4>2, <4>3, StillFine DEF Follows
      <3>4. QED
        BY <3>2, <3>3
    <2> HIDE DEF D, started, stepFirst
    <2>3. PICK o \in D :
                IF o.err THEN Reply(o, "prompt", told)
                ELSE IF ~stepFirst(o) THEN started(o)
                ELSE \E s \in StepOver(o) :
                    IF s.err THEN Reply(s, "prompt", told)
                    ELSE IF s.cause = "step" THEN started(s)
                    ELSE \E r \in StopReply(s) : Reply(r, "prompt", told)
      BY <2>1
    <2>4. CASE o.err
      BY <1>1, <2>2, <2>3, <2>4, ReplyLoss DEF Good
    <2>5. CASE ~o.err /\ ~stepFirst(o)
      BY <1>2, <2>2, <2>3, <2>5
    <2>6. CASE ~o.err /\ stepFirst(o)
      <3>1. PICK s \in StepOver(o) :
                    IF s.err THEN Reply(s, "prompt", told)
                    ELSE IF s.cause = "step" THEN started(s)
                    ELSE \E r \in StopReply(s) : Reply(r, "prompt", told)
        BY <2>3, <2>6
      <3>2. Good(s) /\ (~s.err => Follows(s, told))
        BY <2>2, <2>6, <3>1, StepOverLoss
      <3>3. CASE s.err
        BY <1>1, <3>1, <3>2, <3>3, ReplyLoss DEF Good
      <3>4. CASE ~s.err /\ s.cause = "step"
        BY <1>2, <3>1, <3>2, <3>4
      <3>5. CASE ~s.err /\ s.cause # "step"
        BY <1>1, <3>1, <3>2, <3>5, StopLoss
      <3>6. QED
        BY <3>3, <3>4, <3>5
    <2>7. QED
      BY <2>4, <2>5, <2>6
  <1>5. QED
    BY <1>3, <1>4

LEMMA StepLoss ==
    ASSUME Inv, LossInv, NEW p \in Places \cup {NoPc}, Step(p)
    PROVE  LossInv'
  <1>1. Good(dbg) /\ Follows(dbg, told) /\ phase \in Sessions /\ "prompt" \in Sessions
    BY FollowsNow DEF Step, Sessions
  <1>2. CASE ~MayRun(dbg)
    BY <1>1, <1>2, RefuseLoss DEF Step
  <1>3. CASE MayRun(dbg)
    <2>1. PICK o \in Then(Then(SetPc(dbg, p), StepOver), StopReply) : Reply(o, "prompt", told)
      BY <1>3 DEF Step
    <2>2. \/ o \in SetPc(dbg, p) /\ o.err
          \/ \E q \in SetPc(dbg, p) : o \in StepOver(q) /\ o.err
          \/ \E q \in SetPc(dbg, p) : ~q.err /\ \E s \in StepOver(q) : ~s.err /\ o \in StopReply(s)
      BY <2>1 DEF Then, Ok, Bad
    <2>3. CASE o \in SetPc(dbg, p) /\ o.err
      BY <1>1, <2>1, <2>3, SetPcGood, ReplyLoss DEF Good
    <2>4. CASE \E q \in SetPc(dbg, p) : o \in StepOver(q) /\ o.err
      <3>1. o \in Debugger /\ o.err
        BY <1>1, <2>4, SetPcGood, StepOverGood DEF Good
      <3>2. QED
        BY <1>1, <2>1, <3>1, ReplyLoss
    <2>5. CASE \E q \in SetPc(dbg, p) : ~q.err /\ \E s \in StepOver(q) : ~s.err /\ o \in StopReply(s)
      <3>1. PICK q \in SetPc(dbg, p) : ~q.err /\ \E s \in StepOver(q) : ~s.err /\ o \in StopReply(s)
        BY <2>5
      <3>2. PICK s \in StepOver(q) : ~s.err /\ o \in StopReply(s)
        BY <3>1
      <3>3. Good(q) /\ Still(dbg, q)
        BY <1>1, <3>1, SetPcGood, SetPcOk
      <3>4. Follows(q, told)
        BY <1>1, <3>3, StillFine DEF Follows
      <3>5. Good(s) /\ Follows(s, told)
        BY <3>2, <3>3, <3>4, StepOverLoss
      <3>6. QED
        BY <1>1, <2>1, <3>2, <3>5, StopLoss
    <2>6. QED
      BY <2>2, <2>3, <2>4, <2>5
  <1>4. QED
    BY <1>2, <1>3

LEMMA LoopLoss == Inv /\ LossInv /\ (PollLost \/ Reattach \/ PollStop \/ PollGuard) => LossInv'
  <1> SUFFICES ASSUME Inv, LossInv, PollLost \/ Reattach \/ PollStop \/ PollGuard PROVE LossInv'
    OBVIOUS
  <1>1. /\ Good(dbg) /\ dbg \in Debugger /\ Follows(dbg, told)
        /\ phase \in Sessions /\ "prompt" \in Sessions /\ "cont" \in Sessions /\ "lost" \in Sessions
    BY FollowsNow DEF PollLost, Reattach, PollStop, PollGuard, Halted, Sessions
  <1>2. CASE PollLost
    <2>1. PICK o \in IF Reach(dbg) THEN Fault(dbg) ELSE {dbg} :
            Reply([o EXCEPT !.err = FALSE], "lost", told)
      BY <1>2 DEF PollLost
    <2> DEFINE q == [o EXCEPT !.err = FALSE]
    <2>2. Keeps(dbg, o) /\ (o.reset = dbg.reset) /\ (Reach(dbg) \/ o = dbg)
      <3>1. CASE Reach(dbg)
        BY <1>1, <2>1, <3>1, FaultKeeps DEF Fault, Debugger
      <3>2. CASE ~Reach(dbg)
        BY <1>1, <2>1, <3>2 DEF Keeps, SameTables
      <3>3. QED
        BY <3>1, <3>2
    <2>3. q \in Debugger /\ SameTables(dbg, q) /\ q.hw = dbg.hw /\ q.reset = dbg.reset
          /\ (Reach(dbg) \/ q.link = dbg.link)
      BY <2>2 DEF Keeps, SameTables, Debugger
    <2>4. Reply(q, "lost", told)
      BY <2>1
    <2> HIDE DEF q
    <2>5. Follows(q, told)
      BY <1>1, <2>3, RelinkFine DEF Follows, Calm
    <2>6. QED
      BY <1>1, <2>3, <2>4, <2>5, ReplyLoss
  <1>3. CASE Reattach
    <2> DEFINE back == [dbg EXCEPT !.link = "up"]
               look == {back} \cup Fault(back)
    <2>1. PICK o \in IF dbg.reset THEN Then(Then(look, AfterReset), ResumeHart) ELSE look :
            Reply(o, IF o.err THEN "prompt" ELSE "cont", told)
      BY <1>3 DEF Reattach
    <2>2. back \in Debugger /\ SameTables(dbg, back) /\ back.hw = dbg.hw /\ back.reset = dbg.reset
      BY <1>1 DEF Debugger, SameTables
    <2> HIDE DEF back
    <2>3. Good(back) /\ \A l \in look : Good(l) /\ (~l.err => l = back)
      BY <1>1, <2>2, OtherFields, FaultGood, FaultKeeps
    <2> HIDE DEF look
    <2>4. (IF o.err THEN "prompt" ELSE "cont") \in Sessions
      BY <1>1
    <2>5. CASE dbg.reset /\ o.err
      <3>1. \E l \in look : o = l \/ o \in AfterReset(l) \/ \E a \in AfterReset(l) : o \in ResumeHart(a)
        BY <2>1, <2>5 DEF Then, Ok, Bad
      <3>2. o \in Debugger
        BY <2>3, <3>1, AfterResetGood, TargetGood DEF Good
      <3>3. QED
        BY <1>1, <2>1, <2>4, <2>5, <3>2, ReplyLoss
    <2>6. CASE dbg.reset /\ ~o.err
      <3>1. PICK l \in look : ~l.err /\ \E a \in AfterReset(l) : ~a.err /\ o \in ResumeHart(a)
        BY <2>1, <2>6 DEF Then, Ok, Bad
      <3>2. PICK a \in AfterReset(back) : ~a.err /\ o \in ResumeHart(a)
        BY <2>3, <3>1
      <3>3. Good(a)
        BY <2>3, <3>2, AfterResetGood
      <3>4. ASSUME NEW xs \in SUBSET Points, NEW strict \in BOOLEAN, Calm(xs, strict)
            PROVE  Fine(a, xs, strict) /\ Tracked(a, told)
        <4>1. Rest(back) /\ Tracked(dbg, told)
          BY <2>2, <2>6, <3>4 DEF Calm, Fine, Blank, Rest
        <4>2. SameTables(back, a) /\ ~a.reset /\ InStep(a, {}, FALSE) /\ Rest(a)
          BY <2>3, <3>2, <4>1, AfterResetOk
        <4>3. QED
          BY <2>2, <4>1, <4>2, InStepAll DEF Tracked, SameTables, Entries
      <3>5. QED
        BY <1>1, <2>1, <3>2, <3>3, <3>4, ResumeLoss DEF Follows
    <2>7. CASE ~dbg.reset
      <3>1. o \in look
        BY <2>1, <2>7
      <3>2. Follows(back, told)
        BY <1>1, <2>2, <2>7, RelinkFine DEF Follows, Calm
      <3>3. QED
        BY <1>1, <2>1, <2>3, <2>4, <3>1, <3>2, ReplyLoss DEF Good
    <2>8. QED
      BY <2>5, <2>6, <2>7
  <1>4. CASE PollStop
    BY <1>1, <1>4, StopLoss DEF PollStop
  <1>5. CASE PollGuard
    <2>1. PICK s \in StepOver(dbg) :
            IF s.err THEN Reply(s, "prompt", told)
            ELSE IF s.cause = "step"
            THEN \E o \in ResumeHart(s) : Reply(o, IF o.err THEN "prompt" ELSE "cont", told)
            ELSE \E o \in StopReply(s) : Reply(o, "prompt", told)
      BY <1>5 DEF PollGuard
    <2>2. Good(s) /\ (~s.err => Follows(s, told))
      BY <1>1, StepOverLoss
    <2>3. CASE s.err
      BY <1>1, <2>1, <2>2, <2>3, ReplyLoss DEF Good
    <2>4. CASE ~s.err /\ s.cause = "step"
      BY <1>1, <2>1, <2>2, <2>4, ResumeLoss
    <2>5. CASE ~s.err /\ s.cause # "step"
      BY <1>1, <2>1, <2>2, <2>5, StopLoss
    <2>6. QED
      BY <2>3, <2>4, <2>5
  <1>6. QED
    BY <1>2, <1>3, <1>4, <1>5

LEMMA TargetLoss ==
    ASSUME LossInv, NEW o, Target(o),
           \A xs, strict : Fine(dbg, xs, strict) => Fine(o, xs, strict),
           Tracked(dbg, told) => Tracked(o, told),
           ~alarm /\ phase = "closed" => o.hart = "running"
    PROVE  LossInv'
  <1>1. dbg' = o /\ phase' = phase /\ told' = told /\ inherited' = inherited /\ seen' = seen /\ alarm' = alarm
    BY DEF Target, ghosts
  <1>2. ~alarm' => /\ Fine(dbg', {}, TRUE) /\ Tracked(dbg', told')
                   /\ phase' = "closed" => dbg'.hart = "running"
    BY <1>1 DEF LossInv
  <1>3. ~seen' /\ phase' \in Sessions => Fine(dbg', inherited', FALSE) /\ Tracked(dbg', told')
    BY <1>1 DEF LossInv
  <1>4. QED
    BY <1>2, <1>3, LossPrime

\* A closed session has no trigger that could fire.
LEMMA ClosedBlank ==
    ASSUME NEW m, Good(m), Empty(m), Fine(m, {}, TRUE)
    PROVE  Blank(m)
  BY DEF Empty, Fine, InStep, Rest, Blank

LEMMA EnvironmentLoss == Inv /\ LossInv /\ Environment => LossInv'
  <1> SUFFICES ASSUME Inv, LossInv, Environment PROVE LossInv'
    OBVIOUS
  <1>1. dbg \in Debugger /\ Good(dbg)
    BY DEF Inv, Good
  <1>2. ASSUME ~alarm
        PROVE  Fine(dbg, {}, TRUE) /\ Tracked(dbg, told) /\ (phase = "closed" => dbg.hart = "running")
    BY <1>2 DEF LossInv
  <1>3. ASSUME NEW i \in Slots, TriggerFires(i)
        PROVE  LossInv'
    <2>1. PICK p \in Places : Target([dbg EXCEPT !.hart = "halted", !.pc = p, !.cause = "trigger"])
      BY <1>3 DEF TriggerFires
    <2> DEFINE o == [dbg EXCEPT !.hart = "halted", !.pc = p, !.cause = "trigger"]
    <2>2. Still(dbg, o)
      BY <1>1 DEF Debugger, Still, SameTables
    <2>3. Target(o)
      BY <2>1
    <2> HIDE DEF o
    <2>4. ASSUME ~alarm PROVE phase # "closed"
      <3>1. SUFFICES ASSUME phase = "closed" PROVE FALSE
        OBVIOUS
      <3>2. Blank(dbg)
        BY <1>1, <1>2, <2>4, <3>1, ClosedBlank DEF Inv
      <3>3. QED
        BY <1>3, <3>2 DEF TriggerFires, Blank
    <2>5. QED
      BY <1>2, <2>2, <2>3, <2>4, StillFine, TargetLoss
  <1>4. CASE ChipReset
    <2> DEFINE o == [dbg EXCEPT !.hw = [i \in Slots |-> Off], !.reset = TRUE, !.link = "down",
                                !.hart = "running", !.pc = Elsewhere, !.cause = "other"]
    <2>1. /\ SameTables(dbg, o) /\ o.hw = [i \in Slots |-> Off] /\ o.reset /\ o.link = "down"
          /\ o.hart = "running"
      BY <1>1 DEF Debugger, SameTables
    <2>2. Target(o)
      BY <1>4 DEF ChipReset
    <2> HIDE DEF o
    <2>3. \A xs, strict : Fine(o, xs, strict)
      BY <2>1 DEF Fine, Blank
    <2>4. Tracked(dbg, told) => Tracked(o, told)
      BY <2>1 DEF Tracked, SameTables, Entries
    <2>5. QED
      BY <1>2, <2>1, <2>2, <2>3, <2>4, TargetLoss
  <1>5. ASSUME NEW l \in {"down", "stale"}, Target([dbg EXCEPT !.link = l])
        PROVE  LossInv'
    <2> DEFINE o == [dbg EXCEPT !.link = l]
    <2>1. /\ SameTables(dbg, o) /\ o.hw = dbg.hw /\ o.reset = dbg.reset /\ o.link = l
          /\ o.hart = dbg.hart
      BY <1>1 DEF Debugger, SameTables
    <2>2. Target(o)
      BY <1>5
    <2> HIDE DEF o
    <2>3. \A xs, strict : Fine(dbg, xs, strict) => Fine(o, xs, strict)
      <3>1. AllTriggers(o) = AllTriggers(dbg)
        BY <2>1 DEF SameTables, AllTriggers, ExecSlots, WatchSlots, ExcSlots
      <3>2. QED
        BY <1>5, <2>1, <3>1 DEF Fine, Blank, InStep, Rest, SameTables
    <2>4. Tracked(dbg, told) => Tracked(o, told)
      BY <2>1 DEF Tracked, SameTables, Entries
    <2>5. QED
      BY <1>2, <2>1, <2>2, <2>3, <2>4, TargetLoss
  <1>6. QED
    BY <1>3, <1>4, <1>5 DEF Environment, PinsAway, PinsBack

LEMMA LossInit == Init => LossInv
  <1> SUFFICES ASSUME Init PROVE LossInv
    OBVIOUS
  <1>1. Good(dbg) /\ Empty(dbg)
    BY InvInit DEF Inv, Init
  <1>2. Blank(dbg) /\ ~dbg.reset /\ dbg.hart = "running"
    BY DEF Init, Blank
  <1>3. Fine(dbg, {}, TRUE)
    BY <1>1, <1>2, EmptyFine
  <1>4. Tracked(dbg, told)
    BY DEF Init, Tracked
  <1>5. QED
    BY <1>2, <1>3, <1>4 DEF LossInv, Init, Sessions

LEMMA LossNext == Inv /\ LossInv /\ [Next]_vars => LossInv'
  <1> SUFFICES ASSUME Inv, LossInv, [Next]_vars PROVE LossInv'
    OBVIOUS
  <1>1. CASE Serve
    <2>1. CASE Accept
      BY <2>1, AcceptLoss
    <2>2. CASE Disconnect
      BY <2>2, DisconnectLoss
    <2>3. CASE Detach
      BY <2>3, DetachLoss
    <2>4. CASE Kill
      BY <2>4, KillLoss
    <2>5. CASE Interrupt
      BY <2>5, InterruptLoss
    <2>6. CASE MonitorReset
      BY <2>6, MonitorResetLoss
    <2>7. CASE CatchExceptions \/ ExceptionsOff
      BY <2>7, ExceptionsLoss
    <2>8. ASSUME NEW a \in Addrs, InsertBreakpoint(a) \/ RemoveBreakpoint(a) PROVE LossInv'
      BY <2>8, BreakpointLoss
    <2>9. ASSUME NEW w \in Watches, InsertWatchpoint(w) \/ RemoveWatchpoint(w) PROVE LossInv'
      BY <2>9, WatchpointLoss
    <2>10. ASSUME NEW p \in Places \cup {NoPc}, Continue(p) \/ Step(p) PROVE LossInv'
      BY <2>10, ContinueLoss, StepLoss
    <2>11. QED
      BY <1>1, <2>1, <2>2, <2>3, <2>4, <2>5, <2>6, <2>7, <2>8, <2>9, <2>10 DEF Serve
  <1>2. CASE Loop
    BY <1>2, LoopLoss, InterruptLoss DEF Loop
  <1>3. CASE Environment
    BY <1>3, EnvironmentLoss
  <1>4. CASE UNCHANGED vars
    BY <1>4 DEF vars, ghosts, LossInv, Fine, Tracked, InStep, Blank, Rest, AllTriggers, ExecSlots, WatchSlots,
                ExcSlots, Entries
  <1>5. QED
    BY <1>1, <1>2, <1>3, <1>4 DEF Next

\* What the invariants say of the stops that GDB was told are set.
LEMMA TrackedArmed ==
    ASSUME NEW xs, NEW q \in Points \ xs, Tracked(dbg, {q}), InStep(dbg, xs, FALSE)
    PROVE  Armed(q)
  <1>1. CASE q \in Addrs
    BY <1>1 DEF Armed, Tracked, InStep
  <1>2. CASE q \in Watches
    BY <1>2, PointsAssumption DEF Armed, Tracked, InStep
  <1>3. CASE q = "exceptions"
    BY <1>3, PointsAssumption DEF Armed, Tracked, InStep
  <1>4. QED
    BY <1>1, <1>2, <1>3 DEF Points

\* do_continue waits for a running hart only with every stop that GDB was told
\* about programmed in the slots, as long as no command of this session failed
\* and whatever failed before it: StepOver puts back what it cleared,
\* after_reset programs what the reset emptied, and nothing reaches the target
\* between the two.  Excepted are the entries that a failed cleanup left to
\* this session, each until it has been removed once.
THEOREM NoStopLost == Spec => []NoSilentLoss
  <1>1. ASSUME Inv, LossInv PROVE NoSilentLoss
    <2>1. SUFFICES ASSUME Waiting, ~seen, NEW q \in told \ inherited
                   PROVE  Armed(q)
      BY DEF NoSilentLoss
    <2>2. InStep(dbg, inherited, FALSE) /\ Tracked(dbg, told)
      BY <1>1, <2>1 DEF Waiting, Sessions, LossInv, Fine
    <2>3. q \in Points \ inherited
      BY <1>1, <2>1 DEF Inv
    <2>4. Tracked(dbg, {q})
      BY <2>1, <2>2 DEF Tracked
    <2>5. QED
      BY <2>2, <2>3, <2>4, TrackedArmed
  <1>2. QED
    BY <1>1, InvInit, NextInv, LossInit, LossNext, PTL DEF Spec

\* serve() leaves the hart running and every slot empty at the end of a session
\* in which nothing failed, whatever was set, reset or killed in it.
THEOREM CleanDisconnect == Spec => []CleanEnd
  <1>1. ASSUME Inv, LossInv PROVE CleanEnd
    <2>1. SUFFICES ASSUME phase = "closed", ~alarm
                   PROVE  dbg.hart = "running" /\ \A i \in Slots : dbg.hw[i] = Off
      BY DEF CleanEnd
    <2>2. Good(dbg) /\ Empty(dbg) /\ Fine(dbg, {}, TRUE) /\ dbg.hart = "running"
      BY <1>1, <2>1 DEF Inv, LossInv
    <2>3. QED
      BY <2>2, ClosedBlank DEF Blank
  <1>2. QED
    BY <1>1, InvInit, NextInv, LossInit, LossNext, PTL DEF Spec
-----------------------------------------------------------------------------
(***************************************************************************)
(* BlockedNeverRuns, for every number of slots, breakpoints,               *)
(* watchpoints and faults: no handler lets the hart go with a watchpoint   *)
(* whose slots are uncertain.                                              *)
(*                                                                         *)
(* c and s look at blocked first, and do_continue's loop runs only with    *)
(* nothing blocked, because what fails in it ends it.  The other handlers  *)
(* that let the hart go (D, k, the cleanup of serve) do so after clear()   *)
(* has emptied the table, and from then on nothing is left to be blocked.  *)
(***************************************************************************)

\* The debugger is a record.
Rec(m) == DOMAIN m = {"hw", "bps", "wps", "blocked", "exc", "stop", "hart", "pc",
                      "cause", "reset", "link", "faults", "err"}

\* No watchpoint, so that none can be blocked.
Bare(m) == m.blocked = {} /\ Entries(m) = {}

\* Nothing but slots, errors and stops has changed.
Quiet(m, o) == Rec(o) /\ o.hart = m.hart /\ o.blocked = m.blocked /\ o.wps = m.wps

\* Where nothing fails the blocked watchpoints are the same.
SteadyBlocked(m, o) == Rec(o) /\ (~o.err => o.blocked = m.blocked)

\* The hart runs afterwards only if it ran before, or if no watchpoint is left.
LetsGo(m, o) ==
    /\ Rec(o) /\ (Bare(m) => Bare(o))
    /\ o.hart = "running" => m.hart = "running" \/ Bare(o)

LEMMA QuietFacts ==
    ASSUME NEW m, NEW o, Quiet(m, o)
    PROVE  Rec(o) /\ SteadyBlocked(m, o) /\ LetsGo(m, o)
  BY DEF Quiet, SteadyBlocked, LetsGo, Bare, Entries

LEMMA QuietTrans ==
    ASSUME NEW m, NEW o, NEW q, Quiet(m, o), Quiet(o, q)
    PROVE  Quiet(m, q)
  BY DEF Quiet

LEMMA LetsGoTrans ==
    ASSUME NEW m, NEW o, NEW q, LetsGo(m, o), LetsGo(o, q)
    PROVE  LetsGo(m, q)
  BY DEF LetsGo

-----------------------------------------------------------------------------
(* Accesses to the target. *)

LEMMA ExceptQuiet ==
    ASSUME NEW m, Rec(m), NEW x, NEW y
    PROVE  /\ Quiet(m, m)
           /\ Quiet(m, [m EXCEPT !.err = x]) /\ [m EXCEPT !.err = x].err = x
           /\ [m EXCEPT !.err = x].reset = m.reset
           /\ Quiet(m, [m EXCEPT !.hw = x])
           /\ Quiet(m, [m EXCEPT !.stop = x])
           /\ Quiet(m, [m EXCEPT !.stop = x, !.reset = y])
           /\ Quiet(m, [m EXCEPT !.bps = x])
           /\ Quiet(m, [m EXCEPT !.exc = x])
           /\ Quiet(m, [m EXCEPT !.pc = x])
           /\ Quiet(m, [m EXCEPT !.reset = x])
           /\ Quiet(m, [m EXCEPT !.link = x])
  BY DEF Rec, Quiet

LEMMA FaultQuiet ==
    ASSUME NEW m, Rec(m), NEW o \in Fault(m)
    PROVE  Quiet(m, o) /\ o.err /\ o.reset = m.reset
  BY DEF Fault, Rec, Quiet

LEMMA FailsQuiet ==
    ASSUME NEW m, Rec(m), NEW o \in Fails(m)
    PROVE  Quiet(m, o) /\ o.err
  <1>1. CASE CanDebug(m)
    BY <1>1, FaultQuiet DEF Fails
  <1>2. CASE ~CanDebug(m)
    BY <1>2 DEF Fails, Rec, Quiet
  <1>3. QED
    BY <1>1, <1>2

LEMMA AccessQuiet ==
    ASSUME NEW m, Rec(m), NEW o \in Access(m)
    PROVE  Quiet(m, o)
  BY FailsQuiet, ExceptQuiet DEF Access

LEMMA WriteSlotsQuiet ==
    ASSUME NEW m, Rec(m), NEW want, NEW o \in WriteSlots(m, want)
    PROVE  Quiet(m, o)
  <1> DEFINE all == [m EXCEPT !.hw = Overwrite(m.hw, want)]
             part(done, i, c) ==
               [m EXCEPT !.hw = Overwrite(m.hw, [j \in done \cup {i} |-> IF j = i THEN c ELSE want[j]])]
  <1>1. CASE DOMAIN want = {}
    BY <1>1, ExceptQuiet DEF WriteSlots
  <1>2. CASE DOMAIN want # {} /\ ~CanDebug(m)
    BY <1>2, FailsQuiet DEF WriteSlots
  <1>3. CASE DOMAIN want # {} /\ CanDebug(m)
    <2>1. o = all \/ \E done, i, c : o \in Fault(part(done, i, c))
      <3>1. o \in {all} \cup UNION {UNION {UNION {
                Fault(part(done, i, c)) : c \in {m.hw[i], Off, want[i]}}
                    : done \in SUBSET (DOMAIN want \ {i})} : i \in DOMAIN want}
        BY <1>3 DEF WriteSlots
      <3> HIDE DEF all, part
      <3>2. CASE o # all
        <4>1. PICK i \in DOMAIN want : o \in UNION {UNION {
                Fault(part(done, i, c)) : c \in {m.hw[i], Off, want[i]}}
                    : done \in SUBSET (DOMAIN want \ {i})}
          BY <3>1, <3>2
        <4>2. PICK done \in SUBSET (DOMAIN want \ {i}) :
                o \in UNION {Fault(part(done, i, c)) : c \in {m.hw[i], Off, want[i]}}
          BY <4>1
        <4>3. QED
          BY <4>2
      <3>3. QED
        BY <3>2
    <2>2. Quiet(m, all) /\ \A done, i, c : Quiet(m, part(done, i, c))
      BY DEF Rec, Quiet
    <2> HIDE DEF all, part
    <2>3. QED
      BY <2>1, <2>2, FaultQuiet, QuietFacts, QuietTrans
  <1>4. QED
    BY <1>1, <1>2, <1>3

\* Letting the hart go leaves the watchpoints alone.
LEMMA ResumeSteady ==
    ASSUME NEW m, Rec(m), NEW o \in ResumeHart(m)
    PROVE  Rec(o) /\ o.blocked = m.blocked /\ o.wps = m.wps
  <1> DEFINE run == [m EXCEPT !.hart = "running", !.pc = Elsewhere, !.cause = "other"]
  <1>1. Rec(run) /\ run.blocked = m.blocked /\ run.wps = m.wps
    BY DEF Rec
  <1>2. o = run \/ o \in Fault(run) \/ o \in Fails(m)
    BY DEF ResumeHart
  <1> HIDE DEF run
  <1>3. QED
    BY <1>1, <1>2, FaultQuiet, FailsQuiet DEF Quiet

LEMMA StepSteady ==
    ASSUME NEW m, Rec(m), NEW o \in StepHart(m)
    PROVE  Rec(o) /\ o.blocked = m.blocked
  <1> DEFINE run == [m EXCEPT !.hart = "running", !.pc = Elsewhere, !.cause = "other"]
             there == {[m EXCEPT !.pc = x[1], !.cause = x[2]] : x \in Places \X {"step", "other"}}
  <1>1. Rec(run) /\ run.blocked = m.blocked
    BY DEF Rec
  <1>2. \A t \in there : Rec(t) /\ t.blocked = m.blocked
    BY DEF Rec
  <1>3. o \in there \/ o \in Fault(run) \/ (\E t \in there : o \in Fault(t)) \/ o \in Fails(m)
    BY DEF StepHart
  <1> HIDE DEF run, there
  <1>4. QED
    BY <1>1, <1>2, <1>3, FaultQuiet, FailsQuiet DEF Quiet

LEMMA HaltGo ==
    ASSUME NEW m, Rec(m), NEW o \in HaltHart(m)
    PROVE  LetsGo(m, o) /\ SteadyBlocked(m, o)
  <1> DEFINE asked == [m EXCEPT !.reset = FALSE]
             there == IF m.hart = "halted" THEN {asked}
                      ELSE {[asked EXCEPT !.hart = "halted", !.pc = p, !.cause = "haltreq"] : p \in Places}
             Tame(t) == Rec(t) /\ t.blocked = m.blocked /\ t.wps = m.wps
                        /\ (t.hart = "running" => m.hart = "running")
  <1>1. Tame(m) /\ Tame(asked) /\ Tame([m EXCEPT !.err = TRUE])
    BY DEF Rec
  <1>2. \A t \in there : Tame(t)
    BY DEF Rec
  <1>3. \/ o \in there
        \/ \E t \in there \cup {m, asked} : o \in Fault(t)
        \/ o = [m EXCEPT !.err = TRUE]
    BY DEF HaltHart
  <1>4. Tame(o)
    <2>1. ASSUME NEW t, Tame(t), o \in Fault(t) PROVE Tame(o)
      BY <2>1, FaultQuiet DEF Quiet
    <2> HIDE DEF asked, there, Tame
    <2>2. QED
      BY <1>1, <1>2, <1>3, <2>1
  <1>5. QED
    BY <1>4 DEF LetsGo, SteadyBlocked, Bare, Entries

-----------------------------------------------------------------------------
(* Watchpoints. *)

LEMMA RemoveWatchHart ==
    ASSUME NEW m, Rec(m), NEW w, NEW o \in RemoveWatch(m, w)
    PROVE  Rec(o) /\ o.hart = m.hart
  <1> DEFINE D == WriteSlots(m, Cleared(m.wps[w]))
  <1>1. \A d \in D : Quiet(m, d)
    BY WriteSlotsQuiet
  <1>2. \/ \E d \in D : o = [d EXCEPT !.blocked = @ \cup {w}]
        \/ \E d \in D : o = [d EXCEPT !.wps[w] = {}, !.blocked = @ \ {w}]
    BY DEF RemoveWatch, Ok, Bad
  <1> HIDE DEF D
  <1>3. QED
    BY <1>1, <1>2 DEF Quiet, Rec

LEMMA InsertWatchHart ==
    ASSUME NEW m, Rec(m), NEW w, NEW o \in InsertWatch(m, w)
    PROVE  Rec(o) /\ o.hart = m.hart
  <1> DEFINE owned == [m EXCEPT !.wps[w] = LowestFree(m, Need[w])]
             D == WriteSlots(owned, ArmedWatch(owned, w))
             undone(b) == [b EXCEPT !.blocked = @ \cup {w}, !.err = FALSE]
  <1>1. Rec(owned) /\ owned.hart = m.hart
    BY DEF Rec
  <1>2. \/ o \in D
        \/ \E b \in D : \E r \in RemoveWatch(undone(b), w) : o = [r EXCEPT !.err = TRUE]
    BY DEF InsertWatch, Ok, Bad
  <1>3. \A d \in D : Rec(d) /\ d.hart = m.hart
    <2> HIDE DEF owned
    <2> QED BY <1>1, WriteSlotsQuiet DEF Quiet
  <1>4. \A b \in D : Rec(undone(b)) /\ undone(b).hart = m.hart
    <2> HIDE DEF D
    <2> QED BY <1>3 DEF Rec
  <1> HIDE DEF D, undone
  <1>5. ASSUME NEW b \in D, NEW r \in RemoveWatch(undone(b), w), o = [r EXCEPT !.err = TRUE]
        PROVE  Rec(o) /\ o.hart = m.hart
    BY <1>4, <1>5, RemoveWatchHart DEF Rec
  <1>6. QED
    BY <1>2, <1>3, <1>5

\* disable() and enable(): they block a watchpoint only where they fail, and
\* only one that there is.
Programs(m, o) ==
    /\ Rec(o) /\ o.hart = m.hart /\ (~o.err => Quiet(m, o))
    /\ Entries(m) = {} => Quiet(m, o)

LEMMA ProgramsFacts ==
    ASSUME NEW m, NEW o, Programs(m, o)
    PROVE  SteadyBlocked(m, o) /\ LetsGo(m, o)
  BY DEF Programs, SteadyBlocked, LetsGo, Quiet, Bare, Entries

LEMMA ProgramsTrans ==
    ASSUME NEW m, NEW a, NEW o, Programs(m, a), ~a.err, Programs(a, o)
    PROVE  Programs(m, o)
  BY DEF Programs, Quiet, Entries

\* One watchpoint after the other, where the first that fails is blocked.
LEMMA EachPrograms ==
    ASSUME NEW m, Rec(m), NEW w \in Entries(m), NEW h, NEW want,
           NEW d \in WriteSlots([m EXCEPT !.hw = h], want), d.err,
           NEW o, o = [d EXCEPT !.blocked = @ \cup {w}]
    PROVE  Programs(m, o)
  <1>1. Quiet(m, [m EXCEPT !.hw = h]) /\ Rec([m EXCEPT !.hw = h])
    BY ExceptQuiet DEF Quiet
  <1>2. Quiet([m EXCEPT !.hw = h], d)
    BY <1>1, WriteSlotsQuiet
  <1>3. Rec(o) /\ o.hart = m.hart /\ o.err = d.err
    BY <1>1, <1>2 DEF Quiet, Rec
  <1>4. QED
    BY <1>3 DEF Programs

LEMMA DisableWatchesPrograms ==
    ASSUME NEW m, Rec(m), NEW o \in DisableWatches(m)
    PROVE  Programs(m, o)
  <1> DEFINE all == WriteSlots(m, Cleared(WatchSlots(m)))
             until(before, w) ==
                [m EXCEPT !.hw = Overwrite(m.hw, Cleared(UNION {m.wps[v] : v \in before}))]
             D(before, w) == WriteSlots(until(before, w), Cleared(m.wps[w]))
  <1>1. \A d \in all : Programs(m, d)
    BY WriteSlotsQuiet DEF Programs, Quiet
  <1>2. ASSUME NEW w \in Entries(m), NEW before, NEW d \in Bad(D(before, w)),
               o = [d EXCEPT !.blocked = @ \cup {w}]
        PROVE  Programs(m, o)
    BY <1>2, EachPrograms DEF Bad
  <1>3. o \in Ok(all) \cup
          UNION {UNION {{[x EXCEPT !.blocked = @ \cup {w}] : x \in Bad(D(before, w))}
              : before \in SUBSET (Entries(m) \ {w})} : w \in Entries(m)}
    BY DEF DisableWatches
  <1> HIDE DEF all, D
  <1>4. CASE o \in Ok(all)
    BY <1>1, <1>4 DEF Ok
  <1>5. CASE o \notin Ok(all)
    <2>1. PICK w \in Entries(m) :
            o \in UNION {{[x EXCEPT !.blocked = @ \cup {w}] : x \in Bad(D(before, w))}
              : before \in SUBSET (Entries(m) \ {w})}
      BY <1>3, <1>5
    <2>2. PICK before \in SUBSET (Entries(m) \ {w}) :
            o \in {[x EXCEPT !.blocked = @ \cup {w}] : x \in Bad(D(before, w))}
      BY <2>1
    <2>3. QED
      BY <1>2, <2>2
  <1>6. QED
    BY <1>4, <1>5

LEMMA EnableWatchesPrograms ==
    ASSUME NEW m, Rec(m), NEW o \in EnableWatches(m)
    PROVE  Programs(m, o)
  <1> DEFINE all == WriteSlots(m, ArmedWatches(m, Watches))
             until(before) == [m EXCEPT !.hw = Overwrite(m.hw, ArmedWatches(m, before))]
             D(before, w) == WriteSlots(until(before), ArmedWatch(m, w))
  <1>1. \A d \in all : Programs(m, d)
    BY WriteSlotsQuiet DEF Programs, Quiet
  <1>2. ASSUME NEW w \in Entries(m), NEW before, NEW d \in Bad(D(before, w)),
               o = [d EXCEPT !.blocked = @ \cup {w}]
        PROVE  Programs(m, o)
    BY <1>2, EachPrograms DEF Bad
  <1>3. o \in Ok(all) \cup
          UNION {UNION {{[x EXCEPT !.blocked = @ \cup {w}] : x \in Bad(D(before, w))}
              : before \in SUBSET (Entries(m) \ {w})} : w \in Entries(m)}
    BY DEF EnableWatches
  <1> HIDE DEF all, D
  <1>4. CASE o \in Ok(all)
    BY <1>1, <1>4 DEF Ok
  <1>5. CASE o \notin Ok(all)
    <2>1. PICK w \in Entries(m) :
            o \in UNION {{[x EXCEPT !.blocked = @ \cup {w}] : x \in Bad(D(before, w))}
              : before \in SUBSET (Entries(m) \ {w})}
      BY <1>3, <1>5
    <2>2. PICK before \in SUBSET (Entries(m) \ {w}) :
            o \in {[x EXCEPT !.blocked = @ \cup {w}] : x \in Bad(D(before, w))}
      BY <2>1
    <2>3. QED
      BY <1>2, <2>2
  <1>6. QED
    BY <1>4, <1>5

\* clear() leaves no watchpoint, or the hart as it was.
LEMMA ClearWatchesGo ==
    ASSUME NEW m, Rec(m), NEW o \in ClearWatches(m)
    PROVE  LetsGo(m, o) /\ o.hart = m.hart /\ (~o.err => Bare(o))
  <1> DEFINE all == WriteSlots(m, Cleared(WatchSlots(m)))
             none == [w \in Watches |-> {}]
             removed(before) ==
               [m EXCEPT !.hw = Overwrite(m.hw, Cleared(UNION {m.wps[v] : v \in before})),
                         !.wps = [v \in Watches |-> IF v \in before THEN {} ELSE m.wps[v]],
                         !.blocked = @ \ before]
  <1>1. ASSUME NEW d \in Ok(all), o = [d EXCEPT !.wps = none, !.blocked = {}]
        PROVE  Rec(o) /\ o.hart = m.hart /\ Bare(o)
    <2>1. Quiet(m, d)
      BY <1>1, WriteSlotsQuiet DEF Ok
    <2>2. Rec(o) /\ o.hart = m.hart /\ o.blocked = {} /\ o.wps = none
      BY <1>1, <2>1 DEF Quiet, Rec
    <2>3. QED
      BY <2>2 DEF Bare, Entries
  <1>2. ASSUME NEW w \in Entries(m), NEW before, o \in Bad(RemoveWatch(removed(before), w))
        PROVE  Rec(o) /\ o.hart = m.hart /\ o.err /\ Entries(m) # {}
    <2>1. Rec(removed(before)) /\ removed(before).hart = m.hart
      BY DEF Rec
    <2> HIDE DEF removed
    <2>2. QED
      BY <1>2, <2>1, RemoveWatchHart DEF Bad
  <1>3. o \in {[d EXCEPT !.wps = none, !.blocked = {}] : d \in Ok(all)} \cup
          UNION {UNION {Bad(RemoveWatch(removed(before), w))
              : before \in SUBSET (Entries(m) \ {w})} : w \in Entries(m)}
    BY DEF ClearWatches
  <1> HIDE DEF all, removed, none
  <1>4. CASE o \in {[d EXCEPT !.wps = none, !.blocked = {}] : d \in Ok(all)}
    BY <1>1, <1>4 DEF LetsGo
  <1>5. CASE o \notin {[d EXCEPT !.wps = none, !.blocked = {}] : d \in Ok(all)}
    <2>1. PICK w \in Entries(m) :
            o \in UNION {Bad(RemoveWatch(removed(before), w)) : before \in SUBSET (Entries(m) \ {w})}
      BY <1>3, <1>5
    <2>2. PICK before : o \in Bad(RemoveWatch(removed(before), w))
      BY <2>1
    <2>3. QED
      BY <1>2, <2>2 DEF LetsGo, Bare
  <1>6. QED
    BY <1>4, <1>5

-----------------------------------------------------------------------------
(* The helpers of the server. *)

LEMMA QuietPrograms ==
    ASSUME NEW m, NEW o, Quiet(m, o)
    PROVE  Programs(m, o)
  BY DEF Quiet, Programs

LEMMA DisableTriggersPrograms ==
    ASSUME NEW m, Rec(m), NEW o \in DisableTriggers(m)
    PROVE  Programs(m, o)
  <1> DEFINE D == WriteSlots(m, Cleared(ExecSlots(m) \cup ExcSlots(m)))
  <1>1. \A d \in D : Programs(m, d) /\ Rec(d)
    BY WriteSlotsQuiet, QuietPrograms DEF Quiet
  <1>2. o \in D \/ \E d \in D : ~d.err /\ o \in DisableWatches(d)
    BY DEF DisableTriggers, Then, Ok, Bad
  <1> HIDE DEF D
  <1>3. QED
    BY <1>1, <1>2, DisableWatchesPrograms, ProgramsTrans

LEMMA EnableTriggersPrograms ==
    ASSUME NEW m, Rec(m), NEW o \in EnableTriggers(m)
    PROVE  Programs(m, o)
  <1> DEFINE D == WriteSlots(m, ArmedBps(m))
  <1>1. \A d \in D : Programs(m, d) /\ Rec(d)
    BY WriteSlotsQuiet, QuietPrograms DEF Quiet
  <1>2. \/ o \in D
        \/ \E d \in D : ~d.err /\ o \in EnableWatches(d)
        \/ \E d \in D : \E e \in EnableWatches(d) : ~d.err /\ ~e.err /\ o \in ArmException(e)
    BY DEF EnableTriggers, Then, Ok, Bad
  <1> HIDE DEF D
  <1>3. ASSUME NEW d \in D, ~d.err, NEW e \in EnableWatches(d)
        PROVE  Programs(m, e) /\ Rec(e)
    BY <1>1, <1>3, EnableWatchesPrograms, ProgramsTrans DEF Programs
  <1>4. ASSUME NEW e, Rec(e), NEW x \in ArmException(e)
        PROVE  Programs(e, x)
    BY <1>4, WriteSlotsQuiet, QuietPrograms DEF ArmException
  <1>5. QED
    BY <1>1, <1>2, <1>3, <1>4, ProgramsTrans

\* A step refuses, fails, or had nothing blocked and still has not.
LEMMA StepOverSteady ==
    ASSUME NEW m, Rec(m), NEW o \in StepOver(m)
    PROVE  Rec(o) /\ (~o.err => o.blocked = {} /\ m.blocked = {})
  <1> DEFINE displaced(d) == Then(Access(d), StepHart)
             finally(t) == {[e EXCEPT !.err = @ \/ t.err] : e \in EnableTriggers([t EXCEPT !.err = FALSE])}
             body(d) == UNION {finally(t) : t \in displaced(d)}
  <1>1. CASE m.blocked # {}
    BY <1>1, ExceptQuiet DEF StepOver, Quiet
  <1>2. ASSUME NEW d, Rec(d), NEW t \in displaced(d)
        PROVE  Rec(t) /\ t.blocked = d.blocked
    <2>1. t \in Access(d) \/ \E a \in Access(d) : t \in StepHart(a)
      BY <1>2 DEF Then, Ok, Bad
    <2>2. QED
      BY <1>2, <2>1, AccessQuiet, StepSteady DEF Quiet
  <1>3. ASSUME NEW t, Rec(t), NEW x \in finally(t)
        PROVE  Rec(x) /\ (~x.err => x.blocked = t.blocked)
    <2>1. PICK e \in EnableTriggers([t EXCEPT !.err = FALSE]) : x = [e EXCEPT !.err = @ \/ t.err]
      BY <1>3
    <2>2. Rec([t EXCEPT !.err = FALSE]) /\ [t EXCEPT !.err = FALSE].blocked = t.blocked
      BY <1>3, ExceptQuiet DEF Quiet
    <2>3. SteadyBlocked([t EXCEPT !.err = FALSE], e)
      BY <2>2, EnableTriggersPrograms, ProgramsFacts
    <2>4. x = [e EXCEPT !.err = e.err \/ t.err]
      BY <2>1
    <2>5. Rec(e)
      BY <2>3 DEF SteadyBlocked
    <2>6. Rec(x) /\ x.blocked = e.blocked /\ x.err = (e.err \/ t.err)
      BY <2>4, <2>5 DEF Rec
    <2>7. QED
      BY <2>2, <2>3, <2>6 DEF SteadyBlocked
  <1>4. CASE m.blocked = {}
    <2>1. o \in Then(DisableTriggers(m), body)
      BY <1>4 DEF StepOver
    <2>2. o \in Bad(DisableTriggers(m)) \/ \E d \in DisableTriggers(m) : ~d.err /\ o \in body(d)
      <3> HIDE DEF finally, displaced
      <3> QED BY <2>1 DEF Then, Ok
    <2>3. CASE o \in Bad(DisableTriggers(m))
      BY <2>3, DisableTriggersPrograms DEF Programs, Bad
    <2>4. CASE \E d \in DisableTriggers(m) : ~d.err /\ o \in body(d)
      <3>1. PICK d \in DisableTriggers(m) : ~d.err /\ o \in body(d)
        BY <2>4
      <3>2. PICK t \in displaced(d) : o \in finally(t)
        <4> HIDE DEF finally, displaced
        <4> QED BY <3>1
      <3>3. Rec(d) /\ d.blocked = {}
        BY <1>4, <3>1, DisableTriggersPrograms, ProgramsFacts DEF SteadyBlocked
      <3> HIDE DEF finally, displaced
      <3>4. QED
        BY <1>2, <1>3, <1>4, <3>2, <3>3
    <2>5. QED
      BY <2>2, <2>3, <2>4
  <1>5. QED
    BY <1>1, <1>4

LEMMA StopReplyQuiet ==
    ASSUME NEW m, Rec(m), NEW o \in StopReply(m)
    PROVE  Quiet(m, o)
  <1>1. \/ o \in Access(m)
        \/ \E a \in Access(m) : o = a \/ o = [a EXCEPT !.stop = a.pc]
    BY DEF StopReply, Then, Ok, Bad
  <1>2. \A a \in Access(m) : Rec(a) /\ Quiet(m, a)
    BY AccessQuiet DEF Quiet
  <1>3. ASSUME NEW a \in Access(m), o = [a EXCEPT !.stop = a.pc]
        PROVE  Quiet(m, o)
    BY <1>2, <1>3 DEF Quiet, Rec
  <1>4. QED
    BY <1>1, <1>2, <1>3

LEMMA AfterResetGo ==
    ASSUME NEW m, Rec(m), NEW o \in AfterReset(m)
    PROVE  LetsGo(m, o) /\ SteadyBlocked(m, o)
  <1> DEFINE D == IF m.hart = "halted" THEN Access(m) ELSE HaltHart(m)
             zero(d) == [d EXCEPT !.stop = NoPc, !.reset = FALSE]
  <1>1. \A d \in D : LetsGo(m, d) /\ SteadyBlocked(m, d)
    BY AccessQuiet, QuietFacts, HaltGo
  <1>2. o \in D \/ \E d \in D : ~d.err /\ o \in EnableTriggers(zero(d))
    BY DEF AfterReset, Then, Ok, Bad
  <1>3. ASSUME NEW d, Rec(d) PROVE Quiet(d, zero(d))
    BY <1>3, ExceptQuiet
  <1> HIDE DEF D, zero
  <1>4. ASSUME NEW d \in D, ~d.err, o \in EnableTriggers(zero(d))
        PROVE  LetsGo(m, o) /\ SteadyBlocked(m, o)
    <2>1. Quiet(d, zero(d)) /\ Rec(zero(d)) /\ LetsGo(d, zero(d))
      BY <1>1, <1>3, QuietFacts DEF SteadyBlocked
    <2>2. Programs(zero(d), o)
      BY <1>4, <2>1, EnableTriggersPrograms
    <2>3. LetsGo(zero(d), o) /\ SteadyBlocked(zero(d), o)
      BY <2>2, ProgramsFacts
    <2>4. LetsGo(m, o)
      BY <1>1, <2>1, <2>3, LetsGoTrans
    <2>5. QED
      BY <1>1, <1>4, <2>1, <2>3, <2>4 DEF SteadyBlocked, Quiet
  <1>5. QED
    BY <1>1, <1>2, <1>4

\* The hart is let go with no watchpoint left.
LEMMA BareResume ==
    ASSUME NEW m, Rec(m), Bare(m), NEW o \in ResumeHart(m)
    PROVE  Rec(o) /\ Bare(o)
  BY ResumeSteady DEF Bare, Entries

LEMMA ReleaseGo ==
    ASSUME NEW m, Rec(m), NEW o \in Release(m)
    PROVE  LetsGo(m, o)
  <1> DEFINE bare(d)    == [d EXCEPT !.bps = [a \in Addrs |-> NoSlot]]
             gone(d)    == [d EXCEPT !.exc = NoSlot]
             watches(d) == ClearWatches(bare(d))
             go(d)      == ResumeHart(gone(d))
             D == DisableTriggers(m)
             E == Then(D, watches)
  <1>1. \A d \in D : LetsGo(m, d)
    BY DisableTriggersPrograms, ProgramsFacts
  <1>2. ASSUME NEW d, Rec(d) PROVE Quiet(d, bare(d)) /\ Quiet(d, gone(d))
    BY <1>2, ExceptQuiet
  <1>3. o \in Bad(E) \/ \E e \in Ok(E) : o \in go(e)
    <2>1. o \in Then(E, go)
      BY DEF Release
    <2> HIDE DEF E, go
    <2>2. QED
      BY <2>1 DEF Then
  <1> HIDE DEF D, bare, gone
  <1>4. ASSUME NEW e \in E
        PROVE  LetsGo(m, e) /\ (~e.err => Bare(e))
    <2>1. e \in Bad(D) \/ \E d \in D : e \in ClearWatches(bare(d))
      BY <1>4 DEF Then, Ok, Bad
    <2>2. ASSUME NEW d \in D, e \in ClearWatches(bare(d))
          PROVE  LetsGo(m, e) /\ (~e.err => Bare(e))
      <3>1. LetsGo(m, d) /\ Rec(d)
        BY <1>1 DEF LetsGo
      <3>2. Rec(bare(d)) /\ LetsGo(d, bare(d))
        BY <1>2, <3>1, QuietFacts
      <3>3. LetsGo(bare(d), e) /\ (~e.err => Bare(e))
        BY <2>2, <3>2, ClearWatchesGo
      <3>4. QED
        BY <3>1, <3>2, <3>3, LetsGoTrans
    <2>3. QED
      BY <1>1, <2>1, <2>2 DEF Bad
  <1> HIDE DEF E
  <1>5. ASSUME NEW e \in Ok(E), o \in go(e) PROVE LetsGo(m, o)
    <2>1. Rec(e) /\ Bare(e)
      BY <1>4, <1>5 DEF Ok, LetsGo
    <2>2. Rec(gone(e)) /\ Bare(gone(e))
      BY <1>2, <2>1 DEF Quiet, Bare, Entries
    <2>3. QED
      BY <1>5, <2>2, BareResume DEF LetsGo
  <1>6. QED
    BY <1>3, <1>4, <1>5 DEF Bad

LEMMA CleanupGo ==
    ASSUME NEW m, Rec(m), NEW o \in Cleanup(m)
    PROVE  LetsGo(m, o)
  <1> DEFINE halt == IF m.hart = "halted" THEN {m} ELSE HaltHart(m)
  <1>1. \A h \in halt : LetsGo(m, h)
    BY HaltGo, ExceptQuiet, QuietFacts
  <1>2. o = [m EXCEPT !.err = TRUE] \/ o \in halt \/ \E h \in halt : o \in Release(h)
    BY DEF Cleanup, Then, Ok, Bad
  <1>3. LetsGo(m, [m EXCEPT !.err = TRUE])
    BY ExceptQuiet, QuietFacts
  <1> HIDE DEF halt
  <1>4. ASSUME NEW h \in halt, o \in Release(h) PROVE LetsGo(m, o)
    <2>1. LetsGo(m, h) /\ Rec(h)
      BY <1>1 DEF LetsGo
    <2>2. QED
      BY <1>4, <2>1, ReleaseGo, LetsGoTrans
  <1>5. QED
    BY <1>1, <1>2, <1>3, <1>4

\* Cleanup after a handler that raised.
LEMMA CleanupAfter ==
    ASSUME NEW m, NEW o, LetsGo(m, o), NEW q \in Cleanup([o EXCEPT !.err = FALSE])
    PROVE  LetsGo(m, q)
  <1>1. Rec(o)
    BY DEF LetsGo
  <1>2. Rec([o EXCEPT !.err = FALSE]) /\ LetsGo(o, [o EXCEPT !.err = FALSE])
    BY <1>1, ExceptQuiet, QuietFacts
  <1>3. QED
    BY <1>2, CleanupGo, LetsGoTrans

-----------------------------------------------------------------------------
(* The handlers. *)

\* do_continue waits only with nothing blocked.
GoInv == Rec(dbg) /\ (phase \in {"cont", "lost"} => dbg.blocked = {})

\* What a handler ends with, as BlockedNeverRuns sees it.
GoFine(o) ==
    /\ Rec(o)
    /\ dbg.hart = "halted" /\ o.hart = "running" /\ ~o.reset => dbg.blocked = {} \/ o.blocked = {}
StepGoes == dbg.hart = "halted" /\ dbg'.hart = "running" /\ ~dbg'.reset
            => dbg.blocked = {} \/ dbg'.blocked = {}
Held == GoInv' /\ StepGoes

LEMMA FineGo == ASSUME NEW o, LetsGo(dbg, o) PROVE GoFine(o)
  BY DEF LetsGo, GoFine, Bare

LEMMA FineFree == ASSUME NEW o, Rec(o), dbg.blocked = {} PROVE GoFine(o)
  BY DEF GoFine

LEMMA ReplyHeld ==
    ASSUME NEW o, GoFine(o), NEW p, NEW t, p \in {"cont", "lost"} => o.blocked = {}, Reply(o, p, t)
    PROVE  Held
  <1>1. dbg' = [o EXCEPT !.err = FALSE] /\ phase' = p
    BY DEF Reply
  <1>2. Rec(dbg') /\ dbg'.hart = o.hart /\ dbg'.blocked = o.blocked /\ dbg'.reset = o.reset
    BY <1>1, ExceptQuiet DEF GoFine, Quiet
  <1>3. Rec(dbg)'
    BY <1>2 DEF Rec
  <1>4. QED
    BY <1>1, <1>2, <1>3 DEF Held, GoInv, StepGoes, GoFine

LEMMA EndedHeld ==
    ASSUME NEW D, \A o \in D : GoFine(o), NEW raised, Ended(D, raised)
    PROVE  Held
  <1>1. PICK o \in D : /\ dbg' = [o EXCEPT !.err = FALSE]
                       /\ phase' = IF o.err THEN "failed" ELSE "closed"
    BY DEF Ended
  <1>2. Rec(dbg') /\ dbg'.hart = o.hart /\ dbg'.blocked = o.blocked /\ dbg'.reset = o.reset
    BY <1>1, ExceptQuiet DEF GoFine, Quiet
  <1>3. Rec(dbg)' /\ phase' \notin {"cont", "lost"} /\ GoFine(o)
    BY <1>1, <1>2 DEF Rec
  <1>4. QED
    BY <1>2, <1>3 DEF Held, GoInv, StepGoes, GoFine

LEMMA AcceptHeld == ASSUME GoInv, Accept PROVE Held
  <1>1. PICK o \in Then(HaltHart(dbg), Access) :
            IF o.err THEN Ended(Cleanup([o EXCEPT !.err = FALSE]), TRUE) ELSE Reply(o, "prompt", {})
    BY DEF Accept
  <1>2. o \in HaltHart(dbg) \/ \E h \in HaltHart(dbg) : o \in Access(h)
    BY DEF Then, Ok, Bad
  <1>3. \A h \in HaltHart(dbg) : LetsGo(dbg, h) /\ Rec(h)
    BY HaltGo DEF GoInv, SteadyBlocked
  <1>4. LetsGo(dbg, o)
    BY <1>2, <1>3, AccessQuiet, QuietFacts, LetsGoTrans
  <1>5. CASE o.err
    BY <1>1, <1>4, <1>5, CleanupAfter, FineGo, EndedHeld
  <1>6. CASE ~o.err
    BY <1>1, <1>4, <1>6, FineGo, ReplyHeld
  <1>7. QED
    BY <1>5, <1>6

LEMMA EndHeld == ASSUME GoInv, Disconnect \/ Detach \/ Kill PROVE Held
  <1>1. CASE Disconnect
    BY <1>1, CleanupGo, FineGo, EndedHeld DEF Disconnect, GoInv
  <1>2. CASE Detach
    <2>1. PICK o \in Release(dbg) : Ended(Cleanup([o EXCEPT !.err = FALSE]), o.err)
      BY <1>2 DEF Detach
    <2>2. LetsGo(dbg, o)
      BY ReleaseGo DEF GoInv
    <2>3. QED
      BY <2>1, <2>2, CleanupAfter, FineGo, EndedHeld
  <1>3. CASE Kill
    <2> DEFINE bare(d) == [d EXCEPT !.bps = [a \in Addrs |-> NoSlot]]
               go(d)   == ResumeHart(bare(d))
               D == DisableTriggers(dbg)
               E == Then(D, ClearWatches)
    <2>1. PICK o \in Then(E, go) : Ended(Cleanup([o EXCEPT !.err = FALSE]), o.err)
      BY <1>3 DEF Kill
    <2>2. \A d \in D : LetsGo(dbg, d) /\ Rec(d)
      BY DisableTriggersPrograms, ProgramsFacts DEF GoInv, SteadyBlocked
    <2>3. ASSUME NEW d, Rec(d) PROVE Quiet(d, bare(d))
      BY <2>3, ExceptQuiet
    <2> HIDE DEF D, bare
    <2>4. ASSUME NEW e \in E PROVE LetsGo(dbg, e) /\ (~e.err => Bare(e))
      <3>1. e \in Bad(D) \/ \E d \in D : e \in ClearWatches(d)
        BY <2>4 DEF Then, Ok, Bad
      <3>2. ASSUME NEW d \in D, e \in ClearWatches(d)
            PROVE  LetsGo(dbg, e) /\ (~e.err => Bare(e))
        BY <2>2, <3>2, ClearWatchesGo, LetsGoTrans
      <3>3. QED
        BY <2>2, <3>1, <3>2 DEF Bad
    <2> HIDE DEF E
    <2>5. o \in Bad(E) \/ \E e \in Ok(E) : o \in ResumeHart(bare(e))
      BY <2>1 DEF Then
    <2>6. ASSUME NEW e \in Ok(E), o \in ResumeHart(bare(e)) PROVE LetsGo(dbg, o)
      <3>1. Rec(e) /\ Bare(e)
        BY <2>4, <2>6 DEF Ok, LetsGo
      <3>2. Rec(bare(e)) /\ Bare(bare(e))
        BY <2>3, <3>1 DEF Quiet, Bare, Entries
      <3>3. QED
        BY <2>6, <3>2, BareResume DEF LetsGo
    <2>7. LetsGo(dbg, o)
      BY <2>4, <2>5, <2>6 DEF Bad
    <2>8. QED
      BY <2>1, <2>7, CleanupAfter, FineGo, EndedHeld
  <1>4. QED
    BY <1>1, <1>2, <1>3

LEMMA InterruptHeld == ASSUME GoInv, Interrupt \/ InterruptRunning PROVE Held
  <1>1. ASSUME NEW o \in Then(HaltHart(dbg), StopReply) PROVE LetsGo(dbg, o)
    <2>1. o \in HaltHart(dbg) \/ \E h \in HaltHart(dbg) : o \in StopReply(h)
      BY <1>1 DEF Then, Ok, Bad
    <2>2. \A h \in HaltHart(dbg) : LetsGo(dbg, h) /\ Rec(h)
      BY HaltGo DEF GoInv, SteadyBlocked
    <2>3. QED
      BY <2>1, <2>2, StopReplyQuiet, QuietFacts, LetsGoTrans
  <1>2. CASE InterruptRunning
    BY <1>1, <1>2, FineGo, ReplyHeld DEF InterruptRunning
  <1>3. CASE Interrupt
    <2>1. PICK o \in Then(HaltHart(dbg), StopReply) :
            IF o.err THEN Ended(Cleanup([o EXCEPT !.err = FALSE]), TRUE) ELSE Reply(o, "prompt", told)
      BY <1>3 DEF Interrupt
    <2>2. LetsGo(dbg, o)
      BY <1>1
    <2>3. CASE o.err
      BY <2>1, <2>2, <2>3, CleanupAfter, FineGo, EndedHeld
    <2>4. CASE ~o.err
      BY <2>1, <2>2, <2>4, FineGo, ReplyHeld
    <2>5. QED
      BY <2>3, <2>4
  <1>4. QED
    BY <1>2, <1>3

\* After a reset that raised the hart runs with empty slots and havereset set.
LEMMA MonitorResetHeld == ASSUME GoInv, MonitorReset PROVE Held
  <1> DEFINE gone == [dbg EXCEPT !.hw = [i \in Slots |-> Off], !.pc = Elsewhere, !.cause = "other"]
             there == [gone EXCEPT !.hart = "halted", !.cause = "haltreq", !.reset = FALSE]
             lost == [gone EXCEPT !.hart = "running", !.reset = TRUE]
  <1>1. Rec(there) /\ there.hart = "halted" /\ Rec(lost) /\ lost.reset = TRUE /\ Rec(dbg)
    BY DEF Rec, GoInv
  <1>2. ASSUME NEW r \in ResetHalt(dbg)
        PROVE  GoFine(r) /\ Rec(r) /\ (~r.err => r.hart = "halted")
    <2>1. r = there \/ r \in Fault(dbg) \/ r \in Fault(there) \/ r \in Fault(lost) \/ r = [dbg EXCEPT !.err = TRUE]
      BY <1>2 DEF ResetHalt
    <2> HIDE DEF there, lost
    <2>2. CASE r = there
      BY <1>1, <2>2 DEF GoFine
    <2>3. CASE r \in Fault(dbg)
      BY <1>1, <2>3, FaultQuiet DEF GoFine, Quiet
    <2>4. CASE r \in Fault(there)
      BY <1>1, <2>4, FaultQuiet DEF GoFine, Quiet
    <2>5. CASE r \in Fault(lost)
      BY <1>1, <2>5, FaultQuiet DEF GoFine, Quiet
    <2>6. CASE r = [dbg EXCEPT !.err = TRUE]
      BY <1>1, <2>6 DEF GoFine, Rec
    <2>7. QED
      BY <2>1, <2>2, <2>3, <2>4, <2>5, <2>6
  <1>3. PICK o \in Then(ResetHalt(dbg), AfterReset) : Reply(o, "prompt", told)
    BY DEF MonitorReset
  <1>4. o \in ResetHalt(dbg) \/ \E r \in ResetHalt(dbg) : ~r.err /\ o \in AfterReset(r)
    BY DEF Then, Ok, Bad
  <1>5. ASSUME NEW r \in ResetHalt(dbg), ~r.err, o \in AfterReset(r) PROVE GoFine(o)
    <2>1. LetsGo(r, o) /\ r.hart = "halted"
      BY <1>2, <1>5, AfterResetGo
    <2>2. QED
      BY <2>1 DEF LetsGo, GoFine, Bare
  <1>6. QED
    BY <1>2, <1>3, <1>4, <1>5, ReplyHeld

\* What only programs slots leaves the hart alone.
LEMMA FineStill == ASSUME NEW o, Rec(o), o.hart = dbg.hart PROVE GoFine(o)
  BY DEF GoFine

LEMMA TablesHeld ==
    ASSUME GoInv,
           \/ CatchExceptions \/ ExceptionsOff
           \/ \E a \in Addrs : InsertBreakpoint(a) \/ RemoveBreakpoint(a)
           \/ \E w \in Watches : InsertWatchpoint(w) \/ RemoveWatchpoint(w)
    PROVE  Held
  <1>1. PICK o, t : Reply(o, "prompt", t) /\ Rec(o) /\ o.hart = dbg.hart
    <2>0. Rec(dbg)
      BY DEF GoInv
    <2>1. CASE CatchExceptions
      <3>1. CASE dbg.exc # NoSlot
        BY <2>0, <2>1, <3>1 DEF CatchExceptions
      <3>2. CASE dbg.exc = NoSlot
        <4>1. PICK i \in LowestFree(dbg, 1) : \E o \in WriteSlots(dbg, [j \in {i} |-> Exec(ExcAddr)]) :
                IF o.err THEN Reply(o, "prompt", told)
                ELSE Reply([o EXCEPT !.exc = i], "prompt", told \cup {"exceptions"})
          BY <2>1, <3>2 DEF CatchExceptions
        <4>2. PICK o \in WriteSlots(dbg, [j \in {i} |-> Exec(ExcAddr)]) :
                IF o.err THEN Reply(o, "prompt", told)
                ELSE Reply([o EXCEPT !.exc = i], "prompt", told \cup {"exceptions"})
          BY <4>1
        <4>3. Quiet(dbg, o) /\ Rec(o)
          BY <2>0, WriteSlotsQuiet DEF Quiet
        <4>4. Quiet(o, [o EXCEPT !.exc = i])
          BY <4>3, ExceptQuiet
        <4>5. QED
          BY <4>2, <4>3, <4>4 DEF Quiet
      <3>3. QED
        BY <3>1, <3>2
    <2>2. CASE ExceptionsOff
      <3>1. PICK o \in WriteSlots(dbg, Cleared({dbg.exc})) :
              Reply(IF o.err THEN o ELSE [o EXCEPT !.exc = NoSlot], "prompt", told \ {"exceptions"})
        BY <2>2 DEF ExceptionsOff
      <3>2. Quiet(dbg, o) /\ Rec(o)
        BY <2>0, WriteSlotsQuiet DEF Quiet
      <3>3. Quiet(o, [o EXCEPT !.exc = NoSlot])
        BY <3>2, ExceptQuiet
      <3>4. QED
        BY <3>1, <3>2, <3>3 DEF Quiet
    <2>3. ASSUME NEW a \in Addrs, InsertBreakpoint(a)
          PROVE  \E o, t : Reply(o, "prompt", t) /\ Rec(o) /\ o.hart = dbg.hart
      <3>1. CASE dbg.bps[a] # NoSlot
        BY <2>0, <2>3, <3>1 DEF InsertBreakpoint
      <3>2. CASE dbg.bps[a] = NoSlot
        <4>1. PICK i \in LowestFree(dbg, 1) : \E o \in WriteSlots(dbg, [j \in {i} |-> Exec(a)]) :
                IF o.err THEN Reply(o, "prompt", told)
                ELSE Reply([o EXCEPT !.bps[a] = i], "prompt", told \cup {a})
          BY <2>3, <3>2 DEF InsertBreakpoint
        <4>2. PICK o \in WriteSlots(dbg, [j \in {i} |-> Exec(a)]) :
                IF o.err THEN Reply(o, "prompt", told)
                ELSE Reply([o EXCEPT !.bps[a] = i], "prompt", told \cup {a})
          BY <4>1
        <4>3. Quiet(dbg, o) /\ Rec(o)
          BY <2>0, WriteSlotsQuiet DEF Quiet
        <4>4. Quiet(o, [o EXCEPT !.bps[a] = i])
          BY <4>3 DEF Quiet, Rec
        <4>5. QED
          BY <4>2, <4>3, <4>4 DEF Quiet
      <3>3. QED
        BY <3>1, <3>2
    <2>4. ASSUME NEW a \in Addrs, RemoveBreakpoint(a)
          PROVE  \E o, t : Reply(o, "prompt", t) /\ Rec(o) /\ o.hart = dbg.hart
      <3> DEFINE m == [dbg EXCEPT !.bps[a] = NoSlot]
      <3>1. Rec(m) /\ m.hart = dbg.hart
        BY <2>0 DEF Rec
      <3>2. PICK o \in WriteSlots(m, Cleared({dbg.bps[a]})) : Reply(o, "prompt", told \ {a})
        BY <2>4 DEF RemoveBreakpoint
      <3> HIDE DEF m
      <3>3. Quiet(m, o)
        BY <3>1, WriteSlotsQuiet
      <3>4. QED
        BY <3>1, <3>2, <3>3 DEF Quiet
    <2>5. ASSUME NEW w \in Watches, InsertWatchpoint(w)
          PROVE  \E o, t : Reply(o, "prompt", t) /\ Rec(o) /\ o.hart = dbg.hart
      <3>1. CASE w \in Entries(dbg)
        <4>1. Rec([dbg EXCEPT !.err = TRUE]) /\ [dbg EXCEPT !.err = TRUE].hart = dbg.hart
          BY <2>0, ExceptQuiet DEF Quiet
        <4>2. QED
          BY <2>0, <2>5, <3>1, <4>1 DEF InsertWatchpoint
      <3>2. CASE w \notin Entries(dbg)
        BY <2>0, <2>5, <3>2, InsertWatchHart DEF InsertWatchpoint
      <3>3. QED
        BY <3>1, <3>2
    <2>6. ASSUME NEW w \in Watches, RemoveWatchpoint(w)
          PROVE  \E o, t : Reply(o, "prompt", t) /\ Rec(o) /\ o.hart = dbg.hart
      BY <2>0, <2>6, RemoveWatchHart DEF RemoveWatchpoint
    <2>7. QED
      BY <2>1, <2>2, <2>3, <2>4, <2>5, <2>6
  <1>2. QED
    BY <1>1, FineStill, ReplyHeld

LEMMA SetPcQuiet ==
    ASSUME NEW m, Rec(m), NEW p, NEW o \in SetPc(m, p)
    PROVE  Quiet(m, o)
  <1>1. CASE p = NoPc
    BY <1>1, ExceptQuiet DEF SetPc
  <1>2. CASE p # NoPc
    <2>1. PICK a \in Access(m) : o = IF a.err THEN a ELSE [a EXCEPT !.pc = p]
      BY <1>2 DEF SetPc
    <2>2. Quiet(m, a) /\ Rec(a)
      BY AccessQuiet DEF Quiet
    <2>3. Quiet(a, [a EXCEPT !.pc = p])
      BY <2>2, ExceptQuiet
    <2>4. QED
      BY <2>1, <2>2, <2>3, QuietTrans
  <1>3. QED
    BY <1>1, <1>2

LEMMA RefuseHeld == ASSUME GoInv, Refuse PROVE Held
  <1>1. Rec([dbg EXCEPT !.err = TRUE]) /\ [dbg EXCEPT !.err = TRUE].hart = dbg.hart
    BY ExceptQuiet DEF GoInv, Quiet
  <1>2. QED
    BY <1>1, FineStill, ReplyHeld DEF Refuse

LEMMA ContinueHeld == ASSUME GoInv, NEW p, Continue(p) PROVE Held
  <1> DEFINE started(o) == \E r \in ResumeHart([o EXCEPT !.stop = NoPc]) :
                               Reply(r, IF r.err THEN "prompt" ELSE "cont", told)
             stepFirst(o) == ExecutionBreakpointAt(o, o.pc) \/ o.pc = o.stop
             D == Then(SetPc(dbg, p), Access)
  <1>1. CASE ~MayRun(dbg)
    BY <1>1, RefuseHeld DEF Continue
  <1>2. CASE MayRun(dbg)
    <2>1. dbg.blocked = {} /\ Rec(dbg)
      BY <1>2 DEF MayRun, GoInv
    <2>2. ASSUME NEW o, Rec(o), o.blocked = {}, started(o) PROVE Held
      <3>1. PICK r \in ResumeHart([o EXCEPT !.stop = NoPc]) :
              Reply(r, IF r.err THEN "prompt" ELSE "cont", told)
        BY <2>2
      <3>2. Rec([o EXCEPT !.stop = NoPc]) /\ [o EXCEPT !.stop = NoPc].blocked = {}
        BY <2>2 DEF Rec
      <3>3. Rec(r) /\ r.blocked = {}
        BY <3>2, ResumeSteady
      <3>4. QED
        BY <2>1, <3>1, <3>3, FineFree, ReplyHeld
    <2>3. \E o \in D :
                IF o.err THEN Reply(o, "prompt", told)
                ELSE IF ~stepFirst(o) THEN started(o)
                ELSE \E s \in StepOver(o) :
                    IF s.err THEN Reply(s, "prompt", told)
                    ELSE IF s.cause = "step" THEN started(s)
                    ELSE \E r \in StopReply(s) : Reply(r, "prompt", told)
      BY <1>2 DEF Continue
    <2>4. ASSUME NEW o \in D PROVE Rec(o) /\ o.blocked = {}
      <3>1. o \in SetPc(dbg, p) \/ \E q \in SetPc(dbg, p) : o \in Access(q)
        BY <2>4 DEF Then, Ok, Bad
      <3>2. QED
        BY <2>1, <3>1, SetPcQuiet, AccessQuiet DEF Quiet
    <2> HIDE DEF D, started, stepFirst
    <2>5. PICK o \in D :
                IF o.err THEN Reply(o, "prompt", told)
                ELSE IF ~stepFirst(o) THEN started(o)
                ELSE \E s \in StepOver(o) :
                    IF s.err THEN Reply(s, "prompt", told)
                    ELSE IF s.cause = "step" THEN started(s)
                    ELSE \E r \in StopReply(s) : Reply(r, "prompt", told)
      BY <2>3
    <2>6. CASE o.err
      BY <2>1, <2>4, <2>5, <2>6, FineFree, ReplyHeld
    <2>7. CASE ~o.err /\ ~stepFirst(o)
      BY <2>2, <2>4, <2>5, <2>7
    <2>8. CASE ~o.err /\ stepFirst(o)
      <3>1. PICK s \in StepOver(o) :
                    IF s.err THEN Reply(s, "prompt", told)
                    ELSE IF s.cause = "step" THEN started(s)
                    ELSE \E r \in StopReply(s) : Reply(r, "prompt", told)
        BY <2>5, <2>8
      <3>2. Rec(s) /\ (~s.err => s.blocked = {})
        BY <2>4, StepOverSteady
      <3>3. \A r \in StopReply(s) : Rec(r)
        BY <3>2, StopReplyQuiet DEF Quiet
      <3>4. QED
        BY <2>1, <2>2, <3>1, <3>2, <3>3, FineFree, ReplyHeld
    <2>9. QED
      BY <2>6, <2>7, <2>8
  <1>3. QED
    BY <1>1, <1>2

LEMMA StepHeld == ASSUME GoInv, NEW p, Step(p) PROVE Held
  <1>1. CASE ~MayRun(dbg)
    BY <1>1, RefuseHeld DEF Step
  <1>2. CASE MayRun(dbg)
    <2>1. dbg.blocked = {} /\ Rec(dbg)
      BY <1>2 DEF MayRun, GoInv
    <2>2. PICK o \in Then(Then(SetPc(dbg, p), StepOver), StopReply) : Reply(o, "prompt", told)
      BY <1>2 DEF Step
    <2>3. \/ o \in SetPc(dbg, p)
          \/ \E q \in SetPc(dbg, p) : o \in StepOver(q)
          \/ \E q \in SetPc(dbg, p) : \E s \in StepOver(q) : o \in StopReply(s)
      BY DEF Then, Ok, Bad
    <2>4. \A q \in SetPc(dbg, p) : Rec(q)
      BY <2>1, SetPcQuiet DEF Quiet
    <2>5. Rec(o)
      BY <2>3, <2>4, StepOverSteady, StopReplyQuiet DEF Quiet
    <2>6. QED
      BY <2>1, <2>2, <2>5, FineFree, ReplyHeld
  <1>3. QED
    BY <1>1, <1>2

LEMMA LoopHeld == ASSUME GoInv, PollLost \/ Reattach \/ PollStop \/ PollGuard PROVE Held
  <1>1. dbg.blocked = {} /\ Rec(dbg)
    BY DEF GoInv, PollLost, Reattach, PollStop, PollGuard, Halted
  <1>2. CASE PollLost
    <2>1. PICK o \in IF Reach(dbg) THEN Fault(dbg) ELSE {dbg} :
            Reply([o EXCEPT !.err = FALSE], "lost", told)
      BY <1>2 DEF PollLost
    <2> DEFINE q == [o EXCEPT !.err = FALSE]
    <2>2. Rec(o) /\ o.blocked = {}
      BY <1>1, <2>1, FaultQuiet DEF Quiet
    <2>3. Quiet(o, q)
      BY <2>2, ExceptQuiet, Zenon
    <2>4. Reply(q, "lost", told)
      BY <2>1
    <2> HIDE DEF q
    <2>5. Rec(q) /\ q.blocked = {}
      BY <2>2, <2>3 DEF Quiet
    <2>6. QED
      BY <1>1, <2>4, <2>5, FineFree, ReplyHeld
  <1>3. CASE Reattach
    <2> DEFINE back == [dbg EXCEPT !.link = "up"]
               look == {back} \cup Fault(back)
    <2>1. PICK o \in IF dbg.reset THEN Then(Then(look, AfterReset), ResumeHart) ELSE look :
            Reply(o, IF o.err THEN "prompt" ELSE "cont", told)
      BY <1>3, Zenon DEF Reattach
    <2>2. Rec(back) /\ back.blocked = {}
      BY <1>1 DEF Rec
    <2> HIDE DEF back
    <2>3. \A l \in look : Rec(l) /\ l.blocked = {}
      BY <2>2, FaultQuiet DEF Quiet
    <2> HIDE DEF look
    <2>4. \/ o \in look
          \/ \E l \in look : o \in AfterReset(l)
          \/ \E l \in look : \E r \in AfterReset(l) : ~r.err /\ o \in ResumeHart(r)
      BY <2>1 DEF Then, Ok, Bad
    <2>5. \A l \in look : \A r \in AfterReset(l) : Rec(r) /\ (~r.err => r.blocked = {})
      BY <2>3, AfterResetGo DEF SteadyBlocked
    <2>6. Rec(o) /\ (~o.err => o.blocked = {})
      BY <2>3, <2>4, <2>5, ResumeSteady
    <2>7. QED
      BY <1>1, <2>1, <2>6, FineFree, ReplyHeld
  <1>4. CASE PollStop
    BY <1>1, <1>4, StopReplyQuiet, FineFree, ReplyHeld DEF PollStop, Quiet
  <1>5. CASE PollGuard
    <2>1. PICK s \in StepOver(dbg) :
            IF s.err THEN Reply(s, "prompt", told)
            ELSE IF s.cause = "step"
            THEN \E o \in ResumeHart(s) : Reply(o, IF o.err THEN "prompt" ELSE "cont", told)
            ELSE \E o \in StopReply(s) : Reply(o, "prompt", told)
      BY <1>5 DEF PollGuard
    <2>2. Rec(s) /\ (~s.err => s.blocked = {})
      BY <1>1, StepOverSteady
    <2>3. /\ \A o \in ResumeHart(s) : Rec(o) /\ o.blocked = s.blocked
          /\ \A o \in StopReply(s) : Rec(o)
      BY <2>2, ResumeSteady, StopReplyQuiet DEF Quiet
    <2>4. QED
      BY <1>1, <2>1, <2>2, <2>3, FineFree, ReplyHeld
  <1>6. QED
    BY <1>2, <1>3, <1>4, <1>5

LEMMA EnvironmentHeld == ASSUME GoInv, Environment PROVE Held
  <1>0. Rec(dbg)
    BY DEF GoInv
  <1>1. PICK o : /\ dbg' = o /\ phase' = phase /\ Rec(o) /\ o.blocked = dbg.blocked
                 /\ o.hart = "running" => dbg.hart = "running" \/ o.reset
    <2>1. CASE ChipReset
      <3> DEFINE o == [dbg EXCEPT !.hw = [i \in Slots |-> Off], !.reset = TRUE, !.link = "down",
                                  !.hart = "running", !.pc = Elsewhere, !.cause = "other"]
      <3>1. Rec(o) /\ o.blocked = dbg.blocked /\ o.reset
        BY <1>0 DEF Rec
      <3>2. dbg' = o /\ phase' = phase
        BY <2>1 DEF ChipReset, Target
      <3> HIDE DEF o
      <3>3. QED
        BY <3>1, <3>2
    <2>2. CASE PinsAway \/ PinsBack
      <3>1. PICK l : dbg' = [dbg EXCEPT !.link = l] /\ phase' = phase
        BY <2>2 DEF PinsAway, PinsBack, Target
      <3>2. Quiet(dbg, [dbg EXCEPT !.link = l])
        BY <1>0, ExceptQuiet
      <3>3. QED
        BY <3>1, <3>2 DEF Quiet
    <2>3. CASE \E i \in Slots : TriggerFires(i)
      <3>1. PICK p : dbg' = [dbg EXCEPT !.hart = "halted", !.pc = p, !.cause = "trigger"] /\ phase' = phase
        BY <2>3 DEF TriggerFires, Target
      <3> DEFINE o == [dbg EXCEPT !.hart = "halted", !.pc = p, !.cause = "trigger"]
      <3>2. Rec(o) /\ o.blocked = dbg.blocked /\ o.hart = "halted"
        BY <1>0 DEF Rec
      <3> HIDE DEF o
      <3>3. dbg' = o /\ phase' = phase
        BY <3>1 DEF o
      <3>4. QED
        BY <3>2, <3>3
    <2>4. QED
      BY <2>1, <2>2, <2>3 DEF Environment
  <1>2. Rec(dbg)'
    BY <1>1 DEF Rec
  <1>3. QED
    BY <1>1, <1>2 DEF Held, GoInv, StepGoes

LEMMA NextHeld == ASSUME GoInv, Next PROVE Held
  <1>1. CASE Serve
    <2>1. \/ Accept \/ Disconnect \/ Detach \/ Kill \/ Interrupt \/ MonitorReset
          \/ CatchExceptions \/ ExceptionsOff
          \/ \E a \in Addrs : InsertBreakpoint(a) \/ RemoveBreakpoint(a)
          \/ \E w \in Watches : InsertWatchpoint(w) \/ RemoveWatchpoint(w)
          \/ \E p : Continue(p)
          \/ \E p : Step(p)
      BY <1>1 DEF Serve
    <2>2. QED
      BY <2>1, AcceptHeld, EndHeld, InterruptHeld, MonitorResetHeld, TablesHeld, ContinueHeld, StepHeld
  <1>2. CASE Loop
    BY <1>2, LoopHeld, InterruptHeld DEF Loop
  <1>3. CASE Environment
    BY <1>3, EnvironmentHeld
  <1>4. QED
    BY <1>1, <1>2, <1>3 DEF Next

\* No handler lets the hart go, other than by resetting it, with a watchpoint
\* blocked before and after (c, s, D, k, monitor reset, the loop of do_continue
\* and the cleanup of serve).
THEOREM UncertainNeverRuns == Spec => BlockedNeverRuns
  <1>1. Init => GoInv
    BY DEF Init, GoInv, Rec
  <1>2. GoInv /\ [Next]_vars => GoInv'
    <2>1. GoInv /\ UNCHANGED vars => GoInv'
      BY DEF vars, GoInv, Rec
    <2>2. QED
      BY <2>1, NextHeld DEF Held
  <1>3. GoInv /\ [Next]_vars => [StepGoes]_vars
    BY NextHeld DEF Held
  <1>4. QED
    BY <1>1, <1>2, <1>3, PTL DEF Spec, BlockedNeverRuns, StepGoes
=============================================================================
