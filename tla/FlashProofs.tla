----------------------------- MODULE FlashProofs -----------------------------
(***************************************************************************)
(* Proofs about Flash, for every number of sectors, contents, failures,    *)
(* journals, kills and power losses.                                       *)
(***************************************************************************)
EXTENDS Flash, TLAPS, WellFoundedInduction

LEMMA Smallest ==
    ASSUME NEW T \in SUBSET Nat, T # {}
    PROVE  \E s \in T : \A t \in T : s <= t
  <1> DEFINE R == OpToRel(<, Nat)
  <1>1. R = {p \in Nat \X Nat : p[1] < p[2]}
    BY DEF OpToRel
  <1>2. IsWellFoundedOn(R, Nat)
    BY NatLessThanWellFounded
  <1> HIDE DEF R
  <1>3. PICK s \in T : \A t \in T : ~(<<t, s>> \in R)
    BY <1>2, WFMin
  <1>4. ASSUME NEW t \in T PROVE s <= t
    <2>1. s \in Nat /\ t \in Nat
      OBVIOUS
    <2>2. <<t, s>> \in Nat \X Nat
      BY <2>1
    <2>3. ~(t < s)
      BY <1>1, <1>3, <2>2
    <2>4. QED
      BY <2>1, <2>3
  <1>5. QED
    BY <1>4

LEMMA CurrentIn ==
    ASSUME TypeOK, op.todo # {}
    PROVE  Current \in op.todo /\ Current \in Sectors
  <1>1. op.todo \in SUBSET Sectors /\ Sectors \subseteq Nat
    BY SectorsAssumption DEF TypeOK, Command, Sectors
  <1>2. \E s \in op.todo : \A t \in op.todo : s <= t
    BY <1>1, Smallest
  <1>3. QED
    BY <1>1, <1>2 DEF Current

-----------------------------------------------------------------------------
(* The inductive invariant.                                                *)

Planned == {"backup", "sync", "unlock", "erase", "program", "verify"}
Writing == {"unlock", "erase", "program", "verify"}

\* What a command has done so far: a sector it covers holds what it asked for
\* or is still to be done.
Progress ==
    /\ op.at = "idle" => op.want = Nothing
    /\ op.at \in Planned => op.todo # {} /\ ~op.failing
    /\ op.at \notin Planned /\ ~op.failing => op.todo = {}
    /\ op.at \in {"commit", "status"} => ~op.failing
    /\ op.at = "status" => op.status \in Locks
    /\ \A s \in op.todo : op.want[s] # Keep
    /\ ~op.failing => \A s \in Sectors \ op.todo : op.want[s] \in {Keep, flash[s]}

\* Recoverable is not inductive: a sector about to be erased must have its
\* backup while it is still whole.
Backed ==
    /\ op.at \in {"backup", "sync"} => \A s \in op.todo : op.journal.before[s] = flash[s]
    /\ op.at \in Writing => \A s \in op.todo : HasBackup(s)
    /\ Recoverable

\* NoStaleRun: the Flash is what the hart was reset into unless something
\* forbids it to run, and it is written only under a halted hart.
Guarded ==
    /\ op.at # "idle" => hart = "halted" \/ link = "gone"
    /\ op.at \in Writing \cup {"lock", "commit"} => unsafe
    /\ flash = booted \/ unsafe \/ needsReset \/ (op.at \in {"status", "giveback"} /\ ~op.failing)
    /\ NoStaleRun

Inv == TypeOK /\ Progress /\ Backed /\ Guarded

LEMMA ContentFacts ==
    /\ Blank \in Contents /\ Torn \in Contents /\ Keep \notin Contents
    /\ Values \subseteq Contents
    /\ Nothing \in Requests /\ \A s \in Sectors : Nothing[s] = Keep
    /\ Idle \in Command
    /\ Idle.at = "idle" /\ Idle.todo = {} /\ Idle.want = Nothing /\ ~Idle.failing
  BY ContentsAssumption DEF Contents, Nothing, Requests, Idle, Command, Steps, Locks, Journals

LEMMA OverrideType ==
    ASSUME NEW g \in [Sectors -> Contents], NEW f \in Requests
    PROVE  Override(g, f) \in [Sectors -> Contents]
  BY DEF Override, Requests

LEMMA InvInit == Init => Inv
  <1> SUFFICES ASSUME Init PROVE Inv
    OBVIOUS
  <1>1. flash \in [Sectors -> Contents]
    BY ContentFacts DEF Init
  <1>2. TypeOK
    BY <1>1, ContentFacts DEF Init, TypeOK, Locks
  <1>3. Progress
    BY ContentFacts DEF Init, Progress, Planned
  <1>4. Backed /\ Guarded
    BY ContentFacts DEF Init, Backed, Guarded, Recoverable, Damaged, NoStaleRun, Writing
  <1>5. QED
    BY <1>2, <1>3, <1>4 DEF Inv

-----------------------------------------------------------------------------
(* How a step ends.                                                        *)

MachineOK ==
    /\ needsReset \in BOOLEAN /\ hart \in {"halted", "running"} /\ link \in {"up", "gone"}
    /\ faults \in Nat /\ alarm \in BOOLEAN
    /\ booted \in [Sectors -> Contents] /\ inherited \in SUBSET Sectors

LEMMA FaultFacts ==
    ASSUME TypeOK, Fault
    PROVE  /\ faults' \in Nat /\ link' \in {"up", "gone"} /\ alarm' \in BOOLEAN
           /\ link = "gone" => link' = "gone"
  BY BoundsAssumption DEF TypeOK, Fault

LEMMA WorksFacts ==
    ASSUME TypeOK, Works \/ HostWorks
    PROVE  MachineOK' /\ UNCHANGED <<faults, alarm, target>> /\ link' = link
  BY DEF TypeOK, Works, HostWorks, MachineOK, target

LEMMA RaiseFacts ==
    ASSUME TypeOK, NEW step \in Steps, Raise(step) \/ HostRaise(step)
    PROVE  /\ MachineOK' /\ op' \in Command
           /\ op'.at = step /\ op'.failing
           /\ op'.todo = op.todo /\ op'.want = op.want /\ op'.journal = op.journal /\ op'.status = op.status
           /\ UNCHANGED <<hart, needsReset, booted, inherited>>
           /\ link = "gone" => link' = "gone"
  <1>1. op' = [op EXCEPT !.at = step, !.failing = TRUE]
    BY DEF Raise, HostRaise
  <1>2. UNCHANGED <<hart, needsReset, booted, inherited>>
    BY DEF Raise, HostRaise, target
  <1>3. faults' \in Nat /\ link' \in {"up", "gone"} /\ alarm' \in BOOLEAN /\ (link = "gone" => link' = "gone")
    <2>1. CASE Raise(step)
      BY <2>1, FaultFacts DEF Raise
    <2>2. CASE HostRaise(step)
      BY <2>2, BoundsAssumption DEF HostRaise, target, TypeOK
    <2>3. QED
      BY <2>1, <2>2
  <1>4. QED
    BY <1>1, <1>2, <1>3 DEF TypeOK, Command, MachineOK

LEMMA GotoFacts ==
    ASSUME TypeOK, NEW step \in Steps, Goto(step)
    PROVE  /\ op' \in Command /\ op'.at = step /\ op'.failing = op.failing
           /\ op'.todo = op.todo /\ op'.want = op.want /\ op'.journal = op.journal /\ op'.status = op.status
  BY DEF TypeOK, Command, Goto

\* A step that leaves the Flash and the image alone loses no sector.
LEMMA Kept ==
    ASSUME flash' = flash, image' = image, disk \subseteq disk'
    PROVE  /\ \A s \in Sectors : HasBackup(s) => HasBackup(s)'
           /\ Recoverable => Recoverable'
  <1>1. \A s \in Sectors : HasBackup(s) => HasBackup(s)'
    BY DEF HasBackup
  <1>2. Damaged' = Damaged /\ Damaged \subseteq Sectors
    BY DEF Damaged
  <1>3. QED
    BY <1>1, <1>2 DEF Recoverable

-----------------------------------------------------------------------------
(* Every action keeps the invariant.                                       *)

LEMMA BeginType ==
    ASSUME Inv, NEW want \in Requests, NEW status \in Locks \cup {"none"}, Begin(want, status)
    PROVE  TypeOK'
  <1> DEFINE todo == {s \in Sectors : want[s] \notin {Keep, flash[s]}}
             new  == [before |-> [s \in Sectors |-> IF s \in todo THEN flash[s] ELSE Keep], status |-> prot]
  <1>1. new \in Journals /\ todo \in SUBSET Sectors
    BY DEF Inv, TypeOK, Journals, Requests
  <1>2. image' \in [Sectors -> Contents]
    BY OverrideType DEF Begin, Inv, TypeOK
  <1> HIDE DEF todo
  <1>3. op' \in Command
    <2>1. CASE op' = op
      BY <2>1 DEF Inv, TypeOK
    <2>2. CASE op' = [op EXCEPT !.at = "giveback", !.failing = TRUE]
      BY <2>2 DEF Inv, TypeOK, Command, Steps
    <2>3. CASE op' = [Idle EXCEPT !.at = IF todo = {} THEN AfterApply(status) ELSE "backup",
                                  !.todo = todo, !.want = want, !.journal = new, !.status = status]
      BY <2>3, <1>1, ContentFacts DEF Command, Steps, AfterApply
    <2>4. QED
      BY <2>1, <2>2, <2>3 DEF Begin, Raise, todo
  <1>4. MachineOK'
    <2>1. CASE Works
      BY <2>1, WorksFacts DEF Inv
    <2>2. CASE Raise("giveback")
      BY <2>2, RaiseFacts DEF Inv, Steps
    <2>3. CASE Fault /\ UNCHANGED <<hart, needsReset, booted, inherited>>
      BY <2>3, FaultFacts DEF Inv, TypeOK, MachineOK
    <2>4. QED
      BY <2>1, <2>2, <2>3 DEF Begin
  <1>5. flash' = flash /\ prot' = prot /\ sfc' = sfc /\ disk' = disk /\ unsafe' = unsafe
    BY DEF Begin
  <1>6. QED
    BY <1>2, <1>3, <1>4, <1>5 DEF Inv, TypeOK, MachineOK

LEMMA BeginInv ==
    ASSUME Inv, NEW want \in Requests, NEW status \in Locks \cup {"none"}, Begin(want, status)
    PROVE  Inv'
  <1> DEFINE todo == {s \in Sectors : want[s] \notin {Keep, flash[s]}}
             new  == [before |-> [s \in Sectors |-> IF s \in todo THEN flash[s] ELSE Keep], status |-> prot]
  <1>1. TypeOK'
    BY BeginType
  <1>2. op.at = "idle" /\ hart = "halted" /\ flash' = flash /\ disk' = disk /\ unsafe' = unsafe
        /\ needsReset' = needsReset /\ hart' = hart /\ booted' = booted
    BY DEF Begin, At, Works, Raise, target
  <1>3. CASE Fault /\ op' = op /\ image' = image
    BY <1>1, <1>2, <1>3 DEF Inv, Progress, Backed, Guarded, Recoverable, Damaged, HasBackup, NoStaleRun
  <1>4. CASE Raise("giveback") /\ image' = image
    <2>1. op'.at = "giveback" /\ op'.failing /\ op'.todo = op.todo /\ op'.want = op.want
      BY <1>4 DEF Raise, Inv, TypeOK, Command
    <2>2. QED
      BY <1>1, <1>2, <1>4, <2>1
         DEF Inv, Progress, Planned, Backed, Writing, Guarded, Recoverable, Damaged, HasBackup, NoStaleRun
  <1>5. CASE /\ op' = [Idle EXCEPT !.at = IF todo = {} THEN AfterApply(status) ELSE "backup",
                                   !.todo = todo, !.want = want, !.journal = new, !.status = status]
             /\ image' = IF todo = {} THEN Override(image, want) ELSE image
    <2>1. /\ op'.at = IF todo = {} THEN AfterApply(status) ELSE "backup"
          /\ op'.todo = todo /\ op'.want = want /\ op'.status = status /\ ~op'.failing
          /\ op'.journal.before = [s \in Sectors |-> IF s \in todo THEN flash[s] ELSE Keep]
      BY <1>5 DEF Idle
    <2>2. Progress'
      <3>1. op'.at \in {"backup", "status", "giveback"}
        BY <2>1 DEF AfterApply
      <3>2. op'.at = "backup" <=> todo # {}
        BY <2>1 DEF AfterApply
      <3>3. op'.at = "status" => status \in Locks
        BY <2>1 DEF AfterApply
      <3>4. QED
        BY <1>2, <2>1, <3>1, <3>2, <3>3 DEF Progress, Planned
    <2>3. Backed'
      <3>1. CASE todo = {}
        <4>1. \A s \in Sectors : image'[s] = IF want[s] = Keep THEN image[s] ELSE flash[s]
          BY <1>5, <3>1 DEF Override
        <4>2. \A s \in Damaged' : s \in Damaged /\ image'[s] = image[s]
          BY <1>2, <4>1 DEF Damaged
        <4>3. Recoverable'
          BY <1>2, <4>2 DEF Inv, Backed, Recoverable, HasBackup
        <4>4. QED
          BY <2>1, <3>1, <4>3 DEF Backed
      <3>2. CASE todo # {}
        <4>1. Recoverable'
          BY <1>2, <1>5, <3>2 DEF Inv, Backed, Recoverable, Damaged, HasBackup
        <4>2. QED
          BY <1>2, <2>1, <3>2, <4>1 DEF Backed, Writing
      <3>3. QED
        BY <3>1, <3>2
    <2>4. Guarded'
      BY <1>2, <2>1 DEF Inv, Guarded, Writing, NoStaleRun, AfterApply
    <2>5. QED
      BY <1>1, <2>2, <2>3, <2>4 DEF Inv
  <1>6. QED
    BY <1>3, <1>4, <1>5 DEF Begin

LEMMA WriteJournalInv == Inv /\ WriteJournal => Inv'
  <1> SUFFICES ASSUME Inv, WriteJournal PROVE Inv'
    OBVIOUS
  <1>1. op.at = "backup" /\ UNCHANGED <<flash, prot, sfc, disk, unsafe, image>>
    BY DEF WriteJournal, At
  <1>2. Recoverable'
    BY <1>1, Kept DEF Inv, Backed
  <1>3. CASE HostWorks /\ Goto("sync")
    <2>1. /\ op' \in Command /\ op'.at = "sync" /\ op'.failing = op.failing /\ op'.todo = op.todo
          /\ op'.want = op.want /\ op'.journal = op.journal
          /\ MachineOK' /\ UNCHANGED <<faults, alarm, target>>
      BY <1>3, GotoFacts, WorksFacts DEF Inv, Steps
    <2>2. TypeOK'
      BY <1>1, <2>1 DEF Inv, TypeOK, MachineOK
    <2>3. Progress'
      BY <1>1, <2>1 DEF Inv, Progress, Planned
    <2>4. Backed'
      BY <1>1, <1>2, <2>1 DEF Inv, Backed, Writing
    <2>5. Guarded'
      BY <1>1, <2>1 DEF Inv, Guarded, Writing, NoStaleRun, target
    <2>6. QED
      BY <2>2, <2>3, <2>4, <2>5 DEF Inv
  <1>4. CASE HostRaise("giveback")
    <2>1. /\ op' \in Command /\ op'.at = "giveback" /\ op'.failing /\ op'.todo = op.todo /\ op'.want = op.want
          /\ MachineOK' /\ UNCHANGED <<hart, needsReset, booted, inherited>> /\ (link = "gone" => link' = "gone")
      BY <1>4, RaiseFacts DEF Inv, Steps
    <2>2. TypeOK'
      BY <1>1, <2>1 DEF Inv, TypeOK, MachineOK
    <2>3. Progress'
      BY <1>1, <2>1 DEF Inv, Progress, Planned
    <2>4. Backed'
      BY <1>2, <2>1 DEF Backed, Writing
    <2>5. Guarded'
      BY <1>1, <2>1 DEF Inv, Guarded, Writing, NoStaleRun
    <2>6. QED
      BY <2>2, <2>3, <2>4, <2>5 DEF Inv
  <1>5. QED
    BY <1>3, <1>4 DEF WriteJournal

LEMMA SyncJournalInv == Inv /\ SyncJournal => Inv'
  <1> SUFFICES ASSUME Inv, SyncJournal PROVE Inv'
    OBVIOUS
  <1>1. op.at = "sync" /\ UNCHANGED <<flash, prot, sfc, image>>
    BY DEF SyncJournal, At
  <1>2. disk \subseteq disk' /\ disk' \in SUBSET Journals
    BY DEF SyncJournal, Inv, TypeOK, Command
  <1>3. Recoverable'
    BY <1>1, <1>2, Kept DEF Inv, Backed
  <1>4. CASE HostWorks /\ Goto("unlock") /\ disk' = disk \cup {op.journal} /\ unsafe' = TRUE
    <2>1. /\ op' \in Command /\ op'.at = "unlock" /\ op'.failing = op.failing /\ op'.todo = op.todo
          /\ op'.want = op.want /\ MachineOK' /\ UNCHANGED <<faults, alarm, target>>
      BY <1>4, GotoFacts, WorksFacts DEF Inv, Steps
    <2>2. TypeOK'
      BY <1>1, <1>2, <1>4, <2>1 DEF Inv, TypeOK, MachineOK
    <2>3. Progress'
      BY <1>1, <2>1 DEF Inv, Progress, Planned
    <2>4. ASSUME NEW s \in op.todo PROVE HasBackup(s)'
      <3>1. op.journal.before[s] = flash[s] /\ s \in Sectors
        BY <1>1 DEF Inv, Backed, TypeOK, Command
      <3>2. CASE s \in Damaged
        <4>1. HasBackup(s)
          BY <3>2 DEF Inv, Backed, Recoverable
        <4>2. QED
          BY <4>1, <3>1, <1>1, <1>2, Kept
      <3>3. CASE s \notin Damaged
        <4>1. flash[s] = image[s]
          BY <3>1, <3>3 DEF Damaged
        <4>2. QED
          BY <4>1, <3>1, <1>1, <1>4 DEF HasBackup
      <3>4. QED
        BY <3>2, <3>3
    <2>5. Backed'
      BY <1>3, <2>1, <2>4 DEF Backed, Writing
    <2>6. Guarded'
      BY <1>1, <1>4, <2>1 DEF Inv, Guarded, Writing, NoStaleRun, target
    <2>7. QED
      BY <2>2, <2>3, <2>5, <2>6 DEF Inv
  <1>5. CASE HostRaise("giveback") /\ UNCHANGED unsafe
    <2>1. /\ op' \in Command /\ op'.at = "giveback" /\ op'.failing /\ op'.todo = op.todo /\ op'.want = op.want
          /\ MachineOK' /\ UNCHANGED <<hart, needsReset, booted, inherited>> /\ (link = "gone" => link' = "gone")
      BY <1>5, RaiseFacts DEF Inv, Steps
    <2>2. TypeOK'
      BY <1>1, <1>2, <1>5, <2>1 DEF Inv, TypeOK, MachineOK
    <2>3. Progress'
      BY <1>1, <2>1 DEF Inv, Progress, Planned
    <2>4. Backed'
      BY <1>3, <2>1 DEF Backed, Writing
    <2>5. Guarded'
      BY <1>1, <1>5, <2>1 DEF Inv, Guarded, Writing, NoStaleRun
    <2>6. QED
      BY <2>2, <2>3, <2>4, <2>5 DEF Inv
  <1>6. QED
    BY <1>4, <1>5 DEF SyncJournal

LEMMA UnlockInv == Inv /\ Unlock => Inv'
  <1> SUFFICES ASSUME Inv, Unlock PROVE Inv'
    OBVIOUS
  <1>1. op.at = "unlock" /\ UNCHANGED <<flash, sfc, disk, unsafe, image>> /\ prot' \in Locks
    BY DEF Unlock, At, Inv, TypeOK, Locks
  <1>2. Recoverable' /\ \A s \in Sectors : HasBackup(s) => HasBackup(s)'
    BY <1>1, Kept DEF Inv, Backed
  <1>3. CASE Works /\ op' = [op EXCEPT !.at = "erase", !.saved = prot]
    <2>1. /\ op' \in Command /\ op'.at = "erase" /\ op'.failing = op.failing /\ op'.todo = op.todo /\ op'.want = op.want
      BY <1>3 DEF Inv, TypeOK, Command, Steps
    <2>2. MachineOK' /\ UNCHANGED <<faults, alarm, target>>
      BY <1>3, WorksFacts DEF Inv
    <2>3. TypeOK'
      BY <1>1, <2>1, <2>2 DEF Inv, TypeOK, MachineOK
    <2>4. Progress'
      BY <1>1, <2>1 DEF Inv, Progress, Planned
    <2>5. Backed'
      BY <1>1, <1>2, <2>1 DEF Inv, TypeOK, Command, Backed, Writing
    <2>6. Guarded'
      BY <1>1, <2>1, <2>2 DEF Inv, Guarded, Writing, NoStaleRun, target
    <2>7. QED
      BY <2>3, <2>4, <2>5, <2>6 DEF Inv
  <1>4. CASE Raise("giveback") \/ Raise("lock")
    <2>1. /\ op' \in Command /\ op'.at \in {"giveback", "lock"} /\ op'.failing /\ op'.todo = op.todo /\ op'.want = op.want
          /\ MachineOK' /\ UNCHANGED <<hart, needsReset, booted, inherited>> /\ (link = "gone" => link' = "gone")
      BY <1>4, RaiseFacts DEF Inv, Steps
    <2>2. TypeOK'
      BY <1>1, <2>1 DEF Inv, TypeOK, MachineOK
    <2>3. Progress'
      BY <1>1, <2>1 DEF Inv, Progress, Planned
    <2>4. Backed'
      BY <1>2, <2>1 DEF Backed, Writing
    <2>5. Guarded'
      BY <1>1, <2>1 DEF Inv, Guarded, Writing, NoStaleRun
    <2>6. QED
      BY <2>2, <2>3, <2>4, <2>5 DEF Inv
  <1>5. QED
    BY <1>3, <1>4 DEF Unlock

\* Writing the current sector loses nothing: it has a backup.
LEMMA PutFacts ==
    ASSUME Inv, op.at \in {"erase", "program", "verify"}, NEW c \in Contents, Put(c), UNCHANGED <<image, disk>>
    PROVE  /\ Current \in op.todo /\ Current \in Sectors
           /\ flash' \in [Sectors -> Contents] /\ flash'[Current] = c
           /\ \A s \in Sectors \ {Current} : flash'[s] = flash[s]
           /\ Recoverable' /\ \A s \in Sectors : HasBackup(s) => HasBackup(s)'
  <1>1. op.todo # {}
    BY DEF Inv, Progress, Planned
  <1>2. Current \in op.todo /\ Current \in Sectors
    BY <1>1, CurrentIn DEF Inv
  <1> HIDE DEF Current
  <1>3. flash' \in [Sectors -> Contents] /\ flash'[Current] = c /\ \A s \in Sectors \ {Current} : flash'[s] = flash[s]
    BY <1>2 DEF Put, Inv, TypeOK
  <1>4. \A s \in Sectors : HasBackup(s) => HasBackup(s)'
    BY DEF HasBackup
  <1>5. \A s \in Damaged' : s \in Sectors /\ (s \in Damaged \/ s = Current)
    BY <1>3 DEF Damaged
  <1>6. HasBackup(Current)
    BY <1>2 DEF Inv, Backed, Writing
  <1>7. Recoverable'
    BY <1>4, <1>5, <1>6 DEF Inv, Backed, Recoverable
  <1>8. QED
    BY <1>2, <1>3, <1>4, <1>7

\* Every step that raises in the middle of writing a sector.
LEMMA RaiseLock ==
    ASSUME Inv, op.at \in Writing, Raise("lock"), flash' \in [Sectors -> Contents],
           flash' = flash \/ link = "up", Recoverable',
           UNCHANGED <<sfc, disk, unsafe, image>>, prot' \in Locks
    PROVE  Inv'
  <1>1. /\ op' \in Command /\ op'.at = "lock" /\ op'.failing /\ op'.todo = op.todo /\ op'.want = op.want
        /\ MachineOK' /\ UNCHANGED <<hart, needsReset, booted, inherited>> /\ (link = "gone" => link' = "gone")
    BY RaiseFacts DEF Inv, Steps
  <1>2. TypeOK'
    BY <1>1 DEF Inv, TypeOK, MachineOK
  <1>3. Progress'
    BY <1>1 DEF Inv, Progress, Planned
  <1>4. Backed'
    BY <1>1 DEF Backed, Writing
  <1>5. unsafe
    BY DEF Inv, Guarded
  <1>6. hart = "halted" \/ link = "gone"
    BY DEF Inv, Guarded, Writing
  <1>7. link \in {"up", "gone"}
    BY DEF Inv, TypeOK
  <1>8. NoStaleRun'
    BY <1>1, <1>6, <1>7 DEF Inv, Guarded, NoStaleRun
  <1>9. Guarded'
    BY <1>1, <1>5, <1>6, <1>8 DEF Guarded, Writing
  <1>10. QED
    BY <1>2, <1>3, <1>4, <1>9 DEF Inv

LEMMA EraseInv == Inv /\ Erase => Inv'
  <1> SUFFICES ASSUME Inv, Erase PROVE Inv'
    OBVIOUS
  <1>1. op.at = "erase" /\ UNCHANGED <<prot, sfc, disk, unsafe, image>>
    BY DEF Erase, At
  <1>2. flash \in [Sectors -> Contents] /\ op.todo # {}
    BY <1>1 DEF Inv, TypeOK, Progress, Planned
  <1>3. Current \in op.todo /\ Current \in Sectors
    BY <1>2, CurrentIn DEF Inv
  <1> HIDE DEF Current
  <1>4. CASE Works /\ Goto("program") /\ Put(Blank)
    <2>1. /\ op' \in Command /\ op'.at = "program" /\ op'.failing = op.failing /\ op'.todo = op.todo
          /\ op'.want = op.want /\ MachineOK' /\ UNCHANGED <<faults, alarm, target>> /\ link = "up"
      BY <1>4, GotoFacts, WorksFacts DEF Inv, Steps, Works
    <2>2. /\ flash' \in [Sectors -> Contents] /\ \A s \in Sectors \ {Current} : flash'[s] = flash[s]
          /\ Recoverable' /\ \A s \in Sectors : HasBackup(s) => HasBackup(s)'
      BY <1>1, <1>4, ContentFacts, PutFacts
    <2>3. TypeOK'
      BY <1>1, <2>1, <2>2 DEF Inv, TypeOK, MachineOK
    <2>4. Progress'
      BY <1>1, <1>3, <2>1, <2>2 DEF Inv, Progress, Planned
    <2>5. Backed'
      BY <1>1, <2>1, <2>2 DEF Inv, TypeOK, Command, Backed, Writing
    <2>6. hart = "halted" /\ unsafe
      BY <1>1, <2>1 DEF Inv, Guarded, Writing
    <2>7. Guarded'
      BY <1>1, <2>1, <2>6 DEF Guarded, Writing, NoStaleRun, target
    <2>8. QED
      BY <2>3, <2>4, <2>5, <2>7 DEF Inv
  <1>5. CASE /\ Raise("lock")
             /\ \E c \in IF link = "up" THEN {flash[Current], Torn, Blank} ELSE {flash[Current]} : Put(c)
    <2>1. PICK c \in Contents : Put(c) /\ (link = "up" \/ c = flash[Current])
      BY <1>2, <1>3, <1>5, ContentFacts
    <2>2. flash' \in [Sectors -> Contents] /\ Recoverable'
      BY <1>1, <2>1, PutFacts
    <2>3. link = "up" \/ flash' = flash
      BY <1>2, <1>3, <2>1 DEF Put
    <2>4. QED
      BY <1>1, <1>5, <2>2, <2>3, RaiseLock DEF Inv, TypeOK, Writing
  <1>6. QED
    BY <1>4, <1>5 DEF Erase

LEMMA ProgramInv == Inv /\ Program => Inv'
  <1> SUFFICES ASSUME Inv, Program PROVE Inv'
    OBVIOUS
  <1>1. op.at = "program" /\ UNCHANGED <<prot, sfc, disk, unsafe, image>>
    BY DEF Program, At
  <1>2. flash \in [Sectors -> Contents] /\ op.todo # {}
    BY <1>1 DEF Inv, TypeOK, Progress, Planned
  <1>3. Current \in op.todo /\ Current \in Sectors
    BY <1>2, CurrentIn DEF Inv
  <1>4. op.want[Current] \in Contents
    BY <1>3 DEF Inv, Progress, TypeOK, Command, Requests
  <1> HIDE DEF Current
  <1>5. ASSUME NEW c \in Contents, Goto("verify"), Put(c), link = "up", faults' \in Nat,
               UNCHANGED <<alarm, target>>
        PROVE  Inv'
    <2>1. /\ op' \in Command /\ op'.at = "verify" /\ op'.failing = op.failing /\ op'.todo = op.todo
          /\ op'.want = op.want
      BY <1>5, GotoFacts DEF Inv, Steps
    <2>2. /\ flash' \in [Sectors -> Contents] /\ \A s \in Sectors \ {Current} : flash'[s] = flash[s]
          /\ Recoverable' /\ \A s \in Sectors : HasBackup(s) => HasBackup(s)'
      BY <1>1, <1>5, PutFacts
    <2>3. TypeOK'
      BY <1>1, <1>5, <2>1, <2>2 DEF Inv, TypeOK, target
    <2>4. Progress'
      BY <1>1, <1>3, <2>1, <2>2 DEF Inv, Progress, Planned
    <2>5. Backed'
      BY <1>1, <2>1, <2>2 DEF Inv, TypeOK, Command, Backed, Writing
    <2>6. hart = "halted" /\ unsafe
      BY <1>1, <1>5 DEF Inv, Guarded, Writing
    <2>7. Guarded'
      BY <1>1, <1>5, <2>1, <2>6 DEF Guarded, Writing, NoStaleRun, target
    <2>8. QED
      BY <2>3, <2>4, <2>5, <2>7 DEF Inv
  <1>6. CASE Works /\ Goto("verify") /\ Put(op.want[Current])
    BY <1>4, <1>5, <1>6 DEF Works, Inv, TypeOK
  <1>7. CASE /\ link = "up" /\ faults < MaxFaults /\ faults' = faults + 1
             /\ Goto("verify") /\ Put(Torn) /\ UNCHANGED <<alarm, target>>
    <2>1. faults' \in Nat
      BY <1>7 DEF Inv, TypeOK
    <2>2. QED
      BY <1>5, <1>7, <2>1, ContentFacts
  <1>8. CASE /\ Raise("lock")
             /\ \E c \in IF link = "up" THEN {Blank, Torn, op.want[Current]} ELSE {flash[Current]} : Put(c)
    <2>1. PICK c \in Contents : Put(c) /\ (link = "up" \/ c = flash[Current])
      BY <1>2, <1>3, <1>4, <1>8, ContentFacts
    <2>2. flash' \in [Sectors -> Contents] /\ Recoverable'
      BY <1>1, <2>1, PutFacts
    <2>3. link = "up" \/ flash' = flash
      BY <1>2, <1>3, <2>1 DEF Put
    <2>4. QED
      BY <1>1, <1>8, <2>2, <2>3, RaiseLock DEF Inv, TypeOK, Writing
  <1>9. QED
    BY <1>6, <1>7, <1>8 DEF Program

LEMMA VerifyInv == Inv /\ Verify => Inv'
  <1> SUFFICES ASSUME Inv, Verify PROVE Inv'
    OBVIOUS
  <1> DEFINE rest == op.todo \ {Current}
  <1>1. op.at = "verify" /\ UNCHANGED <<flash, prot, sfc, disk, unsafe, image>>
    BY DEF Verify, At
  <1>2. op.todo # {} /\ ~op.failing
    BY <1>1 DEF Inv, Progress, Planned
  <1>3. Current \in op.todo /\ Current \in Sectors
    BY <1>2, CurrentIn DEF Inv
  <1>4. Recoverable' /\ \A s \in Sectors : HasBackup(s) => HasBackup(s)'
    BY <1>1, Kept DEF Inv, Backed
  <1>5. unsafe /\ (hart = "halted" \/ link = "gone") /\ NoStaleRun
    BY <1>1 DEF Inv, Guarded, Writing
  <1> HIDE DEF Current
  <1>6. CASE /\ Works /\ flash[Current] = op.want[Current]
             /\ op' = [op EXCEPT !.todo = rest, !.at = IF rest = {} THEN "lock" ELSE "erase"]
    <2>1. /\ op' \in Command /\ op'.at = (IF rest = {} THEN "lock" ELSE "erase")
          /\ op'.failing = op.failing /\ op'.todo = rest /\ op'.want = op.want
      BY <1>6 DEF Inv, TypeOK, Command, Steps
    <2>2. MachineOK' /\ UNCHANGED <<faults, alarm, target>>
      BY <1>6, WorksFacts DEF Inv
    <2>3. TypeOK'
      BY <1>1, <2>1, <2>2 DEF Inv, TypeOK, MachineOK
    <2>4. \A s \in Sectors \ rest : op.want[s] \in {Keep, flash[s]}
      BY <1>2, <1>3, <1>6 DEF Inv, Progress
    <2>5. \A s \in rest : op.want[s] # Keep
      BY DEF Inv, Progress
    <2>6. Progress'
      BY <1>1, <1>2, <2>1, <2>4, <2>5 DEF Progress, Planned
    <2>7. Backed'
      BY <1>1, <1>4, <2>1 DEF Inv, TypeOK, Command, Backed, Writing
    <2>8. Guarded'
      BY <1>1, <1>5, <2>1, <2>2 DEF Guarded, NoStaleRun, target
    <2>9. QED
      BY <2>3, <2>6, <2>7, <2>8 DEF Inv
  <1>7. CASE /\ op' = [op EXCEPT !.at = "lock", !.failing = TRUE] /\ alarm' = TRUE
             /\ UNCHANGED <<faults, target>>
    <2>1. op' \in Command /\ op'.at = "lock" /\ op'.failing /\ op'.todo = op.todo /\ op'.want = op.want
      BY <1>7 DEF Inv, TypeOK, Command, Steps
    <2>2. TypeOK'
      BY <1>1, <1>7, <2>1 DEF Inv, TypeOK, target
    <2>3. Progress'
      BY <1>1, <2>1 DEF Inv, Progress, Planned
    <2>4. Backed'
      BY <1>4, <2>1 DEF Backed, Writing
    <2>5. Guarded'
      BY <1>1, <1>5, <1>7, <2>1 DEF Guarded, NoStaleRun, target
    <2>6. QED
      BY <2>2, <2>3, <2>4, <2>5 DEF Inv
  <1>8. CASE Raise("lock")
    BY <1>1, <1>4, <1>8, RaiseLock DEF Inv, TypeOK, Writing
  <1>9. QED
    BY <1>6, <1>7, <1>8 DEF Verify

\* Every step that raises behind the sectors: controller() is left next.
LEMMA RaiseBehind ==
    ASSUME Inv, op.at \in {"lock", "commit", "status"}, Raise("giveback"), unsafe' \in BOOLEAN,
           unsafe => unsafe', op.at = "status" => unsafe',
           UNCHANGED <<flash, sfc, disk, image>>, prot' \in Locks
    PROVE  Inv'
  <1>1. /\ op' \in Command /\ op'.at = "giveback" /\ op'.failing /\ op'.todo = op.todo /\ op'.want = op.want
        /\ MachineOK' /\ UNCHANGED <<hart, needsReset, booted, inherited>> /\ (link = "gone" => link' = "gone")
    BY RaiseFacts DEF Inv, Steps
  <1>2. TypeOK'
    BY <1>1 DEF Inv, TypeOK, MachineOK
  <1>3. Progress'
    BY <1>1 DEF Inv, Progress, Planned
  <1>4. Backed'
    BY <1>1, Kept DEF Inv, Backed, Writing
  <1>5. unsafe'
    BY DEF Inv, Guarded
  <1>6. Guarded'
    BY <1>1, <1>5 DEF Inv, Guarded, Writing, NoStaleRun
  <1>7. QED
    BY <1>2, <1>3, <1>4, <1>6 DEF Inv

LEMMA LockInv == Inv /\ Lock => Inv'
  <1> SUFFICES ASSUME Inv, Lock PROVE Inv'
    OBVIOUS
  <1>1. op.at = "lock" /\ UNCHANGED <<flash, sfc, disk, unsafe, image>> /\ prot' \in Locks
    BY DEF Lock, At, Inv, TypeOK, Command
  <1>2. unsafe
    BY <1>1 DEF Inv, Guarded
  <1>3. CASE Works /\ Goto(IF op.failing THEN "giveback" ELSE "commit")
    <2>1. /\ op' \in Command /\ op'.at = (IF op.failing THEN "giveback" ELSE "commit")
          /\ op'.failing = op.failing /\ op'.todo = op.todo /\ op'.want = op.want
          /\ MachineOK' /\ UNCHANGED <<faults, alarm, target>>
      BY <1>3, GotoFacts, WorksFacts DEF Inv, Steps
    <2>2. TypeOK'
      BY <1>1, <2>1 DEF Inv, TypeOK, MachineOK
    <2>3. Progress'
      BY <1>1, <2>1 DEF Inv, Progress, Planned
    <2>4. Backed'
      BY <1>1, <2>1, Kept DEF Inv, Backed, Writing
    <2>5. Guarded'
      BY <1>1, <1>2, <2>1 DEF Inv, Guarded, Writing, NoStaleRun, target
    <2>6. QED
      BY <2>2, <2>3, <2>4, <2>5 DEF Inv
  <1>4. CASE Raise("giveback")
    BY <1>1, <1>4, RaiseBehind DEF Inv, TypeOK
  <1>5. QED
    BY <1>3, <1>4 DEF Lock

\* The command is done: what it asked for becomes the image.
LEMMA CommitInv == Inv /\ Commit => Inv'
  <1> SUFFICES ASSUME Inv, Commit PROVE Inv'
    OBVIOUS
  <1>1. op.at = "commit" /\ UNCHANGED <<flash, prot, sfc, disk>>
    BY DEF Commit, At
  <1>2. CASE Works /\ Goto(AfterApply(op.status)) /\ unsafe' = FALSE /\ image' = Override(image, op.want)
    <2>1. AfterApply(op.status) \in {"status", "giveback"} /\ (AfterApply(op.status) = "status" => op.status \in Locks)
      BY DEF AfterApply, Inv, TypeOK, Command
    <2>2. /\ op' \in Command /\ op'.at = AfterApply(op.status) /\ op'.failing = op.failing
          /\ op'.todo = op.todo /\ op'.want = op.want /\ op'.status = op.status
          /\ MachineOK' /\ UNCHANGED <<faults, alarm, target>>
      BY <1>2, <2>1, GotoFacts, WorksFacts DEF Inv, Steps
    <2>3. ~op.failing /\ op.todo = {}
      BY <1>1 DEF Inv, Progress, Planned
    <2>4. image' \in [Sectors -> Contents]
      BY <1>2, OverrideType DEF Inv, TypeOK, Command
    <2>5. \A s \in Sectors : op.want[s] \in {Keep, flash[s]}
      BY <2>3 DEF Inv, Progress
    <2>6. TypeOK'
      BY <1>1, <1>2, <2>2, <2>4 DEF Inv, TypeOK, MachineOK
    <2>7. Progress'
      BY <1>1, <2>1, <2>2, <2>3, <2>5 DEF Progress, Planned
    <2>8. \A s \in Damaged' : s \in Damaged /\ image'[s] = image[s]
      BY <1>1, <1>2, <2>5 DEF Damaged, Override
    <2>9. Recoverable'
      BY <1>1, <2>8 DEF Inv, Backed, Recoverable, HasBackup
    <2>10. Backed'
      BY <2>1, <2>2, <2>9 DEF Backed, Writing
    <2>11. Guarded'
      BY <1>1, <2>1, <2>2, <2>3 DEF Inv, Guarded, Writing, NoStaleRun, target
    <2>12. QED
      BY <2>6, <2>7, <2>10, <2>11 DEF Inv
  <1>3. CASE Raise("giveback") /\ UNCHANGED <<unsafe, image>>
    BY <1>1, <1>3, RaiseBehind DEF Inv, TypeOK
  <1>4. QED
    BY <1>2, <1>3 DEF Commit

LEMMA StatusInv == Inv /\ Status => Inv'
  <1> SUFFICES ASSUME Inv, Status PROVE Inv'
    OBVIOUS
  <1>1. op.at = "status" /\ UNCHANGED <<flash, sfc, disk, image>>
    BY DEF Status, At
  <1>2. op.status \in Locks /\ ~op.failing /\ op.todo = {}
    BY <1>1 DEF Inv, Progress, Planned
  <1>3. prot' \in Locks
    BY <1>2 DEF Status, Inv, TypeOK
  <1>4. CASE Works /\ unsafe' = FALSE /\ Goto("giveback")
    <2>1. /\ op' \in Command /\ op'.at = "giveback" /\ op'.failing = op.failing
          /\ op'.todo = op.todo /\ op'.want = op.want
          /\ MachineOK' /\ UNCHANGED <<faults, alarm, target>>
      BY <1>4, GotoFacts, WorksFacts DEF Inv, Steps
    <2>2. TypeOK'
      BY <1>1, <1>3, <1>4, <2>1 DEF Inv, TypeOK, MachineOK
    <2>3. Progress'
      BY <1>1, <1>2, <2>1 DEF Inv, Progress, Planned
    <2>4. Backed'
      BY <1>1, <2>1, Kept DEF Inv, Backed, Writing
    <2>5. Guarded'
      BY <1>1, <1>2, <2>1 DEF Inv, Guarded, Writing, NoStaleRun, target
    <2>6. QED
      BY <2>2, <2>3, <2>4, <2>5 DEF Inv
  <1>5. CASE Raise("giveback") /\ unsafe' = TRUE
    BY <1>1, <1>3, <1>5, RaiseBehind
  <1>6. QED
    BY <1>4, <1>5 DEF Status

LEMMA GiveBackInv == Inv /\ GiveBack => Inv'
  <1> SUFFICES ASSUME Inv, GiveBack PROVE Inv'
    OBVIOUS
  <1>1. op.at = "giveback" /\ op' = Idle /\ UNCHANGED <<flash, prot, disk, hart, booted, inherited, image>>
    BY DEF GiveBack, At
  <1>2. Recoverable'
    BY <1>1, Kept DEF Inv, Backed
  <1>3. unsafe' \in BOOLEAN /\ needsReset' \in BOOLEAN /\ sfc' \in {"kept", "lost"}
        /\ faults' \in Nat /\ link' \in {"up", "gone"} /\ alarm' \in BOOLEAN
    <2>1. CASE UNCHANGED <<unsafe, sfc, alarm, faults, link>> /\ needsReset' = (needsReset \/ ~op.failing)
      BY <2>1 DEF Inv, TypeOK, Command
    <2>2. CASE Fault /\ unsafe' = TRUE /\ sfc' = "lost" /\ UNCHANGED needsReset
      BY <2>2, FaultFacts DEF Inv, TypeOK
    <2>3. QED
      BY <2>1, <2>2 DEF GiveBack
  <1>4. TypeOK'
    BY <1>1, <1>3, ContentFacts DEF Inv, TypeOK
  <1>5. Progress'
    BY <1>1, ContentFacts DEF Progress, Planned
  <1>6. Backed'
    BY <1>1, <1>2, ContentFacts DEF Backed, Writing
  <1>7. flash' = booted' \/ unsafe' \/ needsReset'
    <2>1. CASE unsafe' = unsafe /\ needsReset' = (needsReset \/ ~op.failing)
      BY <1>1, <2>1 DEF Inv, Guarded, TypeOK, Command
    <2>2. QED
      BY <2>1 DEF GiveBack
  <1>8. op'.at = "idle"
    BY <1>1, ContentFacts
  <1>9. NoStaleRun'
    BY <1>1 DEF Inv, Guarded, NoStaleRun
  <1>10. Guarded'
    BY <1>7, <1>8, <1>9 DEF Guarded, Writing
  <1>11. QED
    BY <1>4, <1>5, <1>6, <1>10 DEF Inv

\* Steps that leave the command, the Flash and the disk alone.
LEMMA ServerInv == Inv /\ (Resume \/ Halt \/ MonitorReset \/ PowerLoss) => Inv'
  <1> SUFFICES ASSUME Inv, Resume \/ Halt \/ MonitorReset \/ PowerLoss PROVE Inv'
    OBVIOUS
  <1>1. UNCHANGED <<flash, sfc, disk, op, unsafe, faults, image, alarm, inherited>>
    BY DEF Resume, Halt, MonitorReset, PowerLoss
  <1>2. prot' \in Locks /\ needsReset' \in BOOLEAN /\ hart' \in {"halted", "running"} /\ link' \in {"up", "gone"}
        /\ booted' \in [Sectors -> Contents]
    BY DEF Inv, TypeOK, Locks, Resume, Halt, MonitorReset, PowerLoss
  <1>3. TypeOK'
    BY <1>1, <1>2 DEF Inv, TypeOK
  <1>4. Progress'
    BY <1>1 DEF Inv, Progress
  <1>5. Backed'
    BY <1>1, Kept DEF Inv, Backed, HasBackup
  <1>6. NoStaleRun'
    BY <1>1 DEF Inv, Guarded, NoStaleRun, Resume, Halt, MonitorReset, PowerLoss, Prompt, At
  <1>7. op.at # "idle" => hart' = "halted" \/ link' = "gone"
    BY DEF Inv, Guarded, Resume, Halt, MonitorReset, PowerLoss, Prompt, At
  <1>8. flash' = booted' \/ unsafe' \/ needsReset' \/ (op'.at \in {"status", "giveback"} /\ ~op'.failing)
    BY <1>1 DEF Inv, Guarded, Resume, Halt, MonitorReset, PowerLoss
  <1>9. Guarded'
    BY <1>1, <1>6, <1>7, <1>8 DEF Inv, Guarded
  <1>10. QED
    BY <1>3, <1>4, <1>5, <1>9 DEF Inv

LEMMA RestartInv == Inv /\ Restart => Inv'
  <1> SUFFICES ASSUME Inv, Restart PROVE Inv'
    OBVIOUS
  <1>1. disk \subseteq disk' /\ disk' \in SUBSET Journals
    BY DEF Restart, Inv, TypeOK, Command
  <1>2. op' = Idle /\ flash' = flash /\ prot' = prot /\ faults' = faults /\ image' = image /\ booted' = flash
        /\ hart' = "halted" /\ link' = "up" /\ unsafe' = FALSE /\ needsReset' = FALSE
        /\ inherited' = Damaged /\ alarm' \in BOOLEAN /\ sfc' \in {"kept", "lost"}
    BY DEF Restart, Inv, TypeOK
  <1>3. TypeOK'
    BY <1>1, <1>2, ContentFacts DEF Inv, TypeOK, Damaged
  <1>4. Progress'
    BY <1>2, ContentFacts DEF Progress, Planned
  <1>5. Backed'
    BY <1>1, <1>2, ContentFacts, Kept DEF Inv, Backed, Writing
  <1>6. Guarded'
    BY <1>2, ContentFacts DEF Guarded, Writing, NoStaleRun
  <1>7. QED
    BY <1>3, <1>4, <1>5, <1>6 DEF Inv

\* A command starts from what the user sends or from a journal.
LEMMA CommandInv == Inv /\ (Write \/ Restore) => Inv'
  <1> SUFFICES ASSUME Inv, Write \/ Restore PROVE Inv'
    OBVIOUS
  <1>1. CASE Write
    <2>1. PICK want \in [Sectors -> Values \cup {Keep}] \ {Nothing} : Begin(want, "none")
      BY <1>1 DEF Write
    <2>2. want \in Requests
      BY DEF Requests, Contents
    <2>3. QED
      BY <2>1, <2>2, BeginInv
  <1>2. CASE Restore
    <2>1. PICK j \in disk : Begin(j.before, j.status)
      BY <1>2 DEF Restore
    <2>2. j.before \in Requests /\ j.status \in Locks
      BY DEF Inv, TypeOK, Journals
    <2>3. QED
      BY <2>1, <2>2, BeginInv
  <1>3. QED
    BY <1>1, <1>2

LEMMA InvNext == Inv /\ [Next]_vars => Inv'
  <1> SUFFICES ASSUME Inv, [Next]_vars PROVE Inv'
    OBVIOUS
  <1>1. CASE Transaction
    BY <1>1, WriteJournalInv, SyncJournalInv, UnlockInv, EraseInv, ProgramInv, VerifyInv, LockInv, CommitInv,
       StatusInv, GiveBackInv DEF Transaction
  <1>2. CASE Server
    BY <1>2, CommandInv, ServerInv DEF Server
  <1>3. CASE PowerLoss
    BY <1>3, ServerInv
  <1>4. CASE Restart
    BY <1>4, RestartInv
  <1>5. CASE UNCHANGED vars
    BY <1>5 DEF vars, Inv, TypeOK, Progress, Backed, Recoverable, HasBackup, Damaged, Guarded, NoStaleRun
  <1>6. QED
    BY <1>1, <1>2, <1>3, <1>4, <1>5 DEF Next

\* The server and its environment never leave the inductive invariant.
THEOREM Invariance == Spec => []Inv
  BY InvInit, InvNext, PTL DEF Spec

\* Every variable of the transaction keeps its type, however often commands
\* fail, the server is killed or the power is lost.
THEOREM TypeCorrect == Spec => []TypeOK
  <1>1. Inv => TypeOK
    BY DEF Inv
  <1>2. QED
    BY <1>1, Invariance, PTL

\* ws63flash.py:266: a sector that does not hold what the user last asked for
\* has it in a journal on disk, at every moment.
THEOREM NothingLost == Spec => []Recoverable
  <1>1. Inv => Recoverable
    BY DEF Inv, Backed
  <1>2. QED
    BY <1>1, Invariance, PTL

\* Server.needs_reset and Flash.unsafe: a hart never runs an image other than
\* the one it was reset into.
THEOREM RunsWhatBooted == Spec => []NoStaleRun
  <1>1. Inv => NoStaleRun
    BY DEF Inv, Guarded
  <1>2. QED
    BY <1>1, Invariance, PTL

\* Server.flash.unsafe goes down only when every sector the command covers
\* holds what it asked for.
THEOREM UnsafeIsHonest == Spec => UnsafeUntilVerified
  <1> DEFINE Honest == unsafe /\ ~unsafe' /\ ~Restart
                       => ~op.failing /\ \A s \in Sectors : op.want[s] \in {Keep, flash[s]}
  <1>1. ASSUME Inv, [Next]_vars, unsafe, ~unsafe', ~Restart
        PROVE  ~op.failing /\ \A s \in Sectors : op.want[s] \in {Keep, flash[s]}
    <2>1. (Commit \/ Status) => op.at \in {"commit", "status"}
      BY DEF Commit, Status, At
    <2>2. op.at \in {"commit", "status"} => ~op.failing /\ op.todo = {}
      BY <1>1 DEF Inv, Progress, Planned
    <2>3. ~UNCHANGED vars
      BY <1>1 DEF vars
    <2>4. ~(WriteJournal \/ SyncJournal \/ Unlock \/ Erase \/ Program \/ Verify \/ Lock \/ GiveBack)
      BY <1>1 DEF WriteJournal, SyncJournal, Unlock, Erase, Program, Verify, Lock, GiveBack
    <2>5. ~(Write \/ Restore \/ Resume \/ Halt \/ MonitorReset \/ PowerLoss)
      BY <1>1 DEF Write, Restore, Begin, Resume, Halt, MonitorReset, PowerLoss
    <2>6. Commit \/ Status
      BY <1>1, <2>3, <2>4, <2>5 DEF Next, Transaction, Server
    <2>7. Progress
      BY <1>1 DEF Inv
    <2>8. QED
      BY <2>1, <2>2, <2>6, <2>7 DEF Progress
  <1>2. Inv /\ [Next]_vars => [Honest]_vars
    BY <1>1
  <1>3. QED
    BY <1>2, Invariance, PTL DEF Spec, UnsafeUntilVerified

-----------------------------------------------------------------------------
(* What is borrowed is given back, unless a command failed or was cut short. *)

Away == {"erase", "program", "verify", "lock"}      \* inside writable()

\* The protection is recorded as locked wherever it will be put back from, and
\* a sector is other than the user's image only where the command covers it.
Quiet ==
    ~alarm =>
        /\ ~op.failing
        /\ sfc = "kept"
        /\ \A j \in disk : j.status = "locked"
        /\ op.journal.status = "locked" /\ op.saved = "locked" /\ op.status \in {"none", "locked"}
        /\ op.at \notin Away => prot = "locked"
        /\ \A s \in Sectors : op.want[s] = Keep => flash[s] = image[s]
        /\ op.at \in {"idle", "giveback", "status"} => Damaged = {}

LEMMA QuietInit == Init => Quiet
  BY DEF Init, Quiet, Idle, Damaged

\* Nothing is promised after a step that raises.
LEMMA QuietAlarm == alarm' => Quiet'
  BY DEF Quiet

LEMMA RaiseAlarm ==
    ASSUME NEW step, Raise(step) \/ HostRaise(step) \/ Fault
    PROVE  alarm'
  BY DEF Raise, HostRaise, Fault

LEMMA QuietBegin ==
    ASSUME Inv, Quiet, NEW want \in Requests, NEW status \in Locks \cup {"none"}, Begin(want, status),
           alarm \/ status \in {"none", "locked"}
    PROVE  Quiet'
  <1> DEFINE todo == {s \in Sectors : want[s] \notin {Keep, flash[s]}}
             new  == [before |-> [s \in Sectors |-> IF s \in todo THEN flash[s] ELSE Keep], status |-> prot]
  <1>1. op.at = "idle" /\ UNCHANGED <<flash, prot, sfc, disk>>
    BY DEF Begin, At
  <1>2. CASE alarm'
    BY <1>2, QuietAlarm
  <1>3. CASE ~alarm'
    <2>1. /\ Works
          /\ op' = [Idle EXCEPT !.at = IF todo = {} THEN AfterApply(status) ELSE "backup",
                                !.todo = todo, !.want = want, !.journal = new, !.status = status]
          /\ image' = IF todo = {} THEN Override(image, want) ELSE image
      BY <1>3, RaiseAlarm DEF Begin
    <2>2. ~alarm
      BY <1>3, <2>1 DEF Works
    <2>3. /\ op'.at = IF todo = {} THEN AfterApply(status) ELSE "backup"
          /\ op'.want = want /\ op'.status = status /\ ~op'.failing
          /\ op'.journal.status = prot /\ op'.saved = "locked"
      BY <2>1 DEF Idle
    <2>4. op'.at \notin Away /\ op'.at # "idle"
      BY <2>3 DEF AfterApply, Away
    <2>5. prot = "locked" /\ sfc = "kept" /\ (\A j \in disk : j.status = "locked") /\ Damaged = {}
      BY <1>1, <2>2 DEF Quiet, Away
    <2>6. \A s \in Sectors : flash[s] = image[s]
      BY <2>5 DEF Damaged
    <2>7. CASE todo = {}
      <3>1. \A s \in Sectors : image'[s] = flash'[s]
        BY <1>1, <2>1, <2>6, <2>7 DEF Override
      <3>2. Damaged' = {}
        BY <3>1 DEF Damaged
      <3>3. QED
        BY <1>1, <2>2, <2>3, <2>4, <2>5, <3>1, <3>2 DEF Quiet
    <2>8. CASE todo # {}
      <3>1. image' = image /\ op'.at = "backup"
        BY <2>1, <2>3, <2>8
      <3>2. QED
        BY <1>1, <2>2, <2>3, <2>4, <2>5, <2>6, <3>1 DEF Quiet
    <2>9. QED
      BY <2>7, <2>8
  <1>4. QED
    BY <1>2, <1>3

\* The steps of a transaction.
LEMMA QuietTransaction ==
    ASSUME Inv, Quiet, Transaction, ~alarm'
    PROVE  Quiet'
  <1>1. op \in Command
    BY DEF Inv, TypeOK
  <1>2. CASE WriteJournal
    <2>1. Goto("sync") /\ At("backup") /\ UNCHANGED <<flash, prot, sfc, disk, image, alarm>>
      BY <1>2, RaiseAlarm DEF WriteJournal, HostWorks
    <2>2. QED
      BY <1>1, <2>1 DEF Quiet, Goto, At, Command, Away
  <1>3. CASE SyncJournal
    <2>1. Goto("unlock") /\ At("sync") /\ disk' = disk \cup {op.journal} /\ UNCHANGED <<flash, prot, sfc, image, alarm>>
      BY <1>3, RaiseAlarm DEF SyncJournal, HostWorks
    <2>2. QED
      BY <1>1, <2>1 DEF Quiet, Goto, At, Command, Away
  <1>4. CASE Unlock
    <2>1. op' = [op EXCEPT !.at = "erase", !.saved = prot] /\ At("unlock") /\ UNCHANGED <<flash, disk, sfc, image, alarm>>
      BY <1>4, RaiseAlarm DEF Unlock, Works
    <2>2. QED
      BY <1>1, <2>1 DEF Quiet, At, Command, Away
  <1>5. CASE Erase \/ Program
    <2>1. PICK c : Put(c)
      BY <1>5 DEF Erase, Program
    <2>2. UNCHANGED <<sfc, disk, image, alarm>> /\ \E step \in {"program", "verify"} : Goto(step)
      BY <1>5, RaiseAlarm DEF Erase, Program, Works
    <2>3. op.at \in Planned
      BY <1>5 DEF Erase, Program, At, Planned
    <2>4. Current \in op.todo /\ Current \in Sectors
      BY <2>3, CurrentIn DEF Inv, Progress
    <2>5. op.want[Current] # Keep
      BY <2>4 DEF Inv, Progress
    <2> HIDE DEF Current
    <2>6. \A s \in Sectors : op.want[s] = Keep => flash'[s] = flash[s]
      BY <2>1, <2>4, <2>5 DEF Put, Inv, TypeOK
    <2>7. op'.want = op.want /\ op'.journal = op.journal /\ op'.saved = op.saved /\ op'.status = op.status
          /\ op'.failing = op.failing /\ op'.at \in {"program", "verify"}
      BY <1>1, <2>2 DEF Goto, Command
    <2>8. QED
      BY <2>2, <2>6, <2>7 DEF Quiet, Away
  <1>6. CASE Verify
    <2>1. /\ op' = [op EXCEPT !.todo = op.todo \ {Current}, !.at = IF op.todo \ {Current} = {} THEN "lock" ELSE "erase"]
          /\ UNCHANGED <<flash, prot, sfc, disk, image, alarm>>
      BY <1>6, RaiseAlarm DEF Verify, Works
    <2> HIDE DEF Current
    <2>2. op'.want = op.want /\ op'.journal = op.journal /\ op'.saved = op.saved /\ op'.status = op.status
          /\ op'.failing = op.failing /\ op'.at \in {"lock", "erase"}
      BY <1>1, <2>1 DEF Command
    <2>3. QED
      BY <2>1, <2>2 DEF Quiet, Away
  <1>7. CASE Lock
    <2>1. /\ prot' = op.saved /\ UNCHANGED <<flash, sfc, disk, image, alarm>>
          /\ Goto(IF op.failing THEN "giveback" ELSE "commit")
      BY <1>7, RaiseAlarm DEF Lock, Works
    <2>2. QED
      BY <1>1, <2>1 DEF Quiet, Goto, Command, Away
  <1>8. CASE Commit
    <2>1. /\ At("commit") /\ Goto(AfterApply(op.status)) /\ image' = Override(image, op.want)
          /\ UNCHANGED <<flash, prot, sfc, disk, alarm>>
      BY <1>8, RaiseAlarm DEF Commit, Works
    <2>2. op.todo = {} /\ \A s \in Sectors : op.want[s] \in {Keep, flash[s]}
      BY <2>1 DEF Inv, Progress, Planned, At
    <2>3. \A s \in Sectors : image'[s] = flash'[s]
      BY <2>1, <2>2 DEF Quiet, Override
    <2>4. Damaged' = {}
      BY <2>3 DEF Damaged
    <2>5. op'.want = op.want /\ op'.journal = op.journal /\ op'.saved = op.saved /\ op'.status = op.status
          /\ op'.failing = op.failing /\ op'.at \in {"status", "giveback"}
      BY <1>1, <2>1 DEF Goto, Command, AfterApply
    <2>6. QED
      BY <2>1, <2>3, <2>4, <2>5 DEF Quiet, At, Away
  <1>9. CASE Status
    <2>1. /\ At("status") /\ Goto("giveback") /\ prot' = op.status
          /\ UNCHANGED <<flash, sfc, disk, image, alarm>>
      BY <1>9, RaiseAlarm DEF Status, Works
    <2>2. op.status = "locked" /\ Damaged = {}
      BY <2>1 DEF Quiet, Inv, Progress, Locks, At
    <2>3. Damaged' = Damaged
      BY <2>1 DEF Damaged
    <2>4. QED
      BY <1>1, <2>1, <2>2, <2>3 DEF Quiet, Goto, Command
  <1>10. CASE GiveBack
    <2>1. At("giveback") /\ op' = Idle /\ UNCHANGED <<flash, prot, sfc, disk, image, alarm>>
      BY <1>10, RaiseAlarm DEF GiveBack
    <2>2. Damaged' = {}
      BY <2>1 DEF Quiet, Damaged, At
    <2>3. \A s \in Sectors : flash'[s] = image'[s]
      BY <2>2 DEF Damaged
    <2>4. QED
      BY <2>1, <2>2, <2>3 DEF Quiet, Idle, At, Away
  <1>11. QED
    BY <1>2, <1>3, <1>4, <1>5, <1>6, <1>7, <1>8, <1>9, <1>10 DEF Transaction

LEMMA QuietNext == Inv /\ Quiet /\ [Next]_vars => Quiet'
  <1> SUFFICES ASSUME Inv, Quiet, [Next]_vars, ~alarm' PROVE Quiet'
    BY QuietAlarm
  <1>1. CASE Transaction
    BY <1>1, QuietTransaction
  <1>2. CASE Write
    <2>1. PICK want \in [Sectors -> Values \cup {Keep}] \ {Nothing} : Begin(want, "none")
      BY <1>2 DEF Write
    <2>2. want \in Requests
      BY DEF Requests, Contents
    <2>3. QED
      BY <2>1, <2>2, QuietBegin
  <1>3. CASE Restore
    <2>1. PICK j \in disk : Begin(j.before, j.status)
      BY <1>3 DEF Restore
    <2>2. j.before \in Requests /\ j.status \in Locks
      BY DEF Inv, TypeOK, Journals
    <2>3. alarm \/ j.status = "locked"
      BY DEF Quiet
    <2>4. QED
      BY <2>1, <2>2, <2>3, QuietBegin
  <1>4. CASE Resume \/ Halt \/ MonitorReset \/ PowerLoss \/ UNCHANGED vars
    <2>1. UNCHANGED <<flash, sfc, disk, op, image, alarm>> /\ prot' \in {prot, "locked"}
      BY <1>4 DEF Resume, Halt, MonitorReset, PowerLoss, vars
    <2>2. Damaged' = Damaged
      BY <2>1 DEF Damaged
    <2>3. QED
      BY <2>1, <2>2 DEF Quiet
  <1>5. CASE Restart
    <2>1. At("idle") /\ ~alarm /\ op' = Idle /\ UNCHANGED <<flash, prot, sfc, disk, image>>
      BY <1>5 DEF Restart, At
    <2>2. Damaged' = {}
      BY <2>1 DEF Quiet, Damaged, At
    <2>3. \A s \in Sectors : flash'[s] = image'[s]
      BY <2>2 DEF Damaged
    <2>4. QED
      BY <2>1, <2>2, <2>3 DEF Quiet, Idle, At, Away
  <1>6. QED
    BY <1>1, <1>2, <1>3, <1>4, <1>5 DEF Next, Server

\* ws63flash.py writable() and controller(): unless a command failed or was cut
\* short, the protection and the controller are as they were before it.
THEOREM GivenBack == Spec => []Borrowed
  <1>1. Quiet => Borrowed
    BY DEF Quiet, Borrowed, At, Away
  <1>2. QED
    BY <1>1, QuietInit, QuietNext, Invariance, PTL DEF Spec

-----------------------------------------------------------------------------
(* The transaction implements FlashStore.                                  *)

LEMMA WhereFacts ==
    ASSUME Recoverable
    PROVE  /\ \A s \in Sectors : Where[s] = IF s \in Damaged THEN "backup" ELSE "flash"
           /\ Where \in [Sectors -> {"flash", "backup"}]
  <1>1. \A s \in Sectors : Where[s] = IF s \in Damaged THEN "backup" ELSE "flash"
    BY DEF Recoverable, Where, Damaged
  <1>2. QED
    BY <1>1 DEF Where

LEMMA WhereKept ==
    ASSUME Recoverable, Recoverable', flash' = flash, image' = image
    PROVE  Where' = Where
  <1>1. Damaged' = Damaged
    BY DEF Damaged
  <1>2. \A s \in Sectors : Where'[s] = Where[s]
    <2>1. \A s \in Sectors : Where[s] = IF s \in Damaged THEN "backup" ELSE "flash"
      BY WhereFacts
    <2>2. \A s \in Sectors : Where'[s] = IF s \in Damaged' THEN "backup" ELSE "flash"
      BY DEF Recoverable, Where, Damaged
    <2>3. QED
      BY <1>1, <2>1, <2>2
  <1>3. QED
    BY <1>2 DEF Where

LEMMA StoreInit == Init => Store!Init
  <1> SUFFICES ASSUME Init PROVE Store!Init
    OBVIOUS
  <1>1. image \in [Sectors -> Contents]
    BY ContentFacts DEF Init
  <1>2. Damaged = {}
    BY DEF Init, Damaged
  <1>3. Where = [s \in Sectors |-> "flash"]
    BY <1>2 DEF Where
  <1>4. Open = {}
    BY ContentFacts DEF Init, Open
  <1>5. QED
    BY <1>1, <1>3, <1>4 DEF Store!Init

\* A step that keeps the Flash, the image and the request is a stutter.
LEMMA StoreStutter ==
    ASSUME Inv, Inv', flash' = flash, image' = image, op'.want = op.want
    PROVE  UNCHANGED Store!vars
  <1>1. Where' = Where
    BY WhereKept DEF Inv, Backed
  <1>2. Open' = Open
    BY DEF Open
  <1>3. QED
    BY <1>1, <1>2 DEF Store!vars

LEMMA StoreEnd ==
    ASSUME Inv, Inv', flash' = flash, image' = image, op' = Idle
    PROVE  Store!End
  <1>1. Where' = Where
    BY WhereKept DEF Inv, Backed
  <1>2. Open' = {}
    BY ContentFacts DEF Open
  <1>3. QED
    BY <1>1, <1>2 DEF Store!End

LEMMA StoreDisturb ==
    ASSUME Inv, Inv', Erase \/ Program
    PROVE  Store!Disturb
  <1>1. op.at \in {"erase", "program"} /\ image' = image
    BY DEF Erase, Program, At
  <1>2. op.todo # {}
    BY <1>1 DEF Inv, Progress, Planned
  <1>3. Current \in op.todo /\ Current \in Sectors
    BY <1>2, CurrentIn DEF Inv
  <1>4. op'.want = op.want
    BY DEF Erase, Program, Goto, Raise, Inv, TypeOK, Command
  <1>5. \E c : Put(c)
    BY DEF Erase, Program
  <1>6. Current \in Open
    BY <1>3 DEF Inv, Progress, Open
  <1> HIDE DEF Current
  <1>7. \A s \in Sectors \ {Current} : flash'[s] = flash[s]
    BY <1>3, <1>5 DEF Put, Inv, TypeOK
  <1>8. \A s \in Sectors \ Open : Where'[s] = Where[s]
    <2>1. \A s \in Sectors : Where[s] = IF s \in Damaged THEN "backup" ELSE "flash"
      BY WhereFacts DEF Inv, Backed
    <2>2. \A s \in Sectors : Where'[s] = IF s \in Damaged' THEN "backup" ELSE "flash"
      BY DEF Inv, Backed, Recoverable, Where, Damaged
    <2>3. \A s \in Sectors \ Open : s \in Damaged' <=> s \in Damaged
      BY <1>1, <1>6, <1>7 DEF Damaged
    <2>4. QED
      BY <2>1, <2>2, <2>3
  <1>9. Where' \in [Sectors -> {"flash", "backup"}]
    BY DEF Inv, Backed, Recoverable, Where, Damaged
  <1>10. Open' = Open
    BY <1>4 DEF Open
  <1>11. QED
    BY <1>1, <1>8, <1>9, <1>10 DEF Store!Disturb

\* A request that every sector it covers now meets becomes the image.
LEMMA StoreUpdate ==
    ASSUME Inv, Inv', NEW f \in Requests, flash' = flash, image' = Override(image, f), op'.want = f,
           op.want \in {Nothing, f}, \A s \in Sectors : f[s] \in {Keep, flash[s]}
    PROVE  Store!Update(f)
  <1>1. Open' = Store!Covered(f)
    BY DEF Open, Store!Covered
  <1>2. Open \in {{}, Store!Covered(f)}
    BY ContentFacts DEF Open, Store!Covered
  <1>3. image' = Store!Override(image, f)
    BY DEF Override, Store!Override
  <1>4. \A s \in Sectors : image'[s] = IF f[s] = Keep THEN image[s] ELSE flash[s]
    BY DEF Override
  <1>5. \A s \in Sectors : Where'[s] = IF s \in Store!Covered(f) THEN "flash" ELSE Where[s]
    <2>1. \A s \in Sectors : Where[s] = IF s \in Damaged THEN "backup" ELSE "flash"
      BY WhereFacts DEF Inv, Backed
    <2>2. \A s \in Sectors : Where'[s] = IF s \in Damaged' THEN "backup" ELSE "flash"
      BY DEF Inv, Backed, Recoverable, Where, Damaged
    <2>3. \A s \in Sectors : s \in Damaged' <=> s \in Damaged /\ f[s] = Keep
      BY <1>4 DEF Damaged
    <2>4. QED
      BY <2>1, <2>2, <2>3 DEF Store!Covered
  <1>6. Where' = [s \in Sectors |-> IF s \in Store!Covered(f) THEN "flash" ELSE Where[s]]
    BY <1>5 DEF Where
  <1>7. QED
    BY <1>1, <1>2, <1>3, <1>6 DEF Store!Update

LEMMA StoreBegin ==
    ASSUME Inv, Inv', NEW want \in Requests, NEW status \in Locks \cup {"none"}, Begin(want, status)
    PROVE  [Store!Next]_Store!vars
  <1> DEFINE todo == {s \in Sectors : want[s] \notin {Keep, flash[s]}}
             new  == [before |-> [s \in Sectors |-> IF s \in todo THEN flash[s] ELSE Keep], status |-> prot]
  <1>1. op.at = "idle" /\ flash' = flash
    BY DEF Begin, At
  <1>2. op.want = Nothing
    BY <1>1 DEF Inv, Progress
  <1>3. CASE (op' = op \/ Raise("giveback")) /\ image' = image
    <2>1. op'.want = op.want
      BY <1>3 DEF Raise, Inv, TypeOK, Command
    <2>2. QED
      BY <1>1, <1>3, <2>1, StoreStutter
  <1>4. CASE /\ op' = [Idle EXCEPT !.at = IF todo = {} THEN AfterApply(status) ELSE "backup",
                                   !.todo = todo, !.want = want, !.journal = new, !.status = status]
             /\ image' = IF todo = {} THEN Override(image, want) ELSE image
    <2>1. op'.want = want
      BY <1>4 DEF Idle
    <2>2. CASE todo = {}
      BY <1>1, <1>2, <1>4, <2>1, <2>2, StoreUpdate DEF Store!Next, Store!Requests, Requests
    <2>3. CASE todo # {}
      <3>1. Where' = Where /\ image' = image
        BY <1>1, <1>4, <2>3, WhereKept DEF Inv, Backed
      <3>2. Open = {} /\ Open' \in SUBSET Sectors
        BY <1>2, ContentFacts DEF Open
      <3>3. QED
        BY <3>1, <3>2 DEF Store!Next, Store!Begin
    <2>4. QED
      BY <2>2, <2>3
  <1>5. QED
    BY <1>3, <1>4 DEF Begin

LEMMA StoreCommit ==
    ASSUME Inv, Inv', Commit
    PROVE  [Store!Next]_Store!vars
  <1>1. op.at = "commit" /\ flash' = flash
    BY DEF Commit, At
  <1>2. op'.want = op.want
    BY DEF Commit, Goto, Raise, Inv, TypeOK, Command
  <1>3. ~op.failing /\ op.todo = {}
    BY <1>1 DEF Inv, Progress, Planned
  <1>4. \A s \in Sectors : op.want[s] \in {Keep, flash[s]}
    BY <1>3 DEF Inv, Progress
  <1>5. op.want \in Requests
    BY DEF Inv, TypeOK, Command
  <1>6. CASE image' = image
    BY <1>1, <1>2, <1>6, StoreStutter
  <1>7. CASE image' = Override(image, op.want)
    BY <1>1, <1>2, <1>4, <1>5, <1>7, StoreUpdate DEF Store!Next, Store!Requests, Requests
  <1>8. QED
    BY <1>6, <1>7 DEF Commit

LEMMA StoreNext ==
    ASSUME Inv, Inv', [Next]_vars
    PROVE  [Store!Next]_Store!vars
  <1>1. CASE WriteJournal \/ SyncJournal \/ Unlock \/ Verify \/ Lock \/ Status
    <2>1. flash' = flash /\ image' = image
      BY <1>1 DEF WriteJournal, SyncJournal, Unlock, Verify, Lock, Status
    <2>2. op'.want = op.want
      BY <1>1 DEF WriteJournal, SyncJournal, Unlock, Verify, Lock, Status, Goto, Raise, HostRaise, Inv, TypeOK, Command
    <2>3. QED
      BY <2>1, <2>2, StoreStutter
  <1>2. CASE Erase \/ Program
    BY <1>2, StoreDisturb DEF Store!Next
  <1>3. CASE Commit
    BY <1>3, StoreCommit
  <1>4. CASE GiveBack \/ Restart
    BY <1>4, StoreEnd DEF Store!Next, GiveBack, Restart
  <1>5. CASE Write
    <2>1. PICK want \in [Sectors -> Values \cup {Keep}] \ {Nothing} : Begin(want, "none")
      BY <1>5 DEF Write
    <2>2. want \in Requests
      BY DEF Requests, Contents
    <2>3. QED
      BY <2>1, <2>2, StoreBegin
  <1>6. CASE Restore
    <2>1. PICK j \in disk : Begin(j.before, j.status)
      BY <1>6 DEF Restore
    <2>2. j.before \in Requests /\ j.status \in Locks
      BY DEF Inv, TypeOK, Journals
    <2>3. QED
      BY <2>1, <2>2, StoreBegin
  <1>7. CASE Resume \/ Halt \/ MonitorReset \/ PowerLoss \/ UNCHANGED vars
    <2>1. flash' = flash /\ image' = image /\ op' = op
      BY <1>7 DEF Resume, Halt, MonitorReset, PowerLoss, vars
    <2>2. QED
      BY <2>1, StoreStutter
  <1>8. QED
    BY <1>1, <1>2, <1>3, <1>4, <1>5, <1>6, <1>7 DEF Next, Transaction, Server

\* The Flash transaction implements FlashStore: the image changes only as a
\* whole, and is never lost.
THEOREM Refinement == Spec => Atomic
  <1>1. Inv /\ Inv' /\ [Next]_vars => [Store!Next]_Store!vars
    BY StoreNext
  <1>2. QED
    BY <1>1, StoreInit, Invariance, PTL DEF Spec, Atomic, Store!Spec

=============================================================================
