-------------------------------- MODULE Flash --------------------------------
(***************************************************************************)
(* The Flash transaction of ws63flash.py as the GDB server runs it: back   *)
(* up, erase, program and verify whole sectors behind a write protection   *)
(* and a controller borrowed from the firmware, and refuse to run the hart *)
(* while the Flash is in doubt or the hart has not been reset into it.     *)
(*                                                                         *)
(* One action per step between which the process may be killed, the host   *)
(* or the board may lose power, or an access may fail.  A sector is one    *)
(* content; its 64-byte pages are not told apart.                          *)
(***************************************************************************)
EXTENDS Integers, FiniteSets

CONSTANTS
    NSectors,       \* sectors of the Flash, erased and programmed in order
    Values,         \* contents a user writes
    Blank,          \* the content of an erased sector
    Torn,           \* whatever an interrupted or failed erase or program leaves
    Keep,           \* in a request: this sector is not covered
    MaxFaults,      \* bound: failed accesses, to the target or to the disk
    MaxJournals     \* bound: journals kept on disk

ASSUME SectorsAssumption == NSectors \in Nat \ {0}
ASSUME ContentsAssumption == Blank \in Values /\ Torn \notin Values /\ Keep \notin Values \cup {Torn}
ASSUME BoundsAssumption == MaxFaults \in Nat /\ MaxJournals \in Nat

Sectors  == 0 .. NSectors - 1
Contents == Values \cup {Torn}
Requests == [Sectors -> Contents \cup {Keep}]
Locks    == {"locked", "open"}          \* SR1/SR2 protection bits
Journals == [before : Requests, status : Locks]     \* manifest and backups
Steps    == {"idle", "backup", "sync", "unlock", "erase", "program", "verify",
             "lock", "commit", "status", "giveback"}

VARIABLES
    flash,      \* what the sectors hold
    prot,       \* the protection bits, volatile
    sfc,        \* "lost": the firmware's controller state may not be put back
    disk,       \* the journals that survive the host
    op,         \* the command in progress
    unsafe,     \* Flash.unsafe
    needsReset, \* Server.needs_reset
    hart,
    link,       \* "gone": no access works until the server is started again
    faults,     \* counts failed accesses, up to MaxFaults
    image,      \* ghost: what the last successful commands asked for
    booted,     \* ghost: the Flash at the last reset, or when the server started
    alarm,      \* ghost: a command failed or was cut short
    inherited   \* ghost: sectors damaged before this server process started

vars == <<flash, prot, sfc, disk, op, unsafe, needsReset, hart, link, faults,
          image, booted, alarm, inherited>>
target  == <<hart, link, needsReset, booted, inherited>>

Command == [at : Steps, todo : SUBSET Sectors, want : Requests, journal : Journals,
            saved : Locks, status : Locks \cup {"none"}, failing : BOOLEAN]

TypeOK ==
    /\ flash \in [Sectors -> Contents]
    /\ prot \in Locks
    /\ sfc \in {"kept", "lost"}
    /\ disk \in SUBSET Journals
    /\ op \in Command
    /\ unsafe \in BOOLEAN /\ needsReset \in BOOLEAN
    /\ hart \in {"halted", "running"} /\ link \in {"up", "gone"}
    /\ faults \in Nat
    /\ image \in [Sectors -> Contents] /\ booted \in [Sectors -> Contents]
    /\ alarm \in BOOLEAN /\ inherited \in SUBSET Sectors

Nothing == [s \in Sectors |-> Keep]
Idle == [at |-> "idle", todo |-> {}, want |-> Nothing,
         journal |-> [before |-> Nothing, status |-> "locked"],
         saved |-> "locked", status |-> "none", failing |-> FALSE]

Override(g, f) == [s \in Sectors |-> IF f[s] = Keep THEN g[s] ELSE f[s]]
Damaged == {s \in Sectors : flash[s] # image[s]}
\* write_sector takes the sectors in ascending order.
Current == CHOOSE s \in op.todo : \A t \in op.todo : s <= t

-----------------------------------------------------------------------------
(* How a step ends                                                          *)

At(step) == op.at = step
Goto(step) == op' = [op EXCEPT !.at = step]

\* An access to the target fails by itself, or because the link is gone.
Fault ==
    /\ \/ link = "gone" /\ UNCHANGED <<faults, link>>
       \/ faults < MaxFaults /\ faults' = faults + 1 /\ link' \in {link, "gone"}
    /\ alarm' = TRUE

\* The step raises: its finally blocks are next.
Raise(step) ==
    /\ op' = [op EXCEPT !.at = step, !.failing = TRUE]
    /\ Fault
    /\ UNCHANGED <<hart, needsReset, booted, inherited>>

Works == link = "up" /\ UNCHANGED <<faults, alarm, target>>
\* The host's own disk needs no link, and fails by itself.
HostWorks == UNCHANGED <<faults, alarm, target>>
HostRaise(step) ==
    /\ op' = [op EXCEPT !.at = step, !.failing = TRUE]
    /\ faults < MaxFaults /\ faults' = faults + 1
    /\ alarm' = TRUE
    /\ UNCHANGED target

\* Where apply() returns to: the rest of restore(), or the end of the command.
AfterApplyAlways(status) == "status"        \* mutant: as if always in restore()
AfterApply(status) == IF status = "none" THEN "giveback" ELSE "status"

-----------------------------------------------------------------------------
(* The transaction: apply(), inside controller()                            *)

\* controller() borrows the SFC, which may fail at once; then come identify(),
\* status() and the reading of every covered sector.  A sector
\* that holds its content already is left out.
Begin(want, status) ==
    LET todo == {s \in Sectors : want[s] \notin {Keep, flash[s]}}
        new  == [before |-> [s \in Sectors |-> IF s \in todo THEN flash[s] ELSE Keep],
                 status |-> prot]
    IN  /\ At("idle") /\ hart = "halted"
        /\ todo # {} => Cardinality(disk \cup {new}) <= MaxJournals
        /\ \/ /\ Works
              /\ op' = [Idle EXCEPT !.at = IF todo = {} THEN AfterApply(status) ELSE "backup",
                                    !.todo = todo, !.want = want, !.journal = new, !.status = status]
              /\ image' = IF todo = {} THEN Override(image, want) ELSE image
           \/ link = "up" /\ Raise("giveback") /\ UNCHANGED image
           \/ Fault /\ UNCHANGED <<op, image, hart, needsReset, booted, inherited>>
        /\ UNCHANGED <<flash, prot, sfc, disk, unsafe>>

\* durable_write of the backups, then of journal.json.
WriteJournal ==
    /\ At("backup")
    /\ \/ HostWorks /\ Goto("sync")
       \/ HostRaise("giveback")
    /\ UNCHANGED <<flash, prot, sfc, disk, unsafe, image>>

\* Mutant: the directories are not synced.
SyncJournalNot ==
    /\ At("sync")
    /\ HostWorks /\ Goto("unlock") /\ unsafe' = TRUE
    /\ UNCHANGED <<flash, prot, sfc, disk, image>>

\* fsync of the directories; from here on the Flash is unsafe.
SyncJournal ==
    /\ At("sync")
    /\ \/ HostWorks /\ Goto("unlock") /\ disk' = disk \cup {op.journal} /\ unsafe' = TRUE
       \/ HostRaise("giveback") /\ disk' \in {disk, disk \cup {op.journal}} /\ UNCHANGED unsafe
    /\ UNCHANGED <<flash, prot, sfc, image>>

\* sync_code, identify and status, then set_status: writable() is entered
\* with the last of them, and only then left through its finally.
Unlock ==
    /\ At("unlock")
    /\ \/ Works /\ prot' = "open" /\ op' = [op EXCEPT !.at = "erase", !.saved = prot]
       \/ Raise("giveback") /\ UNCHANGED prot
       \/ /\ Raise("lock")
          /\ prot' \in IF link = "up" THEN {prot, "open"} ELSE {prot}
    /\ UNCHANGED <<flash, sfc, disk, unsafe, image>>

Put(c) == flash' = [flash EXCEPT ![Current] = c]

Erase ==
    /\ At("erase")
    /\ \/ Works /\ Goto("program") /\ Put(Blank)
       \/ Raise("lock") /\ \E c \in IF link = "up" THEN {flash[Current], Torn, Blank} ELSE {flash[Current]} : Put(c)
    /\ UNCHANGED <<prot, sfc, disk, unsafe, image>>

\* Pages that did not take are not noticed here.
Program ==
    /\ At("program")
    /\ \/ Works /\ Goto("verify") /\ Put(op.want[Current])
       \/ /\ link = "up" /\ faults < MaxFaults /\ faults' = faults + 1
          /\ Goto("verify") /\ Put(Torn)
          /\ UNCHANGED <<alarm, target>>
       \/ /\ Raise("lock")
          /\ \E c \in IF link = "up" THEN {Blank, Torn, op.want[Current]} ELSE {flash[Current]} : Put(c)
    /\ UNCHANGED <<prot, sfc, disk, unsafe, image>>

\* Mutant: the sector is read back and not compared.
VerifyNot ==
    LET rest == op.todo \ {Current}
    IN  /\ At("verify") /\ Works
        /\ op' = [op EXCEPT !.todo = rest, !.at = IF rest = {} THEN "lock" ELSE "erase"]
        /\ UNCHANGED <<flash, prot, sfc, disk, unsafe, image>>

Verify ==
    LET rest == op.todo \ {Current}
    IN  /\ At("verify")
        /\ \/ /\ Works /\ flash[Current] = op.want[Current]
              /\ op' = [op EXCEPT !.todo = rest, !.at = IF rest = {} THEN "lock" ELSE "erase"]
           \/ /\ link = "up" /\ flash[Current] # op.want[Current]
              /\ op' = [op EXCEPT !.at = "lock", !.failing = TRUE]
              /\ alarm' = TRUE
              /\ UNCHANGED <<faults, target>>
           \/ Raise("lock")
        /\ UNCHANGED <<flash, prot, sfc, disk, unsafe, image>>

\* Mutant: an error leaves the protection bits as they are.
LockNot ==
    /\ At("lock") /\ Works
    /\ Goto(IF op.failing THEN "giveback" ELSE "commit")
    /\ UNCHANGED <<flash, prot, sfc, disk, unsafe, image>>

\* Mutant: leaving writable() ends the transaction, failed or not.
LockClears ==
    /\ At("lock") /\ Works /\ prot' = op.saved
    /\ Goto(IF op.failing THEN "giveback" ELSE "commit")
    /\ unsafe' = FALSE
    /\ UNCHANGED <<flash, sfc, disk, image>>

\* The finally of writable().
Lock ==
    /\ At("lock")
    /\ \/ Works /\ prot' = op.saved /\ Goto(IF op.failing THEN "giveback" ELSE "commit")
       \/ Raise("giveback") /\ prot' \in IF link = "up" THEN {prot, op.saved} ELSE {prot}
    /\ UNCHANGED <<flash, sfc, disk, unsafe, image>>

\* sync_code and complete.json.
Commit ==
    /\ At("commit")
    /\ \/ Works /\ Goto(AfterApply(op.status)) /\ unsafe' = FALSE /\ image' = Override(image, op.want)
       \/ Raise("giveback") /\ UNCHANGED <<unsafe, image>>
    /\ UNCHANGED <<flash, prot, sfc, disk>>

\* The rest of restore(): the protection the journal recorded.
Status ==
    /\ At("status")
    /\ \/ Works /\ prot' = op.status /\ unsafe' = FALSE /\ Goto("giveback")
       \/ /\ Raise("giveback") /\ unsafe' = TRUE
          /\ prot' \in IF link = "up" THEN {prot, op.status} ELSE {prot}
    /\ UNCHANGED <<flash, sfc, disk, image>>

\* Mutant: the server forgets that the hart runs another image.
GiveBackForgets ==
    /\ At("giveback")
    /\ op' = Idle /\ Works
    /\ UNCHANGED <<flash, prot, sfc, disk, unsafe, image>>

\* The finally of controller(), and what the server does with the result.
GiveBack ==
    /\ At("giveback")
    /\ op' = Idle
    /\ \/ /\ link = "up"
          /\ needsReset' = (needsReset \/ ~op.failing)
          /\ UNCHANGED <<unsafe, sfc, alarm, faults, link>>
       \/ Fault /\ unsafe' = TRUE /\ sfc' = "lost" /\ UNCHANGED needsReset
    /\ UNCHANGED <<flash, prot, disk, hart, booted, inherited, image>>

-----------------------------------------------------------------------------
(* The commands of the server                                               *)

\* monitor flash write, and vFlashDone.
Write == \E want \in [Sectors -> Values \cup {Keep}] \ {Nothing} : Begin(want, "none")

\* monitor flash restore
Restore == \E j \in disk : Begin(j.before, j.status)

Prompt == At("idle") /\ link = "up"

\* c, s, D, k and the end of serve(): refused while the Flash is in doubt, or
\* changed and not booted.
Resume ==
    /\ Prompt /\ hart = "halted" /\ ~needsReset /\ ~unsafe
    /\ hart' = "running"
    /\ UNCHANGED <<flash, prot, sfc, disk, op, unsafe, needsReset, link, faults, image, booted, alarm, inherited>>

\* A stop, ^C, or the next connection.
Halt ==
    /\ Prompt /\ hart = "running"
    /\ hart' = "halted"
    /\ UNCHANGED <<flash, prot, sfc, disk, op, unsafe, needsReset, link, faults, image, booted, alarm, inherited>>

\* monitor reset: refused while the Flash is in doubt.
MonitorReset ==
    /\ Prompt /\ hart = "halted" /\ ~unsafe
    /\ needsReset' = FALSE
    /\ booted' = flash
    /\ UNCHANGED <<flash, prot, sfc, disk, op, unsafe, hart, link, faults, image, alarm, inherited>>

-----------------------------------------------------------------------------
(* The environment                                                          *)

\* The board loses power and boots.  The server sets the port up again only
\* while it waits for a running hart (wait_for_link).
PowerLoss ==
    /\ hart' = "running"
    /\ link' = IF At("idle") /\ hart = "running" THEN link ELSE "gone"
    /\ prot' = "locked"
    /\ booted' = flash
    /\ UNCHANGED <<flash, sfc, disk, op, unsafe, needsReset, faults, image, alarm, inherited>>

\* The server is killed, or its host loses power, and another is started: the
\* journal just being written may be there or not.
Restart ==
    /\ op' = Idle
    /\ disk' \in IF At("sync") THEN {disk, disk \cup {op.journal}} ELSE {disk}
    /\ sfc' = IF At("idle") THEN sfc ELSE "lost"
    /\ alarm' = (alarm \/ ~At("idle"))
    /\ unsafe' = FALSE /\ needsReset' = FALSE
    /\ hart' = "halted" /\ link' = "up"
    /\ booted' = flash
    /\ inherited' = Damaged
    /\ UNCHANGED <<flash, prot, faults, image>>

-----------------------------------------------------------------------------
Init ==
    /\ flash \in [Sectors -> Values]
    /\ prot = "locked" /\ sfc = "kept" /\ disk = {} /\ op = Idle
    /\ unsafe = FALSE /\ needsReset = FALSE
    /\ hart = "halted" /\ link = "up" /\ faults = 0
    /\ image = flash /\ booted = flash
    /\ alarm = FALSE /\ inherited = {}

Transaction ==
    \/ WriteJournal \/ SyncJournal \/ Unlock \/ Erase \/ Program \/ Verify
    \/ Lock \/ Commit \/ Status \/ GiveBack
Server == Write \/ Restore \/ Resume \/ Halt \/ MonitorReset
Next == Transaction \/ Server \/ PowerLoss \/ Restart
Spec == Init /\ [][Next]_vars

-----------------------------------------------------------------------------
(* Properties                                                               *)

HasBackup(s) == \E j \in disk : j.before[s] = image[s]

\* ws63flash.py:266 "Durable backups precede ALL erases": at every moment,
\* whatever failed, was killed or lost power, and however many failed and
\* repeated commands came before, a sector holds what the user last asked for
\* or a journal on disk does.
Recoverable == \A s \in Damaged : HasBackup(s)

Where == [s \in Sectors |-> IF s \notin Damaged THEN "flash" ELSE IF HasBackup(s) THEN "backup" ELSE "lost"]
Open  == {s \in Sectors : op.want[s] # Keep}
Store == INSTANCE FlashStore WITH where <- Where, open <- Open

\* The user's image changes only as a whole, when a command has verified every
\* sector of it; only the sectors of the command in progress are touched.
Atomic == Store!Spec

\* Server.needs_reset: within one server process a running hart runs the very
\* image it was reset into, never one that was changed under a stale pc.
NoStaleRun == hart = "running" => flash = booted

\* writable() and controller() put back what they borrowed: unless a command
\* failed or was cut short, the protection bits and the firmware's controller
\* state are as they were whenever no command is in progress.
Borrowed == At("idle") /\ ~alarm => prot = "locked" /\ sfc = "kept" /\ Damaged = {}

\* Within one process the flag goes down only in a command whose sectors, all
\* of them, hold what it asked for.
UnsafeUntilVerified ==
    [][unsafe /\ ~unsafe' /\ ~Restart
        => ~op.failing /\ \A s \in Sectors : op.want[s] \in {Keep, flash[s]}]_vars

\* docs/06-flash.md 6.4: after an error in erasing or programming the current
\* session refuses to go on.  So the hart is let go only when no sector is
\* damaged by this server process.
RefusesAfterFailure ==
    [][Resume => Damaged \subseteq inherited]_vars

=============================================================================
