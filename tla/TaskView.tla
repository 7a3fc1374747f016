------------------------------ MODULE TaskView ------------------------------
(***************************************************************************)
(* The LiteOS task view: ws63rtos.LiteOS and the packets of gdbserver that *)
(* read and select tasks, write registers, and let the hart run.           *)
(*                                                                         *)
(* refresh() decodes the kernel's task array into numbered threads and     *)
(* keeps the result until invalidate().  Meanwhile GDB writes registers    *)
(* and memory, steps, resets, loads Flash, and comes and goes.  GDB takes  *)
(* the thread of a stop reply, or the one it selected last, for the one    *)
(* that register packets are about.  A snapshot (ws63diagnose.capture) is  *)
(* served later, by a server whose view is frozen.                         *)
(*                                                                         *)
(* Of a task its identity is decoded, and whether it is the current one;   *)
(* the rest of its record, read in the same moment, is left out, and so    *)
(* are the values of registers.                                            *)
(***************************************************************************)
EXTENDS Integers, FiniteSets

CONSTANTS
    Slots,      \* entries of the task array: 1 .. n, in its order
    Names,      \* what else tells tasks apart: entry, stack, identifier, name
    MaxThread,  \* bound: numbers given to threads
    MaxFaults   \* bound: accesses that fail and task control blocks GDB writes

ASSUME SlotsAssumption  == IsFiniteSet(Slots) /\ Slots = 1 .. Cardinality(Slots) /\ Slots # {}
ASSUME BoundsAssumption == MaxThread \in Nat \ {0, 1} /\ MaxFaults \in Nat

Free  == "free"         \* a TCB whose status says it is not used
Isr   == 0              \* a stack that is no task's
Hart  == 1              \* the thread for the boot or interrupt context
None  == 0              \* no thread
Tcbs  == Names \cup {Free}

VARIABLES
    k,          \* the kernel, and the stack the hart is on
    hart,       \* "running", "halted"
    image,      \* the Flash holds what the ELF holds
    rt,         \* the LiteOS object
    phase,      \* "closed", "prompt", "cont", "offline"
    needsReset, \* Server.needs_reset
    gdbThread,  \* the thread GDB believes selected, or None when it cannot know
    faults,
    unnoted,    \* ghost: the target changed under the view, unknown to it
    known,      \* ghost: <<number, task>> of every thread ever listed
    strayed,    \* ghost: a register write meant for one task went to another
    captured    \* ghost: the view when the snapshot was taken

vars == <<k, hart, image, rt, phase, needsReset, gdbThread, faults,
          unnoted, known, strayed, captured>>

Empty == [t \in {} |-> Free]

-----------------------------------------------------------------------------
(* The kernel. *)

Used(m) == {s \in Slots : m.tcb[s] # Free}

\* The task whose registers the hart holds, if any.
Live(m) == IF m.sched /\ m.run \in Used(m) /\ m.sp = m.run THEN m.run ELSE None

\* What an instruction may do: leave the reset vector; clear the kernel's memory
\* when it starts; create, delete and switch tasks; enter or leave an interrupt.
Leave(m)  == IF m.pc = "vector" THEN {[m EXCEPT !.pc = "code"]} ELSE {}
Clear(m)  == IF m.pc = "code" /\ m.boot
             THEN {[m EXCEPT !.tcb = [s \in Slots |-> Free], !.sched = FALSE, !.boot = FALSE]}
             ELSE {}
Create(m) == {[m EXCEPT !.tcb[s] = n] : s \in Slots \ Used(m), n \in Names}
Delete(m) == {[m EXCEPT !.tcb[s] = Free] : s \in Used(m) \ {m.run}}
Switch(m) == {[m EXCEPT !.sched = TRUE, !.run = s, !.sp = s] : s \in Used(m)}
Irq(m)    == {[m EXCEPT !.sp = IF m.sp = Isr THEN m.run ELSE Isr]}
Moves(m)  == Leave(m) \cup Clear(m) \cup
             IF m.boot THEN {}
             ELSE IF ~m.sched THEN Create(m) \cup Switch(m)
             ELSE Irq(m) \cup IF Live(m) = None THEN {} ELSE Create(m) \cup Delete(m) \cup Switch(m)

\* A warm reset leaves the memory as it is.
Rebooted(m) == [m EXCEPT !.pc = "vector", !.sp = Isr, !.boot = TRUE]

-----------------------------------------------------------------------------
(* LiteOS. *)

\* invalidate().  What it leaves in tasks and current is not read while valid is
\* off, and is forgotten here.
InvalidateFrozen(r, reset) ==
    [r EXCEPT !.valid = FALSE, !.tasks = Empty, !.current = Hart,
              !.verified = @ /\ ~reset, !.selected = IF reset THEN Hart ELSE @]
Invalidate(r, reset) == IF r.frozen THEN r ELSE InvalidateFrozen(r, reset)

\* What is decoded of a task, and what of it is compared: all of it.
Task(m, s)    == <<s, m.tcb[s]>>
KeySlot(m, s) == <<s>>
Key(m, s)     == Task(m, s)

\* The number of the task in a slot: the one its key had, or the next.
Unknown(r, m) == {s \in Used(m) : Key(m, s) \notin DOMAIN r.identities}
Number(r, m, s) ==
    IF s \notin Unknown(r, m) THEN r.identities[Key(m, s)]
    ELSE r.next + Cardinality({x \in Unknown(r, m) : x < s})

Decode(r, m) ==
    LET slot(t) == CHOOSE s \in Used(m) : Number(r, m, s) = t
        numbers == {Number(r, m, s) : s \in Used(m)}
        current == IF Live(m) = None THEN Hart ELSE Number(r, m, Live(m))
    IN  [r EXCEPT !.tasks = [t \in numbers |-> Task(m, slot(t))],
                  !.current = current,
                  !.selected = IF @ \in numbers THEN @ ELSE current,
                  !.identities = [key \in {Key(m, s) : s \in Used(m)} |-> Number(r, m, key[1])],
                  !.next = @ + Cardinality(Unknown(r, m)),
                  !.verified = TRUE, !.valid = TRUE]

\* refresh(): a result, and whether it has not raised; half way through the
\* array it has given out some numbers and kept none.
Nobody(r) == [r EXCEPT !.tasks = Empty, !.current = Hart, !.selected = Hart, !.valid = TRUE]
Result(r, ok) == [r |-> r, ok |-> ok, faults |-> 0]
Raised(r, m) == {[r |-> [r EXCEPT !.verified = TRUE, !.next = @ + n], ok |-> FALSE, faults |-> 1] :
                 n \in 0 .. Cardinality(Unknown(r, m))}
Refresh(r, m, stopped, same) ==
    IF r.valid THEN {Result(r, TRUE)}
    ELSE IF ~stopped THEN {Result(r, FALSE)}
    ELSE {[Result(r, FALSE) EXCEPT !.faults = 1]} \cup
         IF m.pc = "vector" THEN {Result(Nobody(r), TRUE)}
         ELSE IF ~r.verified /\ ~same THEN {Result(r, FALSE)}
         ELSE IF ~m.sched THEN {Result(Nobody([r EXCEPT !.verified = TRUE]), TRUE)}
         ELSE {Result(Decode(r, m), TRUE)} \cup Raised(r, m)

\* threads().
Threads(r) == DOMAIN r.tasks \cup IF r.current = Hart THEN {Hart} ELSE {}

Listed(r) == {<<t, r.tasks[t]>> : t \in DOMAIN r.tasks}

-----------------------------------------------------------------------------
(* The server. *)

\* A handler calls refresh() on r and the target m, within the bounds.
Refreshed(r, m, stopped) ==
    {o \in Refresh(r, m, stopped, image) : faults + o.faults <= MaxFaults /\ o.r.next <= MaxThread + 1}
Becomes(r, o) == rt' = r /\ known' = known \cup Listed(r) /\ faults' = faults + o.faults

\* stop_reply(): it invalidates, decodes, and names the current thread.
StopReply(r, m) ==
    \E o \in Refreshed(Invalidate(r, FALSE), m, TRUE) :
        /\ Becomes(IF o.ok THEN [o.r EXCEPT !.selected = o.r.current] ELSE o.r, o)
        /\ gdbThread' = IF o.ok THEN o.r.current ELSE None
        /\ unnoted' = FALSE

AtPrompt == phase \in {"prompt", "offline"}
Halts    == hart = "halted"
Fixed    == UNCHANGED <<image, needsReset, strayed, captured>>

\* serve(): a new session halts the hart; GDB asks "?" before it trusts anything.
Accept ==
    /\ phase = "closed"
    /\ phase' = IF rt.frozen THEN "offline" ELSE "prompt"
    /\ hart' = "halted" /\ gdbThread' = None
    /\ unnoted' = (unnoted \/ ~rt.frozen)
    /\ UNCHANGED <<k, rt, faults, known>> /\ Fixed

\* "?" and ^C.
Why ==
    /\ AtPrompt
    /\ hart' = "halted"
    /\ StopReply(rt, k)
    /\ UNCHANGED <<k, phase>> /\ Fixed

\* g, p, T, qC, qfThreadInfo, qThreadExtraInfo, monitor tasks, bt, sync; and
\* the packets that are refused after it.
Inspect ==
    /\ AtPrompt /\ ~rt.valid
    /\ \E o \in Refreshed(rt, k, Halts) : Becomes(o.r, o)
    /\ UNCHANGED <<k, hart, phase, gdbThread, unnoted>> /\ Fixed

\* Hg: 0 and -1 stand for the current thread.  Out of a view that is not true
\* any more GDB selects it knows not what.
Hg(t) ==
    /\ AtPrompt
    /\ \E o \in Refreshed(rt, k, Halts) :
        LET wanted == IF t = None THEN o.r.current ELSE t
        IN  /\ o.ok /\ wanted \in Threads(o.r)
            /\ Becomes([o.r EXCEPT !.selected = wanted], o)
            /\ gdbThread' = IF unnoted THEN None ELSE wanted
    /\ UNCHANGED <<k, hart, phase, unnoted>> /\ Fixed

\* write_reg: only for the live current task.
WritableUnchecked(r) == TRUE
Writable(r) == r.selected = r.current

\* What G and P do to the view.
WrittenKept(r) == r
Written(r)     == Invalidate(r, FALSE)

\* P, G: a write drops the view; one that fails may have written.  GDB means
\* the task on whose stack the hart is.
Meant(t) == <<t, Task(k, k.run)>> \in known /\ k.sp = k.run
P ==
    /\ phase = "prompt" /\ Halts
    /\ \E o \in Refreshed(rt, k, Halts) :
        /\ o.ok /\ Writable(o.r)
        /\ \/ /\ Becomes(Written(o.r), o) /\ unnoted' = FALSE
              /\ UNCHANGED gdbThread
           \/ /\ faults < MaxFaults
              /\ rt' = o.r /\ known' = known \cup Listed(o.r) /\ faults' = faults + 1
              /\ unnoted' = TRUE /\ gdbThread' = None
    /\ \E s \in Slots \cup {Isr} : k' = [k EXCEPT !.sp = s]
    /\ strayed' = (strayed \/ (~unnoted /\ gdbThread \notin {None, Hart} /\ ~Meant(gdbThread)))
    /\ UNCHANGED <<hart, phase, image, needsReset, captured>>

\* M, X, monitor mw: nothing tells the view.  Of a thread whose control block
\* it overwrites GDB cannot know what becomes.
M ==
    /\ phase = "prompt" /\ Halts /\ faults < MaxFaults
    /\ faults' = faults + 1
    /\ \E s \in Slots, x \in Tcbs :
        /\ k' = [k EXCEPT !.tcb[s] = x]
        /\ gdbThread' = IF rt.valid \/ \E y \in known : y[1] = gdbThread /\ y[2][1] = s
                        THEN None ELSE gdbThread
    /\ unnoted' = (unnoted \/ rt.valid)
    /\ UNCHANGED <<hart, image, rt, phase, needsReset, known, strayed, captured>>

\* s: refused for a thread that is not live; step_over drops the view when the
\* step has succeeded, and the stop reply decodes it again.
S ==
    /\ phase = "prompt" /\ Halts /\ ~needsReset
    /\ \E o \in Refreshed(rt, k, Halts), m \in Moves(k) :
        /\ o.ok /\ Writable(o.r) /\ k' = m
        /\ \/ StopReply(o.r, m)
           \/ /\ faults < MaxFaults
              /\ rt' = o.r /\ known' = known \cup Listed(o.r) /\ faults' = faults + 1
              /\ unnoted' = TRUE /\ gdbThread' = None
    /\ UNCHANGED <<hart, phase>> /\ Fixed

\* c: do_continue drops the view and waits.
C ==
    /\ phase = "prompt" /\ Halts /\ ~needsReset
    /\ hart' = "running" /\ phase' = "cont"
    /\ rt' = Invalidate(rt, FALSE) /\ gdbThread' = None /\ unnoted' = FALSE
    /\ UNCHANGED <<k, faults, known>> /\ Fixed
Stop ==
    /\ phase = "cont"
    /\ hart' = "halted" /\ phase' = "prompt"
    /\ StopReply(rt, k)
    /\ UNCHANGED k /\ Fixed

\* after_reset(), in do_continue and in monitor reset.
AfterReset ==
    /\ rt' = Invalidate(rt, TRUE) /\ k' = Rebooted(k)
    /\ needsReset' = FALSE /\ gdbThread' = None /\ unnoted' = FALSE
    /\ UNCHANGED <<image, phase, faults, known, strayed, captured>>
\* reset_halt() or after_reset() fails when the reset has taken effect: E01, with
\* the view as it was or dropped already.
ResetFails ==
    /\ faults < MaxFaults /\ faults' = faults + 1
    /\ k' = Rebooted(k) /\ hart' \in {"halted", "running"} /\ phase' = "prompt"
    /\ \/ rt' = Invalidate(rt, TRUE) /\ needsReset' = FALSE
       \/ UNCHANGED <<rt, needsReset>>
    /\ gdbThread' = None /\ unnoted' = rt'.valid
    /\ UNCHANGED <<image, known, strayed, captured>>
ChipReset    == phase = "cont" /\ (ResetFails \/ (AfterReset /\ UNCHANGED hart))
MonitorReset == phase = "prompt" /\ (ResetFails \/ (AfterReset /\ hart' = "halted"))

\* vFlashDone, monitor flash write and restore.
FlashDone ==
    /\ phase = "prompt" /\ Halts
    /\ rt' = Invalidate(rt, TRUE) /\ image' \in BOOLEAN
    /\ needsReset' = TRUE /\ gdbThread' = None /\ unnoted' = FALSE
    /\ UNCHANGED <<k, hart, phase, faults, known, strayed, captured>>

\* D, k, or a lost connection: the hart runs, and the view stays.
Disconnect ==
    /\ AtPrompt \/ phase = "cont"
    /\ phase' = "closed" /\ gdbThread' = None
    /\ hart' = IF rt.frozen \/ needsReset THEN "halted" ELSE "running"
    /\ UNCHANGED <<k, rt, faults, known, unnoted>> /\ Fixed

\* monitor snapshot: the view of the moment goes into a file; memory that could
\* not be read is missing.  ws63diagnose.py serve has a view made of the file.
Offline(r) == [r EXCEPT !.frozen = TRUE, !.selected = r.current, !.verified = TRUE,
                        !.identities = Empty, !.next = 2]
Capture ==
    /\ phase = "prompt" /\ Halts
    /\ \E o \in Refreshed(rt, k, Halts), lost \in SUBSET Slots :
        /\ o.ok
        /\ Becomes(Offline(o.r), o)
        /\ captured' = [tasks |-> o.r.tasks, current |-> o.r.current]
        /\ k' = [k EXCEPT !.tcb = [s \in Slots |-> IF s \in lost THEN Free ELSE @[s]]]
    /\ phase' = "closed" /\ gdbThread' = None
    /\ UNCHANGED <<hart, image, needsReset, unnoted, strayed>>

\* The target runs, with or without a session, or after a chip reset at the
\* prompt, which nobody notices.
Runs ==
    /\ hart = "running" /\ ~rt.frozen
    /\ k' \in Moves(k)
    /\ UNCHANGED <<hart, image, rt, phase, needsReset, gdbThread, faults, unnoted, known, strayed, captured>>
ResetUnseen ==
    /\ phase = "prompt" /\ Halts
    /\ k' = Rebooted(k) /\ hart' = "running" /\ unnoted' = TRUE /\ gdbThread' = None
    /\ UNCHANGED <<image, rt, phase, needsReset, faults, known, strayed, captured>>

Init ==
    /\ k = [tcb |-> [s \in Slots |-> Free], run |-> 1, sp |-> Isr, sched |-> FALSE, pc |-> "code", boot |-> FALSE]
    /\ hart = "running" /\ image = TRUE
    /\ rt = [tasks |-> Empty, current |-> Hart, selected |-> Hart, valid |-> FALSE, verified |-> FALSE,
             identities |-> Empty, next |-> 2, frozen |-> FALSE]
    /\ phase = "closed" /\ needsReset = FALSE /\ gdbThread = None
    /\ faults = 0 /\ unnoted = FALSE /\ known = {} /\ strayed = FALSE
    /\ captured = [tasks |-> Empty, current |-> Hart]

Packet ==
    \/ Why \/ Inspect \/ M \/ S \/ C \/ MonitorReset \/ FlashDone \/ Capture \/ Disconnect
    \/ (\E t \in 0 .. MaxThread : Hg(t)) \/ P
Next == Accept \/ Packet \/ Stop \/ ChipReset \/ Runs \/ ResetUnseen
Spec == Init /\ [][Next]_vars

-----------------------------------------------------------------------------
(* Properties. *)

\* What the task array says, task by task, of the target at this moment.
Truth == IF k.pc = "vector" \/ ~k.sched THEN {}
         ELSE {Task(k, s) : s \in Used(k)}

\* While the hart is halted a valid view is what memory and registers say now,
\* through writes of registers, steps, resets, failed decodings, loads and new
\* sessions, apart from what nothing tells it (unnoted): memory written by GDB,
\* steps, resets and register writes that failed after they took effect, a reset
\* at the prompt, and the run between two sessions until GDB has asked "?".
ViewTrue ==
    rt.valid /\ Halts /\ ~unnoted /\ ~rt.frozen =>
        /\ {rt.tasks[t] : t \in DOMAIN rt.tasks} = Truth
        /\ rt.current = Hart <=> Truth = {} \/ Live(k) = None
        /\ rt.current # Hart => rt.tasks[rt.current][1] = Live(k)
        /\ rt.selected \in Threads(rt)

\* A number names one task for ever, through resets, decodings that raise half
\* way, and tasks that come and go in one slot; no two tasks share one.
NumbersName == \A x, y \in known : x[1] = y[1] => x = y

\* A register write that GDB means for a task reaches the hart only when the
\* hart holds that very task's registers: never because the server's selection
\* moved without GDB (stops, vanished tasks, new sessions).
WritesReachTheirTask == ~strayed

\* The offline server shows the tasks, their numbers and the current task of the
\* moment of the capture, and keeps GDB's selection, although its memory has holes
\* and every session asks for a new stop reply.
OfflineTrue ==
    rt.frozen => /\ rt.tasks = captured.tasks /\ rt.current = captured.current
                 /\ rt.selected \in Threads(rt)
                 /\ gdbThread # None => rt.selected = gdbThread
=============================================================================
