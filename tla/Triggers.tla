------------------------------ MODULE Triggers ------------------------------
(***************************************************************************)
(* Hardware triggers of the GDB server: who owns which trigger slot, what  *)
(* the slots really hold, and when the hart may run.                       *)
(*                                                                         *)
(* gdbserver.Server keeps three tables that share the slots of the Debug   *)
(* Module: breakpoints (Z0/Z1), watchpoints (Z2..Z4, one or more slots     *)
(* each, ws63watch.Watchpoints) and the exception trigger (monitor         *)
(* exceptions).  Single-stepping clears every slot and programs it again,  *)
(* a chip reset empties the slots behind the server's back, and every      *)
(* write to a slot can fail with the slot left as it was, empty or         *)
(* programmed.                                                             *)
(*                                                                         *)
(* The server is the one started with --elf --no-rtos --no-flash, so that  *)
(* there are no software breakpoints, no task view and no Flash in it; the *)
(* README lists the modules that model those.  The server is single        *)
(* threaded: one action is one handler, from the packet to its reply.      *)
(*                                                                         *)
(* A handler is a composition of operators that map a state of the         *)
(* debugger (a record of Debugger, below) to the set of states it may      *)
(* leave; the field err is a DebugError on its way to the caller.          *)
(***************************************************************************)
EXTENDS Integers, FiniteSets

CONSTANTS
    NSlots,         \* trigger slots of the hart: Hart.count_triggers()
    Addrs,          \* code addresses GDB puts execution breakpoints on
    ExcAddr,        \* OsExcHandleEntry, where monitor exceptions puts its own
    Elsewhere,      \* every other value of the pc
    Watches,        \* data watchpoints: keys (address, kind, length)
    Need,           \* Need[w]: number of slots range_blocks asks for w
    MaxFaults       \* bound: failed accesses to the target

ASSUME SlotsAssumption == NSlots \in Nat \ {0}
ASSUME PlacesAssumption == ExcAddr \in Addrs /\ Elsewhere \notin Addrs
ASSUME NeedAssumption == Need \in [Watches -> Nat \ {0}]
ASSUME PointsAssumption == Addrs \cap Watches = {} /\ "exceptions" \notin Addrs \cup Watches
ASSUME BoundAssumption == MaxFaults \in Nat

Slots  == 0 .. NSlots - 1
NoSlot == -1
Places == Addrs \cup {Elsewhere}
NoPc   == "none"

\* What a slot holds: nothing, an exact execution trigger, or a block of w.
Off     == <<"off">>
Exec(a) == <<"exec", a>>
Data(w) == <<"data", w>>
Config  == {Off} \cup {Exec(a) : a \in Addrs} \cup {Data(w) : w \in Watches}

\* The debugger: the server's tables, the target, and the error in flight.
Debugger ==
    [hw      : [Slots -> Config],               \* tdata1/tdata2 of every slot
     bps     : [Addrs -> Slots \cup {NoSlot}],  \* Server.breakpoints
     wps     : [Watches -> SUBSET Slots],       \* Watchpoints.entries: slots
     blocked : SUBSET Watches,                  \* Watchpoints.blocked
     exc     : Slots \cup {NoSlot},             \* Server.exception_trigger
     stop    : Places \cup {NoPc},              \* Server.watch_stop_pc
     hart    : {"halted", "running"},
     pc      : Places,                          \* dpc; Elsewhere while running
     cause   : {"trigger", "haltreq", "step", "other"},   \* dcsr.cause
     reset   : BOOLEAN,                         \* DMSTATUS.anyhavereset
     link    : {"up", "down", "stale"},  \* stale: pins back, port not set up
     faults  : Nat,
     err     : BOOLEAN]

VARIABLES
    dbg,        \* a Debugger
    phase,      \* where serve() is: see Phases
    seen,       \* ghost: in this session some command got E01; until then:
    told,       \* ghost: the stops GDB was told are set and has not removed
    inherited,  \* ghost: entries that the last session's cleanup left behind
                \* when it failed, and that have not been removed since
    alarm       \* ghost: in some session one did, or a cleanup failed

ghosts == <<seen, told, inherited, alarm>>
vars == <<dbg, phase, ghosts>>

\* accept(); after a cleanup that failed; recv_packet(); the loop of
\* do_continue; wait_for_link.
Phases == {"closed", "failed", "prompt", "cont", "lost"}
Points == Addrs \cup Watches \cup {"exceptions"}

TypeOK ==
    /\ dbg \in Debugger
    /\ ~dbg.err
    /\ phase \in Phases
    /\ told \in SUBSET Points /\ inherited \in SUBSET Points
    /\ seen \in BOOLEAN /\ alarm \in BOOLEAN

-----------------------------------------------------------------------------
(* Accesses to the target.  Registers and trigger CSRs go through abstract  *)
(* commands, which work only over a working link to a halted hart.          *)

Ok(D)   == {m \in D : ~m.err}
Bad(D)  == {m \in D : m.err}
Reach(m) == m.link = "up"
CanDebug(m) == Reach(m) /\ m.hart = "halted"
Overwrite(h, want) == [i \in Slots |-> IF i \in DOMAIN want THEN want[i] ELSE h[i]]

\* A transfer fails by itself, or because the link went away.
Fault(m) ==
    IF m.faults < MaxFaults
    THEN {[m EXCEPT !.err = TRUE, !.faults = @ + 1, !.link = l] : l \in {m.link, "down"}}
    ELSE {}
Fails(m) == IF CanDebug(m) THEN Fault(m) ELSE {[m EXCEPT !.err = TRUE]}

\* A CSR access (pc(), halt_cause(), set_pc()).
Access(m) == (IF CanDebug(m) THEN {m} ELSE {}) \cup Fails(m)

\* set_trigger / clear_trigger on the slots of want, one after the other:
\* where one fails, it is left as it was, empty, or programmed.
WriteSlots(m, want) ==
    LET all == [m EXCEPT !.hw = Overwrite(m.hw, want)]
        part(done, i, c) ==
            [m EXCEPT !.hw = Overwrite(m.hw, [j \in done \cup {i} |-> IF j = i THEN c ELSE want[j]])]
    IN  IF DOMAIN want = {} THEN {m}
        ELSE IF ~CanDebug(m) THEN Fails(m)
        ELSE {all} \cup UNION {UNION {UNION {
                Fault(part(done, i, c)) : c \in {m.hw[i], Off, want[i]}}
                    : done \in SUBSET (DOMAIN want \ {i})} : i \in DOMAIN want}

\* The server waits for allresumeack: without it the hart may run or not.
ResumeHart(m) ==
    LET run == [m EXCEPT !.hart = "running", !.pc = Elsewhere, !.cause = "other"]
    IN  (IF CanDebug(m) THEN {run} \cup Fault(run) ELSE {}) \cup Fails(m)

\* dcsr.step: the hart executes one instruction and halts again, unless the
\* server loses it on the way.
StepHart(m) ==
    LET run   == [m EXCEPT !.hart = "running", !.pc = Elsewhere, !.cause = "other"]
        there == {[m EXCEPT !.pc = x[1], !.cause = x[2]] : x \in Places \X {"step", "other"}}
    IN  (IF CanDebug(m) THEN there \cup Fault(run) \cup UNION {Fault(t) : t \in there} ELSE {})
        \cup Fails(m)

\* haltreq also acknowledges havereset, before anybody has looked at it.
HaltHart(m) ==
    LET asked == [m EXCEPT !.reset = FALSE]
        there == IF m.hart = "halted" THEN {asked}
                 ELSE {[asked EXCEPT !.hart = "halted", !.pc = p, !.cause = "haltreq"] : p \in Places}
    IN  IF Reach(m) THEN there \cup UNION {Fault(t) : t \in there \cup {m, asked}}
        ELSE {[m EXCEPT !.err = TRUE]}

\* ndmreset with haltreq held: the slots are empty at the reset vector.
ResetHalt(m) ==
    LET gone == [m EXCEPT !.hw = [i \in Slots |-> Off], !.pc = Elsewhere, !.cause = "other"]
        there == [gone EXCEPT !.hart = "halted", !.cause = "haltreq", !.reset = FALSE]
    IN  IF Reach(m)
        THEN {there} \cup Fault(m) \cup Fault(there)
             \cup Fault([gone EXCEPT !.hart = "running", !.reset = TRUE])
        ELSE {[m EXCEPT !.err = TRUE]}

-----------------------------------------------------------------------------
(* The tables *)

ExecSlots(m)  == {m.bps[a] : a \in Addrs} \ {NoSlot}
WatchSlots(m) == UNION {m.wps[w] : w \in Watches}
ExcSlots(m)   == {m.exc} \ {NoSlot}
\* Mutant: the exception trigger is forgotten among the used slots.
AllTriggersNoException(m) == ExecSlots(m) \cup WatchSlots(m)
AllTriggers(m) == ExecSlots(m) \cup WatchSlots(m) \cup ExcSlots(m)
Entries(m)    == {w \in Watches : m.wps[w] # {}}
Listed(m)     == {a \in Addrs : m.bps[a] # NoSlot} \cup Entries(m)
                 \cup {p \in {"exceptions"} : m.exc # NoSlot}
ExecutionBreakpointAt(m, p) ==
    \/ p \in Addrs /\ m.bps[p] # NoSlot
    \/ m.exc # NoSlot /\ p = ExcAddr

\* The n lowest free slots; fewer when there are not that many.
LowestFree(m, n) ==
    LET free == Slots \ AllTriggers(m)
    IN  {i \in free : Cardinality({j \in free : j < i}) < n}

Cleared(S) == [i \in S |-> Off]
ArmedBps(m) == [i \in ExecSlots(m) |-> Exec(CHOOSE a \in Addrs : m.bps[a] = i)]
ArmedWatch(m, w) == [i \in m.wps[w] |-> Data(w)]
ArmedWatches(m, W) ==
    [i \in UNION {m.wps[w] : w \in W} |-> Data(CHOOSE w \in W : i \in m.wps[w])]
ArmedExc(m) == [i \in ExcSlots(m) |-> Exec(ExcAddr)]

\* One step after the other: an error skips what is left.
Then(D, Next(_)) == Bad(D) \cup UNION {Next(m) : m \in Ok(D)}

-----------------------------------------------------------------------------
(* Watchpoints: the methods of ws63watch.Watchpoints                        *)

\* Mutant: the entry goes whether its slots were cleared or not.
RemoveWatchForgets(m, w) ==
    {[o EXCEPT !.wps[w] = {}, !.blocked = @ \ {w}] : o \in WriteSlots(m, Cleared(m.wps[w]))}

\* remove(): the entry goes only after all its slots are clear.
RemoveWatch(m, w) ==
    LET D == WriteSlots(m, Cleared(m.wps[w]))
    IN  {[o EXCEPT !.blocked = @ \cup {w}] : o \in Bad(D)}
        \cup {[o EXCEPT !.wps[w] = {}, !.blocked = @ \ {w}] : o \in Ok(D)}

\* insert(), for a key that is not there and has slots enough: owned before it
\* is written, rolled back when a write fails.
InsertWatch(m, w) ==
    LET owned == [m EXCEPT !.wps[w] = LowestFree(m, Need[w])]
        D     == WriteSlots(owned, ArmedWatch(owned, w))
        undo(o) == RemoveWatch([o EXCEPT !.blocked = @ \cup {w}, !.err = FALSE], w)
    IN  Ok(D) \cup {[o EXCEPT !.err = TRUE] : o \in UNION {undo(b) : b \in Bad(D)}}

\* disable() and enable(): entry after entry; the one that fails is blocked
\* and the ones after it are not reached.
DisableWatches(m) ==
    LET all == WriteSlots(m, Cleared(WatchSlots(m)))
        until(before, w) ==
            [m EXCEPT !.hw = Overwrite(m.hw, Cleared(UNION {m.wps[v] : v \in before}))]
    IN  Ok(all) \cup
        UNION {UNION {
            {[o EXCEPT !.blocked = @ \cup {w}] :
                o \in Bad(WriteSlots(until(before, w), Cleared(m.wps[w])))}
                    : before \in SUBSET (Entries(m) \ {w})} : w \in Entries(m)}

EnableWatches(m) ==
    LET all == WriteSlots(m, ArmedWatches(m, Watches))
        until(before) == [m EXCEPT !.hw = Overwrite(m.hw, ArmedWatches(m, before))]
    IN  Ok(all) \cup
        UNION {UNION {
            {[o EXCEPT !.blocked = @ \cup {w}] :
                o \in Bad(WriteSlots(until(before), ArmedWatch(m, w)))}
                    : before \in SUBSET (Entries(m) \ {w})} : w \in Entries(m)}

\* Mutant: the slots are emptied and the entries stay.
ClearWatchesKeeps(m) == DisableWatches(m)

\* clear(): every entry removed; stops at the first that cannot be.
ClearWatches(m) ==
    LET all == WriteSlots(m, Cleared(WatchSlots(m)))
        removed(before) ==
            [m EXCEPT !.hw = Overwrite(m.hw, Cleared(UNION {m.wps[v] : v \in before})),
                      !.wps = [v \in Watches |-> IF v \in before THEN {} ELSE m.wps[v]],
                      !.blocked = @ \ before]
    IN  {[o EXCEPT !.wps = [w \in Watches |-> {}], !.blocked = {}] : o \in Ok(all)} \cup
        UNION {UNION {
            Bad(RemoveWatch(removed(before), w))
                : before \in SUBSET (Entries(m) \ {w})} : w \in Entries(m)}

-----------------------------------------------------------------------------
(* Helpers of the server                                                    *)

\* Mutant: the exception trigger stays programmed.
DisableTriggersNoException(m) ==
    Then(WriteSlots(m, Cleared(ExecSlots(m))), DisableWatches)

DisableTriggers(m) ==
    Then(WriteSlots(m, Cleared(ExecSlots(m) \cup ExcSlots(m))), DisableWatches)

ArmException(m) == WriteSlots(m, ArmedExc(m))
\* Mutant: the exception trigger is not programmed again.
EnableTriggersNoException(m) == Then(WriteSlots(m, ArmedBps(m)), EnableWatches)

EnableTriggers(m) ==
    Then(Then(WriteSlots(m, ArmedBps(m)), EnableWatches), ArmException)

\* step_over(): the triggers are cleared outside the try, and programmed again
\* whatever happened to the step.
StepOver(m) ==
    LET displaced(o) == Then(Access(o), StepHart)
        finally(s) == {[e EXCEPT !.err = @ \/ s.err] : e \in EnableTriggers([s EXCEPT !.err = FALSE])}
        body(o) == UNION {finally(s) : s \in displaced(o)}
    IN  IF m.blocked # {} THEN {[m EXCEPT !.err = TRUE]} ELSE Then(DisableTriggers(m), body)

\* stop_reply(): reads dcsr and dpc; remembers the pc of a data trigger.
StopReply(m) ==
    LET noted(o) ==
            {IF o.cause = "trigger" /\ Entries(o) # {} /\ ~ExecutionBreakpointAt(o, o.pc)
             THEN [o EXCEPT !.stop = o.pc] ELSE o}
    IN  Then(Access(m), noted)

\* after_reset(): halt, then program every table entry into the empty slots.
AfterReset(m) ==
    LET rearm(o) == EnableTriggers([o EXCEPT !.stop = NoPc, !.reset = FALSE])
    IN  Then(IF m.hart = "halted" THEN Access(m) ELSE HaltHart(m), rearm)

\* Empty the slots and the tables and let the hart go: D, and the end of serve().
Release(m) ==
    LET watches(o) == ClearWatches([o EXCEPT !.bps = [a \in Addrs |-> NoSlot]])
        go(o)      == ResumeHart([o EXCEPT !.exc = NoSlot])
    IN  Then(Then(DisableTriggers(m), watches), go)

\* The end of serve(), which halts the hart first.
Cleanup(m) ==
    IF ~Reach(m) THEN {[m EXCEPT !.err = TRUE]}
    ELSE Then(IF m.hart = "halted" THEN {m} ELSE HaltHart(m), Release)

-----------------------------------------------------------------------------
(* Handlers                                                                 *)

\* The reply: E01 where the handler raised.
Reply(o, p, t) ==
    /\ dbg' = [o EXCEPT !.err = FALSE]
    /\ phase' = p
    /\ seen' = (seen \/ o.err)
    /\ told' = IF seen' THEN {} ELSE t
    /\ inherited' = IF seen' THEN {} ELSE inherited \cap Listed(o)
    /\ alarm' = (alarm \/ o.err)

\* The connection ended and serve() cleaned up, or tried to.
Ended(D, raised) ==
    \E o \in D :
        /\ dbg' = [o EXCEPT !.err = FALSE]
        /\ phase' = IF o.err THEN "failed" ELSE "closed"
        /\ told' = {}
        /\ inherited' = Listed(o)
        /\ seen' = FALSE
        /\ alarm' = (alarm \/ raised \/ o.err)

\* GDB connects: acknowledge resets, halt, read the pc.
Accept ==
    /\ phase \in {"closed", "failed"}
    /\ \E o \in Then(HaltHart(dbg), Access) :
        IF o.err THEN Ended(Cleanup([o EXCEPT !.err = FALSE]), TRUE)
                 ELSE Reply(o, "prompt", {})

Disconnect ==
    /\ phase \in {"prompt", "cont", "lost"}
    /\ Ended(Cleanup(dbg), FALSE)

\* Z0/Z1.  A failed set_trigger leaves the slot to nobody.
InsertBreakpoint(a) ==
    /\ phase = "prompt"
    /\ IF dbg.bps[a] # NoSlot THEN Reply(dbg, "prompt", told \cup {a})
       ELSE \E i \in LowestFree(dbg, 1) :
            \E o \in WriteSlots(dbg, [j \in {i} |-> Exec(a)]) :
                IF o.err THEN Reply(o, "prompt", told)
                ELSE Reply([o EXCEPT !.bps[a] = i], "prompt", told \cup {a})

\* z0/z1.  The table forgets the breakpoint before the slot is cleared.
RemoveBreakpoint(a) ==
    /\ phase = "prompt"
    /\ dbg.bps[a] # NoSlot
    /\ \E o \in WriteSlots([dbg EXCEPT !.bps[a] = NoSlot], Cleared({dbg.bps[a]})) :
        Reply(o, "prompt", told \ {a})

\* Z2..Z4.  E0E, and nothing done, when the slots do not suffice.
InsertWatchpoint(w) ==
    /\ phase = "prompt"
    /\ IF w \in Entries(dbg)
       THEN IF w \in dbg.blocked THEN Reply([dbg EXCEPT !.err = TRUE], "prompt", told)
                                 ELSE Reply(dbg, "prompt", told \cup {w})
       ELSE /\ Cardinality(LowestFree(dbg, Need[w])) = Need[w]
            /\ \E o \in InsertWatch(dbg, w) :
                Reply(o, "prompt", IF o.err THEN told ELSE told \cup {w})

\* z2..z4
RemoveWatchpoint(w) ==
    /\ phase = "prompt"
    /\ w \in Entries(dbg)
    /\ \E o \in RemoveWatch(dbg, w) : Reply(o, "prompt", told \ {w})

\* monitor exceptions
CatchExceptions ==
    /\ phase = "prompt"
    /\ IF dbg.exc # NoSlot THEN Reply(dbg, "prompt", told \cup {"exceptions"})
       ELSE \E i \in LowestFree(dbg, 1) :
            \E o \in WriteSlots(dbg, [j \in {i} |-> Exec(ExcAddr)]) :
                IF o.err THEN Reply(o, "prompt", told)
                ELSE Reply([o EXCEPT !.exc = i], "prompt", told \cup {"exceptions"})

\* monitor exceptions off
ExceptionsOff ==
    /\ phase = "prompt"
    /\ dbg.exc # NoSlot
    /\ \E o \in WriteSlots(dbg, Cleared({dbg.exc})) :
        Reply(IF o.err THEN o ELSE [o EXCEPT !.exc = NoSlot], "prompt", told \ {"exceptions"})

\* Mutant: c and s do not look at the blocked watchpoints.
MayRunAlways(m) == TRUE

\* The guard of c and of s: a watchpoint whose slots are uncertain forbids both.
MayRun(m) == m.blocked = {}
Refuse == Reply([dbg EXCEPT !.err = TRUE], "prompt", told)

\* Mutant: the pc is set whether the packet has an address or not.
SetPcAlways(m, p) == {IF o.err THEN o ELSE [o EXCEPT !.pc = p] : o \in Access(m)}

\* c and s, with or without an address.
SetPc(m, p) ==
    IF p = NoPc THEN {m} ELSE {IF o.err THEN o ELSE [o EXCEPT !.pc = p] : o \in Access(m)}

\* c [addr]: the part of do_continue before its loop.
Continue(p) ==
    LET started(o) ==
            \E r \in ResumeHart([o EXCEPT !.stop = NoPc]) :
                Reply(r, IF r.err THEN "prompt" ELSE "cont", told)
        stepFirst(o) == ExecutionBreakpointAt(o, o.pc) \/ o.pc = o.stop
    IN  /\ phase = "prompt"
        /\ IF ~MayRun(dbg) THEN Refuse
           ELSE \E o \in Then(SetPc(dbg, p), Access) :
                IF o.err THEN Reply(o, "prompt", told)
                ELSE IF ~stepFirst(o) THEN started(o)
                ELSE \E s \in StepOver(o) :
                    IF s.err THEN Reply(s, "prompt", told)
                    ELSE IF s.cause = "step" THEN started(s)
                    ELSE \E r \in StopReply(s) : Reply(r, "prompt", told)

\* s [addr]
Step(p) ==
    /\ phase = "prompt"
    /\ IF ~MayRun(dbg) THEN Refuse
       ELSE \E o \in Then(Then(SetPc(dbg, p), StepOver), StopReply) : Reply(o, "prompt", told)

\* ^C at the prompt: an error here ends the connection.
Interrupt ==
    /\ phase = "prompt"
    /\ \E o \in Then(HaltHart(dbg), StopReply) :
        IF o.err THEN Ended(Cleanup([o EXCEPT !.err = FALSE]), TRUE)
                 ELSE Reply(o, "prompt", told)

MonitorReset ==
    /\ phase = "prompt"
    /\ \E o \in Then(ResetHalt(dbg), AfterReset) : Reply(o, "prompt", told)

\* D and k.  Whatever the handler replies the connection ends, and serve()
\* cleans up once more.
Detach ==
    /\ phase = "prompt"
    /\ \E o \in Release(dbg) : Ended(Cleanup([o EXCEPT !.err = FALSE]), o.err)

\* k keeps the exception trigger in its table, and the breakpoints as long as
\* the watchpoints cannot be cleared.
Kill ==
    LET go(o) == ResumeHart([o EXCEPT !.bps = [a \in Addrs |-> NoSlot]])
    IN  /\ phase = "prompt"
        /\ \E o \in Then(Then(DisableTriggers(dbg), ClearWatches), go) :
            Ended(Cleanup([o EXCEPT !.err = FALSE]), o.err)

-----------------------------------------------------------------------------
(* The loop of do_continue, and wait_for_link                               *)

\* The status cannot be read: GDB is told to wait, which is no error.
PollLost ==
    /\ phase = "cont"
    /\ \E o \in IF Reach(dbg) THEN Fault(dbg) ELSE {dbg} :
        Reply([o EXCEPT !.err = FALSE], "lost", told)

\* reattach() sets the port up again, and the status is read once more, where
\* a failure is not caught.  do_continue then looks at havereset at once,
\* before it looks at the socket: ^C would acknowledge the reset unseen.
Reattach ==
    LET back == [dbg EXCEPT !.link = "up"]
        look == {back} \cup Fault(back)
    IN  /\ phase = "lost"
        /\ dbg.link # "down"
        /\ \E o \in IF dbg.reset THEN Then(Then(look, AfterReset), ResumeHart) ELSE look :
            Reply(o, IF o.err THEN "prompt" ELSE "cont", told)

Halted == phase = "cont" /\ Reach(dbg) /\ dbg.hart = "halted"

PollStop ==
    /\ Halted
    /\ \E o \in StopReply(dbg) : Reply(o, "prompt", told)

\* skip_watch_guard(): the access only touched the rounded-up edge of a range.
\* What the instruction at pc accesses is open; WatchRange decides it.
PollGuard ==
    /\ Halted
    /\ Entries(dbg) # {} /\ dbg.cause = "trigger"
    /\ ~ExecutionBreakpointAt(dbg, dbg.pc)
    /\ \E s \in StepOver(dbg) :
        IF s.err THEN Reply(s, "prompt", told)
        ELSE IF s.cause = "step"
        THEN \E o \in ResumeHart(s) : Reply(o, IF o.err THEN "prompt" ELSE "cont", told)
        ELSE \E o \in StopReply(s) : Reply(o, "prompt", told)

\* ^C while the target runs.
InterruptRunning ==
    /\ phase = "cont"
    /\ \E o \in Then(HaltHart(dbg), StopReply) : Reply(o, "prompt", told)

-----------------------------------------------------------------------------
(* The target                                                               *)

Target(o) == dbg' = o /\ UNCHANGED <<phase, ghosts>>

TriggerFires(i) ==
    /\ dbg.hart = "running"
    /\ dbg.hw[i] # Off
    /\ \E p \in Places :
        /\ \A a \in Addrs : dbg.hw[i] = Exec(a) => p = a
        /\ Target([dbg EXCEPT !.hart = "halted", !.pc = p, !.cause = "trigger"])

\* Power-on, the button or the watchdog: slots empty, hart running, pins gone.
ChipReset ==
    Target([dbg EXCEPT !.hw = [i \in Slots |-> Off], !.reset = TRUE, !.link = "down",
                       !.hart = "running", !.pc = Elsewhere, !.cause = "other"])

\* Boot code or firmware takes the SWD pins, and gives them back.
PinsAway ==
    /\ dbg.hart = "running" /\ dbg.link # "down"
    /\ Target([dbg EXCEPT !.link = "down"])

PinsBack ==
    /\ dbg.link = "down"
    /\ Target([dbg EXCEPT !.link = "stale"])

-----------------------------------------------------------------------------
Init ==
    /\ dbg = [hw |-> [i \in Slots |-> Off], bps |-> [a \in Addrs |-> NoSlot],
              wps |-> [w \in Watches |-> {}], blocked |-> {}, exc |-> NoSlot, stop |-> NoPc,
              hart |-> "running", pc |-> Elsewhere, cause |-> "other", reset |-> FALSE,
              link |-> "up", faults |-> 0, err |-> FALSE]
    /\ phase = "closed"
    /\ told = {} /\ inherited = {}
    /\ seen = FALSE /\ alarm = FALSE

Serve ==
    \/ Accept \/ Disconnect \/ Detach \/ Kill \/ Interrupt \/ MonitorReset
    \/ CatchExceptions \/ ExceptionsOff
    \/ \E a \in Addrs : InsertBreakpoint(a) \/ RemoveBreakpoint(a)
    \/ \E w \in Watches : InsertWatchpoint(w) \/ RemoveWatchpoint(w)
    \/ \E p \in Places \cup {NoPc} : Continue(p) \/ Step(p)
Loop == PollLost \/ Reattach \/ PollStop \/ PollGuard \/ InterruptRunning
Environment == (\E i \in Slots : TriggerFires(i)) \/ ChipReset \/ PinsAway \/ PinsBack

Next == Serve \/ Loop \/ Environment
Spec == Init /\ [][Next]_vars

-----------------------------------------------------------------------------
(* Properties *)

\* No slot has two owners.
Exclusive(m) ==
    /\ \A a, b \in Addrs : a # b /\ m.bps[a] = m.bps[b] => m.bps[a] = NoSlot
    /\ \A v, w \in Watches : v # w => m.wps[v] \cap m.wps[w] = {}
    /\ ExecSlots(m) \cap WatchSlots(m) = {}
    /\ m.exc \notin ExecSlots(m) \cup WatchSlots(m)

\* A slot that holds a block of w belongs to w.
Owned(m) == \A i \in Slots : \A w \in Watches : m.hw[i] = Data(w) => i \in m.wps[w]

\* Server.free_trigger and Watchpoints.insert share the slots between three
\* tables that are searched separately: whatever was inserted, removed, failed
\* or rolled back, no slot has two owners.
SlotsExclusive == Exclusive(dbg)

\* docs/09-architecture.md 9.6: a data range that may still be programmed
\* keeps its slots.  Whatever failed, a slot armed for w belongs to w, so it
\* can be neither reused for something else nor forgotten.
NoOrphanWatch == Owned(dbg)

Armed(p) ==
    CASE p \in Addrs   -> dbg.bps[p] # NoSlot /\ dbg.hw[dbg.bps[p]] = Exec(p)
      [] p \in Watches -> p \in Entries(dbg) /\ \A i \in dbg.wps[p] : dbg.hw[i] = Data(p)
      [] OTHER         -> dbg.exc # NoSlot /\ dbg.hw[dbg.exc] = Exec(ExcAddr)

Waiting == phase \in {"cont", "lost"} /\ dbg.hart = "running" /\ ~dbg.reset

\* do_continue loses no stop in silence: while it waits for a running hart every
\* stop GDB was told about is programmed, across steps, filtered guard stops,
\* lost links and resets, or else this GDB has seen an error, in this session.
\* What failed in an earlier session excuses only the entries that session's
\* cleanup left in the tables: insert takes such an entry for a programmed one
\* (ToldIsArmed), until it has been removed once.
NoSilentLoss == Waiting /\ ~seen => \A p \in told \ inherited : Armed(p)

\* serve(): a session that ended without an error leaves the hart running
\* with no trigger that would stop it with nobody attached.
CleanEnd ==
    phase = "closed" /\ ~alarm
        => dbg.hart = "running" /\ \A i \in Slots : dbg.hw[i] = Off

\* After any cleanup that succeeded, errors before it or not, the tables are
\* empty and no data trigger is left behind.
ClosedTables ==
    phase = "closed" =>
        /\ AllTriggers(dbg) = {} /\ dbg.blocked = {}
        /\ \A i \in Slots : \A w \in Watches : dbg.hw[i] # Data(w)

\* docs/09-architecture.md 9.6: uncertain watchpoint slots forbid execution.
\* A handler lets the hart go, other than by resetting it, only if no watchpoint
\* was blocked when it began or none is when it ends.
BlockedNeverRuns ==
    [][dbg.hart = "halted" /\ dbg'.hart = "running" /\ ~dbg'.reset
        => dbg.blocked = {} \/ dbg'.blocked = {}]_vars

\* docs/04-debugger.md 4.3: when configuring or clearing slots fails and cannot
\* be rolled back, execution is forbidden until the watchpoint concerned has
\* been removed.  So a step that leaves a watchpoint unprogrammed that was
\* programmed before, with the target still there, must leave something
\* blocked, or the next c runs past it.
LostWatchForbidsRunning ==
    [][(\E p \in Places \cup {NoPc} : Step(p)) /\ CanDebug(dbg')
        => (\A w \in told \cap Watches : Armed(w) => Armed(w)') \/ dbg'.blocked # {}]_vars

\* docs/03-getting-started.md 3.2: when the cleanup has failed, reconnect first
\* and check the breakpoints; docs/04-debugger.md 4.3: what could not be cleared
\* forbids running.  So a stop that the next session is told is set ought to be
\* programmed as well, whether its entry was inherited or not.
ToldIsArmed == Waiting /\ ~seen => \A p \in told : Armed(p)

\* docs/03-getting-started.md 3.2: after a normal disconnection the server has
\* cleared the triggers and let the hart run.
DisconnectClearsTriggers ==
    phase = "closed" => \A i \in Slots : dbg.hw[i] = Off

=============================================================================
