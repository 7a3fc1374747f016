----------------------------- MODULE SoftBreak -----------------------------
(***************************************************************************)
(* Software breakpoints (ws63break.SoftwareBreakpoints) and the handlers   *)
(* of gdbserver.Server that use them: the table of patched instructions,   *)
(* memory as it is and as the hart fetches it, GDB's view of it,           *)
(* dcsr.ebreakm, and the Flash, which is patched by rewriting its sector.  *)
(*                                                                         *)
(* Memory is counted in halfwords; RAM is written word by word, the Flash  *)
(* is one sector.  An instruction has one or two halfwords.  Operators map *)
(* a state of the debugger (a record) to the set of states it may leave,   *)
(* with the DebugError in flight in err.                                   *)
(***************************************************************************)
EXTENDS Integers, Sequences, FiniteSets

CONSTANTS
    Ram,            \* addresses of RAM, in halfwords
    Flash,          \* addresses of one sector of Flash
    Code,           \* what a halfword of the user's program may be
    MaxFaults       \* bound: failed accesses

Patches == {"c.ebreak", "ebreak.lo", "ebreak.hi"}
Torn == "torn"                  \* of a sector not completely programmed

ASSUME PlacesAssumption ==
    Ram \subseteq Nat /\ Flash \subseteq Nat /\ Ram \cap Flash = {} /\ IsFiniteSet(Ram)
ASSUME CodeAssumption == Code # {} /\ Code \cap (Patches \cup {Torn}) = {}
ASSUME FaultsAssumption == MaxFaults \in Nat

Cells  == Ram \cup Flash
Values == Code \cup Patches \cup {Torn}
Span(a, n) == a .. a + n - 1
Cut(mem, a, n) == [i \in 1 .. n |-> mem[a + i - 1]]
Put(mem, a, data) ==
    [c \in Cells |-> IF c \in Span(a, Len(data)) THEN data[c - a + 1] ELSE mem[c]]
PatchFor(n) == IF n = 1 THEN <<"c.ebreak">> ELSE <<"ebreak.lo", "ebreak.hi">>

\* An entry is the instruction and its patch; none where there is no breakpoint.
Insns == UNION {[1 .. n -> Values] : n \in {1, 2}}
None  == <<>>
Debugger ==
    [mem     : [Cells -> Values],
     fetch   : [Cells -> Patches \cup {"code", Torn}],  \* what the hart may still fetch
     entries : [Cells -> {None} \cup Insns],            \* the old instruction
     saved   : {"none", "off", "on"},                   \* SoftwareBreakpoints.ebreakm
     ebreakm : {"off", "on"},                           \* dcsr.ebreakm
     unsafe  : BOOLEAN,                                 \* Flash.unsafe
     hart    : {"halted", "running"},
     faults  : Nat,
     err     : BOOLEAN]

VARIABLES
    d,          \* a Debugger
    phase,      \* where serve() is
    user,       \* ghost: the user's program
    own,        \* ghost: dcsr.ebreakm without the debugger
    alarm,      \* ghost: some command got an error, or a cleanup failed
    missed      \* ghost: a chip reset was noticed and not gone through with

vars == <<d, phase, user, own, alarm, missed>>

\* accept(); recv_packet(); the loop of do_continue; clear() on behalf of
\* monitor reset, of D and k, and of the end of serve(), which halts first.
Phases == {"closed", "prompt", "loop", "reset", "detach", "bye", "close"}

Ok(D)  == {x \in D : ~x.err}
Bad(D) == {x \in D : x.err}
Then(D, Next(_)) == Bad(D) \cup UNION {Next(x) : x \in Ok(D)}
Raise(x) == [x EXCEPT !.err = TRUE]

At(x) == {a \in Cells : x.entries[a] # None}
Length(x, a) == Len(x.entries[a])
Patched(x, a) == Span(a, Length(x, a))
Covered(x) == UNION {Patched(x, a) : a \in At(x)}
\* SoftwareBreakpoints.read: memory with the old instructions in place.
Seen(x) ==
    [c \in Cells |-> IF c \in Covered(x)
                     THEN LET a == CHOOSE b \in At(x) : c \in Patched(x, b) IN x.entries[a][c - a + 1]
                     ELSE x.mem[c]]

-----------------------------------------------------------------------------
(* Accesses to the target                                                   *)

Fault(x) == IF x.faults < MaxFaults THEN {[Raise(x) EXCEPT !.faults = @ + 1]} ELSE {}
Access(x) == {x} \cup Fault(x)
\* Registers and cache maintenance need a halted hart.
Halted(x, D) == IF x.hart = "halted" THEN D ELSE {Raise(x)}

\* Hart.write_mem: word after word.
WriteRam(x, a, data) ==
    LET upto(w) == [x EXCEPT !.mem = [c \in Cells |-> IF c \in Span(a, Len(data)) /\ c \div 2 <= w
                                                      THEN data[c - a + 1] ELSE @[c]]]
        last == (a + Len(data) - 1) \div 2
    IN  {upto(last)} \cup UNION {Fault(upto(w)) : w \in (a \div 2) - 1 .. last}

\* Hart.sync_code: until then the hart may fetch what was there.
Synced(x) == [x EXCEPT !.fetch = [c \in Cells |-> IF x.mem[c] \in Code THEN "code" ELSE x.mem[c]]]
Sync(x) == Halted(x, Access(Synced(x)) \cup Fault(x))

\* Flash.apply: the rest of the sector is read, erased and programmed again.
\* It may fail with nothing begun, or with the sector as it was, torn or done.
Apply(x, a, data) ==
    LET done == [x EXCEPT !.mem = Put(x.mem, a, data)]
        torn == [x EXCEPT !.mem = [c \in Cells |-> IF c \in Flash THEN Torn ELSE @[c]]]
        failed == UNION {Fault([y EXCEPT !.unsafe = TRUE]) : y \in {x, torn, done, Synced(done)}}
    IN  Halted(x, Fault(x) \cup (IF done = x THEN {x} \cup Fault([x EXCEPT !.unsafe = TRUE])
                                 ELSE {[Synced(done) EXCEPT !.unsafe = FALSE]} \cup failed))

\* SoftwareBreakpoints._write
PatchWrite(x, a, data) ==
    LET put == IF a \in Flash THEN Apply(x, a, data) ELSE WriteRam(x, a, data)
        compared(y) == IF Cut(y.mem, a, Len(data)) = data THEN y ELSE Raise(y)
        verified(y) == Then(Access(y), LAMBDA z : {compared(z)})
    IN  Then(put, LAMBDA y : Then(Sync(y), verified))

ReadDcsr(x) == Halted(x, Access(x))
WriteDcsr(x, v) == Halted(x, Access([x EXCEPT !.ebreakm = v]) \cup Fault(x))
\* Read dcsr, set or clear ebreakm, write it back.
SetDcsr(x, v) == Then(ReadDcsr(x), LAMBDA y : WriteDcsr(y, v))

HaltHart(x) == Access([x EXCEPT !.hart = "halted"]) \cup Fault(x)
ResumeHart(x) == Halted(x, Access([x EXCEPT !.hart = "running"]) \cup Fault(x))

-----------------------------------------------------------------------------
(* SoftwareBreakpoints                                                      *)

\* Mutant: ebreakm is forgotten before it is written back.
RestoreDcsrForgets(x) ==
    IF At(x) = {} /\ x.saved # "none" THEN SetDcsr([x EXCEPT !.saved = "none"], x.saved) ELSE {x}
RestoreDcsr(x) ==
    IF At(x) = {} /\ x.saved # "none"
    THEN Then(SetDcsr(x, x.saved), LAMBDA y : {[y EXCEPT !.saved = "none"]})
    ELSE {x}

Forgotten(x, a) == RestoreDcsr([x EXCEPT !.entries[a] = None])

\* The except of insert: its own failure leaves the entry in the table.
Rollback(x, a) ==
    LET old == x.entries[a]
        back(y) == IF Cut(y.mem, a, Len(old)) # old THEN PatchWrite(y, a, old) ELSE {y}
        undo(y) == Then(back(y), LAMBDA z : Forgotten(z, a))
    IN  {Raise(y) : y \in Then(Access([x EXCEPT !.err = FALSE]), undo)}

Insert(x, a, n) ==
    LET save(y) == IF y.saved # "none" THEN {y}
                   ELSE Then(ReadDcsr(y), LAMBDA z : {[z EXCEPT !.saved = z.ebreakm]})
        register(y) == [y EXCEPT !.entries[a] = Cut(y.mem, a, n)]
        patch(y) == LET D == PatchWrite(register(y), a, PatchFor(n))
                    IN  Ok(D) \cup UNION {Rollback(z, a) : z \in Bad(D)}
    IN  IF x.entries[a] # None THEN {IF Length(x, a) = n THEN x ELSE Raise(x)}
        ELSE IF Span(a, n) \cap Covered(x) # {} THEN {Raise(x)}
        ELSE Then(Access(x), LAMBDA y : Then(save(y), LAMBDA z : Then(SetDcsr(z, "on"), patch)))

\* Mutant: the caches are not synchronized.
RemoveUnsynced(x, a) ==
    LET old == x.entries[a]
        known(y) == Cut(y.mem, a, Len(old)) \in {old, PatchFor(Len(old))}
        restore(y) == Then(WriteRam(y, a, old), LAMBDA z : Forgotten(z, a))
    IN  Then(Access(x), LAMBDA y : IF known(y) THEN restore(y) ELSE {Raise(y)})

\* Code that is neither the old instruction nor the patch is not overwritten.
Remove(x, a) ==
    LET old == x.entries[a]
        known(y) == Cut(y.mem, a, Len(old)) \in {old, PatchFor(Len(old))}
        restore(y) == Then(PatchWrite(y, a, old), LAMBDA z : Forgotten(z, a))
    IN  Then(Access(x), LAMBDA y : IF known(y) THEN restore(y) ELSE {Raise(y)})

\* Mutant: the saved instructions are not updated.
WriteOver(x, a, data) ==
    LET hit == {b \in At(x) : Patched(x, b) \cap Span(a, Len(data)) # {}}
    IN  Then(WriteRam(x, a, [i \in 1 .. Len(data) |-> IF a + i - 1 \in Covered(x) THEN x.mem[a + i - 1]
                                                      ELSE data[i]]),
             LAMBDA y : IF hit = {} THEN {y} ELSE Sync(y))

\* Bytes under a breakpoint go to the saved instruction, its patch stays.
Write(x, a, data) ==
    LET span == Span(a, Len(data))
        hit  == {b \in At(x) : Patched(x, b) \cap span # {}}
        physical == [i \in 1 .. Len(data) |->
                        IF \E b \in hit : a + i - 1 \in Patched(x, b)
                        THEN LET b == CHOOSE q \in hit : a + i - 1 \in Patched(x, q)
                             IN  PatchFor(Length(x, b))[a + i - b]
                        ELSE data[i]]
        changed(y) == [y EXCEPT !.entries = [b \in Cells |->
                         IF b \in hit THEN [i \in 1 .. Length(x, b) |->
                                               IF b + i - 1 \in span THEN data[b + i - a] ELSE @[b][i]]
                         ELSE @[b]]]
    IN  Then(WriteRam(x, a, physical), LAMBDA y : IF hit = {} THEN {y} ELSE Sync(changed(y)))

\* displaced() around step(): the patch comes back whatever happened.
Displaced(x, a) ==
    LET n == Length(x, a)
        step(y) == Halted(y, Access(y) \cup Fault([y EXCEPT !.hart = "running"]))
        again(y) == {[z EXCEPT !.err = @ \/ y.err] :
                        z \in PatchWrite([y EXCEPT !.err = FALSE], a, PatchFor(n))}
        undo == PatchWrite(x, a, x.entries[a])
    IN  IF x.entries[a] = None THEN step(x)
        ELSE Bad(undo) \cup UNION {UNION {again(z) : z \in step(y)} : y \in Ok(undo)}

\* Flash entries stay.
Kept(x) == [x EXCEPT !.entries = [a \in Cells |-> IF a \in Flash THEN @[a] ELSE None], !.saved = "none"]
\* Mutant: ebreakm is not set again for the breakpoints that stay.
SoftResetBare(x) == {Kept(x)}
\* reset(): RAM may hold a new image; the Flash keeps its patches.
SoftReset(x) ==
    LET kept == Kept(x)
        save(y) == [y EXCEPT !.saved = y.ebreakm]
    IN  IF At(kept) = {} THEN {kept}
        ELSE Then(ReadDcsr(kept), LAMBDA y : SetDcsr(save(y), "on"))

-----------------------------------------------------------------------------
(* The server                                                               *)

\* The handler ends in one of D, at ok, or at failed with an error that GDB,
\* or the console, has seen.
Ends(D, ok, failed) ==
    \E x \in D :
        /\ d' = [x EXCEPT !.err = FALSE]
        /\ phase' = IF x.err THEN failed ELSE ok
        /\ alarm' = (alarm \/ x.err)
Quiet == UNCHANGED <<user, own, missed>>
Prompt == phase = "prompt"

Accept ==
    /\ phase = "closed" /\ Quiet
    /\ Ends(Then(Access(d), HaltHart), "prompt", "bye")

\* Z0: when no entry is left, a hardware trigger is used instead.
InsertBreakpoint(a, n) ==
    /\ Prompt /\ Quiet /\ UNCHANGED phase
    /\ \E x \in Insert(d, a, n) :
        /\ d' = [x EXCEPT !.err = FALSE]
        /\ alarm' = (alarm \/ (x.err /\ x.entries[a] # None))

RemoveBreakpoint(a) ==
    Prompt /\ d.entries[a] # None /\ Ends(Remove(d, a), "prompt", "prompt") /\ Quiet

\* M and X.  When it fails each halfword has been written or not.
WriteMemory(a, n, v) ==
    /\ Prompt /\ UNCHANGED <<phase, own, alarm, missed>>
    /\ \E x \in Write(d, a, [i \in 1 .. n |-> v]) :
        /\ d' = [x EXCEPT !.err = FALSE]
        /\ LET written(c) == c \in Span(a, n) /\ (x.err => Seen(x)[c] = v)
           IN  user' = [c \in Cells |-> IF written(c) THEN v ELSE user[c]]

\* step_over at pc: the triggers are cleared before and programmed behind it.
StepOver(x, pc) ==
    LET behind(y) == {[z EXCEPT !.err = @ \/ y.err] : z \in Access([y EXCEPT !.err = FALSE])}
    IN  Then(Halted(x, Access(x)), LAMBDA y : UNION {behind(z) : z \in Displaced(y, pc)})

MayRun == ~d.unsafe
Step(pc) == Prompt /\ MayRun /\ Ends(StepOver(d, pc), "prompt", "prompt") /\ Quiet

\* c: over the breakpoint at pc first; the step may stop for another reason.
Continue(pc) ==
    /\ Prompt /\ MayRun /\ Quiet
    /\ LET over == IF d.entries[pc] # None THEN StepOver(d, pc) ELSE Halted(d, Access(d))
       IN  \/ Ends(Then(over, ResumeHart), "loop", "prompt")
           \/ d.entries[pc] # None /\ Ends(over, "prompt", "prompt")

\* ^C at the prompt.
Interrupt == Prompt /\ Ends(HaltHart(d), "prompt", "prompt") /\ Quiet

Stop ==
    /\ phase = "loop" /\ Quiet
    /\ Ends(Access([d EXCEPT !.hart = "halted"]), "prompt", "prompt")
InterruptRunning == phase = "loop" /\ Ends(HaltHart(d), "prompt", "prompt") /\ Quiet

\* The chip was reset, the link is back, and after_reset() has seen it.
ChipReset ==
    /\ phase = "loop"
    /\ \E image \in [Ram -> Code] :
        LET mem   == [c \in Cells |-> IF c \in Ram THEN image[c] ELSE d.mem[c]]
            reset == Synced([d EXCEPT !.mem = mem, !.ebreakm = "off"])
            halt  == HaltHart(reset)
            anew(x) == Then(SoftReset(x), LAMBDA y : Then(Access(y), ResumeHart))
        IN  /\ \/ Ends(Bad(halt), "loop", "prompt") /\ missed' = TRUE
               \/ Ends(Then(Ok(halt), anew), "loop", "prompt") /\ UNCHANGED missed
            /\ user' = [c \in Cells |-> IF c \in Ram THEN image[c] ELSE user[c]]
    /\ own' = "off"

\* clear() on behalf of monitor reset, D and k, or the end of the session.
MonitorReset == Prompt /\ MayRun /\ phase' = "reset" /\ UNCHANGED <<d, alarm>> /\ Quiet
Detach == Prompt /\ phase' = "detach" /\ UNCHANGED <<d, alarm>> /\ Quiet
Disconnect ==
    /\ phase \in {"prompt", "loop"} /\ Quiet
    /\ IF phase = "loop" THEN Ends(HaltHart(d), "bye", "bye")
                         ELSE phase' = "bye" /\ UNCHANGED <<d, alarm>>
Bye == phase = "bye" /\ Ends(HaltHart(d), "close", "closed") /\ Quiet

Otherwise == [reset |-> "prompt", detach |-> "bye", close |-> "closed"]
ClearNext ==
    /\ phase \in DOMAIN Otherwise /\ Quiet
    /\ \E a \in At(d) : Ends(Remove(d, a), phase, Otherwise[phase])

Cleared(p) == phase = p /\ At(d) = {}
\* reset_halt(), then after_reset().
ResetCleared ==
    LET reset == [d EXCEPT !.ebreakm = "off", !.hart = "halted"]
        anew(x) == Then(SoftReset(x), Access)
    IN  /\ Cleared("reset") /\ UNCHANGED user
        /\ \/ Ends(Fault(d), "prompt", "prompt") /\ UNCHANGED <<own, missed>>
           \/ Ends(Fault(reset), "prompt", "prompt") /\ own' = "off" /\ missed' = TRUE
           \/ Ends(anew(reset), "prompt", "prompt") /\ own' = "off" /\ UNCHANGED missed

LetGo(x) == IF x.unsafe THEN Access(x) ELSE ResumeHart(x)
DetachCleared == Cleared("detach") /\ Ends(Then(Access(d), LetGo), "bye", "bye") /\ Quiet
CloseCleared == Cleared("close") /\ Ends(Then(Access(d), LetGo), "closed", "closed") /\ Quiet

Init ==
    /\ user \in [Cells -> Code] /\ own \in {"off", "on"}
    /\ d = [mem |-> user, fetch |-> [c \in Cells |-> "code"], entries |-> [c \in Cells |-> None],
            saved |-> "none", ebreakm |-> own, unsafe |-> FALSE, hart |-> "running",
            faults |-> 0, err |-> FALSE]
    /\ phase = "closed" /\ alarm = FALSE /\ missed = FALSE

InsnAt(a, n) == Span(a, n) \subseteq Ram \/ Span(a, n) \subseteq Flash
Handler ==
    \/ \E a \in Cells, n \in {1, 2} : InsnAt(a, n) /\ InsertBreakpoint(a, n)
    \/ \E a \in Cells : RemoveBreakpoint(a) \/ Step(a) \/ Continue(a)
    \/ \E a \in Ram, n \in 1 .. Cardinality(Ram), v \in Code :
            Span(a, n) \subseteq Ram /\ WriteMemory(a, n, v)
    \/ Interrupt \/ MonitorReset \/ Detach
Session ==
    \/ Accept \/ Stop \/ InterruptRunning \/ ChipReset \/ Disconnect
    \/ Bye \/ ClearNext \/ ResetCleared \/ DetachCleared \/ CloseCleared
Next == Handler \/ Session
Spec == Init /\ [][Next]_vars

-----------------------------------------------------------------------------
(* Properties                                                               *)

\* docs/04-debugger.md 4.4: GDB reads the original instructions.  Whatever was
\* inserted, removed, overwritten, stepped over or reset, and whatever failed in
\* between, GDB sees the user's program, or a sector visibly torn.
Transparent ==
    ~missed => \A c \in Cells : Seen(d)[c] = user[c] \/ (c \in Flash /\ Seen(d)[c] = Torn)

\* A patch, in memory or in what the hart still fetches, has an entry, so that
\* it can be taken away; whatever failed.
NoOrphanPatch ==
    ~missed => \A c \in Cells \ Covered(d) : d.mem[c] \notin Patches /\ d.fetch[c] \notin Patches

\* While do_continue waits, every breakpoint is in memory, is fetched by the
\* hart, and stops in the debugger, unless something has been reported (or the
\* sector is torn, which TornFlashStaysHalted is about).
BreakpointsArmed ==
    phase = "loop" /\ ~alarm /\ ~missed =>
        \A a \in {b \in At(d) : b \in Ram \/ \A c \in Flash : d.mem[c] # Torn} :
            LET n == Length(d, a)
            IN  Cut(d.mem, a, n) = PatchFor(n) /\ Cut(d.fetch, a, n) = PatchFor(n) /\ d.ebreakm = "on"

\* The debugger has either saved dcsr.ebreakm or given it back.
EbreakGivenBack ==
    ~missed => IF d.saved = "none" THEN d.ebreakm = own ELSE d.saved = own

\* docs/06-flash.md 6.4: after an error in erasing or writing the session
\* refuses to continue.
TornFlashStaysHalted == d.hart = "running" => \A c \in Flash : d.mem[c] # Torn

\* docs/09-architecture.md 9.7: when the removal of a patch fails the hart does
\* not go on with unknown code.
RunsKnownCode ==
    d.hart = "running" /\ ~missed =>
        \A a \in At(d) \cap Ram : Cut(d.mem, a, Length(d, a)) \in {d.entries[a], PatchFor(Length(d, a))}

=============================================================================
