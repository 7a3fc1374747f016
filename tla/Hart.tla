-------------------------------- MODULE Hart --------------------------------
(***************************************************************************)
(* Access to the halted hart (ws63dbg.Hart): s0 and s1 are scratch, with   *)
(* their real values saved in a cache and written back before the hart     *)
(* runs; the program buffer is not loaded again with what it holds; memory *)
(* goes through a pipeline in which every access to data0 runs the last    *)
(* abstract command once more.                                             *)
(*                                                                         *)
(* A batch is a sequence of accesses to the Debug Module; a transfer that  *)
(* fails has done some prefix of it.  The operators map a state of host    *)
(* and target (a record) to the set of states they may leave, with the     *)
(* DebugError in flight in err.                                            *)
(***************************************************************************)
EXTENDS Integers, Sequences

CONSTANTS
    Top,            \* memory has the words 0 .. Top - 1
    Words,          \* what users and the firmware write
    MaxFaults       \* bound: failed accesses

ASSUME TopAssumption == Top \in Nat \ {0}
ASSUME WordsAssumption == Words \subseteq 0 .. Top
ASSUME FaultsAssumption == MaxFaults \in Nat

Memory == 0 .. Top - 1
Values == 0 .. Top              \* words and addresses; Top is outside memory
S0 == "s0"
S1 == "s1"
Regs == {S0, S1}
NoRegs == <<>>

Insns == {"csrr", "csrw", "step", "nostep", "lw", "sw", "addi", "fence", "ebreak", "junk"}
Unknown == [i \in 0 .. 2 |-> "none"]

\* Abstract commands: move a register to or from data0, then perhaps run the
\* program buffer.  CMD_EXEC moves x0, which is zero.
Cmd(move, reg, exec) == [move |-> move, reg |-> reg, exec |-> exec]
CMD_EXEC == Cmd("zero", S0, TRUE)

Machine ==
    [cache     : [Regs -> Values] \cup {NoRegs},        \* Hart.cache
     clobbered : SUBSET Regs,                           \* Hart.clobbered
     progbuf   : [0 .. 2 -> Insns \cup {"none"}],       \* Hart.progbuf
     ap        : {"dm", "mem", "none"},                 \* DAP.cur_ap
     gpr       : [Regs -> Values],
     pb        : [0 .. 2 -> Insns],                     \* the program buffer
     data0     : Values,
     last      : [move : {"zero", "read", "write"}, reg : Regs, exec : BOOLEAN],  \* COMMAND
     auto      : BOOLEAN,                               \* ABSTRACTAUTO
     cmderr    : BOOLEAN,
     mem       : [Memory -> Values],
     csr       : Values,
     step      : BOOLEAN,                               \* dcsr.step
     hart      : {"halted", "running"},
     link      : {"up", "down"},
     faults    : Nat,
     touched   : SUBSET Memory,     \* by the operation in progress
     out       : Seq(Values),       \* what its last batch read
     err       : BOOLEAN]

VARIABLES
    m,          \* a Machine
    phase,      \* "stepping": step() waits for the hart to halt
    real,       \* ghost: the registers as the user knows them
    lapse,      \* ghost: an operation has begun with the host wrong about the target,
                \* or a reset has failed with registers saved
    stray,      \* ghost: an operation touched memory it was not asked to
    wrong       \* ghost: one reported success and had not done its work

vars == <<m, phase, real, lapse, stray, wrong>>

-----------------------------------------------------------------------------
(* The Debug Module                                                         *)

\* One instruction of the program buffer; an access outside memory traps.
Insn(t, i) ==
    LET a == t.gpr[S0]
    IN  CASE i = "csrr"   -> [t EXCEPT !.gpr[S0] = t.csr]
          [] i = "csrw"   -> [t EXCEPT !.csr = a]
          [] i = "step"   -> [t EXCEPT !.step = TRUE]
          [] i = "nostep" -> [t EXCEPT !.step = FALSE]
          [] i = "addi"   -> [t EXCEPT !.gpr[S0] = IF a < Top THEN a + 1 ELSE a]
          [] i = "lw" /\ a \in Memory -> [t EXCEPT !.gpr[S1] = t.mem[a], !.touched = @ \cup {a}]
          [] i = "sw" /\ a \in Memory -> [t EXCEPT !.mem[a] = t.gpr[S1], !.touched = @ \cup {a}]
          [] i = "fence"  -> t
          [] OTHER        -> [t EXCEPT !.cmderr = TRUE]

\* Up to the ebreak, or to the first trap: x is where it has come to, and
\* whether it has stopped.
Slot(x, i) ==
    IF x[2] \/ x[1].pb[i] = "ebreak" THEN <<x[1], TRUE>>
    ELSE LET u == Insn(x[1], x[1].pb[i]) IN <<u, u.cmderr>>
RunProgbuf(t) == Slot(Slot(Slot(<<t, FALSE>>, 0), 1), 2)[1]

\* A command of a module whose cmderr is set is ignored.
Command(t, c) ==
    LET moved == CASE c.move = "read"  -> [t EXCEPT !.last = c, !.data0 = t.gpr[c.reg]]
                   [] c.move = "write" -> [t EXCEPT !.last = c, !.gpr[c.reg] = t.data0]
                   [] OTHER            -> [t EXCEPT !.last = c, !.data0 = 0]
    IN  IF t.cmderr THEN t
        ELSE IF t.hart # "halted" THEN [t EXCEPT !.last = c, !.cmderr = TRUE]
        ELSE IF c.exec THEN RunProgbuf(moved) ELSE moved

Again(t) == IF t.auto THEN Command(t, t.last) ELSE t

\* One access of a batch.
Access(t, x) ==
    CASE x[1] = "data0" -> Again([t EXCEPT !.data0 = x[2]])
      [] x[1] = "get"   -> Again([t EXCEPT !.out = Append(@, t.data0)])
      [] x[1] = "cmd"   -> Command(t, x[2])
      [] x[1] = "pb"    -> [t EXCEPT !.pb[x[2]] = x[3]]
      [] x[1] = "auto"  -> [t EXCEPT !.auto = x[2]]
      [] x[1] = "run"   -> [t EXCEPT !.hart = "running"]
      [] x[1] = "halt"  -> [t EXCEPT !.hart = "halted"]
      [] x[1] = "reset" -> [t EXCEPT !.hart = "halted", !.gpr = [r \in Regs |-> 0], !.step = FALSE]
Done(t, batch) ==
    LET done[k \in 0 .. Len(batch)] == IF k = 0 THEN t ELSE Access(done[k - 1], batch[k])
    IN  done[Len(batch)]

Put(v) == <<"data0", v>>
Get    == <<"get">>
Do(c)  == <<"cmd", c>>
Autoexec(b) == <<"auto", b>>
Read(r)  == Do(Cmd("read", r, FALSE))
Write(r) == Do(Cmd("write", r, FALSE))

-----------------------------------------------------------------------------
(* The probe: every access may fail                                         *)

Then(D, Next(_)) == UNION {IF o.err THEN {o} ELSE Next(o) : o \in D}

Fault(o) ==
    IF o.link = "down" THEN {[o EXCEPT !.err = TRUE]}
    ELSE IF o.faults < MaxFaults THEN {[o EXCEPT !.err = TRUE, !.faults = @ + 1]} ELSE {}
Up(o) == IF o.link = "up" THEN {o} ELSE {}

\* DAP.select: the cached AP is forgotten first.
Select(o, ap) ==
    IF o.ap = ap THEN {o} ELSE Up([o EXCEPT !.ap = ap]) \cup Fault([o EXCEPT !.ap = "none"])

\* A batch on its way: some prefix of it is done when it fails.
Transfer(o, batch) ==
    IF o.link = "down" THEN Fault(o)
    ELSE {Done(o, batch)} \cup UNION {Fault(Done(o, SubSeq(batch, 1, k))) : k \in 0 .. Len(batch)}

\* dm_w, dm_r: one access.
DmAccess(o, batch) == Then(Select(o, "dm"), LAMBDA s : Transfer(s, batch))

Forget(o) == [o EXCEPT !.progbuf = Unknown]

\* Hart._run: select is outside the try, and so is the clearing of cmderr.
Run(o, batch) ==
    LET sent(s)    == {IF b.err THEN Forget(b) ELSE b : b \in Transfer(s, batch)}
        checked(s) ==
            IF ~s.cmderr THEN {s}
            ELSE LET cleared == [s EXCEPT !.cmderr = FALSE]
                 IN  {Forget([cleared EXCEPT !.err = TRUE])} \cup Fault(s) \cup Fault(cleared)
    IN  Then(Select([o EXCEPT !.out = <<>>], "dm"), LAMBDA s : Then(sent(s), checked))

\* Hart._load_progbuf: the entries that differ, and what is then believed.
Load(o, code) ==
    LET put(i, x) == IF o.progbuf[i] = x THEN <<>> ELSE <<<<"pb", i, x>>>>
    IN  put(0, code[1]) \o (IF Len(code) = 1 THEN put(1, "ebreak") ELSE put(1, code[2]) \o put(2, "ebreak"))
Loaded(o, code) ==
    [o EXCEPT !.progbuf = [i \in 0 .. 2 |-> IF i < Len(code) THEN code[i + 1]
                                            ELSE IF i = Len(code) THEN "ebreak" ELSE @[i]]]
RunCode(o, before, code, after) == Run(Loaded(o, code), before \o Load(o, code) \o after)

-----------------------------------------------------------------------------
(* Registers                                                                *)

\* _regs: all registers are read once.
Saved(o) ==
    IF o.cache # NoRegs THEN {o}
    ELSE LET keep(s) == [s EXCEPT !.cache = [r \in Regs |-> s.out[IF r = S0 THEN 1 ELSE 2]],
                                  !.clobbered = {}]
         IN  Then(Run(o, <<Read(S0), Get, Read(S1), Get>>), LAMBDA s : {keep(s)})

\* Mutant: only one of the two scratch registers is noted.
ScratchOne(o, R) == Then(Saved(o), LAMBDA s : {[s EXCEPT !.clobbered = @ \cup {S0}]})
Scratch(o, R) == Then(Saved(o), LAMBDA s : {[s EXCEPT !.clobbered = @ \cup R]})

WriteGpr(o, r, v) ==
    LET noted(s) == {[s EXCEPT !.cache[r] = v, !.clobbered = @ \ {r}]}
    IN  Then(Saved(o), LAMBDA s : Then(Run(s, <<Put(v), Write(r)>>), noted))

ReadCsr(o) ==
    Then(Scratch(o, {S0}), LAMBDA s : RunCode(s, <<>>, <<"csrr">>, <<Do(CMD_EXEC), Read(S0), Get>>))
\* Mutant: the instruction runs before its operand is there.
WriteCsrEarly(o, v) ==
    Then(Scratch(o, {S0}), LAMBDA s : RunCode(s, <<>>, <<"csrw">>, <<Do(CMD_EXEC), Put(v), Write(S0)>>))
WriteCsr(o, v) ==
    Then(Scratch(o, {S0}), LAMBDA s : RunCode(s, <<Put(v), Write(S0)>>, <<"csrw">>, <<Do(CMD_EXEC)>>))

\* _queue_restore, in ascending order.
Restores(o) ==
    IF o.cache = NoRegs THEN <<>>
    ELSE (IF S0 \in o.clobbered THEN <<Put(o.cache[S0]), Write(S0)>> ELSE <<>>)
         \o (IF S1 \in o.clobbered THEN <<Put(o.cache[S1]), Write(S1)>> ELSE <<>>)

RestoreRegisters(o) ==
    IF o.clobbered = {} THEN {o}
    ELSE Then(Run(o, Restores(o)), LAMBDA s : {[s EXCEPT !.clobbered = {}]})

-----------------------------------------------------------------------------
(* Memory                                                                   *)

\* read_words asks DMSTATUS first.
WhenHalted(o, Next(_)) == Then(DmAccess(o, <<>>), Next)

\* The finally of a memory access: its own failure replaces the first.
Finally(D) ==
    LET off(o) == DmAccess([o EXCEPT !.err = FALSE], <<Autoexec(FALSE)>>)
    IN  UNION {{[p EXCEPT !.err = @ \/ o.err] : p \in off(o)} : o \in D}

\* Mutant: the last word is left to the pipeline.
PbReadWordsLate(o, a, n) ==
    LET code == <<"lw", "addi">>
        start == <<Put(a), Write(S0)>>
        fill  == <<Do(CMD_EXEC), Do(Cmd("read", S1, TRUE))>> \o (IF n > 1 THEN <<Autoexec(TRUE)>> ELSE <<>>)
        more(s) == DmAccess([s EXCEPT !.out = <<>>], [i \in 1 .. n - 1 |-> Get])
        tail(s) == {[r EXCEPT !.out = s.out \o @] : r \in Run(s, <<Get>>)}
    IN  Then(Scratch(o, {S0, S1}),
             LAMBDA s : Then(Finally(Then(RunCode(s, start, code, fill), more)), tail))

\* _pb_read_words: word 0 on its way, word 1 in s1, the others on every read of
\* data0; the pipeline is stopped before it loads beyond the range.
PbReadWords(o, a, n) ==
    LET code == <<"lw", "addi">>
        start == <<Put(a), Write(S0)>>
        fill  == <<Do(CMD_EXEC), Do(Cmd("read", S1, TRUE))>> \o (IF n > 2 THEN <<Autoexec(TRUE)>> ELSE <<>>)
        more(s) == IF n > 2 THEN DmAccess([s EXCEPT !.out = <<>>], [i \in 1 .. n - 2 |-> Get]) ELSE {s}
        tail(s) == {[r EXCEPT !.out = s.out \o @] : r \in Run(s, <<Get, Read(S1), Get>>)}
        one(s)  == RunCode(s, start, code, <<Do(CMD_EXEC), Read(S1), Get>>)
        many(s) == Then(Finally(Then(RunCode(s, start, code, fill), more)), tail)
    IN  Then(Scratch(o, {S0, S1}), LAMBDA s : IF n = 1 THEN one(s) ELSE many(s))

\* _pb_write_words: every write of data0 stores it at the next address.
PbWriteWords(o, a, ws) ==
    LET rest == [i \in 1 .. Len(ws) - 1 |-> Put(ws[i + 1])]
        body(s) == RunCode(s, <<Put(a), Write(S0)>>, <<"sw", "addi">>,
                           <<Put(ws[1]), Do(Cmd("write", S1, TRUE))>>
                           \o (IF rest = <<>> THEN <<>> ELSE <<Autoexec(TRUE)>> \o rest \o <<Autoexec(FALSE)>>))
    IN  Then(Scratch(o, {S0, S1}), LAMBDA s : Finally(body(s)))

-----------------------------------------------------------------------------
(* Run control                                                              *)

\* resume(): the cache is dropped once the registers are back.
Resume(o, step) ==
    LET prepared == IF step THEN RunCode(o, <<>>, <<"step">>, <<Do(CMD_EXEC)>> \o Restores(o))
                            ELSE Run(o, Restores(o))
        request(s) == DmAccess([s EXCEPT !.clobbered = {}, !.cache = NoRegs], <<<<"run">>>>)
    IN  Then(prepared, request)

\* Mutant: the program buffer is still believed.
ForgetStateRegs(o) == [o EXCEPT !.cache = NoRegs, !.clobbered = {}]
ForgetState(o) == Forget([o EXCEPT !.cache = NoRegs, !.clobbered = {}])

\* reset_halt(): forgets when it has waited for the hart.
ResetHalt(o) ==
    Then(DmAccess(o, <<<<"reset">>>>), LAMBDA s : {ForgetState(s)} \cup Fault(ForgetState(s)))

-----------------------------------------------------------------------------
(* Operations                                                               *)

\* What the host knows of the target is so.
Trusted(o) ==
    o.link = "up" =>
        /\ ~o.auto
        /\ \A i \in 0 .. 2 : o.progbuf[i] \in {"none", o.pb[i]}
        /\ o.cache # NoRegs => o.hart = "halted" /\ \A r \in Regs \ o.clobbered : o.cache[r] = o.gpr[r]

\* A register as the next resume gives it back.
Visible(o) == [r \in Regs |-> IF o.cache # NoRegs /\ r \in o.clobbered THEN o.cache[r] ELSE o.gpr[r]]

\* What no later operation depends on is not told apart: the content of memory
\* and CSR (every address holds its own between operations, so that one word
\* taken for another shows) and, if the host knows the target, what the last
\* operation left in data0, in COMMAND and in the scratch registers.
Contents == [x \in Memory |-> x]
Settled(o) ==
    LET scratch == IF o.cache = NoRegs THEN {} ELSE o.clobbered
        left == [o EXCEPT !.mem = Contents, !.csr = Top]
    IN  IF Trusted(o) THEN [left EXCEPT !.data0 = 0, !.last = CMD_EXEC,
                                        !.gpr = [r \in Regs |-> IF r \in scratch THEN 0 ELSE o.gpr[r]]]
        ELSE left

\* The operation ends in one of D, having touched no memory but range.
\* Once one has begun with the host wrong about the target nothing is claimed,
\* and what happens next is not followed.
Ends(D, p, Right(_), range) ==
    ~lapse /\ \E o \in D :
        /\ m' = Settled([o EXCEPT !.err = FALSE, !.out = <<>>, !.touched = {}])
        /\ phase' = IF o.err THEN "idle" ELSE p
        /\ lapse' = ~Trusted(m)
        /\ stray' = (stray \/ ~(o.touched \subseteq range))
        /\ wrong' = (wrong \/ (m.link = "up" /\ Trusted(m) /\ ~o.err /\ ~Right(o)))

Free(o) == TRUE
Idle == phase = "idle"
\* Memory of a halted hart; a running one, ROM and Flash go over the bus.
ThroughHart == Idle /\ (m.hart = "halted" \/ m.link = "down")

ReadRegisters == Idle /\ Ends(Saved(m), "idle", LAMBDA o : Visible(o) = real, {})
ReadControl == Idle /\ Ends(ReadCsr(m), "idle", LAMBDA o : o.out = <<m.csr>>, {})
WriteControl == Idle /\ \E v \in Words : Ends(WriteCsr(m, v), "idle", LAMBDA o : o.csr = v, {})
ReadMemory(a, n) ==
    /\ ThroughHart
    /\ Ends(WhenHalted(m, LAMBDA o : PbReadWords(o, a, n)), "idle",
            LAMBDA o : o.out = [i \in 1 .. n |-> m.mem[a + i - 1]], a .. a + n - 1)
WriteMemory(a, n) ==
    LET new(x) == (x + 1) % (Top + 1)
        words  == [i \in 1 .. n |-> new(a + i - 1)]
    IN  /\ ThroughHart
        /\ Ends(WhenHalted(m, LAMBDA o : PbWriteWords(o, a, words)), "idle",
                LAMBDA o : o.mem = [x \in Memory |-> IF x \in a .. a + n - 1 THEN new(x) ELSE m.mem[x]],
                a .. a + n - 1)
BusAccess == Idle /\ Ends(Select(m, "mem"), "idle", Free, {})
\* sync_code: cache maintenance CSRs, then the fences.
SyncCode ==
    /\ ThroughHart
    /\ LET fence(o) == RunCode(o, <<>>, <<"fence", "fence">>, <<Do(CMD_EXEC)>>)
           maintain(o) == Then(WriteCsr(o, 0), LAMBDA p : WriteCsr(p, 0))
       IN  Ends(WhenHalted(m, LAMBDA o : Then(maintain(o), fence)), "idle", Free, {})
Close == Idle /\ m.hart = "halted" /\ Ends(RestoreRegisters(m), "idle", LAMBDA o : o.gpr = real, {})
Halt == Idle /\ Ends(DmAccess(m, <<<<"halt">>>>), "idle", Free, {})
Continue == Idle /\ m.hart = "halted" /\ Ends(Resume(m, FALSE), "idle", Free, {})
Step == Idle /\ m.hart = "halted" /\ Ends(Resume(m, TRUE), "stepping", Free, {})
\* The rest of step(): the hart has halted, or it never does.
StepEnds ==
    LET clear(o) == IF o.hart = "halted" THEN RunCode(o, <<>>, <<"nostep">>, <<Do(CMD_EXEC)>>)
                                         ELSE {[o EXCEPT !.err = TRUE]}
    IN  phase = "stepping" /\ Ends(WhenHalted(m, clear), "idle", LAMBDA o : ~o.step, {})

\* A register write that fails has taken effect or not.
WriteRegister(r, v) ==
    /\ Idle /\ Ends(WriteGpr(m, r, v), "idle", LAMBDA o : Visible(o)[r] = v, {})
    /\ real' = IF m.link = "up" /\ Visible(m')[r] = v THEN [real EXCEPT ![r] = v] ELSE real

\* The registers are what the reset leaves.  One that fails may have taken
\* effect, with the saved registers of before it still in the cache, to be given
\* to the new program: from there on, too, nothing is claimed.
Reset ==
    /\ Idle /\ ~lapse
    /\ \E o \in ResetHalt(m) : m' = Settled([o EXCEPT !.err = FALSE, !.out = <<>>, !.touched = {}])
    /\ lapse' = (~Trusted(m) \/ (m.link = "up" /\ m'.cache # NoRegs))
    /\ real' = IF m.link = "up" THEN m'.gpr ELSE real
    /\ UNCHANGED <<phase, stray, wrong>>

\* reattach(): the port and the module are set up anew.
Reattach ==
    /\ Idle /\ m.link = "down"
    /\ LET anew == [m EXCEPT !.link = "up", !.ap = "dm", !.auto = FALSE, !.cmderr = FALSE]
       IN  Ends({ForgetState(anew)}, "idle", Free, {})

-----------------------------------------------------------------------------
(* The target                                                               *)

\* A running hart stops, at a trigger or after one instruction.
HartStops ==
    /\ m.hart = "running" /\ m.link = "up"
    /\ \E g \in [Regs -> Words] :
        /\ m' = [m EXCEPT !.hart = "halted", !.gpr = g]
        /\ real' = g
    /\ UNCHANGED <<phase, lapse, stray, wrong>>

\* Power-on, the button or the watchdog; the pins go.
ChipReset ==
    /\ m' = [m EXCEPT !.link = "down", !.hart = "running", !.gpr = [r \in Regs |-> 0],
                      !.pb = [i \in 0 .. 2 |-> "junk"], !.data0 = 0, !.last = CMD_EXEC,
                      !.auto = FALSE, !.cmderr = FALSE, !.step = FALSE]
    /\ real' = [r \in Regs |-> 0]
    /\ UNCHANGED <<phase, lapse, stray, wrong>>

Init ==
    /\ \E g \in [Regs -> Words] :
        /\ m = [cache |-> NoRegs, clobbered |-> {}, progbuf |-> Unknown, ap |-> "dm", gpr |-> g,
                pb |-> [i \in 0 .. 2 |-> "junk"], data0 |-> 0, last |-> CMD_EXEC, auto |-> FALSE,
                cmderr |-> FALSE, mem |-> Contents, csr |-> Top, step |-> FALSE, hart |-> "running",
                link |-> "up", faults |-> 0, touched |-> {}, out |-> <<>>, err |-> FALSE]
        /\ real = g
    /\ phase = "idle" /\ lapse = FALSE /\ stray = FALSE /\ wrong = FALSE

Operation ==
    \/ ReadRegisters \/ ReadControl \/ WriteControl \/ BusAccess \/ SyncCode \/ Close
    \/ Halt \/ Continue \/ Step \/ StepEnds \/ Reattach
    \/ \E a \in Memory, n \in 1 .. Top : a + n <= Top + 1 /\ (ReadMemory(a, n) \/ WriteMemory(a, n))
Next ==
    \/ Operation /\ UNCHANGED real
    \/ \E r \in Regs, v \in Words : WriteRegister(r, v)
    \/ Reset \/ HartStops \/ ChipReset
Spec == Init /\ [][Next]_vars

-----------------------------------------------------------------------------
(* Properties                                                               *)

\* s0 and s1 are free to be used while the hart is halted: whatever operation
\* used them, failed half way or was repeated, the registers as they will be
\* given back, or have been given to a running hart, are the user's.
ScratchTransparent == ~lapse /\ m.link = "up" => Visible(m) = real

\* The pipeline of _pb_read_words and _pb_write_words, with the program buffer
\* loaded only where it differs: an operation that reports success has read or
\* written exactly what it was asked to.
WorkDone == ~wrong

\* ... and no operation, failed ones too, touches memory outside its range.
StaysInRange == ~lapse => ~stray

\* Without a failed access the caches agree with the target, whatever commands
\* the module refused and however often the chip was reset.
CachesAgree == m.faults = 0 => Trusted(m)

\* docs/09-architecture.md 9.6: the cache of the program buffer is dropped on a
\* failure, so what it says the buffer holds is there.
ProgbufCacheTrue ==
    m.link = "up" => \A i \in 0 .. 2 : m.progbuf[i] \in {"none", m.pb[i]}

\* docs/09-architecture.md 9.6: abstractauto is switched off when a memory
\* transfer ends, so that no later access to data0 runs a leftover command: no
\* operation that finds it on touches memory it was not asked to.
NoLeftoverRuns == [][m.auto /\ ~stray => ~stray']_vars

=============================================================================
