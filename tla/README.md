# Verification of ws63_dbg

TLA+ models of the WS63 debugger (`src/`): a GDB server for a RISC-V hart behind
a CMSIS-DAP probe, with hardware triggers, software breakpoints, a Flash
programmer and a view of the LiteOS tasks. The models
are checked with TLC on small instances; the theorems in the `*Proofs` modules
are proved with TLAPS for every value of the constants.

    tlc -config MCTriggers.cfg MCTriggers        tlapm TriggersProofs.tla
    tlc -config MCFlash.cfg MCFlash              tlapm FlashProofs.tla
    tlc -config MCCmsisDap.cfg CmsisDap          tlapm CmsisDapProofs.tla
    tlc -config MCTaskView.cfg MCTaskView        tlapm TaskViewProofs.tla
    tlc -config MCAlgorithms.cfg MCAlgorithms    tlapm AlgorithmsProofs.tla
    tlc -config MCSoftBreak.cfg MCSoftBreak      tlapm SoftBreakProofs.tla
    tlc -config MCSession.cfg Session            tlapm SessionProofs.tla
    tlc -config MCHart.cfg Hart                  tlapm HartProofs.tla

`PROJECT.json` lists the runs, the source lines every definition stands for,
the known divergences, the hazards and the theorems.

## The system

| part | source | state it keeps | operations |
|---|---|---|---|
| probe and SWD | `cmsisdap.py` | commands in flight, the selected port (`cur_ap`) | pipelined `cmds`, batches, repeated transfers, sticky error clearing, `reconnect` |
| hart access | `ws63dbg.py` | saved registers, program buffer words, `abstractauto`, havereset seen | halt, resume, step, reset, GPR/CSR/memory access, trigger slots |
| software breakpoints | `ws63break.py` | entries with the original instruction, `ebreakm`, Flash patches | insert, remove, displace and restore, shadowed reads and writes, rearm after reset |
| data watchpoints | `ws63watch.py` | entries (blocks and their slots), the blocked set | insert, remove, clear, enable, disable, decode an access |
| Flash | `ws63flash.py` | `unsafe`, the journal directory | apply, restore, controller, writable, write a sector, verify |
| GDB server | `gdbserver.py` | breakpoint table, exception trigger, `watch_stop_pc`, `needs_reset`, vFlash staging | packets c, s, Z, z, D, k, m, M, X, vFlash, `monitor`, ^C; the loop of `do_continue`; `wait_for_link`; cleanup at the end of a session |
| LiteOS task view | `ws63rtos.py` | decoded tasks, thread numbers, selection | decode, invalidate, list, select; saved registers, mutex and wait diagnosis |
| ELF and unwinding | `ws63elf.py` | none (parsed image) | symbols, frame tables, unwind states |
| offline tools | `ws63diagnose.py`, `ws63dump.py` | none | halt, read, resume what was running |

How they interact. The server is one thread: it takes a packet, runs its
handler to the end and answers; a raised `DebugError` becomes `E01`. Handlers
call the watchpoint and breakpoint tables, which call the hart, which calls the
probe. Nothing else runs in the process; what interleaves with it is the
target. Between two handlers, and between two polls of `do_continue`, a running
hart may hit a trigger, the chip may reset (which empties every slot), and boot
code or firmware may take the SWD pins away. Every access may fail. The host may
die at any moment, which matters to the only state that survives it: the Flash
and the journals.

What is hard here:

* An operation is a sequence of accesses, each of which may fail with its
  effect done or not; a cleanup in a `finally` may fail too. What do the tables
  say about the target afterwards?
* Three tables share the trigger slots and are searched separately.
* A chip reset behind the server's back empties the slots; the server must see
  it before it acknowledges it, and program everything again.
* A step clears all triggers and programs them again.
* A Flash transaction can stop at any point, can be repeated or restored, and
  the restore can stop too; the hart must not run what is half written.
* The tables outlive a session whose cleanup failed.
* Packets are sent ahead of the answers of earlier ones, and an answer may come
  after the host has given it up.
* Within a session GDB and the server both send without being asked: ^C, console
  packets, stop replies, acknowledgements. The server waits in four places.
* The task list is decoded once and used until something invalidates it; GDB and
  the server each have an idea of the selected thread.

## Modules

| module | models |
|---|---|
| `Triggers` | run control and the three trigger tables of `gdbserver.py`, `ws63watch.py` and the accesses of `ws63dbg.py` they make |
| `FlashStore` | abstract specification: what the Flash transaction promises |
| `Flash` | the transaction of `ws63flash.py` and the server's gating |
| `SoftBreak` | the table of `ws63break.py`, memory, instruction fetch and the handlers that use them |
| `Hart` | the register and program buffer caches and the access pipeline of `ws63dbg.Hart`, over a model of the Debug Module |
| `CmsisDap` | the packet pipeline of `cmsisdap.py` and the `DAP` class, over a model of the probe and the debug port |
| `Session` | the socket between GDB and `serve()`: packets, acknowledgements, ^C, the loops that wait, sessions |
| `TaskView` | `ws63rtos.LiteOS`, the packets that use it, and snapshots |
| `WatchRange` | `range_blocks` and the filtering of watchpoint stops |
| `FlashStaging` | the vFlash packets up to the transaction |

An `MC...` module is the instance that is checked, a `...Proofs` module holds the
theorems. `Hart`, `CmsisDap` and `Session` need no `MC` module: their constants are
plain values. `MCAlgorithms` checks `WatchRange` and `FlashStaging` in one run; they
share nothing, and a behaviour takes one of them.

How they fit together. Each layer is modelled over what the one below may do, in
its worst case: `Triggers`, `SoftBreak`, `Flash` and `Hart` let any access fail, with its
effect done or not, which is what `CmsisDap` shows an access to be (`WorkDone`,
`WrittenPrefix`); `Hart` lets a batch stop after any prefix, which is what
`CmsisDap.Transfer` does. `Session` has the loops of `Triggers` without the tables:
`Triggers` asks whether the stops are programmed while `do_continue` waits, `Session`
whether `do_continue` ever comes back. `FlashStaging` ends where `Flash` begins.

### Triggers

`dbg` is a record: the tables of `Server` (`bps`, `exc`, `stop`) and of
`Watchpoints` (`wps`, `blocked`), and the target (`hw`, `hart`, `pc`, `cause`,
`reset`, `link`). `phase` says where `serve()` is: waiting for a connection
(`closed`, or `failed` after a cleanup that raised), at the prompt, in the loop
of `do_continue`, or in `wait_for_link`. One action is one handler, from packet
to reply: since the server is single threaded and the target is observed only by
accesses, everything the handler does is composed from operators that map a
debugger to the set of debuggers it may leave, with the error in flight in
`err`. `WriteSlots` is the central one: any number of the slots are done, the
one that fails is left as it was, empty, or programmed.

Four ghosts belong to sessions. `told`: the stops GDB has been told are set. `seen`:
some command of this session got an error. `inherited`: entries the last session's
cleanup left in the tables when it failed, until they are removed. `alarm`: a command
failed in some session, or a cleanup did, which no GDB sees.

Abstractions, and why they lose nothing the properties tell apart:

* The server is the one started with `--elf --no-rtos --no-flash`. Software
  breakpoints (`ws63break.py`) have a module of their own, `SoftBreak`.
* The order in which slots are written is that of Python dictionaries; the
  model takes every order.
* A watchpoint needs a constant number of slots, `Need[w]` (`range_blocks`), and
  whether a stop is the watched data or its rounded-up edge
  (`decode_access`) is open: `PollStop` and `PollGuard` may both be taken.
* `Elsewhere` stands for every pc that carries no breakpoint.
* The link: `stale` means that the pins are back but the debug port has not been
  set up again, which only `reattach()` does. An access may fail by itself too, and
  `do_continue` takes that for a lost link as well (`PollLost`); `status()` may fail
  once more behind `reattach()`.

What is checked (`triggers`, three slots, one breakpoint address shared with the
exception trigger, a one-slot and a two-slot watchpoint, two failed accesses,
350 thousand states): two watchpoints and a breakpoint exhaust the slots, two
failures are what it takes for an operation and its rollback both to fail, and
the sequence of commands, resets, lost links and sessions is unbounded.

* `SlotsExclusive`: no slot has two owners.
* `NoOrphanWatch`: a slot that may hold a block of a watchpoint belongs to it.
* `NoSilentLoss`: while `do_continue` waits for a running hart, every stop GDB was
  told about is programmed, unless this GDB has seen an error in this session or a
  reset is pending that `do_continue` has still to look at. What failed in an earlier
  session excuses only the entries its cleanup left behind.
* `CleanEnd`, `ClosedTables`: what a session leaves.
* `BlockedNeverRuns`: uncertain watchpoint slots keep the hart from being let go.

The run `triggers_lost` shows a disagreement: when the execution triggers fail to be
programmed in the `finally` of `step_over`, the watchpoints behind them are not
reached and nothing is blocked, so the next `c` runs past a watchpoint that
`docs/04-debugger.md` says forbids it.

`ToldIsArmed` does not hold (`MCTriggersInherited.cfg`), and shows what the exception of
`NoSilentLoss` stands for: a cleanup fails after it has cleared a slot and before it
clears the tables; the next session sets the breakpoint again, is answered OK because
the key is in the table, and runs past it without having seen an error.
`DisconnectClearsTriggers` does not hold either (`MCTriggersDetach.cfg`): `set_trigger`
can fail with the slot written, and `z1` forgets the table entry before it clears the
slot; no table then knows the slot, and a disconnection that succeeds leaves it armed.

### Flash

One action per step between which the process may be killed, the host or the
board may lose power, or an access may fail: `Begin` (controller borrowed,
sectors read and compared), `WriteJournal`, `SyncJournal`, `Unlock`, `Erase`,
`Program`, `Verify`, `Lock`, `Commit`, `Status` (the rest of `restore()`),
`GiveBack` (the `finally` of `controller()`). `op.failing` is the exception on
its way through the `finally` blocks. A failed erase or program leaves the
sector as it was, done, or `Torn`; a program that does not take is noticed only
by `Verify`. `SyncJournal` that is cut short leaves the journal on disk or not.

`unsafe` and `needsReset` are the server's; `Resume` and `MonitorReset` carry the
guards of c, s, D, k, the end of `serve()` and `monitor reset`. `Restart` is a
killed or restarted server, with both flags gone; `PowerLoss` is the board's.

`image` (what the last successful commands asked for), `booted` (the Flash at the
last reset), `alarm` and `inherited` are ghosts.

Not modelled: pages within a sector, the SFC register protocol below a step, the
flash cache (reads use the bus, and `sync_code` is part of the step it ends), the
firmware's own writes to the Flash, the FWPKG parser, the command line
(`--force`, package and resume options). `sfc` says only whether the firmware's
controller state has been put back.

What is checked (`flash`, two sectors, so that a command fails between them, one
content besides blank, two failed accesses, two journals, 2.4 million states):

* `Recoverable`: a sector that does not hold what the user last asked for has it
  in a journal on disk, whatever failed, was killed or lost power, and however
  many failed and repeated commands came before.
* `Atomic`: the transaction implements `FlashStore`: the user's image changes only
  as a whole, when a command has verified all of its sectors; only the sectors
  of the command in progress are disturbed; one command at a time.
* `NoStaleRun`: within one process a running hart runs the image it was reset into.
* `Borrowed`: what `writable()` and `controller()` borrow is given back.
* `UnsafeUntilVerified`: the flag goes down only when every sector the command
  covers holds what it asked for.

`RefusesAfterFailure` does not hold (`MCFlashRefuses.cfg`): `unsafe` is one flag for the
whole Flash, so after a failed write a successful command on other sectors clears
it, and the session that `docs/06-flash.md` says refuses to go on runs a damaged
image.

### SoftBreak

`d` is a record: memory and what the hart may still fetch of it (`fetch` changes
only in `sync_code`), the table of `SoftwareBreakpoints` and `ebreakm`
(`entries`, `saved`), `dcsr.ebreakm`, `Flash.unsafe`, and whether the hart runs.
Memory is counted in halfwords. RAM is written word by word, so an instruction of
two halfwords that crosses a word may be half written; the Flash is one sector,
which a failed `Flash.apply` leaves as it was, done, or torn. As in `Triggers` one
action is one handler, and the operators map a debugger to the set of debuggers
it may leave, so that a failure may come at every access, also inside the `except`
of `insert`, the `finally` of `displaced` and the `finally` of `step_over`.
`clear()` is the exception: it removes one breakpoint per step (`ClearNext`), in
any order, on behalf of `monitor reset`, D and k, or the end of `serve()`.

`user` (the user's program), `own` (`dcsr.ebreakm` without the debugger), `alarm` and
`missed` are ghosts. `missed` is set when `after_reset` fails before it has dropped
the RAM breakpoints; ^C then acknowledges the reset and the table stays beside a
new image. The properties claim nothing of that case.

Abstractions:

* A refused region, a wrong length or a PMP-protected address makes Z0 fall back
  to a hardware trigger (`Triggers`); here it leaves no entry, as a failed access
  does.
* The trigger accesses of `step_over` and `after_reset` are one access that may
  fail. The guard step inside `do_continue` is a stop followed by c.
* A chip reset, the link's return and `after_reset` are one action; what a ^C in
  between does is in `Triggers`. A reset during the one instruction of a step, or
  at the prompt, takes the link away until the server is started again. The
  firmware does not rewrite its own code.
* A halfword of code is one of two values (`Code`), enough to tell an old value
  from a new one.

What is checked (`softbreak`: two halfwords of RAM on both sides of a word
boundary, a sector of two, two failed accesses, 760 thousand states; two failures
are what it takes for an insertion and its rollback both to fail):

* `Transparent`: GDB's view is the user's program whatever was inserted, written
  over, stepped over or reset, and whatever failed in between.
* `NoOrphanPatch`: a patch in memory, or still in the hart's instruction cache, has
  an entry.
* `BreakpointsArmed`: while `do_continue` waits every breakpoint is in memory, is
  fetched, and stops in the debugger.
* `EbreakGivenBack`: the old `dcsr.ebreakm` is either saved or in force. It need not
  be in force when the table is empty: when `_restore_dcsr` itself fails, only the
  next removal tries again, and `clear()` of an empty table does not.

The run `softbreak_flash` shows a disagreement: one failed access inside an insertion
into Flash; the rollback programs the torn sector with the old instruction in it,
which verifies, clears `unsafe`, and Z0 answers OK with a hardware trigger: the
session runs a damaged Flash, with no error seen. `RunsKnownCode` does not hold
either (`MCSoftBreakTorn.cfg`): after a removal that failed between two words c runs
the half restored instruction; no guard of c and s looks at software breakpoints,
and `docs/09-architecture.md` says that unknown code is not run.

### Hart

`m` is a record of the caches of `ws63dbg.Hart` (`cache`, `clobbered`, `progbuf`), of
the selected access port, and of the Debug Module and hart behind them: data0, the
program buffer, COMMAND, ABSTRACTAUTO, cmderr, s0 and s1, memory, one CSR. A
batch is a sequence of accesses and a failed transfer has done some prefix of it;
the module executes what reaches it: with ABSTRACTAUTO on every access to data0
runs the last command again, and a command of a module with cmderr set is
ignored. One action is one operation (`ReadMemory`, `WriteControl`, `Continue`, ...);
`Step` and `StepEnds` are the two halves of `step()`, between which the hart
executes its instruction.

`real` (the registers as the user knows them), `stray`, `wrong` and `lapse` are ghosts.
`lapse` says that an operation has begun with the host wrong about the target
(`Trusted` is false, which takes a failed access): what that operation may do is
still checked by `hart_auto`, but no claim is made afterwards and the behaviour is not
followed. A `reset_halt()` that fails after the reset and before it has forgotten the
saved registers sets `lapse` too: the next resume gives s0 and s1 of before the reset
to the new program, and nothing in the code prevents it.

Abstractions: only s0 and s1 are told apart from the other registers, which are
never scratch; memory and the CSR hold known values between operations (`Settled`),
so that one word taken for another shows; a transfer that fails does not execute
later packets of the pipeline; polling, and the busy bit, are left out;
`reset_halt` is the reset and one access that may fail behind it; memory accesses
are of whole words. `BusAccess` is any access over the memory port.

What is checked (`hart`: four words of memory, so that every length of the pipeline
occurs at the start and at the end of memory; one failed access; 19 thousand states):

* `ScratchTransparent`: the registers that will be given back, or have been given
  to a running hart, are the user's.
* `WorkDone`: an operation that reports success read or wrote exactly what it was
  asked to, although the program buffer is loaded only where it differs.
* `StaysInRange`: nothing touches memory outside the range it was asked for.
* `CachesAgree`: refused commands and chip resets alone never make the host wrong.

The run `hart_auto` shows a disagreement with `docs/09-architecture.md`: the `finally` that
clears ABSTRACTAUTO may fail itself, and the next operation runs the leftover load
or store. `ProgbufCacheTrue` does not hold either (`MCHartProgbuf.cfg`): `_run` selects
the port outside the `try` that forgets the program buffer, so a failed select
leaves the cache believing words that were never sent.

### CmsisDap

The host holds an operation (`op`) as a sequence of stages; a stage is one call of
`cmds()` (a list of packets) or `cmd()` (one packet). `Send` and `Recv` are the two
halves of the loop of `cmds()`; an answer with the wrong command byte raises at
once, all other answers are judged when the last has come (`AllCome`, `Judge`), in
the order of their packets. A raised error writes the abort register
(`ClearAndRaise`) and ends the operation. `flight` holds the packets that have not
been read, in order; the probe answers the oldest unanswered one (`Execute`), by
running the accesses of a transfer on a model of the debug port: SELECT, CSW with
auto-increment, TAR that wraps inside its page, sticky errors, a bus error that is
seen at once or one access late. WAIT may stop a transfer at any access. A lost
link answers nothing, and comes back without its settings until the line reset of
`reconnect()`.

A `Timeout` leaves its answer in the pipe: `late` is set. From then on the host reads
every answer one command late. The properties that speak of the right answer
claim nothing then, but `ReconnectInStep` and `EveryCallReturns` do:

* A late answer is not got rid of within a process: `reconnect()` sends commands of
  different kinds, so it meets an answer of another command and fails with `bad
  response`. This holds as long as a call finds fewer than ten answers in the pipe,
  which is how many commands `reconnect()` sends before its last: behind ten, left
  by reconnects that timed out one command later each time, the commands fit
  again, and with ten TLC finds a `reconnect()` that succeeds out of step. Only a
  restart reads the pipe empty (`Open`). Two commands of one kind, such as two reads
  of a register, are paired wrongly without a sign. The code says nothing of this
  case; it is recorded here as a limit.

What is checked (`dap`; four words of bus, one of them bad with a word behind it in
its page, pages of two, one word
to a block packet, three accesses to a batch packet, two packets in flight, two
faults, at most one answer left in the pipe when a call begins, 370 thousand states: a
transfer crosses a page, a page more than one packet, a batch more than one
packet, and the pipe is full):

* `InStep`: until an answer has been left behind, what is in the pipe are the packets of
  this call that were sent and not answered, in order, through every exception.
* `WorkDone`: an operation that reports success read or wrote its whole range, each
  word in its place, and met no bad word.
* `CurApTrue`: `cur_ap` is what the port has selected, or nothing.
* `WrittenPrefix`: a failed write has written a prefix. After a WAIT it need not be
  one: packets that are in the pipe behind it are executed.
* `EveryCallReturns` (liveness).

Only the padded answers of the HID transport are in the instance (`Padded`): a short
answer of the bulk transport is refused by its length, so padded ones are the
harder case. The DAP_Info commands and `power_up` of a start (their answers only set
the packet sizes, which are constants here) and the DISCONNECT of `close()` are left out.

### Session

Two queues of bytes and packets, `toServer` and `toGdb`. `pc` is where the server's
thread is: `accept`, `prompt` (`recv_packet`), `ack` (`send()` waiting for `+`, then going
on at `after`), `cont` (the loop of `do_continue`), `lost` (`wait_for_link`), `bye`
(`serve()`'s `finally`). An action is what the thread does between two reads of the
socket or two polls. GDB sends a request, reads until its answer comes, may press
^C while it waits for a stop, may repeat a request that is not acknowledged, and
may go away at any moment. Requests are one that needs a halted hart, c,
QStartNoAckMode, D and k; they are numbered modulo 3, so that an answer taken for
that of another request shows. The board stops at triggers, resets (which takes
the pins), takes pins away and gives them back (`stale`: nothing works until
`reattach()`).

Any access may fail, over a lost link and over a working one: every request that
touches the target, ^C, the poll, what follows a reset or a stop, and the cleanup may
be answered by E01 or end the session. Then the hart is where the failed step left
it: `resume()` may raise with the hart let go (no `allresumeack`, or the last write
fails), `halt()` before or after it has stopped. An error in answer to s or c
therefore tells GDB nothing about the hart. `unsure` records that, from the answer to such a request until
the next answer to an s or c.

What is checked (`session`; one reset or lost link, one failed poll or connection over a
working link, one repeated request, two unread packets, 800 thousand states; other
failures, sessions, requests and ^C are unbounded):

* `RepliesMatch`: GDB takes every answer for the right request. The exception is a ^C
  that arrives after the server has stopped by itself: `serve()` answers it with a
  second stop reply. In acknowledged mode `send()` reads such a ^C, and a repeated
  request, away while it waits for `+`, which is why a handler does not run twice.
* `StoppedMeansHalted`: at GDB's prompt the hart is halted, unless GDB's last s or c was
  answered by an error or the link is lost. After an error the hart may run where GDB
  shows it as stopped, without a sign.
* `EveryRequestAnswered`, `SessionsEnd`, `Interruptible` (liveness).

The run `session_reconnect` shows a disagreement: only `wait_for_link` sets the debug port
up again, and only `do_continue` calls it. After a reset at the prompt the session's
cleanup fails, and so does `had_reset()` of every later one, although the pins are
back; `docs/03-getting-started.md` tells the user to connect again. A `-` from GDB is
not modelled: over TCP it never comes.

### WatchRange and FlashStaging

`WatchRange` takes one action per round of the loop of `range_blocks`, for every range
of the address space, keeps the finished ones as entries, and asks of every aligned
scalar access what the trigger and the server do. Bit tricks are written by what
they compute: the highest power of two, the lowest set bit. `Told` is the address of
the stop reply.

* `BlocksTile`: the blocks are aligned, disjoint, and cover exactly the words of the range.
* `WatchesReported`: an access is reported exactly when it touches a watched byte, with
  an address that is watched and accessed. This needs the widening to words: the
  trigger compares only the first byte of an access.

`FlashStaging` numbers the data packets of a load and writes the number into the
bytes. Erase requests, data, vFlashDone (which may fail in `apply`), breakpoints and
new sessions come in any order.

* `StagedFits`: data that was answered OK lies in erased sectors.
* `LoadExact`: a vFlashDone that succeeds leaves exactly the data answered OK since the
  last one, erased bytes around it, and everything else as it was.

`algorithms` has 16 bytes of address space and one watchpoint besides the one being
set; four sectors of two bytes, three erase and three data packets (a packet over
the seams of three requests, given in any order): 410 thousand states.

### TaskView

`k` is the kernel: the task array, which task runs, and whose stack the hart is on
(0: an interrupt's). `Moves` is what one instruction may do to it. `rt` is the
`LiteOS` object. A handler calls `refresh()` (`Refreshed`), which may fail before or
half way through the array, after it has given out some of the numbers.
`ResetFails` is a reset, seen by `do_continue` or asked for by `monitor reset`, that took
effect and whose handler then fails, with the view dropped or not. `gdbThread` is the
thread GDB believes selected. `M` overwrites a control block, `Capture` takes a snapshot
whose memory has holes and goes on as the offline server. Ghosts: `unnoted` (the
target changed and nothing tells the view), `known` (every thread ever listed),
`strayed`, `captured`.

What is checked (`taskview`; two control blocks, two names, three threads' numbers,
one failed access or overwritten block, 2.4 million states, symmetric in the names,
which are only compared):

* `ViewTrue`: a valid view of a halted target is what memory says now, unless `unnoted`.
* `NumbersName`: a number names one task for ever.
* `WritesReachTheirTask`: a register write that GDB means for a task goes to that very
  task, not to another one in the same control block.
* `OfflineTrue`: a snapshot shows the tasks, the current one and the selection of the
  moment of the capture.

What nothing tells the view (`unnoted`), and the code leaves so: memory written by M,
X and `monitor mw`; a step or register write that fails after it took effect
(`step_over` invalidates behind the step); a reset whose handler fails before it drops
the view; a reset at the prompt; the run after a
session, until the next one asks `?`. After a reset the old control blocks are shown
from the first step until the kernel clears its memory: `refresh()` looks only for
the reset vector. A task deleted and created again with the same identity keeps its
number if it was not decoded in between. Register values, saved contexts and stack
checks are left out.
### Bounds, fairness and deadlock

`MaxFaults` bounds what fails, `MaxJournals` the journals on disk (a command that would
need one more is not started), `MaxDrops` resets and lost links, `MaxResends` and
`MaxUnread` the socket, `MaxLeft` the answers left in the pipe, `MaxThread` the numbers of
threads, `MaxErases`, `MaxWrites` and `MaxWatches` the packets of a load and the entries. In the
modules without the bound in this list resets, power losses, kills, lost links,
sessions and commands are not bounded. `MCSoftBreak` starts with a uniform program;
writes reach every other one in RAM. Deadlock is checked in every run.

Two modules state fairness.

* `CmsisDap`: the host goes on with the operation it is in (weak fairness of
  `Send \/ Recv`: it is one thread in a loop) and the probe executes what it has
  received (`Execute`). Faults and timeouts are never forced.
* `Session`: the server's thread goes on (`Server`); GDB reads what it waits for (`Read`)
  and notices a closed connection (`FindClosed`); the firmware gets to its SWD
  initialisation while the hart runs (`PinsBack`), and a board that stopped before it
  is reset by its user (`UserReset`), which is what `wait_for_link` prints and
  `docs/04-debugger.md` says. `Interruptible` also needs a user who presses ^C until the
  target stops (`PatientSpec`), `ReconnectGivesSession` one who connects again. Nobody
  need send a request, and nothing need ever fail.

### Further configurations

`MCTriggersInherited.cfg`, `MCTriggersDetach.cfg`, `MCFlashRefuses.cfg`,
`MCSoftBreakTorn.cfg` and `MCHartProgbuf.cfg` each check one property that does not
hold, described above under its module. They are kept to be run by hand, and are not
among the runs of `PROJECT.json`.

## What is proved

`TriggersProofs`, for any number of slots, breakpoints, watchpoints and failures:
`TypeCorrect`, `SlotOwnership` (`SlotsExclusive`), `WatchOwnership`
(`NoOrphanWatch`), `CleanTables` (`ClosedTables`), `NoStopLost` (`NoSilentLoss`) and `CleanDisconnect`
(`CleanEnd`). Assumed: the hart has slots, `ExcAddr` is a breakpoint address, a
watchpoint needs at least one slot, and what GDB is told is set can be told apart
(an address, an (address, kind, length) key of `Watchpoints.entries`, the exception
trigger). The first
invariant is that the debugger is well typed, no slot has two owners and every
data trigger is owned. It is inductive because it holds at every point inside a
handler, raised error or not: so each lemma is about one operator on debuggers
(`WriteSlots` keeps it when what it writes into a slot belongs to the owner of
the slot, `Then` keeps it when its parts do) and the handlers follow by
composition.

`NoStopLost` and `CleanDisconnect` need a second one, `LossInv`, about what the slots hold
before an error: every table entry is programmed in its slots and every slot without an
owner is off (`InStep`); or a reset is pending, every slot is empty and the link is not
up (`Fine`). It has two parts. The strict one holds until anything has failed in any
session. The other holds within a session until its GDB has seen an error, whatever
failed before it: there a slot without an owner may be armed and the inherited entries
are excepted; a session begins with all the entries it finds as inherited, and an entry
that is removed and set again is one no more. That last conjunct carries the resets: halting
acknowledges `havereset`, so if any handler could reach the target between the reset
and `Reattach`, the slots would stay empty with nobody to notice. The table says
which stops GDB was told about (`Tracked`). Inside a step every slot is off and no
table has changed, which is neither of the two; so the lemmas follow each operator
along its path without a failure from one to the other, and a path that fails needs
nothing because the error is what GDB sees. `k` leaves the exception trigger in its
table with the slot cleared; the cleanup that follows needs only that nothing is
armed without an owner (`Rest`).

The third, with no assumption on the constants, gives `UncertainNeverRuns`
(`BlockedNeverRuns`): nothing is blocked in the phases `cont` and `lost`, because `c` and
`s` look at `blocked` before they let the hart go, and what fails in the loop of
`do_continue` ends the loop. `D`, `k` and the cleanup of `serve()` let it go too, without
looking: there it holds because `clear()` has emptied the table, and nothing after it
puts an entry back.

`FlashProofs`, for any number of sectors, contents, failures and journals:
`TypeCorrect`, `NothingLost` (`Recoverable`), `RunsWhatBooted` (`NoStaleRun`),
`UnsafeIsHonest` (`UnsafeUntilVerified`), `GivenBack` (`Borrowed`), `Refinement` (`Atomic`). None of these is
inductive by itself. The invariant adds

* `Progress`: a command that has not failed has done every sector it covers
  except those in `todo`, and has none left when it commits;
* `Backed`: a sector to be erased has its old content in the journal being
  written, and from the sync on a backup on disk while it is still whole;
* `Guarded`: a command runs only under a halted hart or a lost link, `unsafe` is
  up while sectors are written, and the Flash differs from what was booted only
  while `unsafe` or `needsReset` says so or the command that says so is ending.

`GivenBack` needs one more, `Quiet`: as long as no alarm was raised every journal, and what
`writable()` has saved, records the protection as locked (so a `restore` cannot leave it
open), and a sector differs from the user's image only where the command in
progress covers it.

The refinement maps `Erase` and `Program` to `Disturb`, `Commit` (and a command
that finds its sectors done already) to `Update`, `GiveBack` and `Restart` to
`End`; the other steps stutter. That `where` is unchanged when a journal reaches
the disk needs `Recoverable`.

`CmsisDapProofs`, for any sizes, registers, bad words and number of faults: `InStepAlways`
(`InStep`). Assumed: the sizes are positive numbers, `Registers` are numbers. The
invariant adds to `InStep` that every packet's answer bears its command (so that
`Fits` can fail only once an answer is late) and that the stages still planned are
lists of packets; it is `late \/ Matched`, because `late` never goes down before `Open`.
`ReconnectRefuses` (`ReconnectInStep`) assumes besides that a call finds fewer than ten
answers in the pipe (`MaxLeft < 10`), and the bound is sharp. It speaks of the time
after an answer was left behind, when `Matched` is gone. `Pipe` is what remains: an
answer bears the command of its packet. The last command of `reconnect()` is the only
one of its kind there. `Closes` counts: of the answers that were there before, none is
left when the ten commands before it have been answered, so what the host takes for
the last answer is either of another kind, or the last thing in the pipe.
`CurApAlways` (`CurApTrue`) needs two more things. `TransferPort` says what a transfer of any
length, stopped anywhere, leaves in SELECT and CSW: nothing new if it accesses
neither, and of the one access of a packet of `select()` the value, if it was
answered OK; an induction over the accesses. `Planned` says how much of `select()` is
left (`Front`): while any is, `cur_ap` is None, after the first answer the port has
selected the AP, and everything that follows leaves SELECT, CSW and the line alone.

`WorkDoneAlways` (`WorkDone`) and `WrittenPrefixAlways` (`WrittenPrefix`) are about
what all the packets of an operation do together. The invariant, `Works`, ties three
things to one another: the stages left, which are the last ones of the operation's
plan (`At`); the answers to the packets of the current stage that the probe has
executed, of which the host has read the first and the rest are in the pipe (`Come`,
`Full`); and what the collected words, TAR and the bus hold, given by the word or the
entry of the batch that those packets have reached (`Worded`, `Listed`). As long as
the link is up and no error sticks, TAR, until its page is done, is not past that
word; while every answer was OK it is at the word, which is what lets a block packet
carry no address, and the words before it have all been read or written. Without a
WAIT a working port means that every answer was OK: an error sticks, so the packets in
flight behind it are refused. A WAIT does not stick, the packets behind it are
executed, and all that is left is that no word past the one reached is written. So
`WrittenPrefix` claims a prefix only without a WAIT.

What a packet does to the bus is an induction over its accesses, which can stop at any
of them (`BlockRun`, and `BatchRun` for a list of CSR or register accesses); the
increment of TAR is only followed within a page. How a range falls into pages and
packets is arithmetic on its bounds (`PagesAre`, `ThroughIs`, `CutIs`): consecutive
packets meet, and no packet crosses a page. Once an operation has failed, the packets
it still plans touch no word (`Peaceful`). Nothing is claimed after an answer was left
behind (`late`), as in the properties themselves.

`AlgorithmsProofs`, for every address space whose size is a multiple of four and any set
of powers of two: `Tiling` (`BlocksTile`). The loop's invariant is that `current` is a multiple
of four between the start and the end; the step needs that the block chosen is
aligned at `current` and does not pass the end, which is where `min` and the case
`current = 0` matter. From it `Reporting` (`WatchesReported`): every finished entry covers its
range widened to whole words, so an aligned access that overlaps the range begins in
a word some trigger matches, and one that misses the range is skipped as a guard
stop.

The same module, for every Flash of whole sectors and any number of packets: `DataFits`
(`StagedFits`) and `LoadsExactly` (`LoadExact`). `StagedInv` says that the staged writes are
disjoint and sorted, that they are the data that was answered OK, and that each lies in
erased bytes. `covered()` is a scan over the sorted erases; that the
scan accepts only what their union covers, for every set of erases, is an induction,
and is proved as one over a set of numbers (`NatsIn`: a set that has 0 and the
successor of every member is `Nat`), since the prover cannot use the library's
induction rules. That every rank has a request (`Ranked`) comes from counting the smaller ones.

`TaskViewProofs`, for any number of control blocks, names and failures:
`NumbersNameAlways` (`NumbersName`), `OfflineTrueAlways` (`OfflineTrue`),
`ViewTrueAlways` (`ViewTrue`) and `WritesReachAlways` (`WritesReachTheirTask`). Assumed: the slots are
1 .. n. The invariant: `identities` gives distinct numbers below `next_thread` to
distinct keys, agrees with every thread that was ever listed under a number it
uses, and no listed number has reached `next_thread`; a frozen view is valid, is the
captured one, and nothing invalidates it. `next_thread` alone keeps the numbers of
forgotten tasks from coming back, which is why a decoding that raises must have
moved it. For `ViewTrue`: a valid view of a halted, noted target shows the memory
and registers of now, and a valid view of a running one is `unnoted` or there is no
session, so that a stop that is noticed makes it invalid; numbers begin at 2, which
keeps thread 1, the boot context, out of them. `WriteInv` relates three parties that
refresh at different times: GDB's idea of its selected thread, the server's
`selected`, and the target's control blocks. While the hart is halted, the thread GDB
means, if it can mean one, is the server's selection, its task is still in its
slot, and `identities` still has its number, so that the next decoding keeps both.

`SoftBreakProofs`, for any finite RAM and any Flash, any program and any number of failed
accesses: `GdbSeesTheProgram` (`Transparent`), `PatchesHaveOwners` (`NoOrphanPatch`),
`LoopIsArmed` (`BreakpointsArmed`) and `EbreakReturned` (`EbreakGivenBack`). Assumed: RAM is
finite (a write names how many cells it covers), and RAM and Flash have no cell in
common. The invariant has two parts. `Sound` holds at every point inside a handler,
raised error or not: the entries describe instructions that do not overlap, what they
have saved and the memory without an entry are the user's program, or a torn sector,
the hart fetches no patch where there is no entry, and `dcsr.ebreakm` is saved or the
user's. `Armed`, that every entry's patch is in memory, fetched and goes to the debugger,
holds until a handler fails, and a handler that fails raises `alarm`: so the lemmas say
of every operator that it keeps `Sound`, and that it keeps `Armed` or is in error. Inside a
step over a breakpoint `Armed` holds of every entry but one (`ArmedBut`), and inside an
insertion of every entry but the new one. Nothing is claimed once the chip has been
reset and the server has not seen it (`missed`).

`SessionProofs`, for any number of resets, lost links, repeated requests and unread
packets: `AnswersMatch` (`RepliesMatch`) and `StoppedIsHalted` (`StoppedMeansHalted`). Neither
is inductive, since what GDB will take an answer for depends on what is in both
directions of the socket. The invariant (`Question`, `Answering`, `Acking`, `Turns`) describes
it while a session is open: of what GDB has sent, the bytes before the `+` that `send()`
waits for are dead; among the rest there is a request only before its answer, it is
GDB's last one, no `+` comes behind it, and in acknowledged mode a `^C` only behind it.
Of what the server has sent at most one packet answers a request, and in
acknowledged mode it is the last thing sent and the server waits for its `+`. The
server stops acknowledging only after GDB has. `Eased` says that at the
prompt of a working link the hart is halted, or GDB is in doubt (`unsure`), or will be:
the error that puts it there is still on its way and answers an s or c.

`HartProofs`, for any size of the memory, any words and any number of failed accesses:
`RegistersGivenBack` (`ScratchTransparent`), `SuccessIsDone` (`WorkDone`), `NeverBeyondRange`
(`StaysInRange`) and `CachesAgreeAlways` (`CachesAgree`). Assumed: there is a word of memory,
and words are numbers up to `Top`. The invariant, `HartInv`, holds between operations. As
long as no operation has begun with the host wrong about the target, and no reset has
failed with registers saved, `FullOf` says: with
the link up, a cache of the registers belongs to a halted hart and what the cache and the
hart show together is what the user knows; with the link down, the chip has been reset
and its registers are zero, which is what makes `reattach()` right to forget everything;
and unless an access has failed the host is right about the target (`Trusted`).
Afterwards it says only that an access has failed, which `CachesAgree` needs.

None of this holds inside an operation, where scratch registers are in use and autoexec
is on. The proof follows the layers of the code. `Reach` is the set of states a batch may
have come to when it fails, and is followed access by access: `Wander` is what holds at
all of them (no register changes that the host has not saved, no word outside the
range), so that it does not matter where a batch is cut off. `Run` turns that into
`Leaves`: registers as before, only memory of the range touched, and the host right about
the target or an access failed. `Leaves` composes, so each operation is the composition
of its parts, and beside it each operation on a link that is down changes nothing
(`Later`). The two pipelines are inductions over the length of the range, on what is in
`data0`, s0 and s1 after k accesses: for a read, the words before k are in `out`, word k is
in data0, word k + 1 in s1 and its successor's address in s0 (`Piped`); for a write
the first k words are stored and s0 is the next address (`Stores`). The length
counts: the read is proved for the pipeline that stops two words early, and the module
would load one word too many otherwise.

Every invariant and action property that a passing run checks is stated by one of
these theorems. Only model-checked: the liveness properties, which need ENABLED.
`NoLeftoverRuns` (run `hart_auto`) and `ProgbufCacheTrue` (`MCHartProgbuf.cfg`, by hand) of
`Hart` do not hold, nor do the other properties of violation runs. What a
RECURSIVE operator or an induction rule with an operator parameter would be needed for
is out of reach of the provers; the inductions above are over sets of numbers.

## Plan

What would add most from here:

1. The composition of `TaskView` with `SoftBreak`: memory writes that change a control block.
2. `synchronization()` of `ws63rtos.py`: the cycle search over mutex owners, against a
   reference definition.

## Not modelled

* Checksums and escaping of packets, XML target descriptions, FWPKG parsing, report
  formatting, the search for probes and the USB and HID calls: conversions and I/O
  without state of their own.
* ELF and DWARF (`ws63elf.py`): parsing, and an evaluation of CFI rules that depends on
  the bytes of a program. `check_target` is a flag of `TaskView` (`image`).
* `decode_access` of `ws63watch.py`: `WatchRange` is given accesses; whether an instruction
  is decoded into the right one is a question of bit fields.
* The stack waterline, backtraces and the synchronization report of `ws63rtos.py`, the
  files of `ws63diagnose.py` and `ws63dump.py`: straight-line reading and printing.
* Floating point registers, busy polling and unaligned memory access in `ws63dbg.py`.
* The hardware tests and verification scripts (`src/tests`).
