------------------------------ MODULE CmsisDap ------------------------------
(***************************************************************************)
(* The probe pipeline: cmsisdap.CMSISDAP and the DAP layer of ws63dbg.     *)
(*                                                                         *)
(* The host sends command packets and reads answers over USB; the probe    *)
(* executes the packets in order and answers each.  cmds() keeps up to     *)
(* PacketCount packets in flight and looks at their answers only when all  *)
(* have come.  An answer that is late stays in the pipe, and the next      *)
(* command reads it.  A transfer can be stopped at any access by WAIT, by  *)
(* a bus error, after which everything answers FAULT until the abort       *)
(* register is written, or by a link that is gone, which stays silent      *)
(* until the line reset of reconnect().                                    *)
(*                                                                         *)
(* An operation is a sequence of stages; a stage is one call of cmds() (or *)
(* cmd(), with one packet), and an exception ends the operation.  Words on *)
(* the bus are numbered, and a read returns the number of its word.        *)
(***************************************************************************)
EXTENDS Integers, Sequences, FiniteSets

CONSTANTS
    Top,            \* words on the bus: 0 .. Top - 1
    BadWords,       \* words whose access is a bus error
    Page,           \* words after which TAR's auto-increment wraps (1 KiB)
    Chunk,          \* words of one DAP_TRANSFER_BLOCK packet
    Batch,          \* accesses of one DAP_TRANSFER packet
    PacketCount,    \* packets the probe can buffer (INFO_PACKET_COUNT)
    Registers,      \* Debug Module registers
    Padded,         \* HID: answers are padded to the report size
    MaxFaults,      \* bound: WAITs, timeouts, failed sends, lost links, kills
    MaxLeft         \* bound: answers left in the pipe when a call begins

ASSUME SizesAssumption ==
    /\ Top \in Nat \ {0} /\ Page \in Nat \ {0} /\ Chunk \in Nat \ {0}
    /\ Batch \in Nat \ {0} /\ PacketCount \in Nat \ {0} /\ MaxFaults \in Nat
    /\ MaxLeft \in Nat
ASSUME PlacesAssumption == Registers \subseteq Nat /\ BadWords \subseteq 0 .. Top - 1
ASSUME PaddedAssumption == Padded \in BOOLEAN

DM   == 0           \* AP_DM: the Debug Module
MEM  == 1           \* AP_MEM: the bus, with auto-increment
APs  == {DM, MEM}
NoAp == 2
Rd   == -1          \* an access that reads
Fixed     == 0      \* CSW: no auto-increment, or with it
Increment == 1
Pad  == -2          \* the padding of a short report, taken for a word
Clean  == -3        \* CTRL/STAT without and with STICKYERR
Sticky == -4

\* An access <<register, value>>, value Rd when it reads; a command packet.
Packet(cmd, acc) == [cmd |-> cmd, acc |-> acc]
Xfer(reg, v)     == Packet("xfer", <<<<reg, v>>>>)

\* One call of cmds(): then is the AP select() has finished selecting, test
\* asks for sticky_error(), soft swallows DebugError (clear_errors()).
Stage(pk)     == [pk |-> pk, then |-> NoAp, test |-> FALSE, soft |-> FALSE]
Single(p)     == Stage(<<p>>)
SelectAp(ap)  ==
    <<Single(Xfer("select", ap)),
      [Single(Xfer("csw", IF ap = MEM THEN Increment ELSE Fixed)) EXCEPT !.then = ap]>>
StickyErrorUnread == Single(Xfer("stat", Rd))
StickyError   == [Single(Xfer("stat", Rd)) EXCEPT !.test = TRUE]
ClearErrors   == [Single(Packet("abort", <<>>)) EXCEPT !.soft = TRUE]

VARIABLES
    op,         \* the operation begun last
    busy,       \* it has not returned
    ok,         \* it has not raised
    stages,     \* what is left of it, the current stage first
    sent, got,  \* cmds(): packets sent, answers read
    data,       \* words read so far
    cur,        \* DAP.cur_ap
    flight,     \* packets whose answer was not read, oldest first
    dp,         \* the debug port and its access ports
    mem,        \* bus words the operation wrote: which of its words they hold
    link,       \* "stale": the pins are back, the line reset is not done
    faults,
    late,       \* ghost: answers were left behind in the pipe
    waited      \* ghost: an access of the operation was answered WAIT

host == <<op, busy, ok, stages, sent, got, data, cur>>
vars == <<host, flight, dp, mem, link, faults, late, waited>>

Ops == [name : {"read", "write"}, a : 0 .. Top - 1, n : 1 .. Top]
       \cup [name : {"batch"}, regs : UNION {[1 .. k -> Registers] : k \in 1 .. 2}]
       \cup [name : {"reconnect", "open"}]

-----------------------------------------------------------------------------
(* What an operation sends. *)

Least(a, b)    == IF a < b THEN a ELSE b
Largest(a, b)  == IF a > b THEN a ELSE b
Ceil(n, k)     == (n + k - 1) \div k
Flatten2(k, f(_), g(_)) == [j \in 1 .. 2 * k |-> IF j % 2 = 1 THEN f((j + 1) \div 2) ELSE g(j \div 2)]

\* select(): nothing to do for the AP that is selected already.
Select(ap) == IF cur = ap THEN <<>> ELSE SelectAp(ap)

\* The access to word i of an operation that starts at word a.
Word(o, i) == <<"drw", IF o.name = "read" THEN Rd ELSE i - o.a + 1>>

\* rd_repeat, wr_repeat of the words lo .. hi - 1, Chunk words to a packet.
Repeat(o, lo, hi) ==
    Stage([p \in 1 .. Ceil(hi - lo, Chunk) |->
            LET from == lo + (p - 1) * Chunk
            IN  Packet("block", [j \in 1 .. Least(Chunk, hi - from) |-> Word(o, from + j - 1)])])

\* bus_read_words, bus_write_words: TAR is written again in every page.
TransfersUnpaged(o) == <<Single(Xfer("tar", o.a)), Repeat(o, o.a, o.a + o.n)>>
Transfers(o) ==
    LET first == o.a \div Page
        lo(i) == Largest(o.a, (first + i - 1) * Page)
        hi(i) == Least(o.a + o.n, (first + i) * Page)
        tar(i)   == Single(Xfer("tar", lo(i)))
        words(i) == Repeat(o, lo(i), hi(i))
    IN  Flatten2((o.a + o.n - 1) \div Page - first + 1, tar, words)

\* Hart._run: TAR and DRW for every register, Batch accesses to a packet.
BatchOf(o) ==
    LET tar(i) == <<"tar", o.regs[i]>>
        drw(i) == <<"drw", Rd>>
        acc == Flatten2(Len(o.regs), tar, drw)
    IN  Stage([p \in 1 .. Ceil(Len(acc), Batch) |->
            Packet("xfer", SubSeq(acc, (p - 1) * Batch + 1, Least(p * Batch, Len(acc))))])

\* _init_swd: the settings of the probe, the line resets, DPIDR, the abort.
InitSwd == <<Single(Packet("connect", <<>>)), Single(Packet("clock", <<>>)),
             Single(Packet("config", <<>>)), Single(Packet("swd", <<>>)),
             Single(Packet("swj", <<>>)), Single(Packet("swj", <<>>)),
             Single(Packet("swj", <<>>)), Single(Packet("swj", <<>>)),
             Single(Xfer("id", Rd)), ClearErrors, Single(Packet("led", <<>>))>>

Plan(o) ==
    CASE o.name \in {"read", "write"} -> Select(MEM) \o Transfers(o) \o <<StickyError>>
      [] o.name = "batch"             -> Select(DM) \o <<BatchOf(o)>>
      [] OTHER                        -> InitSwd

-----------------------------------------------------------------------------
(* The host. *)

\* The operation ends (TAR is written again by the next); or it goes on.
End(success) ==
    /\ busy' = FALSE /\ ok' = success /\ stages' = <<>> /\ sent' = 0 /\ got' = <<>>
GoOn(rest) == stages' = rest /\ sent' = 0 /\ got' = <<>> /\ UNCHANGED <<busy, ok>>

\* A DebugError out of cmd() or cmds(): clear_errors swallows it.
Raise ==
    /\ IF Head(stages).soft /\ Len(stages) > 1 THEN GoOn(Tail(stages))
       ELSE IF Head(stages).soft THEN End(ok)
       ELSE End(FALSE)
    /\ UNCHANGED data
\* _check and sticky_error: clear_errors(), then raise.
ClearAndRaise ==
    /\ ok' = FALSE /\ stages' = <<ClearErrors>> /\ sent' = 0 /\ got' = <<>>
    /\ UNCHANGED <<busy, data>>

Reads(p) == Cardinality({i \in DOMAIN p.acc : p.acc[i][2] = Rd})

\* A caller begins an operation.  reconnect() forgets what is selected, and
\* select() until it has succeeded.
Setup(o) == o.name \in {"reconnect", "open"}
Needs(o) == IF o.name = "batch" THEN DM ELSE MEM
ForgetOld(o) == cur' = IF ~Setup(o) /\ cur # Needs(o) THEN NoAp ELSE cur
Forget(o)    == cur' = IF Setup(o) \/ cur # Needs(o) THEN NoAp ELSE cur

Start(o) ==
    /\ op' = o /\ busy' = TRUE /\ ok' = TRUE /\ stages' = Plan(o)
    /\ sent' = 0 /\ got' = <<>> /\ data' = <<>> /\ Forget(o)
    /\ mem' = [a \in 0 .. Top - 1 |-> 0] /\ waited' = FALSE
    /\ UNCHANGED <<dp, link>>

\* A caller of a CMSISDAP whose constructor has not raised.
Begin(o) ==
    /\ ~busy /\ o.name # "open" /\ (op.name = "open" => ok)
    /\ o.name \in {"read", "write"} => o.a + o.n <= Top
    /\ Len(flight) <= MaxLeft
    /\ Start(o)
    /\ UNCHANGED <<flight, late, faults>>

\* The tool is started again, its predecessor having ended or been killed at
\* any point: the transport reads away the answers that have come, which are
\* those of the oldest packets.
Unanswered == SubSeq(flight, Cardinality({i \in DOMAIN flight : flight[i].ans # <<>>}) + 1, Len(flight))
Open ==
    /\ Len(Unanswered) <= MaxLeft
    /\ busy => faults < MaxFaults
    /\ faults' = IF busy THEN faults + 1 ELSE faults
    /\ Start([name |-> "open"])
    /\ flight' = Unanswered /\ late' = (Unanswered # <<>>)

MaySend == /\ sent < Len(Head(stages).pk)
           /\ sent - Len(got) < PacketCount

Send ==
    /\ busy /\ MaySend
    /\ sent' = sent + 1
    /\ flight' = Append(flight, [pkt |-> Head(stages).pk[sent + 1], ans |-> <<>>])
    /\ UNCHANGED <<op, busy, ok, stages, got, data, cur, dp, mem, link, faults, late, waited>>

\* The write to the endpoint fails; what is in flight will still be answered.
SendFails ==
    /\ busy /\ MaySend /\ faults < MaxFaults
    /\ faults' = faults + 1
    /\ late' = (late \/ flight # <<>>)
    /\ Raise
    /\ UNCHANGED <<op, cur, flight, dp, mem, link, waited>>

Answered == flight # <<>> /\ flight[1].ans # <<>>

\* recv(): no answer within TIMEOUT_S.
Timeout ==
    /\ busy /\ ~MaySend /\ ~Answered /\ faults < MaxFaults
    /\ faults' = faults + 1
    /\ late' = TRUE
    /\ Raise
    /\ UNCHANGED <<op, cur, flight, dp, mem, link, waited>>

\* What the words of an answer are for a packet that reads w of them.
Words(ans, w) == [i \in 1 .. w |-> IF i <= Len(ans.data) THEN ans.data[i] ELSE Pad]
Complete(p, ans) == /\ ans.done = Len(p.acc)
                    /\ Padded \/ Len(ans.data) >= Reads(p)
Concat(s) == LET all[i \in 0 .. Len(s)] == IF i = 0 THEN <<>> ELSE all[i - 1] \o s[i] IN all[Len(s)]

\* sticky_error() of a word: bit 5 of a foreign word may be anything.
Stuck(v) == IF v \in {Clean, Sticky} THEN {v = Sticky} ELSE BOOLEAN

\* An answer that does not begin with the command of the packet is refused;
\* any other is judged when all have come, and the first bad one decides.
FitsAny(ans, p) == TRUE
Fits(ans, p)    == ans.cmd = p.cmd
AllComeOrBad(all) == Len(all) = Len(Head(stages).pk) \/ all[Len(all)].ack # "ok"
AllCome(all)      == Len(all) = Len(Head(stages).pk)

Collected(new, test)    == IF Setup(op) \/ test THEN data ELSE data \o new

Checked(all) ==
    LET pk == Head(stages).pk
        bad(i) == all[i].ack # "ok" \/ ~Complete(pk[i], all[i])
        new == Concat([i \in DOMAIN pk |-> Words(all[i], Reads(pk[i]))])
        test == Head(stages).test
    IN  \/ \E i \in DOMAIN all :
            /\ bad(i) /\ \A j \in 1 .. i - 1 : ~bad(j)
            /\ IF all[i].ack # "ok" THEN ClearAndRaise ELSE Raise
            /\ UNCHANGED cur
        \/ /\ \A i \in DOMAIN all : ~bad(i)
           /\ cur' = IF Head(stages).then = NoAp THEN cur ELSE Head(stages).then
           /\ \/ test /\ TRUE \in Stuck(new[1]) /\ ClearAndRaise
              \/ /\ test => FALSE \in Stuck(new[1])
                 /\ data' = Collected(new, test)
                 /\ IF Len(stages) = 1 THEN End(ok) ELSE GoOn(Tail(stages))
CheckedAgain(all) ==
    IF \E i \in DOMAIN all : all[i].ack # "ok"
    THEN GoOn(stages) /\ UNCHANGED <<cur, data>>
    ELSE Checked(all)
Judge(all) == Checked(all)

\* recv(): the oldest answer, whatever packet it belongs to.
Recv ==
    /\ busy /\ ~MaySend /\ Answered
    /\ LET ans == flight[1].ans[1]
           all == Append(got, ans)
       IN  IF ~Fits(ans, Head(stages).pk[Len(all)]) THEN Raise /\ UNCHANGED cur
           ELSE IF AllCome(all) THEN Judge(all)
           ELSE got' = all /\ UNCHANGED <<busy, ok, stages, sent, data, cur>>
    /\ flight' = Tail(flight)
    /\ UNCHANGED <<op, dp, mem, link, faults, late, waited>>

-----------------------------------------------------------------------------
(* The probe and the target. *)

\* One access of a transfer on s: the port, the bus words, how the transfer
\* stands and the words read.  posted: a bus error is noticed one access late.
Access(s, x, posted) ==
    LET reg == x[1]
        v == x[2]
        ap == s.dp.sel
        t == s.dp.tar[ap]
        read(w) == [s EXCEPT !.data = Append(@, w), !.done = @ + 1]
        next == IF ap \in s.dp.incr THEN (t \div Page) * Page + ((t + 1) % Page) ELSE t
        moved == IF v = Rd THEN [read(IF ap = MEM THEN t ELSE Top + t) EXCEPT !.dp.tar[ap] = next]
                 ELSE [s EXCEPT !.dp.tar[ap] = next, !.mem = IF ap = MEM THEN [@ EXCEPT ![t] = v] ELSE @, !.done = @ + 1]
    IN  IF reg = "id" THEN read(Pad)
        ELSE IF reg = "stat" THEN read(IF s.dp.sticky THEN Sticky ELSE Clean)
        ELSE IF s.dp.sticky THEN [s EXCEPT !.ack = "fault"]
        ELSE IF reg = "select" THEN [s EXCEPT !.dp.sel = v, !.done = @ + 1]
        ELSE IF reg = "csw" THEN [s EXCEPT !.dp.incr = IF v = Increment THEN @ \cup {ap} ELSE @ \ {ap}, !.done = @ + 1]
        ELSE IF reg = "tar" THEN [s EXCEPT !.dp.tar[ap] = v, !.done = @ + 1]
        ELSE IF ap = MEM /\ t \in BadWords \cup (Registers \ DOMAIN mem) \cup {Top}
        THEN IF posted THEN [moved EXCEPT !.dp.sticky = TRUE, !.mem = s.mem]
             ELSE [s EXCEPT !.dp.sticky = TRUE, !.ack = "fault"]
        ELSE moved

\* The transfer of acc, which the target stops with WAIT before access stop.
RunTransfer(acc, posted, stop) ==
    LET run[i \in 0 .. Len(acc)] ==
            IF i = 0 THEN [dp |-> dp, mem |-> mem, ack |-> "ok", data |-> <<>>, done |-> 0]
            ELSE IF run[i - 1].ack # "ok" THEN run[i - 1]
            ELSE IF i = stop THEN [run[i - 1] EXCEPT !.ack = "wait"]
            ELSE Access(run[i - 1], acc[i], posted)
    IN  run[Len(acc)]

Lost == [sel |-> MEM, incr |-> {}, tar |-> [ap \in APs |-> 0], sticky |-> FALSE]

Pending(i) == i \in DOMAIN flight /\ flight[i].ans = <<>> /\ \A j \in 1 .. i - 1 : flight[j].ans # <<>>
Answer(i, ack, done, words) ==
    flight' = [flight EXCEPT ![i].ans =
                <<[cmd |-> flight[i].pkt.cmd, ack |-> ack, done |-> done, data |-> words]>>]

\* The probe executes the oldest packet it has not answered.
Transfer(i) ==
    LET acc == flight[i].pkt.acc
    IN  /\ flight[i].pkt.cmd \in {"xfer", "block"}
        /\ IF link # "up"
           THEN Answer(i, "none", 0, <<>>) /\ UNCHANGED <<dp, mem, faults, waited>>
           ELSE \E posted \in BOOLEAN, stop \in 0 .. Len(acc) :
                LET r == RunTransfer(acc, posted, stop)
                IN  /\ stop > 0 => faults < MaxFaults /\ r.ack = "wait"
                    /\ faults' = IF stop > 0 THEN faults + 1 ELSE faults
                    /\ waited' = (waited \/ stop > 0)
                    /\ dp' = r.dp /\ mem' = r.mem
                    /\ Answer(i, r.ack, r.done, r.data)
        /\ UNCHANGED link
Abort(i) ==
    /\ flight[i].pkt.cmd = "abort"
    /\ dp' = IF link = "up" THEN [dp EXCEPT !.sticky = FALSE] ELSE dp
    /\ Answer(i, "ok", 0, <<>>)
    /\ UNCHANGED <<mem, link, faults, waited>>
LineReset(i) ==
    /\ flight[i].pkt.cmd = "swj"
    /\ link' = IF link = "stale" THEN "up" ELSE link
    /\ Answer(i, "ok", 0, <<>>)
    /\ UNCHANGED <<dp, mem, faults, waited>>
Setting(i) ==
    /\ flight[i].pkt.cmd \in {"connect", "clock", "config", "swd", "led"}
    /\ Answer(i, "ok", 0, <<>>)
    /\ UNCHANGED <<dp, mem, link, faults, waited>>
Execute ==
    /\ \E i \in DOMAIN flight : Pending(i) /\ (Transfer(i) \/ Abort(i) \/ LineReset(i) \/ Setting(i))
    /\ UNCHANGED <<host, late>>

\* A chip reset: the pins are GPIOs until the firmware has set them up again.
LinkLost ==
    /\ link = "up" /\ faults < MaxFaults
    /\ link' = "down" /\ faults' = faults + 1 /\ dp' = Lost
    /\ UNCHANGED <<host, flight, mem, late, waited>>
LinkBack ==
    /\ link = "down" /\ link' = "stale"
    /\ UNCHANGED <<host, flight, dp, mem, faults, late, waited>>

-----------------------------------------------------------------------------
\* The probe and the board are there; no tool has run yet.
Init ==
    /\ op = [name |-> "open"] /\ busy = FALSE /\ ok = FALSE
    /\ stages = <<>> /\ sent = 0 /\ got = <<>> /\ data = <<>> /\ cur = NoAp
    /\ flight = <<>> /\ dp = Lost /\ mem = [a \in 0 .. Top - 1 |-> 0]
    /\ link = "up" /\ faults = 0 /\ late = FALSE /\ waited = FALSE

Call == \E o \in Ops : Begin(o)
Host == Send \/ Recv \/ SendFails \/ Timeout
Next == Call \/ Open \/ Host \/ Execute \/ LinkLost \/ LinkBack

\* The operation and the probe go on; nobody need begin an operation.
Spec == Init /\ [][Next]_vars /\ WF_vars(Send \/ Recv) /\ WF_vars(Execute)

-----------------------------------------------------------------------------
(* Properties. *)

Asked == op.a .. op.a + op.n - 1

\* As long as no answer was left behind, the answers in the pipe are those of
\* the packets of the current call that were sent and not answered, in their
\* order, and of nothing else, through every exception, clear_errors() and
\* reconnect(): no command reads another one's answer (cmds(), _check).
InStep ==
    ~late =>
        /\ ~busy => flight = <<>>
        /\ sent - Len(got) <= PacketCount
        /\ busy => [i \in DOMAIN flight |-> flight[i].pkt] = SubSeq(Head(stages).pk, Len(got) + 1, sent)

\* An operation that reports success did what it was asked: it read the words
\* of its range in their order, or put every word of its data in its place,
\* across the pages of TAR, with whatever AP was selected before, after
\* errors, and after the port lost its settings.
WorkDone ==
    ~busy /\ ok /\ ~late =>
        /\ op.name = "read"  => data = [i \in 1 .. op.n |-> op.a + i - 1]
        /\ op.name = "write" => \A a \in Asked : mem[a] = a - op.a + 1
        /\ op.name = "batch" => data = [i \in DOMAIN op.regs |-> Top + op.regs[i]]
        /\ op.name \in {"read", "write"} => Asked \cap BadWords = {}

\* The AP the DAP remembers is the one the port has selected, and it has the
\* increment mode of that AP, whatever failed in select() and whenever the
\* port lost its settings (DAP.cur_ap).
CurApTrue ==
    ~late /\ link = "up" /\ cur # NoAp => dp.sel = cur /\ (cur \in dp.incr <=> cur = MEM)

\* A failed bus write has written a prefix of its words, each in its place,
\* unless the target answered WAIT: packets behind an error in the pipeline
\* do not write on past it.  Even after a WAIT nothing outside the range is
\* written.
WrittenPrefix ==
    ~late => \A a \in DOMAIN mem : mem[a] # 0 =>
        /\ op.name = "write" /\ a \in Asked
        /\ ~waited => \A b \in op.a .. a : mem[b] = b - op.a + 1

\* reconnect() does not succeed over a pipe that is out of step: its commands
\* and their answers do not fit as long as fewer answers were left behind than
\* it has commands before the last.
ReconnectInStep == ~busy /\ ok /\ Setup(op) => flight = <<>>

\* Every call returns, whatever fails and whatever is left in the pipe: the
\* host never waits for an answer that no packet in flight will get.
EveryCallReturns == busy ~> ~busy
=============================================================================
