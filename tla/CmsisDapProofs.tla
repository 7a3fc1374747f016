---------------------------- MODULE CmsisDapProofs ----------------------------
(***************************************************************************)
(* InStep of CmsisDap, for every size of the packets, the pages and the    *)
(* batches, every number of packets in flight and of faults.               *)
(*                                                                         *)
(* The inductive invariant Matched says more than InStep: what is in flight*)
(* are the packets sent + 1 - Len(flight) .. sent of the current stage, and*)
(* each answer bears the command of its packet.  The last conjunct is what *)
(* keeps recv() from raising half way through a stage; the sequences of    *)
(* packets are sequences because every stage an operation plans is one.    *)
(*                                                                         *)
(* ReconnectInStep speaks of the time after an answer was left behind: Pipe*)
(* keeps of Matched what is then still true, and Closes follows the        *)
(* commands of the opening exchange.                                       *)
(*                                                                         *)
(* CurApTrue needs what a whole transfer does to the port (TransferPort, by*)
(* induction over its accesses) and how far select() has come (Planned).   *)
(*                                                                         *)
(* WorkDone and WrittenPrefix need what the operation has done so far. The *)
(* stages left are the last ones of its plan (At); A[1] .. A[e] are the    *)
(* answers to the packets of the current stage that the probe has executed,*)
(* whether the host has read them or not (Come, Full); and what the answers*)
(* so far, TAR and the bus hold is given by the word that those packets    *)
(* have reached (Worded, Listed): the words before it if all of them were  *)
(* answered OK, fewer if not. What a transfer does to the bus is again an  *)
(* induction over its accesses (BlockRun, BatchRun); how a range falls into*)
(* pages and packets is arithmetic (PagesAre, ThroughIs, CutIs).           *)
(***************************************************************************)
EXTENDS CmsisDap, SequenceTheorems, FiniteSetTheorems, TLAPS

IsSeq(s) == \E S : s \in Seq(S)

StagesOK(st) == IsSeq(st) /\ \A i \in DOMAIN st : IsSeq(st[i].pk)

\* An answer bears the command of its packet.
Bears(f) == f.ans # <<>> => f.ans[1].cmd = f.pkt.cmd

Matched ==
    /\ busy \in BOOLEAN
    /\ ~busy => flight = <<>> /\ got = <<>> /\ sent = 0
    /\ busy => /\ StagesOK(stages) /\ stages # <<>>
               /\ IsSeq(flight) /\ IsSeq(got)
               /\ sent \in 0 .. Len(Head(stages).pk)
               /\ sent = Len(got) + Len(flight)
               /\ Len(flight) <= PacketCount
               /\ \A i \in 1 .. Len(flight) :
                    /\ flight[i].pkt = Head(stages).pk[Len(got) + i]
                    /\ Bears(flight[i])

IInv == late \in BOOLEAN /\ (~late => Matched)

-----------------------------------------------------------------------------
(* Sequences. *)

\* A sequence is a function on 1 .. Len.
LEMMA SeqShape ==
    ASSUME NEW s, IsSeq(s)
    PROVE  Len(s) \in Nat /\ DOMAIN s = 1 .. Len(s)
BY DEF IsSeq

\* The empty sequence, and a sequence of one stage.
LEMMA NothingSeq == IsSeq(<<>>) /\ Len(<<>>) = 0
BY EmptySeq DEF IsSeq

LEMMA SingleSeq == ASSUME NEW x PROVE IsSeq(<<x>>) /\ Len(<<x>>) = 1 /\ <<x>>[1] = x
<1>1. <<x>> \in Seq({x})
  OBVIOUS
<1> QED
  BY <1>1 DEF IsSeq

\* A function on 1 .. n is a sequence of length n.
LEMMA FunSeq ==
    ASSUME NEW n \in Nat, NEW f, f = [i \in 1 .. n |-> f[i]]
    PROVE  IsSeq(f) /\ Len(f) = n
<1> DEFINE S == {f[i] : i \in 1 .. n}
<1>1. f \in [1 .. n -> S]
  OBVIOUS
<1>2. f \in Seq(S)
  BY <1>1
<1> HIDE DEF S
<1>3. Len(f) = n
  BY <1>1, <1>2
<1> QED
  BY <1>2, <1>3 DEF IsSeq

\* Append, Tail and concatenation.
LEMMA AppendSeq ==
    ASSUME NEW s, IsSeq(s), NEW x
    PROVE  /\ IsSeq(Append(s, x)) /\ Len(Append(s, x)) = Len(s) + 1
           /\ \A i \in 1 .. Len(s) : Append(s, x)[i] = s[i]
           /\ Append(s, x)[Len(s) + 1] = x
<1>1. PICK S : s \in Seq(S)
  BY DEF IsSeq
<1> DEFINE T == S \cup {x}
<1>2. s \in Seq(T) /\ x \in T
  BY <1>1
<1> HIDE DEF T
<1>3. Append(s, x) \in Seq(T)
  BY <1>2
<1> QED
  BY <1>2, <1>3 DEF IsSeq

LEMMA TailSeq ==
    ASSUME NEW s, IsSeq(s), s # <<>>
    PROVE  /\ IsSeq(Tail(s)) /\ Len(Tail(s)) = Len(s) - 1 /\ Len(s) > 0
           /\ \A i \in 1 .. Len(s) - 1 : Tail(s)[i] = s[i + 1]
           /\ Head(s) = s[1]
<1>1. PICK S : s \in Seq(S)
  BY DEF IsSeq
<1> QED
  BY <1>1 DEF IsSeq

LEMMA ConcatSeq ==
    ASSUME NEW s, NEW t, IsSeq(s), IsSeq(t)
    PROVE  /\ IsSeq(s \o t) /\ Len(s \o t) = Len(s) + Len(t)
           /\ \A i \in 1 .. Len(s) : (s \o t)[i] = s[i]
           /\ \A i \in 1 .. Len(t) : (s \o t)[Len(s) + i] = t[i]
<1>1. PICK S, T : s \in Seq(S) /\ t \in Seq(T)
  BY DEF IsSeq
<1> DEFINE U == S \cup T
<1>2. s \in Seq(U) /\ t \in Seq(U)
  BY <1>1
<1> HIDE DEF U
<1>3. s \o t \in Seq(U)
  BY <1>2
<1> QED
  BY <1>2, <1>3 DEF IsSeq


\* A function on 1 .. n is a sequence even when n is negative: it is empty.
LEMMA IntFunSeq ==
    ASSUME NEW n \in Int, NEW f, f = [i \in 1 .. n |-> f[i]]
    PROVE  IsSeq(f)
<1>1. CASE n >= 0
  <2> QED
    BY <1>1, FunSeq
<1>2. CASE n < 0
  <2>1. 1 .. n = 1 .. 0
    BY <1>2
  <2>2. f = [i \in 1 .. 0 |-> f[i]]
    BY <2>1
  <2> QED
    BY <2>2, FunSeq
<1> QED
  BY <1>1, <1>2

-----------------------------------------------------------------------------
(* What an operation plans. *)

LEMMA SingleOK == ASSUME NEW p PROVE IsSeq(Single(p).pk) /\ Single(p).pk = <<p>>
BY SingleSeq DEF Single, Stage

LEMMA NoStagesOK == StagesOK(<<>>)
<1>1. DOMAIN <<>> = {}
  BY NothingSeq, SeqShape
<1> QED
  BY <1>1, NothingSeq DEF StagesOK

LEMMA OneStageOK ==
    ASSUME NEW s, IsSeq(s.pk)
    PROVE  StagesOK(<<s>>) /\ <<s>> # <<>> /\ Head(<<s>>) = s
<1>1. IsSeq(<<s>>) /\ Len(<<s>>) = 1 /\ <<s>>[1] = s
  BY SingleSeq
<1>2. DOMAIN <<s>> = {1}
  BY <1>1, SeqShape
<1> QED
  BY <1>1, <1>2 DEF StagesOK

LEMMA ClearErrorsOK == StagesOK(<<ClearErrors>>) /\ <<ClearErrors>> # <<>> /\ Head(<<ClearErrors>>) = ClearErrors
<1>1. ClearErrors.pk = Single(Packet("abort", <<>>)).pk
  BY DEF ClearErrors, Single, Stage
<1>2. IsSeq(ClearErrors.pk)
  BY <1>1, SingleOK
<1> QED
  BY <1>2, OneStageOK

LEMMA ConcatOK ==
    ASSUME NEW s, NEW t, StagesOK(s), StagesOK(t)
    PROVE  StagesOK(s \o t)
<1>1. IsSeq(s) /\ IsSeq(t)
  BY DEF StagesOK
<1>2. IsSeq(s \o t)
  BY <1>1, ConcatSeq
<1>3. ASSUME NEW i \in DOMAIN (s \o t) PROVE IsSeq((s \o t)[i].pk)
  <2>1. i \in 1 .. Len(s) + Len(t) /\ Len(s) \in Nat /\ Len(t) \in Nat
    BY <1>1, <1>2, SeqShape, ConcatSeq
  <2>2. CASE i \in 1 .. Len(s)
    <3>1. (s \o t)[i] = s[i] /\ i \in DOMAIN s
      BY <1>1, <2>2, ConcatSeq, SeqShape
    <3> QED
      BY <3>1 DEF StagesOK
  <2>3. CASE i \notin 1 .. Len(s)
    <3>1. i - Len(s) \in 1 .. Len(t) /\ i = Len(s) + (i - Len(s))
      BY <2>1, <2>3
    <3>2. (s \o t)[i] = t[i - Len(s)] /\ i - Len(s) \in DOMAIN t
      BY <1>1, <3>1, ConcatSeq, SeqShape
    <3> QED
      BY <3>2 DEF StagesOK
  <2> QED
    BY <2>2, <2>3
<1> QED
  BY <1>2, <1>3 DEF StagesOK

LEMMA TailOK ==
    ASSUME NEW s, StagesOK(s), s # <<>>, Len(s) > 1
    PROVE  StagesOK(Tail(s)) /\ Tail(s) # <<>>
<1>1. IsSeq(s)
  BY DEF StagesOK
<1>2. IsSeq(Tail(s)) /\ Len(Tail(s)) = Len(s) - 1 /\ Len(s) \in Nat
  BY <1>1, TailSeq, SeqShape
<1>3. DOMAIN Tail(s) = 1 .. Len(s) - 1 /\ DOMAIN s = 1 .. Len(s)
  BY <1>1, <1>2, SeqShape
<1>4. \A i \in 1 .. Len(s) - 1 : Tail(s)[i] = s[i + 1] /\ i + 1 \in 1 .. Len(s)
  BY <1>1, <1>2, TailSeq
<1>5. Tail(s) # <<>>
  BY <1>2, NothingSeq
<1> QED
  BY <1>2, <1>3, <1>4, <1>5 DEF StagesOK

LEMMA SelectOK == ASSUME NEW ap PROVE StagesOK(SelectAp(ap)) /\ StagesOK(Select(ap))
<1> DEFINE x == Single(Xfer("select", ap))
           y == [Single(Xfer("csw", IF ap = MEM THEN Increment ELSE Fixed)) EXCEPT !.then = ap]
<1>1. IsSeq(x.pk)
  BY SingleOK
<1>2. IsSeq(y.pk)
  <2>1. y.pk = Single(Xfer("csw", IF ap = MEM THEN Increment ELSE Fixed)).pk
    BY DEF Single, Stage
  <2> QED
    BY <2>1, SingleOK
<1>3. SelectAp(ap) = <<x, y>>
  BY DEF SelectAp
<1> HIDE DEF x, y
<1>4. <<x, y>> \in Seq({x, y})
  OBVIOUS
<1>5. StagesOK(<<x, y>>)
  <2>1. DOMAIN <<x, y>> = {1, 2} /\ <<x, y>>[1] = x /\ <<x, y>>[2] = y
    OBVIOUS
  <2> QED
    BY <1>1, <1>2, <1>4, <2>1 DEF StagesOK, IsSeq
<1> QED
  BY <1>3, <1>5, NoStagesOK DEF Select

LEMMA CeilInt == ASSUME NEW n \in Int, NEW k \in Nat \ {0} PROVE Ceil(n, k) \in Int
BY DEF Ceil

LEMMA RepeatOK ==
    ASSUME NEW o, NEW lo \in Int, NEW hi \in Int
    PROVE  IsSeq(Repeat(o, lo, hi).pk)
<1> DEFINE n == Ceil(hi - lo, Chunk)
           pk(p) == LET from == lo + (p - 1) * Chunk
                    IN  Packet("block", [j \in 1 .. Least(Chunk, hi - from) |-> Word(o, from + j - 1)])
           f == [p \in 1 .. n |-> pk(p)]
<1>1. n \in Int
  BY CeilInt, SizesAssumption
<1>2. Repeat(o, lo, hi).pk = f
  BY DEF Repeat, Stage
<1> HIDE DEF n, pk
<1>3. f = [p \in 1 .. n |-> f[p]]
  OBVIOUS
<1> HIDE DEF f
<1> QED
  BY <1>1, <1>2, <1>3, IntFunSeq

LEMMA TransfersOK ==
    ASSUME NEW o, o.a \in Int, o.n \in Int
    PROVE  StagesOK(Transfers(o))
<1> DEFINE first == o.a \div Page
           k == (o.a + o.n - 1) \div Page - first + 1
           lo(i) == Largest(o.a, (first + i - 1) * Page)
           hi(i) == Least(o.a + o.n, (first + i) * Page)
           tar(i)   == Single(Xfer("tar", lo(i)))
           words(i) == Repeat(o, lo(i), hi(i))
           f == [j \in 1 .. 2 * k |-> IF j % 2 = 1 THEN tar((j + 1) \div 2) ELSE words(j \div 2)]
<1>1. Page \in Nat \ {0}
  BY SizesAssumption
<1>2. first \in Int /\ k \in Int
  BY <1>1
<1>3. Transfers(o) = f
  BY DEF Transfers, Flatten2
<1>4. ASSUME NEW i \in Int PROVE lo(i) \in Int /\ hi(i) \in Int
  <2> HIDE DEF first
  <2>1. first \in Int
    BY <1>2 DEF first
  <2>2. (first + i - 1) * Page \in Int /\ (first + i) * Page \in Int
    BY <1>1, <2>1
  <2> QED
    BY <2>2 DEF Least, Largest
<1>5. ASSUME NEW i \in Int PROVE IsSeq(tar(i).pk) /\ IsSeq(words(i).pk)
  <2> HIDE DEF lo, hi
  <2>1. lo(i) \in Int /\ hi(i) \in Int
    BY <1>4
  <2> QED
    BY <2>1, SingleOK, RepeatOK
<1> HIDE DEF first, k, lo, hi, tar, words
<1>6. 2 * k \in Int
  BY <1>2
<1>7. f = [j \in 1 .. 2 * k |-> f[j]]
  OBVIOUS
<1>8. IsSeq(f)
  <2> HIDE DEF f
  <2> QED
    BY <1>6, <1>7, IntFunSeq
<1>9. ASSUME NEW j \in DOMAIN f PROVE IsSeq(f[j].pk)
  <2>1. j \in 1 .. 2 * k /\ j \in Int
    BY <1>6
  <2>2. (j + 1) \div 2 \in Int /\ j \div 2 \in Int
    BY <2>1
  <2>3. f[j] = tar((j + 1) \div 2) \/ f[j] = words(j \div 2)
    BY <2>1
  <2> QED
    BY <1>5, <2>2, <2>3
<1> QED
  BY <1>3, <1>8, <1>9 DEF StagesOK

LEMMA BatchOK == ASSUME NEW o, IsSeq(o.regs) PROVE IsSeq(BatchOf(o).pk)
<1> DEFINE tar(i) == <<"tar", o.regs[i]>>
           drw(i) == <<"drw", Rd>>
           acc == [j \in 1 .. 2 * Len(o.regs) |-> IF j % 2 = 1 THEN tar((j + 1) \div 2) ELSE drw(j \div 2)]
           n == Ceil(Len(acc), Batch)
           pk(p) == Packet("xfer", SubSeq(acc, (p - 1) * Batch + 1, Least(p * Batch, Len(acc))))
           f == [p \in 1 .. n |-> pk(p)]
<1>1. BatchOf(o).pk = f
  BY DEF BatchOf, Stage, Flatten2
<1>2. 2 * Len(o.regs) \in Nat
  BY SeqShape
<1>3. Len(acc) \in Nat
  <2>1. acc = [j \in 1 .. 2 * Len(o.regs) |-> acc[j]]
    OBVIOUS
  <2> HIDE DEF acc
  <2> QED
    BY <1>2, <2>1, FunSeq
<1> HIDE DEF acc
<1>4. n \in Int
  BY <1>3, CeilInt, SizesAssumption
<1> HIDE DEF n, pk
<1>5. f = [p \in 1 .. n |-> f[p]]
  OBVIOUS
<1> HIDE DEF f
<1> QED
  BY <1>1, <1>4, <1>5, IntFunSeq

LEMMA InitSwdOK == StagesOK(InitSwd) /\ InitSwd # <<>>
<1> DEFINE S(p) == Single(p)
           a == S(Packet("connect", <<>>))
           b == S(Packet("clock", <<>>))
           c == S(Packet("config", <<>>))
           d == S(Packet("swd", <<>>))
           e == S(Packet("swj", <<>>))
           f == S(Xfer("id", Rd))
           g == S(Packet("led", <<>>))
<1>1. \A x \in {a, b, c, d, e, f, ClearErrors, g} : IsSeq(x.pk)
  <2>1. ClearErrors.pk = Single(Packet("abort", <<>>)).pk
    BY DEF ClearErrors, Single, Stage
  <2> QED
    BY <2>1, SingleOK
<1>2. InitSwd = <<a, b, c, d, e, e, e, e, f, ClearErrors, g>>
  BY DEF InitSwd
<1> HIDE DEF a, b, c, d, e, f, g
<1> DEFINE T == {a, b, c, d, e, f, ClearErrors, g}
<1>3. InitSwd \in Seq(T)
  BY <1>2
<1>4. \A i \in DOMAIN InitSwd : InitSwd[i] \in T
  BY <1>3, ElementOfSeq, LenProperties
<1>5. InitSwd # <<>>
  BY <1>2
<1> QED
  BY <1>1, <1>3, <1>4, <1>5 DEF StagesOK, IsSeq

LEMMA PlanOK ==
    ASSUME NEW o \in Ops
    PROVE  StagesOK(Plan(o)) /\ Plan(o) # <<>>
<1>1. CASE o.name \in {"read", "write"}
  <2>1. o.a \in Int /\ o.n \in Int
    BY <1>1, SizesAssumption DEF Ops
  <2>2. StickyError.pk = Single(Xfer("stat", Rd)).pk
    BY DEF StickyError, Single, Stage
  <2>3. StagesOK(<<StickyError>>) /\ Len(<<StickyError>>) = 1
    BY <2>2, SingleOK, OneStageOK, SingleSeq
  <2>4. StagesOK(Select(MEM) \o Transfers(o))
    BY <2>1, SelectOK, TransfersOK, ConcatOK
  <2> DEFINE x == Select(MEM) \o Transfers(o)
  <2>5. Plan(o) = x \o <<StickyError>>
    BY <1>1 DEF Plan
  <2> HIDE DEF x
  <2>6. StagesOK(x \o <<StickyError>>)
    BY <2>3, <2>4, ConcatOK DEF x
  <2>7. Len(x \o <<StickyError>>) = Len(x) + 1 /\ Len(x) \in Nat
    BY <2>3, <2>4, ConcatSeq, SeqShape DEF StagesOK, x
  <2> QED
    BY <2>5, <2>6, <2>7, NothingSeq
<1>2. CASE o.name = "batch"
  <2>1. IsSeq(o.regs)
    <3>1. o.regs \in UNION {[1 .. k -> Registers] : k \in 1 .. 2}
      BY <1>2 DEF Ops
    <3>2. PICK k \in 1 .. 2 : o.regs \in [1 .. k -> Registers]
      BY <3>1
    <3>3. o.regs \in Seq(Registers)
      BY <3>2
    <3> QED
      BY <3>3 DEF IsSeq
  <2> DEFINE x == Select(DM)
             y == <<BatchOf(o)>>
  <2>2. StagesOK(y) /\ Len(y) = 1
    BY <2>1, BatchOK, OneStageOK, SingleSeq
  <2>3. StagesOK(x)
    BY SelectOK
  <2>4. Plan(o) = x \o y
    BY <1>2 DEF Plan
  <2> HIDE DEF x, y
  <2>5. StagesOK(x \o y)
    BY <2>2, <2>3, ConcatOK
  <2>6. IsSeq(x) /\ IsSeq(y)
    BY <2>2, <2>3 DEF StagesOK
  <2>7. Len(x \o y) = Len(x) + 1 /\ Len(x) \in Nat
    <3>1. Len(x) \in Nat
      BY <2>6, SeqShape
    <3>2. Len(x \o y) = Len(x) + Len(y)
      BY <2>6, ConcatSeq
    <3> QED
      BY <2>2, <3>1, <3>2
  <2> QED
    BY <2>4, <2>5, <2>7, NothingSeq
<1>3. CASE o.name \notin {"read", "write", "batch"}
  BY <1>3, InitSwdOK DEF Plan
<1> QED
  BY <1>1, <1>2, <1>3

LEMMA FirstOK ==
    ASSUME NEW st, StagesOK(st), st # <<>>
    PROVE  IsSeq(Head(st).pk)
<1>1. IsSeq(st) /\ DOMAIN st = 1 .. Len(st) /\ Len(st) \in Nat
  BY SeqShape DEF StagesOK
<1>2. Head(st) = st[1] /\ Len(st) > 0
  BY <1>1, TailSeq
<1> QED
  BY <1>1, <1>2 DEF StagesOK

-----------------------------------------------------------------------------
(* The steps. *)

\* Nothing is in flight and the operation goes on with a new stage, or ends.
LEMMA Restart ==
    ASSUME StagesOK(stages'), stages' # <<>>, busy' \in BOOLEAN,
           sent' = 0, got' = <<>>, flight' = <<>>
    PROVE  Matched'
<1>3. IsSeq(Head(stages').pk)
  BY FirstOK
<1>4. Len(Head(stages').pk) \in Nat
  BY <1>3, SeqShape
<1> QED
  BY <1>4, NothingSeq, SizesAssumption DEF Matched

LEMMA Ended ==
    ASSUME busy' = FALSE, flight' = <<>>, got' = <<>>, sent' = 0
    PROVE  Matched'
BY DEF Matched

\* A stage that ends with nothing in flight, whether it raises or not.
LEMMA RaiseOK ==
    ASSUME Matched, busy, Raise \/ ClearAndRaise, flight' = <<>>
    PROVE  Matched'
<1>1. CASE ClearAndRaise
  BY <1>1, ClearErrorsOK, Restart DEF ClearAndRaise, Matched
<1>2. CASE Raise
  <2>1. CASE Head(stages).soft /\ Len(stages) > 1
    <3>1. stages' = Tail(stages) /\ sent' = 0 /\ got' = <<>> /\ busy' = busy
      BY <1>2, <2>1 DEF Raise, GoOn
    <3>2. StagesOK(Tail(stages)) /\ Tail(stages) # <<>>
      BY <2>1, TailOK DEF Matched
    <3> QED
      BY <3>1, <3>2, Restart DEF Matched
  <2>2. CASE ~(Head(stages).soft /\ Len(stages) > 1)
    <3>1. busy' = FALSE /\ got' = <<>> /\ sent' = 0
      BY <1>2, <2>2 DEF Raise, End
    <3> QED
      BY <3>1, Ended
  <2> QED
    BY <2>1, <2>2
<1> QED
  BY <1>1, <1>2

LEMMA StartOK ==
    ASSUME NEW o \in Ops, Start(o), flight' = <<>>
    PROVE  Matched'
<1>1. StagesOK(stages') /\ stages' # <<>>
  BY PlanOK DEF Start
<1> QED
  BY <1>1, Restart DEF Start

LEMMA OpenIsOp == [name |-> "open"] \in Ops /\ [name |-> "open"].name = "open"
BY DEF Ops

LEMMA SendOK == ASSUME Matched, Send PROVE Matched'
<1> DEFINE pk == Head(stages).pk
           new == [pkt |-> pk[sent + 1], ans |-> <<>>]
<1>1. busy /\ sent < Len(pk) /\ sent - Len(got) < PacketCount /\ sent' = sent + 1
      /\ flight' = Append(flight, new) /\ stages' = stages /\ got' = got /\ busy' = busy
  BY DEF Send, MaySend
<1>2. /\ IsSeq(Append(flight, new)) /\ Len(Append(flight, new)) = Len(flight) + 1
      /\ \A i \in 1 .. Len(flight) : Append(flight, new)[i] = flight[i]
      /\ Append(flight, new)[Len(flight) + 1] = new
  BY <1>1, AppendSeq DEF Matched
<1>3. Len(flight) \in Nat /\ Len(got) \in Nat
  BY <1>1, SeqShape DEF Matched
<1>4. IsSeq(pk)
  BY <1>1, FirstOK DEF Matched
<1>5. Len(pk) \in Nat
  BY <1>4, SeqShape
<1>6. Bears(new) /\ new.pkt = pk[Len(got) + (Len(flight) + 1)]
  <2>1. sent + 1 = Len(got) + (Len(flight) + 1)
    BY <1>1, <1>3 DEF Matched
  <2>2. new.ans = <<>> /\ new.pkt = pk[sent + 1]
    OBVIOUS
  <2> QED
    BY <2>1, <2>2 DEF Bears
<1> HIDE DEF pk, new
<1>7. \A i \in 1 .. Len(flight) + 1 :
        flight'[i].pkt = pk[Len(got) + i] /\ Bears(flight'[i])
  <2> SUFFICES ASSUME NEW i \in 1 .. Len(flight) + 1
               PROVE  flight'[i].pkt = pk[Len(got) + i] /\ Bears(flight'[i])
    OBVIOUS
  <2>1. CASE i = Len(flight) + 1
    BY <1>1, <1>2, <1>6, <2>1
  <2>2. CASE i # Len(flight) + 1
    <3>1. i \in 1 .. Len(flight)
      BY <1>3, <2>2
    <3>2. flight'[i] = flight[i]
      BY <1>1, <1>2, <3>1
    <3>3. flight[i].pkt = pk[Len(got) + i] /\ Bears(flight[i])
      BY <1>1, <3>1 DEF Matched, pk
    <3> QED
      BY <3>2, <3>3
  <2> QED
    BY <2>1, <2>2
<1>8. Head(stages').pk = pk
  BY <1>1 DEF pk
<1>9. Len(flight') = Len(flight) + 1 /\ IsSeq(flight')
  BY <1>1, <1>2
<1>10. sent' \in 0 .. Len(pk) /\ sent' = Len(got') + Len(flight') /\ Len(flight') <= PacketCount
  BY <1>1, <1>3, <1>5, <1>9, SizesAssumption DEF Matched, pk
<1> QED
  BY <1>1, <1>7, <1>8, <1>9, <1>10 DEF Matched

LEMMA JudgeOK ==
    ASSUME Matched, busy, NEW all, Judge(all), flight' = <<>>
    PROVE  Matched'
<1>1. \/ Raise \/ ClearAndRaise
      \/ IF Len(stages) = 1 THEN End(ok) ELSE GoOn(Tail(stages))
  BY DEF Judge, Checked
<1>2. CASE Raise \/ ClearAndRaise
  BY <1>2, RaiseOK
<1>3. CASE Len(stages) = 1 /\ End(ok)
  BY <1>3, Ended DEF End
<1>4. CASE Len(stages) # 1 /\ GoOn(Tail(stages))
  <2>1. Len(stages) > 1
    <3>1. IsSeq(stages) /\ stages # <<>> /\ Len(stages) \in Nat
      BY SeqShape DEF Matched, StagesOK
    <3>2. Len(stages) > 0
      BY <3>1, TailSeq
    <3>3. Len(stages) # 1
      BY <1>4
    <3>4. \A n \in Nat : n > 0 /\ n # 1 => n > 1
      OBVIOUS
    <3> QED
      BY <3>1, <3>2, <3>3, <3>4
  <2>2. StagesOK(Tail(stages)) /\ Tail(stages) # <<>>
    BY <2>1, TailOK DEF Matched
  <2> QED
    BY <1>4, <2>2, Restart DEF GoOn, Matched
<1> QED
  BY <1>1, <1>2, <1>3, <1>4

LEMMA RecvOK == ASSUME Matched, Recv PROVE Matched'
<1> DEFINE pk == Head(stages).pk
           ans == flight[1].ans[1]
           all == Append(got, ans)
<1>1. /\ busy /\ flight # <<>> /\ flight[1].ans # <<>> /\ flight' = Tail(flight)
      /\ IF ~Fits(ans, pk[Len(all)]) THEN Raise /\ UNCHANGED cur
         ELSE IF AllCome(all) THEN Judge(all)
         ELSE got' = all /\ UNCHANGED <<busy, ok, stages, sent, data, cur>>
  BY DEF Recv, Answered
<1>2. IsSeq(flight) /\ IsSeq(got) /\ sent \in 0 .. Len(pk) /\ sent = Len(got) + Len(flight)
  BY <1>1 DEF Matched
<1>3. Len(flight) \in Nat /\ Len(got) \in Nat
  BY <1>2, SeqShape
<1>4. /\ IsSeq(Tail(flight)) /\ Len(Tail(flight)) = Len(flight) - 1 /\ Len(flight) > 0
      /\ \A i \in 1 .. Len(flight) - 1 : Tail(flight)[i] = flight[i + 1]
  BY <1>1, <1>2, TailSeq
<1>5. IsSeq(all) /\ Len(all) = Len(got) + 1
  <2> HIDE DEF ans
  <2> QED
    BY <1>2, AppendSeq
<1>6. Fits(ans, pk[Len(all)])
  <2>1. flight[1].pkt = pk[Len(got) + 1] /\ Bears(flight[1])
    BY <1>1, <1>3, <1>4 DEF Matched
  <2> QED
    BY <1>1, <1>5, <2>1 DEF Fits, Bears
<1> HIDE DEF ans, all
<1>7. CASE AllCome(all)
  <2>1. Len(all) = Len(pk)
    BY <1>7 DEF AllCome, pk
  <2>2. Len(Tail(flight)) = 0
    <3>1. Len(pk) = Len(got) + 1
      BY <1>5, <2>1
    <3> HIDE DEF pk
    <3>2. Len(got) + Len(flight) <= Len(got) + 1
      BY <1>2, <3>1
    <3>3. Len(flight) = 1
      BY <1>3, <1>4, <3>2
    <3> QED
      BY <1>4, <3>3
  <2>3. Tail(flight) = <<>>
    <3>1. PICK T : Tail(flight) \in Seq(T)
      BY <1>4 DEF IsSeq
    <3> QED
      BY <2>2, <3>1, EmptySeq
  <2> QED
    BY <1>1, <1>6, <1>7, <2>3, JudgeOK
<1>8. CASE ~AllCome(all)
  <2>1. got' = all /\ busy' = busy /\ stages' = stages /\ sent' = sent
    BY <1>1, <1>6, <1>8
  <2>2. Head(stages').pk = pk
    BY <2>1 DEF pk
  <2>3. \A i \in 1 .. Len(flight') :
          flight'[i].pkt = pk[Len(got') + i] /\ Bears(flight'[i])
    <3> SUFFICES ASSUME NEW i \in 1 .. Len(flight')
                 PROVE  flight'[i].pkt = pk[Len(got') + i] /\ Bears(flight'[i])
      OBVIOUS
    <3>1. i \in 1 .. Len(flight) - 1
      BY <1>1, <1>4
    <3>2. flight'[i] = flight[i + 1] /\ i + 1 \in 1 .. Len(flight)
      BY <1>1, <1>3, <1>4, <3>1
    <3>3. flight[i + 1].pkt = pk[Len(got) + (i + 1)] /\ Bears(flight[i + 1])
      BY <1>1, <3>2 DEF Matched, pk
    <3>4. Len(got) + (i + 1) = Len(got') + i
      BY <1>3, <1>5, <2>1, <3>1
    <3> QED
      BY <3>2, <3>3, <3>4
  <2>4. sent' \in 0 .. Len(pk) /\ sent' = Len(got') + Len(flight') /\ Len(flight') <= PacketCount
    <3>1. Len(flight') = Len(flight) - 1 /\ Len(flight) <= PacketCount
      BY <1>1, <1>4 DEF Matched
    <3>2. Len(got') = Len(got) + 1
      BY <1>5, <2>1
    <3> HIDE DEF pk
    <3>3. Len(got') + Len(flight') = Len(got) + Len(flight)
      BY <1>3, <3>1, <3>2
    <3>4. Len(flight') <= PacketCount
      BY <1>3, <3>1, SizesAssumption
    <3> QED
      BY <1>2, <2>1, <3>3, <3>4
  <2>5. busy' \in BOOLEAN /\ busy' /\ StagesOK(stages') /\ stages' # <<>> /\ IsSeq(flight') /\ IsSeq(got')
    BY <1>1, <1>4, <1>5, <2>1 DEF Matched
  <2> HIDE DEF pk
  <2> QED
    BY <2>2, <2>3, <2>4, <2>5 DEF Matched
<1> QED
  BY <1>7, <1>8

LEMMA SendFailsOK == ASSUME Matched, SendFails, ~late' PROVE Matched'
<1>1. busy /\ Raise /\ flight' = flight /\ flight = <<>>
  BY DEF SendFails
<1> QED
  BY <1>1, RaiseOK

\* An answer changes no packet and bears the command of its own.
LEMMA AnswerOK ==
    ASSUME Matched, NEW i \in DOMAIN flight, NEW ack, NEW done, NEW words,
           Answer(i, ack, done, words), UNCHANGED host
    PROVE  Matched'
<1> DEFINE new == <<[cmd |-> flight[i].pkt.cmd, ack |-> ack, done |-> done, data |-> words]>>
<1>1. flight' = [flight EXCEPT ![i].ans = new]
  BY DEF Answer
<1>2. busy
  <2>1. DOMAIN <<>> = {}
    BY NothingSeq, SeqShape
  <2> QED
    BY <2>1 DEF Matched
<1>3. IsSeq(flight)
  BY <1>2 DEF Matched
<1>4. DOMAIN flight = 1 .. Len(flight) /\ Len(flight) \in Nat
  BY <1>3, SeqShape
<1>5. new # <<>> /\ new[1].cmd = flight[i].pkt.cmd
  OBVIOUS
<1>6. PICK S : flight \in Seq(S)
  BY <1>3 DEF IsSeq
<1> HIDE DEF new
<1> DEFINE e == [flight[i] EXCEPT !.ans = new]
<1>7. flight' = [flight EXCEPT ![i] = e]
  BY <1>1
<1>8. flight \in Seq(S \cup {e}) /\ e \in S \cup {e}
  BY <1>6
<1>9. e.pkt = flight[i].pkt /\ Bears(e)
  <2>1. flight[i].pkt = Head(stages).pk[Len(got) + i]
    BY <1>2, <1>4 DEF Matched
  <2>2. e.pkt = flight[i].pkt
    OBVIOUS
  <2>3. e.ans = new \/ e.ans = flight[i].ans
    OBVIOUS
  <2>4. Bears(flight[i])
    BY <1>2, <1>4 DEF Matched
  <2> HIDE DEF e
  <2> QED
    BY <1>5, <2>2, <2>3, <2>4 DEF Bears
<1> HIDE DEF e
<1>10. /\ flight' \in Seq(S \cup {e}) /\ Len(flight') = Len(flight)
       /\ \A j \in 1 .. Len(flight) : flight'[j] = IF j = i THEN e ELSE flight[j]
  BY <1>4, <1>7, <1>8, ExceptSeq
<1>11. \A j \in 1 .. Len(flight') :
         flight'[j].pkt = Head(stages).pk[Len(got) + j] /\ Bears(flight'[j])
  BY <1>2, <1>9, <1>10 DEF Matched
<1>12. busy' = busy /\ stages' = stages /\ sent' = sent /\ got' = got
  BY DEF host
<1> QED
  BY <1>2, <1>10, <1>11, <1>12 DEF Matched, IsSeq

LEMMA ExecuteOK == ASSUME Matched, Execute PROVE Matched'
<1>1. PICK i \in DOMAIN flight : Transfer(i) \/ Abort(i) \/ LineReset(i) \/ Setting(i)
  BY DEF Execute, Pending
<1>2. UNCHANGED host
  BY DEF Execute
<1>3. \E ack, done, words : Answer(i, ack, done, words)
  <2>1. CASE Transfer(i)
    <3>1. CASE link # "up"
      <4>1. Answer(i, "none", 0, <<>>)
        BY <2>1, <3>1 DEF Transfer
      <4> QED
        BY <4>1
    <3>2. CASE link = "up"
      <4>1. \E r : Answer(i, r.ack, r.done, r.data)
        BY <2>1, <3>2 DEF Transfer
      <4> QED
        BY <4>1
    <3> QED
      BY <3>1, <3>2
  <2>2. CASE Abort(i) \/ LineReset(i) \/ Setting(i)
    <3>1. Answer(i, "ok", 0, <<>>)
      BY <2>2 DEF Abort, LineReset, Setting
    <3> QED
      BY <3>1
  <2> QED
    BY <1>1, <2>1, <2>2
<1> QED
  BY <1>2, <1>3, AnswerOK

-----------------------------------------------------------------------------
(* The invariant. *)

LEMMA MatchedSame ==
    ASSUME Matched, UNCHANGED <<host, flight>>
    PROVE  Matched'
BY DEF Matched, host

LEMMA IInvInit == Init => IInv
BY DEF Init, IInv, Matched

LEMMA IInvNext == IInv /\ [Next]_vars => IInv'
<1> SUFFICES ASSUME IInv, [Next]_vars PROVE IInv'
  OBVIOUS
<1>1. ASSUME NEW o \in Ops, Begin(o) PROVE IInv'
  <2>1. Start(o) /\ flight' = flight /\ late' = late /\ ~busy
    BY <1>1 DEF Begin
  <2>2. ~late => flight' = <<>>
    BY <2>1 DEF IInv, Matched
  <2> QED
    BY <2>1, <2>2, StartOK DEF IInv
<1>2. ASSUME Open PROVE IInv'
  <2>1. Start([name |-> "open"]) /\ flight' = Unanswered /\ late' = (Unanswered # <<>>)
    BY <1>2 DEF Open
  <2> QED
    BY <2>1, OpenIsOp, StartOK DEF IInv
<1>3. ASSUME Send PROVE IInv'
  <2>1. late' = late
    BY <1>3 DEF Send
  <2> QED
    BY <1>3, <2>1, SendOK DEF IInv
<1>4. ASSUME Recv PROVE IInv'
  <2>1. late' = late
    BY <1>4 DEF Recv
  <2> QED
    BY <1>4, <2>1, RecvOK DEF IInv
<1>5. ASSUME SendFails PROVE IInv'
  <2>1. late' \in BOOLEAN /\ (~late' => ~late)
    BY <1>5 DEF SendFails, IInv
  <2> QED
    BY <1>5, <2>1, SendFailsOK DEF IInv
<1>6. ASSUME Timeout PROVE IInv'
  BY <1>6 DEF Timeout, IInv
<1>7. ASSUME Execute PROVE IInv'
  <2>1. late' = late
    BY <1>7 DEF Execute
  <2> QED
    BY <1>7, <2>1, ExecuteOK DEF IInv
<1>8. ASSUME LinkLost \/ LinkBack \/ UNCHANGED vars PROVE IInv'
  <2>1. UNCHANGED <<host, flight>> /\ late' = late
    BY <1>8 DEF LinkLost, LinkBack, vars
  <2> QED
    BY <2>1, MatchedSame DEF IInv
<1> QED
  BY <1>1, <1>2, <1>3, <1>4, <1>5, <1>6, <1>7, <1>8 DEF Next, Call, Host

\* Matched says what InStep says.
LEMMA IInvImplies == IInv => InStep
<1> SUFFICES ASSUME IInv, ~late PROVE InStep
  BY DEF InStep
<1>1. Matched
  BY DEF IInv
<1>2. CASE ~busy
  <2>1. flight = <<>> /\ sent - Len(got) = 0
    <3>1. flight = <<>> /\ got = <<>> /\ sent = 0
      BY <1>1, <1>2 DEF Matched
    <3>2. Len(got) = 0
      BY <3>1, NothingSeq
    <3>3. \A m, n \in Int : m = 0 /\ n = 0 => m - n = 0
      OBVIOUS
    <3>4. sent \in Int /\ Len(got) \in Int /\ sent = 0
      BY <3>1, <3>2
    <3> QED
      BY <3>1, <3>2, <3>3, <3>4
  <2> QED
    BY <1>2, <2>1, SizesAssumption DEF InStep
<1>3. CASE busy
  <2> DEFINE pk == Head(stages).pk
  <2>1. Len(flight) \in Nat /\ Len(got) \in Nat /\ DOMAIN flight = 1 .. Len(flight)
    BY <1>1, <1>3, SeqShape DEF Matched
  <2>2. sent - Len(got) = Len(flight) /\ sent \in Nat
    BY <1>1, <1>3, <2>1 DEF Matched
  <2>3. SubSeq(pk, Len(got) + 1, sent) = [i \in 1 .. Len(flight) |-> pk[Len(got) + i]]
    <3> HIDE DEF pk
    <3>1. PICK S : pk \in Seq(S)
      BY <1>1, <1>3, FirstOK DEF Matched, IsSeq, pk
    <3>2. sent \in 0 .. Len(pk)
      BY <1>1, <1>3 DEF Matched, pk
    <3> QED
      BY <2>1, <2>2, <3>1, <3>2
  <2>4. [i \in DOMAIN flight |-> flight[i].pkt] = [i \in 1 .. Len(flight) |-> pk[Len(got) + i]]
    BY <1>1, <1>3, <2>1 DEF Matched
  <2> QED
    BY <1>1, <1>3, <2>2, <2>3, <2>4 DEF InStep, Matched
<1> QED
  BY <1>2, <1>3

\* As long as no answer was left behind, every answer the host reads is the one
\* of the packet it reads it for, and nothing is in flight between two calls.
THEOREM InStepAlways == Spec => []InStep
<1>1. Init => IInv
  BY IInvInit
<1>2. IInv /\ [Next]_vars => IInv'
  BY IInvNext
<1>3. IInv => InStep
  BY IInvImplies
<1> QED
  BY <1>1, <1>2, <1>3, PTL DEF Spec

-----------------------------------------------------------------------------
(* The pipe, whatever was left in it. *)

\* An answer bears the command of its packet, late or not.
Pipe ==
    /\ busy \in BOOLEAN
    /\ IsSeq(flight)
    /\ \A i \in 1 .. Len(flight) : Bears(flight[i])

LEMMA TailPipe ==
    ASSUME Pipe, flight # <<>>, busy' \in BOOLEAN, flight' = Tail(flight)
    PROVE  Pipe'
<1>1. /\ IsSeq(Tail(flight)) /\ Len(Tail(flight)) = Len(flight) - 1 /\ Len(flight) > 0 /\ Len(flight) \in Nat
      /\ \A i \in 1 .. Len(flight) - 1 : Tail(flight)[i] = flight[i + 1]
  BY TailSeq, SeqShape DEF Pipe
<1>2. \A i \in 1 .. Len(flight) - 1 : i + 1 \in 1 .. Len(flight)
  BY <1>1
<1> QED
  BY <1>1, <1>2 DEF Pipe

\* What a restart does not read away is the end of the pipe.
LEMMA UnansweredIs ==
    ASSUME IsSeq(flight)
    PROVE  /\ IsSeq(Unanswered) /\ Len(Unanswered) <= Len(flight)
           /\ \A i \in 1 .. Len(Unanswered) : \E j \in 1 .. Len(flight) : Unanswered[i] = flight[j]
<1> DEFINE A == {i \in DOMAIN flight : flight[i].ans # <<>>}
           k == Cardinality(A)
<1>1. PICK S : flight \in Seq(S)
  BY DEF IsSeq
<1>2. DOMAIN flight = 1 .. Len(flight) /\ Len(flight) \in Nat
  BY SeqShape
<1>3. k \in 0 .. Len(flight)
  <2>1. IsFiniteSet(1 .. Len(flight)) /\ Cardinality(1 .. Len(flight)) = Len(flight)
    <3>1. Cardinality(1 .. Len(flight)) = IF 1 > Len(flight) THEN 0 ELSE Len(flight) - 1 + 1
      BY <1>2, FS_Interval
    <3> QED
      BY <1>2, <3>1, FS_Interval
  <2>2. A \in SUBSET (1 .. Len(flight))
    BY <1>2
  <2> HIDE DEF A
  <2>3. IsFiniteSet(A) /\ Cardinality(A) <= Cardinality(1 .. Len(flight))
    BY <2>1, <2>2, FS_Subset
  <2>4. Cardinality(A) \in Nat
    BY <2>3, FS_CardinalityType
  <2> QED
    BY <1>2, <2>1, <2>3, <2>4
<1>4. Unanswered = SubSeq(flight, k + 1, Len(flight))
  BY DEF Unanswered
<1> HIDE DEF k, A
<1> DEFINE u == SubSeq(flight, k + 1, Len(flight))
<1>5. u \in Seq(S)
  BY <1>1, <1>2, <1>3
<1>6. Len(u) = Len(flight) - k
  <2>1. k + 1 \in Int /\ Len(flight) \in Int /\ \A i \in k + 1 .. Len(flight) : flight[i] \in S
    BY <1>1, <1>2, <1>3
  <2>2. Len(u) = IF k + 1 <= Len(flight) THEN Len(flight) - (k + 1) + 1 ELSE 0
    <3> DEFINE a == k + 1
               b == Len(flight)
    <3>1. a \in Int /\ b \in Int /\ \A i \in a .. b : flight[i] \in S
      BY <2>1
    <3> HIDE DEF a, b
    <3>2. Len(SubSeq(flight, a, b)) = IF a <= b THEN b - a + 1 ELSE 0
      BY <3>1, SubSeqProperties
    <3> QED
      BY <3>2 DEF a, b
  <2> HIDE DEF u
  <2> DEFINE n == Len(flight)
  <2>3. n \in Nat /\ k \in 0 .. n /\ Len(u) = IF k + 1 <= n THEN n - (k + 1) + 1 ELSE 0
    BY <1>2, <1>3, <2>2
  <2> HIDE DEF n
  <2>4. Len(u) = n - k
    BY <2>3
  <2> QED
    BY <2>4 DEF n
<1>7. ASSUME NEW i \in 1 .. Len(flight) - k PROVE u[i] = flight[k + i] /\ k + i \in 1 .. Len(flight)
  <2>1. i \in Nat /\ i >= 1 /\ i <= Len(flight) - k /\ k \in Nat /\ Len(flight) \in Nat
    BY <1>2, <1>3
  <2>2. u[i] = flight[i + (k + 1) - 1]
    BY <1>1, <2>1
  <2>3. i + (k + 1) - 1 = k + i /\ k + i \in 1 .. Len(flight)
    BY <2>1
  <2> QED
    BY <2>2, <2>3
<1>8. Unanswered = u
  BY <1>4
<1> HIDE DEF u
<1>9. Len(u) <= Len(flight)
  BY <1>2, <1>3, <1>6
<1>10. \A i \in 1 .. Len(u) : \E j \in 1 .. Len(flight) : u[i] = flight[j]
  BY <1>6, <1>7
<1> QED
  BY <1>5, <1>8, <1>9, <1>10 DEF IsSeq

LEMMA SendPipe ==
    ASSUME Pipe, Send
    PROVE  /\ Pipe'
           /\ \A i \in 1 .. Len(flight) : flight'[i] = flight[i]
           /\ Len(flight') = Len(flight) + 1
           /\ flight'[Len(flight) + 1] = [pkt |-> Head(stages).pk[sent + 1], ans |-> <<>>]
<1> DEFINE new == [pkt |-> Head(stages).pk[sent + 1], ans |-> <<>>]
<1>1. flight' = Append(flight, new) /\ busy' = busy
  BY DEF Send
<1>2. Bears(new)
  BY DEF Bears
<1> HIDE DEF new
<1>3. /\ IsSeq(flight') /\ Len(flight') = Len(flight) + 1
      /\ \A i \in 1 .. Len(flight) : flight'[i] = flight[i]
      /\ flight'[Len(flight) + 1] = new
  BY <1>1, AppendSeq DEF Pipe
<1>4. Len(flight) \in Nat
  BY SeqShape DEF Pipe
<1>5. \A i \in 1 .. Len(flight) + 1 : i \in 1 .. Len(flight) \/ i = Len(flight) + 1
  BY <1>4
<1>6. \A i \in 1 .. Len(flight') : Bears(flight'[i])
  BY <1>2, <1>3, <1>5 DEF Pipe
<1> QED
  BY <1>1, <1>3, <1>6 DEF Pipe, new

\* An answer changes no packet and no other answer.
LEMMA AnswerPipe ==
    ASSUME Pipe, NEW i \in DOMAIN flight, NEW ack, NEW done, NEW words,
           Answer(i, ack, done, words), UNCHANGED host
    PROVE  /\ Pipe'
           /\ i \in 1 .. Len(flight) /\ Len(flight') = Len(flight)
           /\ \A j \in 1 .. Len(flight) : flight'[j].pkt = flight[j].pkt
           /\ \/ flight'[i].ans = flight[i].ans
              \/ flight'[i].ans # <<>> /\ flight'[i].ans[1].ack = ack
<1> DEFINE new == <<[cmd |-> flight[i].pkt.cmd, ack |-> ack, done |-> done, data |-> words]>>
           e == [flight[i] EXCEPT !.ans = new]
<1>1. flight' = [flight EXCEPT ![i] = e]
  BY DEF Answer
<1>2. PICK S : flight \in Seq(S)
  BY DEF Pipe, IsSeq
<1>3. DOMAIN flight = 1 .. Len(flight) /\ Len(flight) \in Nat
  BY SeqShape DEF Pipe
<1>4. new # <<>> /\ new[1].cmd = flight[i].pkt.cmd /\ new[1].ack = ack
  OBVIOUS
<1> HIDE DEF new
<1>5. e.pkt = flight[i].pkt /\ (e.ans = new \/ e.ans = flight[i].ans)
  OBVIOUS
<1> HIDE DEF e
<1>6. flight \in Seq(S \cup {e}) /\ e \in S \cup {e}
  BY <1>2
<1>7. /\ flight' \in Seq(S \cup {e}) /\ Len(flight') = Len(flight)
      /\ \A j \in 1 .. Len(flight) : flight'[j] = IF j = i THEN e ELSE flight[j]
  BY <1>1, <1>3, <1>6, ExceptSeq
<1>8. Bears(flight[i])
  BY <1>3 DEF Pipe
<1>9. Bears(e)
  BY <1>4, <1>5, <1>8 DEF Bears
<1>10. \A j \in 1 .. Len(flight') : Bears(flight'[j])
  BY <1>7, <1>9 DEF Pipe
<1>11. busy' = busy
  BY DEF host
<1>12. Pipe'
  BY <1>7, <1>10, <1>11 DEF Pipe, IsSeq
<1> QED
  BY <1>3, <1>4, <1>5, <1>7, <1>12

\* Executing a packet answers it.
LEMMA ExecutePipe ==
    ASSUME Pipe, Execute
    PROVE  /\ Pipe' /\ UNCHANGED host /\ late' = late
           /\ Len(flight') = Len(flight)
           /\ \A j \in 1 .. Len(flight) : flight'[j].pkt = flight[j].pkt
<1>1. PICK i \in DOMAIN flight : Transfer(i) \/ Abort(i) \/ LineReset(i) \/ Setting(i)
  BY DEF Execute, Pending
<1>2. UNCHANGED host /\ late' = late
  BY DEF Execute
<1>3. \E ack, done, words : Answer(i, ack, done, words)
  <2>1. CASE Transfer(i)
    <3>1. CASE link # "up"
      <4>1. Answer(i, "none", 0, <<>>)
        BY <2>1, <3>1 DEF Transfer
      <4> QED
        BY <4>1
    <3>2. CASE link = "up"
      <4>1. \E r : Answer(i, r.ack, r.done, r.data)
        BY <2>1, <3>2 DEF Transfer
      <4> QED
        BY <4>1
    <3> QED
      BY <3>1, <3>2
  <2>2. CASE Abort(i) \/ LineReset(i) \/ Setting(i)
    <3>1. Answer(i, "ok", 0, <<>>)
      BY <2>2 DEF Abort, LineReset, Setting
    <3> QED
      BY <3>1
  <2> QED
    BY <1>1, <2>1, <2>2
<1> QED
  BY <1>2, <1>3, AnswerPipe

-----------------------------------------------------------------------------
(* reconnect() over a pipe that is out of step. *)

\* d commands of _init_swd are done.  Each takes an answer out of the pipe, so an
\* answer to the last kind of command that was there before is now among the
\* first MaxLeft - d; or it is the one to the last command itself.
Opening(d) ==
    /\ IsSeq(stages) /\ Len(stages) = 11 - d
    /\ \A i \in 1 .. 11 - d : stages[i] = InitSwd[d + i]
    /\ got = <<>> /\ sent \in {0, 1}
    /\ \A j \in 1 .. Len(flight) : flight[j].pkt.cmd = "led" =>
          j + d <= MaxLeft \/ (d = 10 /\ sent = 1 /\ j = Len(flight))
Closes ==
    Setup(op) /\ ok =>
        /\ ~busy => flight = <<>>
        /\ busy => \E d \in 0 .. 10 : Opening(d)

LEMMA SingleFields ==
    ASSUME NEW p
    PROVE  /\ Single(p).then = NoAp /\ Single(p).test = FALSE /\ Single(p).soft = FALSE
           /\ Len(Single(p).pk) = 1 /\ Single(p).pk[1] = p
BY DEF Single, Stage

LEMMA ClearErrorsFields ==
    /\ ClearErrors.then = NoAp /\ ClearErrors.test = FALSE /\ ClearErrors.soft = TRUE
    /\ Len(ClearErrors.pk) = 1 /\ ClearErrors.pk[1] = Packet("abort", <<>>)
BY DEF ClearErrors, Single, Stage

LEMMA InitSwdIs ==
    /\ IsSeq(InitSwd) /\ Len(InitSwd) = 11
    /\ \A i \in 1 .. 11 : /\ InitSwd[i].then = NoAp /\ InitSwd[i].test = FALSE /\ Len(InitSwd[i].pk) = 1
                          /\ i = 10 => InitSwd[i].soft = TRUE
                          /\ i # 10 => InitSwd[i].soft = FALSE
                          /\ i = 11 => InitSwd[i].pk[1].cmd = "led"
                          /\ i # 11 => InitSwd[i].pk[1].cmd # "led"
<1>1. IsSeq(InitSwd)
  BY InitSwdOK DEF StagesOK
<1> DEFINE P(c) == Single(Packet(c, <<>>))
           id == Single(Xfer("id", Rd))
           Right(x, i) == /\ x.then = NoAp /\ x.test = FALSE /\ Len(x.pk) = 1
                          /\ (i = 10 => x.soft = TRUE) /\ (i # 10 => x.soft = FALSE)
                          /\ (i = 11 => x.pk[1].cmd = "led")
                          /\ (i # 11 => x.pk[1].cmd # "led")
<1>2. ASSUME NEW i \in 1 .. 9, NEW c \in {"connect", "clock", "config", "swd", "swj"} PROVE Right(P(c), i)
  <2> DEFINE p == Packet(c, <<>>)
  <2>1. p.cmd = c
    BY DEF Packet
  <2> HIDE DEF p
  <2>2. /\ Single(p).then = NoAp /\ Single(p).test = FALSE /\ Single(p).soft = FALSE
        /\ Len(Single(p).pk) = 1 /\ Single(p).pk[1] = p
    BY SingleFields
  <2>3. Right(Single(p), i)
    BY <2>1, <2>2
  <2> QED
    BY <2>3 DEF p
<1>3. Right(id, 9)
  <2> DEFINE p == Xfer("id", Rd)
  <2>1. p.cmd = "xfer"
    BY DEF Xfer, Packet
  <2> HIDE DEF p
  <2>2. /\ Single(p).then = NoAp /\ Single(p).test = FALSE /\ Single(p).soft = FALSE
        /\ Len(Single(p).pk) = 1 /\ Single(p).pk[1] = p
    BY SingleFields
  <2>3. Right(Single(p), 9)
    BY <2>1, <2>2
  <2> QED
    BY <2>3 DEF p
<1>4. Right(ClearErrors, 10)
  <2>1. Packet("abort", <<>>).cmd = "abort"
    BY DEF Packet
  <2> QED
    BY <2>1, ClearErrorsFields
<1>5. Right(P("led"), 11)
  <2> DEFINE p == Packet("led", <<>>)
  <2>1. p.cmd = "led"
    BY DEF Packet
  <2> HIDE DEF p
  <2>2. /\ Single(p).then = NoAp /\ Single(p).test = FALSE /\ Single(p).soft = FALSE
        /\ Len(Single(p).pk) = 1 /\ Single(p).pk[1] = p
    BY SingleFields
  <2>3. Right(Single(p), 11)
    BY <2>1, <2>2
  <2> QED
    BY <2>3 DEF p
<1>6. InitSwd = <<P("connect"), P("clock"), P("config"), P("swd"), P("swj"), P("swj"), P("swj"), P("swj"),
                  id, ClearErrors, P("led")>>
  BY DEF InitSwd
<1> HIDE DEF P, id, Right
<1>7. Len(InitSwd) = 11
  BY <1>6
<1>8. ASSUME NEW i \in 1 .. 11 PROVE Right(InitSwd[i], i)
  <2>1. i \in {1, 2, 3, 4, 5, 6, 7, 8, 9, 10, 11}
    OBVIOUS
  <2>2. /\ InitSwd[1] = P("connect") /\ InitSwd[2] = P("clock") /\ InitSwd[3] = P("config")
        /\ InitSwd[4] = P("swd") /\ InitSwd[5] = P("swj") /\ InitSwd[6] = P("swj")
        /\ InitSwd[7] = P("swj") /\ InitSwd[8] = P("swj") /\ InitSwd[9] = id
        /\ InitSwd[10] = ClearErrors /\ InitSwd[11] = P("led")
    BY <1>6
  <2>3. CASE i \in {1, 2, 3, 4, 5, 6, 7, 8}
    <3>1. \E c \in {"connect", "clock", "config", "swd", "swj"} : InitSwd[i] = P(c)
      BY <2>2, <2>3
    <3>2. i \in 1 .. 9
      BY <2>3
    <3> QED
      BY <1>2, <3>1, <3>2
  <2> QED
    BY <1>3, <1>4, <1>5, <2>1, <2>2, <2>3
<1> QED
  BY <1>1, <1>7, <1>8 DEF Right

LEMMA OpeningHead ==
    ASSUME NEW d \in 0 .. 10, Opening(d)
    PROVE  /\ Len(Head(stages).pk) = 1
           /\ d = 10 => Head(stages).pk[1].cmd = "led"
           /\ d # 10 => Head(stages).pk[1].cmd # "led"
           /\ d = 9 => Head(stages).soft = TRUE
           /\ d # 9 => Head(stages).soft = FALSE
<1>1. Head(stages) = stages[1]
  <2>1. Len(stages) > 0
    BY DEF Opening
  <2>2. stages # <<>>
    BY <2>1, NothingSeq
  <2> QED
    BY <2>2, TailSeq DEF Opening
<1>2. 1 \in 1 .. 11 - d /\ d + 1 \in 1 .. 11
  OBVIOUS
<1>3. Head(stages) = InitSwd[d + 1]
  BY <1>1, <1>2 DEF Opening
<1>4. (d + 1 = 11 <=> d = 10) /\ (d + 1 = 10 <=> d = 9)
  OBVIOUS
<1> QED
  BY <1>2, <1>3, <1>4, InitSwdIs

\* The next command; every answer to a last command has come one place closer.
LEMMA OpeningGoesOn ==
    ASSUME NEW d \in 0 .. 9, Opening(d), GoOn(Tail(stages)),
           \A j \in 1 .. Len(flight') : flight'[j].pkt.cmd = "led" => j + (d + 1) <= MaxLeft
    PROVE  Opening(d + 1)' /\ d + 1 \in 0 .. 10
<1>1. stages' = Tail(stages) /\ sent' = 0 /\ got' = <<>>
  BY DEF GoOn
<1>2. stages # <<>>
  <2>1. Len(stages) > 0
    BY DEF Opening
  <2> QED
    BY <2>1, NothingSeq
<1>3. /\ IsSeq(Tail(stages)) /\ Len(Tail(stages)) = 11 - (d + 1)
      /\ \A i \in 1 .. 11 - (d + 1) : Tail(stages)[i] = stages[i + 1]
  BY <1>2, TailSeq DEF Opening
<1>4. \A i \in 1 .. 11 - (d + 1) : i + 1 \in 1 .. 11 - d /\ d + (i + 1) = d + 1 + i
  OBVIOUS
<1>5. \A i \in 1 .. 11 - (d + 1) : Tail(stages)[i] = InitSwd[d + 1 + i]
  BY <1>3, <1>4 DEF Opening
<1> QED
  BY <1>1, <1>3, <1>5 DEF Opening

LEMMA OpeningStarts ==
    ASSUME stages' = InitSwd, got' = <<>>, sent' = 0, IsSeq(flight'), Len(flight') <= MaxLeft
    PROVE  \E d \in 0 .. 10 : Opening(d)'
<1>1. Len(flight') \in Nat /\ MaxLeft \in Nat
  BY SeqShape, SizesAssumption
<1>2. Opening(0)'
  BY <1>1, InitSwdIs DEF Opening
<1> QED
  BY <1>2

\* Fewer answers than commands: none to a last command is left at the last but one.
LEMMA RaiseCloses ==
    ASSUME MaxLeft < 10, Pipe, NEW d \in 0 .. 10, Opening(d), ok, busy, Raise, op' = op,
           flight' = flight \/ (flight # <<>> /\ flight' = Tail(flight))
    PROVE  Closes'
<1>1. CASE d = 9
  <2>1. Len(stages) = 2 /\ Head(stages).soft
    <3>1. Head(stages).soft = TRUE
      BY <1>1, OpeningHead
    <3>2. Len(stages) = 11 - 9
      BY <1>1 DEF Opening
    <3> QED
      BY <3>1, <3>2
  <2>2. GoOn(Tail(stages))
    BY <2>1 DEF Raise
  <2>3. \A j \in 1 .. Len(flight) : flight[j].pkt.cmd # "led"
    BY <1>1, SizesAssumption DEF Opening
  <2>4. \A j \in 1 .. Len(flight') : flight'[j].pkt.cmd # "led"
    <3>1. CASE flight' = flight
      BY <2>3, <3>1
    <3>2. CASE flight # <<>> /\ flight' = Tail(flight)
      <4>1. /\ Len(Tail(flight)) = Len(flight) - 1 /\ Len(flight) \in Nat
            /\ \A i \in 1 .. Len(flight) - 1 : Tail(flight)[i] = flight[i + 1]
        BY <3>2, TailSeq, SeqShape DEF Pipe
      <4>2. \A i \in 1 .. Len(flight) - 1 : i + 1 \in 1 .. Len(flight)
        BY <4>1
      <4> QED
        BY <2>3, <3>2, <4>1, <4>2
    <3> QED
      BY <3>1, <3>2
  <2>5. Opening(10)'
    <3>1. d \in 0 .. 9 /\ d + 1 = 10
      BY <1>1
    <3> QED
      BY <2>2, <2>4, <3>1, OpeningGoesOn
  <2>6. busy' = busy
    BY <2>2 DEF GoOn
  <2> QED
    BY <2>5, <2>6 DEF Closes
<1>2. CASE d # 9
  <2>1. Head(stages).soft = FALSE
    BY <1>2, OpeningHead
  <2>2. ok' = FALSE
    BY <2>1 DEF Raise, End
  <2> QED
    BY <2>2 DEF Closes
<1> QED
  BY <1>1, <1>2

LEMMA SendCloses ==
    ASSUME Pipe, NEW d \in 0 .. 10, Opening(d), Send
    PROVE  Opening(d)'
<1>1. stages' = stages /\ got' = got /\ sent' = sent + 1 /\ sent < Len(Head(stages).pk)
  BY DEF Send, MaySend
<1>2. sent = 0 /\ sent' = 1
  <2>1. Len(Head(stages).pk) = 1
    BY OpeningHead
  <2>2. sent < 1
    BY <1>1, <2>1
  <2>3. sent = 0
    BY <2>2 DEF Opening
  <2> QED
    BY <1>1, <2>3
<1>3. /\ \A i \in 1 .. Len(flight) : flight'[i] = flight[i]
      /\ Len(flight') = Len(flight) + 1 /\ Len(flight) \in Nat
      /\ flight'[Len(flight) + 1] = [pkt |-> Head(stages).pk[sent + 1], ans |-> <<>>]
  BY SendPipe, SeqShape DEF Pipe
<1>4. flight'[Len(flight')].pkt = Head(stages).pk[1]
  BY <1>2, <1>3
<1>5. flight'[Len(flight')].pkt.cmd = "led" => d = 10
  BY <1>4, OpeningHead
<1>6. ASSUME NEW j \in 1 .. Len(flight'), flight'[j].pkt.cmd = "led"
      PROVE  j + d <= MaxLeft \/ (d = 10 /\ sent' = 1 /\ j = Len(flight'))
  <2>1. CASE j = Len(flight')
    BY <1>2, <1>5, <1>6, <2>1
  <2>2. CASE j # Len(flight')
    <3>1. j \in 1 .. Len(flight)
      BY <1>3, <2>2
    <3> QED
      BY <1>2, <1>3, <1>6, <3>1 DEF Opening
  <2> QED
    BY <2>1, <2>2
<1> QED
  BY <1>1, <1>2, <1>6 DEF Opening

LEMMA RecvCloses ==
    ASSUME MaxLeft < 10, Pipe, NEW d \in 0 .. 10, Opening(d), ok, Recv
    PROVE  Closes'
<1> DEFINE ans == flight[1].ans[1]
           pk == Head(stages).pk
           all == Append(got, ans)
<1>1. /\ busy /\ flight # <<>> /\ flight[1].ans # <<>> /\ flight' = Tail(flight) /\ op' = op
      /\ IF ~Fits(ans, pk[Len(all)]) THEN Raise /\ UNCHANGED cur
         ELSE IF AllCome(all) THEN Judge(all)
         ELSE got' = all /\ UNCHANGED <<busy, ok, stages, sent, data, cur>>
  BY DEF Recv, Answered
<1>2. Len(all) = 1
  <2> HIDE DEF ans
  <2> QED
    BY NothingSeq, AppendSeq DEF Opening
<1>3. Len(pk) = 1
  BY OpeningHead
<1>4. AllCome(all)
  BY <1>2, <1>3 DEF AllCome
<1>5. /\ IsSeq(Tail(flight)) /\ Len(Tail(flight)) = Len(flight) - 1 /\ Len(flight) \in Nat /\ Len(flight) > 0
      /\ \A i \in 1 .. Len(flight) - 1 : Tail(flight)[i] = flight[i + 1]
  BY <1>1, TailSeq, SeqShape DEF Pipe
<1>6. \/ Raise
      \/ ClearAndRaise
      \/ /\ ans.cmd = pk[1].cmd
         /\ IF Len(stages) = 1 THEN End(ok) ELSE GoOn(Tail(stages))
  <2>1. CASE ~Fits(ans, pk[Len(all)])
    BY <1>1, <2>1
  <2>2. CASE Fits(ans, pk[Len(all)])
    <3>1. ans.cmd = pk[1].cmd /\ Judge(all)
      BY <1>1, <1>2, <1>4, <2>2 DEF Fits
    <3> HIDE DEF ans, pk, all
    <3> QED
      BY <3>1 DEF Judge, Checked
  <2> QED
    BY <2>1, <2>2
<1>7. CASE Raise
  BY <1>1, <1>7, RaiseCloses
<1>8. CASE ClearAndRaise
  BY <1>8 DEF ClearAndRaise, Closes
<1>9. CASE d # 10 /\ GoOn(Tail(stages))
  <2>1. ASSUME NEW j \in 1 .. Len(flight'), flight'[j].pkt.cmd = "led" PROVE j + (d + 1) <= MaxLeft
    <3>1. j + 1 \in 1 .. Len(flight) /\ flight'[j] = flight[j + 1] /\ j \in Nat
      BY <1>1, <1>5
    <3>2. (j + 1) + d <= MaxLeft
      BY <1>9, <2>1, <3>1 DEF Opening
    <3> QED
      BY <3>1, <3>2, SizesAssumption
  <2>2. d \in 0 .. 9
    BY <1>9
  <2>3. Opening(d + 1)' /\ d + 1 \in 0 .. 10
    BY <1>9, <2>1, <2>2, OpeningGoesOn
  <2>4. busy' = busy
    BY <1>9 DEF GoOn
  <2> QED
    BY <1>1, <2>3, <2>4 DEF Closes
<1>10. CASE d = 10 /\ ans.cmd = pk[1].cmd /\ End(ok)
  <2>1. pk[1].cmd = "led"
    BY <1>10, OpeningHead
  <2>2. 1 \in 1 .. Len(flight)
    BY <1>5
  <2>3. flight[1].pkt.cmd = "led"
    BY <1>1, <1>10, <2>1, <2>2 DEF Pipe, Bears
  <2>4. 1 = Len(flight)
    <3> HIDE DEF ans, pk, all
    <3>1. 1 + d <= MaxLeft \/ 1 = Len(flight)
      BY <2>2, <2>3 DEF Opening
    <3>2. ~(1 + d <= MaxLeft)
      BY <1>10, SizesAssumption
    <3> QED
      BY <3>1, <3>2
  <2>5. flight' = <<>>
    <3>1. PICK T : Tail(flight) \in Seq(T)
      BY <1>5 DEF IsSeq
    <3> QED
      BY <1>1, <1>5, <2>4, <3>1, EmptySeq
  <2>6. busy' = FALSE
    BY <1>10 DEF End
  <2> QED
    BY <2>5, <2>6 DEF Closes
<1>11. Len(stages) = 1 <=> d = 10
  BY DEF Opening
<1> QED
  BY <1>6, <1>7, <1>8, <1>9, <1>10, <1>11

LEMMA PipeNext == Pipe /\ [Next]_vars => Pipe'
<1> SUFFICES ASSUME Pipe, [Next]_vars PROVE Pipe'
  OBVIOUS
<1>1. CASE \E o \in Ops : Begin(o)
  <2>1. busy' = TRUE /\ flight' = flight
    BY <1>1 DEF Begin, Start
  <2> QED
    BY <2>1 DEF Pipe
<1>2. CASE Open
  <2>1. busy' = TRUE /\ flight' = Unanswered
    BY <1>2 DEF Open, Start
  <2>2. \A i \in 1 .. Len(Unanswered) : Bears(Unanswered[i])
    BY UnansweredIs DEF Pipe
  <2> QED
    BY <2>1, <2>2, UnansweredIs DEF Pipe
<1>3. CASE Send
  BY <1>3, SendPipe
<1>4. CASE Recv
  <2>1. flight # <<>> /\ flight' = Tail(flight)
    BY <1>4 DEF Recv, Answered
  <2>2. busy' = busy \/ busy' = FALSE
    BY <1>4 DEF Recv, Judge, Checked, Raise, ClearAndRaise, GoOn, End
  <2> QED
    BY <2>1, <2>2, TailPipe DEF Pipe
<1>5. CASE SendFails \/ Timeout
  <2>1. flight' = flight /\ (busy' = busy \/ busy' = FALSE)
    BY <1>5 DEF SendFails, Timeout, Raise, GoOn, End
  <2> QED
    BY <2>1 DEF Pipe
<1>6. CASE Execute
  BY <1>6, ExecutePipe
<1>7. CASE LinkLost \/ LinkBack \/ UNCHANGED vars
  <2>1. flight' = flight /\ busy' = busy
    BY <1>7 DEF LinkLost, LinkBack, vars, host
  <2> QED
    BY <2>1 DEF Pipe
<1> QED
  BY <1>1, <1>2, <1>3, <1>4, <1>5, <1>6, <1>7 DEF Next, Call, Host

LEMMA ClosesNext ==
    ASSUME MaxLeft < 10
    PROVE  Pipe /\ Closes /\ [Next]_vars => Closes'
<1> SUFFICES ASSUME Pipe, Closes, [Next]_vars PROVE Closes'
  OBVIOUS
<1>1. ASSUME NEW o, Setup(o), Start(o), flight' = flight \/ flight' = Unanswered, Len(flight') <= MaxLeft
      PROVE  Closes'
  <2>1. busy' = TRUE /\ stages' = Plan(o) /\ got' = <<>> /\ sent' = 0
    BY <1>1 DEF Start
  <2>2. Plan(o) = InitSwd
    BY <1>1 DEF Plan, Setup
  <2>3. IsSeq(flight')
    BY <1>1, UnansweredIs DEF Pipe
  <2>4. \E d \in 0 .. 10 : Opening(d)'
    BY <1>1, <2>1, <2>2, <2>3, OpeningStarts
  <2> QED
    BY <2>1, <2>4 DEF Closes
<1>2. ASSUME NEW o \in Ops, Begin(o) PROVE Closes'
  <2>1. Start(o) /\ flight' = flight /\ Len(flight) <= MaxLeft
    BY <1>2 DEF Begin
  <2>2. op' = o
    BY <2>1 DEF Start
  <2>3. CASE Setup(o)
    BY <1>1, <2>1, <2>3
  <2>4. CASE ~Setup(o)
    BY <2>2, <2>4 DEF Closes
  <2> QED
    BY <2>3, <2>4
<1>3. ASSUME Open PROVE Closes'
  <2>1. Start([name |-> "open"]) /\ flight' = Unanswered /\ Len(Unanswered) <= MaxLeft
    BY <1>3 DEF Open
  <2>2. Setup([name |-> "open"])
    BY DEF Setup
  <2> QED
    BY <1>1, <2>1, <2>2
<1>4. ASSUME Host PROVE Closes'
  <2>1. busy /\ op' = op
    BY <1>4 DEF Host, Send, Recv, SendFails, Timeout
  <2>2. CASE ~(Setup(op) /\ ok)
    <3>1. ~(Setup(op) /\ ok)'
      BY <1>4, <2>1, <2>2 DEF Host, Send, Recv, SendFails, Timeout, Judge, Checked, Raise, ClearAndRaise, GoOn, End, Setup
    <3> QED
      BY <3>1 DEF Closes
  <2>3. CASE Setup(op) /\ ok
    <3>1. PICK d \in 0 .. 10 : Opening(d)
      BY <2>1, <2>3 DEF Closes
    <3>2. CASE Send
      <4>1. Opening(d)' /\ busy' = busy
        BY <3>1, <3>2, SendCloses DEF Send
      <4> QED
        BY <2>1, <4>1 DEF Closes
    <3>3. CASE Recv
      BY <2>3, <3>1, <3>3, RecvCloses
    <3>4. CASE SendFails \/ Timeout
      <4>1. Raise /\ flight' = flight
        BY <3>4 DEF SendFails, Timeout
      <4> QED
        BY <2>1, <2>3, <3>1, <4>1, RaiseCloses
    <3> QED
      BY <1>4, <3>2, <3>3, <3>4 DEF Host
  <2> QED
    BY <2>2, <2>3
<1>5. ASSUME Execute PROVE Closes'
  <2>1. /\ UNCHANGED host /\ Len(flight') = Len(flight) /\ IsSeq(flight')
        /\ \A j \in 1 .. Len(flight) : flight'[j].pkt = flight[j].pkt
    BY <1>5, ExecutePipe DEF Pipe
  <2>2. flight = <<>> => flight' = <<>>
    <3>1. PICK T : flight' \in Seq(T)
      BY <2>1 DEF IsSeq
    <3> QED
      BY <2>1, <3>1, EmptySeq
  <2>3. op' = op /\ ok' = ok /\ busy' = busy /\ stages' = stages /\ got' = got /\ sent' = sent
    BY <2>1 DEF host
  <2>4. ASSUME NEW d \in 0 .. 10, Opening(d) PROVE Opening(d)'
    BY <2>1, <2>3, <2>4 DEF Opening
  <2> QED
    BY <2>2, <2>3, <2>4 DEF Closes, Setup
<1>6. ASSUME LinkLost \/ LinkBack \/ UNCHANGED vars PROVE Closes'
  <2>1. UNCHANGED <<host, flight>>
    BY <1>6 DEF LinkLost, LinkBack, vars
  <2> QED
    BY <2>1 DEF Closes, Opening, Setup, host
<1> QED
  BY <1>2, <1>3, <1>4, <1>5, <1>6 DEF Next, Call

\* As long as a call finds fewer than ten answers in the pipe, reconnect() and a
\* restart do not succeed over one that is out of step (ReconnectInStep).  The bound
\* is what the code gives: over ten answers of reconnects that timed out, each one
\* command later, the commands and the answers fit.
THEOREM ReconnectRefuses == ASSUME MaxLeft < 10 PROVE Spec => []ReconnectInStep
<1>1. Init => Pipe /\ Closes
  <2> SUFFICES ASSUME Init PROVE Pipe /\ Closes
    OBVIOUS
  <2>1. busy = FALSE /\ flight = <<>> /\ ok = FALSE
    BY DEF Init
  <2>2. IsSeq(flight) /\ 1 .. Len(flight) = {}
    BY <2>1, NothingSeq
  <2> QED
    BY <2>1, <2>2 DEF Pipe, Closes
<1>2. Pipe /\ Closes /\ [Next]_vars => (Pipe /\ Closes)'
  BY PipeNext, ClosesNext
<1>3. Pipe /\ Closes => ReconnectInStep
  BY DEF Closes, ReconnectInStep
<1> QED
  BY <1>1, <1>2, <1>3, PTL DEF Spec

-----------------------------------------------------------------------------
(* What a transfer does to the port. *)

\* The fields that a debug port and a transfer on its way have.
Port(p)  == {"sel", "incr", "tar", "sticky"} \subseteq DOMAIN p
Under(s) == {"dp", "mem", "ack", "data", "done"} \subseteq DOMAIN s /\ Port(s.dp)

\* Everything but SELECT and CSW.
Same(s, u) == Under(u) /\ u.dp.sel = s.dp.sel /\ u.dp.incr = s.dp.incr

LEMMA SameRest ==
    ASSUME NEW s, Under(s), NEW v, NEW x, NEW y
    PROVE  /\ Same(s, [s EXCEPT !.ack = v]) /\ [s EXCEPT !.ack = v].ack = v
           /\ Same(s, [s EXCEPT !.data = v, !.done = x])
           /\ Same(s, [s EXCEPT !.dp.tar = v, !.mem = x, !.done = y])
           /\ Same(s, [s EXCEPT !.dp.tar = v])
           /\ Same(s, [s EXCEPT !.dp.sticky = v, !.mem = x])
           /\ Same(s, [s EXCEPT !.dp.sticky = v, !.ack = x])
<1>1. Same(s, [s EXCEPT !.ack = v]) /\ [s EXCEPT !.ack = v].ack = v
  BY DEF Under, Port, Same
<1>2. Same(s, [s EXCEPT !.data = v, !.done = x])
  BY DEF Under, Port, Same
<1>3. Same(s, [s EXCEPT !.dp.tar = v, !.mem = x, !.done = y])
  BY DEF Under, Port, Same
<1>4. Same(s, [s EXCEPT !.dp.tar = v])
  BY DEF Under, Port, Same
<1>5. Same(s, [s EXCEPT !.dp.sticky = v, !.mem = x])
  BY DEF Under, Port, Same
<1>6. Same(s, [s EXCEPT !.dp.sticky = v, !.ack = x])
  BY DEF Under, Port, Same
<1> QED
  BY <1>1, <1>2, <1>3, <1>4, <1>5, <1>6

\* Accesses that leave SELECT and CSW alone.
CalmAccess(x) == x[1] # "select" /\ x[1] # "csw"

\* One access, and what SELECT and CSW hold after it.
LEMMA AccessPort ==
    ASSUME NEW s, Under(s), NEW x, NEW posted
    PROVE  /\ Under(Access(s, x, posted))
           /\ CalmAccess(x) => Same(s, Access(s, x, posted))
<1> DEFINE reg == x[1]
           v == x[2]
           ap == s.dp.sel
           t == s.dp.tar[ap]
           read(y) == [s EXCEPT !.data = Append(@, y), !.done = @ + 1]
           next == IF ap \in s.dp.incr THEN (t \div Page) * Page + ((t + 1) % Page) ELSE t
           bad == ap = MEM /\ t \in BadWords \cup (Registers \ DOMAIN mem) \cup {Top}
           back(y) == [read(y) EXCEPT !.dp.tar[ap] = next]
           put == [s EXCEPT !.dp.tar[ap] = next, !.mem = IF ap = MEM THEN [@ EXCEPT ![t] = v] ELSE @, !.done = @ + 1]
           moved == IF v = Rd THEN back(IF ap = MEM THEN t ELSE Top + t) ELSE put
           stuck(u) == [u EXCEPT !.dp.sticky = TRUE, !.mem = s.mem]
           fault == [s EXCEPT !.ack = "fault"]
           z == IF v = Increment THEN s.dp.incr \cup {ap} ELSE s.dp.incr \ {ap}
           selected == [s EXCEPT !.dp.sel = v, !.done = @ + 1]
           moded == [s EXCEPT !.dp.incr = z, !.done = @ + 1]
           tarred == [s EXCEPT !.dp.tar[ap] = v, !.done = @ + 1]
           refused == [s EXCEPT !.dp.sticky = TRUE, !.ack = "fault"]
<1>1. Access(s, x, posted) =
        IF reg = "id" THEN read(Pad)
        ELSE IF reg = "stat" THEN read(IF s.dp.sticky THEN Sticky ELSE Clean)
        ELSE IF s.dp.sticky THEN fault
        ELSE IF reg = "select" THEN selected
        ELSE IF reg = "csw" THEN moded
        ELSE IF reg = "tar" THEN tarred
        ELSE IF bad THEN IF posted THEN stuck(moved) ELSE refused
        ELSE moved
  BY DEF Access
<1>2. ASSUME NEW y PROVE Same(s, read(y))
  <2>1. read(y) = [s EXCEPT !.data = Append(s.data, y), !.done = s.done + 1]
    OBVIOUS
  <2> QED
    BY <2>1, SameRest
<1>3. ASSUME NEW y PROVE Same(s, back(y))
  <2>1. Same(s, read(y)) /\ Under(read(y))
    BY <1>2 DEF Same
  <2> DEFINE u == read(y)
             w == [u.dp.tar EXCEPT ![ap] = next]
  <2>2. back(y) = [u EXCEPT !.dp.tar = w]
    OBVIOUS
  <2> HIDE DEF u, w, next
  <2>3. Same(u, [u EXCEPT !.dp.tar = w])
    BY <2>1, SameRest DEF u
  <2> QED
    BY <2>1, <2>2, <2>3 DEF Same, u
<1>4. Same(s, put)
  <2> DEFINE m(o) == IF ap = MEM THEN [o EXCEPT ![t] = v] ELSE o
  <2>1. put = [s EXCEPT !.dp.tar[ap] = next, !.mem = m(@), !.done = @ + 1]
    OBVIOUS
  <2> HIDE DEF next, t, m, put
  <2> QED
    BY <2>1 DEF Same, Under, Port
<1>5. Same(s, moved)
  <2> HIDE DEF back, put
  <2> QED
    BY <1>3, <1>4
<1>6. Same(s, stuck(moved))
  <2> HIDE DEF moved
  <2>1. Under(moved)
    BY <1>5 DEF Same
  <2>2. Same(moved, stuck(moved))
    BY <2>1, SameRest
  <2> QED
    BY <1>5, <2>2 DEF Same
<1>7. Same(s, fault) /\ fault.ack = "fault" /\ Same(s, refused)
  BY SameRest
<1>8. Same(s, tarred)
  <2> DEFINE w == [s.dp.tar EXCEPT ![ap] = v]
  <2>1. tarred = [s EXCEPT !.dp.tar = w, !.done = @ + 1]
    OBVIOUS
  <2> HIDE DEF w
  <2> QED
    BY <2>1 DEF Same, Under, Port
<1>9. Under(selected) /\ selected.dp.sel = v
  BY DEF Under, Port
<1>10. Under(moded) /\ moded.dp.sel = s.dp.sel /\ moded.dp.incr = z
  <2> HIDE DEF z
  <2> QED
    BY DEF Under, Port
<1> HIDE DEF read, moved, stuck, fault, selected, moded, tarred, refused, bad
<1>11. CASE reg = "select"
  BY <1>1, <1>7, <1>9, <1>11 DEF CalmAccess, Same
<1>12. CASE reg = "csw"
  BY <1>1, <1>7, <1>10, <1>12 DEF CalmAccess, Same
<1>13. CASE reg # "select" /\ reg # "csw"
  <2>1. Same(s, Access(s, x, posted))
    BY <1>1, <1>2, <1>5, <1>6, <1>7, <1>8, <1>13
  <2> QED
    BY <1>13, <2>1 DEF Same
<1> QED
  BY <1>11, <1>12, <1>13

LEMMA AccessSelects ==
    ASSUME NEW s, Under(s), NEW x, NEW posted, x[1] = "select", s.ack = "ok", Access(s, x, posted).ack = "ok"
    PROVE  Access(s, x, posted).dp.sel = x[2]
<1> DEFINE u == Access(s, x, posted)
<1>1. u = IF s.dp.sticky THEN [s EXCEPT !.ack = "fault"] ELSE [s EXCEPT !.dp.sel = x[2], !.done = @ + 1]
  BY DEF Access
<1>2. [s EXCEPT !.ack = "fault"].ack = "fault" /\ [s EXCEPT !.dp.sel = x[2], !.done = @ + 1].dp.sel = x[2]
  BY DEF Under, Port
<1> HIDE DEF u
<1>3. u.dp.sel = x[2]
  BY <1>1, <1>2 DEF u
<1> QED
  BY <1>3 DEF u

LEMMA AccessModes ==
    ASSUME NEW s, Under(s), NEW x, NEW posted, x[1] = "csw"
    PROVE  /\ Access(s, x, posted).dp.sel = s.dp.sel
           /\ Access(s, x, posted).ack = "ok" =>
                Access(s, x, posted).dp.incr =
                    IF x[2] = Increment THEN s.dp.incr \cup {s.dp.sel} ELSE s.dp.incr \ {s.dp.sel}
<1> DEFINE u == Access(s, x, posted)
           z == IF x[2] = Increment THEN s.dp.incr \cup {s.dp.sel} ELSE s.dp.incr \ {s.dp.sel}
<1>1. u = IF s.dp.sticky THEN [s EXCEPT !.ack = "fault"] ELSE [s EXCEPT !.dp.incr = z, !.done = @ + 1]
  BY DEF Access
<1> HIDE DEF z
<1>2. /\ [s EXCEPT !.ack = "fault"].ack = "fault" /\ [s EXCEPT !.ack = "fault"].dp.sel = s.dp.sel
      /\ [s EXCEPT !.dp.incr = z, !.done = @ + 1].dp.incr = z
      /\ [s EXCEPT !.dp.incr = z, !.done = @ + 1].dp.sel = s.dp.sel
  BY DEF Under, Port
<1> HIDE DEF u
<1>3. u.dp.sel = s.dp.sel /\ (u.ack = "ok" => u.dp.incr = z)
  BY <1>1, <1>2 DEF u
<1> QED
  BY <1>3 DEF u, z

\* A transfer as a function on the number of its accesses.
RunStart == [dp |-> dp, mem |-> mem, ack |-> "ok", data |-> <<>>, done |-> 0]
RunStep(i, s, acc, posted, stop) ==
    IF s.ack # "ok" THEN s
    ELSE IF i = stop THEN [s EXCEPT !.ack = "wait"]
    ELSE Access(s, acc[i], posted)
Runs(f, n, acc, posted, stop) ==
    f = [i \in 0 .. n |-> IF i = 0 THEN RunStart ELSE RunStep(i, f[i - 1], acc, posted, stop)]

LEMMA NatsIn ==
    ASSUME NEW T, 0 \in T, \A n \in Nat : n \in T => n + 1 \in T
    PROVE  Nat \subseteq T
<1> SUFFICES ASSUME Nat \ T # {} PROVE FALSE
  OBVIOUS
<1> DEFINE U == Nat \ T
<1>1. \E t \in U : \A u \in U : ~(<<u, t>> \in OpToRel(<, Nat))
  <2>1. U \subseteq Nat
    OBVIOUS
  <2> HIDE DEF U
  <2>2. U # {}
    BY DEF U
  <2> QED
    BY <2>1, <2>2, WFMin, NatLessThanWellFounded, Zenon
<1>2. PICK t \in U : \A u \in U : ~(<<u, t>> \in OpToRel(<, Nat))
  BY <1>1
<1>3. \A u \in U : <<u, t>> \in Nat \X Nat
  BY <1>2
<1>4. \A u \in U : ~(u < t)
  <2> HIDE DEF U
  <2> QED
    BY <1>2, <1>3, Zenon DEF OpToRel
<1>5. t \in Nat /\ t \notin T /\ \A u \in Nat : u \notin T => t <= u
  <2>1. t \in Nat /\ t \notin T
    BY <1>2
  <2>2. ASSUME NEW u \in Nat, u \notin T PROVE t <= u
    <3>1. ~(u < t)
      BY <1>4, <2>2
    <3> QED
      BY <2>1, <3>1
  <2> QED
    BY <2>1, <2>2
<1>6. t # 0 /\ t - 1 \in Nat /\ t - 1 \in T
  BY <1>5
<1>7. t - 1 + 1 \in T
  BY <1>6
<1> QED
  BY <1>5, <1>7

LEMMA RunExists ==
    ASSUME NEW n \in Nat, NEW acc, NEW posted, NEW stop
    PROVE  \E f : Runs(f, n, acc, posted, stop)
<1> DEFINE R(f, m) == Runs(f, m, acc, posted, stop)
           N(i, s) == RunStep(i, s, acc, posted, stop)
           T == {m \in Nat : \E f : R(f, m)}
<1>1. 0 \in T
  <2> DEFINE f == [k \in 0 .. 0 |-> RunStart]
  <2>1. f = [k \in 0 .. 0 |-> IF k = 0 THEN RunStart ELSE N(k, f[k - 1])]
    <3> HIDE DEF N
    <3> QED
      BY DEF RunStart
  <2>2. R(f, 0)
    BY <2>1 DEF Runs
  <2> QED
    BY <2>2
<1>2. ASSUME NEW m \in Nat, m \in T PROVE m + 1 \in T
  <2>1. PICK f : R(f, m)
    BY <1>2
  <2> DEFINE g == [k \in 0 .. m + 1 |-> IF k = m + 1 THEN N(m + 1, f[m]) ELSE f[k]]
             h(k, s) == IF k = 0 THEN RunStart ELSE N(k, s)
  <2>2. f = [k \in 0 .. m |-> h(k, f[k - 1])]
    BY <2>1 DEF Runs
  <2> HIDE DEF h
  <2>3. \A k \in 0 .. m : f[k] = h(k, f[k - 1])
    BY <2>2
  <2>4. N(m + 1, f[m]) = h(m + 1, f[m])
    BY DEF h
  <2>5. h(0, g[0 - 1]) = h(0, f[0 - 1])
    BY DEF h
  <2> HIDE DEF N
  <2>6. ASSUME NEW k \in 0 .. m + 1 PROVE g[k] = h(k, g[k - 1])
    <3>1. CASE k = m + 1
      <4>1. g[k] = N(m + 1, f[m]) /\ k - 1 = m /\ g[m] = f[m]
        BY <3>1
      <4> QED
        BY <2>4, <3>1, <4>1
    <3>2. CASE k # m + 1 /\ k # 0
      <4>1. k \in 0 .. m /\ k - 1 \in 0 .. m + 1 /\ k - 1 # m + 1
        BY <3>2
      <4>2. g[k] = f[k] /\ g[k - 1] = f[k - 1]
        BY <3>2, <4>1
      <4> QED
        BY <2>3, <4>1, <4>2
    <3>3. CASE k = 0
      <4>1. k # m + 1 /\ 0 \in 0 .. m
        BY <3>3
      <4> QED
        BY <2>3, <2>5, <3>3, <4>1
    <3> QED
      BY <3>1, <3>2, <3>3
  <2>7. g = [k \in 0 .. m + 1 |-> g[k]]
    OBVIOUS
  <2> HIDE DEF g
  <2>8. g = [k \in 0 .. m + 1 |-> h(k, g[k - 1])]
    BY <2>6, <2>7
  <2>9. R(g, m + 1)
    BY <2>8 DEF Runs, h, N
  <2> HIDE DEF R
  <2> QED
    BY <2>9
<1>3. Nat \subseteq T
  <2> HIDE DEF T
  <2> QED
    BY <1>1, <1>2, NatsIn
<1> QED
  BY <1>3

\* The transfer is such a function, whose last value is the result.
LEMMA TransferRuns ==
    ASSUME NEW acc, IsSeq(acc), NEW posted, NEW stop
    PROVE  \E f : /\ f[0] = RunStart
                  /\ \A i \in 1 .. Len(acc) : f[i] = RunStep(i, f[i - 1], acc, posted, stop)
                  /\ RunTransfer(acc, posted, stop) = f[Len(acc)]
<1> DEFINE n == Len(acc)
           f == CHOOSE g : Runs(g, n, acc, posted, stop)
<1>1. n \in Nat
  BY SeqShape
<1>2. Runs(f, n, acc, posted, stop)
  BY <1>1, RunExists
<1>3. RunTransfer(acc, posted, stop) = f[n]
  BY Zenon DEF RunTransfer, Runs, RunStart, RunStep
<1> HIDE DEF f
<1>4. \A i \in 0 .. n : f[i] = IF i = 0 THEN RunStart ELSE RunStep(i, f[i - 1], acc, posted, stop)
  BY <1>2 DEF Runs
<1>5. f[0] = RunStart /\ \A i \in 1 .. n : f[i] = RunStep(i, f[i - 1], acc, posted, stop)
  <2> HIDE DEF n
  <2>1. 0 \in 0 .. n /\ \A i \in 1 .. n : i \in 0 .. n /\ i # 0
    BY <1>1
  <2> QED
    BY <1>4, <2>1
<1> QED
  BY <1>3, <1>5

LEMMA RunStartIs == Port(dp) => Under(RunStart) /\ RunStart.dp = dp /\ RunStart.ack = "ok"
BY DEF RunStart, Under

\* What a whole transfer leaves in the port.
LEMMA TransferPort ==
    ASSUME Port(dp), NEW acc, IsSeq(acc), NEW posted, NEW stop, NEW r,
           r = RunTransfer(acc, posted, stop)
    PROVE  /\ Port(r.dp)
           /\ (\A i \in DOMAIN acc : CalmAccess(acc[i])) => r.dp.sel = dp.sel /\ r.dp.incr = dp.incr
           /\ \A v : acc = <<<<"select", v>>>> /\ r.ack = "ok" => r.dp.sel = v
           /\ \A v : acc = <<<<"csw", v>>>> =>
                /\ r.dp.sel = dp.sel
                /\ r.ack = "ok" => r.dp.incr = IF v = Increment THEN dp.incr \cup {dp.sel} ELSE dp.incr \ {dp.sel}
<1> DEFINE n == Len(acc)
           N(i, s) == RunStep(i, s, acc, posted, stop)
<1>1. n \in Nat /\ DOMAIN acc = 1 .. n
  BY SeqShape
<1>2. PICK f : /\ f[0] = RunStart
               /\ \A i \in 1 .. n : f[i] = N(i, f[i - 1])
               /\ r = f[n]
  BY TransferRuns
<1>3. Under(f[0]) /\ f[0].dp = dp /\ f[0].ack = "ok"
  BY <1>2, RunStartIs
<1>4. ASSUME NEW s, Under(s), NEW i \in 1 .. n
      PROVE  /\ Under(N(i, s))
             /\ CalmAccess(acc[i]) => Same(s, N(i, s))
             /\ s.ack = "ok" => N(i, s) = Access(s, acc[i], posted) \/ (Same(s, N(i, s)) /\ N(i, s).ack = "wait")
  <2>1. Same(s, s)
    BY <1>4 DEF Same
  <2>2. Same(s, [s EXCEPT !.ack = "wait"]) /\ [s EXCEPT !.ack = "wait"].ack = "wait"
    BY <1>4, SameRest
  <2>3. Under(Access(s, acc[i], posted)) /\ (CalmAccess(acc[i]) => Same(s, Access(s, acc[i], posted)))
    BY <1>4, AccessPort
  <2>4. /\ N(i, s) = s \/ N(i, s) = Access(s, acc[i], posted) \/ N(i, s) = [s EXCEPT !.ack = "wait"]
        /\ s.ack = "ok" => N(i, s) = Access(s, acc[i], posted) \/ N(i, s) = [s EXCEPT !.ack = "wait"]
    BY DEF RunStep
  <2> HIDE DEF N
  <2> QED
    BY <2>1, <2>2, <2>3, <2>4 DEF Same
<1> DEFINE calm == \A i \in DOMAIN acc : CalmAccess(acc[i])
           T == {m \in Nat : m <= n => Under(f[m]) /\ (calm => f[m].dp.sel = dp.sel /\ f[m].dp.incr = dp.incr)}
<1> HIDE DEF n, N, calm
<1>5. 0 \in T
  BY <1>1, <1>3
<1>6. ASSUME NEW m \in Nat, m \in T PROVE m + 1 \in T
  <2> SUFFICES ASSUME m + 1 <= n
               PROVE  Under(f[m + 1]) /\ (calm => f[m + 1].dp.sel = dp.sel /\ f[m + 1].dp.incr = dp.incr)
    OBVIOUS
  <2>1. m + 1 \in 1 .. n /\ m <= n /\ m + 1 - 1 = m
    BY <1>1
  <2>2. f[m + 1] = N(m + 1, f[m]) /\ Under(f[m])
    BY <1>2, <1>6, <2>1
  <2>3. Under(f[m + 1]) /\ (CalmAccess(acc[m + 1]) => Same(f[m], f[m + 1]))
    BY <1>4, <2>1, <2>2
  <2>4. calm => CalmAccess(acc[m + 1])
    BY <1>1, <2>1 DEF calm
  <2> QED
    BY <1>6, <2>1, <2>3, <2>4 DEF Same
<1>7. Nat \subseteq T
  <2> HIDE DEF T
  <2> QED
    BY <1>5, <1>6, NatsIn
<1>8. Under(r) /\ (calm => r.dp.sel = dp.sel /\ r.dp.incr = dp.incr)
  BY <1>1, <1>2, <1>7
<1>9. ASSUME NEW x, acc = <<x>>
      PROVE  r = N(1, f[0]) /\ acc[1] = x /\ 1 \in 1 .. n
  <2>1. n = 1 /\ acc[1] = x
    BY <1>9 DEF n
  <2> QED
    BY <1>2, <2>1
<1>10. ASSUME NEW x, acc = <<x>>
       PROVE  r = Access(f[0], x, posted) \/ (Same(f[0], r) /\ r.ack = "wait")
  <2>1. r = N(1, f[0]) /\ acc[1] = x /\ 1 \in 1 .. n
    BY <1>9, <1>10
  <2>2. N(1, f[0]) = Access(f[0], acc[1], posted) \/ (Same(f[0], N(1, f[0])) /\ N(1, f[0]).ack = "wait")
    BY <1>3, <1>4, <2>1
  <2> QED
    BY <2>1, <2>2
<1>11. ASSUME NEW v, acc = <<<<"select", v>>>>, r.ack = "ok"
       PROVE  r.dp.sel = v
  <2> DEFINE x == <<"select", v>>
  <2>1. r = Access(f[0], x, posted) /\ x[1] = "select" /\ x[2] = v
    BY <1>10, <1>11
  <2> HIDE DEF x
  <2> DEFINE s == f[0]
  <2>2. Under(s) /\ s.ack = "ok"
    BY <1>3
  <2> HIDE DEF s
  <2>3. x[1] = "select" /\ s.ack = "ok" /\ Access(s, x, posted).ack = "ok" => Access(s, x, posted).dp.sel = x[2]
    BY <2>1, <2>2, AccessSelects
  <2>4. r = Access(s, x, posted)
    BY <2>1 DEF s
  <2>5. Access(s, x, posted).ack = "ok"
    BY <1>11, <2>4
  <2>6. Access(s, x, posted).dp.sel = v
    BY <2>1, <2>2, <2>3, <2>5
  <2> QED
    BY <2>4, <2>6
<1>12. ASSUME NEW v, acc = <<<<"csw", v>>>>
       PROVE  /\ r.dp.sel = dp.sel
              /\ r.ack = "ok" => r.dp.incr = IF v = Increment THEN dp.incr \cup {dp.sel} ELSE dp.incr \ {dp.sel}
  <2> DEFINE x == <<"csw", v>>
  <2>1. x[1] = "csw" /\ x[2] = v
    OBVIOUS
  <2>2. r = Access(f[0], x, posted) \/ (Same(f[0], r) /\ r.ack = "wait")
    BY <1>10, <1>12
  <2> HIDE DEF x
  <2>3. CASE r = Access(f[0], x, posted)
    <3> DEFINE s == f[0]
    <3>1. Under(s) /\ s.dp = dp
      BY <1>3
    <3> HIDE DEF s
    <3>2. /\ Access(s, x, posted).dp.sel = s.dp.sel
          /\ Access(s, x, posted).ack = "ok" =>
                Access(s, x, posted).dp.incr =
                    IF x[2] = Increment THEN s.dp.incr \cup {s.dp.sel} ELSE s.dp.incr \ {s.dp.sel}
      BY <2>1, <3>1, AccessModes
    <3>3. r = Access(s, x, posted)
      BY <2>3 DEF s
    <3> QED
      BY <2>1, <3>1, <3>2, <3>3
  <2>4. CASE Same(f[0], r) /\ r.ack = "wait"
    BY <1>3, <2>4 DEF Same
  <2> QED
    BY <2>2, <2>3, <2>4
<1> QED
  BY <1>8, <1>11, <1>12 DEF Under, calm

-----------------------------------------------------------------------------
(* What the DAP remembers of the port (CurApTrue). *)

\* A packet that leaves SELECT and CSW alone, a call of cmds() that leaves
\* cur_ap alone as well, and one without a line reset.
CalmPacket(p) == IsSeq(p.acc) /\ \A i \in DOMAIN p.acc : CalmAccess(p.acc[i])
CalmStage(st) == st.then = NoAp /\ IsSeq(st.pk) /\ \A i \in DOMAIN st.pk : CalmPacket(st.pk[i])
NoReset(st)   == \A i \in DOMAIN st.pk : st.pk[i].cmd # "swj"

Mode(ap)     == IF ap = MEM THEN Increment ELSE Fixed
SelStage(ap) == Single(Xfer("select", ap))
CswStage(ap) == [Single(Xfer("csw", Mode(ap))) EXCEPT !.then = ap]

\* The stages left of a plan: the first k of them are the last of select(ap).
Front(ap, k) ==
    /\ IsSeq(stages) /\ Len(stages) >= k /\ stages # <<>>
    /\ \A j \in 1 .. Len(stages) : j > k => CalmStage(stages[j])
    /\ k = 2 => stages[1] = SelStage(ap) /\ stages[2] = CswStage(ap)
    /\ k = 1 => stages[1] = CswStage(ap)
    /\ k > 0 => cur = NoAp
    /\ Setup(op) => k = 0 /\ cur = NoAp
    /\ ~Setup(op) => \A j \in 1 .. Len(stages) : NoReset(stages[j])

\* What the port holds while select() waits for its answers.
Took == Len(flight) > 0 /\ flight[1].ans # <<>> /\ flight[1].ans[1].ack = "ok"
Moded(ap) == ap \in dp.incr <=> ap = MEM
Selected(ap, k) ==
    /\ k = 2 /\ link = "up" /\ Took => dp.sel = ap
    /\ k = 1 /\ link = "up" => dp.sel = ap /\ (Took => Moded(ap))

Orderly ==
    /\ Port(dp) /\ sent \in Nat
    /\ \A i \in 1 .. Len(flight) : IsSeq(flight[i].pkt.acc)
Planned == busy => \E ap \in APs, k \in {0, 1, 2} : Front(ap, k) /\ (~late => Selected(ap, k))

\* The plans.
LEMMA NoAccess == ASSUME NEW c PROVE CalmPacket(Packet(c, <<>>)) /\ Packet(c, <<>>).cmd = c
<1>1. Packet(c, <<>>).acc = <<>> /\ Packet(c, <<>>).cmd = c
  BY DEF Packet
<1>2. IsSeq(<<>>) /\ DOMAIN <<>> = {}
  BY NothingSeq, SeqShape
<1> QED
  BY <1>1, <1>2 DEF CalmPacket

LEMMA XferIs ==
    ASSUME NEW reg, NEW v
    PROVE  /\ Xfer(reg, v).cmd = "xfer" /\ Xfer(reg, v).acc = <<<<reg, v>>>> /\ IsSeq(Xfer(reg, v).acc)
           /\ reg # "select" /\ reg # "csw" => CalmPacket(Xfer(reg, v))
<1> DEFINE x == <<reg, v>>
<1>1. Xfer(reg, v).cmd = "xfer" /\ Xfer(reg, v).acc = <<x>>
  BY DEF Xfer, Packet
<1>2. x[1] = reg
  OBVIOUS
<1> HIDE DEF x
<1>3. IsSeq(<<x>>) /\ <<x>>[1] = x /\ DOMAIN <<x>> = {1}
  BY SingleSeq, SeqShape
<1>4. reg # "select" /\ reg # "csw" => CalmPacket(Xfer(reg, v))
  BY <1>1, <1>2, <1>3 DEF CalmPacket, CalmAccess
<1> QED
  BY <1>1, <1>3, <1>4 DEF x

LEMMA SingleCalm ==
    ASSUME NEW p, CalmPacket(p), NEW st, st.pk = <<p>>, st.then = NoAp
    PROVE  CalmStage(st) /\ (p.cmd # "swj" => NoReset(st))
<1>1. IsSeq(<<p>>) /\ <<p>>[1] = p /\ DOMAIN <<p>> = {1}
  BY SingleSeq, SeqShape
<1> QED
  BY <1>1 DEF CalmStage, NoReset

LEMMA ClearErrorsCalm == CalmStage(ClearErrors) /\ NoReset(ClearErrors)
<1>1. ClearErrors.pk = <<Packet("abort", <<>>)>> /\ ClearErrors.then = NoAp
  BY DEF ClearErrors, Single, Stage
<1>2. Packet("abort", <<>>).cmd # "swj" /\ CalmPacket(Packet("abort", <<>>))
  BY NoAccess
<1> QED
  BY <1>1, <1>2, SingleCalm

LEMMA StickyErrorCalm == CalmStage(StickyError) /\ NoReset(StickyError)
<1>1. StickyError.pk = <<Xfer("stat", Rd)>> /\ StickyError.then = NoAp
  BY DEF StickyError, Single, Stage
<1>2. Xfer("stat", Rd).cmd # "swj" /\ CalmPacket(Xfer("stat", Rd))
  BY XferIs
<1> QED
  BY <1>1, <1>2, SingleCalm

LEMMA RepeatCalm ==
    ASSUME NEW o, NEW lo \in Int, NEW hi \in Int
    PROVE  CalmStage(Repeat(o, lo, hi)) /\ NoReset(Repeat(o, lo, hi))
<1> DEFINE n == Ceil(hi - lo, Chunk)
           m(p) == Least(Chunk, hi - (lo + (p - 1) * Chunk))
           acc(p) == [j \in 1 .. m(p) |-> Word(o, lo + (p - 1) * Chunk + j - 1)]
           pk(p) == Packet("block", acc(p))
           f == [p \in 1 .. n |-> pk(p)]
<1>1. n \in Int
  BY CeilInt, SizesAssumption
<1>2. Repeat(o, lo, hi).pk = f /\ Repeat(o, lo, hi).then = NoAp
  BY DEF Repeat, Stage
<1>3. ASSUME NEW p \in Int PROVE CalmPacket(pk(p)) /\ pk(p).cmd = "block"
  <2>1. pk(p).cmd = "block" /\ pk(p).acc = acc(p)
    BY DEF Packet
  <2>2. m(p) \in Int
    <3>1. (p - 1) * Chunk \in Int /\ Chunk \in Int
      BY SizesAssumption
    <3> QED
      BY <3>1 DEF Least
  <2> HIDE DEF m
  <2>3. acc(p) = [j \in 1 .. m(p) |-> acc(p)[j]]
    OBVIOUS
  <2>4. \A j \in 1 .. m(p) : acc(p)[j][1] = "drw"
    BY DEF Word
  <2>5. DOMAIN acc(p) = 1 .. m(p)
    OBVIOUS
  <2> HIDE DEF acc
  <2>6. IsSeq(acc(p))
    BY <2>2, <2>3, IntFunSeq
  <2> HIDE DEF pk
  <2> QED
    BY <2>1, <2>4, <2>5, <2>6 DEF CalmPacket, CalmAccess
<1> HIDE DEF n, pk
<1>4. f = [p \in 1 .. n |-> f[p]] /\ DOMAIN f = 1 .. n
  OBVIOUS
<1>5. \A p \in DOMAIN f : CalmPacket(f[p]) /\ f[p].cmd # "swj"
  BY <1>1, <1>3
<1> HIDE DEF f
<1>6. IsSeq(f)
  BY <1>1, <1>4, IntFunSeq
<1> QED
  BY <1>2, <1>5, <1>6 DEF CalmStage, NoReset

LEMMA TransfersCalm ==
    ASSUME NEW o, o.a \in Int, o.n \in Int
    PROVE  \A j \in DOMAIN Transfers(o) : CalmStage(Transfers(o)[j]) /\ NoReset(Transfers(o)[j])
<1> DEFINE first == o.a \div Page
           k == (o.a + o.n - 1) \div Page - first + 1
           lo(i) == Largest(o.a, (first + i - 1) * Page)
           hi(i) == Least(o.a + o.n, (first + i) * Page)
           tar(i)   == Single(Xfer("tar", lo(i)))
           words(i) == Repeat(o, lo(i), hi(i))
           f == [j \in 1 .. 2 * k |-> IF j % 2 = 1 THEN tar((j + 1) \div 2) ELSE words(j \div 2)]
<1>1. Page \in Nat \ {0}
  BY SizesAssumption
<1>2. first \in Int /\ k \in Int
  BY <1>1
<1>3. Transfers(o) = f
  BY DEF Transfers, Flatten2
<1>4. ASSUME NEW i \in Int PROVE lo(i) \in Int /\ hi(i) \in Int
  <2> HIDE DEF first
  <2>1. first \in Int
    BY <1>2 DEF first
  <2>2. (first + i - 1) * Page \in Int /\ (first + i) * Page \in Int
    BY <1>1, <2>1
  <2> QED
    BY <2>2 DEF Least, Largest
<1> HIDE DEF lo, hi
<1>5. ASSUME NEW i \in Int PROVE CalmStage(words(i)) /\ NoReset(words(i))
  BY <1>4, RepeatCalm
<1>6. ASSUME NEW i \in Int PROVE CalmStage(tar(i)) /\ NoReset(tar(i))
  <2>1. Single(Xfer("tar", lo(i))).pk = <<Xfer("tar", lo(i))>> /\ Single(Xfer("tar", lo(i))).then = NoAp
    BY DEF Single, Stage
  <2>2. CalmPacket(Xfer("tar", lo(i))) /\ Xfer("tar", lo(i)).cmd # "swj"
    BY XferIs
  <2> QED
    BY <2>1, <2>2, SingleCalm
<1> HIDE DEF first, k, tar, words
<1>7. ASSUME NEW j \in DOMAIN f PROVE CalmStage(f[j]) /\ NoReset(f[j])
  <2>1. j \in 1 .. 2 * k /\ j \in Int
    BY <1>2
  <2>2. (j + 1) \div 2 \in Int /\ j \div 2 \in Int
    BY <2>1
  <2>3. f[j] = tar((j + 1) \div 2) \/ f[j] = words(j \div 2)
    BY <2>1
  <2> QED
    BY <1>5, <1>6, <2>2, <2>3
<1> QED
  BY <1>3, <1>7

LEMMA BatchCalm ==
    ASSUME NEW o, IsSeq(o.regs)
    PROVE  CalmStage(BatchOf(o)) /\ NoReset(BatchOf(o))
<1> DEFINE tar(i) == <<"tar", o.regs[i]>>
           drw(i) == <<"drw", Rd>>
           acc == [j \in 1 .. 2 * Len(o.regs) |-> IF j % 2 = 1 THEN tar((j + 1) \div 2) ELSE drw(j \div 2)]
           n == Ceil(Len(acc), Batch)
           part(p) == SubSeq(acc, (p - 1) * Batch + 1, Least(p * Batch, Len(acc)))
           pk(p) == Packet("xfer", part(p))
           f == [p \in 1 .. n |-> pk(p)]
           S == {acc[i] : i \in 1 .. Len(acc)}
<1>1. BatchOf(o).pk = f /\ BatchOf(o).then = NoAp
  BY DEF BatchOf, Stage, Flatten2
<1>2. 2 * Len(o.regs) \in Nat
  BY SeqShape
<1>3. Len(acc) \in Nat /\ DOMAIN acc = 1 .. Len(acc)
  <2>1. acc = [j \in 1 .. 2 * Len(o.regs) |-> acc[j]] /\ DOMAIN acc = 1 .. 2 * Len(o.regs)
    OBVIOUS
  <2> HIDE DEF acc
  <2> QED
    BY <1>2, <2>1, FunSeq
<1>4. \A j \in DOMAIN acc : CalmAccess(acc[j])
  BY DEF CalmAccess
<1> HIDE DEF acc
<1>5. n \in Int
  BY <1>3, CeilInt, SizesAssumption
<1>6. ASSUME NEW p \in 1 .. n PROVE CalmPacket(pk(p)) /\ pk(p).cmd # "swj"
  <2> DEFINE a == (p - 1) * Batch + 1
             b == Least(p * Batch, Len(acc))
  <2>1. p \in Int /\ p >= 1 /\ Batch \in Nat \ {0}
    BY <1>5, SizesAssumption
  <2>2. a \in Int /\ a >= 1
    BY <2>1
  <2>3. p * Batch \in Int
    BY <2>1
  <2>4. b \in Int /\ b <= Len(acc)
    BY <1>3, <2>3 DEF Least
  <2>5. part(p) = SubSeq(acc, a, b)
    OBVIOUS
  <2> HIDE DEF a, b
  <2>6. \A i \in a .. b : acc[i] \in S
    BY <1>3, <2>2, <2>4
  <2> HIDE DEF S
  <2>7. SubSeq(acc, a, b) \in Seq(S)
    BY <2>2, <2>4, <2>6, SubSeqProperties
  <2>8. \A x \in S : CalmAccess(x)
    BY <1>3, <1>4 DEF S
  <2> DEFINE w == part(p)
  <2>9. w \in Seq(S)
    BY <2>5, <2>7
  <2>10. pk(p).acc = w /\ pk(p).cmd = "xfer"
    BY DEF Packet
  <2> HIDE DEF w, pk
  <2>11. \A i \in DOMAIN w : w[i] \in S
    BY <2>9
  <2> QED
    BY <2>8, <2>9, <2>10, <2>11 DEF CalmPacket, IsSeq
<1> HIDE DEF n, pk
<1>7. f = [p \in 1 .. n |-> f[p]] /\ DOMAIN f = 1 .. n
  OBVIOUS
<1>8. \A p \in DOMAIN f : CalmPacket(f[p]) /\ f[p].cmd # "swj"
  BY <1>6
<1> HIDE DEF f
<1>9. IsSeq(f)
  BY <1>5, <1>7, IntFunSeq
<1> QED
  BY <1>1, <1>8, <1>9 DEF CalmStage, NoReset

LEMMA InitSwdCalm == \A i \in 1 .. Len(InitSwd) : CalmStage(InitSwd[i])
<1> DEFINE P(c) == Single(Packet(c, <<>>))
           id == Single(Xfer("id", Rd))
           T == {P("connect"), P("clock"), P("config"), P("swd"), P("swj"), id, ClearErrors, P("led")}
<1>1. ASSUME NEW c PROVE CalmStage(P(c))
  <2> DEFINE p == Packet(c, <<>>)
  <2>1. Single(p).pk = <<p>> /\ Single(p).then = NoAp
    BY DEF Single, Stage
  <2>2. CalmPacket(p)
    BY NoAccess
  <2> QED
    BY <2>1, <2>2, SingleCalm
<1>2. CalmStage(id)
  <2>1. id.pk = <<Xfer("id", Rd)>> /\ id.then = NoAp
    BY DEF Single, Stage
  <2> QED
    BY <2>1, XferIs, SingleCalm
<1>3. InitSwd = <<P("connect"), P("clock"), P("config"), P("swd"), P("swj"), P("swj"), P("swj"), P("swj"),
                  id, ClearErrors, P("led")>>
  BY DEF InitSwd
<1> HIDE DEF P, id
<1>4. InitSwd \in Seq(T)
  BY <1>3
<1>5. \A i \in 1 .. Len(InitSwd) : InitSwd[i] \in T
  BY <1>4, ElementOfSeq, LenProperties
<1> QED
  BY <1>1, <1>2, <1>5, ClearErrorsCalm

LEMMA SelStageIs ==
    ASSUME NEW ap
    PROVE  /\ SelStage(ap).pk = <<Xfer("select", ap)>> /\ SelStage(ap).then = NoAp
           /\ SelStage(ap).test = FALSE /\ SelStage(ap).soft = FALSE /\ NoReset(SelStage(ap))
           /\ Len(SelStage(ap).pk) = 1 /\ SelStage(ap).pk[1] = Xfer("select", ap)
<1>1. /\ SelStage(ap).pk = <<Xfer("select", ap)>> /\ SelStage(ap).then = NoAp
      /\ SelStage(ap).test = FALSE /\ SelStage(ap).soft = FALSE
  BY DEF SelStage, Single, Stage
<1> DEFINE p == Xfer("select", ap)
<1>2. p.cmd = "xfer"
  BY XferIs
<1> HIDE DEF p
<1>3. Len(<<p>>) = 1 /\ <<p>>[1] = p /\ DOMAIN <<p>> = {1}
  BY SingleSeq, SeqShape
<1> QED
  BY <1>1, <1>2, <1>3 DEF NoReset, p

LEMMA CswStageIs ==
    ASSUME NEW ap
    PROVE  /\ CswStage(ap).pk = <<Xfer("csw", Mode(ap))>> /\ CswStage(ap).then = ap
           /\ CswStage(ap).test = FALSE /\ CswStage(ap).soft = FALSE /\ NoReset(CswStage(ap))
           /\ Len(CswStage(ap).pk) = 1 /\ CswStage(ap).pk[1] = Xfer("csw", Mode(ap))
<1> DEFINE p == Xfer("csw", Mode(ap))
<1>1. /\ CswStage(ap).pk = <<p>> /\ CswStage(ap).then = ap
      /\ CswStage(ap).test = FALSE /\ CswStage(ap).soft = FALSE
  <2> HIDE DEF p
  <2>1. CswStage(ap) = [[pk |-> <<p>>, then |-> NoAp, test |-> FALSE, soft |-> FALSE] EXCEPT !.then = ap]
    BY DEF CswStage, Single, Stage, p
  <2> QED
    BY <2>1
<1>2. p.cmd = "xfer"
  BY XferIs
<1> HIDE DEF p
<1>3. Len(<<p>>) = 1 /\ <<p>>[1] = p /\ DOMAIN <<p>> = {1}
  BY SingleSeq, SeqShape
<1> QED
  BY <1>1, <1>2, <1>3 DEF NoReset, p

\* What an operation that needs ap sends.
AllQuiet(s) == IsSeq(s) /\ \A j \in 1 .. Len(s) : CalmStage(s[j]) /\ NoReset(s[j])
Begins(s, ap) ==
    /\ IsSeq(s)
    /\ \A j \in 1 .. Len(s) : cur = ap \/ j > 2 => CalmStage(s[j]) /\ NoReset(s[j])
    /\ cur # ap => Len(s) >= 2 /\ s[1] = SelStage(ap) /\ s[2] = CswStage(ap)

LEMMA OneQuiet == ASSUME NEW x, CalmStage(x), NoReset(x) PROVE AllQuiet(<<x>>) /\ Len(<<x>>) = 1
<1>1. IsSeq(<<x>>) /\ Len(<<x>>) = 1 /\ <<x>>[1] = x
  BY SingleSeq
<1> QED
  BY <1>1 DEF AllQuiet

LEMMA SelectBegins == ASSUME NEW ap PROVE Begins(Select(ap), ap)
<1>1. CASE cur = ap
  <2>1. Select(ap) = <<>>
    BY <1>1 DEF Select
  <2>2. IsSeq(<<>>) /\ 1 .. Len(<<>>) = {}
    BY NothingSeq
  <2> QED
    BY <1>1, <2>1, <2>2 DEF Begins
<1>2. CASE cur # ap
  <2> DEFINE x == SelStage(ap)
             y == CswStage(ap)
  <2>1. Select(ap) = <<x, y>>
    BY <1>2 DEF Select, SelectAp, SelStage, CswStage, Mode
  <2> HIDE DEF x, y
  <2>2. Len(<<x, y>>) = 2 /\ <<x, y>>[1] = x /\ <<x, y>>[2] = y /\ <<x, y>> \in Seq({x, y})
    OBVIOUS
  <2>3. IsSeq(Select(ap)) /\ Len(Select(ap)) = 2 /\ Select(ap)[1] = x /\ Select(ap)[2] = y
    BY <2>1, <2>2 DEF IsSeq
  <2>4. \A j \in 1 .. 2 : ~(j > 2)
    OBVIOUS
  <2> QED
    BY <1>2, <2>3, <2>4 DEF Begins, x, y
<1> QED
  BY <1>1, <1>2

LEMMA BeginsMore ==
    ASSUME NEW s, NEW t, NEW ap, Begins(s, ap), AllQuiet(t)
    PROVE  Begins(s \o t, ap) /\ Len(s \o t) = Len(s) + Len(t)
<1> DEFINE u == s \o t
<1>1. /\ IsSeq(u) /\ Len(u) = Len(s) + Len(t) /\ Len(s) \in Nat /\ Len(t) \in Nat
      /\ \A i \in 1 .. Len(s) : u[i] = s[i]
      /\ \A i \in 1 .. Len(t) : u[Len(s) + i] = t[i]
  BY ConcatSeq, SeqShape DEF Begins, AllQuiet
<1> HIDE DEF u
<1>2. ASSUME NEW j \in 1 .. Len(u), cur = ap \/ j > 2 PROVE CalmStage(u[j]) /\ NoReset(u[j])
  <2>1. CASE j \in 1 .. Len(s)
    BY <1>1, <1>2, <2>1 DEF Begins
  <2>2. CASE j \notin 1 .. Len(s)
    <3>1. j - Len(s) \in 1 .. Len(t) /\ j = Len(s) + (j - Len(s))
      BY <1>1, <2>2
    <3>2. u[j] = t[j - Len(s)]
      BY <1>1, <3>1
    <3> QED
      BY <3>1, <3>2 DEF AllQuiet
  <2> QED
    BY <2>1, <2>2
<1>3. cur # ap => Len(u) >= 2 /\ u[1] = SelStage(ap) /\ u[2] = CswStage(ap)
  <2> SUFFICES ASSUME cur # ap PROVE Len(u) >= 2 /\ u[1] = SelStage(ap) /\ u[2] = CswStage(ap)
    OBVIOUS
  <2>1. Len(s) >= 2 /\ s[1] = SelStage(ap) /\ s[2] = CswStage(ap)
    BY DEF Begins
  <2> QED
    BY <1>1, <2>1
<1> QED
  BY <1>1, <1>2, <1>3 DEF Begins, u

\* A plan that begins so, when cur_ap has been forgotten as it must be.
LEMMA FrontBegins ==
    ASSUME NEW ap \in APs, Begins(stages', ap), stages' # <<>>, ~Setup(op'),
           cur' = (IF cur # ap THEN NoAp ELSE cur)
    PROVE  \E k \in {0, 2} : Front(ap, k)'
<1>1. CASE cur = ap
  <2>1. Front(ap, 0)'
    <3>1. IsSeq(stages') /\ Len(stages') \in Nat
      BY SeqShape DEF Begins
    <3> QED
      BY <1>1, <3>1 DEF Front, Begins
  <2> QED
    BY <2>1
<1>2. CASE cur # ap
  <2>1. /\ Len(stages') >= 2 /\ stages'[1] = SelStage(ap) /\ stages'[2] = CswStage(ap) /\ cur' = NoAp
        /\ IsSeq(stages')
    BY <1>2 DEF Begins
  <2>2. \A j \in 1 .. Len(stages') : j > 2 => CalmStage(stages'[j]) /\ NoReset(stages'[j])
    BY <1>2 DEF Begins
  <2>3. \A j \in 1 .. Len(stages') : NoReset(stages'[j])
    <3>1. NoReset(SelStage(ap)) /\ NoReset(CswStage(ap))
      BY SelStageIs, CswStageIs
    <3> SUFFICES ASSUME NEW j \in 1 .. Len(stages') PROVE NoReset(stages'[j])
      OBVIOUS
    <3>2. Len(stages') \in Nat
      BY <2>1, SeqShape
    <3>3. j = 1 \/ j = 2 \/ j > 2
      BY <3>2
    <3> QED
      BY <2>1, <2>2, <3>1, <3>3
  <2>4. Front(ap, 2)'
    BY <2>1, <2>2, <2>3 DEF Front
  <2> QED
    BY <2>4
<1> QED
  BY <1>1, <1>2

LEMMA FrontStarts ==
    ASSUME NEW o \in Ops, Start(o)
    PROVE  \E ap \in APs, k \in {0, 2} : Front(ap, k)'
<1>1. op' = o /\ stages' = Plan(o) /\ cur' = (IF Setup(o) \/ cur # Needs(o) THEN NoAp ELSE cur) /\ stages' # <<>>
  BY PlanOK DEF Start, Forget
<1>2. CASE Setup(o)
  <2>1. stages' = InitSwd /\ cur' = NoAp
    BY <1>1, <1>2 DEF Plan, Setup
  <2>2. IsSeq(InitSwd) /\ Len(InitSwd) = 11
    BY InitSwdIs
  <2>3. Front(DM, 0)'
    BY <1>1, <1>2, <2>1, <2>2, InitSwdCalm DEF Front
  <2> QED
    BY <2>3 DEF APs
<1>3. CASE o.name \in {"read", "write"}
  <2>1. o.a \in Int /\ o.n \in Int /\ Needs(o) = MEM /\ ~Setup(o)
    BY <1>3, SizesAssumption DEF Ops, Needs, Setup
  <2> DEFINE x == Select(MEM)
             y == Transfers(o)
             z == <<StickyError>>
  <2>2. AllQuiet(y)
    <3>1. IsSeq(y)
      BY <2>1, TransfersOK DEF StagesOK
    <3> QED
      BY <2>1, <3>1, TransfersCalm, SeqShape DEF AllQuiet
  <2>3. AllQuiet(z) /\ Begins(x, MEM)
    BY StickyErrorCalm, OneQuiet, SelectBegins
  <2>4. stages' = (x \o y) \o z
    BY <1>1, <1>3 DEF Plan
  <2> HIDE DEF x, y, z
  <2>5. Begins(stages', MEM)
    BY <2>2, <2>3, <2>4, BeginsMore
  <2> QED
    BY <1>1, <2>1, <2>5, FrontBegins DEF APs
<1>4. CASE o.name = "batch"
  <2>1. IsSeq(o.regs)
    <3>1. o.regs \in UNION {[1 .. k -> Registers] : k \in 1 .. 2}
      BY <1>4 DEF Ops
    <3>2. PICK k \in 1 .. 2 : o.regs \in [1 .. k -> Registers]
      BY <3>1
    <3>3. o.regs \in Seq(Registers)
      BY <3>2
    <3> QED
      BY <3>3 DEF IsSeq
  <2>2. Needs(o) = DM /\ ~Setup(o)
    BY <1>4 DEF Needs, Setup
  <2> DEFINE x == Select(DM)
             y == <<BatchOf(o)>>
  <2>3. AllQuiet(y) /\ Begins(x, DM)
    BY <2>1, BatchCalm, OneQuiet, SelectBegins
  <2>4. stages' = x \o y
    BY <1>1, <1>4 DEF Plan
  <2> HIDE DEF x, y
  <2>5. Begins(stages', DM)
    BY <2>3, <2>4, BeginsMore
  <2> QED
    BY <1>1, <2>2, <2>5, FrontBegins DEF APs
<1> QED
  BY <1>2, <1>3, <1>4 DEF Ops, Setup

LEMMA MoreThanOne == ASSUME NEW n \in Nat PROVE (n > 1 => n # 1) /\ (n # 1 /\ n > 0 => n > 1)
OBVIOUS

\* One stage further, or clear_errors() after an error.
LEMMA FrontHead ==
    ASSUME NEW ap \in APs, NEW k \in {0, 1, 2}, Front(ap, k)
    PROVE  /\ Head(stages) = stages[1] /\ 1 \in 1 .. Len(stages) /\ Len(stages) \in Nat
           /\ IsSeq(Head(stages).pk) /\ \A i \in DOMAIN Head(stages).pk : IsSeq(Head(stages).pk[i].acc)
           /\ k = 0 => CalmStage(Head(stages))
           /\ k = 1 => Head(stages) = CswStage(ap)
           /\ k = 2 => Head(stages) = SelStage(ap)
           /\ ~Setup(op) => NoReset(Head(stages))
<1>1. Head(stages) = stages[1] /\ 1 \in 1 .. Len(stages) /\ Len(stages) \in Nat
  <2>1. IsSeq(stages) /\ stages # <<>>
    BY DEF Front
  <2> QED
    BY <2>1, TailSeq, SeqShape
<1>2. k = 0 => CalmStage(stages[1])
  BY <1>1 DEF Front
<1>3. (k = 1 => stages[1] = CswStage(ap)) /\ (k = 2 => stages[1] = SelStage(ap))
  BY DEF Front
<1>4. ~Setup(op) => NoReset(stages[1])
  BY <1>1 DEF Front
<1>5. ASSUME NEW p, IsSeq(p.acc), stages[1].pk = <<p>>
      PROVE  IsSeq(stages[1].pk) /\ \A i \in DOMAIN stages[1].pk : IsSeq(stages[1].pk[i].acc)
  <2>1. IsSeq(<<p>>) /\ <<p>>[1] = p /\ DOMAIN <<p>> = {1}
    BY SingleSeq, SeqShape
  <2> QED
    BY <1>5, <2>1
<1>6. IsSeq(stages[1].pk) /\ \A i \in DOMAIN stages[1].pk : IsSeq(stages[1].pk[i].acc)
  <2>1. CASE k = 0
    BY <1>2, <2>1 DEF CalmStage, CalmPacket
  <2>2. CASE k = 1
    <3>1. stages[1].pk = <<Xfer("csw", Mode(ap))>> /\ IsSeq(Xfer("csw", Mode(ap)).acc)
      BY <1>3, <2>2, CswStageIs, XferIs
    <3> QED
      BY <1>5, <3>1
  <2>3. CASE k = 2
    <3>1. stages[1].pk = <<Xfer("select", ap)>> /\ IsSeq(Xfer("select", ap).acc)
      BY <1>3, <2>3, SelStageIs, XferIs
    <3> QED
      BY <1>5, <3>1
  <2> QED
    BY <2>1, <2>2, <2>3
<1> QED
  BY <1>1, <1>2, <1>3, <1>4, <1>6

LEMMA FrontTail ==
    ASSUME NEW ap \in APs, NEW k \in {0, 1, 2}, Front(ap, k), Len(stages) # 1,
           stages' = Tail(stages), op' = op, k # 1 => cur' = cur
    PROVE  Front(ap, IF k = 0 THEN 0 ELSE k - 1)'
<1> DEFINE m == IF k = 0 THEN 0 ELSE k - 1
<1>1. /\ IsSeq(Tail(stages)) /\ Len(Tail(stages)) = Len(stages) - 1 /\ Len(stages) > 0 /\ Len(stages) \in Nat
      /\ \A i \in 1 .. Len(stages) - 1 : Tail(stages)[i] = stages[i + 1]
  BY TailSeq, SeqShape DEF Front
<1>2. Len(stages') = Len(stages) - 1 /\ Len(stages) > 1 /\ IsSeq(stages') /\ stages' # <<>>
  <2>3. Len(stages) > 1
    BY <1>1, MoreThanOne, Zenon
  <2>1. Len(stages') = Len(stages) - 1 /\ Len(stages) > 1 /\ IsSeq(stages')
    BY <1>1, <2>3
  <2>2. Len(stages') # 0
    BY <1>1, <2>1
  <2> QED
    BY <2>1, <2>2, NothingSeq
<1>3. \A i \in 1 .. Len(stages') : stages'[i] = stages[i + 1] /\ i + 1 \in 1 .. Len(stages)
  BY <1>1, <1>2
<1>4. m \in {0, 1} /\ (\A i \in Nat : i > m => i + 1 > k) /\ (m = 1 => k = 2) /\ (Setup(op) => m = 0)
  BY DEF Front
<1>5. Len(stages') >= m
  BY <1>1, <1>2, <1>4 DEF Front
<1>6. \A i \in 1 .. Len(stages') : i > m => CalmStage(stages'[i])
  <2> SUFFICES ASSUME NEW i \in 1 .. Len(stages'), i > m PROVE CalmStage(stages'[i])
    OBVIOUS
  <2>1. i \in Nat
    BY <1>1, <1>2
  <2>2. i + 1 \in 1 .. Len(stages) /\ i + 1 > k
    BY <1>3, <1>4, <2>1
  <2>3. CalmStage(stages[i + 1])
    BY <2>2 DEF Front
  <2> QED
    BY <1>3, <2>3
<1>7. m = 1 => stages'[1] = CswStage(ap) /\ cur' = NoAp
  <2> SUFFICES ASSUME m = 1 PROVE stages'[1] = CswStage(ap) /\ cur' = NoAp
    OBVIOUS
  <2>1. k = 2 /\ stages[2] = CswStage(ap) /\ cur = NoAp
    BY <1>4 DEF Front
  <2>4. cur' = NoAp /\ 1 + 1 = 2
    BY <2>1
  <2>2. 1 \in 1 .. Len(stages')
    BY <1>1, <1>2
  <2>3. stages'[1] = stages[1 + 1]
    BY <1>3, <2>2
  <2> QED
    BY <2>1, <2>3, <2>4
<1>8. Setup(op)' => m = 0 /\ cur' = NoAp
  <2>1. Setup(op)' = Setup(op)
    BY DEF Setup
  <2> QED
    BY <1>4, <2>1 DEF Front
<1>9. ~Setup(op)' => \A i \in 1 .. Len(stages') : NoReset(stages'[i])
  <2>1. Setup(op)' = Setup(op)
    BY DEF Setup
  <2> QED
    BY <1>3, <2>1 DEF Front
<1>10. m # 2
  BY <1>4
<1> HIDE DEF m
<1>11. m > 0 => m = 1
  BY <1>4
<1>12. Front(ap, m)'
  BY <1>2, <1>5, <1>6, <1>7, <1>8, <1>9, <1>10, <1>11 DEF Front
<1> QED
  BY <1>12 DEF m

LEMMA FrontClear ==
    ASSUME NEW ap \in APs, NEW k \in {0, 1, 2}, Front(ap, k), stages' = <<ClearErrors>>, op' = op, Setup(op) => cur' = cur
    PROVE  Front(ap, 0)'
<1>1. IsSeq(<<ClearErrors>>) /\ Len(<<ClearErrors>>) = 1 /\ <<ClearErrors>>[1] = ClearErrors
  BY SingleSeq
<1>2. \A j \in 1 .. Len(stages') : stages'[j] = ClearErrors
  BY <1>1
<1>3. stages' # <<>>
  BY <1>1, NothingSeq
<1> QED
  BY <1>1, <1>2, <1>3, ClearErrorsCalm DEF Front, Setup

LEMMA RaiseFront ==
    ASSUME NEW ap \in APs, NEW k \in {0, 1, 2}, Front(ap, k), Raise \/ ClearAndRaise, op' = op, cur' = cur
    PROVE  busy' = TRUE => Front(ap, 0)'
<1>1. CASE ClearAndRaise
  BY <1>1, FrontClear DEF ClearAndRaise
<1>2. CASE Raise /\ Head(stages).soft /\ Len(stages) > 1
  <2> DEFINE h == Head(stages)
  <2>1. k = 0
    <3>1. h.soft # FALSE
      BY <1>2
    <3>2. (k = 1 => h = CswStage(ap)) /\ (k = 2 => h = SelStage(ap))
      BY FrontHead
    <3>3. CswStage(ap).soft = FALSE /\ SelStage(ap).soft = FALSE
      BY SelStageIs, CswStageIs
    <3> HIDE DEF h
    <3> QED
      BY <3>1, <3>2, <3>3
  <2>2. stages' = Tail(stages) /\ Len(stages) > 1
    BY <1>2 DEF Raise, GoOn
  <2>3. Len(stages) # 1
    <3>1. Len(stages) \in Nat /\ Len(stages) > 1
      BY <1>2, FrontHead
    <3> QED
      BY <3>1, MoreThanOne, Zenon
  <2> QED
    BY <2>1, <2>2, <2>3, FrontTail
<1>3. CASE Raise /\ ~(Head(stages).soft /\ Len(stages) > 1)
  <2>1. busy' = FALSE
    BY <1>3 DEF Raise, End
  <2> QED
    BY <2>1
<1> QED
  BY <1>1, <1>2, <1>3

\* A stage that has been answered.
LEMMA JudgeFront ==
    ASSUME NEW ap \in APs, NEW k \in {0, 1, 2}, Front(ap, k), NEW all, Judge(all), op' = op
    PROVE  \/ cur' = cur /\ (busy' = TRUE => Front(ap, 0)')
           \/ /\ k = 1 /\ cur' = ap /\ (busy' = TRUE => Front(ap, 0)')
              /\ \A i \in DOMAIN all : all[i].ack = "ok"
           \/ /\ k = 2 /\ cur' = cur /\ (busy' = TRUE => Front(ap, 1)')
              /\ \A i \in DOMAIN all : all[i].ack = "ok"
<1> DEFINE raised == (Raise \/ ClearAndRaise) /\ cur' = cur
           good == \A i \in DOMAIN all : all[i].ack = "ok"
           h == Head(stages)
           then == cur' = IF h.then = NoAp THEN cur ELSE h.then
           on == IF Len(stages) = 1 THEN End(ok) ELSE GoOn(Tail(stages))
           m == IF k = 0 THEN 0 ELSE k - 1
<1>1. raised \/ (good /\ then /\ (ClearAndRaise \/ on))
  BY DEF Judge, Checked
<1>2. /\ k = 0 => h.then = NoAp
      /\ k = 1 => h.then = ap
      /\ k = 2 => h.then = NoAp
  <2>1. /\ k = 0 => CalmStage(h)
        /\ k = 1 => h = CswStage(ap)
        /\ k = 2 => h = SelStage(ap)
    BY FrontHead
  <2>2. CswStage(ap).then = ap /\ SelStage(ap).then = NoAp
    BY SelStageIs, CswStageIs
  <2> HIDE DEF h
  <2> QED
    BY <2>1, <2>2 DEF CalmStage
<1>3. ap # NoAp
  BY DEF APs, NoAp, DM, MEM
<1> HIDE DEF h
<1>4. then => IF k = 1 THEN cur' = ap ELSE cur' = cur
  BY <1>2, <1>3
<1>5. Setup(op) => k = 0
  BY DEF Front
<1>6. CASE raised
  BY <1>6, RaiseFront
<1>7. CASE good /\ then /\ ClearAndRaise
  <2>1. stages' = <<ClearErrors>> /\ (Setup(op) => cur' = cur)
    BY <1>4, <1>5, <1>7 DEF ClearAndRaise
  <2>2. Front(ap, 0)'
    BY <2>1, FrontClear
  <2> HIDE DEF then
  <2> QED
    BY <1>4, <1>7, <2>2
<1>8. CASE good /\ then /\ on
  <2>1. busy' = TRUE => Len(stages) # 1 /\ stages' = Tail(stages)
    BY <1>8 DEF End, GoOn
  <2>2. k # 1 => cur' = cur
    BY <1>4, <1>8
  <2>3. busy' = TRUE => Front(ap, m)'
    BY <2>1, <2>2, FrontTail
  <2>4. m = IF k = 2 THEN 1 ELSE 0
    OBVIOUS
  <2> HIDE DEF m, then, on
  <2>5. busy' = TRUE => Front(ap, IF k = 2 THEN 1 ELSE 0)'
    BY <2>3, <2>4
  <2>6. CASE k = 0
    BY <1>4, <1>8, <2>5, <2>6
  <2>7. CASE k = 1
    BY <1>4, <1>8, <2>5, <2>7
  <2>8. CASE k = 2
    BY <1>4, <1>8, <2>5, <2>8
  <2> QED
    BY <2>6, <2>7, <2>8
<1> QED
  BY <1>1, <1>6, <1>7, <1>8

LEMMA ModeIs == ASSUME NEW ap \in APs PROVE (Mode(ap) = Increment <=> ap = MEM) /\ ap # NoAp
BY DEF Mode, Increment, Fixed, APs, DM, MEM, NoAp

\* select() sends one packet at a time.
LEMMA SelectSends ==
    ASSUME NEW ap \in APs, NEW k \in {1, 2}, Front(ap, k)
    PROVE  /\ Len(Head(stages).pk) = 1
           /\ Head(stages).pk[1] = IF k = 2 THEN Xfer("select", ap) ELSE Xfer("csw", Mode(ap))
<1>1. (k = 1 => Head(stages) = CswStage(ap)) /\ (k = 2 => Head(stages) = SelStage(ap))
  BY FrontHead
<1>2. CASE k = 1
  <2>1. Head(stages) = CswStage(ap) /\ k # 2
    BY <1>1, <1>2
  <2>2. Len(CswStage(ap).pk) = 1 /\ CswStage(ap).pk[1] = Xfer("csw", Mode(ap))
    BY CswStageIs
  <2> QED
    BY <2>1, <2>2
<1>3. CASE k = 2
  BY <1>1, <1>3, SelStageIs
<1> QED
  BY <1>2, <1>3

LEMMA SelectPipe ==
    ASSUME NEW ap \in APs, NEW k \in {1, 2}, Front(ap, k), Matched, busy
    PROVE  /\ Len(flight) \in Nat /\ Len(got) \in Nat /\ sent = Len(got) + Len(flight) /\ sent <= 1
           /\ \A i \in DOMAIN flight :
                i = 1 /\ Len(got) = 0 /\ flight[1].pkt = IF k = 2 THEN Xfer("select", ap) ELSE Xfer("csw", Mode(ap))
<1>1. Len(Head(stages).pk) = 1
  BY SelectSends
<1>2. IsSeq(flight) /\ IsSeq(got) /\ sent = Len(got) + Len(flight) /\ sent \in 0 .. 1
  BY <1>1 DEF Matched
<1>3. Len(flight) \in Nat /\ Len(got) \in Nat /\ DOMAIN flight = 1 .. Len(flight)
  BY <1>2, SeqShape
<1>4. ASSUME NEW i \in DOMAIN flight
      PROVE  i = 1 /\ Len(got) = 0 /\ flight[1].pkt = IF k = 2 THEN Xfer("select", ap) ELSE Xfer("csw", Mode(ap))
  <2>1. i = 1 /\ Len(got) = 0 /\ 1 \in 1 .. Len(flight) /\ Len(got) + 1 = 1
    BY <1>2, <1>3
  <2>2. flight[1].pkt = Head(stages).pk[Len(got) + 1]
    BY <2>1 DEF Matched
  <2> QED
    BY <2>1, <2>2, SelectSends
<1> QED
  BY <1>2, <1>3, <1>4

\* What all proofs of a step start from, and what they end with.
Whole == Pipe /\ IInv /\ Orderly /\ Planned /\ CurApTrue
Held  == Planned /\ CurApTrue

LEMMA RaiseHeld ==
    ASSUME Whole, busy, Raise \/ ClearAndRaise, UNCHANGED <<op, cur, dp, link>>, late' = TRUE \/ late' = late
    PROVE  Held'
<1>1. PICK ap \in APs, k \in {0, 1, 2} : Front(ap, k)
  BY DEF Whole, Planned
<1>2. busy' = TRUE => Front(ap, 0)'
  BY <1>1, RaiseFront
<1>3. Selected(ap, 0)'
  BY DEF Selected
<1>4. busy' \in BOOLEAN
  BY DEF Raise, ClearAndRaise, GoOn, End, Whole, Pipe
<1>5. Planned'
  BY <1>2, <1>3, <1>4 DEF Planned
<1>6. CurApTrue'
  BY DEF Whole, CurApTrue
<1> QED
  BY <1>5, <1>6 DEF Held

LEMMA StartHeld ==
    ASSUME Whole, NEW o \in Ops, Start(o), ~late' => Len(flight') = 0, late' = late \/ Setup(o)
    PROVE  Held'
<1>1. PICK ap \in APs, k \in {0, 2} : Front(ap, k)'
  BY FrontStarts
<1>2. ~late' => Selected(ap, k)'
  BY DEF Selected, Took
<1>3. Planned'
  BY <1>1, <1>2 DEF Planned
<1>4. cur' = NoAp \/ (cur' = cur /\ late' = late /\ dp' = dp /\ link' = link)
  BY DEF Start, Forget
<1>5. CurApTrue'
  BY <1>4 DEF Whole, CurApTrue
<1> QED
  BY <1>3, <1>5 DEF Held

LEMMA BeginHeld == ASSUME Whole, NEW o \in Ops, Begin(o) PROVE Held'
<1>1. Start(o) /\ flight' = flight /\ late' = late /\ ~busy
  BY DEF Begin
<1>2. ~late' => Len(flight') = 0
  BY <1>1, NothingSeq DEF Whole, IInv, Matched
<1> QED
  BY <1>1, <1>2, StartHeld

LEMMA OpenHeld == ASSUME Whole, Open PROVE Held'
<1>1. Start([name |-> "open"]) /\ flight' = Unanswered /\ late' = (Unanswered # <<>>)
  BY DEF Open
<1>2. ~late' => Len(flight') = 0
  BY <1>1, NothingSeq
<1>3. Setup([name |-> "open"])
  BY DEF Setup
<1> QED
  BY <1>1, <1>2, <1>3, StartHeld, OpenIsOp

LEMMA SendHeld == ASSUME Whole, Send PROVE Held'
<1>1. busy /\ sent < Len(Head(stages).pk) /\ late' = late
      /\ UNCHANGED <<op, busy, stages, cur, dp, link>>
  BY DEF Send, MaySend
<1>2. PICK ap \in APs, k \in {0, 1, 2} : Front(ap, k) /\ (~late => Selected(ap, k))
  BY <1>1 DEF Whole, Planned
<1>3. Front(ap, k)'
  BY <1>1, <1>2 DEF Front, Setup
<1>4. ASSUME ~late PROVE Selected(ap, k)'
  <2>1. CASE k = 0
    BY <2>1 DEF Selected
  <2>2. CASE k # 0
    <3>1. k \in {1, 2} /\ Matched
      BY <1>4, <2>2 DEF Whole, IInv
    <3>2. Len(Head(stages).pk) = 1 /\ Len(flight) \in Nat /\ Len(got) \in Nat /\ sent = Len(got) + Len(flight)
      BY <1>1, <1>2, <3>1, SelectSends, SelectPipe
    <3>3. sent < 1
      BY <1>1, <3>2
    <3>4. Len(flight) = 0
      BY <3>2, <3>3
    <3>5. flight'[1].ans = <<>>
      <4>1. flight'[Len(flight) + 1] = [pkt |-> Head(stages).pk[sent + 1], ans |-> <<>>] /\ Len(flight) + 1 = 1
        BY <3>4, SendPipe DEF Whole
      <4> QED
        BY <4>1
    <3>6. Selected(ap, k)
      BY <1>2, <1>4
    <3> QED
      BY <1>1, <3>5, <3>6 DEF Selected, Took
  <2> QED
    BY <2>1, <2>2
<1>5. Planned'
  BY <1>1, <1>2, <1>3, <1>4 DEF Planned
<1> QED
  BY <1>1, <1>5 DEF Held, Whole, CurApTrue

LEMMA LinkHeld == ASSUME Whole, LinkLost \/ LinkBack PROVE Held'
<1>1. UNCHANGED <<op, busy, stages, cur>> /\ late' = late /\ (link' = "down" \/ link' = "stale")
  BY DEF LinkLost, LinkBack, host
<1>2. CurApTrue' /\ \A ap, k : Selected(ap, k)'
  BY <1>1 DEF CurApTrue, Selected
<1>3. \A ap, k : Front(ap, k) => Front(ap, k)'
  BY <1>1 DEF Front, Setup
<1>4. Planned'
  BY <1>1, <1>2, <1>3 DEF Planned, Whole
<1> QED
  BY <1>2, <1>4 DEF Held

LEMMA RecvHeld == ASSUME Whole, Recv PROVE Held'
<1> DEFINE pk == Head(stages).pk
           ans == flight[1].ans[1]
           all == Append(got, ans)
<1>1. /\ busy /\ flight # <<>> /\ flight[1].ans # <<>> /\ flight' = Tail(flight)
      /\ IF ~Fits(ans, pk[Len(all)]) THEN Raise /\ UNCHANGED cur
         ELSE IF AllCome(all) THEN Judge(all)
         ELSE got' = all /\ UNCHANGED <<busy, ok, stages, sent, data, cur>>
      /\ UNCHANGED <<op, dp, link, late>>
  BY DEF Recv, Answered
<1>2. PICK ap \in APs, k \in {0, 1, 2} : Front(ap, k) /\ (~late => Selected(ap, k))
  BY <1>1 DEF Whole, Planned
<1>3. IsSeq(flight) /\ Len(flight) > 0 /\ Len(flight) \in Nat /\ Len(flight') = Len(flight) - 1
  BY <1>1, TailSeq, SeqShape DEF Whole, Pipe
<1>4. ASSUME ~late PROVE /\ Matched /\ IsSeq(all) /\ Len(all) = Len(got) + 1 /\ Len(got) + 1 \in DOMAIN all
                         /\ all[Len(got) + 1] = ans
  <2>1. Matched /\ IsSeq(got)
    BY <1>1, <1>4 DEF Whole, IInv, Matched
  <2> HIDE DEF ans
  <2>2. IsSeq(all) /\ Len(all) = Len(got) + 1 /\ all[Len(got) + 1] = ans /\ Len(got) \in Nat
    BY <2>1, AppendSeq, SeqShape
  <2>3. DOMAIN all = 1 .. Len(got) + 1
    BY <2>2, SeqShape
  <2>4. Len(got) + 1 \in DOMAIN all
    BY <2>2, <2>3
  <2> QED
    BY <2>1, <2>2, <2>4
<1>5. ASSUME ~late, k # 0
      PROVE  Len(flight') = 0 /\ Len(all) = Len(pk)
  <2>1. /\ k \in {1, 2} /\ Len(pk) = 1
        /\ Len(got) \in Nat /\ sent = Len(got) + Len(flight) /\ sent <= 1
    BY <1>1, <1>2, <1>4, <1>5, SelectSends, SelectPipe
  <2>2. Len(got) = 0 /\ Len(flight) = 1
    BY <1>3, <2>1
  <2>3. Len(all) = 1
    BY <1>4, <1>5, <2>2
  <2> QED
    BY <1>3, <2>1, <2>2, <2>3
<1>6. ASSUME ~late, \A i \in DOMAIN all : all[i].ack = "ok" PROVE Took
  <2>1. ans.ack = "ok"
    BY <1>4, <1>6
  <2> QED
    BY <1>1, <1>3, <2>1 DEF Took
<1>7. busy' \in BOOLEAN
  BY PipeNext DEF Whole, Pipe, Next, Host
<1> HIDE DEF ans, all, pk
<1>8. CASE Raise /\ UNCHANGED cur
  BY <1>1, <1>8, RaiseHeld
<1>9. CASE Judge(all)
  <2>1. CASE cur' = cur /\ (busy' = TRUE => Front(ap, 0)')
    <3>1. CurApTrue'
      BY <1>1, <2>1 DEF Whole, CurApTrue
    <3>2. Selected(ap, 0)'
      BY DEF Selected
    <3> QED
      BY <1>7, <2>1, <3>1, <3>2 DEF Held, Planned
  <2>2. CASE k = 1 /\ cur' = ap /\ (busy' = TRUE => Front(ap, 0)') /\ \A i \in DOMAIN all : all[i].ack = "ok"
    <3>1. ~late /\ link = "up" => dp.sel = ap /\ Moded(ap)
      BY <1>2, <1>6, <2>2 DEF Selected
    <3>2. CurApTrue'
      BY <1>1, <2>2, <3>1 DEF CurApTrue, Moded
    <3>3. Selected(ap, 0)'
      BY DEF Selected
    <3> QED
      BY <1>7, <2>2, <3>2, <3>3 DEF Held, Planned
  <2>3. CASE k = 2 /\ cur' = cur /\ (busy' = TRUE => Front(ap, 1)') /\ \A i \in DOMAIN all : all[i].ack = "ok"
    <3>1. CurApTrue'
      BY <1>1, <2>3 DEF Whole, CurApTrue
    <3>2. ~late /\ link = "up" => dp.sel = ap
      BY <1>2, <1>6, <2>3 DEF Selected
    <3>3. ~late => Len(flight') = 0
      BY <1>5, <2>3
    <3>4. ~late' => Selected(ap, 1)'
      BY <1>1, <3>2, <3>3 DEF Selected, Took
    <3> QED
      BY <1>7, <2>3, <3>1, <3>4 DEF Held, Planned
  <2> QED
    BY <1>1, <1>2, <1>9, <2>1, <2>2, <2>3, JudgeFront
<1>10. CASE ~AllCome(all) /\ UNCHANGED <<busy, stages, cur>>
  <2>1. ~late => k = 0
    BY <1>5, <1>10 DEF AllCome, pk
  <2>2. Front(ap, k)'
    BY <1>1, <1>2, <1>10 DEF Front, Setup
  <2>3. ~late' => Selected(ap, k)'
    BY <1>1, <2>1 DEF Selected
  <2>4. CurApTrue'
    BY <1>1, <1>10 DEF Whole, CurApTrue
  <2> QED
    BY <2>2, <2>3, <2>4 DEF Held, Planned
<1> QED
  BY <1>1, <1>8, <1>9, <1>10

\* What an answer of the probe leaves in the port.
LEMMA TransferIs ==
    ASSUME NEW i, Transfer(i), link = "up"
    PROVE  \E posted, stop, r : /\ r = RunTransfer(flight[i].pkt.acc, posted, stop)
                                /\ dp' = r.dp /\ Answer(i, r.ack, r.done, r.data)
BY DEF Transfer

LEMMA ExecutePort ==
    ASSUME Whole, NEW i \in DOMAIN flight, Transfer(i) \/ Abort(i) \/ LineReset(i) \/ Setting(i)
    PROVE  Port(dp') /\ (CalmPacket(flight[i].pkt) => dp'.sel = dp.sel /\ dp'.incr = dp.incr)
<1>1. Port(dp) /\ IsSeq(flight[i].pkt.acc)
  BY SeqShape DEF Whole, Orderly, Pipe
<1>2. CASE Transfer(i) /\ link = "up"
  <2>1. PICK posted, stop, r : r = RunTransfer(flight[i].pkt.acc, posted, stop) /\ dp' = r.dp
    BY <1>2, TransferIs
  <2> QED
    BY <1>1, <2>1, TransferPort DEF CalmPacket
<1>3. CASE dp' = dp
  BY <1>1, <1>3
<1>4. CASE dp' = [dp EXCEPT !.sticky = FALSE]
  BY <1>1, <1>4 DEF Port
<1> QED
  BY <1>2, <1>3, <1>4 DEF Transfer, Abort, LineReset, Setting

LEMMA SelectExecuted ==
    ASSUME Whole, ~late, busy, NEW ap \in APs, NEW k \in {1, 2}, Front(ap, k), Selected(ap, k),
           NEW i \in DOMAIN flight, Pending(i), Transfer(i) \/ Abort(i) \/ LineReset(i) \/ Setting(i), UNCHANGED host
    PROVE  Selected(ap, k)'
<1>1. /\ i = 1 /\ flight[1].pkt = (IF k = 2 THEN Xfer("select", ap) ELSE Xfer("csw", Mode(ap)))
      /\ flight[1].ans = <<>>
  BY SelectPipe DEF Pending, Whole, IInv
<1>2. flight[1].pkt.cmd = "xfer"
  BY <1>1, XferIs
<1>3. Transfer(1) /\ link' = link
  BY <1>1, <1>2 DEF Transfer, Abort, LineReset, Setting
<1>4. CASE link # "up"
  BY <1>3, <1>4 DEF Selected
<1>5. CASE link = "up"
  <2>1. PICK posted, stop, r : /\ r = RunTransfer(flight[1].pkt.acc, posted, stop)
                               /\ dp' = r.dp /\ Answer(1, r.ack, r.done, r.data)
    BY <1>3, <1>5, TransferIs
  <2>2. Took' => r.ack = "ok"
    <3>1. \/ flight'[1].ans = flight[1].ans
          \/ flight'[1].ans # <<>> /\ flight'[1].ans[1].ack = r.ack
      BY <1>1, <2>1, AnswerPipe DEF Whole
    <3> QED
      BY <1>1, <3>1 DEF Took
  <2>3. Port(dp) /\ IsSeq(flight[1].pkt.acc)
    BY <1>1, XferIs DEF Whole, Orderly
  <2> DEFINE acc == flight[1].pkt.acc
  <2>7. IsSeq(acc) /\ r = RunTransfer(acc, posted, stop)
    BY <2>1, <2>3
  <2> HIDE DEF acc
  <2>8. ASSUME NEW v, acc = <<<<"select", v>>>>, r.ack = "ok" PROVE r.dp.sel = v
    BY <2>3, <2>7, <2>8, TransferPort
  <2>9. ASSUME NEW v, acc = <<<<"csw", v>>>>
        PROVE  /\ r.dp.sel = dp.sel
               /\ r.ack = "ok" => r.dp.incr = IF v = Increment THEN dp.incr \cup {dp.sel} ELSE dp.incr \ {dp.sel}
    BY <2>3, <2>7, <2>9, TransferPort, SMTT(30)
  <2>5. CASE k = 2
    <3>1. acc = <<<<"select", ap>>>>
      BY <1>1, <2>5, XferIs DEF acc
    <3>2. r.ack = "ok" => r.dp.sel = ap
      BY <2>8, <3>1
    <3> QED
      BY <2>1, <2>2, <2>5, <3>2 DEF Selected
  <2>6. CASE k = 1
    <3>1. acc = <<<<"csw", Mode(ap)>>>>
      BY <1>1, <2>6, XferIs DEF acc
    <3>2. /\ r.dp.sel = dp.sel
          /\ r.ack = "ok" => r.dp.incr = IF Mode(ap) = Increment THEN dp.incr \cup {dp.sel} ELSE dp.incr \ {dp.sel}
      BY <2>9, <3>1
    <3>3. dp.sel = ap
      BY <1>5, <2>6 DEF Selected
    <3>4. dp'.sel = ap /\ (Took' => Moded(ap)')
      <4>1. dp'.sel = ap
        BY <2>1, <3>2, <3>3
      <4>2. Took' => dp'.incr = IF ap = MEM THEN dp.incr \cup {ap} ELSE dp.incr \ {ap}
        BY <2>1, <2>2, <3>2, <3>3, ModeIs
      <4>3. Took' => (ap \in dp'.incr <=> ap = MEM)
        BY <4>2
      <4> QED
        BY <4>1, <4>3 DEF Moded
    <3> QED
      BY <2>6, <3>4 DEF Selected
  <2> QED
    BY <2>5, <2>6
<1> QED
  BY <1>4, <1>5

LEMMA ExecuteHeld == ASSUME Whole, Execute PROVE Held'
<1>1. PICK i \in DOMAIN flight : Pending(i) /\ (Transfer(i) \/ Abort(i) \/ LineReset(i) \/ Setting(i))
  BY DEF Execute
<1>2. UNCHANGED host /\ late' = late
  BY DEF Execute
<1>3. UNCHANGED <<op, busy, stages, cur>>
  BY <1>2 DEF host
<1>4. \A ap, k : Front(ap, k) => Front(ap, k)'
  BY <1>3 DEF Front, Setup
<1>5. CASE late
  <2>1. CurApTrue'
    BY <1>2, <1>5 DEF CurApTrue
  <2>2. Planned'
    BY <1>2, <1>3, <1>4, <1>5 DEF Planned, Whole
  <2> QED
    BY <2>1, <2>2 DEF Held
<1>6. CASE ~late
  <2>1. Matched
    BY <1>6 DEF Whole, IInv
  <2>2. IsSeq(flight) /\ DOMAIN flight = 1 .. Len(flight) /\ Len(flight) \in Nat
    BY SeqShape DEF Whole, Pipe
  <2>3. busy
    <3>1. flight # <<>>
      BY <2>2, NothingSeq
    <3> QED
      BY <2>1, <3>1 DEF Matched
  <2>4. PICK ap \in APs, k \in {0, 1, 2} : Front(ap, k) /\ Selected(ap, k)
    BY <1>6, <2>3 DEF Whole, Planned
  <2>5. flight[i].pkt \in {Head(stages).pk[j] : j \in DOMAIN Head(stages).pk}
    <3>1. /\ IsSeq(Head(stages).pk) /\ IsSeq(got) /\ sent \in 0 .. Len(Head(stages).pk)
          /\ sent = Len(got) + Len(flight) /\ flight[i].pkt = Head(stages).pk[Len(got) + i]
      BY <2>1, <2>2, <2>3, <2>4, FrontHead DEF Matched
    <3>2. DOMAIN Head(stages).pk = 1 .. Len(Head(stages).pk) /\ Len(Head(stages).pk) \in Nat /\ Len(got) \in Nat
      BY <3>1, SeqShape
    <3> DEFINE n == Len(Head(stages).pk)
               g == Len(got)
               m == Len(flight)
    <3>3. g \in Nat /\ m \in Nat /\ n \in Nat /\ g + m <= n /\ i \in 1 .. m
      BY <2>2, <3>1, <3>2
    <3> HIDE DEF n, g, m
    <3>4. g + i \in 1 .. n
      BY <3>3
    <3> QED
      BY <3>1, <3>2, <3>4 DEF n, g
  <2>6. Selected(ap, k)'
    <3>1. CASE k = 0
      BY <3>1 DEF Selected
    <3>2. CASE k # 0
      <4>1. k \in {1, 2}
        BY <3>2
      <4> QED
        BY <1>1, <1>2, <1>6, <2>3, <2>4, <4>1, SelectExecuted
    <3> QED
      BY <3>1, <3>2
  <2>7. CurApTrue'
    <3>1. CASE cur = NoAp
      BY <1>3, <3>1 DEF CurApTrue
    <3>2. CASE cur # NoAp
      <4>1. k = 0 /\ ~Setup(op)
        BY <2>4, <3>2 DEF Front
      <4>2. CalmStage(Head(stages)) /\ NoReset(Head(stages))
        BY <2>4, <4>1, FrontHead
      <4>3. CalmPacket(flight[i].pkt) /\ flight[i].pkt.cmd # "swj"
        BY <2>5, <4>2 DEF CalmStage, NoReset
      <4>4. dp'.sel = dp.sel /\ dp'.incr = dp.incr
        BY <1>1, <4>3, ExecutePort
      <4>5. link' = link
        BY <1>1, <4>3 DEF Transfer, Abort, LineReset, Setting
      <4> QED
        BY <1>2, <1>3, <4>4, <4>5 DEF Whole, CurApTrue
    <3> QED
      BY <3>1, <3>2
  <2> QED
    BY <1>2, <1>3, <1>4, <2>4, <2>6, <2>7 DEF Held, Planned
<1> QED
  BY <1>5, <1>6

LEMMA OrderlyNext == Whole /\ [Next]_vars => Orderly'
<1> SUFFICES ASSUME Whole, [Next]_vars PROVE Orderly'
  OBVIOUS
<1> DEFINE Accs == \A i \in 1 .. Len(flight) : IsSeq(flight[i].pkt.acc)
<1>1. Port(dp) /\ sent \in Nat /\ Accs /\ IsSeq(flight)
  BY DEF Whole, Orderly, Pipe
<1>2. CASE \E o \in Ops : Begin(o)
  <2>1. dp' = dp /\ sent' = 0 /\ flight' = flight
    BY <1>2 DEF Begin, Start
  <2> QED
    BY <1>1, <2>1 DEF Orderly
<1>3. CASE Open
  <2>1. dp' = dp /\ sent' = 0 /\ flight' = Unanswered
    BY <1>3 DEF Open, Start
  <2>2. \A i \in 1 .. Len(Unanswered) : IsSeq(Unanswered[i].pkt.acc)
    BY <1>1, UnansweredIs
  <2> QED
    BY <1>1, <2>1, <2>2 DEF Orderly
<1>4. CASE Send
  <2>1. dp' = dp /\ sent' = sent + 1 /\ busy /\ sent < Len(Head(stages).pk)
    BY <1>4 DEF Send, MaySend
  <2>2. PICK ap \in APs, k \in {0, 1, 2} : Front(ap, k)
    BY <2>1 DEF Whole, Planned
  <2>3. IsSeq(Head(stages).pk[sent + 1].acc)
    <3> DEFINE pk == Head(stages).pk
    <3>1. IsSeq(pk) /\ \A i \in DOMAIN pk : IsSeq(pk[i].acc)
      BY <2>2, FrontHead
    <3>2. DOMAIN pk = 1 .. Len(pk) /\ Len(pk) \in Nat
      BY <3>1, SeqShape
    <3>3. sent + 1 \in 1 .. Len(pk)
      BY <1>1, <2>1, <3>2
    <3> QED
      BY <3>1, <3>2, <3>3
  <2>4. /\ \A i \in 1 .. Len(flight) : flight'[i] = flight[i]
        /\ Len(flight') = Len(flight) + 1
        /\ flight'[Len(flight) + 1] = [pkt |-> Head(stages).pk[sent + 1], ans |-> <<>>]
    BY <1>4, SendPipe DEF Whole
  <2>5. \A i \in 1 .. Len(flight') : i \in 1 .. Len(flight) \/ i = Len(flight) + 1
    BY <1>1, <2>4, SeqShape
  <2>6. Accs'
    BY <1>1, <2>3, <2>4, <2>5
  <2> QED
    BY <1>1, <2>1, <2>6 DEF Orderly
<1>5. CASE Recv
  <2>1. dp' = dp /\ flight' = Tail(flight) /\ flight # <<>>
    BY <1>5 DEF Recv, Answered
  <2>2. sent' = sent \/ sent' = 0
    BY <1>5 DEF Recv, Judge, Checked, Raise, ClearAndRaise, GoOn, End
  <2>3. /\ Len(Tail(flight)) = Len(flight) - 1 /\ Len(flight) \in Nat
        /\ \A i \in 1 .. Len(flight) - 1 : Tail(flight)[i] = flight[i + 1]
    BY <1>1, <2>1, TailSeq, SeqShape
  <2>4. \A i \in 1 .. Len(flight) - 1 : i + 1 \in 1 .. Len(flight)
    BY <2>3
  <2>5. Accs'
    BY <1>1, <2>1, <2>3, <2>4
  <2> QED
    BY <1>1, <2>1, <2>2, <2>5 DEF Orderly
<1>6. CASE SendFails \/ Timeout
  <2>1. dp' = dp /\ flight' = flight /\ (sent' = sent \/ sent' = 0)
    BY <1>6 DEF SendFails, Timeout, Raise, GoOn, End
  <2> QED
    BY <1>1, <2>1 DEF Orderly
<1>7. CASE Execute
  <2>1. PICK i \in DOMAIN flight : Transfer(i) \/ Abort(i) \/ LineReset(i) \/ Setting(i)
    BY <1>7 DEF Execute
  <2>2. Port(dp')
    BY <2>1, ExecutePort
  <2>3. sent' = sent
    BY <1>7 DEF Execute, host
  <2>4. Accs'
    BY <1>1, <1>7, ExecutePipe DEF Whole
  <2> QED
    BY <1>1, <2>2, <2>3, <2>4 DEF Orderly
<1>8. CASE LinkLost \/ LinkBack \/ UNCHANGED vars
  <2>1. Port(Lost)
    BY DEF Port, Lost
  <2>2. flight' = flight /\ sent' = sent /\ (dp' = dp \/ dp' = Lost)
    BY <1>8 DEF LinkLost, LinkBack, vars, host
  <2> QED
    BY <1>1, <2>1, <2>2 DEF Orderly
<1> QED
  BY <1>2, <1>3, <1>4, <1>5, <1>6, <1>7, <1>8 DEF Next, Call, Host

LEMMA HeldNext == Whole /\ [Next]_vars => Held'
<1> SUFFICES ASSUME Whole, [Next]_vars PROVE Held'
  OBVIOUS
<1>1. CASE SendFails \/ Timeout
  <2>1. busy /\ Raise /\ UNCHANGED <<op, cur, dp, link>> /\ (late' = TRUE \/ late' = late)
    BY <1>1 DEF SendFails, Timeout, Whole, IInv
  <2> QED
    BY <2>1, RaiseHeld
<1>2. CASE UNCHANGED vars
  <2>1. Planned'
    <3>1. UNCHANGED <<op, busy, stages, cur, flight, dp, link, late>>
      BY <1>2 DEF vars, host
    <3> QED
      BY <3>1 DEF Whole, Planned, Front, Selected, Took, Moded, Setup
  <2>2. CurApTrue'
    BY <1>2 DEF vars, host, Whole, CurApTrue
  <2> QED
    BY <2>1, <2>2 DEF Held
<1> QED
  BY <1>1, <1>2, BeginHeld, OpenHeld, SendHeld, RecvHeld, ExecuteHeld, LinkHeld DEF Next, Call, Host

LEMMA WholeInit == Init => Whole
<1> SUFFICES ASSUME Init PROVE Whole
  OBVIOUS
<1>1. IInv
  BY IInvInit
<1>2. busy = FALSE /\ flight = <<>> /\ sent = 0 /\ cur = NoAp /\ dp = Lost
  BY DEF Init
<1>3. IsSeq(flight) /\ 1 .. Len(flight) = {}
  BY <1>2, NothingSeq
<1>4. Port(dp)
  BY <1>2 DEF Port, Lost
<1> QED
  BY <1>1, <1>2, <1>3, <1>4 DEF Whole, Pipe, Orderly, Planned, CurApTrue

LEMMA WholeNext == Whole /\ [Next]_vars => Whole'
BY PipeNext, IInvNext, OrderlyNext, HeldNext DEF Whole, Held

\* What the DAP remembers to have selected is what the port has selected, with the
\* increment mode of that AP, for every bus, batch and number of faults (CurApTrue):
\* through errors inside select(), a chip reset that takes the port's settings
\* away, and reconnect().
THEOREM CurApAlways == Spec => []CurApTrue
<1>1. Whole => CurApTrue
  BY DEF Whole
<1> QED
  BY <1>1, WholeInit, WholeNext, PTL DEF Spec

-----------------------------------------------------------------------------
(* What an operation has achieved (WorkDone, WrittenPrefix). *)

\* Page i of the range of o: it is the words Lo(o, i) .. Hi(o, i) - 1.
Pages(o) == (o.a + o.n - 1) \div Page - o.a \div Page + 1
Lo(o, i) == Largest(o.a, (o.a \div Page + i - 1) * Page)
Hi(o, i) == Least(o.a + o.n, (o.a \div Page + i) * Page)

\* The word after the first m packets of page i; and the accesses of the first
\* m packets of a batch.
Through(o, i, m) == Least(Hi(o, i), Lo(o, i) + m * Chunk)
Cut(o, m)        == Least(2 * Len(o.regs), m * Batch)

\* The stages of o after select(); stage x of o, those of select() being -1 and 0.
Body(o)    == IF o.name = "batch" THEN <<BatchOf(o)>> ELSE Transfers(o) \o <<StickyError>>
Part(o, x) == IF x = -1 THEN SelStage(Needs(o)) ELSE IF x = 0 THEN CswStage(Needs(o)) ELSE Body(o)[x]
At(q) ==
    /\ Len(stages) = Len(Body(op)) + 1 - q
    /\ \A j \in 1 .. Len(stages) : stages[j] = Part(op, q + j - 1)
    /\ q > 0 => cur = Needs(op)

\* Stage q transfers words; the word that the first e packets of it have reached.
Moves(q) == q > 0 /\ q % 2 = 0
Reached(o, q, e) == IF Moves(q) THEN Through(o, q \div 2, e)
                    ELSE IF q <= 2 THEN o.a ELSE Hi(o, (q - 1) \div 2)

\* The words from lo up to hi; what the words a .. hi - 1 of o hold when they are
\* written; and that they were reached without an error.
Span(lo, hi) == [j \in 1 .. hi - lo |-> lo + j - 1]
Written(o, hi) == o.name = "write" => \A b \in o.a .. hi - 1 : mem[b] = b - o.a + 1
Sound(o, hi) == Written(o, hi) /\ \A b \in o.a .. hi - 1 : b \notin BadWords

\* A piece of a table of words: W[lo + 1] .. W[hi]; the registers of a batch.
Piece(W, lo, hi) == [j \in 1 .. hi - lo |-> W[lo + j]]
Table(regs)      == [x \in Int |-> Top + regs[x]]

\* A[1] .. A[e] are the answers that have come to the packets of stage q, read or
\* not, each with as many words as its packet reads.
AllOk(A, e) == \A k \in 1 .. e : A[k].ack = "ok"
Come(e, A) ==
    /\ e \in Len(got) .. sent
    /\ \A j \in 1 .. Len(flight) : flight[j].ans # <<>> <=> Len(got) + j <= e
    /\ \A k \in 1 .. e : A[k] = IF k <= Len(got) THEN got[k] ELSE flight[k - Len(got)].ans[1]
Full(q, e, A) == \A k \in 1 .. e : A[k].ack = "ok" =>
                    IsSeq(A[k].data) /\ Len(A[k].data) = Reads(Part(op, q).pk[k])

\* How far a read or a write has come, e packets of its stage q answered.
Running == link = "up" /\ ~dp.sticky
ReadsOn(q, e, A) ==
    /\ data = IF op.name = "read" THEN Span(op.a, Reached(op, q, 0)) ELSE <<>>
    /\ op.name = "read" /\ Moves(q) /\ AllOk(A, e) =>
        \A k \in 1 .. e : A[k].data = Span(Reached(op, q, k - 1), Reached(op, q, k))
Cursor(q, e, A) ==
    \E c \in Lo(op, q \div 2) .. Reached(op, q, e) :
        /\ AllOk(A, e) => c = Reached(op, q, e)
        /\ c < Hi(op, q \div 2) => dp.tar[MEM] = c
OnTrack(q, e, A) ==
    Running =>
        /\ AllOk(A, e) => Sound(op, Reached(op, q, e))
        /\ Moves(q) => Cursor(q, e, A)
        /\ ~Moves(q) /\ q > 0 /\ q < Len(Body(op)) /\ e = 1 /\ AllOk(A, e) =>
            dp.tar[MEM] = Lo(op, (q + 1) \div 2)
        /\ ~waited => AllOk(A, e)
Tested(q, e, A) ==
    q = Len(Body(op)) /\ e = 1 /\ AllOk(A, e) =>
        /\ A[1].data \in {<<Clean>>, <<Sticky>>}
        /\ A[1].data = <<Clean>> => Sound(op, op.a + op.n)
Worded(q, e, A) ==
    /\ ReadsOn(q, e, A) /\ OnTrack(q, e, A) /\ Tested(q, e, A)
    /\ \A b \in DOMAIN mem : mem[b] # 0 => b < Reached(op, q, e)

\* How far a batch has come.
Listed(q, e, A) ==
    /\ data = <<>>
    /\ q = 1 /\ AllOk(A, e) =>
        /\ \A k \in 1 .. e : A[k].data = Piece(Table(op.regs), Cut(op, k - 1) \div 2, Cut(op, k) \div 2)
        /\ Running /\ e > 0 => dp.tar[DM] = op.regs[(Cut(op, e) + 1) \div 2]

Stand(q, e, A) == At(q) /\ Come(e, A) /\ Full(q, e, A)
Does(q, e, A)  == IF op.name = "batch" THEN Listed(q, e, A) ELSE Worded(q, e, A)
Doing == \E q \in -1 .. Len(Body(op)) : \E e, A : Stand(q, e, A) /\ Does(q, e, A)

-----------------------------------------------------------------------------
(* What a transfer does to the words on the bus. *)

\* What a transfer has but its port; the word after t; and a word that fails.
Kept(s, u) == u.mem = s.mem /\ u.data = s.data
Onward(t)  == (t \div Page) * Page + ((t + 1) % Page)
Fails(t)   == t \in BadWords \cup (Registers \ DOMAIN mem) \cup {Top}

\* The words an access reads, and what it leaves in TAR and on the bus.
ReadsWord(s, x, u) ==
    /\ u.dp = s.dp /\ u.mem = s.mem /\ u.ack = "ok" /\ u.done = s.done + 1
    /\ x[1] = "stat" => u.data = Append(s.data, IF s.dp.sticky THEN Sticky ELSE Clean)
    /\ x[1] = "id" => u.data = Append(s.data, Pad)
Refuses(s, u) == u.dp = s.dp /\ Kept(s, u) /\ u.done = s.done /\ u.ack = "fault"
Sets(s, x, u) ==
    /\ Kept(s, u) /\ u.ack = s.ack /\ u.done = s.done + 1 /\ u.dp.sticky = s.dp.sticky
    /\ u.dp.tar = IF x[1] = "tar" THEN [s.dp.tar EXCEPT ![s.dp.sel] = x[2]] ELSE s.dp.tar
Goes(s, x, u) ==
    LET t == s.dp.tar[s.dp.sel]
    IN  /\ u.ack = s.ack /\ u.done = s.done + 1
        /\ u.dp.tar = [s.dp.tar EXCEPT ![s.dp.sel] = IF s.dp.sel \in s.dp.incr THEN Onward(t) ELSE t]
        /\ u.data = IF x[2] = Rd THEN Append(s.data, IF s.dp.sel = MEM THEN t ELSE Top + t) ELSE s.data
Puts(s, x, u) ==
    u.mem = IF x[2] # Rd /\ s.dp.sel = MEM THEN [s.mem EXCEPT ![s.dp.tar[MEM]] = x[2]] ELSE s.mem
Stops(s, u) ==
    /\ u.dp.sticky = TRUE /\ u.dp.tar = s.dp.tar /\ Kept(s, u) /\ u.done = s.done /\ u.ack = "fault"

Settings == {"select", "csw", "tar"}
Readouts == {"id", "stat"}

LEMMA AccessCases ==
    ASSUME NEW s, Under(s), s.ack = "ok", NEW x, NEW posted, NEW u, u = Access(s, x, posted)
    PROVE  /\ x[1] \in Readouts => ReadsWord(s, x, u)
           /\ x[1] \notin Readouts /\ s.dp.sticky => Refuses(s, u)
           /\ x[1] \in Settings /\ ~s.dp.sticky => Sets(s, x, u)
           /\ x[1] \notin Readouts \cup Settings /\ ~s.dp.sticky =>
                \/ ~(s.dp.sel = MEM /\ Fails(s.dp.tar[MEM])) /\ u.dp.sticky = s.dp.sticky /\ Goes(s, x, u) /\ Puts(s, x, u)
                \/ s.dp.sel = MEM /\ u.dp.sticky = TRUE /\ Goes(s, x, u) /\ u.mem = s.mem
                \/ s.dp.sel = MEM /\ Stops(s, u)
<1> DEFINE reg == x[1]
           v == x[2]
           ap == s.dp.sel
           t == s.dp.tar[ap]
           read(y) == [s EXCEPT !.data = Append(@, y), !.done = @ + 1]
           next == IF ap \in s.dp.incr THEN Onward(t) ELSE t
           bad == ap = MEM /\ Fails(t)
           word == IF ap = MEM THEN t ELSE Top + t
           back(y) == [read(y) EXCEPT !.dp.tar[ap] = next]
           put == [s EXCEPT !.dp.tar[ap] = next, !.mem = IF ap = MEM THEN [@ EXCEPT ![t] = v] ELSE @, !.done = @ + 1]
           moved == IF v = Rd THEN back(word) ELSE put
           stuck(w) == [w EXCEPT !.dp.sticky = TRUE, !.mem = s.mem]
           fault == [s EXCEPT !.ack = "fault"]
           z == IF v = Increment THEN s.dp.incr \cup {ap} ELSE s.dp.incr \ {ap}
           selected == [s EXCEPT !.dp.sel = v, !.done = @ + 1]
           moded == [s EXCEPT !.dp.incr = z, !.done = @ + 1]
           tarred == [s EXCEPT !.dp.tar[ap] = v, !.done = @ + 1]
           refused == [s EXCEPT !.dp.sticky = TRUE, !.ack = "fault"]
<1>1. u = IF reg = "id" THEN read(Pad)
          ELSE IF reg = "stat" THEN read(IF s.dp.sticky THEN Sticky ELSE Clean)
          ELSE IF s.dp.sticky THEN fault
          ELSE IF reg = "select" THEN selected
          ELSE IF reg = "csw" THEN moded
          ELSE IF reg = "tar" THEN tarred
          ELSE IF bad THEN IF posted THEN stuck(moved) ELSE refused
          ELSE moved
  BY DEF Access, Onward, Fails
<1> HIDE DEF next, z
<1>2. ASSUME NEW y
      PROVE  /\ Under(read(y)) /\ read(y).dp = s.dp /\ read(y).mem = s.mem /\ read(y).ack = s.ack
             /\ read(y).done = s.done + 1 /\ read(y).data = Append(s.data, y)
  BY DEF Under
<1>3. ASSUME NEW w, Under(w)
      PROVE  /\ Under(stuck(w)) /\ stuck(w).dp.sticky = TRUE /\ stuck(w).dp.tar = w.dp.tar /\ stuck(w).mem = s.mem
             /\ stuck(w).ack = w.ack /\ stuck(w).done = w.done /\ stuck(w).data = w.data
  BY <1>3 DEF Under, Port
<1>4. ASSUME NEW y
      PROVE  /\ Under(back(y)) /\ back(y).dp.tar = [s.dp.tar EXCEPT ![ap] = next] /\ back(y).dp.sticky = s.dp.sticky
             /\ back(y).mem = s.mem
             /\ back(y).ack = s.ack /\ back(y).done = s.done + 1 /\ back(y).data = Append(s.data, y)
  <2> DEFINE r == read(y)
  <2>1. /\ Under(r) /\ r.dp = s.dp /\ r.mem = s.mem /\ r.ack = s.ack
        /\ r.done = s.done + 1 /\ r.data = Append(s.data, y)
    BY <1>2
  <2> HIDE DEF r
  <2> DEFINE w == [r EXCEPT !.dp.tar[ap] = next]
  <2>2. /\ Under(w) /\ w.dp.tar = [r.dp.tar EXCEPT ![ap] = next] /\ w.dp.sticky = r.dp.sticky
        /\ w.mem = r.mem /\ w.ack = r.ack /\ w.done = r.done /\ w.data = r.data
    BY <2>1 DEF Under, Port
  <2>3. back(y) = w
    BY DEF r
  <2> HIDE DEF w
  <2> QED
    BY <2>1, <2>2, <2>3
<1>5. /\ Under(put) /\ put.dp.tar = [s.dp.tar EXCEPT ![ap] = next] /\ put.dp.sticky = s.dp.sticky
      /\ put.mem = IF ap = MEM THEN [s.mem EXCEPT ![t] = v] ELSE s.mem
      /\ put.ack = s.ack /\ put.done = s.done + 1 /\ put.data = s.data
  BY DEF Under, Port
<1>6. Goes(s, x, moved) /\ moved.dp.sticky = s.dp.sticky /\ Puts(s, x, moved) /\ Under(moved)
  <2> DEFINE b == back(word)
             p == put
  <2>1. moved = IF v = Rd THEN b ELSE p
    OBVIOUS
  <2>2. /\ Under(b) /\ b.dp.tar = [s.dp.tar EXCEPT ![ap] = next] /\ b.dp.sticky = s.dp.sticky
        /\ b.mem = s.mem
        /\ b.ack = s.ack /\ b.done = s.done + 1 /\ b.data = Append(s.data, word)
    BY <1>4
  <2>3. /\ Under(p) /\ p.dp.tar = [s.dp.tar EXCEPT ![ap] = next] /\ p.dp.sticky = s.dp.sticky
        /\ p.mem = IF ap = MEM THEN [s.mem EXCEPT ![t] = v] ELSE s.mem
        /\ p.ack = s.ack /\ p.done = s.done + 1 /\ p.data = s.data
    BY <1>5
  <2> HIDE DEF b, p, moved
  <2>4. CASE v = Rd
    <3>1. moved = b
      BY <2>1, <2>4
    <3> QED
      BY <2>2, <2>4, <3>1 DEF Goes, Puts, next
  <2>5. CASE v # Rd
    <3>1. moved = p
      BY <2>1, <2>5
    <3> QED
      BY <2>3, <2>5, <3>1 DEF Goes, Puts, next
  <2> QED
    BY <2>4, <2>5
<1>7. Goes(s, x, stuck(moved)) /\ stuck(moved).dp.sticky = TRUE /\ stuck(moved).mem = s.mem
  <2> HIDE DEF moved
  <2>1. /\ stuck(moved).dp.sticky = TRUE /\ stuck(moved).dp.tar = moved.dp.tar /\ stuck(moved).mem = s.mem
        /\ stuck(moved).ack = moved.ack /\ stuck(moved).done = moved.done /\ stuck(moved).data = moved.data
    BY <1>3, <1>6
  <2> HIDE DEF stuck
  <2> QED
    BY <1>6, <2>1 DEF Goes
<1>8. Refuses(s, fault) /\ Stops(s, refused)
  BY DEF Under, Port, Refuses, Stops, Kept
<1>9. ASSUME reg = "select" PROVE Sets(s, x, selected)
  BY <1>9 DEF Under, Port, Sets, Kept
<1>10. ASSUME reg = "csw" PROVE Sets(s, x, moded)
  BY <1>10 DEF Under, Port, Sets, Kept
<1>11. ASSUME reg = "tar" PROVE Sets(s, x, tarred)
  BY <1>11 DEF Under, Port, Sets, Kept
<1>12. ASSUME x[1] \in Readouts PROVE ReadsWord(s, x, u)
  <2>1. CASE reg = "id"
    BY <1>1, <1>2, <2>1 DEF ReadsWord
  <2>2. CASE reg = "stat"
    <3> DEFINE y == IF s.dp.sticky THEN Sticky ELSE Clean
    <3>1. u = read(y)
      BY <1>1, <2>2
    <3> HIDE DEF y
    <3>2. /\ read(y).dp = s.dp /\ read(y).mem = s.mem /\ read(y).ack = s.ack
          /\ read(y).done = s.done + 1 /\ read(y).data = Append(s.data, y)
      BY <1>2
    <3> HIDE DEF read
    <3>3. u.data = Append(s.data, y) /\ x[1] # "id"
      BY <2>2, <3>1, <3>2
    <3> QED
      BY <3>1, <3>2, <3>3 DEF ReadsWord, y
  <2> QED
    BY <1>12, <2>1, <2>2 DEF Readouts
<1> HIDE DEF read, back, put, moved, stuck, fault, selected, moded, tarred, refused
<1>13. ASSUME reg \notin Readouts, s.dp.sticky PROVE u = fault
  BY <1>1, <1>13 DEF Readouts
<1>14. ASSUME reg \in Settings, ~s.dp.sticky PROVE Sets(s, x, u)
  <2>1. CASE reg = "select"
    BY <1>1, <1>9, <1>14, <2>1
  <2>2. CASE reg = "csw"
    BY <1>1, <1>10, <1>14, <2>2
  <2>3. CASE reg = "tar"
    BY <1>1, <1>11, <1>14, <2>3
  <2> QED
    BY <1>14, <2>1, <2>2, <2>3 DEF Settings
<1>15. ASSUME reg \notin Readouts \cup Settings, ~s.dp.sticky
       PROVE  u = IF bad THEN IF posted THEN stuck(moved) ELSE refused ELSE moved
  BY <1>1, <1>15 DEF Readouts, Settings
<1> QED
  BY <1>6, <1>7, <1>8, <1>12, <1>13, <1>14, <1>15

\* Accesses that write nothing on the bus, that answer a word exactly when they
\* read, and that an error stops.
Silent(x)     == x[1] \in Readouts \cup Settings \/ x[2] = Rd
Harmless(acc) == \A i \in DOMAIN acc : Silent(acc[i])
WellRead(acc) == \A i \in DOMAIN acc : /\ acc[i][1] \in {"id", "stat", "select", "csw", "tar", "drw"}
                                       /\ acc[i][1] \in Readouts => acc[i][2] = Rd
                                       /\ acc[i][1] \in Settings => acc[i][2] # Rd
Plain(acc)    == \A i \in DOMAIN acc : acc[i][1] \notin Readouts

\* A transfer stands still: stopped by WAIT, or already stopped.
Pauses(s, u) == u.dp = s.dp /\ Kept(s, u) /\ u.done = s.done /\ u.ack = "wait"

LEMMA StepCases ==
    ASSUME NEW s, Under(s), NEW acc, NEW i, NEW posted, NEW stop, NEW u, u = RunStep(i, s, acc, posted, stop)
    PROVE  /\ Under(u)
           /\ \/ s.ack # "ok" /\ u = s
              \/ s.ack = "ok" /\ i = stop /\ Pauses(s, u)
              \/ s.ack = "ok" /\ u = Access(s, acc[i], posted)
<1>1. CASE s.ack # "ok"
  BY <1>1 DEF RunStep
<1>2. CASE s.ack = "ok" /\ i = stop
  <2>1. u = [s EXCEPT !.ack = "wait"]
    BY <1>2 DEF RunStep
  <2> QED
    BY <1>2, <2>1 DEF Under, Port, Pauses, Kept
<1>3. CASE s.ack = "ok" /\ i # stop
  <2>1. u = Access(s, acc[i], posted)
    BY <1>3 DEF RunStep
  <2> QED
    BY <1>3, <2>1, AccessPort
<1> QED
  BY <1>1, <1>2, <1>3

\* What every access does: it keeps the shape of the port and of the bus, a word
\* is answered when it reads, and it succeeds unless an error is pending then.
Accessed(s, x, u) ==
    /\ DOMAIN u.dp.tar = DOMAIN s.dp.tar /\ DOMAIN u.mem = DOMAIN s.mem
    /\ Silent(x) => u.mem = s.mem
    /\ u.ack = "ok" \/ u.dp.sticky
    /\ x[1] \notin Readouts /\ s.dp.sticky => u.dp = s.dp /\ u.mem = s.mem /\ u.ack # "ok"
    /\ u.ack = "ok" =>
         /\ (x[2] = Rd /\ x[1] \notin Settings) \/ x[1] \in Readouts => \E w : u.data = Append(s.data, w)
         /\ x[2] # Rd /\ x[1] \notin Readouts => u.data = s.data

LEMMA AccessWhole ==
    ASSUME NEW s, Under(s), s.ack = "ok", NEW x, NEW posted, NEW u, u = Access(s, x, posted)
    PROVE  Accessed(s, x, u)
<1> DEFINE A == x[1] \in Readouts
           S == x[1] \in Settings
<1>1. CASE A
  <2>1. ReadsWord(s, x, u)
    BY <1>1, AccessCases
  <2>2. x[1] = "id" \/ x[1] = "stat"
    BY <1>1 DEF Readouts
  <2> QED
    BY <1>1, <2>1, <2>2 DEF ReadsWord, Accessed
<1>2. CASE ~A /\ s.dp.sticky
  <2>1. Refuses(s, u)
    BY <1>2, AccessCases
  <2> QED
    BY <1>2, <2>1 DEF Refuses, Kept, Accessed
<1>3. CASE ~A /\ ~s.dp.sticky /\ S
  <2>1. Sets(s, x, u)
    BY <1>3, AccessCases
  <2> QED
    BY <1>3, <2>1 DEF Sets, Kept, Accessed
<1>4. CASE ~A /\ ~s.dp.sticky /\ ~S
  <2>1. Silent(x) => x[2] = Rd
    BY <1>4 DEF Silent
  <2>2. \/ u.dp.sticky = s.dp.sticky /\ Goes(s, x, u) /\ Puts(s, x, u)
        \/ u.dp.sticky = TRUE /\ Goes(s, x, u) /\ u.mem = s.mem
        \/ Stops(s, u)
    BY <1>4, AccessCases
  <2>3. CASE Goes(s, x, u) /\ (Puts(s, x, u) \/ u.mem = s.mem)
    <3>1. DOMAIN u.mem = DOMAIN s.mem /\ (x[2] = Rd => u.mem = s.mem)
      BY <2>3 DEF Puts
    <3>2. u.ack = "ok" /\ DOMAIN u.dp.tar = DOMAIN s.dp.tar /\ (x[2] # Rd => u.data = s.data)
      BY <2>3 DEF Goes
    <3>3. x[2] = Rd => \E w : u.data = Append(s.data, w)
      BY <2>3 DEF Goes
    <3> QED
      BY <1>4, <2>1, <3>1, <3>2, <3>3 DEF Accessed
  <2>4. CASE Stops(s, u)
    BY <1>4, <2>4 DEF Stops, Kept, Accessed
  <2> QED
    BY <2>2, <2>3, <2>4
<1> QED
  BY <1>1, <1>2, <1>3, <1>4

\* The reading accesses among the first i.
Reading(acc, i) == {j \in 1 .. i : acc[j][2] = Rd}

LEMMA ReadingMore ==
    ASSUME NEW acc, NEW i \in Nat
    PROVE  /\ IsFiniteSet(Reading(acc, i)) /\ Cardinality(Reading(acc, i)) \in Nat
           /\ Cardinality(Reading(acc, i + 1)) = Cardinality(Reading(acc, i)) + (IF acc[i + 1][2] = Rd THEN 1 ELSE 0)
           /\ Cardinality(Reading(acc, 0)) = 0
<1>1. IsFiniteSet(1 .. i)
  BY FS_Interval
<1>2. Reading(acc, i) \subseteq 1 .. i
  BY DEF Reading
<1>3. IsFiniteSet(Reading(acc, i)) /\ Cardinality(Reading(acc, i)) \in Nat
  BY <1>1, <1>2, FS_Subset, FS_CardinalityType
<1>4. Reading(acc, 0) = {}
  BY DEF Reading
<1>5. \A j : j \in 1 .. i + 1 <=> j \in 1 .. i \/ j = i + 1
  OBVIOUS
<1>6. i + 1 \notin Reading(acc, i)
  BY DEF Reading
<1>7. CASE acc[i + 1][2] = Rd
  <2>1. Reading(acc, i + 1) = Reading(acc, i) \cup {i + 1}
    BY <1>5, <1>7 DEF Reading
  <2>2. Cardinality(Reading(acc, i) \cup {i + 1}) = Cardinality(Reading(acc, i)) + 1
    BY <1>3, <1>6, FS_AddElement
  <2> QED
    BY <1>3, <1>4, <1>7, <2>1, <2>2, FS_EmptySet
<1>8. CASE acc[i + 1][2] # Rd
  <2>1. Reading(acc, i + 1) = Reading(acc, i)
    BY <1>5, <1>8 DEF Reading
  <2> QED
    BY <1>3, <1>4, <1>8, <2>1, FS_EmptySet
<1> QED
  BY <1>7, <1>8

\* What every transfer does.
Transferred(acc, stop, r) ==
    /\ DOMAIN r.dp.tar = DOMAIN dp.tar /\ DOMAIN r.mem = DOMAIN mem
    /\ Harmless(acc) => r.mem = mem
    /\ stop = 0 => r.ack = "ok" \/ r.dp.sticky
    /\ dp.sticky /\ Plain(acc) => r.mem = mem /\ r.dp = dp /\ (Len(acc) > 0 => r.ack # "ok")
    /\ WellRead(acc) /\ r.ack = "ok" =>
         IsSeq(r.data) /\ Len(r.data) = Cardinality({j \in DOMAIN acc : acc[j][2] = Rd})
LEMMA TransferWhole ==
    ASSUME Port(dp), NEW acc, IsSeq(acc), NEW posted, NEW stop, NEW r,
           r = RunTransfer(acc, posted, stop)
    PROVE  Transferred(acc, stop, r)
<1> DEFINE n == Len(acc)
           W(s, i) ==
             /\ Under(s)
             /\ DOMAIN s.dp.tar = DOMAIN dp.tar /\ DOMAIN s.mem = DOMAIN mem
             /\ Harmless(acc) => s.mem = mem
             /\ stop = 0 => s.ack = "ok" \/ s.dp.sticky
             /\ dp.sticky /\ Plain(acc) => s.mem = mem /\ s.dp = dp /\ (i > 0 => s.ack # "ok")
             /\ WellRead(acc) /\ s.ack = "ok" => IsSeq(s.data) /\ Len(s.data) = Cardinality(Reading(acc, i))
<1>1. n \in Nat /\ DOMAIN acc = 1 .. n
  BY SeqShape
<1>2. PICK f : /\ f[0] = RunStart
               /\ \A i \in 1 .. n : f[i] = RunStep(i, f[i - 1], acc, posted, stop)
               /\ r = f[n]
  BY TransferRuns
<1> HIDE DEF n
<1>3. W(f[0], 0)
  <2>1. Under(RunStart) /\ RunStart.dp = dp /\ RunStart.ack = "ok" /\ RunStart.mem = mem /\ RunStart.data = <<>>
    BY RunStartIs DEF RunStart
  <2>2. IsSeq(<<>>) /\ Len(<<>>) = 0 /\ Cardinality(Reading(acc, 0)) = 0
    BY NothingSeq, ReadingMore
  <2> HIDE DEF RunStart
  <2> QED
    BY <1>2, <2>1, <2>2
<1>4. ASSUME NEW m \in Nat, m + 1 <= n, NEW s, W(s, m), NEW u, u = RunStep(m + 1, s, acc, posted, stop)
      PROVE  W(u, m + 1)
  <2> DEFINE x == acc[m + 1]
  <2>1. m + 1 \in DOMAIN acc /\ m + 1 > 0 /\ m + 1 # 0
    BY <1>1, <1>4
  <2>2. /\ WellRead(acc) => (x[1] \in Readouts => x[2] = Rd) /\ (x[1] \in Settings => x[2] # Rd)
        /\ Plain(acc) => x[1] \notin Readouts
        /\ Harmless(acc) => Silent(x)
    BY <2>1 DEF WellRead, Plain, Harmless
  <2>3. /\ Under(u)
        /\ \/ s.ack # "ok" /\ u = s
           \/ s.ack = "ok" /\ m + 1 = stop /\ Pauses(s, u)
           \/ s.ack = "ok" /\ u = Access(s, x, posted)
    BY <1>4, StepCases
  <2>4. CASE s.ack # "ok" /\ u = s
    BY <1>4, <2>4
  <2>5. CASE m + 1 = stop /\ Pauses(s, u)
    BY <1>4, <2>1, <2>3, <2>5 DEF Pauses, Kept
  <2>6. CASE s.ack = "ok" /\ u = Access(s, x, posted)
    <3>7. Under(s)
      BY <1>4
    <3> HIDE DEF x, W
    <3>8. Accessed(s, x, u)
      BY <2>6, <3>7, AccessWhole
    <3>1. /\ DOMAIN u.dp.tar = DOMAIN s.dp.tar /\ DOMAIN u.mem = DOMAIN s.mem
          /\ Silent(x) => u.mem = s.mem
          /\ u.ack = "ok" \/ u.dp.sticky
          /\ x[1] \notin Readouts /\ s.dp.sticky => u.dp = s.dp /\ u.mem = s.mem /\ u.ack # "ok"
          /\ u.ack = "ok" =>
               /\ (x[2] = Rd /\ x[1] \notin Settings) \/ x[1] \in Readouts => \E w : u.data = Append(s.data, w)
               /\ x[2] # Rd /\ x[1] \notin Readouts => u.data = s.data
      BY <3>8 DEF Accessed
    <3>2. WellRead(acc) =>
            /\ u.ack = "ok" /\ x[2] = Rd => \E w : u.data = Append(s.data, w)
            /\ u.ack = "ok" /\ x[2] # Rd => u.data = s.data
      BY <2>2, <3>1
    <3>3. /\ Cardinality(Reading(acc, m)) \in Nat
          /\ Cardinality(Reading(acc, m + 1)) = Cardinality(Reading(acc, m)) + (IF x[2] = Rd THEN 1 ELSE 0)
      BY ReadingMore DEF x
    <3>4. WellRead(acc) /\ u.ack = "ok" => IsSeq(u.data) /\ Len(u.data) = Cardinality(Reading(acc, m + 1))
      <4> SUFFICES ASSUME WellRead(acc), u.ack = "ok"
                   PROVE  IsSeq(u.data) /\ Len(u.data) = Cardinality(Reading(acc, m + 1))
        OBVIOUS
      <4>1. IsSeq(s.data) /\ Len(s.data) = Cardinality(Reading(acc, m))
        BY <1>4, <2>6 DEF W
      <4>2. \A w : IsSeq(Append(s.data, w)) /\ Len(Append(s.data, w)) = Len(s.data) + 1
        BY <4>1, AppendSeq
      <4>3. CASE x[2] = Rd
        BY <3>2, <3>3, <4>1, <4>2, <4>3
      <4>4. CASE x[2] # Rd
        BY <3>2, <3>3, <4>1, <4>4
      <4> QED
        BY <4>3, <4>4
    <3>5. dp.sticky /\ Plain(acc) => u.mem = mem /\ u.dp = dp /\ u.ack # "ok"
      BY <1>4, <2>2, <3>1 DEF W
    <3>6. Harmless(acc) => u.mem = mem
      BY <1>4, <2>2, <3>1 DEF W
    <3> QED
      BY <1>4, <2>3, <3>1, <3>4, <3>5, <3>6 DEF W
  <2> QED
    BY <2>3, <2>4, <2>5, <2>6
<1> DEFINE T == {m \in Nat : m <= n => W(f[m], m)}
<1> HIDE DEF W
<1>5. 0 \in T
  BY <1>3
<1>6. ASSUME NEW m \in Nat, m \in T PROVE m + 1 \in T
  <2> SUFFICES ASSUME m + 1 <= n PROVE W(f[m + 1], m + 1)
    OBVIOUS
  <2>1. m + 1 \in 1 .. n /\ m <= n /\ m + 1 - 1 = m
    BY <1>1
  <2>2. f[m + 1] = RunStep(m + 1, f[m], acc, posted, stop)
    BY <1>2, <2>1
  <2> QED
    BY <1>4, <1>6, <2>1, <2>2
<1>7. Nat \subseteq T
  <2> HIDE DEF T
  <2> QED
    BY <1>5, <1>6, NatsIn
<1>8. W(r, n)
  BY <1>1, <1>2, <1>7
<1>9. Reading(acc, n) = {j \in DOMAIN acc : acc[j][2] = Rd}
  BY <1>1 DEF Reading
<1> QED
  BY <1>8, <1>9 DEF W, n, Transferred

\* The words from lo up to hi.
LEMMA SpanIs ==
    ASSUME NEW lo \in Int, NEW k \in Nat
    PROVE  /\ IsSeq(Span(lo, lo + k)) /\ Len(Span(lo, lo + k)) = k
           /\ Span(lo, lo) = <<>>
           /\ Append(Span(lo, lo + k), lo + k) = Span(lo, lo + k + 1)
<1>1. ASSUME NEW m \in Nat PROVE Span(lo, lo + m) = [j \in 1 .. m |-> lo + j - 1]
  <2>1. lo + m - lo = m
    OBVIOUS
  <2> QED
    BY <2>1 DEF Span
<1>2. ASSUME NEW m \in Nat PROVE [j \in 1 .. m |-> lo + j - 1] \in Seq(Int) /\ Len([j \in 1 .. m |-> lo + j - 1]) = m
  OBVIOUS
<1>3. Span(lo, lo) = <<>>
  <2>1. Span(lo, lo + 0) = Span(lo, lo)
    OBVIOUS
  <2>2. Span(lo, lo) \in Seq(Int) /\ Len(Span(lo, lo)) = 0
    BY <1>1, <1>2, <2>1
  <2> QED
    BY <2>2, EmptySeq
<1>4. Append(Span(lo, lo + k), lo + k) = Span(lo, lo + k + 1)
  <2> DEFINE s == [j \in 1 .. k |-> lo + j - 1]
             t == [j \in 1 .. k + 1 |-> lo + j - 1]
  <2>1. s \in Seq(Int) /\ Len(s) = k /\ t \in Seq(Int) /\ Len(t) = k + 1
    BY <1>2
  <2>2. \A j \in 1 .. k : s[j] = t[j]
    OBVIOUS
  <2>3. t[k + 1] = lo + k
    OBVIOUS
  <2> HIDE DEF s, t
  <2>4. Append(s, lo + k) \in Seq(Int) /\ Len(Append(s, lo + k)) = k + 1
    BY <2>1
  <2>5. \A j \in 1 .. k + 1 : Append(s, lo + k)[j] = t[j]
    BY <2>1, <2>2, <2>3
  <2>6. Append(s, lo + k) = t
    BY <2>1, <2>4, <2>5, SeqEqual
  <2>7. lo + k + 1 = lo + (k + 1) /\ k + 1 \in Nat
    OBVIOUS
  <2>8. Span(lo, lo + k) = s
    BY <1>1 DEF s
  <2>9. Span(lo, lo + (k + 1)) = t
    BY <1>1, <2>7 DEF t
  <2> QED
    BY <2>6, <2>7, <2>8, <2>9
<1>5. IsSeq(Span(lo, lo + k)) /\ Len(Span(lo, lo + k)) = k
  <2> DEFINE s == [j \in 1 .. k |-> lo + j - 1]
  <2>1. s \in Seq(Int) /\ Len(s) = k
    BY <1>2
  <2>2. Span(lo, lo + k) = s
    BY <1>1
  <2> HIDE DEF s
  <2> QED
    BY <2>1, <2>2 DEF IsSeq
<1> QED
  BY <1>3, <1>4, <1>5

\* A transfer of words from c on, inside the page that ends at hi: d of them went
\* through, w of them to the bus if they are written, all of them to the next word
\* and none of them a bad one unless an error is pending.
Moved(s, acc, c, hi, d, w) ==
    /\ ~s.dp.sticky => /\ w = d /\ (c + d < hi => s.dp.tar[MEM] = c + d)
                       /\ \A b \in c .. c + d - 1 : b \notin BadWords
    /\ (\A j \in DOMAIN acc : acc[j][2] = Rd) => s.data = Span(c, c + d)
    /\ (\A j \in DOMAIN acc : acc[j][2] # Rd) =>
         \A b \in DOMAIN mem : s.mem[b] = IF b \in c .. c + w - 1 THEN acc[b - c + 1][2] ELSE mem[b]

LEMMA MovedOn ==
    ASSUME NEW s, Under(s), s.ack = "ok", ~s.dp.sticky, s.dp.sel = MEM, MEM \in s.dp.incr, MEM \in DOMAIN s.dp.tar,
           DOMAIN mem = 0 .. Top - 1, DOMAIN s.mem = DOMAIN mem,
           NEW acc, NEW c \in Nat, NEW hi \in Nat, hi <= Top, NEW i \in Nat, c + i < hi, i + 1 \in DOMAIN acc,
           \A t \in Nat : c <= t /\ t + 1 < hi => Onward(t) = t + 1,
           acc[i + 1][1] = "drw", Moved(s, acc, c, hi, i, i),
           NEW posted, NEW u, u = Access(s, acc[i + 1], posted)
    PROVE  \E d \in {i, i + 1}, w \in {i, i + 1} :
             w <= d /\ Moved(u, acc, c, hi, d, w) /\ (u.ack = "ok" => d = i + 1)
<1> DEFINE x == acc[i + 1]
<1>1. s.dp.tar[MEM] = c + i /\ c + i \in Nat /\ c + i \in DOMAIN mem /\ c + i # Top /\ Top \in Nat
  BY SizesAssumption DEF Moved
<1>2. x[1] \notin Readouts \cup Settings
  BY DEF Readouts, Settings
<1>3. \/ ~Fails(c + i) /\ u.dp.sticky = s.dp.sticky /\ Goes(s, x, u) /\ Puts(s, x, u)
      \/ u.dp.sticky = TRUE /\ Goes(s, x, u) /\ u.mem = s.mem
      \/ Stops(s, u)
  <2> HIDE DEF x
  <2> QED
    BY <1>1, <1>2, AccessCases DEF x
<1> DEFINE allRd == \A j \in DOMAIN acc : acc[j][2] = Rd
           allWr == \A j \in DOMAIN acc : acc[j][2] # Rd
           G(m, b, w) == IF b \in c .. c + w - 1 THEN acc[b - c + 1][2] ELSE m[b]
<1>4. /\ allRd => s.data = Span(c, c + i) /\ x[2] = Rd
      /\ allWr => x[2] # Rd /\ \A b \in DOMAIN mem : s.mem[b] = G(mem, b, i)
  BY DEF Moved
<1> HIDE DEF x
<1>5. Goes(s, x, u) => (allRd => u.data = Span(c, c + (i + 1)))
  <2> DEFINE v == c + i
             z == c + i + 1
  <2>3. z = c + (i + 1)
    OBVIOUS
  <2>1. Append(Span(c, v), v) = Span(c, z)
    <3>1. c \in Int
      OBVIOUS
    <3> QED
      BY <3>1, SpanIs
  <2> HIDE DEF allRd, z
  <2>2. Goes(s, x, u) /\ x[2] = Rd => u.data = Append(s.data, v)
    BY <1>1 DEF Goes
  <2> HIDE DEF v
  <2>4. allRd => s.data = Span(c, v) /\ x[2] = Rd
    BY <1>4 DEF v
  <2>5. Goes(s, x, u) => (allRd => u.data = Span(c, z))
    BY <2>1, <2>2, <2>4
  <2> QED
    BY <2>3, <2>5
<1>6. CASE ~Fails(c + i) /\ u.dp.sticky = s.dp.sticky /\ Goes(s, x, u) /\ Puts(s, x, u)
  <2>1. c + (i + 1) < hi => u.dp.tar[MEM] = c + (i + 1)
    <3>1. c + i <= c + i /\ (c + (i + 1) < hi => Onward(c + i) = c + i + 1)
      BY <1>1
    <3>2. u.dp.tar[MEM] = Onward(c + i)
      BY <1>1, <1>6 DEF Goes
    <3> QED
      BY <1>1, <3>1, <3>2
  <2>2. \A b \in c .. c + (i + 1) - 1 : b \notin BadWords
    <3>1. c + i \notin BadWords
      BY <1>6 DEF Fails
    <3>2. \A b \in c .. c + i - 1 : b \notin BadWords
      BY DEF Moved
    <3> QED
      BY <3>1, <3>2
  <2>3. allWr => \A b \in DOMAIN mem : u.mem[b] = G(mem, b, i + 1)
    <3> SUFFICES ASSUME allWr, NEW b \in DOMAIN mem PROVE u.mem[b] = G(mem, b, i + 1)
      OBVIOUS
    <3> HIDE DEF allWr, allRd
    <3>1. u.mem = [s.mem EXCEPT ![c + i] = x[2]] /\ c + i \in DOMAIN s.mem
      BY <1>1, <1>4, <1>6 DEF Puts
    <3>2. s.mem[b] = G(mem, b, i)
      BY <1>4
    <3>3. CASE b = c + i
      <4>1. u.mem[b] = x[2]
        BY <3>1, <3>3
      <4>2. b \in c .. c + (i + 1) - 1 /\ b - c + 1 = i + 1
        BY <3>3
      <4> QED
        BY <4>1, <4>2 DEF x
    <3>4. CASE b # c + i
      <4>1. u.mem[b] = s.mem[b]
        BY <3>1, <3>4
      <4>2. b \in Int
        BY <1>1
      <4>3. b \in c .. c + (i + 1) - 1 <=> b \in c .. c + i - 1
        <5>1. c + (i + 1) - 1 = c + i /\ c \in Int /\ i \in Int
          OBVIOUS
        <5> QED
          BY <3>4, <4>2, <5>1
      <4> QED
        BY <3>2, <4>1, <4>3
    <3> QED
      BY <3>3, <3>4
  <2> HIDE DEF G
  <2>4. Moved(u, acc, c, hi, i + 1, i + 1)
    BY <1>5, <1>6, <2>1, <2>2, <2>3 DEF Moved, G
  <2> QED
    BY <2>4
<1>7. CASE u.dp.sticky = TRUE /\ Goes(s, x, u) /\ u.mem = s.mem
  <2> HIDE DEF G
  <2>1. Moved(u, acc, c, hi, i + 1, i)
    BY <1>4, <1>5, <1>7 DEF Moved, G
  <2> QED
    BY <2>1
<1>8. CASE Stops(s, u)
  <2> HIDE DEF G
  <2>1. Moved(u, acc, c, hi, i, i) /\ u.ack # "ok"
    BY <1>4, <1>8 DEF Moved, Stops, Kept, G
  <2> QED
    BY <2>1
<1> QED
  BY <1>3, <1>6, <1>7, <1>8

Blocked(acc, c, hi, r) ==
    \E d \in 0 .. Len(acc), w \in 0 .. Len(acc) :
      w <= d /\ Moved(r, acc, c, hi, d, w) /\ (r.ack = "ok" => d = Len(acc))
LEMMA BlockRun ==
    ASSUME Port(dp), ~dp.sticky, dp.sel = MEM, MEM \in dp.incr, MEM \in DOMAIN dp.tar, DOMAIN mem = 0 .. Top - 1,
           NEW acc, IsSeq(acc), \A j \in DOMAIN acc : acc[j][1] = "drw",
           NEW c \in Nat, NEW hi \in Nat, hi <= Top, c + Len(acc) <= hi, c < hi => dp.tar[MEM] = c,
           \A t \in Nat : c <= t /\ t + 1 < hi => Onward(t) = t + 1,
           NEW posted, NEW stop, NEW r, r = RunTransfer(acc, posted, stop)
    PROVE  Blocked(acc, c, hi, r)
<1> DEFINE n == Len(acc)
           B(s, i) ==
             /\ Under(s) /\ s.dp.sel = MEM /\ MEM \in s.dp.incr /\ MEM \in DOMAIN s.dp.tar
             /\ DOMAIN s.mem = DOMAIN mem
             /\ \E d \in 0 .. i, w \in 0 .. i :
                  w <= d /\ Moved(s, acc, c, hi, d, w) /\ (s.ack = "ok" => d = i /\ (~s.dp.sticky => w = i))
<1>1. n \in Nat /\ DOMAIN acc = 1 .. n
  BY SeqShape
<1>2. PICK f : /\ f[0] = RunStart
               /\ \A i \in 1 .. n : f[i] = RunStep(i, f[i - 1], acc, posted, stop)
               /\ r = f[n]
  BY TransferRuns
<1>3. B(f[0], 0)
  <2>1. Under(RunStart) /\ RunStart.dp = dp /\ RunStart.ack = "ok" /\ RunStart.mem = mem /\ RunStart.data = <<>>
    BY RunStartIs DEF RunStart
  <2> HIDE DEF RunStart
  <2>2. Span(c, c + 0) = <<>> /\ c + 0 = c /\ c .. c + 0 - 1 = {}
    <3>1. c \in Int
      OBVIOUS
    <3>2. Span(c, c) = <<>>
      BY <3>1, SpanIs
    <3> QED
      BY <3>2
  <2>3. Moved(RunStart, acc, c, hi, 0, 0)
    BY <2>1, <2>2 DEF Moved
  <2> QED
    BY <1>2, <2>1, <2>3
<1> HIDE DEF n
<1>4. ASSUME NEW m \in Nat, m + 1 <= n, NEW s, B(s, m), NEW u, u = RunStep(m + 1, s, acc, posted, stop)
      PROVE  B(u, m + 1)
  <2> DEFINE x == acc[m + 1]
  <2>1. m + 1 \in DOMAIN acc /\ 0 .. m \subseteq 0 .. m + 1
    BY <1>1, <1>4
  <2>2. /\ Under(u)
        /\ \/ s.ack # "ok" /\ u = s
           \/ s.ack = "ok" /\ m + 1 = stop /\ Pauses(s, u)
           \/ s.ack = "ok" /\ u = Access(s, x, posted)
    BY <1>4, StepCases
  <2>3. PICK d \in 0 .. m, w \in 0 .. m :
          w <= d /\ Moved(s, acc, c, hi, d, w) /\ (s.ack = "ok" => d = m /\ (~s.dp.sticky => w = m))
    BY <1>4
  <2>4. /\ Under(s) /\ s.dp.sel = MEM /\ MEM \in s.dp.incr /\ MEM \in DOMAIN s.dp.tar
        /\ DOMAIN s.mem = DOMAIN mem
    BY <1>4
  <2> HIDE DEF x
  <2>5. CASE s.ack # "ok" /\ u = s
    BY <2>1, <2>3, <2>4, <2>5
  <2>6. CASE Pauses(s, u)
    <3>1. Moved(u, acc, c, hi, d, w)
      BY <2>3, <2>6 DEF Moved, Pauses, Kept
    <3>2. u.ack # "ok" /\ u.dp = s.dp /\ u.mem = s.mem
      BY <2>6 DEF Pauses, Kept
    <3> QED
      BY <2>1, <2>2, <2>3, <2>4, <3>1, <3>2
  <2>7. CASE s.ack = "ok" /\ s.dp.sticky /\ u = Access(s, x, posted)
    <3>1. x[1] \notin Readouts
      BY <2>1 DEF Readouts, x
    <3>2. Refuses(s, u)
      BY <2>4, <2>7, <3>1, AccessCases
    <3>3. Moved(u, acc, c, hi, d, w)
      BY <2>3, <3>2 DEF Moved, Refuses, Kept
    <3>4. u.ack # "ok" /\ u.dp = s.dp /\ u.mem = s.mem
      BY <3>2 DEF Refuses, Kept
    <3> QED
      BY <2>1, <2>2, <2>3, <2>4, <3>3, <3>4
  <2>8. CASE s.ack = "ok" /\ ~s.dp.sticky /\ u = Access(s, x, posted)
    <3>1. Moved(s, acc, c, hi, m, m)
      BY <2>3, <2>8
    <3>2. c + m < hi /\ x[1] = "drw"
      BY <1>1, <1>4, <2>1 DEF n, x
    <3>3. \E e \in {m, m + 1}, v \in {m, m + 1} :
            v <= e /\ Moved(u, acc, c, hi, e, v) /\ (u.ack = "ok" => e = m + 1)
      BY <2>1, <2>4, <2>8, <3>1, <3>2, MovedOn DEF x
    <3>4. PICK e \in {m, m + 1}, v \in {m, m + 1} :
            v <= e /\ Moved(u, acc, c, hi, e, v) /\ (u.ack = "ok" => e = m + 1)
      BY <3>3
    <3>5. ~u.dp.sticky => v = e
      BY <3>4 DEF Moved
    <3>6. /\ DOMAIN u.dp.tar = DOMAIN s.dp.tar /\ DOMAIN u.mem = DOMAIN s.mem
      BY <2>4, <2>8, AccessWhole DEF Accessed
    <3>7. u.dp.sel = MEM /\ u.dp.incr = s.dp.incr
      <4>1. CalmAccess(x)
        BY <3>2 DEF CalmAccess
      <4>2. Same(s, u)
        BY <2>4, <2>8, <4>1, AccessPort
      <4> QED
        BY <2>4, <4>2 DEF Same
    <3>8. e \in 0 .. m + 1 /\ v \in 0 .. m + 1
      OBVIOUS
    <3> QED
      BY <2>2, <2>4, <3>4, <3>5, <3>6, <3>7, <3>8
  <2> QED
    BY <2>2, <2>5, <2>6, <2>7, <2>8
<1> DEFINE T == {m \in Nat : m <= n => B(f[m], m)}
<1> HIDE DEF B
<1>5. 0 \in T
  BY <1>3
<1>6. ASSUME NEW m \in Nat, m \in T PROVE m + 1 \in T
  <2> SUFFICES ASSUME m + 1 <= n PROVE B(f[m + 1], m + 1)
    OBVIOUS
  <2>1. m + 1 \in 1 .. n /\ m <= n /\ m + 1 - 1 = m
    BY <1>1
  <2>2. f[m + 1] = RunStep(m + 1, f[m], acc, posted, stop)
    BY <1>2, <2>1
  <2> QED
    BY <1>4, <1>6, <2>1, <2>2
<1>7. Nat \subseteq T
  <2> HIDE DEF T
  <2> QED
    BY <1>5, <1>6, NatsIn
<1>8. B(r, n)
  BY <1>1, <1>2, <1>7
<1> QED
  BY <1>8 DEF B, n, Blocked

\* The single accesses of a TAR write and of sticky_error().
LEMMA OneRun ==
    ASSUME Port(dp), NEW acc, IsSeq(acc), NEW posted, NEW stop, NEW r, r = RunTransfer(acc, posted, stop)
    PROVE  /\ Under(RunStart) /\ RunStart.dp = dp /\ RunStart.ack = "ok" /\ RunStart.data = <<>>
           /\ Len(acc) = 1 => (r.dp = dp /\ r.ack = "wait") \/ r = Access(RunStart, acc[1], posted)
<1>1. Under(RunStart) /\ RunStart.dp = dp /\ RunStart.ack = "ok" /\ RunStart.data = <<>>
  BY RunStartIs DEF RunStart
<1>2. PICK f : /\ f[0] = RunStart
               /\ \A i \in 1 .. Len(acc) : f[i] = RunStep(i, f[i - 1], acc, posted, stop)
               /\ r = f[Len(acc)]
  BY TransferRuns
<1>3. Len(acc) = 1 => r = RunStep(1, RunStart, acc, posted, stop)
  <2> HAVE Len(acc) = 1
  <2>1. 1 \in 1 .. Len(acc) /\ 1 - 1 = 0
    OBVIOUS
  <2> QED
    BY <1>2, <2>1
<1> QED
  BY <1>1, <1>3, StepCases DEF Pauses

LEMMA TarRun ==
    ASSUME Port(dp), dp.sel \in DOMAIN dp.tar, NEW v, NEW acc, acc = <<<<"tar", v>>>>,
           NEW posted, NEW stop, NEW r, r = RunTransfer(acc, posted, stop), r.ack = "ok"
    PROVE  r.dp.tar[dp.sel] = v
<1> DEFINE x == <<"tar", v>>
           s == RunStart
<1>1. x[1] = "tar" /\ x[2] = v
  OBVIOUS
<1> HIDE DEF x, s
<1>2. IsSeq(acc) /\ Len(acc) = 1 /\ acc[1] = x
  BY SingleSeq DEF x
<1>3. Under(s) /\ s.dp = dp /\ s.ack = "ok" /\ r = Access(s, x, posted)
  BY <1>2, OneRun DEF s
<1>4. x[1] \notin Readouts /\ x[1] \in Settings
  BY <1>1 DEF Readouts, Settings
<1>5. Refuses(s, r) \/ Sets(s, x, r)
  BY <1>3, <1>4, AccessCases
<1>6. Sets(s, x, r)
  BY <1>5 DEF Refuses
<1> QED
  BY <1>1, <1>3, <1>6 DEF Sets

LEMMA StatRun ==
    ASSUME Port(dp), NEW acc, acc = <<<<"stat", Rd>>>>,
           NEW posted, NEW stop, NEW r, r = RunTransfer(acc, posted, stop)
    PROVE  r.dp = dp /\ (r.ack = "ok" => r.data = IF dp.sticky THEN <<Sticky>> ELSE <<Clean>>)
<1> DEFINE x == <<"stat", Rd>>
           s == RunStart
<1>1. x[1] = "stat"
  OBVIOUS
<1> HIDE DEF x, s
<1>2. IsSeq(acc) /\ Len(acc) = 1 /\ acc[1] = x
  BY SingleSeq DEF x
<1>3. /\ Under(s) /\ s.dp = dp /\ s.ack = "ok" /\ s.data = <<>>
      /\ (r.dp = dp /\ r.ack = "wait") \/ r = Access(s, x, posted)
  BY <1>2, OneRun DEF s
<1>4. r = Access(s, x, posted) => ReadsWord(s, x, r)
  <2>1. x[1] \in Readouts
    BY <1>1 DEF Readouts
  <2> QED
    BY <1>3, <2>1, AccessCases
<1>5. \A w : Append(<<>>, w) = <<w>>
  OBVIOUS
<1>6. ReadsWord(s, x, r) => r.dp = dp /\ r.data = IF dp.sticky THEN <<Sticky>> ELSE <<Clean>>
  BY <1>1, <1>3, <1>5 DEF ReadsWord
<1> QED
  BY <1>3, <1>4, <1>6

LEMMA PieceIs ==
    ASSUME NEW W, NEW lo \in Int, NEW mid \in Int, NEW hi \in Int, lo <= mid, mid <= hi
    PROVE  /\ IsSeq(Piece(W, lo, hi)) /\ Len(Piece(W, lo, hi)) = hi - lo
           /\ Piece(W, lo, mid) \o Piece(W, mid, hi) = Piece(W, lo, hi)
           /\ Piece(W, lo, lo) = <<>>
<1> DEFINE S == {W[x] : x \in Int}
<1>1. ASSUME NEW a \in Int, NEW b \in Int, a <= b
      PROVE  Piece(W, a, b) \in Seq(S) /\ Len(Piece(W, a, b)) = b - a /\ \A j \in 1 .. b - a : Piece(W, a, b)[j] = W[a + j]
  <2>1. b - a \in Nat
    BY <1>1
  <2>2. ASSUME NEW j \in 1 .. b - a PROVE W[a + j] \in S
    OBVIOUS
  <2> HIDE DEF S
  <2>3. [j \in 1 .. b - a |-> W[a + j]] \in [1 .. b - a -> S]
    BY <2>2
  <2>4. Piece(W, a, b) \in [1 .. b - a -> S]
    BY <2>3 DEF Piece
  <2>5. Piece(W, a, b) \in Seq(S) /\ Len(Piece(W, a, b)) = b - a
    BY <2>1, <2>4
  <2> QED
    BY <2>5 DEF Piece
<1> HIDE DEF S
<1> DEFINE p == Piece(W, lo, mid)
           q == Piece(W, mid, hi)
           r == Piece(W, lo, hi)
           k == mid - lo
           m == hi - mid
<1>7. p \in Seq(S) /\ Len(p) = k /\ \A j \in 1 .. k : p[j] = W[lo + j]
  BY <1>1
<1>8. q \in Seq(S) /\ Len(q) = m /\ \A j \in 1 .. m : q[j] = W[mid + j]
  BY <1>1
<1>9. r \in Seq(S) /\ Len(r) = k + m /\ \A j \in 1 .. k + m : r[j] = W[lo + j]
  <2>1. lo <= hi /\ hi - lo = k + m
    OBVIOUS
  <2> QED
    BY <1>1, <2>1
<1>10. k \in Nat /\ m \in Nat /\ mid = lo + k /\ hi - lo = k + m
  OBVIOUS
<1>3. Piece(W, lo, lo) = <<>>
  <2>1. Piece(W, lo, lo) \in Seq(S) /\ Len(Piece(W, lo, lo)) = 0
    BY <1>1
  <2> QED
    BY <2>1, EmptySeq
<1> HIDE DEF p, q, r, k, m
<1>4. p \o q \in Seq(S) /\ Len(p \o q) = k + m
  BY <1>7, <1>8, ConcatProperties
<1>5. ASSUME NEW j \in 1 .. k + m PROVE (p \o q)[j] = W[lo + j]
  <2>1. CASE j <= k
    <3>1. j \in 1 .. k
      BY <1>10, <2>1
    <3>2. (p \o q)[j] = p[j]
      BY <1>7, <1>8, <1>10, <2>1, ConcatProperties
    <3> QED
      BY <1>7, <3>1, <3>2
  <2>2. CASE j > k
    <3>1. j - k \in 1 .. m /\ mid + (j - k) = lo + j
      BY <1>10, <2>2
    <3>2. (p \o q)[j] = q[j - k]
      <4>1. (p \o q)[j] = IF j <= k THEN p[j] ELSE q[j - k]
        BY <1>7, <1>8, ConcatProperties
      <4>2. ~(j <= k)
        BY <1>10, <2>2
      <4> QED
        BY <4>1, <4>2
    <3> QED
      BY <1>8, <3>1, <3>2
  <2>3. j <= k \/ j > k
    BY <1>10
  <2> QED
    BY <2>1, <2>2, <2>3
<1>6. p \o q = r
  <2>1. \A j \in 1 .. k + m : (p \o q)[j] = r[j]
    BY <1>5, <1>9
  <2> QED
    BY <1>4, <1>9, <2>1, SeqEqual
<1> QED
  BY <1>3, <1>6, <1>9, <1>10 DEF IsSeq, p, q, r

LEMMA PieceMore ==
    ASSUME NEW W, NEW lo \in Int, NEW hi \in Int, lo <= hi
    PROVE  Append(Piece(W, lo, hi), W[hi + 1]) = Piece(W, lo, hi + 1)
<1> DEFINE p == Piece(W, lo, hi)
           q == Piece(W, hi, hi + 1)
           w == W[hi + 1]
<1>1. q = <<w>>
  <2>1. hi + 1 - hi = 1
    OBVIOUS
  <2>2. q = [j \in 1 .. 1 |-> W[hi + j]]
    BY <2>1 DEF Piece
  <2> HIDE DEF q
  <2>3. q \in Seq({w}) /\ Len(q) = 1 /\ q[1] = w
    <3>1. \A j \in 1 .. 1 : W[hi + j] = w
      OBVIOUS
    <3> HIDE DEF w
    <3>2. q = [j \in 1 .. 1 |-> w]
      BY <2>2, <3>1
    <3>3. q \in [1 .. 1 -> {w}]
      BY <3>2
    <3>4. q \in Seq({w})
      BY <3>3
    <3>5. q[1] = w
      BY <3>2
    <3>6. Len(q) = 1
      BY <3>3, <3>4
    <3> QED
      BY <3>4, <3>5, <3>6
  <2> HIDE DEF w
  <2> QED
    BY <2>3
<1>2. IsSeq(p)
  <2>1. hi <= hi
    OBVIOUS
  <2> QED
    BY <2>1, PieceIs
<1>3. p \o q = Piece(W, lo, hi + 1)
  <2> DEFINE h == hi + 1
  <2>1. h \in Int /\ hi <= h
    OBVIOUS
  <2> HIDE DEF h
  <2>2. Piece(W, lo, hi) \o Piece(W, hi, h) = Piece(W, lo, h)
    BY <2>1, PieceIs
  <2> QED
    BY <2>2 DEF h
<1> HIDE DEF p, q, w
<1>4. p \o <<w>> = Append(p, w)
  <2>1. PICK S : p \in Seq(S)
    BY <1>2 DEF IsSeq
  <2> DEFINE U == S \cup {w}
  <2>2. p \in Seq(U) /\ w \in U
    BY <2>1
  <2> HIDE DEF U
  <2> QED
    BY <2>2
<1> QED
  BY <1>1, <1>3, <1>4 DEF p, w

\* Access x of a batch, counted over all its packets.
Batched(regs, x) == IF x % 2 = 1 THEN <<"tar", regs[(x + 1) \div 2]>> ELSE <<"drw", Rd>>

\* After g + i accesses of a batch, i of them in this packet.
BatchedTo(s, regs, g, i) ==
    s.ack = "ok" =>
        /\ g + i > 0 => s.dp.tar[DM] = regs[(g + i + 1) \div 2]
        /\ s.data = Piece(Table(regs), g \div 2, (g + i) \div 2)

LEMMA HalfIs ==
    ASSUME NEW x \in Nat
    PROVE  /\ (x + 1) % 2 = 1 => (x + 1) \div 2 = x \div 2 /\ (x + 1 + 1) \div 2 = (x + 2) \div 2
           /\ (x + 1) % 2 # 1 => /\ (x + 1) \div 2 = x \div 2 + 1 /\ (x + 1 + 1) \div 2 = (x + 1) \div 2 /\ x > 0
           /\ x \div 2 \in Nat
OBVIOUS

LEMMA BatchedOn ==
    ASSUME NEW s, Under(s), s.ack = "ok", ~s.dp.sticky, s.dp.sel = DM, DM \notin s.dp.incr, DM \in DOMAIN s.dp.tar,
           NEW regs, NEW g \in Nat, NEW i \in Nat, BatchedTo(s, regs, g, i),
           NEW posted, NEW u, u = Access(s, Batched(regs, g + i + 1), posted)
    PROVE  BatchedTo(u, regs, g, i + 1) /\ (u.ack = "ok" => u.dp.sticky = s.dp.sticky)
<1> DEFINE y == g + i
           x == Batched(regs, y + 1)
<1>1. y \in Nat /\ g + (i + 1) = y + 1
  OBVIOUS
<1>2. (y > 0 => s.dp.tar[DM] = regs[(y + 1) \div 2]) /\ s.data = Piece(Table(regs), g \div 2, y \div 2)
  BY DEF BatchedTo
<1>3. u = Access(s, x, posted)
  OBVIOUS
<1>4. DM # MEM
  BY DEF DM, MEM
<1>5. g \div 2 \in Int /\ y \div 2 \in Int /\ g \div 2 <= y \div 2
  OBVIOUS
<1> HIDE DEF y
<1>6. CASE (y + 1) % 2 = 1
  <2>1. x[1] = "tar" /\ x[2] = regs[(y + 1 + 1) \div 2]
    <3>1. x = <<"tar", regs[(y + 1 + 1) \div 2]>>
      BY <1>6 DEF Batched
    <3> QED
      BY <3>1
  <2> HIDE DEF x
  <2>2. Sets(s, x, u)
    <3>1. x[1] \in Settings
      BY <2>1 DEF Settings
    <3> QED
      BY <1>3, <3>1, AccessCases
  <2>3. u.dp.tar[DM] = regs[(y + 1 + 1) \div 2] /\ u.data = s.data /\ u.dp.sticky = s.dp.sticky
    BY <2>1, <2>2 DEF Sets, Kept
  <2>4. (y + 1) \div 2 = y \div 2
    BY <1>1, <1>6, HalfIs
  <2> QED
    BY <1>1, <1>2, <2>3, <2>4 DEF BatchedTo
<1>7. CASE (y + 1) % 2 # 1
  <2>1. x[1] = "drw" /\ x[2] = Rd
    <3>1. x = <<"drw", Rd>>
      BY <1>7 DEF Batched
    <3> QED
      BY <3>1
  <2> HIDE DEF x
  <2>2. Goes(s, x, u) /\ u.dp.sticky = s.dp.sticky
    <3>1. x[1] \notin Readouts \cup Settings
      BY <2>1 DEF Settings, Readouts
    <3> QED
      BY <1>3, <1>4, <3>1, AccessCases
  <2>3. (y + 1) \div 2 = y \div 2 + 1 /\ (y + 1 + 1) \div 2 = (y + 1) \div 2 /\ y > 0
    BY <1>1, <1>7, HalfIs
  <2>4. s.dp.tar[DM] = regs[(y + 1) \div 2]
    BY <1>2, <2>3
  <2>5. u.dp.tar[DM] = regs[(y + 1 + 1) \div 2] /\ u.data = Append(s.data, Top + regs[(y + 1) \div 2])
    BY <1>4, <2>1, <2>2, <2>3, <2>4 DEF Goes
  <2>6. Table(regs)[y \div 2 + 1] = Top + regs[(y + 1) \div 2]
    BY <1>5, <2>3 DEF Table
  <2>7. Append(Piece(Table(regs), g \div 2, y \div 2), Table(regs)[y \div 2 + 1]) = Piece(Table(regs), g \div 2, y \div 2 + 1)
    BY <1>5, PieceMore
  <2>8. u.data = Piece(Table(regs), g \div 2, (y + 1) \div 2)
    BY <1>2, <2>3, <2>5, <2>6, <2>7
  <2> QED
    BY <1>1, <2>2, <2>5, <2>8 DEF BatchedTo
<1> QED
  BY <1>6, <1>7

LEMMA BatchRun ==
    ASSUME Port(dp), ~dp.sticky, dp.sel = DM, DM \notin dp.incr, DM \in DOMAIN dp.tar,
           NEW acc, IsSeq(acc), NEW regs, NEW g \in Nat, \A j \in DOMAIN acc : acc[j] = Batched(regs, g + j),
           g > 0 => dp.tar[DM] = regs[(g + 1) \div 2],
           NEW posted, NEW stop, NEW r, r = RunTransfer(acc, posted, stop)
    PROVE  BatchedTo(r, regs, g, Len(acc))
<1> DEFINE n == Len(acc)
           B(s, i) ==
             /\ Under(s) /\ s.dp.sel = DM /\ DM \notin s.dp.incr /\ DM \in DOMAIN s.dp.tar
             /\ BatchedTo(s, regs, g, i) /\ (s.ack = "ok" => ~s.dp.sticky)
<1>1. n \in Nat /\ DOMAIN acc = 1 .. n
  BY SeqShape
<1>2. PICK f : /\ f[0] = RunStart
               /\ \A i \in 1 .. n : f[i] = RunStep(i, f[i - 1], acc, posted, stop)
               /\ r = f[n]
  BY TransferRuns
<1>3. B(f[0], 0)
  <2>1. Under(RunStart) /\ RunStart.dp = dp /\ RunStart.ack = "ok" /\ RunStart.data = <<>>
    BY RunStartIs DEF RunStart
  <2> HIDE DEF RunStart
  <2>2. Piece(Table(regs), g \div 2, g \div 2) = <<>> /\ g + 0 = g
    <3>1. g \div 2 \in Int /\ g \div 2 <= g \div 2
      OBVIOUS
    <3> QED
      BY <3>1, PieceIs
  <2>3. BatchedTo(RunStart, regs, g, 0)
    BY <2>1, <2>2 DEF BatchedTo
  <2> QED
    BY <1>2, <2>1, <2>3
<1> HIDE DEF n
<1>4. ASSUME NEW m \in Nat, m + 1 <= n, NEW s, B(s, m), NEW u, u = RunStep(m + 1, s, acc, posted, stop)
      PROVE  B(u, m + 1)
  <2> DEFINE x == acc[m + 1]
  <2>1. m + 1 \in DOMAIN acc
    BY <1>1, <1>4
  <2>2. x = Batched(regs, g + (m + 1)) /\ g + (m + 1) = g + m + 1
    BY <2>1
  <2>3. /\ Under(s) /\ s.dp.sel = DM /\ DM \notin s.dp.incr /\ DM \in DOMAIN s.dp.tar
        /\ BatchedTo(s, regs, g, m) /\ (s.ack = "ok" => ~s.dp.sticky)
    BY <1>4
  <2>4. /\ Under(u)
        /\ \/ s.ack # "ok" /\ u = s
           \/ s.ack = "ok" /\ m + 1 = stop /\ Pauses(s, u)
           \/ s.ack = "ok" /\ u = Access(s, x, posted)
    BY <1>4, <2>3, StepCases
  <2> HIDE DEF x
  <2>5. CASE s.ack # "ok" /\ u = s
    BY <2>3, <2>5 DEF BatchedTo
  <2>6. CASE Pauses(s, u)
    BY <2>3, <2>4, <2>6 DEF BatchedTo, Pauses
  <2>7. CASE s.ack = "ok" /\ u = Access(s, x, posted)
    <3>1. BatchedTo(u, regs, g, m + 1) /\ (u.ack = "ok" => u.dp.sticky = s.dp.sticky)
      <4>1. u = Access(s, Batched(regs, g + m + 1), posted)
        BY <2>2, <2>7
      <4> QED
        BY <2>3, <2>7, <4>1, BatchedOn
    <3>2. DOMAIN u.dp.tar = DOMAIN s.dp.tar
      BY <2>3, <2>7, AccessWhole DEF Accessed
    <3>3. CalmAccess(x)
      <4>1. x = <<"tar", regs[(g + m + 1 + 1) \div 2]>> \/ x = <<"drw", Rd>>
        BY <2>2 DEF Batched
      <4> QED
        BY <4>1 DEF CalmAccess
    <3>4. Same(s, u)
      BY <2>3, <2>7, <3>3, AccessPort
    <3> QED
      BY <2>3, <2>4, <2>7, <3>1, <3>2, <3>4 DEF Same
  <2> QED
    BY <2>4, <2>5, <2>6, <2>7
<1> DEFINE T == {m \in Nat : m <= n => B(f[m], m)}
<1> HIDE DEF B
<1>5. 0 \in T
  BY <1>3
<1>6. ASSUME NEW m \in Nat, m \in T PROVE m + 1 \in T
  <2> SUFFICES ASSUME m + 1 <= n PROVE B(f[m + 1], m + 1)
    OBVIOUS
  <2>1. m + 1 \in 1 .. n /\ m <= n /\ m + 1 - 1 = m
    BY <1>1
  <2>2. f[m + 1] = RunStep(m + 1, f[m], acc, posted, stop)
    BY <1>2, <2>1
  <2> QED
    BY <1>4, <1>6, <2>1, <2>2
<1>7. Nat \subseteq T
  <2> HIDE DEF T
  <2> QED
    BY <1>5, <1>6, NatsIn
<1>8. B(r, n)
  BY <1>1, <1>2, <1>7
<1> QED
  BY <1>8 DEF B, n

\* What the packets of a stage read, put together.
LEMMA ConcatIs ==
    ASSUME NEW s, IsSeq(s), NEW W, NEW U, \A i \in 0 .. Len(s) : U[i] \in Int,
           \A i \in 1 .. Len(s) : U[0] <= U[i - 1] /\ U[i - 1] <= U[i] /\ s[i] = Piece(W, U[i - 1], U[i])
    PROVE  Concat(s) = Piece(W, U[0], U[Len(s)])
<1> DEFINE n == Len(s)
           C(h) == h = [i \in 0 .. n |-> IF i = 0 THEN <<>> ELSE h[i - 1] \o s[i]]
           g == [i \in 0 .. n |-> Piece(W, U[0], U[i])]
           f == CHOOSE h : C(h)
<1>1. n \in Nat
  BY SeqShape
<1>2. Concat(s) = f[n]
  BY Zenon DEF Concat
<1>3. Piece(W, U[0], U[0]) = <<>>
  <2>1. U[0] \in Int /\ U[0] <= U[0]
    BY <1>1
  <2> QED
    BY <2>1, PieceIs
<1>4. ASSUME NEW i \in 1 .. n PROVE Piece(W, U[0], U[i]) = Piece(W, U[0], U[i - 1]) \o s[i]
  <2>1. U[0] \in Int /\ U[i - 1] \in Int /\ U[i] \in Int /\ U[0] <= U[i - 1] /\ U[i - 1] <= U[i]
    <3>1. 0 \in 0 .. n /\ i - 1 \in 0 .. n /\ i \in 0 .. n
      BY <1>1
    <3> QED
      BY <3>1
  <2>2. s[i] = Piece(W, U[i - 1], U[i])
    OBVIOUS
  <2> DEFINE x == U[0]
             y == U[i - 1]
             z == U[i]
  <2>3. x \in Int /\ y \in Int /\ z \in Int /\ x <= y /\ y <= z
    BY <2>1
  <2> HIDE DEF x, y, z
  <2>4. Piece(W, x, y) \o Piece(W, y, z) = Piece(W, x, z)
    BY <2>3, PieceIs
  <2> QED
    BY <2>2, <2>4 DEF x, y, z
<1> HIDE DEF n
<1>5. C(g)
  <2>1. ASSUME NEW i \in 0 .. n PROVE g[i] = IF i = 0 THEN <<>> ELSE g[i - 1] \o s[i]
    <3>1. CASE i = 0
      BY <1>3, <3>1
    <3>2. CASE i # 0
      <4>1. i \in 1 .. n /\ i - 1 \in 0 .. n
        BY <1>1, <3>2
      <4> QED
        BY <1>4, <3>2, <4>1
    <3> QED
      BY <3>1, <3>2
  <2>2. g = [i \in 0 .. n |-> g[i]]
    OBVIOUS
  <2> HIDE DEF g
  <2> QED
    BY <2>1, <2>2
<1>6. C(f)
  <2> HIDE DEF g, C
  <2> QED
    BY <1>5
<1> HIDE DEF f, g
<1>7. ASSUME NEW i \in 0 .. n PROVE f[i] = IF i = 0 THEN <<>> ELSE f[i - 1] \o s[i]
  BY <1>6
<1> DEFINE T == {i \in Nat : i <= n => f[i] = Piece(W, U[0], U[i])}
<1>8. 0 \in T
  BY <1>1, <1>3, <1>7
<1>9. ASSUME NEW i \in Nat, i \in T PROVE i + 1 \in T
  <2> DEFINE k == i + 1
  <2> SUFFICES ASSUME k <= n PROVE f[k] = Piece(W, U[0], U[k])
    OBVIOUS
  <2>1. k \in 1 .. n /\ k \in 0 .. n /\ k # 0 /\ i <= n /\ k - 1 = i
    BY <1>1
  <2> HIDE DEF k
  <2>2. f[k] = f[i] \o s[k]
    BY <1>7, <2>1
  <2>3. f[i] = Piece(W, U[0], U[i])
    BY <1>9, <2>1
  <2>4. Piece(W, U[0], U[k]) = Piece(W, U[0], U[i]) \o s[k]
    BY <1>4, <2>1
  <2> QED
    BY <2>2, <2>3, <2>4
<1>10. Nat \subseteq T
  <2> HIDE DEF T
  <2> QED
    BY <1>8, <1>9, NatsIn
<1> QED
  BY <1>1, <1>2, <1>10 DEF n

-----------------------------------------------------------------------------
(* The pages and the packets of a range. *)

LEMMA DivIs ==
    ASSUME NEW t \in Nat, NEW p \in Nat \ {0}, NEW q \in Nat, q * p <= t, t < q * p + p
    PROVE  t \div p = q /\ t % p = t - q * p
<1>1. t \div p \in Nat /\ t % p \in Nat /\ t % p < p /\ t = p * (t \div p) + (t % p)
  OBVIOUS
<1> DEFINE d == t \div p
<1>2. d \in Nat /\ d * p <= t /\ t < d * p + p
  BY <1>1
<1> HIDE DEF d
<1>3. ~(d < q)
  <2> SUFFICES ASSUME d + 1 <= q PROVE FALSE
    BY <1>2
  <2>1. (d + 1) * p <= q * p
    BY <1>2
  <2>2. (d + 1) * p = d * p + p
    BY <1>2
  <2> QED
    BY <1>2, <2>1, <2>2
<1>4. ~(q < d)
  <2> SUFFICES ASSUME q + 1 <= d PROVE FALSE
    BY <1>2
  <2>1. (q + 1) * p <= d * p
    BY <1>2
  <2>2. (q + 1) * p = q * p + p
    OBVIOUS
  <2> QED
    BY <1>2, <2>1, <2>2
<1>5. d = q
  BY <1>2, <1>3, <1>4
<1>6. t \div p = q
  BY <1>5 DEF d
<1> QED
  BY <1>1, <1>6

\* The words of o are words on the bus.
OnBus(o) == o.a \in Nat /\ o.n \in Nat \ {0} /\ o.a + o.n <= Top

\* The pages of a range begin where the last one ended, and inside one TAR goes
\* from word to word.
LEMMA PagesAre ==
    ASSUME NEW o, OnBus(o)
    PROVE  /\ Pages(o) \in Nat \ {0} /\ Lo(o, 1) = o.a /\ Hi(o, Pages(o)) = o.a + o.n
           /\ \A i \in 1 .. Pages(o) :
                /\ Lo(o, i) \in Nat /\ Hi(o, i) \in Nat /\ o.a <= Lo(o, i) /\ Lo(o, i) < Hi(o, i)
                /\ Hi(o, i) <= o.a + o.n
                /\ i + 1 <= Pages(o) => Lo(o, i + 1) = Hi(o, i)
                /\ \A t \in Nat : Lo(o, i) <= t /\ t + 1 < Hi(o, i) => Onward(t) = t + 1
<1> DEFINE a == o.a
           e == o.a + o.n - 1
           f == o.a \div Page
           l == (o.a + o.n - 1) \div Page
<1>1. Page \in Nat \ {0} /\ a \in Nat /\ e \in Nat /\ a <= e /\ o.a + o.n = e + 1
  BY SizesAssumption DEF OnBus
<1>2. /\ f \in Nat /\ f * Page <= a /\ a < f * Page + Page
      /\ l \in Nat /\ l * Page <= e /\ e < l * Page + Page
  <2> HIDE DEF a, e
  <2>1. \A t \in Nat : /\ t \div Page \in Nat /\ (t \div Page) * Page <= t
                       /\ t < (t \div Page) * Page + Page
    BY <1>1
  <2> QED
    BY <1>1, <2>1 DEF a, e
<1>3. Pages(o) = l - f + 1
  BY DEF Pages
<1>4. \A i : Lo(o, i) = Largest(a, (f + i - 1) * Page) /\ Hi(o, i) = Least(e + 1, (f + i) * Page)
  BY <1>1 DEF Lo, Hi
<1> HIDE DEF a, e, f, l
<1>5. ASSUME NEW x \in Nat, NEW y \in Nat, x <= y PROVE x * Page <= y * Page /\ (x + 1) * Page = x * Page + Page
                                                        /\ x * Page \in Nat
  <2>1. y - x \in Nat /\ y = x + (y - x)
    BY <1>5
  <2>2. (y - x) * Page \in Nat /\ y * Page = x * Page + (y - x) * Page
    BY <1>1, <2>1
  <2> QED
    BY <1>1, <2>2
<1>6. f <= l
  <2> SUFFICES ASSUME l + 1 <= f PROVE FALSE
    BY <1>2
  <2>1. (l + 1) * Page <= f * Page /\ (l + 1) * Page = l * Page + Page
    BY <1>2, <1>5
  <2>2. l * Page \in Nat /\ f * Page \in Nat
    BY <1>1, <1>2
  <2> QED
    BY <1>1, <1>2, <2>1, <2>2
<1>7. Pages(o) \in Nat \ {0}
  BY <1>2, <1>3, <1>6
<1>8. Lo(o, 1) = o.a
  <2>1. f + 1 - 1 = f /\ f * Page \in Nat
    BY <1>1, <1>2
  <2> QED
    BY <1>1, <1>2, <1>4, <2>1 DEF Largest, a
<1>9. Hi(o, Pages(o)) = o.a + o.n
  <2>1. f + Pages(o) = l + 1 /\ (l + 1) * Page = l * Page + Page /\ l * Page \in Nat
    BY <1>2, <1>3, <1>5
  <2> QED
    BY <1>1, <1>2, <1>4, <2>1 DEF Least
<1>10. ASSUME NEW i \in 1 .. Pages(o)
       PROVE  /\ Lo(o, i) \in Nat /\ Hi(o, i) \in Nat /\ o.a <= Lo(o, i) /\ Lo(o, i) < Hi(o, i)
              /\ Hi(o, i) <= o.a + o.n
              /\ i + 1 <= Pages(o) => Lo(o, i + 1) = Hi(o, i)
              /\ \A t \in Nat : Lo(o, i) <= t /\ t + 1 < Hi(o, i) => Onward(t) = t + 1
  <2> DEFINE q == f + i - 1
             b == q * Page
  <2>1. q \in Nat /\ f <= q /\ q <= l /\ f + i = q + 1 /\ f + (i + 1) - 1 = q + 1
    BY <1>2, <1>3, <1>7
  <2> HIDE DEF q
  <2>2. b \in Nat /\ (q + 1) * Page = b + Page
    BY <1>5, <2>1
  <2>3. b <= e
    <3>1. q * Page <= l * Page /\ l * Page \in Nat
      BY <1>2, <1>5, <2>1
    <3> QED
      BY <1>1, <1>2, <2>2, <3>1
  <2>4. a < b + Page
    <3>1. f * Page <= q * Page /\ f * Page \in Nat
      BY <1>2, <1>5, <2>1
    <3> QED
      BY <1>1, <1>2, <2>2, <3>1
  <2>5. i + 1 <= Pages(o) => a <= b + Page /\ b + Page <= e
    <3> HAVE i + 1 <= Pages(o)
    <3>1. q + 1 <= l /\ q + 1 \in Nat
      BY <1>2, <1>3, <1>7, <2>1
    <3>2. (q + 1) * Page <= l * Page /\ l * Page \in Nat
      BY <1>2, <1>5, <3>1
    <3> QED
      BY <1>1, <1>2, <2>2, <2>4, <3>2
  <2>6. Lo(o, i) = Largest(a, b) /\ Hi(o, i) = Least(e + 1, b + Page)
        /\ Lo(o, i + 1) = Largest(a, b + Page)
    BY <1>4, <2>1, <2>2 DEF q
  <2>7. ASSUME NEW t \in Nat, b <= t, t + 1 < b + Page PROVE Onward(t) = t + 1
    <3>3. /\ q * Page <= t /\ t < q * Page + Page
          /\ q * Page <= t + 1 /\ t + 1 < q * Page + Page /\ t + 1 \in Nat
      BY <1>1, <2>2, <2>7
    <3>1. t \div Page = q
      BY <1>1, <2>1, <3>3, DivIs
    <3>2. (t + 1) % Page = t + 1 - b
      <4> DEFINE u == t + 1
      <4>1. u \in Nat /\ q * Page <= u /\ u < q * Page + Page
        BY <3>3
      <4> HIDE DEF u
      <4>2. u % Page = u - q * Page
        BY <1>1, <2>1, <4>1, DivIs
      <4>3. t + 1 = u /\ q * Page = b
        BY DEF u
      <4> HIDE DEF b
      <4> QED
        BY <1>1, <2>2, <4>1, <4>2, <4>3
    <3> HIDE DEF b
    <3> QED
      BY <2>2, <3>1, <3>2 DEF Onward, b
  <2> HIDE DEF b
  <2>8. \A t \in Nat : Lo(o, i) <= t /\ t + 1 < Hi(o, i) => Onward(t) = t + 1
    <3> SUFFICES ASSUME NEW t \in Nat, Lo(o, i) <= t, t + 1 < Hi(o, i) PROVE Onward(t) = t + 1
      OBVIOUS
    <3>1. b <= t /\ t + 1 < b + Page
      BY <1>1, <2>2, <2>6 DEF Least, Largest
    <3> QED
      BY <2>7, <3>1
  <2>9. /\ Lo(o, i) \in Nat /\ Hi(o, i) \in Nat /\ o.a <= Lo(o, i) /\ Lo(o, i) < Hi(o, i)
        /\ Hi(o, i) <= o.a + o.n
    BY <1>1, <2>2, <2>3, <2>4, <2>6 DEF Least, Largest, a
  <2>10. i + 1 <= Pages(o) => Lo(o, i + 1) = Hi(o, i)
    BY <1>1, <2>2, <2>5, <2>6 DEF Least, Largest
  <2> QED
    BY <2>8, <2>9, <2>10
<1> QED
  BY <1>7, <1>8, <1>9, <1>10

\* n accesses cut into packets of k: after m packets Least(n, m * k) of them.
LEMMA PacketsAre ==
    ASSUME NEW n \in Nat \ {0}, NEW k \in Nat \ {0}
    PROVE  /\ Ceil(n, k) \in Nat \ {0} /\ Least(n, 0 * k) = 0 /\ Least(n, Ceil(n, k) * k) = n
           /\ \A m \in 1 .. Ceil(n, k) :
                /\ Least(n, (m - 1) * k) = (m - 1) * k /\ (m - 1) * k \in Nat
                /\ Least(n, (m - 1) * k) < Least(n, m * k) /\ Least(n, m * k) <= n /\ Least(n, m * k) \in Nat
                /\ Least(k, n - (m - 1) * k) = Least(n, m * k) - Least(n, (m - 1) * k)
<1> DEFINE c == Ceil(n, k)
           t == n + k - 1
<1>1. t \in Nat /\ t >= k /\ c = t \div k
  BY DEF Ceil
<1>2. c \in Nat /\ c * k <= t /\ t < c * k + k
  <2> HIDE DEF c, t
  <2>1. t \div k \in Nat /\ (t \div k) * k <= t /\ t < (t \div k) * k + k
    BY <1>1
  <2> QED
    BY <1>1, <2>1
<1> HIDE DEF c
<1>3. c # 0
  <2> SUFFICES ASSUME c = 0 PROVE FALSE
    OBVIOUS
  <2>1. c * k = 0
    BY <1>2
  <2> QED
    BY <1>2, <2>1
<1>4. Least(n, 0 * k) = 0 /\ Least(n, c * k) = n
  <2>1. 0 * k = 0 /\ c * k \in Nat /\ n <= c * k
    BY <1>2
  <2> QED
    BY <2>1 DEF Least
<1>5. ASSUME NEW m \in 1 .. c
      PROVE  /\ Least(n, (m - 1) * k) = (m - 1) * k /\ (m - 1) * k \in Nat
             /\ Least(n, (m - 1) * k) < Least(n, m * k) /\ Least(n, m * k) <= n /\ Least(n, m * k) \in Nat
             /\ Least(k, n - (m - 1) * k) = Least(n, m * k) - Least(n, (m - 1) * k)
  <2> DEFINE b == (m - 1) * k
  <2>1. m - 1 \in Nat /\ c - m \in Nat /\ m \in Nat
    BY <1>2
  <2>2. b \in Nat /\ m * k = b + k
    BY <2>1
  <2>3. b + k <= c * k
    <3>1. (c - m) * k \in Nat /\ c * k = m * k + (c - m) * k
      BY <1>2, <2>1
    <3> QED
      BY <2>2, <3>1
  <2>4. b < n
    BY <1>2, <2>2, <2>3
  <2> HIDE DEF b
  <2>5. /\ Least(n, b) = b /\ b \in Nat
        /\ Least(n, b) < Least(n, b + k) /\ Least(n, b + k) <= n /\ Least(n, b + k) \in Nat
        /\ Least(k, n - b) = Least(n, b + k) - Least(n, b)
    BY <2>2, <2>4 DEF Least
  <2> QED
    BY <2>2, <2>5 DEF b
<1> QED
  BY <1>2, <1>3, <1>4, <1>5 DEF c

\* The packets of page i.
Packets(o, i) == Ceil(Hi(o, i) - Lo(o, i), Chunk)

LEMMA ThroughIs ==
    ASSUME NEW o, OnBus(o), NEW i \in 1 .. Pages(o)
    PROVE  /\ Packets(o, i) \in Nat \ {0} /\ Through(o, i, 0) = Lo(o, i) /\ Through(o, i, Packets(o, i)) = Hi(o, i)
           /\ \A m \in 1 .. Packets(o, i) :
                /\ Through(o, i, m - 1) = Lo(o, i) + (m - 1) * Chunk
                /\ Through(o, i, m - 1) \in Nat /\ Through(o, i, m) \in Nat
                /\ Lo(o, i) <= Through(o, i, m - 1) /\ Through(o, i, m - 1) < Through(o, i, m) /\ Through(o, i, m) <= Hi(o, i)
                /\ Least(Chunk, Hi(o, i) - Through(o, i, m - 1)) = Through(o, i, m) - Through(o, i, m - 1)
<1> DEFINE lo == Lo(o, i)
           hi == Hi(o, i)
           n == hi - lo
<1>1. lo \in Nat /\ hi \in Nat /\ lo < hi /\ n \in Nat \ {0} /\ Chunk \in Nat \ {0}
  BY PagesAre, SizesAssumption
<1>2. \A x \in Int : Least(hi, lo + x) = lo + Least(n, x)
  BY <1>1 DEF Least
<1>3. ASSUME NEW m \in Nat PROVE Through(o, i, m) = lo + Least(n, m * Chunk)
  <2>1. m * Chunk \in Int
    BY <1>1
  <2> QED
    BY <1>2, <2>1 DEF Through
<1> HIDE DEF lo, hi, n
<1> DEFINE M == Packets(o, i)
<1>4. M = Ceil(n, Chunk)
  BY DEF Packets, n, lo, hi
<1>5. /\ M \in Nat \ {0} /\ Least(n, 0 * Chunk) = 0 /\ Least(n, M * Chunk) = n
      /\ \A m \in 1 .. M :
           /\ Least(n, (m - 1) * Chunk) = (m - 1) * Chunk /\ (m - 1) * Chunk \in Nat
           /\ Least(n, (m - 1) * Chunk) < Least(n, m * Chunk) /\ Least(n, m * Chunk) <= n /\ Least(n, m * Chunk) \in Nat
           /\ Least(Chunk, n - (m - 1) * Chunk) = Least(n, m * Chunk) - Least(n, (m - 1) * Chunk)
  BY <1>1, <1>4, PacketsAre
<1> HIDE DEF M
<1>6. hi = lo + n
  BY <1>1 DEF n
<1>7. Through(o, i, 0) = lo /\ Through(o, i, M) = hi
  BY <1>1, <1>3, <1>5, <1>6
<1>8. ASSUME NEW m \in 1 .. M
      PROVE  /\ Through(o, i, m - 1) = lo + (m - 1) * Chunk
             /\ Through(o, i, m - 1) \in Nat /\ Through(o, i, m) \in Nat
             /\ lo <= Through(o, i, m - 1) /\ Through(o, i, m - 1) < Through(o, i, m) /\ Through(o, i, m) <= hi
             /\ Least(Chunk, hi - Through(o, i, m - 1)) = Through(o, i, m) - Through(o, i, m - 1)
  <2> DEFINE b == (m - 1) * Chunk
             y == Least(n, m * Chunk)
  <2>1. m - 1 \in Nat /\ m \in Nat
    BY <1>5
  <2>2. /\ Least(n, b) = b /\ b \in Nat /\ b < y /\ y <= n /\ y \in Nat /\ Least(Chunk, n - b) = y - b
    BY <1>5
  <2>3. Through(o, i, m - 1) = lo + b /\ Through(o, i, m) = lo + y
    BY <1>3, <2>1, <2>2
  <2>6. b = (m - 1) * Chunk
    OBVIOUS
  <2> HIDE DEF b, y
  <2>4. hi - (lo + b) = n - b
    BY <1>1, <1>6, <2>2
  <2>5. lo + b \in Nat /\ lo + y \in Nat /\ lo <= lo + b /\ lo + b < lo + y /\ lo + y <= hi /\ y - b = lo + y - (lo + b)
    BY <1>1, <1>6, <2>2
  <2> DEFINE t == Through(o, i, m - 1)
             u == Through(o, i, m)
  <2>7. t = lo + b /\ u = lo + y
    BY <2>3
  <2> HIDE DEF t, u
  <2>8. /\ t \in Nat /\ u \in Nat /\ lo <= t /\ t < u /\ u <= hi
    BY <2>5, <2>7
  <2>9. Least(Chunk, hi - t) = u - t
    <3>1. hi - t = n - b
      BY <2>4, <2>7
    <3>2. u - t = y - b
      BY <1>1, <2>2, <2>7
    <3> QED
      BY <2>2, <3>1, <3>2
  <2>10. t = lo + (m - 1) * Chunk
    BY <2>6, <2>7
  <2> QED
    BY <2>8, <2>9, <2>10 DEF t, u
<1> QED
  BY <1>1, <1>5, <1>7, <1>8 DEF lo, hi, M

\* A stage that transfers the words of page i.
WordsPacket(o, i, m, p) ==
    /\ p.cmd = "block"
    /\ IsSeq(p.acc) /\ Len(p.acc) = Through(o, i, m) - Through(o, i, m - 1)
    /\ \A j \in DOMAIN p.acc : p.acc[j] = Word(o, Through(o, i, m - 1) + j - 1)
LEMMA WordsStage ==
    ASSUME NEW o, OnBus(o), NEW i \in 1 .. Pages(o), NEW st, st = Repeat(o, Lo(o, i), Hi(o, i))
    PROVE  /\ st.then = NoAp /\ st.test = FALSE /\ st.soft = FALSE
           /\ IsSeq(st.pk) /\ Len(st.pk) = Packets(o, i)
           /\ \A m \in 1 .. Packets(o, i) : WordsPacket(o, i, m, st.pk[m])
<1> DEFINE lo == Lo(o, i)
           hi == Hi(o, i)
           from(p) == lo + (p - 1) * Chunk
           n(p) == Least(Chunk, hi - from(p))
           acc(p) == [j \in 1 .. n(p) |-> Word(o, from(p) + j - 1)]
           M == Packets(o, i)
           pk == [p \in 1 .. M |-> Packet("block", acc(p))]
<1>1. st.pk = pk /\ st.then = NoAp /\ st.test = FALSE /\ st.soft = FALSE
  BY DEF Repeat, Stage, Packets
<1>2. M \in Nat
  BY ThroughIs
<1>3. IsSeq(pk) /\ Len(pk) = M
  <2>1. pk = [p \in 1 .. M |-> pk[p]]
    OBVIOUS
  <2> HIDE DEF pk, M
  <2> QED
    BY <1>2, <2>1, FunSeq
<1>4. ASSUME NEW m \in 1 .. M
      PROVE  WordsPacket(o, i, m, pk[m])
  <2>1. /\ from(m) = Through(o, i, m - 1) /\ n(m) = Through(o, i, m) - Through(o, i, m - 1)
        /\ Through(o, i, m - 1) \in Nat /\ Through(o, i, m) \in Nat /\ Through(o, i, m - 1) < Through(o, i, m)
    BY ThroughIs
  <2> DEFINE x == Through(o, i, m - 1)
             y == Through(o, i, m)
             a == acc(m)
  <2>2. pk[m].acc = a /\ pk[m].cmd = "block"
    BY DEF Packet
  <2> HIDE DEF n, from
  <2>3. a = [j \in 1 .. y - x |-> Word(o, x + j - 1)]
    BY <2>1
  <2>4. y - x \in Nat
    BY <2>1
  <2> HIDE DEF a, x, y, pk
  <2>5. a = [j \in 1 .. y - x |-> a[j]]
    BY <2>3
  <2>6. IsSeq(a) /\ Len(a) = y - x
    BY <2>4, <2>5, FunSeq
  <2>7. \A j \in DOMAIN a : a[j] = Word(o, x + j - 1)
    BY <2>3
  <2> QED
    BY <2>2, <2>6, <2>7 DEF x, y, WordsPacket
<1> HIDE DEF pk
<1> QED
  BY <1>1, <1>3, <1>4

\* The one stage of a batch.
Cuts(o) == Ceil(2 * Len(o.regs), Batch)

LEMMA CutIs ==
    ASSUME NEW o, IsSeq(o.regs), Len(o.regs) > 0
    PROVE  /\ Cuts(o) \in Nat \ {0} /\ Cut(o, 0) = 0 /\ Cut(o, Cuts(o)) = 2 * Len(o.regs)
           /\ \A m \in 1 .. Cuts(o) :
                /\ Cut(o, m - 1) = (m - 1) * Batch /\ Cut(o, m - 1) \in Nat /\ Cut(o, m) \in Nat
                /\ Cut(o, m - 1) < Cut(o, m) /\ Cut(o, m) <= 2 * Len(o.regs)
<1> DEFINE n == 2 * Len(o.regs)
<1>1. n \in Nat \ {0} /\ Batch \in Nat \ {0}
  BY SeqShape, SizesAssumption
<1> HIDE DEF n
<1>2. Cuts(o) = Ceil(n, Batch) /\ \A m : Cut(o, m) = Least(n, m * Batch)
  BY DEF Cuts, Cut, n
<1> DEFINE c == Cuts(o)
<1>3. /\ c \in Nat \ {0} /\ Least(n, 0 * Batch) = 0 /\ Least(n, c * Batch) = n
      /\ \A m \in 1 .. c :
           /\ Least(n, (m - 1) * Batch) = (m - 1) * Batch /\ (m - 1) * Batch \in Nat
           /\ Least(n, (m - 1) * Batch) < Least(n, m * Batch) /\ Least(n, m * Batch) <= n /\ Least(n, m * Batch) \in Nat
  BY <1>1, <1>2, PacketsAre
<1> HIDE DEF c
<1>4. Cut(o, 0) = 0 /\ Cut(o, c) = n
  BY <1>2, <1>3
<1>5. ASSUME NEW m \in 1 .. c
      PROVE  /\ Cut(o, m - 1) = (m - 1) * Batch /\ Cut(o, m - 1) \in Nat /\ Cut(o, m) \in Nat
             /\ Cut(o, m - 1) < Cut(o, m) /\ Cut(o, m) <= n
  BY <1>2, <1>3
<1> QED
  BY <1>3, <1>4, <1>5 DEF c, n

BatchPacket(o, m, p) ==
    /\ p.cmd = "xfer"
    /\ IsSeq(p.acc) /\ Len(p.acc) = Cut(o, m) - Cut(o, m - 1)
    /\ \A j \in DOMAIN p.acc : p.acc[j] = Batched(o.regs, Cut(o, m - 1) + j)
LEMMA BatchStage ==
    ASSUME NEW o, IsSeq(o.regs), Len(o.regs) > 0, NEW st, st = BatchOf(o)
    PROVE  /\ st.then = NoAp /\ st.test = FALSE /\ st.soft = FALSE
           /\ IsSeq(st.pk) /\ Len(st.pk) = Cuts(o)
           /\ \A m \in 1 .. Cuts(o) : BatchPacket(o, m, st.pk[m])
<1> DEFINE k == Len(o.regs)
           tar(i) == <<"tar", o.regs[i]>>
           drw(i) == <<"drw", Rd>>
           all == [j \in 1 .. 2 * k |-> IF j % 2 = 1 THEN tar((j + 1) \div 2) ELSE drw(j \div 2)]
           sub(p) == SubSeq(all, (p - 1) * Batch + 1, Least(p * Batch, Len(all)))
           f == [p \in 1 .. Ceil(Len(all), Batch) |-> Packet("xfer", sub(p))]
<1>1. st.pk = f /\ st.then = NoAp /\ st.test = FALSE /\ st.soft = FALSE
  BY DEF BatchOf, Stage, Flatten2
<1>2. k \in Nat /\ 2 * k \in Nat
  BY SeqShape
<1>3. IsSeq(all) /\ Len(all) = 2 * k
  <2>1. all = [j \in 1 .. 2 * k |-> all[j]]
    OBVIOUS
  <2> HIDE DEF all, k
  <2> QED
    BY <1>2, <2>1, FunSeq
<1>4. \A j \in 1 .. 2 * k : all[j] = Batched(o.regs, j)
  BY DEF Batched
<1> HIDE DEF all
<1>5. Ceil(Len(all), Batch) = Cuts(o) /\ Cuts(o) \in Nat
  BY <1>3, CutIs DEF Cuts
<1>6. IsSeq(f) /\ Len(f) = Cuts(o)
  <2>1. f = [p \in 1 .. Cuts(o) |-> f[p]]
    BY <1>5
  <2> HIDE DEF f
  <2> QED
    BY <1>5, <2>1, FunSeq
<1>7. ASSUME NEW m \in 1 .. Cuts(o)
      PROVE  BatchPacket(o, m, f[m])
  <2> DEFINE x == Cut(o, m - 1)
             y == Cut(o, m)
             a == sub(m)
  <2>1. /\ x = (m - 1) * Batch /\ x \in Nat /\ y \in Nat /\ x < y /\ y <= 2 * k
    BY CutIs
  <2>2. f[m].acc = a /\ f[m].cmd = "xfer"
    BY <1>5 DEF Packet
  <2>3. y = Least(m * Batch, 2 * k)
    <3>1. m * Batch \in Int
      BY <1>5, SizesAssumption
    <3> DEFINE z == m * Batch
    <3> HIDE DEF z
    <3>2. Least(2 * k, z) = Least(z, 2 * k)
      BY <1>2, <3>1 DEF Least, z
    <3> QED
      BY <3>2 DEF Cut, z
  <2>4. a = SubSeq(all, x + 1, y)
    BY <1>3, <2>1, <2>3
  <2> HIDE DEF x, y, a, f, sub, k
  <2>5. PICK S : all \in Seq(S)
    BY <1>3 DEF IsSeq
  <2>6. a \in Seq(S) /\ Len(a) = y - x /\ \A j \in 1 .. y - x : a[j] = all[x + j]
    <3>1. x + 1 \in Int /\ y \in Int /\ 1 <= x + 1 /\ y <= Len(all)
      BY <1>3, <2>1
    <3> DEFINE u == x + 1
    <3>2. u \in 1 .. Len(all) + 1 /\ y \in 0 .. Len(all) /\ u <= y
      BY <1>3, <2>1
    <3>3. y - u + 1 = y - x /\ \A j \in 1 .. y - x : u + j - 1 = x + j
      BY <2>1
    <3> HIDE DEF u
    <3>4. /\ SubSeq(all, u, y) \in Seq(S) /\ Len(SubSeq(all, u, y)) = y - u + 1
          /\ \A j \in 1 .. y - u + 1 : SubSeq(all, u, y)[j] = all[u + j - 1]
      BY <2>5, <3>2, SubSeqProperties
    <3>5. a = SubSeq(all, u, y)
      BY <2>4 DEF u
    <3> QED
      BY <3>3, <3>4, <3>5
  <2>7. ASSUME NEW j \in DOMAIN a PROVE a[j] = Batched(o.regs, x + j)
    <3>1. j \in 1 .. y - x
      BY <2>6
    <3>2. x + j \in 1 .. 2 * k
      BY <1>2, <2>1, <3>1
    <3> QED
      BY <1>4, <2>6, <3>1, <3>2
  <2> QED
    BY <2>2, <2>6, <2>7 DEF x, y, IsSeq, BatchPacket
<1> HIDE DEF f
<1> QED
  BY <1>1, <1>6, <1>7

\* An operation on words of the bus; one that a caller may begin.
OnWords(o) == o.name \in {"read", "write"}
Legal(o)   == o \in Ops /\ ~Setup(o) /\ (OnWords(o) => OnBus(o))

LEMMA LegalIs ==
    ASSUME NEW o, Legal(o)
    PROVE  /\ o.name \in {"read", "write", "batch"}
           /\ o.name = "batch" => IsSeq(o.regs) /\ Len(o.regs) > 0 /\ \A i \in DOMAIN o.regs : o.regs[i] \in Nat
<1>1. o.name \in {"read", "write", "batch"}
  BY DEF Legal, Ops, Setup
<1>2. ASSUME o.name = "batch" PROVE IsSeq(o.regs) /\ Len(o.regs) > 0 /\ \A i \in DOMAIN o.regs : o.regs[i] \in Nat
  <2>1. o.regs \in UNION {[1 .. k -> Registers] : k \in 1 .. 2}
    BY <1>2 DEF Ops, Legal
  <2>2. PICK k \in 1 .. 2 : o.regs \in [1 .. k -> Registers]
    BY <2>1
  <2>3. o.regs \in Seq(Registers) /\ Len(o.regs) = k
    BY <2>2
  <2>4. \A i \in DOMAIN o.regs : o.regs[i] \in Nat
    BY <2>2, PlacesAssumption
  <2> QED
    BY <2>2, <2>3, <2>4 DEF IsSeq
<1> QED
  BY <1>1, <1>2

LEMMA HalvesAre ==
    ASSUME NEW p \in Nat, NEW x \in 1 .. 2 * p
    PROVE  /\ x % 2 = 0 => x \div 2 \in 1 .. p /\ x \div 2 = (x + 1) \div 2
           /\ x % 2 # 0 => x % 2 = 1 /\ (x + 1) \div 2 \in 1 .. p
OBVIOUS

\* One more element.
LEMMA MoreSeq ==
    ASSUME NEW s, IsSeq(s), NEW x
    PROVE  /\ IsSeq(s \o <<x>>) /\ Len(s \o <<x>>) = Len(s) + 1
           /\ \A i \in 1 .. Len(s) : (s \o <<x>>)[i] = s[i]
           /\ (s \o <<x>>)[Len(s) + 1] = x
<1> DEFINE t == <<x>>
<1>1. IsSeq(t) /\ Len(t) = 1 /\ t[1] = x
  BY SingleSeq
<1> HIDE DEF t
<1>2. /\ IsSeq(s \o t) /\ Len(s \o t) = Len(s) + Len(t)
      /\ \A i \in 1 .. Len(s) : (s \o t)[i] = s[i]
      /\ \A i \in 1 .. Len(t) : (s \o t)[Len(s) + i] = t[i]
  BY <1>1, ConcatSeq
<1>3. 1 \in 1 .. Len(t)
  BY <1>1
<1>4. (s \o t)[Len(s) + 1] = x
  BY <1>1, <1>2, <1>3
<1> QED
  BY <1>1, <1>2, <1>4 DEF t

\* The stages of a read or a write: TAR and the words of every page, and sticky_error().
LEMMA BodyIs ==
    ASSUME NEW o, OnWords(o), OnBus(o)
    PROVE  /\ IsSeq(Body(o)) /\ Len(Body(o)) = 2 * Pages(o) + 1 /\ Body(o)[2 * Pages(o) + 1] = StickyError
           /\ Body(o) = Transfers(o) \o <<StickyError>> /\ IsSeq(Transfers(o))
           /\ \A x \in 1 .. 2 * Pages(o) :
                Body(o)[x] = IF Moves(x) THEN Repeat(o, Lo(o, x \div 2), Hi(o, x \div 2))
                             ELSE Single(Xfer("tar", Lo(o, (x + 1) \div 2)))
<1> DEFINE first == o.a \div Page
           p == Pages(o)
           lo(i) == Largest(o.a, (first + i - 1) * Page)
           hi(i) == Least(o.a + o.n, (first + i) * Page)
           tar(i)   == Single(Xfer("tar", lo(i)))
           words(i) == Repeat(o, lo(i), hi(i))
           f == [j \in 1 .. 2 * p |-> IF j % 2 = 1 THEN tar((j + 1) \div 2) ELSE words(j \div 2)]
           t == Transfers(o)
<1>1. t = f
  BY DEF Transfers, Flatten2, Pages
<1>2. p \in Nat /\ 2 * p \in Nat
  BY PagesAre
<1>3. IsSeq(t) /\ Len(t) = 2 * p
  <2>1. f = [j \in 1 .. 2 * p |-> f[j]]
    OBVIOUS
  <2> HIDE DEF f, t, p
  <2> QED
    BY <1>1, <1>2, <2>1, FunSeq
<1>4. ASSUME NEW x \in 1 .. 2 * p
      PROVE  t[x] = IF Moves(x) THEN Repeat(o, Lo(o, x \div 2), Hi(o, x \div 2))
                    ELSE Single(Xfer("tar", Lo(o, (x + 1) \div 2)))
  <2>1. t[x] = IF x % 2 = 1 THEN tar((x + 1) \div 2) ELSE words(x \div 2)
    BY <1>1
  <2>2. x % 2 = 0 \/ x % 2 = 1
    BY <1>2
  <2>3. Moves(x) <=> x % 2 = 0
    BY <1>2 DEF Moves
  <2>4. \A i : lo(i) = Lo(o, i) /\ hi(i) = Hi(o, i)
    BY DEF Lo, Hi
  <2>5. \A i : tar(i) = Single(Xfer("tar", Lo(o, i))) /\ words(i) = Repeat(o, Lo(o, i), Hi(o, i))
    BY <2>4
  <2> HIDE DEF t, tar, words, p
  <2> QED
    BY <2>1, <2>2, <2>3, <2>5
<1>5. Body(o) = t \o <<StickyError>>
  BY DEF Body, OnWords
<1> DEFINE e == StickyError
<1> HIDE DEF t, p, e
<1>7. /\ IsSeq(t \o <<e>>) /\ Len(t \o <<e>>) = 2 * p + 1
      /\ \A x \in 1 .. 2 * p : (t \o <<e>>)[x] = t[x]
      /\ (t \o <<e>>)[2 * p + 1] = e
  <2>1. /\ IsSeq(t \o <<e>>) /\ Len(t \o <<e>>) = Len(t) + 1
        /\ \A x \in 1 .. Len(t) : (t \o <<e>>)[x] = t[x]
        /\ (t \o <<e>>)[Len(t) + 1] = e
    BY <1>3, MoreSeq
  <2> QED
    BY <1>3, <2>1
<1> QED
  BY <1>3, <1>4, <1>5, <1>7 DEF t, p, e

\* What a stage may do: a call of cmds() that raises what goes wrong, and packets
\* of accesses, which write no words unless it transfers the words of a write.
Packs(st) ==
    /\ st.soft = FALSE /\ IsSeq(st.pk) /\ Len(st.pk) \in Nat \ {0}
    /\ \A m \in DOMAIN st.pk :
         /\ st.pk[m].cmd \in {"xfer", "block"}
         /\ IsSeq(st.pk[m].acc) /\ Len(st.pk[m].acc) > 0 /\ WellRead(st.pk[m].acc)
Quiet(st)  == \A m \in DOMAIN st.pk : Harmless(st.pk[m].acc)
Direct(st) == \A m \in DOMAIN st.pk : Plain(st.pk[m].acc)

LEMMA OnePacks ==
    ASSUME NEW reg \in {"select", "csw", "tar", "stat"}, NEW v, reg = "stat" <=> v = Rd,
           NEW st, st.pk = <<Xfer(reg, v)>>, st.soft = FALSE
    PROVE  Packs(st) /\ Quiet(st) /\ (reg # "stat" => Direct(st))
<1> DEFINE p == Xfer(reg, v)
           x == <<reg, v>>
<1>1. p.cmd = "xfer" /\ p.acc = <<x>>
  BY XferIs
<1>2. x[1] = reg /\ x[2] = v
  OBVIOUS
<1>3. st.pk = <<p>>
  OBVIOUS
<1> HIDE DEF p, x
<1>4. IsSeq(<<x>>) /\ Len(<<x>>) = 1 /\ <<x>>[1] = x /\ DOMAIN <<x>> = {1}
  BY SingleSeq, SeqShape
<1>5. IsSeq(<<p>>) /\ Len(<<p>>) = 1 /\ <<p>>[1] = p /\ DOMAIN <<p>> = {1}
  BY SingleSeq, SeqShape
<1>6. WellRead(<<x>>) /\ Harmless(<<x>>) /\ (reg # "stat" => Plain(<<x>>))
  <2>1. /\ x[1] \in {"id", "stat", "select", "csw", "tar", "drw"} /\ Silent(x)
        /\ x[1] \in Readouts => x[2] = Rd
        /\ x[1] \in Settings => x[2] # Rd
        /\ reg # "stat" => x[1] \notin Readouts
    BY <1>2 DEF Readouts, Settings, Silent
  <2> QED
    BY <1>4, <2>1 DEF WellRead, Harmless, Plain
<1> DEFINE a == p.acc
<1>7. a = <<x>>
  BY <1>1
<1> HIDE DEF a
<1>8. IsSeq(a) /\ Len(a) > 0 /\ WellRead(a) /\ Harmless(a) /\ (reg # "stat" => Plain(a))
  BY <1>4, <1>6, <1>7
<1> DEFINE k == st.pk
<1>9. IsSeq(k) /\ Len(k) \in Nat \ {0} /\ DOMAIN k = {1} /\ k[1] = p
  BY <1>3, <1>5
<1> HIDE DEF k
<1> QED
  BY <1>1, <1>8, <1>9 DEF Packs, Quiet, Direct, a, k

LEMMA WordIs ==
    ASSUME NEW o, OnWords(o), o.a \in Nat, NEW i \in Nat, o.a <= i
    PROVE  /\ Word(o, i)[1] = "drw"
           /\ o.name = "read" => Word(o, i)[2] = Rd
           /\ o.name = "write" => Word(o, i)[2] = i - o.a + 1 /\ Word(o, i)[2] # Rd
<1>1. Word(o, i)[1] = "drw" /\ Word(o, i)[2] = IF o.name = "read" THEN Rd ELSE i - o.a + 1
  BY DEF Word
<1>2. i - o.a + 1 # Rd
  BY DEF Rd
<1> QED
  BY <1>1, <1>2

LEMMA WordsPack ==
    ASSUME NEW o, OnWords(o), OnBus(o), NEW i \in 1 .. Pages(o)
    PROVE  LET st == Repeat(o, Lo(o, i), Hi(o, i))
           IN  Packs(st) /\ (o.name = "read" => Quiet(st)) /\ Direct(st)
<1> DEFINE st == Repeat(o, Lo(o, i), Hi(o, i))
           M == Packets(o, i)
<1>1. /\ st.soft = FALSE /\ IsSeq(st.pk) /\ Len(st.pk) = M
      /\ \A m \in 1 .. M :
           /\ st.pk[m].cmd = "block"
           /\ IsSeq(st.pk[m].acc) /\ Len(st.pk[m].acc) = Through(o, i, m) - Through(o, i, m - 1)
           /\ \A j \in DOMAIN st.pk[m].acc : st.pk[m].acc[j] = Word(o, Through(o, i, m - 1) + j - 1)
  BY WordsStage DEF WordsPacket
<1>2. M \in Nat \ {0}
  BY ThroughIs
<1> HIDE DEF st, M
<1>3. ASSUME NEW m \in 1 .. M
      PROVE  /\ Len(st.pk[m].acc) > 0 /\ WellRead(st.pk[m].acc) /\ Plain(st.pk[m].acc)
             /\ o.name = "read" => Harmless(st.pk[m].acc)
  <2> DEFINE x == Through(o, i, m - 1)
             a == st.pk[m].acc
  <2>1. x \in Nat /\ Through(o, i, m) \in Nat /\ x < Through(o, i, m) /\ o.a <= x /\ o.a \in Nat
    <3>1. Lo(o, i) \in Nat /\ o.a <= Lo(o, i)
      BY PagesAre
    <3>2. x \in Nat /\ Through(o, i, m) \in Nat /\ x < Through(o, i, m) /\ Lo(o, i) <= x
      BY ThroughIs DEF M
    <3>3. o.a \in Nat
      BY DEF OnBus
    <3> HIDE DEF x
    <3> QED
      BY <3>1, <3>2, <3>3
  <2>2. IsSeq(a) /\ Len(a) = Through(o, i, m) - x /\ \A j \in DOMAIN a : a[j] = Word(o, x + j - 1)
    BY <1>1
  <2> HIDE DEF a, x
  <2>3. ASSUME NEW j \in DOMAIN a PROVE a[j][1] = "drw" /\ (o.name = "read" => a[j][2] = Rd)
    <3>1. j \in 1 .. Len(a)
      BY <2>2, SeqShape
    <3>2. x + j - 1 \in Nat /\ o.a <= x + j - 1
      BY <2>1, <3>1
    <3> QED
      BY <2>1, <2>2, <3>2, WordIs
  <2>4. Len(a) > 0
    BY <2>1, <2>2
  <2> QED
    BY <2>3, <2>4 DEF WellRead, Plain, Harmless, Silent, Readouts, Settings, a
<1>4. DOMAIN st.pk = 1 .. M
  BY <1>1, SeqShape
<1>5. ASSUME NEW m \in DOMAIN st.pk
      PROVE  /\ st.pk[m].cmd \in {"xfer", "block"}
             /\ IsSeq(st.pk[m].acc) /\ Len(st.pk[m].acc) > 0 /\ WellRead(st.pk[m].acc)
             /\ o.name = "read" => Harmless(st.pk[m].acc)
             /\ Plain(st.pk[m].acc)
  BY <1>1, <1>3, <1>4
<1> QED
  BY <1>1, <1>2, <1>5 DEF Packs, Quiet, Direct, st

LEMMA BatchPacks ==
    ASSUME NEW o, Legal(o), o.name = "batch"
    PROVE  Packs(BatchOf(o)) /\ Quiet(BatchOf(o)) /\ Direct(BatchOf(o))
<1> DEFINE st == BatchOf(o)
           M == Cuts(o)
<1>0. IsSeq(o.regs) /\ Len(o.regs) > 0 /\ \A i \in DOMAIN o.regs : o.regs[i] \in Nat
  BY LegalIs
<1>1. /\ st.soft = FALSE /\ IsSeq(st.pk) /\ Len(st.pk) = M
      /\ \A m \in 1 .. M :
           /\ st.pk[m].cmd = "xfer"
           /\ IsSeq(st.pk[m].acc) /\ Len(st.pk[m].acc) = Cut(o, m) - Cut(o, m - 1)
           /\ \A j \in DOMAIN st.pk[m].acc : st.pk[m].acc[j] = Batched(o.regs, Cut(o, m - 1) + j)
  <2> HIDE DEF st, M
  <2>1. st.soft = FALSE /\ IsSeq(st.pk) /\ Len(st.pk) = M /\ \A m \in 1 .. M : BatchPacket(o, m, st.pk[m])
    BY <1>0, BatchStage DEF st, M
  <2> QED
    BY <2>1 DEF BatchPacket
<1>2. M \in Nat \ {0}
  BY <1>0, CutIs
<1> HIDE DEF st, M
<1>3. ASSUME NEW m \in 1 .. M
      PROVE  Len(st.pk[m].acc) > 0 /\ WellRead(st.pk[m].acc) /\ Plain(st.pk[m].acc) /\ Harmless(st.pk[m].acc)
  <2> DEFINE x == Cut(o, m - 1)
             y == Cut(o, m)
             k == Len(o.regs)
             a == st.pk[m].acc
  <2>1. x \in Nat /\ y \in Nat /\ x < y /\ y <= 2 * k
    BY <1>0, CutIs DEF M
  <2>2. IsSeq(a) /\ Len(a) = y - x /\ \A j \in DOMAIN a : a[j] = Batched(o.regs, x + j)
    BY <1>1
  <2>3. k \in Nat /\ DOMAIN o.regs = 1 .. k
    BY <1>0, SeqShape
  <2> HIDE DEF a, x, y, k
  <2>4. ASSUME NEW j \in DOMAIN a
        PROVE  a[j][1] \in {"tar", "drw"} /\ (a[j][1] = "tar" => a[j][2] # Rd) /\ (a[j][1] = "drw" => a[j][2] = Rd)
    <3> DEFINE i == x + j
    <3>1. j \in 1 .. Len(a)
      BY <2>2, SeqShape
    <3>2. i \in 1 .. 2 * k
      BY <2>1, <2>2, <2>3, <3>1
    <3>3. a[j] = Batched(o.regs, i)
      BY <2>2
    <3> HIDE DEF i
    <3>4. CASE i % 2 = 1
      <4>1. (i + 1) \div 2 \in 1 .. k
        BY <2>3, <3>2, <3>4, HalvesAre
      <4>2. o.regs[(i + 1) \div 2] # Rd
        BY <1>0, <2>3, <4>1 DEF Rd
      <4>3. a[j] = <<"tar", o.regs[(i + 1) \div 2]>>
        BY <3>3, <3>4 DEF Batched
      <4> QED
        BY <4>2, <4>3
    <3>5. CASE i % 2 # 1
      <4>1. a[j] = <<"drw", Rd>>
        BY <3>3, <3>5 DEF Batched
      <4> QED
        BY <4>1
    <3> QED
      BY <3>4, <3>5
  <2>5. Len(a) > 0
    BY <2>1, <2>2
  <2> QED
    BY <2>4, <2>5 DEF WellRead, Plain, Harmless, Silent, Readouts, Settings, a
<1>4. DOMAIN st.pk = 1 .. M
  BY <1>1, SeqShape
<1>5. ASSUME NEW m \in DOMAIN st.pk
      PROVE  /\ st.pk[m].cmd \in {"xfer", "block"}
             /\ IsSeq(st.pk[m].acc) /\ Len(st.pk[m].acc) > 0 /\ WellRead(st.pk[m].acc)
             /\ Harmless(st.pk[m].acc) /\ Plain(st.pk[m].acc)
  BY <1>1, <1>3, <1>4
<1> QED
  BY <1>1, <1>2, <1>5 DEF Packs, Quiet, Direct, st

\* Where a stage of a read or a write is.
LEMMA WhichStage ==
    ASSUME NEW p \in Nat, NEW x \in 1 .. 2 * p + 1
    PROVE  \/ Moves(x) /\ x # 2 * p + 1 /\ x \div 2 \in 1 .. p /\ x = 2 * (x \div 2)
           \/ ~Moves(x) /\ x # 2 * p + 1 /\ (x + 1) \div 2 \in 1 .. p /\ x = 2 * ((x + 1) \div 2) - 1
           \/ ~Moves(x) /\ x = 2 * p + 1
BY DEF Moves

\* The stage that tests for errors.
Last(o, x) == OnWords(o) /\ x = Len(Body(o))

LEMMA BodyLen ==
    ASSUME NEW o, Legal(o)
    PROVE  /\ IsSeq(Body(o)) /\ Len(Body(o)) \in Nat \ {0}
           /\ OnWords(o) \/ o.name = "batch"
           /\ OnWords(o) => Len(Body(o)) = 2 * Pages(o) + 1 /\ OnBus(o) /\ Pages(o) \in Nat \ {0} /\ Needs(o) = MEM
           /\ o.name = "batch" => Len(Body(o)) = 1 /\ Body(o)[1] = BatchOf(o) /\ ~OnWords(o) /\ Needs(o) = DM
<1>1. CASE OnWords(o)
  <2>1. OnBus(o) /\ o.name # "batch"
    BY <1>1 DEF Legal, OnWords
  <2>2. Pages(o) \in Nat \ {0}
    BY <2>1, PagesAre
  <2>3. IsSeq(Body(o)) /\ Len(Body(o)) = 2 * Pages(o) + 1
    BY <1>1, <2>1, BodyIs
  <2>4. 2 * Pages(o) + 1 \in Nat \ {0}
    BY <2>2
  <2> QED
    BY <1>1, <2>1, <2>2, <2>3, <2>4 DEF Needs
<1>2. CASE o.name = "batch"
  <2>1. Body(o) = <<BatchOf(o)>> /\ ~OnWords(o)
    BY <1>2 DEF Body, OnWords
  <2> QED
    BY <1>2, <2>1, SingleSeq DEF Needs
<1> QED
  BY <1>1, <1>2, LegalIs DEF OnWords

LEMMA PartIs ==
    ASSUME NEW o, Legal(o), NEW x \in -1 .. Len(Body(o)), NEW st, st = Part(o, x)
    PROVE  /\ Packs(st) /\ (o.name # "write" \/ ~Moves(x) => Quiet(st)) /\ (~Last(o, x) => Direct(st))
           /\ st.then = (IF x = 0 THEN Needs(o) ELSE NoAp)
           /\ Last(o, x) => st.test = TRUE
           /\ ~Last(o, x) => st.test = FALSE
<1> DEFINE n == Len(Body(o))
           ap == Needs(o)
<1>1. n \in Nat \ {0} /\ x \in Int /\ (x = -1 \/ x = 0 \/ x > 0)
  BY BodyLen
<1>2. ASSUME NEW reg \in {"select", "csw", "tar"}, NEW v, v # Rd, st.pk = <<Xfer(reg, v)>>, st.soft = FALSE
      PROVE  Packs(st) /\ Quiet(st) /\ Direct(st)
  BY <1>2, OnePacks
<1>3. ap # Rd /\ Mode(ap) # Rd /\ NoAp # Rd
  BY DEF Needs, Mode, Fixed, Increment, DM, MEM, Rd, NoAp
<1> HIDE DEF n, ap
<1>4. CASE x = -1
  <2>1. st = SelStage(ap) /\ ~Last(o, x)
    BY <1>1, <1>4 DEF Part, Last, ap, n
  <2>2. st.pk = <<Xfer("select", ap)>> /\ st.then = NoAp /\ st.test = FALSE /\ st.soft = FALSE
    BY <2>1, SelStageIs
  <2>3. Packs(st) /\ Quiet(st) /\ Direct(st)
    BY <1>2, <1>3, <2>2
  <2> QED
    BY <1>4, <2>1, <2>2, <2>3
<1>5. CASE x = 0
  <2>1. st = CswStage(ap) /\ ~Last(o, x)
    BY <1>1, <1>5 DEF Part, Last, ap, n
  <2>2. st.pk = <<Xfer("csw", Mode(ap))>> /\ st.then = ap /\ st.test = FALSE /\ st.soft = FALSE
    BY <2>1, CswStageIs
  <2>3. Packs(st) /\ Quiet(st) /\ Direct(st)
    BY <1>2, <1>3, <2>2
  <2> QED
    BY <1>5, <2>1, <2>2, <2>3 DEF ap
<1>6. CASE x > 0 /\ o.name = "batch"
  <2>1. st = BatchOf(o) /\ ~Last(o, x) /\ o.name # "write" /\ IsSeq(o.regs) /\ Len(o.regs) > 0
    <3>1. x = 1 /\ Body(o)[1] = BatchOf(o) /\ ~OnWords(o)
      <4>1. n = 1 /\ Body(o)[1] = BatchOf(o) /\ ~OnWords(o)
        BY <1>6, BodyLen DEF n
      <4>2. x \in -1 .. n
        BY DEF n
      <4> QED
        BY <1>1, <1>6, <4>1, <4>2
    <3>2. st = Body(o)[1]
      BY <3>1 DEF Part
    <3> QED
      BY <1>6, <3>1, <3>2, LegalIs DEF Last
  <2>2. Packs(st) /\ Quiet(st) /\ Direct(st) /\ st.then = NoAp /\ st.test = FALSE
    BY <1>6, <2>1, BatchPacks, BatchStage
  <2> QED
    BY <1>6, <2>1, <2>2
<1>7. CASE x > 0 /\ OnWords(o)
  <2>1. OnBus(o) /\ n = 2 * Pages(o) + 1 /\ Pages(o) \in Nat /\ st = Body(o)[x]
    BY <1>7, BodyLen DEF Part, n
  <2>2. x \in 1 .. 2 * Pages(o) + 1 /\ x # 0
    BY <1>1, <1>7, <2>1 DEF n
  <2>3. CASE Moves(x) /\ x # 2 * Pages(o) + 1 /\ x \div 2 \in 1 .. Pages(o)
    <3>1. st = Repeat(o, Lo(o, x \div 2), Hi(o, x \div 2)) /\ ~Last(o, x)
      <4>1. x \in 1 .. 2 * Pages(o)
        BY <2>1, <2>2, <2>3
      <4>2. Body(o)[x] = Repeat(o, Lo(o, x \div 2), Hi(o, x \div 2))
        BY <1>7, <2>1, <2>3, <4>1, BodyIs
      <4> QED
        BY <2>1, <2>3, <4>2 DEF Last, n
    <3> DEFINE i == x \div 2
    <3>2. i \in 1 .. Pages(o) /\ st = Repeat(o, Lo(o, i), Hi(o, i))
      BY <2>3, <3>1
    <3> HIDE DEF i
    <3>3. Packs(st) /\ (o.name = "read" => Quiet(st)) /\ Direct(st)
      BY <1>7, <2>1, <3>2, WordsPack
    <3>4. st.then = NoAp /\ st.test = FALSE
      BY <2>1, <3>2, WordsStage
    <3>5. o.name # "write" => o.name = "read"
      BY <1>7 DEF OnWords
    <3> QED
      BY <2>2, <2>3, <3>1, <3>3, <3>4, <3>5
  <2>4. CASE ~Moves(x) /\ x # 2 * Pages(o) + 1 /\ (x + 1) \div 2 \in 1 .. Pages(o)
    <3> DEFINE l == Lo(o, (x + 1) \div 2)
    <3>1. st = Single(Xfer("tar", l)) /\ ~Last(o, x)
      <4>1. x \in 1 .. 2 * Pages(o)
        BY <2>1, <2>2, <2>4
      <4>2. Body(o)[x] = Single(Xfer("tar", l))
        BY <1>7, <2>1, <2>4, <4>1, BodyIs
      <4> QED
        BY <2>1, <2>4, <4>2 DEF Last, n
    <3>2. l # Rd
      <4>1. l \in Nat
        BY <2>1, <2>4, PagesAre
      <4> QED
        BY <4>1 DEF Rd
    <3> HIDE DEF l
    <3>3. st.pk = <<Xfer("tar", l)>> /\ st.then = NoAp /\ st.test = FALSE /\ st.soft = FALSE
      BY <3>1 DEF Single, Stage
    <3>4. Packs(st) /\ Quiet(st) /\ Direct(st)
      BY <1>2, <3>2, <3>3
    <3> QED
      BY <2>2, <3>1, <3>3, <3>4
  <2>5. CASE ~Moves(x) /\ x = 2 * Pages(o) + 1
    <3>1. st = StickyError /\ Last(o, x)
      BY <1>7, <2>1, <2>5, BodyIs DEF Last, n
    <3>2. st.pk = <<Xfer("stat", Rd)>> /\ st.then = NoAp /\ st.test = TRUE /\ st.soft = FALSE
      BY <3>1 DEF StickyError, Single, Stage
    <3>3. Packs(st) /\ Quiet(st)
      BY <3>2, OnePacks
    <3> QED
      BY <2>2, <2>5, <3>1, <3>2, <3>3
  <2> QED
    BY <2>1, <2>2, <2>3, <2>4, <2>5, WhichStage
<1> QED
  BY <1>1, <1>4, <1>5, <1>6, <1>7, BodyLen

\* Where a read or a write has come to, stage by stage.
LEMMA ReachedIs ==
    ASSUME NEW o, OnWords(o), OnBus(o), Pages(o) \in Nat \ {0}, NEW x \in -1 .. 2 * Pages(o) + 1
    PROVE  /\ \A e : ~Moves(x) => Reached(o, x, e) = Reached(o, x, 0)
           /\ x <= 0 => Reached(o, x, 0) = o.a
           /\ Moves(x) =>
                /\ x \div 2 \in 1 .. Pages(o) /\ x # 2 * Pages(o) + 1
                /\ \A e : Reached(o, x, e) = Through(o, x \div 2, e)
                /\ Reached(o, x, 0) = Lo(o, x \div 2)
                /\ Reached(o, x + 1, 0) = Hi(o, x \div 2)
           /\ ~Moves(x) /\ x > 0 /\ x # 2 * Pages(o) + 1 =>
                /\ (x + 1) \div 2 \in 1 .. Pages(o)
                /\ Moves(x + 1)
                /\ Reached(o, x, 0) = Lo(o, (x + 1) \div 2) /\ Reached(o, x + 1, 0) = Lo(o, (x + 1) \div 2)
           /\ x = 2 * Pages(o) + 1 => Reached(o, x, 0) = o.a + o.n /\ ~Moves(x)
<1> DEFINE P == Pages(o)
<1>1. P \in Nat \ {0} /\ Lo(o, 1) = o.a /\ Hi(o, P) = o.a + o.n
      /\ \A i \in 1 .. P : i + 1 <= P => Lo(o, i + 1) = Hi(o, i)
  BY PagesAre
<1>2. \A i \in 1 .. P : Through(o, i, 0) = Lo(o, i)
  BY ThroughIs
<1>3. x \in -1 .. 2 * P + 1
  OBVIOUS
<1> HIDE DEF P
<1>4. ~Moves(x) => \A e : Reached(o, x, e) = Reached(o, x, 0)
  BY DEF Reached
<1>5. CASE x <= 0
  <2>1. ~Moves(x) /\ x # 2 * P + 1 /\ ~(x > 0)
    BY <1>1, <1>3, <1>5 DEF Moves
  <2>2. Reached(o, x, 0) = o.a
    BY <1>3, <1>5, <2>1 DEF Reached
  <2> QED
    BY <1>4, <2>1, <2>2 DEF P
<1>6. CASE x > 0
  <2>1. x \in 1 .. 2 * P + 1
    BY <1>1, <1>3, <1>6
  <2>2. CASE Moves(x) /\ x # 2 * P + 1 /\ x \div 2 \in 1 .. P /\ x = 2 * (x \div 2)
    <3> DEFINE i == x \div 2
    <3>1. i \in 1 .. P /\ x = 2 * i
      BY <2>2
    <3>2. \A e : Reached(o, x, e) = Through(o, i, e)
      BY <2>2 DEF Reached
    <3> HIDE DEF i
    <3>3. ~Moves(x + 1) /\ ~(x + 1 <= 2) /\ (x + 1 - 1) \div 2 = i
      BY <1>1, <3>1 DEF Moves
    <3>4. Reached(o, x + 1, 0) = Hi(o, i)
      BY <3>3 DEF Reached
    <3>5. Reached(o, x, 0) = Lo(o, i)
      BY <1>2, <3>1, <3>2
    <3>6. ~(x <= 0)
      BY <1>3, <1>6
    <3> QED
      BY <2>2, <3>1, <3>2, <3>4, <3>5, <3>6 DEF i, P
  <2>3. CASE ~Moves(x) /\ x # 2 * P + 1 /\ (x + 1) \div 2 \in 1 .. P /\ x = 2 * ((x + 1) \div 2) - 1
    <3> DEFINE i == (x + 1) \div 2
    <3>1. i \in 1 .. P /\ x = 2 * i - 1
      BY <2>3
    <3> HIDE DEF i
    <3>2. Moves(x + 1) /\ (x + 1) \div 2 = i
      BY <1>1, <3>1 DEF Moves
    <3>3. Reached(o, x + 1, 0) = Lo(o, i)
      <4>1. Reached(o, x + 1, 0) = Through(o, i, 0)
        BY <3>2 DEF Reached
      <4> QED
        BY <1>2, <3>1, <4>1
    <3>4. Reached(o, x, 0) = Lo(o, i)
      <4>1. CASE i = 1
        <5>1. x <= 2
          BY <3>1, <4>1
        <5> QED
          BY <1>1, <2>3, <4>1, <5>1 DEF Reached
      <4>2. CASE i # 1
        <5> DEFINE j == i - 1
        <5>1. j \in 1 .. P /\ j + 1 = i /\ j + 1 <= P /\ ~(x <= 2) /\ (x - 1) \div 2 = j
          BY <1>1, <3>1, <4>2
        <5> HIDE DEF j
        <5>2. Reached(o, x, 0) = Hi(o, j)
          BY <2>3, <5>1 DEF Reached
        <5> QED
          BY <1>1, <5>1, <5>2
      <4> QED
        BY <4>1, <4>2
    <3>5. ~(x <= 0)
      BY <1>3, <1>6
    <3> QED
      BY <1>4, <2>3, <3>1, <3>2, <3>3, <3>4, <3>5 DEF i, P
  <2>4. CASE ~Moves(x) /\ x = 2 * P + 1
    <3>1. ~(x <= 2) /\ (x - 1) \div 2 = P /\ ~(x <= 0)
      BY <1>1, <2>4
    <3>2. Reached(o, x, 0) = Hi(o, P)
      BY <2>4, <3>1 DEF Reached
    <3> QED
      BY <1>1, <1>4, <2>4, <3>1, <3>2 DEF P
  <2> QED
    BY <1>1, <2>1, <2>2, <2>3, <2>4, WhichStage
<1>7. x <= 0 \/ x > 0
  BY <1>1, <1>3
<1> QED
  BY <1>5, <1>6, <1>7

\* What the stages of an operation send.
LEMMA PartAt ==
    ASSUME NEW o, Legal(o), NEW x \in -1 .. Len(Body(o)), NEW st, st = Part(o, x)
    PROVE  /\ x <= 0 => \E reg \in {"select", "csw"} : \E v : v # Rd /\ st.pk = <<Xfer(reg, v)>>
           /\ OnWords(o) /\ Moves(x) =>
                /\ x \div 2 \in 1 .. Pages(o) /\ x # Len(Body(o))
                /\ st = Repeat(o, Lo(o, x \div 2), Hi(o, x \div 2))
           /\ OnWords(o) /\ x > 0 /\ ~Moves(x) /\ x # Len(Body(o)) =>
                (x + 1) \div 2 \in 1 .. Pages(o) /\ st.pk = <<Xfer("tar", Lo(o, (x + 1) \div 2))>>
           /\ Last(o, x) => st.pk = <<Xfer("stat", Rd)>> /\ ~Moves(x) /\ x > 0
           /\ o.name = "batch" /\ x > 0 => x = 1 /\ st = BatchOf(o)
<1> DEFINE n == Len(Body(o))
           ap == Needs(o)
<1>1. n \in Nat \ {0} /\ x \in Int /\ x <= n /\ (x = -1 \/ x = 0 \/ x > 0) /\ (x <= 0 => ~(x > 0)) /\ (x = -1 \/ x = 0 => x # n)
  BY BodyLen
<1>2. ap # Rd /\ Mode(ap) # Rd
  BY DEF Needs, Mode, Fixed, Increment, DM, MEM, Rd
<1>b. o.name = "batch" => n = 1 /\ Body(o)[1] = BatchOf(o) /\ ~OnWords(o)
  BY BodyLen
<1>w. OnWords(o) => n = 2 * Pages(o) + 1 /\ OnBus(o) /\ Pages(o) \in Nat
  BY BodyLen
<1>n. x = -1 \/ x = 0 => ~Moves(x) /\ ~(x > 0)
  BY DEF Moves
<1>l. n = Len(Body(o))
  OBVIOUS
<1> HIDE DEF n, ap
<1>3. CASE x = -1
  <2>1. st = SelStage(ap) /\ x <= 0 /\ ~(x > 0)
    BY <1>1, <1>3 DEF Part, ap
  <2>2. st.pk = <<Xfer("select", ap)>>
    BY <2>1, SelStageIs
  <2> QED
    BY <1>1, <1>2, <1>3, <1>n, <1>l, <2>1, <2>2 DEF Last
<1>4. CASE x = 0
  <2>1. st = CswStage(ap) /\ x <= 0 /\ ~(x > 0)
    BY <1>1, <1>4 DEF Part, ap
  <2>2. st.pk = <<Xfer("csw", Mode(ap))>>
    BY <2>1, CswStageIs
  <2> QED
    BY <1>1, <1>2, <1>4, <1>n, <1>l, <2>1, <2>2 DEF Last
<1>5. CASE x > 0 /\ o.name = "batch"
  <2>1. x = 1 /\ st = Body(o)[x]
    BY <1>1, <1>5, <1>b DEF Part
  <2>2. ~(x <= 0)
    BY <1>1, <1>5
  <2> QED
    BY <1>5, <1>b, <2>1, <2>2 DEF Last
<1>6. CASE x > 0 /\ OnWords(o)
  <2>1. st = Body(o)[x] /\ ~(x <= 0) /\ o.name # "batch"
    BY <1>1, <1>6 DEF Part, OnWords
  <2>2. x \in 1 .. 2 * Pages(o) + 1 /\ Pages(o) \in Nat
    BY <1>1, <1>6, <1>w
  <2>3. CASE Moves(x) /\ x # 2 * Pages(o) + 1 /\ x \div 2 \in 1 .. Pages(o)
    <3>1. x \in 1 .. 2 * Pages(o)
      BY <2>2, <2>3
    <3>2. st = Repeat(o, Lo(o, x \div 2), Hi(o, x \div 2))
      BY <1>6, <1>w, <2>1, <2>3, <3>1, BodyIs
    <3> QED
      BY <1>w, <1>6, <1>l, <2>1, <2>3, <3>2 DEF Last
  <2>4. CASE ~Moves(x) /\ x # 2 * Pages(o) + 1 /\ (x + 1) \div 2 \in 1 .. Pages(o)
    <3>1. x \in 1 .. 2 * Pages(o)
      BY <2>2, <2>4
    <3>2. st = Single(Xfer("tar", Lo(o, (x + 1) \div 2)))
      BY <1>6, <1>w, <2>1, <2>4, <3>1, BodyIs
    <3>3. st.pk = <<Xfer("tar", Lo(o, (x + 1) \div 2))>>
      BY <3>2 DEF Single, Stage
    <3> QED
      BY <1>w, <1>6, <1>l, <2>1, <2>4, <3>3 DEF Last
  <2>5. CASE ~Moves(x) /\ x = 2 * Pages(o) + 1
    <3>1. st = StickyError
      BY <1>6, <1>w, <2>1, <2>5, BodyIs
    <3>2. st.pk = <<Xfer("stat", Rd)>>
      BY <3>1 DEF StickyError, Single, Stage
    <3> QED
      BY <1>w, <1>6, <1>l, <2>1, <2>5, <3>2 DEF Last
  <2> QED
    BY <2>2, <2>3, <2>4, <2>5, WhichStage
<1> QED
  BY <1>1, <1>3, <1>4, <1>5, <1>6, BodyLen

\* Where a read or a write is at the beginning and at the end of a stage.
Count(o, x) == Len(Part(o, x).pk)
LEMMA ReachedNext ==
    ASSUME NEW o, Legal(o), OnWords(o), NEW x \in -1 .. Len(Body(o))
    PROVE  /\ Reached(o, x, 0) \in Nat /\ o.a <= Reached(o, x, 0) /\ Reached(o, x, 0) <= o.a + o.n
           /\ x <= 1 => Reached(o, x, 0) = o.a
           /\ \A e \in 1 .. Count(o, x) :
                /\ Reached(o, x, e - 1) \in Nat /\ Reached(o, x, e) \in Nat
                /\ o.a <= Reached(o, x, e - 1) /\ Reached(o, x, e - 1) <= Reached(o, x, e) /\ Reached(o, x, e) <= o.a + o.n
           /\ x # Len(Body(o)) => Reached(o, x, Count(o, x)) = Reached(o, x + 1, 0)
           /\ x = Len(Body(o)) => Reached(o, x, Count(o, x)) = o.a + o.n /\ Reached(o, x, 0) = o.a + o.n
<1>1. OnBus(o) /\ Pages(o) \in Nat \ {0} /\ Len(Body(o)) = 2 * Pages(o) + 1 /\ x \in -1 .. 2 * Pages(o) + 1
  BY BodyLen
<1>2. /\ \A e : ~Moves(x) => Reached(o, x, e) = Reached(o, x, 0)
      /\ x <= 0 => Reached(o, x, 0) = o.a
      /\ Moves(x) =>
           /\ x \div 2 \in 1 .. Pages(o) /\ x # 2 * Pages(o) + 1
           /\ \A e : Reached(o, x, e) = Through(o, x \div 2, e)
           /\ Reached(o, x, 0) = Lo(o, x \div 2)
           /\ Reached(o, x + 1, 0) = Hi(o, x \div 2)
      /\ ~Moves(x) /\ x > 0 /\ x # 2 * Pages(o) + 1 =>
           /\ (x + 1) \div 2 \in 1 .. Pages(o)
           /\ Moves(x + 1)
           /\ Reached(o, x, 0) = Lo(o, (x + 1) \div 2) /\ Reached(o, x + 1, 0) = Lo(o, (x + 1) \div 2)
      /\ x = 2 * Pages(o) + 1 => Reached(o, x, 0) = o.a + o.n /\ ~Moves(x)
  BY <1>1, ReachedIs
<1>3. o.a \in Nat /\ o.n \in Nat \ {0}
  BY <1>1 DEF OnBus
<1>4. \A i \in 1 .. Pages(o) : Lo(o, i) \in Nat /\ o.a <= Lo(o, i) /\ Lo(o, i) < Hi(o, i) /\ Hi(o, i) <= o.a + o.n /\ Hi(o, i) \in Nat
  BY <1>1, PagesAre
<1>5. Lo(o, 1) = o.a
  BY <1>1, PagesAre
<1>6. x \in Int /\ (x = -1 \/ x = 0 \/ x = 1 \/ x > 1)
  BY <1>1
<1>7. CASE Moves(x)
  <2> DEFINE i == x \div 2
  <2>1. i \in 1 .. Pages(o) /\ x # 2 * Pages(o) + 1 /\ (\A e : Reached(o, x, e) = Through(o, i, e))
        /\ Reached(o, x, 0) = Lo(o, i) /\ Reached(o, x + 1, 0) = Hi(o, i)
    BY <1>2, <1>7
  <2>2. Count(o, x) = Packets(o, i)
    <3>1. Part(o, x) = Repeat(o, Lo(o, i), Hi(o, i))
      BY <1>7, PartAt
    <3> HIDE DEF i
    <3> QED
      BY <1>1, <2>1, <3>1, WordsStage DEF Count
  <2>3. x # 1 /\ x # 0 /\ x # -1 /\ ~(x <= 1)
    BY <1>6, <1>7 DEF Moves
  <2> HIDE DEF i
  <2>4. Packets(o, i) \in Nat \ {0} /\ Through(o, i, Packets(o, i)) = Hi(o, i)
    BY <1>1, <2>1, ThroughIs
  <2>5. ASSUME NEW e \in 1 .. Packets(o, i)
        PROVE  Through(o, i, e - 1) \in Nat /\ Through(o, i, e) \in Nat /\ Lo(o, i) <= Through(o, i, e - 1)
               /\ Through(o, i, e - 1) < Through(o, i, e) /\ Through(o, i, e) <= Hi(o, i)
    BY <1>1, <2>1, ThroughIs
  <2>6. Lo(o, i) \in Nat /\ o.a <= Lo(o, i) /\ Lo(o, i) < Hi(o, i) /\ Hi(o, i) <= o.a + o.n /\ Hi(o, i) \in Nat
    BY <1>4, <2>1
  <2>7. \A e \in 1 .. Count(o, x) :
          /\ Reached(o, x, e - 1) \in Nat /\ Reached(o, x, e) \in Nat
          /\ o.a <= Reached(o, x, e - 1) /\ Reached(o, x, e - 1) <= Reached(o, x, e) /\ Reached(o, x, e) <= o.a + o.n
    <3> TAKE e \in 1 .. Count(o, x)
    <3>1. Reached(o, x, e) = Through(o, i, e) /\ Reached(o, x, e - 1) = Through(o, i, e - 1)
      BY <2>1
    <3>2. e \in 1 .. Packets(o, i)
      BY <2>2
    <3> DEFINE y == Through(o, i, e)
               z == Through(o, i, e - 1)
    <3>3. z \in Nat /\ y \in Nat /\ Lo(o, i) <= z /\ z < y /\ y <= Hi(o, i)
      BY <2>5, <3>2
    <3> HIDE DEF y, z
    <3>4. z \in Nat /\ y \in Nat /\ o.a <= z /\ z <= y /\ y <= o.a + o.n
      BY <1>3, <2>6, <3>3
    <3> QED
      BY <3>1, <3>4 DEF y, z
  <2>8. Reached(o, x, 0) \in Nat /\ o.a <= Reached(o, x, 0) /\ Reached(o, x, 0) <= o.a + o.n
    BY <1>3, <2>1, <2>6
  <2> QED
    BY <1>1, <2>1, <2>2, <2>3, <2>4, <2>7, <2>8
<1>8. CASE ~Moves(x)
  <2>1. \A e : Reached(o, x, e) = Reached(o, x, 0)
    BY <1>2, <1>8
  <2>2. CASE x = -1 \/ x = 0
    <3>1. Reached(o, x, 0) = o.a /\ x # Len(Body(o))
      BY <1>1, <1>2, <2>2
    <3>2. Reached(o, x + 1, 0) = o.a
      BY <2>2 DEF Reached, Moves
    <3>3. \A e : Reached(o, x, e) = o.a
      BY <2>1, <3>1
    <3> QED
      BY <1>3, <3>1, <3>2, <3>3
  <2>3. CASE x # -1 /\ x # 0 /\ x # 2 * Pages(o) + 1
    <3> DEFINE i == (x + 1) \div 2
    <3>1. i \in 1 .. Pages(o) /\ Reached(o, x, 0) = Lo(o, i) /\ Reached(o, x + 1, 0) = Lo(o, i) /\ (x = 1 => i = 1)
      BY <1>2, <1>6, <1>8, <2>3
    <3>2. x > 0
      BY <1>6, <2>3
    <3> HIDE DEF i
    <3>3. Lo(o, i) \in Nat /\ o.a <= Lo(o, i) /\ Lo(o, i) <= o.a + o.n
      BY <1>3, <1>4, <3>1
    <3>4. x = 1 => Lo(o, i) = o.a
      BY <1>5, <3>1
    <3>5. \A e : Reached(o, x, e) = Lo(o, i)
      BY <2>1, <3>1
    <3>6. x <= 1 => x = 1
      BY <1>6, <3>2
    <3> QED
      BY <1>1, <2>3, <3>1, <3>3, <3>4, <3>5, <3>6
  <2>4. CASE x = 2 * Pages(o) + 1
    <3>1. \A e : Reached(o, x, e) = o.a + o.n
      BY <1>2, <2>1, <2>4
    <3>2. ~(x <= 1)
      BY <1>1, <2>4
    <3> QED
      BY <1>1, <1>3, <2>4, <3>1, <3>2
  <2> QED
    BY <2>2, <2>3, <2>4
<1> QED
  BY <1>7, <1>8

\* What is left of the stages.
LEMMA AtHead ==
    ASSUME Legal(op), NEW q \in -1 .. Len(Body(op)), At(q), IsSeq(stages)
    PROVE  /\ Head(stages) = Part(op, q) /\ Len(stages) > 0 /\ stages # <<>>
           /\ Len(stages) = 1 <=> q = Len(Body(op))
<1>1. Len(Body(op)) \in Nat \ {0}
  BY BodyLen
<1>2. Len(stages) = Len(Body(op)) + 1 - q /\ \A j \in 1 .. Len(stages) : stages[j] = Part(op, q + j - 1)
  BY DEF At
<1>3. Len(stages) > 0 /\ Len(stages) \in Int /\ (Len(stages) = 1 <=> q = Len(Body(op))) /\ q + 1 - 1 = q /\ 1 \in 1 .. Len(stages)
  BY <1>1, <1>2
<1>4. stages # <<>>
  BY <1>3, NothingSeq
<1>5. Head(stages) = stages[1]
  BY <1>4, TailSeq
<1> QED
  BY <1>2, <1>3, <1>4, <1>5

LEMMA AtTail ==
    ASSUME Legal(op), NEW q \in -1 .. Len(Body(op)), At(q), IsSeq(stages), q # Len(Body(op)),
           stages' = Tail(stages), op' = op, q >= 0 => cur' = Needs(op)
    PROVE  At(q + 1)' /\ q + 1 \in -1 .. Len(Body(op))
<1>1. Len(Body(op)) \in Nat \ {0}
  BY BodyLen
<1>2. Len(stages) = Len(Body(op)) + 1 - q /\ \A j \in 1 .. Len(stages) : stages[j] = Part(op, q + j - 1)
  BY DEF At
<1>3. stages # <<>>
  BY AtHead
<1>4. Len(stages') = Len(stages) - 1 /\ \A i \in 1 .. Len(stages) - 1 : stages'[i] = stages[i + 1]
  BY <1>3, TailSeq
<1> DEFINE n == Len(Body(op))
           l == Len(stages)
           k == q + 1
<1>5. n \in Nat \ {0} /\ q \in -1 .. n /\ q # n /\ l = n + 1 - q /\ Len(stages') = l - 1
  BY <1>1, <1>2, <1>4
<1>6. Len(stages') = n + 1 - (q + 1) /\ q + 1 \in -1 .. n /\ (q + 1 > 0 => q >= 0)
  <2> HIDE DEF n, l
  <2> QED
    BY <1>5
<1>7. ASSUME NEW j \in 1 .. l - 1
      PROVE  stages'[j] = Part(op, q + 1 + j - 1)
  <2>1. j + 1 \in 1 .. l /\ q + (j + 1) - 1 = q + 1 + j - 1
    <3> HIDE DEF n, l
    <3> QED
      BY <1>5
  <2>2. stages[j + 1] = Part(op, q + (j + 1) - 1)
    BY <1>2, <2>1
  <2> QED
    BY <1>4, <2>1, <2>2
<1>8. \A j \in 1 .. Len(stages') : stages'[j] = Part(op, q + 1 + j - 1)
  BY <1>5, <1>7
<1>9. Len(Body(op')) = n /\ \A x : Part(op', x) = Part(op, x)
  OBVIOUS
<1> HIDE DEF n, l
<1>10. At(q + 1)'
  BY <1>6, <1>8, <1>9 DEF At, n
<1> QED
  BY <1>6, <1>10 DEF n

LEMMA SelectIs ==
    ASSUME NEW ap
    PROVE  /\ IsSeq(SelectAp(ap)) /\ Len(SelectAp(ap)) = 2
           /\ SelectAp(ap)[1] = SelStage(ap) /\ SelectAp(ap)[2] = CswStage(ap)
<1>1. SelectAp(ap) = <<SelStage(ap), CswStage(ap)>>
  BY DEF SelectAp, SelStage, CswStage, Mode
<1> HIDE DEF SelectAp
<1> DEFINE x == SelStage(ap)
           y == CswStage(ap)
<1>2. SelectAp(ap) = <<x, y>>
  BY <1>1
<1> HIDE DEF x, y
<1>3. <<x, y>> \in Seq({x, y}) /\ Len(<<x, y>>) = 2 /\ <<x, y>>[1] = x /\ <<x, y>>[2] = y
  OBVIOUS
<1>4. IsSeq(<<x, y>>)
  BY <1>3 DEF IsSeq
<1> QED
  BY <1>2, <1>3, <1>4 DEF x, y

\* A plan: select(), as far as it is needed, and the stages of the operation.
LEMMA PlanIs ==
    ASSUME NEW o, Legal(o), NEW q, q = IF cur = Needs(o) THEN 1 ELSE -1
    PROVE  /\ IsSeq(Plan(o)) /\ Len(Plan(o)) = Len(Body(o)) + 1 - q
           /\ \A j \in 1 .. Len(Plan(o)) : Plan(o)[j] = Part(o, q + j - 1)
<1> DEFINE ap == Needs(o)
           b == Body(o)
<1>1. IsSeq(b) /\ Len(b) \in Nat \ {0}
  BY BodyLen
<1>2. Plan(o) = Select(ap) \o b
  <2>1. CASE OnWords(o)
    <3>1. OnBus(o) /\ ap = MEM
      BY <2>1, BodyLen
    <3>2. Plan(o) = Select(ap) \o Transfers(o) \o <<StickyError>> /\ b = Transfers(o) \o <<StickyError>>
      BY <2>1, <3>1, BodyIs DEF OnWords, Plan
    <3>3. IsSeq(Transfers(o)) /\ IsSeq(Select(ap)) /\ IsSeq(<<StickyError>>)
      BY <2>1, <3>1, BodyIs, SelectBegins, SingleSeq DEF Begins
    <3> HIDE DEF ap, b
    <3> DEFINE r == Select(ap)
               s == Transfers(o)
               t == <<StickyError>>
    <3>4. PICK R, S, T : r \in Seq(R) /\ s \in Seq(S) /\ t \in Seq(T)
      BY <3>3 DEF IsSeq
    <3> HIDE DEF r, s, t
    <3>5. r \in Seq(R \cup S \cup T) /\ s \in Seq(R \cup S \cup T) /\ t \in Seq(R \cup S \cup T)
      BY <3>4
    <3>6. (r \o s) \o t = r \o (s \o t)
      BY <3>5
    <3> QED
      BY <3>2, <3>6 DEF r, s, t
  <2>2. CASE o.name = "batch"
    <3>1. b = <<BatchOf(o)>> /\ ap = DM
      BY <2>2 DEF Body, Needs
    <3> HIDE DEF ap, b
    <3> QED
      BY <2>2, <3>1 DEF Plan
  <2> QED
    BY <2>1, <2>2, LegalIs DEF OnWords
<1>3. \A j \in 1 .. Len(b) : b[j] = Part(o, j)
  <2> TAKE j \in 1 .. Len(b)
  <2>1. j # -1 /\ j # 0
    BY <1>1
  <2> QED
    BY <2>1 DEF Part
<1>4. CASE cur = ap
  <2>1. Select(ap) = <<>> /\ q = 1
    BY <1>4 DEF Select
  <2>2. Plan(o) = b
    <3> HIDE DEF ap, b
    <3>1. PICK S : b \in Seq(S)
      BY <1>1 DEF IsSeq
    <3> QED
      BY <1>2, <2>1, <3>1
  <2> HIDE DEF ap, b
  <2>3. \A j \in 1 .. Len(b) : 1 + j - 1 = j
    BY <1>1
  <2>4. \A j \in 1 .. Len(Plan(o)) : Plan(o)[j] = Part(o, q + j - 1)
    BY <1>3, <2>1, <2>2, <2>3
  <2>5. Len(Plan(o)) = Len(b) + 1 - q
    BY <1>1, <2>1, <2>2
  <2> QED
    BY <1>1, <2>2, <2>4, <2>5 DEF b
<1>5. CASE cur # ap
  <2>1. Select(ap) = SelectAp(ap) /\ q = -1
    BY <1>5 DEF Select
  <2> DEFINE s == SelectAp(ap)
  <2>2. IsSeq(s) /\ Len(s) = 2 /\ s[1] = SelStage(ap) /\ s[2] = CswStage(ap)
    BY SelectIs
  <2>3. Plan(o) = s \o b
    BY <1>2, <2>1
  <2>4. SelStage(ap) = Part(o, -1) /\ CswStage(ap) = Part(o, 0)
    BY DEF Part
  <2> HIDE DEF s, ap, b
  <2>5. /\ IsSeq(s \o b) /\ Len(s \o b) = Len(s) + Len(b)
        /\ \A i \in 1 .. Len(s) : (s \o b)[i] = s[i]
        /\ \A i \in 1 .. Len(b) : (s \o b)[Len(s) + i] = b[i]
    <3>1. IsSeq(s) /\ IsSeq(b)
      BY <1>1, <2>2
    <3> QED
      BY <3>1, ConcatSeq
  <2>6. ASSUME NEW j \in 1 .. Len(b) + 2
        PROVE  (s \o b)[j] = Part(o, -1 + j - 1)
    <3>1. CASE j = 1
      BY <2>2, <2>4, <2>5, <3>1
    <3>2. CASE j = 2
      BY <2>2, <2>4, <2>5, <3>2
    <3>3. CASE j # 1 /\ j # 2
      <4> DEFINE i == j - 2
      <4>1. i \in 1 .. Len(b) /\ j = Len(s) + i /\ i = -1 + j - 1
        BY <1>1, <2>2, <3>3
      <4> HIDE DEF i
      <4>2. (s \o b)[j] = b[i]
        BY <2>5, <4>1
      <4> QED
        BY <1>3, <4>1, <4>2
    <3> QED
      BY <3>1, <3>2, <3>3
  <2>7. Len(Plan(o)) = Len(b) + 1 - q /\ Len(Plan(o)) = Len(b) + 2
    BY <1>1, <2>1, <2>2, <2>3, <2>5
  <2> QED
    BY <2>1, <2>3, <2>5, <2>6, <2>7 DEF b
<1> QED
  BY <1>4, <1>5 DEF ap

\* Words of a span, and packets that read nothing.
LEMMA SpanPiece ==
    ASSUME NEW lo \in Int, NEW hi \in Int
    PROVE  Span(lo, hi) = Piece([x \in Int |-> x], lo - 1, hi - 1)
<1>1. hi - 1 - (lo - 1) = hi - lo
  OBVIOUS
<1>2. \A j \in 1 .. hi - lo : [x \in Int |-> x][lo - 1 + j] = lo + j - 1
  OBVIOUS
<1> QED
  BY <1>1, <1>2 DEF Span, Piece

LEMMA NoReads ==
    ASSUME NEW p, \A i \in DOMAIN p.acc : p.acc[i][2] # Rd
    PROVE  Reads(p) = 0
<1>1. {i \in DOMAIN p.acc : p.acc[i][2] = Rd} = {}
  OBVIOUS
<1> QED
  BY <1>1, FS_EmptySet DEF Reads

\* What neither opening nor clearing errors does.
LEMMA NoWrites ==
    /\ \A j \in DOMAIN InitSwd : \A i \in DOMAIN InitSwd[j].pk : Harmless(InitSwd[j].pk[i].acc)
    /\ \A i \in DOMAIN ClearErrors.pk : Harmless(ClearErrors.pk[i].acc)
<1>1. \A c : Packet(c, <<>>).acc = <<>> /\ Harmless(<<>>)
  BY DEF Packet, Harmless
<1>2. Xfer("id", Rd).acc = <<<<"id", Rd>>>> /\ Harmless(<<<<"id", Rd>>>>)
  BY DEF Xfer, Packet, Harmless, Silent, Readouts
<1>3. ASSUME NEW p, Harmless(p.acc), NEW i \in DOMAIN Single(p).pk
      PROVE  Harmless(Single(p).pk[i].acc)
  <2>1. Single(p).pk = <<p>>
    BY SingleOK
  <2>2. i = 1
    BY <1>3, <2>1
  <2> QED
    BY <1>3, <2>1, <2>2
<1>4. \A i \in DOMAIN ClearErrors.pk : Harmless(ClearErrors.pk[i].acc)
  <2>1. ClearErrors.pk = <<Packet("abort", <<>>)>>
    BY DEF ClearErrors, Single, Stage
  <2> QED
    BY <1>1, <2>1
<1>5. ASSUME NEW j \in DOMAIN InitSwd
      PROVE  \/ \E c : InitSwd[j] = Single(Packet(c, <<>>))
             \/ InitSwd[j] = Single(Xfer("id", Rd))
             \/ InitSwd[j] = ClearErrors
  <2> HIDE DEF Single, Packet, Xfer, ClearErrors
  <2> QED
    BY <1>5 DEF InitSwd
<1>6. ASSUME NEW j \in DOMAIN InitSwd, NEW i \in DOMAIN InitSwd[j].pk
      PROVE  Harmless(InitSwd[j].pk[i].acc)
  <2>1. CASE \E c : InitSwd[j] = Single(Packet(c, <<>>))
    <3>1. PICK c : InitSwd[j] = Single(Packet(c, <<>>))
      BY <2>1
    <3>2. Harmless(Packet(c, <<>>).acc)
      BY <1>1
    <3> QED
      BY <1>3, <1>6, <3>1, <3>2
  <2>2. CASE InitSwd[j] = Single(Xfer("id", Rd))
    <3>1. Harmless(Xfer("id", Rd).acc)
      BY <1>2
    <3> QED
      BY <1>3, <1>6, <2>2, <3>1
  <2>3. CASE InitSwd[j] = ClearErrors
    BY <1>4, <1>6, <2>3
  <2> QED
    BY <1>5, <2>1, <2>2, <2>3
<1> QED
  BY <1>4, <1>6

(* The packets that are answered. *)
Slots == \A i \in 1 .. Len(flight) : DOMAIN flight[i] = {"pkt", "ans"}

LEMMA AnswerSlots ==
    ASSUME IsSeq(flight), Slots, NEW i \in DOMAIN flight, NEW ack, NEW done, NEW words, Answer(i, ack, done, words)
    PROVE  /\ Slots' /\ Len(flight') = Len(flight) /\ i \in 1 .. Len(flight)
           /\ \A j \in 1 .. Len(flight) : flight'[j].pkt = flight[j].pkt /\ (j # i => flight'[j] = flight[j])
           /\ flight'[i].ans # <<>> /\ flight'[i].ans[1].ack = ack /\ flight'[i].ans[1].data = words
<1> DEFINE new == <<[cmd |-> flight[i].pkt.cmd, ack |-> ack, done |-> done, data |-> words]>>
           e == [flight[i] EXCEPT !.ans = new]
<1>1. flight' = [flight EXCEPT ![i] = e]
  BY DEF Answer
<1>2. PICK S : flight \in Seq(S)
  BY DEF IsSeq
<1>3. DOMAIN flight = 1 .. Len(flight) /\ Len(flight) \in Nat
  BY SeqShape
<1>4. new # <<>> /\ new[1].ack = ack /\ new[1].data = words
  OBVIOUS
<1>5. DOMAIN flight[i] = {"pkt", "ans"}
  BY <1>3 DEF Slots
<1> HIDE DEF new
<1>6. e.pkt = flight[i].pkt /\ e.ans = new /\ DOMAIN e = {"pkt", "ans"}
  BY <1>5
<1> HIDE DEF e
<1>7. flight \in Seq(S \cup {e}) /\ e \in S \cup {e}
  BY <1>2
<1>8. /\ flight' \in Seq(S \cup {e}) /\ Len(flight') = Len(flight)
      /\ \A j \in 1 .. Len(flight) : flight'[j] = IF j = i THEN e ELSE flight[j]
  BY <1>1, <1>3, <1>7, ExceptSeq
<1>9. Slots'
  BY <1>6, <1>8 DEF Slots
<1> QED
  BY <1>3, <1>4, <1>6, <1>8, <1>9

\* What an operation has in hand: one of a caller, in step, with its stages.
Doer(q, e, A) == Matched /\ busy /\ Legal(op) /\ q \in -1 .. Len(Body(op)) /\ Stand(q, e, A)
LEMMA DoerIs ==
    ASSUME NEW q, NEW e, NEW A, Doer(q, e, A)
    PROVE  /\ IsSeq(stages) /\ IsSeq(flight) /\ IsSeq(got) /\ Len(flight) \in Nat /\ Len(got) \in Nat
           /\ Head(stages) = Part(op, q) /\ stages # <<>> /\ (Len(stages) = 1 <=> q = Len(Body(op)))
           /\ sent = Len(got) + Len(flight) /\ sent \in 0 .. Count(op, q) /\ Count(op, q) \in Nat \ {0}
           /\ e \in Len(got) .. sent
           /\ \A i \in 1 .. Len(flight) : flight[i].pkt = Part(op, q).pk[Len(got) + i]
           /\ Packs(Part(op, q))
<1>1. IsSeq(stages) /\ IsSeq(flight) /\ IsSeq(got) /\ stages # <<>> /\ sent \in 0 .. Len(Head(stages).pk)
      /\ sent = Len(got) + Len(flight) /\ \A i \in 1 .. Len(flight) : flight[i].pkt = Head(stages).pk[Len(got) + i]
  BY DEF Doer, Matched, StagesOK
<1>2. Legal(op) /\ q \in -1 .. Len(Body(op)) /\ At(q) /\ Come(e, A)
  BY DEF Doer, Stand
<1>3. Head(stages) = Part(op, q) /\ (Len(stages) = 1 <=> q = Len(Body(op)))
  BY <1>1, <1>2, AtHead
<1>4. Packs(Part(op, q))
  BY <1>2, PartIs
<1>5. Len(flight) \in Nat /\ Len(got) \in Nat
  BY <1>1, SeqShape
<1> QED
  BY <1>1, <1>2, <1>3, <1>4, <1>5 DEF Come, Packs, Count

\* Another packet is sent.
LEMMA SendStand ==
    ASSUME Pipe, NEW q, NEW e, NEW A, Doer(q, e, A), Send
    PROVE  Stand(q, e, A)'
<1>1. UNCHANGED <<op, stages, got, cur>> /\ sent' = sent + 1
  BY DEF Send
<1>2. /\ \A i \in 1 .. Len(flight) : flight'[i] = flight[i]
      /\ Len(flight') = Len(flight) + 1
      /\ flight'[Len(flight) + 1].ans = <<>>
  BY SendPipe
<1>3. At(q) /\ Come(e, A) /\ Full(q, e, A)
  BY DEF Doer, Stand
<1>4. At(q)'
  BY <1>1, <1>3 DEF At
<1>5. Full(q, e, A)'
  BY <1>1, <1>3 DEF Full
<1>6. Come(e, A)'
  <2> DEFINE n == Len(flight)
             g == Len(got)
  <2>1. n \in Nat /\ g \in Nat /\ sent = g + n /\ e \in g .. sent
    BY DoerIs
  <2>2. e \in g .. sent'
    BY <1>1, <2>1
  <2>3. \A j \in 1 .. n + 1 : flight'[j].ans # <<>> <=> g + j <= e
    <3> TAKE j \in 1 .. n + 1
    <3>1. CASE j = n + 1
      <4>1. ~(g + j <= e)
        BY <2>1, <3>1
      <4> QED
        BY <1>2, <3>1, <4>1
    <3>2. CASE j # n + 1
      <4>1. j \in 1 .. n
        BY <2>1, <3>2
      <4> QED
        BY <1>2, <1>3, <4>1 DEF Come
    <3> QED
      BY <3>1, <3>2
  <2>4. \A k \in 1 .. e : A[k] = IF k <= g THEN got[k] ELSE flight'[k - g].ans[1]
    <3> TAKE k \in 1 .. e
    <3>1. A[k] = IF k <= g THEN got[k] ELSE flight[k - g].ans[1]
      BY <1>3 DEF Come
    <3>2. ~(k <= g) => k - g \in 1 .. n
      BY <2>1
    <3> QED
      BY <1>2, <3>1, <3>2
  <2> QED
    BY <1>1, <1>2, <2>2, <2>3, <2>4 DEF Come
<1> QED
  BY <1>4, <1>5, <1>6 DEF Stand

\* An answer is read that is not the last of its stage.
LEMMA RecvStand ==
    ASSUME NEW q, NEW e, NEW A, Doer(q, e, A), flight # <<>>, flight[1].ans # <<>>,
           flight' = Tail(flight), got' = Append(got, flight[1].ans[1]), UNCHANGED <<op, stages, sent, cur>>
    PROVE  Stand(q, e, A)'
<1>1. At(q) /\ Come(e, A) /\ Full(q, e, A)
  BY DEF Doer, Stand
<1>2. At(q)' /\ Full(q, e, A)'
  BY <1>1 DEF At, Full
<1> DEFINE n == Len(flight)
           g == Len(got)
<1>3. n \in Nat /\ g \in Nat /\ e \in g .. sent /\ IsSeq(flight) /\ IsSeq(got) /\ sent = g + n
  BY DoerIs
<1>4. n > 0 /\ Len(flight') = n - 1 /\ \A i \in 1 .. n - 1 : flight'[i] = flight[i + 1]
  BY <1>3, TailSeq
<1>5. Len(got') = g + 1 /\ (\A i \in 1 .. g : got'[i] = got[i]) /\ got'[g + 1] = flight[1].ans[1]
  BY <1>3, AppendSeq
<1>6. \A j \in 1 .. n : flight[j].ans # <<>> <=> g + j <= e
  BY <1>1 DEF Come
<1>7. \A k \in 1 .. e : A[k] = IF k <= g THEN got[k] ELSE flight[k - g].ans[1]
  BY <1>1 DEF Come
<1> HIDE DEF n, g
<1>8. e \in g + 1 .. sent
  BY <1>3, <1>4, <1>6
<1>9. \A j \in 1 .. n - 1 : flight'[j].ans # <<>> <=> (g + 1) + j <= e
  <2> TAKE j \in 1 .. n - 1
  <2>1. j + 1 \in 1 .. n /\ g + (j + 1) = (g + 1) + j
    BY <1>3
  <2> QED
    BY <1>4, <1>6, <2>1
<1>10. \A k \in 1 .. e : A[k] = IF k <= g + 1 THEN got'[k] ELSE flight'[k - (g + 1)].ans[1]
  <2> TAKE k \in 1 .. e
  <2>1. CASE k <= g
    <3>1. k \in 1 .. g /\ k <= g + 1
      BY <1>3, <2>1
    <3> QED
      BY <1>5, <1>7, <2>1, <3>1
  <2>2. CASE k = g + 1
    <3>1. ~(k <= g) /\ k - g = 1 /\ k <= g + 1
      BY <1>3, <2>2
    <3> QED
      BY <1>5, <1>7, <2>2, <3>1
  <2>3. CASE k > g + 1
    <3> DEFINE j == k - (g + 1)
    <3>1. j \in 1 .. n - 1 /\ j + 1 = k - g /\ ~(k <= g) /\ ~(k <= g + 1)
      BY <1>3, <2>3
    <3>2. flight'[j] = flight[j + 1]
      BY <1>4, <3>1
    <3> QED
      BY <1>7, <3>1, <3>2
  <2> QED
    <3>1. k <= g \/ k = g + 1 \/ k > g + 1
      BY <1>3
    <3> QED
      BY <2>1, <2>2, <2>3, <3>1
<1>11. Come(e, A)'
  BY <1>4, <1>5, <1>8, <1>9, <1>10 DEF Come
<1> QED
  BY <1>2, <1>11 DEF Stand

\* The packet that the probe executes next.
LEMMA PendingIs ==
    ASSUME NEW q, NEW e, NEW A, Doer(q, e, A), NEW i \in DOMAIN flight, Pending(i)
    PROVE  /\ i = e + 1 - Len(got) /\ i \in 1 .. Len(flight) /\ e \in Nat /\ e + 1 \in Len(got) .. sent
           /\ flight[i].pkt = Part(op, q).pk[e + 1] /\ e + 1 \in 1 .. Count(op, q)
<1>1. Come(e, A)
  BY DEF Doer, Stand
<1> DEFINE n == Len(flight)
           g == Len(got)
           m == Count(op, q)
<1>4. n \in Nat /\ g \in Nat /\ e \in g .. sent /\ IsSeq(flight) /\ sent = g + n /\ sent \in 0 .. m /\ m \in Nat
      /\ \A j \in 1 .. n : flight[j].pkt = Part(op, q).pk[g + j]
  BY DoerIs
<1>5. i \in 1 .. n
  BY <1>4, SeqShape
<1>6. \A j \in 1 .. n : flight[j].ans # <<>> <=> g + j <= e
  BY <1>1 DEF Come
<1>8. flight[i].ans = <<>> /\ \A j \in 1 .. i - 1 : flight[j].ans # <<>>
  BY DEF Pending
<1> HIDE DEF n, g, m
<1>9. i = e + 1 - g
  <2>1. e < g + i
    BY <1>4, <1>5, <1>6, <1>8
  <2>2. CASE i = 1
    BY <1>4, <2>1, <2>2
  <2>3. CASE i # 1
    <3>1. i - 1 \in 1 .. n /\ i - 1 \in 1 .. i - 1
      BY <1>4, <1>5, <2>3
    <3>2. g + (i - 1) <= e
      BY <1>6, <1>8, <3>1
    <3> QED
      <4>1. i \in Int /\ g \in Int /\ e \in Int
        BY <1>4, <1>5
      <4> QED
        BY <2>1, <3>2, <4>1
  <2> QED
    BY <2>2, <2>3
<1>10. flight[i].pkt = Part(op, q).pk[e + 1] /\ e + 1 \in 1 .. m /\ e + 1 \in g .. sent /\ e \in Nat
  <2>1. g + i = e + 1
    BY <1>4, <1>5, <1>9
  <2> QED
    BY <1>4, <1>5, <2>1
<1> QED
  BY <1>5, <1>9, <1>10 DEF n, g, m

\* The probe answers the next packet.
LEMMA AnswerStand ==
    ASSUME Slots, NEW q, NEW e, NEW A, Doer(q, e, A), NEW i \in DOMAIN flight, Pending(i),
           NEW ack, NEW done, NEW words, Answer(i, ack, done, words), UNCHANGED host,
           NEW p, p = Part(op, q).pk[e + 1], ack = "ok" => IsSeq(words) /\ Len(words) = Reads(p)
    PROVE  \E B : /\ (\A k \in 1 .. e : B[k] = A[k]) /\ B[e + 1].ack = ack /\ B[e + 1].data = words
                  /\ Stand(q, e + 1, B)'
<1>1. At(q) /\ Come(e, A) /\ Full(q, e, A)
  BY DEF Doer, Stand
<1>2. UNCHANGED <<op, stages, got, sent, cur>>
  BY DEF host
<1>3. At(q)'
  BY <1>1, <1>2 DEF At
<1> DEFINE n == Len(flight)
           g == Len(got)
<1>4. n \in Nat /\ g \in Nat /\ e \in g .. sent /\ IsSeq(flight) /\ sent = g + n
  BY DoerIs
<1>5. Len(flight') = n /\ i \in 1 .. n
      /\ (\A j \in 1 .. n : j # i => flight'[j] = flight[j])
      /\ flight'[i].ans # <<>> /\ flight'[i].ans[1].ack = ack /\ flight'[i].ans[1].data = words
  BY <1>4, AnswerSlots
<1>6. \A j \in 1 .. n : flight[j].ans # <<>> <=> g + j <= e
  BY <1>1 DEF Come
<1>7. \A k \in 1 .. e : A[k] = IF k <= g THEN got[k] ELSE flight[k - g].ans[1]
  BY <1>1 DEF Come
<1>9. i = e + 1 - g /\ e + 1 \in g .. sent
  BY PendingIs
<1> HIDE DEF n, g
<1> DEFINE c == e + 1
<1>11. c \in Nat /\ (\A k \in 1 .. e : k \in 1 .. c /\ k # c) /\ c \in 1 .. c /\ (\A k \in 1 .. c : k = c \/ k \in 1 .. e)
  BY <1>4
<1>12. PICK B : (\A k \in 1 .. e : B[k] = A[k]) /\ B[c] = flight'[i].ans[1]
  <2> DEFINE new == flight'[i].ans[1]
             F == [k \in 1 .. c |-> IF k = c THEN new ELSE A[k]]
  <2> HIDE DEF c, new
  <2>1. (\A k \in 1 .. e : F[k] = A[k]) /\ F[c] = new
    BY <1>11
  <2> HIDE DEF F
  <2> QED
    BY <2>1 DEF new
<1>13. Come(c, B)'
  <2>1. \A j \in 1 .. n : flight'[j].ans # <<>> <=> g + j <= c
    <3> TAKE j \in 1 .. n
    <3>1. CASE j = i
      BY <1>4, <1>5, <1>9, <3>1
    <3>2. CASE j # i
      <4>1. flight'[j] = flight[j]
        BY <1>5, <3>2
      <4>2. g + j <= c <=> g + j <= e
        BY <1>4, <1>5, <1>9, <3>2
      <4> QED
        BY <1>6, <4>1, <4>2
    <3> QED
      BY <3>1, <3>2
  <2>2. \A k \in 1 .. c : B[k] = IF k <= g THEN got[k] ELSE flight'[k - g].ans[1]
    <3> TAKE k \in 1 .. c
    <3>1. CASE k = c
      <4>1. ~(k <= g) /\ k - g = i
        BY <1>4, <1>5, <1>9, <3>1
      <4> QED
        BY <1>12, <3>1, <4>1
    <3>2. CASE k # c
      <4>1. k \in 1 .. e /\ k - g # i
        BY <1>4, <1>5, <1>9, <3>2
      <4>2. ~(k <= g) => flight'[k - g] = flight[k - g]
        BY <1>4, <1>5, <4>1
      <4> QED
        BY <1>7, <1>12, <4>1, <4>2
    <3> QED
      BY <3>1, <3>2
  <2> QED
    BY <1>2, <1>5, <1>9, <2>1, <2>2 DEF Come, n, g
<1>14. Full(q, c, B)'
  <2>1. ASSUME NEW k \in 1 .. c, B[k].ack = "ok"
        PROVE  IsSeq(B[k].data) /\ Len(B[k].data) = Reads(Part(op, q).pk[k])
    <3>1. CASE k = c
      BY <1>5, <1>12, <2>1, <3>1
    <3>2. CASE k # c
      BY <1>1, <1>11, <1>12, <2>1, <3>2 DEF Full
    <3> QED
      BY <3>1, <3>2
  <2> QED
    BY <1>2, <2>1 DEF Full
<1>15. B[c].ack = ack /\ B[c].data = words
  BY <1>5, <1>12
<1> QED
  BY <1>3, <1>12, <1>13, <1>14, <1>15 DEF Stand

-----------------------------------------------------------------------------
(* The invariant. *)

Peaceful == \A j \in DOMAIN stages : \A i \in DOMAIN stages[j].pk : Harmless(stages[j].pk[i].acc)
Board    == DOMAIN dp.tar = APs /\ DOMAIN mem = 0 .. Top - 1 /\ Slots /\ (~Setup(op) => Legal(op))
Achieved ==
    ~late =>
        /\ busy /\ ok /\ ~Setup(op) => Doing
        /\ busy /\ (op.name # "write" \/ ~ok) => Peaceful
        /\ WorkDone /\ WrittenPrefix
Works == Whole /\ Board /\ Achieved

(* A packet of a read or a write is executed. *)
\* The link is gone.
LEMMA WordedLost ==
    ASSUME Board, OnWords(op), ~Setup(op), NEW q \in -1 .. Len(Body(op)), NEW e, e + 1 \in 1 .. Count(op, q), e \in Int,
           NEW A, Worded(q, e, A), link # "up", NEW B, B[e + 1].ack = "none", UNCHANGED <<op, data, link, mem>>
    PROVE  Worded(q, e + 1, B)'
<1>1. e + 1 \in 1 .. e + 1 /\ ~AllOk(B, e + 1)
  BY DEF AllOk
<1>2. ~Running'
  BY DEF Running
<1>3. ReadsOn(q, e + 1, B)' /\ OnTrack(q, e + 1, B)' /\ Tested(q, e + 1, B)'
  BY <1>1, <1>2 DEF Worded, ReadsOn, OnTrack, Tested
<1>4. Reached(op, q, e) <= Reached(op, q, e + 1) /\ Reached(op, q, e) \in Nat /\ Reached(op, q, e + 1) \in Nat
  <2> DEFINE k == e + 1
  <2>1. k \in 1 .. Count(op, q) /\ k - 1 = e
    OBVIOUS
  <2> HIDE DEF k
  <2>2. Legal(op)
    BY DEF Board
  <2>3. Reached(op, q, k - 1) <= Reached(op, q, k) /\ Reached(op, q, k - 1) \in Nat /\ Reached(op, q, k) \in Nat
    BY <2>1, <2>2, ReachedNext
  <2> QED
    BY <2>1, <2>3 DEF k
<1>5. ASSUME NEW b \in DOMAIN mem, mem[b] # 0
      PROVE  b < Reached(op, q, e + 1)
  <2>1. b < Reached(op, q, e) /\ b \in 0 .. Top - 1
    BY <1>5 DEF Worded, Board
  <2> QED
    BY <1>4, <2>1, SizesAssumption
<1> QED
  BY <1>3, <1>5 DEF Worded

\* What the port can do about a packet: see to it, or stand still.
Treated(st, m, stop, r) ==
    /\ DOMAIN r.dp.tar = DOMAIN dp.tar /\ DOMAIN r.mem = DOMAIN mem
    /\ Quiet(st) => r.mem = mem
    /\ stop = 0 => r.ack = "ok" \/ r.dp.sticky
    /\ dp.sticky /\ Direct(st) => r.mem = mem /\ r.dp = dp /\ r.ack # "ok"
    /\ r.ack = "ok" => IsSeq(r.data) /\ Len(r.data) = Reads(st.pk[m])
LEMMA Seen ==
    ASSUME Port(dp), NEW st, Packs(st), NEW m \in DOMAIN st.pk,
           NEW posted, NEW stop, NEW r, r = RunTransfer(st.pk[m].acc, posted, stop)
    PROVE  Treated(st, m, stop, r)
<1> DEFINE acc == st.pk[m].acc
<1>1. IsSeq(acc) /\ Len(acc) > 0 /\ WellRead(acc)
  BY DEF Packs
<1>2. Transferred(acc, stop, r)
  <2> HIDE DEF acc
  <2>1. r = RunTransfer(acc, posted, stop)
    BY DEF acc
  <2> QED
    BY <1>1, <2>1, TransferWhole
<1>3. Quiet(st) => Harmless(acc)
  BY DEF Quiet
<1>4. Direct(st) => Plain(acc)
  BY DEF Direct
<1>5. Reads(st.pk[m]) = Cardinality({j \in DOMAIN acc : acc[j][2] = Rd})
  BY DEF Reads
<1> QED
  BY <1>1, <1>2, <1>3, <1>4, <1>5 DEF Transferred, Treated

\* A stage that transfers no words: it sends one packet.
LEMMA WordedStill ==
    ASSUME Board, OnWords(op), ~Setup(op), Port(dp), CurApTrue, ~late, link = "up",
           NEW q \in -1 .. Len(Body(op)), ~Moves(q), q > 0 => cur = Needs(op), NEW A, Worded(q, 0, A),
           NEW posted, NEW stop \in Nat, NEW r, r = RunTransfer(Part(op, q).pk[1].acc, posted, stop),
           dp' = r.dp, mem' = r.mem, waited' = (waited \/ stop > 0), UNCHANGED <<op, data, link>>,
           NEW B, B[1].ack = r.ack, B[1].data = r.data
    PROVE  Worded(q, 1, B)' /\ mem' = mem
<1> DEFINE st == Part(op, q)
           acc == st.pk[1].acc
           n == Len(Body(op))
<1>1. Legal(op) /\ Needs(op) = MEM /\ OnBus(op) /\ n = 2 * Pages(op) + 1 /\ Pages(op) \in Nat \ {0}
  BY BodyLen DEF Board
<1>2. Packs(st) /\ Quiet(st) /\ (~Last(op, q) => Direct(st)) /\ 1 \in DOMAIN st.pk
  <2>1. Packs(st) /\ Quiet(st) /\ (~Last(op, q) => Direct(st))
    BY <1>1, PartIs
  <2>2. 1 \in DOMAIN st.pk
    BY <2>1, SeqShape DEF Packs
  <2> QED
    BY <2>1, <2>2
<1>4. q > 0 /\ q # n => acc = <<<<"tar", Lo(op, (q + 1) \div 2)>>>>
  <2>1. OnWords(op) /\ q > 0 /\ ~Moves(q) /\ q # n => st.pk = <<Xfer("tar", Lo(op, (q + 1) \div 2))>>
    BY <1>1, PartAt
  <2> QED
    BY <2>1, XferIs
<1>5. q = n => acc = <<<<"stat", Rd>>>>
  <2>1. Last(op, q) => st.pk = <<Xfer("stat", Rd)>>
    BY <1>1, PartAt
  <2> QED
    BY <2>1, XferIs DEF Last
<1>6. /\ r.mem = mem
      /\ stop = 0 => r.ack = "ok" \/ r.dp.sticky
      /\ dp.sticky /\ ~Last(op, q) => r.dp = dp
  <2>1. Treated(st, 1, stop, r)
    BY <1>2, Seen
  <2> QED
    BY <1>2, <2>1 DEF Treated
<1>7. q = n => r.dp = dp /\ (r.ack = "ok" => r.data = IF dp.sticky THEN <<Sticky>> ELSE <<Clean>>)
  BY <1>5, StatRun
<1>8. q > 0 /\ q # n /\ r.ack = "ok" => r.dp.tar[MEM] = Lo(op, (q + 1) \div 2)
  <2> SUFFICES ASSUME q > 0, q # n, r.ack = "ok"
               PROVE  r.dp.tar[MEM] = Lo(op, (q + 1) \div 2)
    OBVIOUS
  <2>1. dp.sel = MEM
    BY <1>1 DEF CurApTrue, MEM, NoAp
  <2>2. MEM \in DOMAIN dp.tar
    BY DEF Board, APs
  <2> DEFINE v == Lo(op, (q + 1) \div 2)
  <2>3. acc = <<<<"tar", v>>>> /\ r = RunTransfer(acc, posted, stop)
    BY <1>4
  <2> HIDE DEF v, acc
  <2>4. r.dp.tar[dp.sel] = v
    BY <2>1, <2>2, <2>3, TarRun
  <2> QED
    BY <2>1, <2>4 DEF v
<1>9. Running' => Running /\ (~waited' => r.ack = "ok")
  <2>1. ASSUME Running' PROVE ~r.dp.sticky /\ ~dp.sticky
    <3>1. ~r.dp.sticky
      BY <2>1 DEF Running
    <3>2. CASE q = n
      BY <1>7, <3>1, <3>2
    <3>3. CASE q # n
      BY <1>6, <3>1, <3>3 DEF Last
    <3> QED
      BY <3>1, <3>2, <3>3
  <2>2. ~waited' => stop = 0
    <3>1. ~waited' => ~(stop > 0)
      OBVIOUS
    <3> QED
      BY <3>1
  <2> QED
    BY <1>6, <2>1, <2>2 DEF Running
<1>10. AllOk(A, 0) /\ (AllOk(B, 1) <=> r.ack = "ok")
  BY DEF AllOk
<1>11. Reached(op, q, 1) = Reached(op, q, 0) /\ (q = n => Reached(op, q, 0) = op.a + op.n)
  BY <1>1, ReachedIs
<1>12. Running => Sound(op, Reached(op, q, 0))
  BY <1>10 DEF Worded, OnTrack
<1>13. \A x, y : x = y /\ Sound(op, x) => Sound(op, y)'
  BY <1>6 DEF Sound, Written
<1> HIDE DEF st, acc
<1>14. ReadsOn(q, 1, B)'
  BY DEF Worded, ReadsOn
<1>15. OnTrack(q, 1, B)'
  <2>1. Running' /\ AllOk(B, 1) => Sound(op, Reached(op, q, 1))'
    BY <1>9, <1>11, <1>12, <1>13
  <2> QED
    BY <1>8, <1>9, <1>10, <2>1 DEF OnTrack, n
<1>16. Tested(q, 1, B)'
  <2> SUFFICES ASSUME q = n, r.ack = "ok"
               PROVE  B[1].data \in {<<Clean>>, <<Sticky>>} /\ (B[1].data = <<Clean>> => Sound(op, op.a + op.n)')
    BY <1>10 DEF Tested, n
  <2>1. CASE dp.sticky
    <3>1. <<Sticky>> # <<Clean>>
      BY DEF Sticky, Clean
    <3> QED
      BY <1>7, <2>1, <3>1
  <2>2. CASE ~dp.sticky
    <3>1. Sound(op, op.a + op.n)'
      BY <1>11, <1>12, <1>13, <2>2 DEF Running
    <3> QED
      BY <1>7, <2>2, <3>1
  <2> QED
    BY <2>1, <2>2
<1>17. \A b \in DOMAIN mem' : mem'[b] # 0 => b < Reached(op, q, 1)
  BY <1>6, <1>11 DEF Worded
<1> QED
  BY <1>6, <1>14, <1>15, <1>16, <1>17 DEF Worded

\* B has the answers of A to the first e packets.
Extends(B, A, e) == \A k \in 1 .. e : B[k] = A[k]

\* A stage that transfers the words of a page: packet e + 1 of it.
LEMMA WordedMoves ==
    ASSUME Board, OnWords(op), ~Setup(op), Port(dp), CurApTrue, ~late, link = "up", WrittenPrefix,
           NEW q \in -1 .. Len(Body(op)), Moves(q), cur = Needs(op),
           NEW e \in Nat, e + 1 \in 1 .. Count(op, q), NEW A, Worded(q, e, A),
           NEW posted, NEW stop \in Nat, NEW r, r = RunTransfer(Part(op, q).pk[e + 1].acc, posted, stop),
           dp' = r.dp, mem' = r.mem, waited' = (waited \/ stop > 0), op' = op, data' = data, link' = link, late' = late,
           NEW B, Extends(B, A, e), B[e + 1].ack = r.ack, B[e + 1].data = r.data
    PROVE  Worded(q, e + 1, B)' /\ WrittenPrefix'
<1> USE DEF Extends
<1> DEFINE i == q \div 2
           st == Part(op, q)
           m == e + 1
           acc == st.pk[m].acc
<1>1. Legal(op) /\ Needs(op) = MEM /\ OnBus(op) /\ Pages(op) \in Nat \ {0}
      /\ Len(Body(op)) = 2 * Pages(op) + 1 /\ q \in -1 .. 2 * Pages(op) + 1
  BY BodyLen DEF Board
<1>2. i \in 1 .. Pages(op) /\ q # Len(Body(op)) /\ st = Repeat(op, Lo(op, i), Hi(op, i))
  BY <1>1, PartAt
<1>3. \A x : Reached(op, q, x) = Through(op, i, x)
  BY <1>1, ReachedIs
<1>4. Packs(st) /\ (op.name # "write" => Quiet(st)) /\ Direct(st)
  BY <1>1, <1>2, PartIs DEF Last
<1>5. q > 0
  BY DEF Moves
<1>6. m \in 1 .. Count(op, q) /\ Count(op, q) = Len(st.pk) /\ m \in Nat /\ m - 1 = e
  BY DEF Count
<1>7. m \in DOMAIN st.pk
  BY <1>4, <1>6, SeqShape DEF Packs
<1> HIDE DEF st, i, m
<1>8. Treated(st, m, stop, r)
  BY <1>4, <1>7, Seen DEF st, m
<1>9. /\ Len(st.pk) = Packets(op, i)
      /\ \A x \in 1 .. Packets(op, i) :
           /\ IsSeq(st.pk[x].acc) /\ Len(st.pk[x].acc) = Through(op, i, x) - Through(op, i, x - 1)
           /\ \A j \in DOMAIN st.pk[x].acc : st.pk[x].acc[j] = Word(op, Through(op, i, x - 1) + j - 1)
  <2>1. Len(st.pk) = Packets(op, i)
    BY <1>1, <1>2, WordsStage
  <2>2. \A x \in 1 .. Packets(op, i) : WordsPacket(op, i, x, st.pk[x])
    BY <1>1, <1>2, WordsStage
  <2> QED
    BY <2>1, <2>2 DEF WordsPacket
<1>10. m \in 1 .. Packets(op, i)
  BY <1>6, <1>9
<1> DEFINE lo == Through(op, i, m - 1)
           th == Through(op, i, m)
           hi == Hi(op, i)
           a == op.a
<1>11. IsSeq(acc) /\ Len(acc) = th - lo /\ DOMAIN acc = 1 .. th - lo /\ \A j \in DOMAIN acc : acc[j] = Word(op, lo + j - 1)
  <2>1. IsSeq(acc) /\ Len(acc) = th - lo /\ \A j \in DOMAIN acc : acc[j] = Word(op, lo + j - 1)
    BY <1>9, <1>10
  <2> QED
    BY <2>1, SeqShape
<1>12. lo \in Nat /\ th \in Nat /\ Lo(op, i) \in Nat /\ hi \in Nat /\ Lo(op, i) <= lo /\ lo < th /\ th <= hi
       /\ a \in Nat /\ a <= Lo(op, i) /\ hi <= a + op.n /\ op.n \in Nat /\ hi <= Top
  <2>1. lo \in Nat /\ th \in Nat /\ Lo(op, i) <= lo /\ lo < th /\ th <= hi
    BY <1>1, <1>2, <1>10, ThroughIs
  <2>2. Lo(op, i) \in Nat /\ hi \in Nat /\ a <= Lo(op, i) /\ hi <= a + op.n
    BY <1>1, <1>2, PagesAre
  <2>3. a \in Nat /\ op.n \in Nat /\ a + op.n <= Top
    BY <1>1 DEF OnBus
  <2> QED
    BY <2>1, <2>2, <2>3, SizesAssumption
<1>13. Reached(op, q, e) = lo /\ Reached(op, q, m) = th
  BY <1>3, <1>6
<1>14. ASSUME NEW j \in DOMAIN acc
       PROVE  /\ acc[j][1] = "drw"
              /\ op.name = "read" => acc[j][2] = Rd
              /\ op.name = "write" => acc[j][2] = lo + j - 1 - a + 1 /\ acc[j][2] # Rd
  <2> DEFINE t == lo + j - 1
  <2>1. t \in Nat /\ a <= t /\ acc[j] = Word(op, t)
    <3>1. j \in Nat /\ j >= 1 /\ acc[j] = Word(op, t)
      BY <1>11
    <3>2. lo \in Nat /\ a \in Nat /\ a <= lo
      BY <1>12
    <3> HIDE DEF acc, lo, a
    <3>3. t \in Nat /\ a <= t
      BY <3>1, <3>2
    <3> QED
      BY <3>1, <3>3
  <2> HIDE DEF t
  <2>2. /\ Word(op, t)[1] = "drw"
        /\ op.name = "read" => Word(op, t)[2] = Rd
        /\ op.name = "write" => Word(op, t)[2] = t - op.a + 1 /\ Word(op, t)[2] # Rd
    BY <1>12, <2>1, WordIs
  <2> HIDE DEF acc, lo, a
  <2>3. /\ acc[j][1] = "drw"
        /\ op.name = "read" => acc[j][2] = Rd
        /\ op.name = "write" => acc[j][2] = t - a + 1 /\ acc[j][2] # Rd
    BY <2>1, <2>2 DEF a
  <2>4. t = lo + j - 1
    BY DEF t
  <2>5. t - a + 1 = lo + j - 1 - a + 1
    <3>1. t \in Nat /\ a \in Nat /\ lo \in Nat /\ j \in Nat
      BY <1>11, <1>12, <2>1
    <3> QED
      BY <2>4, <3>1
  <2> QED
    BY <2>3, <2>5
<1>15. AllOk(B, m) <=> AllOk(A, e) /\ r.ack = "ok"
  <2>1. \A k \in 1 .. m : k = m \/ k \in 1 .. e
    BY <1>6
  <2>2. m \in 1 .. m /\ \A k \in 1 .. e : k \in 1 .. m
    BY <1>6
  <2>3. B[m].ack = r.ack
    BY DEF m
  <2> QED
    BY <2>1, <2>2, <2>3 DEF AllOk
<1>16. op.name \in {"read", "write"} /\ op.name # "batch"
  BY DEF OnWords
<1>17. DOMAIN mem = 0 .. Top - 1 /\ DOMAIN mem' = DOMAIN mem /\ MEM \in DOMAIN dp.tar
  BY <1>8 DEF Board, APs, Treated
<1>18. Tested(q, m, B)'
  BY <1>2 DEF Tested
<1>19. ASSUME NEW b \in DOMAIN mem, mem[b] # 0 PROVE b < lo /\ b \in Nat
  BY <1>13, <1>17, <1>19 DEF Worded
<1>20. stop = 0 => r.ack = "ok" \/ r.dp.sticky
  BY <1>8 DEF Treated
<1>21. ~waited' => ~waited /\ stop = 0
  <2>1. ~waited' => ~(stop > 0) /\ ~waited
    OBVIOUS
  <2> QED
    BY <2>1
<1> HIDE DEF acc
<1>22. CASE dp.sticky
  <2>1. r.mem = mem /\ r.dp = dp /\ r.ack # "ok"
    BY <1>4, <1>8, <1>22 DEF Treated
  <2>2. ~Running' /\ ~AllOk(B, m)
    BY <1>15, <1>22, <2>1 DEF Running
  <2>3. ReadsOn(q, m, B)' /\ OnTrack(q, m, B)'
    BY <2>2 DEF Worded, ReadsOn, OnTrack
  <2>4. \A b \in DOMAIN mem' : mem'[b] # 0 => b < Reached(op, q, m)
    <3>1. \A b \in Nat : b < lo => b < th
      BY <1>12
    <3> HIDE DEF lo, th
    <3> QED
      BY <1>13, <1>19, <2>1, <3>1
  <2>5. WrittenPrefix'
    <3>1. mem' = mem /\ op' = op /\ (~waited' => ~waited) /\ late' = late
      BY <1>21, <2>1
    <3> QED
      BY <3>1 DEF WrittenPrefix, Asked
  <2> QED
    BY <1>18, <2>3, <2>4, <2>5 DEF Worded, m
<1>23. CASE ~dp.sticky
  <2>1. Running
    BY <1>23 DEF Running
  <2>2. OnTrack(q, e, A)
    BY DEF Worded
  <2>3. PICK c \in Lo(op, i) .. lo : (AllOk(A, e) => c = lo) /\ (c < hi => dp.tar[MEM] = c)
    <3>1. Cursor(q, e, A)
      BY <2>1, <2>2 DEF OnTrack
    <3> QED
      BY <1>13, <3>1 DEF Cursor, i
  <2>4. c \in Nat /\ a <= c /\ c <= lo /\ c + Len(acc) <= hi /\ c + (th - lo) <= th /\ Len(acc) = th - lo /\ Len(acc) \in Nat
    <3>1. c \in Nat /\ a <= c /\ c <= lo /\ c + (th - lo) <= th /\ c + (th - lo) <= hi /\ th - lo \in Nat
      <4> DEFINE b == Lo(op, i)
      <4>1. b \in Nat /\ lo \in Nat /\ th \in Nat /\ hi \in Nat /\ a \in Nat
            /\ a <= b /\ b <= c /\ c <= lo /\ lo < th /\ th <= hi /\ c \in Int
        BY <1>12, <2>3
      <4> HIDE DEF lo, th, hi, a, b
      <4> QED
        BY <4>1
    <3> QED
      BY <1>11, <3>1 DEF acc
  <2>5. \A t \in Nat : c <= t /\ t + 1 < hi => Onward(t) = t + 1
    <3>1. \A t \in Nat : Lo(op, i) <= t /\ t + 1 < Hi(op, i) => Onward(t) = t + 1
      BY <1>1, <1>2, PagesAre
    <3>2. \A t \in Nat : c <= t => Lo(op, i) <= t
      <4> HIDE DEF lo
      <4> QED
        BY <1>12, <2>3
    <3> QED
      BY <3>1, <3>2
  <2>6. dp.sel = MEM /\ MEM \in dp.incr
    BY <1>1 DEF CurApTrue, MEM, NoAp
  <2>7. r = RunTransfer(acc, posted, stop) /\ IsSeq(acc) /\ \A j \in DOMAIN acc : acc[j][1] = "drw"
    BY <1>11, <1>14 DEF acc, m, st
  <2>8. PICK d \in 0 .. Len(acc), w \in 0 .. Len(acc) :
          w <= d /\ Moved(r, acc, c, hi, d, w) /\ (r.ack = "ok" => d = Len(acc))
    <3> HIDE DEF hi, lo, a, th
    <3>1. hi \in Nat /\ hi <= Top /\ c + Len(acc) <= hi /\ c \in Nat
      BY <1>12, <2>4
    <3>2. c < hi => dp.tar[MEM] = c
      BY <2>3
    <3>3. Blocked(acc, c, hi, r)
      BY <1>17, <1>23, <2>5, <2>6, <2>7, <3>1, <3>2, BlockRun
    <3> QED
      BY <3>3 DEF Blocked
  <2> DEFINE l == th - lo
  <2>9. /\ ~r.dp.sticky => /\ w = d /\ (c + d < hi => r.dp.tar[MEM] = c + d)
                           /\ \A b \in c .. c + d - 1 : b \notin BadWords
        /\ (\A j \in DOMAIN acc : acc[j][2] = Rd) => r.data = Span(c, c + d)
        /\ (\A j \in DOMAIN acc : acc[j][2] # Rd) =>
             \A b \in DOMAIN mem : r.mem[b] = IF b \in c .. c + w - 1 THEN acc[b - c + 1][2] ELSE mem[b]
    BY <2>8 DEF Moved
  <2>10. d \in 0 .. l /\ w \in 0 .. l /\ w <= d /\ (r.ack = "ok" => d = l) /\ l \in Nat /\ c + l <= th /\ c + l <= hi
    BY <2>4, <2>8
  <2>11. AllOk(B, m) => c = lo /\ d = l /\ c + d = th
    <3>1. AllOk(B, m) => c = lo /\ d = l
      BY <1>15, <2>3, <2>10
    <3>2. lo + l = th
      <4> HIDE DEF lo, th
      <4> QED
        BY <1>12
    <3> HIDE DEF l, lo, th
    <3> QED
      BY <3>1, <3>2
  <2>12. op.name = "write" =>
           \A b \in DOMAIN mem : mem'[b] = IF b \in c .. c + w - 1 THEN lo + (b - c + 1) - 1 - a + 1 ELSE mem[b]
    <3> SUFFICES ASSUME op.name = "write", NEW b \in DOMAIN mem
                 PROVE  mem'[b] = IF b \in c .. c + w - 1 THEN lo + (b - c + 1) - 1 - a + 1 ELSE mem[b]
      OBVIOUS
    <3>1. \A j \in DOMAIN acc : acc[j][2] # Rd
      BY <1>14
    <3>2. mem'[b] = IF b \in c .. c + w - 1 THEN acc[b - c + 1][2] ELSE mem[b]
      BY <2>9, <3>1
    <3>3. ASSUME b \in c .. c + w - 1 PROVE b - c + 1 \in DOMAIN acc
      <4> HIDE DEF l
      <4>1. b - c + 1 \in 1 .. l
        BY <2>4, <2>10, <3>3
      <4> QED
        BY <1>11, <4>1 DEF l, acc
    <3> QED
      BY <1>14, <3>2, <3>3
  <2>13. op.name = "read" => mem' = mem
    BY <1>4, <1>8 DEF Treated
  <2>14. op.name = "read" => r.data = Span(c, c + d)
    BY <1>14, <2>9
  <2>15. Running' => ~r.dp.sticky /\ w = d /\ (~waited' => AllOk(B, m))
    <3>1. Running' => ~r.dp.sticky
      BY DEF Running
    <3>2. ~waited => AllOk(A, e)
      BY <2>1, <2>2 DEF OnTrack
    <3> QED
      BY <1>15, <1>20, <1>21, <2>9, <3>1, <3>2
  <2>16. AllOk(A, e) => Sound(op, lo)
    BY <1>13, <2>1, <2>2 DEF OnTrack
  <2> HIDE DEF l, th, lo, hi, a
  <2>17. ReadsOn(q, m, B)'
    <3>1. data' = IF op'.name = "read" THEN Span(op'.a, Reached(op', q, 0)) ELSE <<>>
      BY DEF Worded, ReadsOn
    <3>2. ASSUME op.name = "read", AllOk(B, m), NEW k \in 1 .. m
          PROVE  B[k].data = Span(Reached(op, q, k - 1), Reached(op, q, k))
      <4>1. CASE k = m
        <5>1. B[m].data = r.data
          BY DEF m
        <5>2. Reached(op, q, m - 1) = lo
          BY <1>6, <1>13
        <5> QED
          BY <1>13, <2>11, <2>14, <3>2, <4>1, <5>1, <5>2
      <4>2. CASE k # m
        <5>1. k \in 1 .. e
          BY <1>6, <4>2
        <5>2. A[k].data = Span(Reached(op, q, k - 1), Reached(op, q, k))
          BY <1>15, <3>2, <5>1 DEF Worded, ReadsOn
        <5> QED
          BY <5>1, <5>2
      <4> QED
        BY <4>1, <4>2
    <3> QED
      BY <3>1, <3>2 DEF ReadsOn
  <2>18. ASSUME Running' PROVE Cursor(q, m, B)'
    <3> DEFINE z == c + d
    <3>1. z \in Lo(op, i) .. th
      BY <1>12, <2>3, <2>4, <2>10
    <3>2. AllOk(B, m) => z = th
      BY <2>11
    <3>3. z < hi => dp'.tar[MEM] = z
      BY <2>9, <2>15, <2>18
    <3> HIDE DEF z
    <3>4. z \in Lo(op, q \div 2) .. Reached(op, q, m) /\ (AllOk(B, m) => z = Reached(op, q, m))
          /\ (z < Hi(op, q \div 2) => dp'.tar[MEM] = z)
      BY <1>13, <3>1, <3>2, <3>3 DEF i, hi
    <3> QED
      BY <3>4 DEF Cursor
  <2>19. ASSUME op.name = "write", AllOk(A, e), NEW b \in c .. c + w - 1
         PROVE  mem'[b] = b - a + 1
    <3>1. c = lo
      BY <2>3, <2>19
    <3>2. b \in DOMAIN mem
      BY <1>12, <1>17, <2>4, <2>10, SizesAssumption
    <3>3. mem'[b] = lo + (b - c + 1) - 1 - a + 1
      BY <2>12, <2>19, <3>2
    <3>4. lo + (b - c + 1) - 1 - a + 1 = b - a + 1
      BY <1>12, <2>4, <3>1
    <3> QED
      BY <3>3, <3>4
  <2>20. ASSUME op.name = "write", AllOk(A, e), NEW b \in a .. c + w - 1
         PROVE  mem'[b] = b - a + 1
    <3>1. CASE b \in c .. c + w - 1
      BY <2>19, <2>20, <3>1
    <3>2. CASE b \notin c .. c + w - 1
      <4>1. c = lo
        BY <2>3, <2>20
      <4>2. b \in a .. lo - 1 /\ b \in DOMAIN mem
        BY <1>12, <1>17, <2>4, <2>10, <3>2, <4>1, SizesAssumption
      <4>3. mem[b] = b - a + 1
        BY <2>16, <2>20, <4>2 DEF Sound, Written, a
      <4> QED
        BY <2>12, <2>20, <3>2, <4>2, <4>3
    <3> QED
      BY <3>1, <3>2
  <2>21. ASSUME Running', AllOk(B, m), NEW h, h = th PROVE Sound(op, h)'
    <3>1. w = d /\ AllOk(A, e) /\ c = lo /\ c + d = th
      BY <1>15, <2>11, <2>15, <2>21
    <3>2. op.name = "write" => \A b \in a .. th - 1 : mem'[b] = b - a + 1
      BY <2>20, <3>1
    <3>3. \A b \in a .. th - 1 : b \notin BadWords
      <4> TAKE b \in a .. th - 1
      <4>1. CASE b \in c .. c + d - 1
        BY <2>9, <2>15, <2>21, <4>1
      <4>2. CASE b \notin c .. c + d - 1
        <5>1. b \in a .. lo - 1
          BY <1>12, <3>1, <4>2
        <5> QED
          BY <2>16, <3>1, <5>1 DEF Sound, a
      <4> QED
        BY <4>1, <4>2
    <3> QED
      BY <2>21, <3>2, <3>3 DEF Sound, Written, a
  <2>22. OnTrack(q, m, B)'
    <3>1. Running' /\ AllOk(B, m) => Sound(op, Reached(op, q, m))'
      BY <1>13, <2>21
    <3> QED
      BY <2>15, <2>18, <3>1 DEF OnTrack
  <2>23. \A b \in DOMAIN mem' : mem'[b] # 0 => b < Reached(op, q, m)
    <3> SUFFICES ASSUME NEW b \in DOMAIN mem, mem'[b] # 0 PROVE b < th
      BY <1>13, <1>17
    <3>1. CASE mem[b] # 0
      BY <1>12, <1>19, <3>1
    <3>2. CASE mem[b] = 0
      <4>1. op.name = "write"
        BY <1>16, <2>13, <3>2
      <4>2. b \in c .. c + w - 1
        BY <2>12, <3>2, <4>1
      <4> QED
        BY <1>12, <2>4, <2>10, <4>2
    <3> QED
      BY <3>1, <3>2
  <2>24. WrittenPrefix'
    <3> SUFFICES ASSUME NEW b \in DOMAIN mem, mem'[b] # 0
                 PROVE  /\ op.name = "write" /\ b \in Asked
                        /\ ~waited' => \A x \in a .. b : mem'[x] = x - a + 1
      BY <1>17 DEF WrittenPrefix, Asked, a
    <3>1. mem[b] # 0 => op.name = "write" /\ b \in Asked
      BY DEF WrittenPrefix
    <3>2. CASE op.name = "read"
      BY <2>13, <3>1, <3>2
    <3>3. CASE op.name = "write"
      <4>1. mem[b] = 0 => b \in c .. c + w - 1
        BY <2>12, <3>3
      <4>2. \A x \in c .. c + w - 1 : x \in a .. a + op.n - 1
        <5> DEFINE v == op.n
        <5>1. a \in Nat /\ v \in Nat /\ c \in Nat /\ w \in Nat /\ a <= c /\ c + w <= a + v
          BY <1>12, <2>4, <2>10
        <5> HIDE DEF v
        <5>2. \A x \in c .. c + w - 1 : x \in a .. a + v - 1
          BY <5>1
        <5> QED
          BY <5>2 DEF v
      <4>3. b \in Asked
        BY <3>1, <4>1, <4>2 DEF Asked, a
      <4>4. ASSUME ~waited', NEW x \in a .. b PROVE mem'[x] = x - a + 1
        <5>1. AllOk(A, e) /\ c = lo
          BY <1>21, <2>1, <2>2, <2>3, <4>4 DEF OnTrack
        <5>2. b < c + w /\ b \in Int
          <6>1. mem[b] # 0 => b < lo /\ b \in Nat
            BY <1>19
          <6>2. b \in c .. c + w - 1 => b < c + w /\ b \in Int
            BY <2>4, <2>10
          <6>3. lo <= c + w
            BY <1>12, <2>10, <5>1
          <6>4. mem[b] # 0 => b < c + w /\ b \in Int
            BY <1>12, <2>4, <2>10, <6>1, <6>3
          <6> QED
            BY <4>1, <6>2, <6>4
        <5>3. x \in a .. c + w - 1
          BY <1>12, <2>4, <2>10, <5>2
        <5> QED
          BY <2>20, <3>3, <5>1, <5>3
      <4> QED
        BY <3>3, <4>3, <4>4
    <3> QED
      BY <1>16, <3>2, <3>3
  <2> QED
    BY <1>18, <2>17, <2>22, <2>23, <2>24 DEF Worded, m
<1> QED
  BY <1>22, <1>23

(* A packet of a batch is executed. *)
LEMMA ListedLost ==
    ASSUME NEW q, NEW e \in Nat, NEW A, Listed(q, e, A), NEW B, B[e + 1].ack # "ok", UNCHANGED <<op, data>>
    PROVE  Listed(q, e + 1, B)'
<1>1. ~AllOk(B, e + 1)
  <2>1. e + 1 \in 1 .. e + 1
    OBVIOUS
  <2> QED
    BY <2>1 DEF AllOk
<1> QED
  BY <1>1 DEF Listed

LEMMA ListedRun ==
    ASSUME Board, op.name = "batch", ~Setup(op), Port(dp), CurApTrue, ~late, link = "up",
           NEW q \in -1 .. Len(Body(op)), q > 0 => cur = Needs(op),
           NEW e \in Nat, e + 1 \in 1 .. Count(op, q), NEW A, Listed(q, e, A),
           NEW posted, NEW stop \in Nat, NEW r, r = RunTransfer(Part(op, q).pk[e + 1].acc, posted, stop),
           dp' = r.dp, UNCHANGED <<op, data, link>>,
           NEW B, \A k \in 1 .. e : B[k] = A[k], B[e + 1].ack = r.ack, B[e + 1].data = r.data
    PROVE  Listed(q, e + 1, B)'
<1> DEFINE st == Part(op, q)
           m == e + 1
           acc == st.pk[m].acc
           regs == op.regs
           g == Cut(op, m - 1)
           h == Cut(op, m)
<1>1. Legal(op) /\ Needs(op) = DM /\ IsSeq(op.regs) /\ Len(op.regs) > 0
  BY BodyLen, LegalIs DEF Board
<1>2. CASE r.ack # "ok"
  BY <1>2, ListedLost
<1>3. CASE q # 1
  BY <1>3 DEF Listed
<1>4. CASE q = 1 /\ r.ack = "ok" /\ ~AllOk(A, e)
  <2>1. ~AllOk(B, m)
    BY <1>4 DEF AllOk
  <2> QED
    BY <2>1 DEF Listed
<1>5. CASE q = 1 /\ r.ack = "ok" /\ AllOk(A, e)
  <2>1. st = BatchOf(op) /\ Packs(st) /\ Direct(st)
    <3>1. st = BatchOf(op)
      BY <1>1, <1>5, PartAt
    <3> QED
      BY <1>1, <3>1, BatchPacks
  <2>2. Len(st.pk) = Cuts(op) /\ IsSeq(st.pk)
    BY <1>1, <2>1, BatchStage
  <2>3. m \in 1 .. Cuts(op) /\ m \in DOMAIN st.pk /\ m - 1 = e
    BY <2>2, SeqShape DEF Count
  <2>4. IsSeq(acc) /\ Len(acc) = h - g /\ \A j \in DOMAIN acc : acc[j] = Batched(regs, g + j)
    <3> HIDE DEF m, st
    <3>1. BatchPacket(op, m, st.pk[m])
      BY <1>1, <2>1, <2>3, BatchStage
    <3> QED
      BY <3>1 DEF BatchPacket
  <2>5. Cut(op, 0) = 0 /\ g \in Nat /\ h \in Nat /\ g < h
    <3> HIDE DEF m
    <3> QED
      BY <1>1, <2>3, CutIs
  <2>6. Treated(st, m, stop, r)
    <3> HIDE DEF st
    <3>1. r = RunTransfer(st.pk[m].acc, posted, stop)
      BY DEF st
    <3> HIDE DEF m
    <3> QED
      BY <2>1, <2>3, <3>1, Seen
  <2>7. ~dp.sticky
    BY <1>5, <2>1, <2>6 DEF Treated
  <2>8. Running
    BY <2>7 DEF Running
  <2>9. \A k \in 1 .. e : A[k].data = Piece(Table(regs), Cut(op, k - 1) \div 2, Cut(op, k) \div 2)
    BY <1>5 DEF Listed
  <2>10. e > 0 => dp.tar[DM] = regs[(g + 1) \div 2]
    BY <1>5, <2>3, <2>8 DEF Listed
  <2>11. dp.sel = DM /\ DM \notin dp.incr /\ DM \in DOMAIN dp.tar
    <3>1. cur = DM
      BY <1>1, <1>5
    <3> QED
      BY <3>1 DEF CurApTrue, DM, MEM, NoAp, Board, APs
  <2>12. g > 0 => e > 0
    <3>1. e = 0 => g = 0
      BY <2>5
    <3> QED
      BY <2>5, <3>1
  <2>13. r = RunTransfer(acc, posted, stop)
    OBVIOUS
  <2> HIDE DEF g, h, acc, st, regs, m
  <2>14. BatchedTo(r, regs, g, Len(acc))
    BY <2>4, <2>5, <2>7, <2>10, <2>11, <2>12, <2>13, BatchRun
  <2>15. g + Len(acc) = h /\ h > 0
    BY <2>4, <2>5
  <2>16. r.dp.tar[DM] = regs[(h + 1) \div 2] /\ r.data = Piece(Table(regs), g \div 2, h \div 2)
    BY <1>5, <2>14, <2>15 DEF BatchedTo
  <2>17. ASSUME NEW k \in 1 .. m
         PROVE  B[k].data = Piece(Table(regs), Cut(op, k - 1) \div 2, Cut(op, k) \div 2)
    <3>1. CASE k = m
      <4>1. B[m].data = r.data
        BY DEF m
      <4>2. g = Cut(op, k - 1) /\ h = Cut(op, k)
        BY <3>1 DEF g, h
      <4> QED
        BY <2>16, <3>1, <4>1, <4>2
    <3>2. CASE k # m
      <4>1. k \in 1 .. e
        BY <3>2 DEF m
      <4> QED
        BY <2>9, <4>1
    <3> QED
      BY <3>1, <3>2
  <2>18. dp'.tar[DM] = op.regs[(Cut(op, m) + 1) \div 2]
    BY <2>16 DEF h, regs
  <2>19. data' = <<>>
    BY DEF Listed
  <2> QED
    BY <2>17, <2>18, <2>19 DEF Listed, regs, m
<1> QED
  BY <1>2, <1>3, <1>4, <1>5

(* The probe. *)
LEMMA TransferDoes ==
    ASSUME NEW i, Transfer(i), link = "up", IsSeq(flight[i].pkt.acc)
    PROVE  \E posted, stop, r : /\ stop \in Nat /\ r = RunTransfer(flight[i].pkt.acc, posted, stop)
                                /\ dp' = r.dp /\ mem' = r.mem /\ waited' = (waited \/ stop > 0)
                                /\ Answer(i, r.ack, r.done, r.data)
<1>1. PICK posted \in BOOLEAN, stop \in 0 .. Len(flight[i].pkt.acc) :
        LET r == RunTransfer(flight[i].pkt.acc, posted, stop)
        IN  dp' = r.dp /\ mem' = r.mem /\ waited' = (waited \/ stop > 0) /\ Answer(i, r.ack, r.done, r.data)
  BY DEF Transfer
<1>2. stop \in Nat
  BY SeqShape
<1> QED
  BY <1>1, <1>2

\* Nothing is written on the bus.
LEMMA PrefixKept ==
    ASSUME WrittenPrefix, UNCHANGED <<op, mem>>, late' = late, waited => waited'
    PROVE  WrittenPrefix'
BY DEF WrittenPrefix, Asked

LEMMA ExecuteBoard ==
    ASSUME Whole, Board, Execute
    PROVE  Board'
<1>1. PICK i \in DOMAIN flight : Pending(i) /\ (Transfer(i) \/ Abort(i) \/ LineReset(i) \/ Setting(i))
  BY DEF Execute
<1>2. op' = op
  BY DEF Execute, host
<1>3. Port(dp) /\ IsSeq(flight[i].pkt.acc) /\ IsSeq(flight)
  BY SeqShape DEF Whole, Orderly, Pipe
<1>4. \E ack, done, words : Answer(i, ack, done, words)
  BY <1>1 DEF Transfer, Abort, LineReset, Setting
<1>5. Slots'
  BY <1>3, <1>4, AnswerSlots DEF Board
<1>6. DOMAIN dp'.tar = DOMAIN dp.tar /\ DOMAIN mem' = DOMAIN mem
  <2>1. CASE Transfer(i) /\ link = "up"
    <3>1. PICK posted, stop, r : r = RunTransfer(flight[i].pkt.acc, posted, stop) /\ dp' = r.dp /\ mem' = r.mem
      BY <1>3, <2>1, TransferDoes
    <3> DEFINE acc == flight[i].pkt.acc
    <3>2. r = RunTransfer(acc, posted, stop) /\ IsSeq(acc)
      BY <1>3, <3>1
    <3> HIDE DEF acc
    <3>3. Transferred(acc, stop, r)
      BY <1>3, <3>2, TransferWhole
    <3> QED
      BY <3>1, <3>3 DEF Transferred
  <2>2. CASE mem' = mem /\ dp' = dp
    BY <2>2
  <2>3. CASE mem' = mem /\ dp' = [dp EXCEPT !.sticky = FALSE]
    BY <1>3, <2>3 DEF Port
  <2> QED
    BY <1>1, <2>1, <2>2, <2>3 DEF Transfer, Abort, LineReset, Setting
<1> QED
  BY <1>2, <1>5, <1>6 DEF Board, Legal, Setup, OnWords, OnBus

\* An operation that writes nothing.
LEMMA ExecutePeaceful ==
    ASSUME Whole, ~late, busy, Peaceful, WrittenPrefix, Execute
    PROVE  Peaceful' /\ WrittenPrefix'
<1>1. PICK i \in DOMAIN flight : Pending(i) /\ (Transfer(i) \/ Abort(i) \/ LineReset(i) \/ Setting(i))
  BY DEF Execute
<1>2. UNCHANGED <<op, stages, late>>
  BY DEF Execute, host
<1>3. Matched
  BY DEF Whole, IInv
<1>4. Port(dp) /\ IsSeq(flight[i].pkt.acc) /\ IsSeq(flight) /\ i \in 1 .. Len(flight) /\ Len(flight) \in Nat
  BY SeqShape DEF Whole, Orderly, Pipe
<1>5. Harmless(flight[i].pkt.acc)
  <2>1. /\ IsSeq(stages) /\ stages # <<>> /\ IsSeq(Head(stages).pk) /\ IsSeq(got) /\ sent \in 0 .. Len(Head(stages).pk)
        /\ sent = Len(got) + Len(flight) /\ flight[i].pkt = Head(stages).pk[Len(got) + i]
    BY <1>3, <1>4, FirstOK DEF Matched, StagesOK
  <2>2. DOMAIN Head(stages).pk = 1 .. Len(Head(stages).pk) /\ Len(Head(stages).pk) \in Nat /\ Len(got) \in Nat
    BY <2>1, SeqShape
  <2>3. Len(got) + i \in DOMAIN Head(stages).pk
    <3> DEFINE n == Len(Head(stages).pk)
               g == Len(got)
               m == Len(flight)
    <3>1. g \in Nat /\ m \in Nat /\ n \in Nat /\ g + m <= n /\ i \in 1 .. m
      BY <1>4, <2>1, <2>2
    <3> HIDE DEF n, g, m
    <3>2. g + i \in 1 .. n
      BY <3>1
    <3> QED
      BY <2>2, <3>2 DEF n, g
  <2>4. Head(stages) = stages[1] /\ Len(stages) > 0 /\ 1 \in DOMAIN stages
    BY <2>1, TailSeq, SeqShape
  <2> QED
    BY <2>1, <2>3, <2>4 DEF Peaceful
<1>6. mem' = mem /\ (waited => waited')
  <2>1. CASE Transfer(i) /\ link = "up"
    <3>1. PICK posted, stop, r : /\ r = RunTransfer(flight[i].pkt.acc, posted, stop)
                                 /\ mem' = r.mem /\ waited' = (waited \/ stop > 0)
      BY <1>4, <2>1, TransferDoes
    <3> DEFINE acc == flight[i].pkt.acc
    <3>2. r = RunTransfer(acc, posted, stop) /\ IsSeq(acc) /\ Harmless(acc)
      BY <1>4, <1>5, <3>1
    <3> HIDE DEF acc
    <3>3. Transferred(acc, stop, r)
      BY <1>4, <3>2, TransferWhole
    <3> QED
      BY <3>1, <3>2, <3>3 DEF Transferred
  <2>2. CASE mem' = mem /\ waited' = waited
    BY <2>2
  <2> QED
    BY <1>1, <2>1, <2>2 DEF Transfer, Abort, LineReset, Setting
<1>7. WrittenPrefix'
  BY <1>2, <1>6, PrefixKept
<1> QED
  BY <1>2, <1>7 DEF Peaceful

\* An operation that goes well.
LEMMA ExecuteDoing ==
    ASSUME Whole, Board, ~late, busy, ok, ~Setup(op), Doing, WrittenPrefix, Execute
    PROVE  Doing' /\ WrittenPrefix'
<1>1. PICK i \in DOMAIN flight : Pending(i) /\ (Transfer(i) \/ Abort(i) \/ LineReset(i) \/ Setting(i))
  BY DEF Execute
<1>2. UNCHANGED <<op, stages, data, cur, late>> /\ UNCHANGED host
  BY DEF Execute, host
<1>3. PICK q \in -1 .. Len(Body(op)) : \E e, A : Stand(q, e, A) /\ Does(q, e, A)
  BY DEF Doing
<1>4. PICK e, A : Stand(q, e, A) /\ Does(q, e, A)
  BY <1>3
<1>5. Doer(q, e, A) /\ Legal(op) /\ Slots /\ CurApTrue
  BY <1>4 DEF Doer, Board, Whole, IInv
<1>6. flight[i].pkt = Part(op, q).pk[e + 1] /\ e + 1 \in 1 .. Count(op, q) /\ e \in Nat
  BY <1>1, <1>5, PendingIs
<1>7. Packs(Part(op, q)) /\ e + 1 \in DOMAIN Part(op, q).pk
  <2>1. Packs(Part(op, q))
    BY <1>5, PartIs
  <2> QED
    BY <1>6, <2>1, SeqShape DEF Packs, Count
<1> DEFINE p == Part(op, q).pk[e + 1]
<1>8. p.cmd \in {"xfer", "block"} /\ IsSeq(p.acc)
  BY <1>7 DEF Packs
<1>9. Transfer(i) /\ link' = link
  <2>1. flight[i].pkt.cmd \in {"xfer", "block"}
    BY <1>6, <1>8
  <2> QED
    BY <1>1, <2>1 DEF Transfer, Abort, LineReset, Setting
<1>10. Port(dp)
  BY DEF Whole, Orderly
<1>11. q > 0 => cur = Needs(op)
  BY <1>4 DEF Stand, At
<1>12. ASSUME NEW B, Stand(q, e + 1, B)', Does(q, e + 1, B)' PROVE Doing'
  <2>1. q \in -1 .. Len(Body(op'))
    BY <1>2
  <2> QED
    BY <1>12, <2>1 DEF Doing
<1>13. OnWords(op) \/ op.name = "batch"
  <2>1. op.name \in {"read", "write", "batch"}
    BY <1>5, LegalIs
  <2> QED
    BY <2>1 DEF OnWords
<1>14. CASE link # "up"
  <2>1. Answer(i, "none", 0, <<>>) /\ UNCHANGED <<dp, mem, waited>>
    BY <1>9, <1>14 DEF Transfer
  <2>2. PICK B : B[e + 1].ack = "none" /\ Stand(q, e + 1, B)'
    BY <1>1, <1>2, <1>5, <2>1, AnswerStand
  <2>3. Does(q, e + 1, B)'
    <3>1. CASE OnWords(op)
      <4>1. Worded(q, e, A) /\ op.name # "batch"
        BY <1>4, <3>1 DEF Does, OnWords
      <4>2. UNCHANGED <<op, data, link, mem>> /\ e \in Int /\ B[e + 1].ack = "none"
        BY <1>2, <1>6, <1>9, <2>1, <2>2
      <4>3. Worded(q, e + 1, B)'
        BY <1>6, <1>14, <3>1, <4>1, <4>2, WordedLost
      <4> QED
        BY <1>2, <4>1, <4>3 DEF Does
    <3>2. CASE op.name = "batch"
      <4>1. Listed(q, e + 1, B)'
        BY <1>2, <1>4, <1>6, <2>2, <3>2, ListedLost DEF Does
      <4> QED
        BY <1>2, <3>2, <4>1 DEF Does
    <3> QED
      BY <1>13, <3>1, <3>2
  <2>4. WrittenPrefix'
    BY <1>2, <2>1, PrefixKept
  <2> QED
    BY <1>12, <2>2, <2>3, <2>4
<1>15. CASE link = "up"
  <2>1. PICK posted, stop, r : /\ stop \in Nat /\ r = RunTransfer(flight[i].pkt.acc, posted, stop)
                               /\ dp' = r.dp /\ mem' = r.mem /\ waited' = (waited \/ stop > 0)
                               /\ Answer(i, r.ack, r.done, r.data)
    BY <1>6, <1>8, <1>9, <1>15, TransferDoes
  <2>2. stop \in Nat /\ r = RunTransfer(Part(op, q).pk[e + 1].acc, posted, stop)
    BY <1>6, <2>1
  <2>3. Treated(Part(op, q), e + 1, stop, r)
    <3> DEFINE st == Part(op, q)
               m == e + 1
    <3>1. Packs(st) /\ m \in DOMAIN st.pk /\ r = RunTransfer(st.pk[m].acc, posted, stop)
      BY <1>7, <2>2
    <3> HIDE DEF st, m
    <3>2. Treated(st, m, stop, r)
      BY <1>10, <3>1, Seen
    <3> QED
      BY <3>2 DEF st, m
  <2>4. r.ack = "ok" => IsSeq(r.data) /\ Len(r.data) = Reads(p)
    BY <2>3 DEF Treated
  <2>5. PICK B : /\ (\A k \in 1 .. e : B[k] = A[k]) /\ B[e + 1].ack = r.ack /\ B[e + 1].data = r.data
                 /\ Stand(q, e + 1, B)'
    <3> HIDE DEF p
    <3>1. p = Part(op, q).pk[e + 1]
      BY DEF p
    <3> QED
      BY <1>1, <1>2, <1>5, <2>1, <2>4, <3>1, AnswerStand
  <2>6. CASE OnWords(op) /\ Moves(q)
    <3>1. Worded(q, e, A) /\ op.name # "batch" /\ q > 0
      BY <1>4, <2>6 DEF Does, OnWords, Moves
    <3>4. UNCHANGED <<op, data, link, late>> /\ cur = Needs(op)
      BY <1>2, <1>9, <1>11, <3>1
    <3>2. Worded(q, e + 1, B)' /\ WrittenPrefix'
      <4>1. Port(dp) /\ CurApTrue /\ link = "up" /\ Moves(q) /\ OnWords(op) /\ Worded(q, e, A)
        BY <1>5, <1>10, <1>15, <2>6, <3>1
      <4>2. e \in Nat /\ e + 1 \in 1 .. Count(op, q) /\ stop \in Nat /\ r = RunTransfer(Part(op, q).pk[e + 1].acc, posted, stop)
        BY <1>6, <2>2
      <4>3. dp' = r.dp /\ mem' = r.mem /\ waited' = (waited \/ stop > 0)
        BY <2>1
      <4>4. Extends(B, A, e) /\ B[e + 1].ack = r.ack /\ B[e + 1].data = r.data
        BY <2>5 DEF Extends
      <4>5. q \in -1 .. Len(Body(op)) /\ Board /\ ~Setup(op) /\ ~late /\ WrittenPrefix
        OBVIOUS
      <4>6. UNCHANGED op /\ UNCHANGED data /\ UNCHANGED link /\ UNCHANGED late /\ cur = Needs(op)
        BY <3>4
      <4> HIDE DEF p
      <4> QED
        BY <4>1, <4>2, <4>3, <4>4, <4>5, <4>6, WordedMoves
    <3>3. Does(q, e + 1, B)'
      BY <1>2, <3>1, <3>2 DEF Does
    <3> QED
      BY <1>12, <2>5, <3>2, <3>3
  <2>7. CASE OnWords(op) /\ ~Moves(q)
    <3>1. Worded(q, e, A) /\ op.name # "batch"
      BY <1>4, <2>7 DEF Does, OnWords
    <3>2. e = 0
      <4>1. Count(op, q) = 1
        <5>1. \/ q <= 0
              \/ q > 0 /\ q # Len(Body(op))
              \/ Last(op, q)
          BY <2>7 DEF Last
        <5>2. \E x : Part(op, q).pk = <<x>>
          BY <1>5, <2>7, <5>1, PartAt
        <5> QED
          BY <5>2 DEF Count
      <4> QED
        BY <1>6, <4>1
    <3>3. /\ Worded(q, 0, A) /\ r = RunTransfer(Part(op, q).pk[1].acc, posted, stop)
          /\ B[1].ack = r.ack /\ B[1].data = r.data /\ e + 1 = 1
      BY <2>2, <2>5, <3>1, <3>2
    <3>4. Worded(q, 1, B)' /\ mem' = mem
      BY <1>2, <1>5, <1>9, <1>10, <1>11, <1>15, <2>1, <2>7, <3>3, WordedStill
    <3>5. Does(q, e + 1, B)'
      BY <1>2, <3>1, <3>3, <3>4 DEF Does
    <3>6. WrittenPrefix'
      BY <1>2, <2>1, <3>4, PrefixKept
    <3> QED
      BY <1>12, <2>5, <3>5, <3>6
  <2>8. CASE op.name = "batch"
    <3>1. Listed(q, e, A)
      BY <1>4, <2>8 DEF Does
    <3>2. Listed(q, e + 1, B)'
      BY <1>2, <1>5, <1>6, <1>9, <1>10, <1>11, <1>15, <2>1, <2>2, <2>5, <2>8, <3>1, ListedRun
    <3>3. Does(q, e + 1, B)'
      BY <1>2, <2>8, <3>2 DEF Does
    <3>4. mem' = mem
      <4>1. Quiet(Part(op, q))
        BY <1>5, <2>8, PartIs
      <4> QED
        BY <2>1, <2>3, <4>1 DEF Treated
    <3>5. WrittenPrefix'
      BY <1>2, <2>1, <3>4, PrefixKept
    <3> QED
      BY <1>12, <2>5, <3>3, <3>5
  <2> QED
    BY <1>13, <2>6, <2>7, <2>8
<1> QED
  BY <1>14, <1>15

(* The answers of a stage, put together. *)
LEMMA WordsAre ==
    ASSUME NEW ans, IsSeq(ans.data), NEW w, w = Len(ans.data)
    PROVE  Words(ans, w) = ans.data
<1>1. w \in Nat /\ DOMAIN ans.data = 1 .. w
  BY SeqShape
<1>2. \A i \in 1 .. w : i <= w
  BY <1>1
<1>3. Words(ans, w) = [i \in 1 .. w |-> ans.data[i]]
  BY <1>2 DEF Words
<1>4. ans.data = [i \in DOMAIN ans.data |-> ans.data[i]]
  BY DEF IsSeq
<1> QED
  BY <1>1, <1>3, <1>4

LEMMA ConcatNone ==
    ASSUME NEW s, IsSeq(s), \A i \in 1 .. Len(s) : s[i] = <<>>
    PROVE  Concat(s) = <<>>
<1> DEFINE W == [x \in Int |-> 0]
           U == [x \in 0 .. Len(s) |-> 0]
<1>1. Len(s) \in Nat
  BY SeqShape
<1>2. Piece(W, 0, 0) = <<>>
  BY PieceIs
<1>3. \A i \in 0 .. Len(s) : U[i] = 0
  OBVIOUS
<1>4. 0 \in 0 .. Len(s) /\ Len(s) \in 0 .. Len(s) /\ \A i \in 1 .. Len(s) : i \in 0 .. Len(s) /\ i - 1 \in 0 .. Len(s)
  BY <1>1
<1> HIDE DEF W, U
<1>5. \A i \in 0 .. Len(s) : U[i] \in Int
  BY <1>3
<1>6. \A i \in 1 .. Len(s) : U[0] <= U[i - 1] /\ U[i - 1] <= U[i] /\ s[i] = Piece(W, U[i - 1], U[i])
  BY <1>2, <1>3, <1>4
<1>7. Concat(s) = Piece(W, U[0], U[Len(s)])
  BY <1>5, <1>6, ConcatIs
<1> QED
  BY <1>2, <1>3, <1>4, <1>7

LEMMA ConcatOne ==
    ASSUME NEW s, IsSeq(s), Len(s) = 1, IsSeq(s[1])
    PROVE  Concat(s) = s[1]
<1> DEFINE x == s[1]
           W == [j \in Int |-> x[j]]
           U == [i \in {0, 1} |-> IF i = 0 THEN 0 ELSE Len(x)]
<1>1. Len(x) \in Nat /\ DOMAIN x = 1 .. Len(x) /\ x = [j \in DOMAIN x |-> x[j]]
  BY SeqShape DEF IsSeq
<1>2. U[0] = 0 /\ U[1] = Len(x)
  OBVIOUS
<1>3. x = Piece(W, 0, Len(x))
  <2> DEFINE n == Len(x)
  <2>1. n \in Nat /\ x = [j \in 1 .. n |-> x[j]]
    BY <1>1
  <2> HIDE DEF x, n
  <2>2. n - 0 = n /\ \A j \in 1 .. n : W[0 + j] = x[j]
    BY <2>1
  <2> HIDE DEF W
  <2>3. x = Piece(W, 0, n)
    BY <2>1, <2>2 DEF Piece
  <2> QED
    BY <2>3 DEF n
<1> HIDE DEF W, U
<1>4. \A i \in 0 .. 1 : i = 0 \/ i = 1
  OBVIOUS
<1>5. \A i \in 0 .. Len(s) : U[i] \in Int
  BY <1>1, <1>2, <1>4
<1>6. \A i \in 1 .. Len(s) : U[0] <= U[i - 1] /\ U[i - 1] <= U[i] /\ s[i] = Piece(W, U[i - 1], U[i])
  <2>1. \A i \in 1 .. Len(s) : i = 1 /\ i - 1 = 0
    OBVIOUS
  <2> QED
    BY <1>1, <1>2, <1>3, <2>1
<1>7. Concat(s) = Piece(W, U[0], U[Len(s)])
  BY <1>5, <1>6, ConcatIs
<1> QED
  BY <1>2, <1>3, <1>7

\* Stages that read nothing.
LEMMA PartReads ==
    ASSUME NEW o, Legal(o), NEW x \in -1 .. Len(Body(o)), ~Last(o, x),
           o.name = "read" => ~Moves(x), o.name = "batch" => x <= 0
    PROVE  \A k \in 1 .. Count(o, x) : Reads(Part(o, x).pk[k]) = 0
<1> DEFINE st == Part(o, x)
<1>1. ASSUME NEW reg, NEW v, v # Rd, st.pk = <<Xfer(reg, v)>>
      PROVE  \A k \in 1 .. Count(o, x) : Reads(st.pk[k]) = 0
  <2>1. Len(st.pk) = 1 /\ st.pk[1] = Xfer(reg, v)
    BY <1>1
  <2>2. Xfer(reg, v).acc = <<<<reg, v>>>>
    BY XferIs
  <2>3. Reads(Xfer(reg, v)) = 0
    <3>1. \A i \in DOMAIN Xfer(reg, v).acc : Xfer(reg, v).acc[i][2] # Rd
      BY <1>1, <2>2
    <3> QED
      BY <3>1, NoReads
  <2> HIDE DEF st
  <2>4. Count(o, x) = 1
    BY <2>1 DEF Count, st
  <2> QED
    BY <2>1, <2>3, <2>4
<1>2. OnWords(o) \/ o.name = "batch"
  BY BodyLen
<1>3. CASE x <= 0
  BY <1>1, <1>3, PartAt
<1>4. CASE ~(x <= 0)
  <2>1. OnWords(o) /\ OnBus(o) /\ Pages(o) \in Nat \ {0} /\ x > 0
    BY <1>2, <1>4, BodyLen
  <2>2. CASE ~Moves(x)
    <3>1. (x + 1) \div 2 \in 1 .. Pages(o) /\ st.pk = <<Xfer("tar", Lo(o, (x + 1) \div 2))>>
      BY <2>1, <2>2, PartAt DEF Last
    <3>2. Lo(o, (x + 1) \div 2) \in Nat
      BY <2>1, <3>1, PagesAre
    <3> HIDE DEF st
    <3>3. Lo(o, (x + 1) \div 2) # Rd
      BY <3>2 DEF Rd
    <3> QED
      BY <1>1, <3>1, <3>3 DEF st
  <2>3. CASE Moves(x)
    <3> DEFINE i == x \div 2
    <3>1. i \in 1 .. Pages(o) /\ st = Repeat(o, Lo(o, i), Hi(o, i)) /\ o.name = "write"
      BY <2>1, <2>3, PartAt DEF OnWords
    <3> HIDE DEF i, st
    <3>2. Len(st.pk) = Packets(o, i) /\ \A m \in 1 .. Packets(o, i) : WordsPacket(o, i, m, st.pk[m])
      BY <2>1, <3>1, WordsStage
    <3>3. ASSUME NEW k \in 1 .. Packets(o, i) PROVE Reads(st.pk[k]) = 0
      <4> DEFINE p == st.pk[k]
                 lo == Through(o, i, k - 1)
      <4>1. IsSeq(p.acc) /\ \A j \in DOMAIN p.acc : p.acc[j] = Word(o, lo + j - 1)
        BY <3>2 DEF WordsPacket
      <4>2. lo \in Nat /\ Lo(o, i) <= lo
        BY <2>1, <3>1, ThroughIs
      <4>3. Lo(o, i) \in Nat /\ o.a <= Lo(o, i) /\ o.a \in Nat
        BY <2>1, <3>1, PagesAre DEF OnBus
      <4> HIDE DEF p, lo
      <4>4. ASSUME NEW j \in DOMAIN p.acc PROVE p.acc[j][2] # Rd
        <5> DEFINE t == lo + j - 1
        <5>1. DOMAIN p.acc = 1 .. Len(p.acc) /\ Len(p.acc) \in Nat
          BY <4>1, SeqShape
        <5>2. t \in Nat /\ o.a <= t
          BY <4>2, <4>3, <5>1
        <5>3. p.acc[j] = Word(o, t)
          BY <4>1
        <5> HIDE DEF t
        <5> QED
          BY <2>1, <3>1, <4>3, <5>2, <5>3, WordIs
      <4>5. Reads(p) = 0
        BY <4>4, NoReads
      <4> QED
        BY <4>5 DEF p
    <3>4. Count(o, x) = Packets(o, i)
      BY <3>2 DEF Count, st
    <3> QED
      BY <3>3, <3>4 DEF st
  <2> QED
    BY <2>2, <2>3
<1> QED
  BY <1>3, <1>4

(* A stage that has been answered. *)
New(all) == Concat([i \in DOMAIN Head(stages).pk |-> Words(all[i], Reads(Head(stages).pk[i]))])
Passed(all) ==
    /\ \A i \in DOMAIN all : all[i].ack = "ok"
    /\ cur' = IF Head(stages).then = NoAp THEN cur ELSE Head(stages).then
    /\ Head(stages).test => FALSE \in Stuck(New(all)[1])
    /\ data' = Collected(New(all), Head(stages).test)
    /\ IF Len(stages) = 1 THEN End(ok) ELSE GoOn(Tail(stages))

LEMMA JudgeCases ==
    ASSUME NEW all, Judge(all)
    PROVE  Raise \/ ClearAndRaise \/ Passed(all)
BY DEF Judge, Checked, Passed, New

\* All its answers have come.
AllIn(q, e, A, all) ==
    /\ e = Count(op, q) /\ e \in Nat \ {0} /\ IsSeq(all) /\ DOMAIN all = 1 .. e
    /\ Extends(all, A, e) /\ Len(flight) = 1
LEMMA AnswersAre ==
    ASSUME NEW q, NEW e, NEW A, Doer(q, e, A), flight # <<>>, flight[1].ans # <<>>,
           NEW all, all = Append(got, flight[1].ans[1]), AllCome(all)
    PROVE  AllIn(q, e, A, all)
<1>1. /\ IsSeq(flight) /\ IsSeq(got) /\ Len(flight) \in Nat /\ Len(got) \in Nat
      /\ Head(stages) = Part(op, q)
      /\ sent = Len(got) + Len(flight) /\ sent \in 0 .. Count(op, q) /\ Count(op, q) \in Nat \ {0}
      /\ e \in Len(got) .. sent
  BY DoerIs
<1>2. IsSeq(all) /\ Len(all) = Len(got) + 1 /\ (\A i \in 1 .. Len(got) : all[i] = got[i]) /\ all[Len(got) + 1] = flight[1].ans[1]
  BY <1>1, AppendSeq
<1>3. Len(flight) > 0
  BY <1>1, TailSeq
<1>4. Len(all) = Count(op, q)
  BY <1>1 DEF AllCome, Count
<1>5. Come(e, A)
  BY DEF Doer, Stand
<1> DEFINE g == Len(got)
           f == Len(flight)
           n == Count(op, q)
<1>6. g \in Nat /\ f \in Nat /\ n \in Nat \ {0} /\ f > 0 /\ n = g + 1 /\ sent = g + f /\ sent \in 0 .. n /\ e \in g .. sent
  BY <1>1, <1>2, <1>3, <1>4
<1> HIDE DEF g, f, n
<1>7. f = 1 /\ sent = n /\ 1 \in 1 .. f
  BY <1>6
<1>8. g + 1 <= e
  BY <1>5, <1>7 DEF Come, g, f
<1>9. e = n /\ e \in Nat \ {0}
  BY <1>6, <1>7, <1>8
<1>10. ASSUME NEW k \in 1 .. e PROVE all[k] = A[k]
  <2>1. A[k] = IF k <= g THEN got[k] ELSE flight[k - g].ans[1]
    BY <1>5 DEF Come, g
  <2>2. CASE k <= g
    <3>1. k \in 1 .. g
      BY <1>6, <1>9, <2>2
    <3> QED
      BY <1>2, <2>1, <2>2, <3>1 DEF g
  <2>3. CASE ~(k <= g)
    <3>1. k = g + 1 /\ k - g = 1
      BY <1>6, <1>9, <2>3
    <3> QED
      BY <1>2, <2>1, <2>3, <3>1 DEF g
  <2> QED
    BY <2>2, <2>3
<1>11. DOMAIN all = 1 .. e
  BY <1>2, <1>4, <1>9, SeqShape DEF n
<1> QED
  BY <1>2, <1>7, <1>9, <1>10, <1>11 DEF f, n, AllIn, Extends

\* What they have read.
Fetched(e, A) == [k \in 1 .. e |-> A[k].data]
Gathered(q, e, A, all) ==
    /\ New(all) = Concat(Fetched(e, A)) /\ IsSeq(Fetched(e, A)) /\ Len(Fetched(e, A)) = e
    /\ \A k \in 1 .. e : /\ Fetched(e, A)[k] = A[k].data /\ IsSeq(A[k].data)
                         /\ Len(A[k].data) = Reads(Part(op, q).pk[k])
LEMMA NewIs ==
    ASSUME NEW q, NEW e \in Nat, NEW A, Full(q, e, A), AllOk(A, e), Packs(Part(op, q)), Head(stages) = Part(op, q),
           e = Count(op, q), NEW all, Extends(all, A, e)
    PROVE  Gathered(q, e, A, all)
<1>1. ASSUME NEW k \in 1 .. e PROVE IsSeq(A[k].data) /\ Len(A[k].data) = Reads(Part(op, q).pk[k])
  BY DEF Full, AllOk
<1>2. DOMAIN Part(op, q).pk = 1 .. e
  BY SeqShape DEF Packs, Count
<1>3. ASSUME NEW k \in 1 .. e PROVE Words(all[k], Reads(Part(op, q).pk[k])) = A[k].data
  BY <1>1, WordsAre DEF Extends
<1>4. New(all) = Concat(Fetched(e, A))
  <2>1. [i \in DOMAIN Head(stages).pk |-> Words(all[i], Reads(Head(stages).pk[i]))] = Fetched(e, A)
    BY <1>2, <1>3 DEF Fetched
  <2> QED
    BY <2>1 DEF New
<1> DEFINE f == Fetched(e, A)
<1>5. f = [k \in 1 .. e |-> f[k]] /\ \A k \in 1 .. e : f[k] = A[k].data
  BY DEF Fetched
<1> HIDE DEF f
<1>6. IsSeq(f) /\ Len(f) = e
  BY <1>5, FunSeq
<1> QED
  BY <1>1, <1>4, <1>5, <1>6 DEF f, Gathered

\* Packets that read nothing have read nothing.
LEMMA NothingNew ==
    ASSUME NEW q, NEW e \in Nat, NEW A, IsSeq(Fetched(e, A)), Len(Fetched(e, A)) = e,
           \A k \in 1 .. e : Reads(Part(op, q).pk[k]) = 0,
           \A k \in 1 .. e : Fetched(e, A)[k] = A[k].data /\ IsSeq(A[k].data) /\ Len(A[k].data) = Reads(Part(op, q).pk[k])
    PROVE  Concat(Fetched(e, A)) = <<>>
<1>1. ASSUME NEW k \in 1 .. e PROVE Fetched(e, A)[k] = <<>>
  <2>1. IsSeq(A[k].data) /\ Len(A[k].data) = 0
    OBVIOUS
  <2>2. A[k].data = <<>>
    BY <2>1, TailSeq
  <2> QED
    BY <2>2
<1> DEFINE f == Fetched(e, A)
<1>2. IsSeq(f) /\ \A i \in 1 .. Len(f) : f[i] = <<>>
  BY <1>1
<1> HIDE DEF f
<1>3. Concat(f) = <<>>
  BY <1>2, ConcatNone
<1> QED
  BY <1>3 DEF f

\* The words of a page, read.
Spans(q, e, A) == \A k \in 1 .. e : Fetched(e, A)[k] = Span(Reached(op, q, k - 1), Reached(op, q, k))
Spanned(q, e, A) == Span(op.a, Reached(op, q, 0)) \o Concat(Fetched(e, A)) = Span(op.a, Reached(op, q, e))
LEMMA SpanNew ==
    ASSUME NEW q, NEW e \in Nat, NEW A, IsSeq(Fetched(e, A)), Len(Fetched(e, A)) = e,
           Legal(op), OnWords(op), q \in -1 .. Len(Body(op)), e = Count(op, q),
           Spans(q, e, A)
    PROVE  Spanned(q, e, A)
<1> DEFINE R == Reached(op, q, 0)
           T == Reached(op, q, e)
<1> DEFINE W == [x \in Int |-> x]
           U == [i \in 0 .. e |-> Reached(op, q, i) - 1]
           s == Fetched(e, A)
<1>1. ASSUME NEW i \in 1 .. e
      PROVE  /\ Reached(op, q, i - 1) \in Nat /\ Reached(op, q, i) \in Nat
             /\ op.a <= Reached(op, q, i - 1) /\ Reached(op, q, i - 1) <= Reached(op, q, i)
  BY ReachedNext
<1>2. Reached(op, q, 0) \in Nat /\ op.a <= Reached(op, q, 0) /\ op.a \in Nat
  BY ReachedNext, BodyLen DEF OnBus
<1>3. \A i \in 0 .. e : i = 0 \/ i \in 1 .. e
  OBVIOUS
<1>4. \A i \in 0 .. e : U[i] = Reached(op, q, i) - 1 /\ Reached(op, q, i) \in Nat
  BY <1>1, <1>2, <1>3
<1>5. \A i \in 1 .. e : i \in 0 .. e /\ i - 1 \in 0 .. e
  OBVIOUS
<1>6. 0 \in 0 .. e /\ e \in 0 .. e
  OBVIOUS
<1> HIDE DEF U, W, s
<1>7. \A i \in 0 .. e : U[i] \in Int
  BY <1>4
<1>8. ASSUME NEW i \in 1 .. e PROVE U[i - 1] <= U[i] /\ s[i] = Piece(W, U[i - 1], U[i])
  <2> DEFINE x == Reached(op, q, i - 1)
             y == Reached(op, q, i)
  <2>1. x \in Nat /\ y \in Nat /\ x <= y /\ U[i - 1] = x - 1 /\ U[i] = y - 1 /\ s[i] = Span(x, y)
    BY <1>1, <1>4, <1>5 DEF s, Spans
  <2> HIDE DEF x, y
  <2>2. Span(x, y) = Piece(W, x - 1, y - 1)
    BY <2>1, SpanPiece DEF W
  <2> QED
    BY <2>1, <2>2
<1>9. \A i \in 0 .. e : U[0] <= U[i]
  <2> DEFINE T0 == {i \in Nat : i \in 0 .. e => U[0] <= U[i]}
  <2>1. 0 \in T0
    BY <1>6, <1>7
  <2>2. ASSUME NEW i \in Nat, i \in T0 PROVE i + 1 \in T0
    <3> SUFFICES ASSUME i + 1 \in 0 .. e PROVE U[0] <= U[i + 1]
      OBVIOUS
    <3> DEFINE j == i + 1
    <3>1. j \in 1 .. e /\ j - 1 = i /\ i \in 0 .. e /\ j \in 0 .. e
      OBVIOUS
    <3>2. U[0] <= U[i] /\ U[0] \in Int /\ U[i] \in Int /\ U[j] \in Int
      BY <1>6, <1>7, <2>2, <3>1
    <3> HIDE DEF j
    <3>3. U[i] <= U[j]
      BY <1>8, <3>1
    <3>4. U[0] <= U[j]
      BY <3>2, <3>3
    <3> QED
      BY <3>4 DEF j
  <2> HIDE DEF T0
  <2>3. Nat \subseteq T0
    BY <2>1, <2>2, NatsIn
  <2> QED
    BY <2>3 DEF T0
<1>10. Concat(s) = Piece(W, U[0], U[e])
  <2>1. IsSeq(s) /\ Len(s) = e
    BY DEF s
  <2>2. \A i \in 1 .. Len(s) : U[0] <= U[i - 1] /\ U[i - 1] <= U[i] /\ s[i] = Piece(W, U[i - 1], U[i])
    BY <1>5, <1>8, <1>9, <2>1
  <2> QED
    BY <1>7, <2>1, <2>2, ConcatIs
<1>11. U[0] = R - 1 /\ U[e] = T - 1 /\ R \in Nat /\ T \in Nat /\ op.a <= R /\ R <= T
  <2>1. U[0] = R - 1 /\ U[e] = T - 1 /\ R \in Nat /\ T \in Nat /\ op.a <= R /\ U[0] <= U[e]
    BY <1>2, <1>4, <1>6, <1>9
  <2> QED
    BY <2>1
<1> HIDE DEF R, T
<1> DEFINE a == op.a - 1
<1>12. a \in Int /\ R - 1 \in Int /\ T - 1 \in Int /\ a <= R - 1 /\ R - 1 <= T - 1
  BY <1>2, <1>11
<1>13. Span(op.a, R) = Piece(W, a, R - 1) /\ Span(op.a, T) = Piece(W, a, T - 1)
  <2>1. \A lo \in Int : \A hi \in Int : Span(lo, hi) = Piece(W, lo - 1, hi - 1)
    BY SpanPiece DEF W
  <2>2. op.a \in Int /\ R \in Int /\ T \in Int
    BY <1>2, <1>11
  <2> QED
    BY <2>1, <2>2
<1> HIDE DEF a
<1>14. Piece(W, a, R - 1) \o Piece(W, R - 1, T - 1) = Piece(W, a, T - 1)
  <2> DEFINE m == R - 1
             h == T - 1
  <2> HIDE DEF m, h
  <2>1. a \in Int /\ m \in Int /\ h \in Int /\ a <= m /\ m <= h
    BY <1>12 DEF m, h
  <2>2. Piece(W, a, m) \o Piece(W, m, h) = Piece(W, a, h)
    BY <2>1, PieceIs
  <2> QED
    BY <2>2 DEF m, h
<1> QED
  BY <1>10, <1>11, <1>13, <1>14 DEF s, R, T, Spanned

\* The stage after it begins.
LEMMA StandNext ==
    ASSUME NEW q, NEW e, NEW A, Doer(q, e, A), q # Len(Body(op)), GoOn(Tail(stages)), op' = op,
           cur' = (IF Head(stages).then = NoAp THEN cur ELSE Head(stages).then), flight' = <<>>, NEW B
    PROVE  Stand(q + 1, 0, B)' /\ q + 1 \in -1 .. Len(Body(op))
<1>1. Legal(op) /\ At(q) /\ q \in -1 .. Len(Body(op))
  BY DEF Doer, Stand
<1>2. Head(stages) = Part(op, q) /\ IsSeq(stages)
  BY DoerIs
<1>3. Part(op, q).then = IF q = 0 THEN Needs(op) ELSE NoAp
  BY <1>1, PartIs
<1>4. q >= 0 => cur' = Needs(op)
  <2>1. q = 0 => cur' = Needs(op)
    BY <1>2, <1>3 DEF Needs, NoAp, DM, MEM
  <2>2. q > 0 => cur' = Needs(op)
    BY <1>1, <1>2, <1>3 DEF At
  <2> QED
    BY <1>1, <2>1, <2>2, BodyLen
<1>5. stages' = Tail(stages)
  BY DEF GoOn
<1>6. At(q + 1)' /\ q + 1 \in -1 .. Len(Body(op))
  BY <1>1, <1>2, <1>4, <1>5, AtTail
<1>7. Come(0, B)'
  <2>1. got' = <<>> /\ sent' = 0 /\ Len(got') = 0 /\ Len(flight') = 0
    BY NothingSeq DEF GoOn
  <2> QED
    BY <2>1 DEF Come
<1>8. Full(q + 1, 0, B)'
  BY DEF Full
<1> QED
  BY <1>6, <1>7, <1>8 DEF Stand

LEMMA WordedNext ==
    ASSUME Legal(op), OnWords(op), NEW q \in -1 .. Len(Body(op)), q # Len(Body(op)), NEW e, e = Count(op, q), e \in Nat \ {0},
           NEW A, Worded(q, e, A), AllOk(A, e), NEW new, data' = data \o new,
           op.name = "read" /\ Moves(q) => Span(op.a, Reached(op, q, 0)) \o new = Span(op.a, Reached(op, q, e)),
           ~(op.name = "read" /\ Moves(q)) => new = <<>>,
           UNCHANGED <<op, dp, link, mem, waited>>, NEW B
    PROVE  Worded(q + 1, 0, B)'
<1> DEFINE x == q + 1
<1>1. x \in Int /\ q \in Int /\ OnBus(op) /\ Len(Body(op)) = 2 * Pages(op) + 1 /\ Pages(op) \in Nat \ {0}
  BY BodyLen
<1>2. Reached(op, q, e) = Reached(op, x, 0)
  BY ReachedNext
<1>3. ~Moves(q) => Reached(op, q, e) = Reached(op, q, 0)
  BY <1>1, ReachedIs
<1>4. ReadsOn(q, e, A) /\ OnTrack(q, e, A) /\ \A b \in DOMAIN mem : mem[b] # 0 => b < Reached(op, q, e)
  BY DEF Worded
<1>5. \A h : data' = h => ReadsOn(x, 0, B)' \/ h # IF op.name = "read" THEN Span(op.a, Reached(op, x, 0)) ELSE <<>>
  <2>1. \A k : k \notin 1 .. 0
    OBVIOUS
  <2> HIDE DEF x
  <2> QED
    BY <2>1 DEF ReadsOn
<1>6. data' = IF op.name = "read" THEN Span(op.a, Reached(op, x, 0)) ELSE <<>>
  <2>1. CASE op.name = "read" /\ Moves(q)
    BY <1>2, <1>4, <2>1 DEF ReadsOn
  <2>2. CASE op.name = "read" /\ ~Moves(q)
    <3>1. data = Span(op.a, Reached(op, q, 0)) /\ new = <<>>
      BY <1>4, <2>2 DEF ReadsOn
    <3>2. Reached(op, q, 0) \in Nat /\ op.a \in Nat /\ op.a <= Reached(op, q, 0)
      BY <1>1, ReachedNext DEF OnBus
    <3>3. IsSeq(data)
      <4> DEFINE k == Reached(op, q, 0) - op.a
      <4>1. k \in Nat /\ op.a + k = Reached(op, q, 0)
        BY <3>2
      <4> HIDE DEF k
      <4>2. data = Span(op.a, op.a + k)
        BY <3>1, <4>1
      <4>3. \A lo \in Int : \A y \in Nat : IsSeq(Span(lo, lo + y))
        BY SpanIs
      <4>4. op.a \in Int
        BY <3>2
      <4> QED
        BY <4>1, <4>2, <4>3, <4>4
    <3>4. data \o <<>> = data
      BY <3>3 DEF IsSeq
    <3> QED
      BY <1>2, <1>3, <2>2, <3>1, <3>4
  <2>3. CASE op.name # "read"
    <3>1. data = <<>> /\ new = <<>>
      BY <1>4, <2>3 DEF ReadsOn
    <3>2. <<>> \o <<>> = <<>>
      OBVIOUS
    <3> QED
      BY <2>3, <3>1, <3>2
  <2> QED
    BY <2>1, <2>2, <2>3
<1>7. ReadsOn(x, 0, B)'
  BY <1>5, <1>6
<1>8. OnTrack(x, 0, B)'
  <2> SUFFICES ASSUME Running' PROVE OnTrack(x, 0, B)'
    BY DEF OnTrack
  <2>1. Running
    BY DEF Running
  <2>2. Sound(op, Reached(op, q, e))'
    BY <1>4, <2>1 DEF OnTrack, Sound, Written
  <2>3. Moves(x) => Cursor(x, 0, B)'
    <3> SUFFICES ASSUME Moves(x) PROVE Cursor(x, 0, B)'
      OBVIOUS
    <3>1. x > 0 /\ x % 2 = 0
      BY DEF Moves
    <3> DEFINE i == x \div 2
    <3>2. x \in -1 .. 2 * Pages(op) + 1
      BY <1>1
    <3>3. i \in 1 .. Pages(op) /\ Reached(op, x, 0) = Lo(op, i)
      <4> HIDE DEF x
      <4> QED
        BY <1>1, <3>2, ReachedIs
    <3>4. Lo(op, i) \in Nat
      BY <1>1, <3>3, PagesAre
    <3>5. ~Moves(q) /\ q > 0 /\ q < Len(Body(op))
      <4>1. \A z \in Int : (z + 1) % 2 = 0 => z % 2 # 0
        OBVIOUS
      <4>2. q % 2 # 0
        BY <1>1, <3>1, <4>1
      <4>3. \A z \in Int : z + 1 > 0 /\ z % 2 # 0 => z > 0
        <5>1. 0 % 2 = 0
          OBVIOUS
        <5> QED
          BY <5>1
      <4>4. q > 0
        BY <1>1, <3>1, <4>2, <4>3
      <4>5. \A z \in Int : z \in -1 .. Len(Body(op)) /\ z # Len(Body(op)) => z < Len(Body(op))
        BY <1>1
      <4>6. q < Len(Body(op))
        BY <1>1, <4>5
      <4> QED
        BY <4>2, <4>4, <4>6 DEF Moves
    <3>6. e = 1
      <4>1. \E y : Part(op, q).pk = <<y>>
        BY <3>5, PartAt
      <4> QED
        BY <4>1 DEF Count
    <3>7. dp.tar[MEM] = Lo(op, i)
      BY <1>4, <2>1, <3>5, <3>6 DEF OnTrack
    <3> DEFINE c == Lo(op, i)
    <3> HIDE DEF x
    <3>8. c \in Lo(op, i) .. Reached(op, x, 0) /\ c = Reached(op, x, 0) /\ dp'.tar[MEM] = c
      BY <3>3, <3>4, <3>7
    <3> QED
      BY <3>8 DEF Cursor
  <2> HIDE DEF x
  <2>4. AllOk(B, 0)
    BY DEF AllOk
  <2> QED
    BY <1>2, <2>2, <2>3, <2>4 DEF OnTrack, Sound, Written
<1>9. Tested(x, 0, B)'
  BY DEF Tested
<1>10. \A b \in DOMAIN mem' : mem'[b] # 0 => b < Reached(op', x, 0)
  BY <1>2, <1>4
<1> QED
  BY <1>7, <1>8, <1>9, <1>10 DEF Worded

LEMMA ListedNext ==
    ASSUME NEW q \in Int, q <= 0, NEW e, NEW A, Listed(q, e, A), data' = data \o <<>>, UNCHANGED <<op, dp, link>>, NEW B
    PROVE  Listed(q + 1, 0, B)'
<1>1. data' = <<>>
  BY DEF Listed
<1>2. \A k : k \notin 1 .. 0
  OBVIOUS
<1> QED
  BY <1>1, <1>2 DEF Listed

\* The last stage ends: sticky_error() has not seen an error.
Unstuck(new) == FALSE \in Stuck(new[1])

LEMMA StickyStuck == ~Unstuck(<<Sticky>>)
<1>1. <<Sticky>>[1] = Sticky
  OBVIOUS
<1>2. Stuck(Sticky) = {TRUE}
  BY DEF Stuck
<1>3. FALSE \notin {TRUE}
  OBVIOUS
<1> QED
  BY <1>1, <1>2, <1>3, Zenon DEF Unstuck

LEMMA WordsDone ==
    ASSUME Legal(op), OnWords(op), NEW q, q = Len(Body(op)), NEW A, Worded(q, 1, A), AllOk(A, 1),
           NEW new, new = A[1].data, Unstuck(new), data' = data, UNCHANGED <<op, mem>>
    PROVE  WorkDone'
<1>1. OnBus(op) /\ op.a \in Nat /\ op.n \in Nat
  BY BodyLen DEF OnBus
<1>2. new \in {<<Clean>>, <<Sticky>>} /\ (new = <<Clean>> => Sound(op, op.a + op.n)) /\ ReadsOn(q, 1, A)
  BY DEF Worded, Tested
<1>3. new # <<Sticky>>
  BY StickyStuck
<1>4. Sound(op, op.a + op.n)
  BY <1>2, <1>3
<1>5. Reached(op, q, 0) = op.a + op.n
  BY ReachedNext, BodyLen
<1>6. op.name = "read" => data' = [i \in 1 .. op.n |-> op.a + i - 1]
  <2>1. op.name = "read" => data' = Span(op.a, op.a + op.n)
    BY <1>2, <1>5 DEF ReadsOn
  <2>2. op.a + op.n - op.a = op.n
    BY <1>1
  <2>3. \A lo : \A hi : \A k : hi - lo = k => Span(lo, hi) = [i \in 1 .. k |-> lo + i - 1]
    BY DEF Span
  <2> QED
    BY <1>1, <2>1, <2>2, <2>3
<1>7. op.name = "write" => \A b \in Asked : mem[b] = b - op.a + 1
  BY <1>1, <1>4 DEF Sound, Written, Asked
<1>8. Asked \cap BadWords = {}
  BY <1>1, <1>4 DEF Sound, Asked
<1>9. op.name # "batch"
  BY DEF OnWords
<1> QED
  BY <1>6, <1>7, <1>8, <1>9 DEF WorkDone, Asked

LEMMA BatchDone ==
    ASSUME Legal(op), op.name = "batch", NEW q, q = Len(Body(op)), NEW e, e = Count(op, q), e \in Nat \ {0},
           NEW A, Listed(q, e, A), AllOk(A, e), IsSeq(Fetched(e, A)), Len(Fetched(e, A)) = e,
           \A k \in 1 .. e : Fetched(e, A)[k] = A[k].data,
           data' = data \o Concat(Fetched(e, A)), op' = op
    PROVE  WorkDone'
<1>1. IsSeq(op.regs) /\ Len(op.regs) > 0 /\ Len(op.regs) \in Nat /\ DOMAIN op.regs = 1 .. Len(op.regs)
  BY LegalIs, SeqShape
<1>2. q = 1 /\ Part(op, q) = BatchOf(op)
  BY BodyLen, PartAt
<1>3. e = Cuts(op)
  BY <1>1, <1>2, BatchStage DEF Count
<1> DEFINE n == Len(op.regs)
           W == Table(op.regs)
           U == [i \in 0 .. e |-> Cut(op, i) \div 2]
           s == Fetched(e, A)
<1>4. /\ Cut(op, 0) = 0 /\ Cut(op, e) = 2 * n
      /\ \A m \in 1 .. e : Cut(op, m - 1) \in Nat /\ Cut(op, m) \in Nat /\ Cut(op, m - 1) < Cut(op, m)
  BY <1>1, <1>3, CutIs
<1>5. \A i \in 0 .. e : i = 0 \/ i \in 1 .. e
  OBVIOUS
<1>6. \A i \in 1 .. e : i \in 0 .. e /\ i - 1 \in 0 .. e
  OBVIOUS
<1>7. 0 \in 0 .. e /\ e \in 0 .. e
  OBVIOUS
<1>8. \A i \in 0 .. e : U[i] = Cut(op, i) \div 2 /\ Cut(op, i) \in Nat
  BY <1>4, <1>5
<1>9. data = <<>> /\ \A k \in 1 .. e : A[k].data = Piece(W, Cut(op, k - 1) \div 2, Cut(op, k) \div 2)
  BY <1>2 DEF Listed
<1> HIDE DEF U, W, s
<1>10. \A i \in 0 .. e : U[i] \in Nat
  <2>1. \A x \in Nat : x \div 2 \in Nat
    BY HalfIs
  <2> QED
    BY <1>8, <2>1
<1>11. \A i \in 1 .. e : U[i - 1] <= U[i] /\ s[i] = Piece(W, U[i - 1], U[i])
  <2>1. \A x \in Nat : \A y \in Nat : x < y => x \div 2 <= y \div 2
    OBVIOUS
  <2>2. \A i \in 1 .. e : s[i] = A[i].data
    BY DEF s
  <2> QED
    BY <1>4, <1>6, <1>8, <1>9, <2>1, <2>2
<1>12. U[0] = 0 /\ U[e] = n
  <2>1. U[0] = 0 \div 2 /\ U[e] = (2 * n) \div 2
    BY <1>4, <1>7, <1>8
  <2>2. n \in Nat
    BY <1>1
  <2> HIDE DEF n
  <2> QED
    BY <2>1, <2>2
<1>13. Concat(s) = Piece(W, 0, n)
  <2>1. IsSeq(s) /\ Len(s) = e
    BY DEF s
  <2>2. \A i \in 1 .. Len(s) : U[0] <= U[i - 1] /\ U[i - 1] <= U[i] /\ s[i] = Piece(W, U[i - 1], U[i])
    BY <1>6, <1>10, <1>11, <1>12, <2>1
  <2>3. \A i \in 0 .. Len(s) : U[i] \in Int
    BY <1>10, <2>1
  <2>4. Concat(s) = Piece(W, U[0], U[Len(s)])
    BY <2>1, <2>2, <2>3, ConcatIs
  <2> QED
    BY <1>12, <2>1, <2>4
<1>14. Piece(W, 0, n) = [i \in 1 .. n |-> Top + op.regs[i]]
  <2>1. n \in Nat
    BY <1>1
  <2> HIDE DEF n
  <2>2. n - 0 = n /\ \A i \in 1 .. n : W[0 + i] = Top + op.regs[i]
    BY <2>1 DEF W, Table
  <2> QED
    BY <2>2 DEF Piece
<1>15. data' = [i \in DOMAIN op.regs |-> Top + op.regs[i]]
  <2> DEFINE v == [i \in 1 .. n |-> Top + op.regs[i]]
  <2>1. n \in Nat
    BY <1>1
  <2>2. IsSeq(v)
    <3> HIDE DEF n
    <3>1. v = [i \in 1 .. n |-> v[i]]
      OBVIOUS
    <3> HIDE DEF v
    <3> QED
      BY <2>1, <3>1, FunSeq
  <2>3. data' = <<>> \o v
    BY <1>9, <1>13, <1>14 DEF s
  <2> HIDE DEF v
  <2>4. <<>> \o v = v
    BY <2>2 DEF IsSeq
  <2> QED
    BY <1>1, <2>3, <2>4 DEF v
<1> QED
  BY <1>15 DEF WorkDone

(* The steps of the host. *)
LEMMA PassedDoing ==
    ASSUME Whole, Board, ~late, busy, ok, ~Setup(op), Doing, flight # <<>>, flight[1].ans # <<>>, flight' = Tail(flight),
           NEW all, all = Append(got, flight[1].ans[1]), AllCome(all), Passed(all), UNCHANGED <<op, dp, mem, link, waited>>
    PROVE  /\ Len(stages) = 1 => WorkDone'
           /\ Len(stages) # 1 => Doing'
<1>1. PICK q \in -1 .. Len(Body(op)) : \E e, A : Stand(q, e, A) /\ Does(q, e, A)
  BY DEF Doing
<1>2. PICK e, A : Stand(q, e, A) /\ Does(q, e, A)
  BY <1>1
<1>3. Doer(q, e, A) /\ Legal(op)
  BY <1>2 DEF Doer, Board, Whole, IInv
<1>4. /\ Head(stages) = Part(op, q) /\ (Len(stages) = 1 <=> q = Len(Body(op)))
      /\ Packs(Part(op, q)) /\ IsSeq(flight)
  BY <1>3, DoerIs
<1>5. /\ e = Count(op, q) /\ e \in Nat \ {0} /\ DOMAIN all = 1 .. e /\ (\A k \in 1 .. e : all[k] = A[k])
      /\ Len(flight) = 1
  <2>1. AllIn(q, e, A, all)
    BY <1>3, AnswersAre
  <2> QED
    BY <2>1 DEF AllIn, Extends
<1>6. AllOk(A, e)
  BY <1>5 DEF Passed, AllOk
<1> DEFINE F == Fetched(e, A)
<1>7. /\ New(all) = Concat(F) /\ IsSeq(F) /\ Len(F) = e
      /\ \A k \in 1 .. e : F[k] = A[k].data /\ IsSeq(A[k].data) /\ Len(A[k].data) = Reads(Part(op, q).pk[k])
  <2>1. Extends(all, A, e) /\ Full(q, e, A)
    BY <1>2, <1>5 DEF Extends, Stand
  <2>2. Gathered(q, e, A, all)
    BY <1>4, <1>5, <1>6, <2>1, NewIs
  <2> QED
    BY <2>2 DEF Gathered
<1>8. flight' = <<>>
  <2>1. flight # <<>> /\ IsSeq(Tail(flight)) /\ Len(Tail(flight)) = 0
    BY <1>4, <1>5, TailSeq
  <2> DEFINE t == Tail(flight)
  <2>2. IsSeq(t) /\ Len(t) = 0
    BY <2>1
  <2> HIDE DEF t
  <2>3. t = <<>>
    BY <2>2, TailSeq
  <2> QED
    BY <2>3 DEF t
<1>9. OnWords(op) \/ op.name = "batch"
  BY <1>3, BodyLen
<1>10. Last(op, q) => Head(stages).test = TRUE
  BY <1>3, <1>4, PartIs
<1>11. ~Last(op, q) => Head(stages).test = FALSE
  BY <1>3, <1>4, PartIs
<1>12. ~Last(op, q) => data' = data \o Concat(F)
  BY <1>7, <1>11 DEF Passed, Collected
<1> HIDE DEF F
<1>13. CASE q = Len(Body(op))
  <2>1. CASE OnWords(op)
    <3>1. Last(op, q)
      BY <1>13, <2>1 DEF Last
    <3>2. e = 1
      <4>1. Part(op, q).pk = <<Xfer("stat", Rd)>>
        BY <1>3, <3>1, PartAt
      <4> QED
        BY <1>5, <4>1 DEF Count
    <3>3. Worded(q, 1, A)
      BY <1>2, <2>1, <3>2 DEF Does, OnWords
    <3>4. Concat(F) = A[1].data
      BY <1>7, <3>2, ConcatOne
    <3>5. Unstuck(A[1].data)
      BY <1>7, <1>10, <3>1, <3>4 DEF Passed, Unstuck
    <3>6. data' = data
      BY <1>10, <3>1 DEF Passed, Collected
    <3>7. WorkDone'
      BY <1>3, <1>6, <1>13, <2>1, <3>2, <3>3, <3>5, <3>6, WordsDone
    <3> QED
      BY <1>4, <1>13, <3>7
  <2>2. CASE op.name = "batch"
    <3>1. ~Last(op, q) /\ Listed(q, e, A)
      BY <1>2, <2>2 DEF Last, OnWords, Does
    <3>2. WorkDone'
      BY <1>3, <1>5, <1>6, <1>7, <1>12, <1>13, <2>2, <3>1, BatchDone DEF F
    <3> QED
      BY <1>4, <1>13, <3>2
  <2> QED
    BY <1>9, <2>1, <2>2
<1>14. CASE q # Len(Body(op))
  <2>1. ~Last(op, q) /\ data' = data \o Concat(F)
    BY <1>12, <1>14 DEF Last
  <2>2. GoOn(Tail(stages)) /\ Len(stages) # 1 /\ cur' = (IF Head(stages).then = NoAp THEN cur ELSE Head(stages).then)
    BY <1>4, <1>14 DEF Passed
  <2>3. Stand(q + 1, 0, A)' /\ q + 1 \in -1 .. Len(Body(op))
    BY <1>3, <1>8, <1>14, <2>2, StandNext
  <2>4. ~(op.name = "read" /\ Moves(q)) /\ (op.name = "batch" => q <= 0) => Concat(F) = <<>>
    <3> SUFFICES ASSUME ~(op.name = "read" /\ Moves(q)), op.name = "batch" => q <= 0 PROVE Concat(F) = <<>>
      OBVIOUS
    <3>1. \A k \in 1 .. e : Reads(Part(op, q).pk[k]) = 0
      BY <1>3, <1>5, <2>1, PartReads
    <3> QED
      BY <1>5, <1>7, <3>1, NothingNew DEF F
  <2>5. Does(q + 1, 0, A)'
    <3>1. CASE OnWords(op)
      <4>1. Worded(q, e, A) /\ op.name # "batch"
        BY <1>2, <3>1 DEF Does, OnWords
      <4>2. ASSUME op.name = "read", Moves(q)
            PROVE  Span(op.a, Reached(op, q, 0)) \o Concat(F) = Span(op.a, Reached(op, q, e))
        <5>1. \A k \in 1 .. e : F[k] = Span(Reached(op, q, k - 1), Reached(op, q, k))
          BY <1>6, <1>7, <4>1, <4>2 DEF Worded, ReadsOn
        <5> QED
          <6>1. Spans(q, e, A)
            BY <5>1 DEF Spans, F
          <6>2. IsSeq(Fetched(e, A)) /\ Len(Fetched(e, A)) = e /\ e \in Nat /\ e = Count(op, q) /\ Legal(op)
            BY <1>3, <1>5, <1>7 DEF F
          <6>3. Spanned(q, e, A)
            BY <1>3, <3>1, <6>1, <6>2, SpanNew
          <6> QED
            BY <6>3 DEF F, Spanned
      <4> DEFINE c == Concat(F)
      <4>3. /\ data' = data \o c
            /\ op.name = "read" /\ Moves(q) => Span(op.a, Reached(op, q, 0)) \o c = Span(op.a, Reached(op, q, e))
            /\ ~(op.name = "read" /\ Moves(q)) => c = <<>>
        BY <2>1, <2>4, <4>1, <4>2
      <4> HIDE DEF c
      <4>4. Worded(q + 1, 0, A)'
        BY <1>3, <1>5, <1>6, <1>14, <3>1, <4>1, <4>3, WordedNext
      <4> QED
        BY <4>1, <4>4 DEF Does
    <3>2. CASE op.name = "batch"
      <4>1. q <= 0
        <5>1. Len(Body(op)) = 1
          BY <1>3, <3>2, BodyLen
        <5> QED
          BY <1>14, <5>1
      <4>2. ~(op.name = "read" /\ Moves(q))
        BY <3>2
      <4>3. data' = data \o <<>>
        BY <2>1, <2>4, <4>1, <4>2
      <4>4. Listed(q + 1, 0, A)'
        BY <1>2, <3>2, <4>1, <4>3, ListedNext DEF Does
      <4> QED
        BY <3>2, <4>4 DEF Does
    <3> QED
      BY <1>9, <3>1, <3>2
  <2>6. Doing'
    <3>1. q + 1 \in -1 .. Len(Body(op'))
      BY <2>3
    <3> QED
      BY <2>3, <2>5, <3>1 DEF Doing
  <2> QED
    BY <2>2, <2>6
<1> QED
  BY <1>13, <1>14

\* What all proofs of a step end with.
LEMMA PeacefulTail ==
    ASSUME Matched, busy, Peaceful, Len(stages) # 1, stages' = Tail(stages)
    PROVE  Peaceful'
<1>1. IsSeq(stages) /\ stages # <<>> /\ Len(stages) \in Nat /\ DOMAIN stages = 1 .. Len(stages)
  BY SeqShape DEF Matched, StagesOK
<1>2. /\ IsSeq(stages') /\ Len(stages') = Len(stages) - 1
      /\ \A i \in 1 .. Len(stages) - 1 : stages'[i] = stages[i + 1]
  BY <1>1, TailSeq
<1>3. DOMAIN stages' = 1 .. Len(stages) - 1
  BY <1>2, SeqShape
<1>4. \A i \in 1 .. Len(stages) - 1 : i + 1 \in DOMAIN stages
  BY <1>1
<1> QED
  BY <1>2, <1>3, <1>4 DEF Peaceful

LEMMA RaiseAchieved ==
    ASSUME Works, ~late, busy, Raise \/ ClearAndRaise, UNCHANGED <<op, mem, waited, late>>
    PROVE  Achieved'
<1>1. Matched /\ (op.name # "write" \/ ~ok => Peaceful) /\ WrittenPrefix
  BY DEF Works, Achieved, Whole, IInv
<1>2. WrittenPrefix'
  BY <1>1, PrefixKept
<1>3. CASE ClearAndRaise
  <2>1. busy' /\ ~ok' /\ stages' = <<ClearErrors>>
    BY <1>3 DEF ClearAndRaise
  <2>2. Peaceful'
    <3>1. DOMAIN <<ClearErrors>> = {1} /\ <<ClearErrors>>[1] = ClearErrors
      OBVIOUS
    <3> QED
      BY <2>1, <3>1, NoWrites DEF Peaceful
  <2> QED
    BY <1>2, <2>1, <2>2 DEF Achieved, WorkDone
<1>4. CASE Raise
  <2>1. CASE ok /\ ~Setup(op)
    <3>1. Head(stages).soft = FALSE
      <4>1. Doing
        BY <2>1 DEF Works, Achieved
      <4>2. PICK q \in -1 .. Len(Body(op)) : \E e, A : Stand(q, e, A)
        BY <4>1 DEF Doing
      <4>3. PICK e, A : Stand(q, e, A)
        BY <4>2
      <4>4. Doer(q, e, A)
        BY <1>1, <2>1, <4>3 DEF Doer, Works, Board
      <4>5. Head(stages) = Part(op, q) /\ Packs(Part(op, q))
        BY <4>4, DoerIs
      <4> QED
        BY <4>5 DEF Packs
    <3>2. ~busy' /\ ~ok'
      BY <1>4, <3>1 DEF Raise, End
    <3> QED
      BY <1>2, <3>2 DEF Achieved, WorkDone
  <2>2. CASE ~(ok /\ ~Setup(op))
    <3>1. Peaceful
      BY <1>1, <2>2 DEF Setup
    <3>2. \/ ~busy' /\ (ok' = ok \/ ~ok')
          \/ stages' = Tail(stages) /\ Len(stages) > 1 /\ busy' = busy /\ ok' = ok
      BY <1>4 DEF Raise, End, GoOn
    <3>3. ~(ok' /\ ~Setup(op'))
      BY <2>2, <3>2
    <3>4. WorkDone'
      BY <3>3 DEF WorkDone, Setup
    <3>5. busy' => Peaceful'
      <4>1. IsSeq(stages) /\ Len(stages) \in Nat
        BY <1>1, SeqShape DEF Matched, StagesOK
      <4>2. busy' => Len(stages) # 1 /\ stages' = Tail(stages)
        BY <3>2, <4>1
      <4> QED
        BY <1>1, <3>1, <4>2, PeacefulTail
    <3> QED
      BY <1>2, <3>3, <3>4, <3>5 DEF Achieved
  <2> QED
    BY <2>1, <2>2
<1> QED
  BY <1>3, <1>4

LEMMA RecvAchieved ==
    ASSUME Works, ~late, Recv
    PROVE  Achieved'
<1> DEFINE all == Append(got, flight[1].ans[1])
<1>1. /\ busy /\ flight # <<>> /\ flight[1].ans # <<>> /\ flight' = Tail(flight)
      /\ UNCHANGED <<op, dp, mem, link, late, waited>>
      /\ \/ Raise
         \/ AllCome(all) /\ Judge(all)
         \/ got' = all /\ UNCHANGED <<busy, ok, stages, sent, data, cur>>
  BY DEF Recv, Answered
<1>2. Matched /\ (op.name # "write" \/ ~ok => Peaceful) /\ WrittenPrefix /\ Whole /\ Board
  BY <1>1 DEF Works, Achieved, Whole, IInv
<1>3. WrittenPrefix'
  BY <1>1, <1>2, PrefixKept
<1>4. ok /\ ~Setup(op) => Doing
  BY <1>1 DEF Works, Achieved
<1> HIDE DEF all
<1>5. CASE Raise \/ ClearAndRaise
  BY <1>1, <1>5, RaiseAchieved
<1>6. CASE AllCome(all) /\ Passed(all)
  <2>1. CASE ok /\ ~Setup(op)
    <3>1. /\ Len(stages) = 1 => WorkDone'
          /\ Len(stages) # 1 => Doing'
      BY <1>1, <1>2, <1>4, <1>6, <2>1, PassedDoing DEF all
    <3>2. Len(stages) = 1 => ~busy'
      BY <1>6 DEF Passed, End
    <3>3. Len(stages) # 1 => busy' = busy /\ ok' = ok /\ stages' = Tail(stages)
      BY <1>6 DEF Passed, GoOn
    <3>4. Len(stages) # 1 /\ op.name # "write" => Peaceful'
      BY <1>1, <1>2, <3>3, PeacefulTail
    <3>5. CASE Len(stages) = 1
      BY <1>3, <3>1, <3>2, <3>5 DEF Achieved
    <3>6. CASE Len(stages) # 1
      <4>1. busy' /\ ok' /\ op' = op
        BY <1>1, <2>1, <3>3, <3>6
      <4>2. WorkDone'
        BY <4>1 DEF WorkDone
      <4> QED
        BY <1>3, <3>1, <3>4, <3>6, <4>1, <4>2 DEF Achieved
    <3> QED
      BY <3>5, <3>6
  <2>2. CASE ~(ok /\ ~Setup(op))
    <3>1. Peaceful
      BY <1>2, <2>2 DEF Setup
    <3>2. \/ ~busy' /\ ok' = ok
          \/ stages' = Tail(stages) /\ Len(stages) # 1 /\ busy' = busy /\ ok' = ok
      BY <1>6 DEF Passed, End, GoOn
    <3>3. ~(ok' /\ ~Setup(op'))
      BY <1>1, <2>2, <3>2
    <3>4. WorkDone'
      BY <3>3 DEF WorkDone, Setup
    <3>5. busy' => Peaceful'
      BY <1>1, <1>2, <3>1, <3>2, PeacefulTail
    <3> QED
      BY <1>3, <3>3, <3>4, <3>5 DEF Achieved
  <2> QED
    BY <2>1, <2>2
<1>7. CASE got' = all /\ UNCHANGED <<busy, ok, stages, sent, data, cur>>
  <2>1. ok /\ ~Setup(op) => Doing'
    <3> SUFFICES ASSUME ok, ~Setup(op) PROVE Doing'
      OBVIOUS
    <3>1. PICK q \in -1 .. Len(Body(op)) : \E e, A : Stand(q, e, A) /\ Does(q, e, A)
      BY <1>4 DEF Doing
    <3>2. PICK e, A : Stand(q, e, A) /\ Does(q, e, A)
      BY <3>1
    <3>3. Doer(q, e, A)
      BY <1>1, <1>2, <3>2 DEF Doer, Board
    <3>4. Stand(q, e, A)'
      BY <1>1, <1>7, <3>3, RecvStand DEF all
    <3>5. Does(q, e, A)'
      BY <1>1, <1>7, <3>2 DEF Does, Listed, Worded, ReadsOn, OnTrack, Tested, Running, Sound, Written, Cursor
    <3>6. q \in -1 .. Len(Body(op'))
      BY <1>1
    <3> QED
      BY <3>4, <3>5, <3>6 DEF Doing
  <2>2. op.name # "write" \/ ~ok => Peaceful'
    BY <1>2, <1>7 DEF Peaceful
  <2>3. busy' /\ WorkDone'
    BY <1>1, <1>7 DEF WorkDone
  <2> QED
    BY <1>1, <1>3, <1>7, <2>1, <2>2, <2>3 DEF Achieved
<1> QED
  BY <1>1, <1>5, <1>6, <1>7, JudgeCases

\* An operation begins.
LEMMA LegalBegins ==
    ASSUME NEW o \in Ops, ~Setup(o), OnWords(o) => o.a + o.n <= Top
    PROVE  Legal(o)
<1>1. OnWords(o) => o \in [name : {"read", "write"}, a : 0 .. Top - 1, n : 1 .. Top]
  BY DEF Ops, OnWords
<1>2. OnWords(o) => o.a \in 0 .. Top - 1 /\ o.n \in 1 .. Top
  BY <1>1
<1>3. OnWords(o) => o.a \in Nat /\ o.n \in Nat \ {0}
  BY <1>2, SizesAssumption
<1> QED
  BY <1>3 DEF Legal, OnBus

LEMMA BeginDoing ==
    ASSUME Matched, NEW o, Legal(o), ~busy, Start(o), flight' = flight
    PROVE  Doing' /\ (o.name # "write" => Peaceful')
<1>0. PICK q \in {-1, 1} : q = IF cur = Needs(o) THEN 1 ELSE -1
  OBVIOUS
<1>1. op' = o /\ stages' = Plan(o) /\ sent' = 0 /\ got' = <<>> /\ data' = <<>> /\ mem' = [a \in 0 .. Top - 1 |-> 0]
      /\ flight' = <<>>
  BY DEF Matched, Start
<1>2. q = 1 => cur' = Needs(o)
  BY <1>0 DEF Start, Forget, Legal
<1>4. /\ IsSeq(Plan(o)) /\ Len(Plan(o)) = Len(Body(o)) + 1 - q
      /\ \A j \in 1 .. Len(Plan(o)) : Plan(o)[j] = Part(o, q + j - 1)
  BY <1>0, PlanIs
<1>5. Len(Body(o)) \in Nat \ {0} /\ (OnWords(o) \/ o.name = "batch")
  BY BodyLen
<1>6. q \in -1 .. Len(Body(o)) /\ (q > 0 => q = 1)
  BY <1>0, <1>5
<1>7. At(q)'
  BY <1>1, <1>2, <1>4, <1>6 DEF At
<1>8. ASSUME NEW A PROVE Stand(q, 0, A)'
  <2>1. Len(got') = 0 /\ Len(flight') = 0
    BY <1>1, NothingSeq
  <2>2. Come(0, A)'
    BY <1>1, <2>1 DEF Come
  <2>3. Full(q, 0, A)'
    BY DEF Full
  <2> QED
    BY <1>7, <2>2, <2>3 DEF Stand
<1>9. ASSUME NEW A PROVE Does(q, 0, A)'
  <2>1. \A k : k \notin 1 .. 0
    OBVIOUS
  <2>2. CASE OnWords(o)
    <3>1. OnBus(o) /\ o.a \in Nat
      BY <2>2, BodyLen DEF OnBus
    <3>2. Reached(o, q, 0) = o.a
      <4>1. q <= 1
        BY <1>0
      <4> QED
        BY <1>6, <2>2, <4>1, ReachedNext
    <3>3. ~Moves(q)
      BY <1>0 DEF Moves
    <3>4. Span(o.a, o.a) = <<>>
      BY <3>1, SpanIs
    <3>5. ReadsOn(q, 0, A)'
      BY <1>1, <2>1, <3>2, <3>3, <3>4 DEF ReadsOn
    <3>6. \A b : b \notin o.a .. o.a - 1
      BY <3>1
    <3>7. Sound(op, Reached(op, q, 0))'
      BY <1>1, <3>2, <3>6 DEF Sound, Written
    <3>8. AllOk(A, 0)
      BY DEF AllOk
    <3>9. OnTrack(q, 0, A)'
      BY <3>3, <3>7, <3>8 DEF OnTrack
    <3>10. Tested(q, 0, A)'
      BY DEF Tested
    <3>11. \A b \in DOMAIN mem' : mem'[b] = 0
      BY <1>1
    <3>12. Worded(q, 0, A)'
      BY <3>5, <3>9, <3>10, <3>11 DEF Worded
    <3> QED
      BY <1>1, <2>2, <3>12 DEF Does, OnWords
  <2>3. CASE o.name = "batch"
    <3>1. Listed(q, 0, A)'
      BY <1>1, <2>1 DEF Listed
    <3> QED
      BY <1>1, <2>3, <3>1 DEF Does
  <2> QED
    BY <1>5, <2>2, <2>3
<1>10. Doing'
  BY <1>1, <1>6, <1>8, <1>9 DEF Doing
<1>11. ASSUME o.name # "write" PROVE Peaceful'
  <2>1. ASSUME NEW j \in DOMAIN Plan(o), NEW i \in DOMAIN Plan(o)[j].pk PROVE Harmless(Plan(o)[j].pk[i].acc)
    <3> DEFINE x == q + j - 1
    <3>1. j \in 1 .. Len(Plan(o)) /\ Len(Plan(o)) \in Nat
      BY <1>4, SeqShape
    <3>2. x \in -1 .. Len(Body(o)) /\ Plan(o)[j] = Part(o, x)
      <4>1. x \in -1 .. Len(Body(o))
        BY <1>0, <1>4, <1>5, <3>1
      <4> QED
        BY <1>4, <3>1, <4>1
    <3> HIDE DEF x
    <3>3. Quiet(Part(o, x))
      BY <1>11, <3>2, PartIs
    <3> QED
      BY <3>2, <3>3 DEF Quiet
  <2> QED
    BY <1>1, <2>1 DEF Peaceful
<1> QED
  BY <1>10, <1>11

LEMMA SetupAchieved ==
    ASSUME NEW o, Setup(o), Start(o)
    PROVE  Achieved'
<1>1. op' = o /\ busy' = TRUE /\ mem' = [a \in 0 .. Top - 1 |-> 0]
  BY DEF Start
<1>2. stages' = InitSwd
  BY DEF Start, Plan, Setup
<1>3. Peaceful'
  BY <1>2, NoWrites DEF Peaceful
<1>4. WrittenPrefix'
  BY <1>1 DEF WrittenPrefix
<1> QED
  BY <1>1, <1>3, <1>4 DEF Achieved, WorkDone

LEMMA BeginAchieved ==
    ASSUME Works, NEW o \in Ops, Begin(o), ~late
    PROVE  Achieved'
<1>1. ~busy /\ Start(o) /\ flight' = flight /\ (OnWords(o) => o.a + o.n <= Top)
  BY DEF Begin, OnWords
<1>2. CASE Setup(o)
  BY <1>1, <1>2, SetupAchieved
<1>3. CASE ~Setup(o)
  <2>1. Matched
    BY DEF Works, Whole, IInv
  <2>2. Legal(o)
    BY <1>1, <1>3, LegalBegins
  <2>3. Doing' /\ (o.name # "write" => Peaceful')
    BY <1>1, <2>1, <2>2, BeginDoing
  <2>4. op' = o /\ busy' = TRUE /\ ok' = TRUE /\ mem' = [a \in 0 .. Top - 1 |-> 0]
    BY <1>1 DEF Start
  <2>5. WrittenPrefix'
    BY <2>4 DEF WrittenPrefix
  <2> QED
    BY <2>3, <2>4, <2>5 DEF Achieved, WorkDone
<1> QED
  BY <1>2, <1>3

\* A packet is sent; the link goes or comes.
LEMMA DoesOn ==
    ASSUME NEW q, NEW e, NEW A, Does(q, e, A), UNCHANGED <<op, data, mem>>,
           link' # "up" \/ UNCHANGED <<dp, link, waited>>
    PROVE  Does(q, e, A)'
<1>1. Running' => UNCHANGED <<dp, link, waited>> /\ Running
  BY DEF Running
<1>2. CASE op.name = "batch"
  <2>1. Listed(q, e, A)
    BY <1>2 DEF Does
  <2>2. Listed(q, e, A)'
    BY <1>1, <2>1 DEF Listed
  <2> QED
    BY <1>2, <2>2 DEF Does
<1>3. CASE op.name # "batch"
  <2>1. ReadsOn(q, e, A) /\ OnTrack(q, e, A) /\ Tested(q, e, A) /\ \A b \in DOMAIN mem : mem[b] # 0 => b < Reached(op, q, e)
    BY <1>3 DEF Does, Worded
  <2>2. ReadsOn(q, e, A)'
    BY <2>1 DEF ReadsOn
  <2>3. OnTrack(q, e, A)'
    <3> SUFFICES ASSUME Running' PROVE OnTrack(q, e, A)'
      BY DEF OnTrack
    <3> QED
      BY <1>1, <2>1 DEF OnTrack, Sound, Written, Cursor
  <2>4. Tested(q, e, A)'
    BY <2>1 DEF Tested, Sound, Written
  <2> QED
    BY <1>3, <2>1, <2>2, <2>3, <2>4 DEF Does, Worded
<1> QED
  BY <1>2, <1>3

LEMMA SameAchieved ==
    ASSUME Works, ~late, UNCHANGED <<op, busy, ok, stages, data, mem, waited, late>>,
           link' # "up" \/ UNCHANGED <<dp, link>>, Send \/ UNCHANGED <<got, sent, cur, flight>>
    PROVE  Achieved'
<1>1. Achieved /\ Whole /\ Board /\ Matched
  BY DEF Works, Whole, IInv
<1>2. ASSUME busy, ok, ~Setup(op) PROVE Doing'
  <2>1. Doing
    BY <1>1, <1>2 DEF Achieved
  <2>2. PICK q \in -1 .. Len(Body(op)) : \E e, A : Stand(q, e, A) /\ Does(q, e, A)
    BY <2>1 DEF Doing
  <2>3. PICK e, A : Stand(q, e, A) /\ Does(q, e, A)
    BY <2>2
  <2>4. Does(q, e, A)'
    BY <2>3, DoesOn
  <2>5. CASE Send
    <3>1. Doer(q, e, A)
      BY <1>1, <1>2, <2>3 DEF Doer, Board
    <3>2. Pipe
      BY <1>1 DEF Whole
    <3> QED
      BY <2>4, <2>5, <3>1, <3>2, SendStand DEF Doing
  <2>6. CASE UNCHANGED <<got, sent, cur, flight>>
    <3>1. Stand(q, e, A)'
      BY <2>3, <2>6 DEF Stand, At, Come, Full
    <3> QED
      BY <2>4, <3>1 DEF Doing
  <2> QED
    BY <2>5, <2>6
<1>3. busy /\ (op.name # "write" \/ ~ok) => Peaceful'
  BY <1>1 DEF Achieved, Peaceful
<1>4. WorkDone'
  BY <1>1 DEF Achieved, WorkDone, Asked
<1>5. WrittenPrefix'
  BY <1>1, PrefixKept DEF Achieved
<1> QED
  BY <1>2, <1>3, <1>4, <1>5 DEF Achieved

LEMMA ExecuteAchieved ==
    ASSUME Works, ~late, Execute
    PROVE  Achieved'
<1>1. Achieved /\ Whole /\ Board /\ Matched
  BY DEF Works, Whole, IInv
<1>2. UNCHANGED <<op, busy, ok, stages, late>>
  BY DEF Execute, host
<1>3. busy
  <2>1. flight # <<>>
    <3>1. DOMAIN <<>> = {}
      OBVIOUS
    <3> QED
      BY <3>1 DEF Execute
  <2> QED
    BY <1>1, <2>1 DEF Matched
<1>4. WorkDone'
  BY <1>2, <1>3 DEF WorkDone
<1>5. CASE ok /\ ~Setup(op)
  <2>1. Doing /\ WrittenPrefix /\ (op.name # "write" => Peaceful)
    BY <1>1, <1>3, <1>5 DEF Achieved
  <2>2. Doing' /\ WrittenPrefix'
    BY <1>1, <1>3, <1>5, <2>1, ExecuteDoing
  <2>3. op.name # "write" => Peaceful'
    BY <1>2, <2>1 DEF Peaceful
  <2> QED
    BY <1>2, <1>4, <1>5, <2>2, <2>3 DEF Achieved
<1>6. CASE ~(ok /\ ~Setup(op))
  <2>1. Peaceful /\ WrittenPrefix
    BY <1>1, <1>3, <1>6 DEF Achieved, Setup
  <2>2. Peaceful' /\ WrittenPrefix'
    BY <1>1, <1>3, <2>1, ExecutePeaceful
  <2> QED
    BY <1>2, <1>4, <1>6, <2>2 DEF Achieved
<1> QED
  BY <1>5, <1>6

(* The invariant holds. *)
LEMMA BoardNext == Works /\ [Next]_vars => Board'
<1> SUFFICES ASSUME Works, [Next]_vars PROVE Board'
  OBVIOUS
<1>1. Board /\ Whole /\ IsSeq(flight)
  BY DEF Works, Whole, Pipe
<1>2. ASSUME Slots', UNCHANGED <<op, dp, mem>> PROVE Board'
  BY <1>1, <1>2 DEF Board
<1>3. \A i \in 1 .. Len(flight) : DOMAIN flight[i] = {"pkt", "ans"}
  BY <1>1 DEF Board, Slots
<1>4. flight' = flight => Slots'
  BY <1>1 DEF Board, Slots
<1>5. ASSUME NEW o \in Ops, Start(o), Slots', Setup(o) \/ Legal(o) PROVE Board'
  <2>1. op' = o /\ dp' = dp /\ mem' = [a \in 0 .. Top - 1 |-> 0]
    BY <1>5 DEF Start
  <2>2. ~Setup(op)' => Legal(op)'
    BY <1>5, <2>1 DEF Legal, OnWords, OnBus, Setup
  <2> QED
    BY <1>1, <1>5, <2>1, <2>2 DEF Board
<1>6. CASE Call
  <2>1. PICK o \in Ops : Begin(o)
    BY <1>6 DEF Call
  <2>2. Start(o) /\ flight' = flight /\ (OnWords(o) => o.a + o.n <= Top)
    BY <2>1 DEF Begin, OnWords
  <2> QED
    BY <1>4, <1>5, <2>2, LegalBegins
<1>7. CASE Open
  <2> DEFINE o == [name |-> "open"]
  <2>1. o \in Ops /\ Setup(o)
    BY OpenIsOp DEF Setup
  <2>2. Start(o) /\ flight' = Unanswered
    BY <1>7 DEF Open
  <2> HIDE DEF o
  <2>3. Slots'
    <3>1. \A i \in 1 .. Len(Unanswered) : \E j \in 1 .. Len(flight) : Unanswered[i] = flight[j]
      BY <1>1, UnansweredIs
    <3> QED
      BY <1>3, <2>2, <3>1 DEF Slots
  <2> QED
    BY <1>5, <2>1, <2>2, <2>3
<1>8. CASE Send
  <2>1. /\ \A i \in 1 .. Len(flight) : flight'[i] = flight[i]
        /\ Len(flight') = Len(flight) + 1
        /\ flight'[Len(flight) + 1] = [pkt |-> Head(stages).pk[sent + 1], ans |-> <<>>]
    BY <1>1, <1>8, SendPipe DEF Whole
  <2>2. Len(flight) \in Nat
    BY <1>1, SeqShape
  <2>3. DOMAIN flight'[Len(flight) + 1] = {"pkt", "ans"}
    BY <2>1
  <2>4. \A i \in 1 .. Len(flight) + 1 : i \in 1 .. Len(flight) \/ i = Len(flight) + 1
    BY <2>2
  <2>5. Slots'
    BY <1>3, <2>1, <2>3, <2>4 DEF Slots
  <2> QED
    BY <1>2, <1>8, <2>5 DEF Send
<1>9. CASE Recv
  <2>1. flight # <<>> /\ flight' = Tail(flight) /\ UNCHANGED <<op, dp, mem>>
    BY <1>9 DEF Recv, Answered
  <2>2. /\ Len(flight') = Len(flight) - 1 /\ Len(flight) \in Nat
        /\ \A i \in 1 .. Len(flight) - 1 : flight'[i] = flight[i + 1]
    BY <1>1, <2>1, TailSeq, SeqShape
  <2>3. \A i \in 1 .. Len(flight) - 1 : i + 1 \in 1 .. Len(flight)
    BY <2>2
  <2>4. Slots'
    BY <1>3, <2>2, <2>3 DEF Slots
  <2> QED
    BY <1>2, <2>1, <2>4
<1>10. CASE SendFails \/ Timeout
  BY <1>2, <1>4, <1>10 DEF SendFails, Timeout
<1>11. CASE Execute
  BY <1>1, <1>11, ExecuteBoard
<1>12. CASE LinkLost
  <2>1. Slots' /\ op' = op /\ mem' = mem /\ dp' = Lost
    BY <1>4, <1>12 DEF LinkLost, host
  <2>2. DOMAIN Lost.tar = APs
    BY DEF Lost
  <2> QED
    BY <1>1, <2>1, <2>2 DEF Board
<1>13. CASE LinkBack
  BY <1>2, <1>4, <1>13 DEF LinkBack, host
<1>14. CASE UNCHANGED vars
  BY <1>2, <1>4, <1>14 DEF vars, host
<1> QED
  BY <1>6, <1>7, <1>8, <1>9, <1>10, <1>11, <1>12, <1>13, <1>14 DEF Next, Host

LEMMA AchievedNext == Works /\ [Next]_vars => Achieved'
<1> SUFFICES ASSUME Works, [Next]_vars, ~late' PROVE Achieved'
  BY DEF Achieved
<1>1. late \in BOOLEAN
  BY DEF Works, Whole, IInv
<1>2. CASE Call
  <2>1. PICK o \in Ops : Begin(o)
    BY <1>2 DEF Call
  <2>2. ~late
    BY <2>1 DEF Begin
  <2> QED
    BY <2>1, <2>2, BeginAchieved
<1>3. CASE Open
  <2> DEFINE o == [name |-> "open"]
  <2>1. Start(o) /\ Setup(o)
    BY <1>3 DEF Open, Setup
  <2> QED
    BY <2>1, SetupAchieved
<1>4. CASE Send
  <2>1. ~late /\ UNCHANGED <<op, busy, ok, stages, data, mem, waited, late, dp, link>>
    BY <1>4 DEF Send
  <2> QED
    BY <1>4, <2>1, SameAchieved
<1>5. CASE Recv
  <2>1. ~late
    BY <1>5 DEF Recv
  <2> QED
    BY <1>5, <2>1, RecvAchieved
<1>6. CASE SendFails \/ Timeout
  <2>1. busy /\ Raise /\ UNCHANGED <<op, mem, waited>> /\ ~late /\ late' = late
    BY <1>1, <1>6 DEF SendFails, Timeout
  <2> QED
    BY <2>1, RaiseAchieved
<1>7. CASE Execute
  <2>1. ~late
    BY <1>7 DEF Execute
  <2> QED
    BY <1>7, <2>1, ExecuteAchieved
<1>8. CASE LinkLost \/ LinkBack
  <2>1. ~late /\ UNCHANGED <<op, busy, ok, stages, data, mem, waited, late, got, sent, cur, flight>> /\ link' # "up"
    BY <1>8 DEF LinkLost, LinkBack, host
  <2> QED
    BY <2>1, SameAchieved
<1>9. CASE UNCHANGED vars
  <2>1. ~late /\ UNCHANGED <<op, busy, ok, stages, data, mem, waited, late, dp, link, got, sent, cur, flight>>
    BY <1>9 DEF vars, host
  <2> QED
    BY <2>1, SameAchieved
<1> QED
  BY <1>2, <1>3, <1>4, <1>5, <1>6, <1>7, <1>8, <1>9 DEF Next, Host

\* What an operation has achieved is what it was begun for, whatever happens.
LEMMA WorksInit == Init => Works
<1> SUFFICES ASSUME Init PROVE Works
  OBVIOUS
<1>1. /\ op = [name |-> "open"] /\ busy = FALSE /\ ok = FALSE /\ flight = <<>>
      /\ dp = Lost /\ mem = [a \in 0 .. Top - 1 |-> 0]
  BY DEF Init
<1>2. Slots
  <2>1. 1 .. Len(flight) = {}
    BY <1>1, NothingSeq
  <2> QED
    BY <2>1 DEF Slots
<1>3. Setup(op) /\ DOMAIN dp.tar = APs
  BY <1>1 DEF Setup, Lost
<1>4. Board
  BY <1>1, <1>2, <1>3 DEF Board
<1>5. Achieved
  BY <1>1 DEF Achieved, WorkDone, WrittenPrefix
<1> QED
  BY <1>4, <1>5, WholeInit DEF Works

LEMMA WorksNext == Works /\ [Next]_vars => Works'
BY WholeNext, BoardNext, AchievedNext DEF Works

\* An operation that succeeds has done its work: it has read the words of its range
\* in their order, or every word of its data is in its place, and it touched no bad
\* word.  For every bus, page, packet size, batch and number of packets in flight,
\* and through every WAIT, bus error, failed send, timeout, reset of the chip and
\* reconnect() before and during it, as long as no answer was left behind (WorkDone).
THEOREM WorkDoneAlways == Spec => []WorkDone
<1>1. Works => WorkDone
  <2>1. CASE late
    BY <2>1 DEF WorkDone
  <2>2. CASE ~late
    BY <2>2 DEF Works, Achieved
  <2> QED
    BY <2>1, <2>2
<1> QED
  BY <1>1, WorksInit, WorksNext, PTL DEF Spec

\* A write that fails, or is still going on, has written a prefix of its words, each
\* in its place: the packets that were in flight behind an error write nothing past
\* it.  After a WAIT, which stops one packet and not the next, it may have left a
\* gap, but even then nothing outside its range is written (WrittenPrefix).
THEOREM WrittenPrefixAlways == Spec => []WrittenPrefix
<1>1. Works => WrittenPrefix
  <2>1. CASE late
    BY <2>1 DEF WrittenPrefix
  <2>2. CASE ~late
    BY <2>2 DEF Works, Achieved
  <2> QED
    BY <2>1, <2>2
<1> QED
  BY <1>1, WorksInit, WorksNext, PTL DEF Spec
=============================================================================
