--------------------------- MODULE SessionProofs ---------------------------
(***************************************************************************)
(* Proofs about Session, for any number of chip resets and lost links, of  *)
(* repeated requests, and of unread answers.                               *)
(*                                                                         *)
(* The invariant is about what is under way in the socket while a session  *)
(* is open.  While send() waits for an acknowledgement it reads away what  *)
(* comes before the "+": those bytes are dead, and so is a request that    *)
(* was repeated.  Of the others, at most GDB's last request is there to be *)
(* handled, and only before it has been answered.                          *)
(***************************************************************************)
EXTENDS Session, TLAPS

Bytes   == {Plus, CtrlC} \cup (Kinds \X Ids)
Packet  == {Plus, O} \cup ({"stop", "E01"} \X (Ids \cup {None})) \cup ({"ok"} \X Ids)

\* Places in the socket: "+"; what the server at p will handle, and the
\* requests among it; what the server has sent but "+", and for a request.
Pluses(q)      == {i \in DOMAIN q : q[i] = Plus}
Alive(p, q)    == {i \in DOMAIN q : p = "ack" => \E j \in Pluses(q) : j < i}
Requests(p, q) == {i \in Alive(p, q) : q[i][1] \in Kinds}
Packets(q)     == {i \in DOMAIN q : q[i] # Plus}
Answers(q)     == {i \in DOMAIN q : q[i][2] # None}

TypeOK ==
    /\ pc \in Places /\ (pc = "ack" => after \in {"prompt", "cont", "lost", "bye"})
    /\ noAck \in BOOLEAN /\ startNoAck \in BOOLEAN /\ handling \in Ids \cup {None}
    /\ conn \in {"none", "open", "half", "shut"}
    /\ toServer \in Seq(Bytes) /\ toGdb \in Seq(Packet)
    /\ gdb \in {"off", "idle", "wait", "run"} /\ asked \in Kinds \X Ids
    /\ acked \in BOOLEAN /\ gdbNoAck \in BOOLEAN
    /\ crossed \in BOOLEAN /\ mixed \in BOOLEAN

-----------------------------------------------------------------------------
(* The socket.                                                             *)

LEMMA ByteFacts ==
    /\ Plus \in Bytes /\ CtrlC \in Bytes /\ Plus # CtrlC /\ \A k \in Kinds, i \in Ids : <<k, i>> \in Bytes
    /\ Plus \in Packet /\ O \in Packet /\ Plus # O
    /\ Plus[1] \notin Kinds /\ CtrlC[1] \notin Kinds /\ Plus[2] = None /\ O[2] = None
    /\ O[1] \notin {"stop", "E01", "ok"} /\ Plus[1] \notin {"stop", "E01", "ok"}
    /\ \A k \in Kinds, i \in Ids : <<k, i>> # Plus /\ <<k, i>> # CtrlC
    /\ None \notin Ids
  BY DEF Bytes, Packet, Plus, CtrlC, O, Kinds, Ids, None

LEMMA PacketFacts ==
    ASSUME NEW w \in {"stop", "E01", "ok"}, NEW i \in Ids \cup {None}, w = "ok" => i # None
    PROVE  <<w, i>> \in Packet /\ <<w, i>> # Plus /\ <<w, i>> # O /\ <<w, i>>[1] = w /\ <<w, i>>[2] = i
  BY DEF Packet, Plus, O

LEMMA TailFacts ==
    ASSUME NEW S, NEW q \in Seq(S), q # <<>>
    PROVE  /\ Tail(q) \in Seq(S) /\ Head(q) \in S /\ Head(q) = q[1] /\ 1 \in DOMAIN q
           /\ \A i \in DOMAIN Tail(q) : i \in Nat /\ i >= 1 /\ i + 1 \in DOMAIN q /\ Tail(q)[i] = q[i + 1]
           /\ \A j \in DOMAIN q : j \in Nat /\ (j = 1 \/ (j - 1 \in DOMAIN Tail(q) /\ Tail(q)[j - 1] = q[j]))
  OBVIOUS

LEMMA AppendFacts ==
    ASSUME NEW S, NEW q \in Seq(S), NEW x \in S
    PROVE  /\ Append(q, x) \in Seq(S) /\ Len(Append(q, x)) = Len(q) + 1 /\ Append(q, x) # <<>>
           /\ DOMAIN Append(q, x) = DOMAIN q \cup {Len(q) + 1} /\ Append(q, x)[Len(q) + 1] = x
           /\ \A i \in DOMAIN q : i \in Nat /\ i < Len(q) + 1 /\ Append(q, x)[i] = q[i]
           /\ Head(Append(q, x)) = IF q = <<>> THEN x ELSE Head(q)
  OBVIOUS

\* The server reads a byte, and goes to p2.
LEMMA ReadByte ==
    ASSUME NEW q \in Seq(Bytes), q # <<>>, NEW p, NEW p2,
           \/ p = "ack" /\ p2 = "ack" /\ Head(q) # Plus
           \/ p = "ack" /\ p2 # "ack" /\ Head(q) = Plus
           \/ p # "ack" /\ p2 # "ack"
    PROVE  LET t == Tail(q)
           IN  /\ \A i \in Pluses(t) : i \in Nat /\ i + 1 \in Pluses(q)
               /\ \A j \in Pluses(q) : j \in Nat /\ (j = 1 \/ j - 1 \in Pluses(t))
               /\ \A i \in Alive(p2, t) : i \in Nat /\ i + 1 \in Alive(p, q)
               /\ \A i \in Requests(p2, t) : i \in Nat /\ i + 1 \in Requests(p, q) /\ t[i] = q[i + 1]
               /\ \A j \in Requests(p, q) : j \in Nat /\ (j = 1 \/ (j - 1 \in Requests(p2, t) /\ t[j - 1] = q[j]))
               /\ 1 \in Requests(p, q) <=> p # "ack" /\ Head(q)[1] \in Kinds
               /\ 1 \in Alive(p, q) <=> p # "ack"
  <1> DEFINE t == Tail(q)
  <1>1. /\ Head(q) = q[1] /\ 1 \in DOMAIN q
        /\ \A i \in DOMAIN t : i \in Nat /\ i >= 1 /\ i + 1 \in DOMAIN q /\ t[i] = q[i + 1]
        /\ \A j \in DOMAIN q : j \in Nat /\ (j = 1 \/ (j - 1 \in DOMAIN t /\ t[j - 1] = q[j]))
    BY TailFacts
  <1> HIDE DEF t
  <1>2. /\ \A i \in Pluses(t) : i \in Nat /\ i >= 1 /\ i + 1 \in Pluses(q)
        /\ \A j \in Pluses(q) : j \in Nat /\ (j = 1 \/ j - 1 \in Pluses(t))
    BY <1>1 DEF Pluses
  <1>3. \A j \in Pluses(q) : j >= 1
    BY <1>1, <1>2 DEF Pluses
  <1>4. /\ \A i \in Alive(p2, t) : i \in Nat /\ i + 1 \in Alive(p, q) /\ i \in DOMAIN t
        /\ \A j \in Alive(p, q) : j \in Nat /\ j \in DOMAIN q /\ (j = 1 \/ j - 1 \in Alive(p2, t))
        /\ 1 \in Alive(p, q) <=> p # "ack"
    <2>1. CASE p # "ack" /\ p2 # "ack"
      BY <1>1, <2>1 DEF Alive
    <2>2. CASE p = "ack" /\ p2 # "ack" /\ Head(q) = Plus
      <3>1. 1 \in Pluses(q)
        BY <1>1, <2>2 DEF Pluses
      <3>2. Alive(p, q) = {j \in DOMAIN q : j # 1}
        <4>1. ASSUME NEW j \in DOMAIN q, j # 1 PROVE j \in Alive(p, q)
          <5>1. 1 < j
            BY <1>1, <4>1
          <5>2. QED
            BY <3>1, <5>1 DEF Alive
        <4>2. 1 \notin Alive(p, q)
          BY <1>2, <1>3, <2>2 DEF Alive
        <4>3. QED
          BY <4>1, <4>2 DEF Alive
      <3>3. Alive(p2, t) = DOMAIN t
        BY <2>2 DEF Alive
      <3>4. QED
        BY <1>1, <2>2, <3>2, <3>3
    <2>3. CASE p = "ack" /\ p2 = "ack" /\ Head(q) # Plus
      <3>1. 1 \notin Pluses(q)
        BY <1>1, <2>3 DEF Pluses
      <3>2. ASSUME NEW i \in Alive(p2, t) PROVE i \in Nat /\ i \in DOMAIN t /\ i + 1 \in Alive(p, q)
        <4>1. PICK j \in Pluses(t) : j < i
          BY <2>3, <3>2 DEF Alive
        <4>2. i \in DOMAIN t /\ i \in Nat /\ i + 1 \in DOMAIN q /\ j \in Nat /\ j + 1 \in Pluses(q) /\ j + 1 < i + 1
          BY <1>1, <1>2, <4>1 DEF Alive
        <4>3. QED
          BY <4>2 DEF Alive
      <3>3. ASSUME NEW j \in Alive(p, q) PROVE j \in Nat /\ j \in DOMAIN q /\ (j = 1 \/ j - 1 \in Alive(p2, t))
        <4>1. PICK k \in Pluses(q) : k < j
          BY <2>3, <3>3 DEF Alive
        <4>2. k # 1 /\ k - 1 \in Pluses(t) /\ k \in Nat /\ j \in Nat /\ j \in DOMAIN q /\ k - 1 < j - 1
          BY <1>1, <1>2, <3>1, <4>1 DEF Alive
        <4>3. j = 1 \/ j - 1 \in DOMAIN t
          BY <1>1, <4>2
        <4>4. QED
          BY <4>2, <4>3 DEF Alive
      <3>4. 1 \notin Alive(p, q)
        BY <1>2, <1>3, <2>3 DEF Alive
      <3>5. QED
        BY <2>3, <3>2, <3>3, <3>4
    <2>4. QED
      BY <2>1, <2>2, <2>3
  <1>5. /\ \A i \in Requests(p2, t) : i \in Nat /\ i + 1 \in Requests(p, q) /\ t[i] = q[i + 1]
        /\ \A j \in Requests(p, q) : j \in Nat /\ (j = 1 \/ (j - 1 \in Requests(p2, t) /\ t[j - 1] = q[j]))
        /\ 1 \in Requests(p, q) <=> p # "ack" /\ Head(q)[1] \in Kinds
    BY <1>1, <1>4 DEF Requests
  <1>6. QED
    BY <1>2, <1>4, <1>5 DEF t

\* GDB sends x.
LEMMA SendByte ==
    ASSUME NEW q \in Seq(Bytes), NEW x \in Bytes, NEW p
    PROVE  LET t    == Append(q, x)
               n    == Len(q) + 1
               dead == p = "ack" /\ Pluses(q) = {}
           IN  /\ t \in Seq(Bytes) /\ n \in Nat /\ t[n] = x
               /\ \A i \in DOMAIN q : i \in Nat /\ i < n /\ t[i] = q[i]
               /\ DOMAIN t = DOMAIN q \cup {n}
               /\ Pluses(q) \subseteq DOMAIN q /\ Alive(p, q) \subseteq DOMAIN q /\ Requests(p, q) \subseteq DOMAIN q
               /\ Pluses(t) = Pluses(q) \cup (IF x = Plus THEN {n} ELSE {})
               /\ Alive(p, t) = Alive(p, q) \cup (IF dead THEN {} ELSE {n})
               /\ Requests(p, t) = Requests(p, q) \cup (IF dead \/ x[1] \notin Kinds THEN {} ELSE {n})
  <1> DEFINE t == Append(q, x)
             n == Len(q) + 1
  <1>1. /\ t \in Seq(Bytes) /\ n \in Nat /\ t[n] = x /\ DOMAIN t = DOMAIN q \cup {n}
        /\ \A i \in DOMAIN q : i \in Nat /\ i < n /\ t[i] = q[i]
    BY AppendFacts
  <1> HIDE DEF t, n
  <1>2. n \notin DOMAIN q
    BY <1>1
  <1>3. Pluses(t) = Pluses(q) \cup (IF x = Plus THEN {n} ELSE {}) /\ Pluses(q) \subseteq DOMAIN q
    BY <1>1, <1>2 DEF Pluses
  <1>4. Alive(p, t) = Alive(p, q) \cup (IF p = "ack" /\ Pluses(q) = {} THEN {} ELSE {n}) /\ Alive(p, q) \subseteq DOMAIN q
    <2>1. ASSUME NEW i \in DOMAIN q
          PROVE  (\E j \in Pluses(t) : j < i) <=> (\E j \in Pluses(q) : j < i)
      BY <1>1, <1>3
    <2>2. (\E j \in Pluses(t) : j < n) <=> Pluses(q) # {}
      BY <1>1, <1>3
    <2>3. QED
      BY <1>1, <2>1, <2>2 DEF Alive
  <1>5. /\ Requests(p, t) = Requests(p, q) \cup (IF (p = "ack" /\ Pluses(q) = {}) \/ x[1] \notin Kinds THEN {} ELSE {n})
        /\ Requests(p, q) \subseteq DOMAIN q
    BY <1>1, <1>4 DEF Requests
  <1>6. QED
    BY <1>1, <1>3, <1>4, <1>5 DEF t, n

\* The server sends x.
LEMMA SendPacket ==
    ASSUME NEW q \in Seq(Packet), NEW x \in Packet
    PROVE  LET t == Append(q, x)
           IN  /\ t \in Seq(Packet) /\ t # <<>> /\ Len(t) = Len(q) + 1 /\ Len(q) \in Nat /\ t[Len(t)] = x
               /\ Head(t) = IF q = <<>> THEN x ELSE Head(q)
               /\ DOMAIN t = DOMAIN q \cup {Len(t)}
               /\ \A i \in DOMAIN q : i \in Nat /\ i < Len(t) /\ t[i] = q[i]
               /\ Packets(q) \subseteq DOMAIN q /\ Answers(q) \subseteq DOMAIN q
               /\ Packets(t) = Packets(q) \cup (IF x = Plus THEN {} ELSE {Len(t)})
               /\ Answers(t) = Answers(q) \cup (IF x[2] = None THEN {} ELSE {Len(t)})
  <1> DEFINE t == Append(q, x)
             n == Len(q) + 1
  <1>1. /\ t \in Seq(Packet) /\ t # <<>> /\ Len(t) = n /\ Len(q) \in Nat /\ t[n] = x /\ DOMAIN t = DOMAIN q \cup {n}
        /\ \A i \in DOMAIN q : i \in Nat /\ i < n /\ t[i] = q[i]
        /\ Head(t) = IF q = <<>> THEN x ELSE Head(q)
    BY AppendFacts
  <1> HIDE DEF t, n
  <1>2. n \notin DOMAIN q
    BY <1>1
  <1>3. /\ Packets(t) = Packets(q) \cup (IF x = Plus THEN {} ELSE {n}) /\ Packets(q) \subseteq DOMAIN q
        /\ Answers(t) = Answers(q) \cup (IF x[2] = None THEN {} ELSE {n}) /\ Answers(q) \subseteq DOMAIN q
    BY <1>1, <1>2 DEF Packets, Answers
  <1>4. QED
    BY <1>1, <1>3 DEF t, n

\* GDB reads a packet.
LEMMA ReadPacket ==
    ASSUME NEW q \in Seq(Packet), q # <<>>
    PROVE  LET t == Tail(q)
           IN  /\ t \in Seq(Packet) /\ Head(q) \in Packet /\ Head(q) = q[1] /\ 1 \in DOMAIN q
               /\ Len(t) = Len(q) - 1 /\ Len(q) \in Nat /\ Len(q) >= 1
               /\ \A i \in DOMAIN t : i \in Nat /\ i >= 1 /\ i + 1 \in DOMAIN q /\ t[i] = q[i + 1]
               /\ \A i \in Packets(t) : i \in Nat /\ i >= 1 /\ i + 1 \in Packets(q)
               /\ \A j \in Packets(q) : j \in Nat /\ (j = 1 \/ j - 1 \in Packets(t))
               /\ \A i \in Answers(t) : i \in Nat /\ i >= 1 /\ i + 1 \in Answers(q)
               /\ \A j \in Answers(q) : j \in Nat /\ (j = 1 \/ j - 1 \in Answers(t))
               /\ 1 \in Packets(q) <=> Head(q) # Plus
               /\ 1 \in Answers(q) <=> Head(q)[2] # None
  <1> DEFINE t == Tail(q)
  <1>1. /\ t \in Seq(Packet) /\ Head(q) \in Packet /\ Head(q) = q[1] /\ 1 \in DOMAIN q
        /\ \A i \in DOMAIN t : i \in Nat /\ i >= 1 /\ i + 1 \in DOMAIN q /\ t[i] = q[i + 1]
        /\ \A j \in DOMAIN q : j \in Nat /\ (j = 1 \/ (j - 1 \in DOMAIN t /\ t[j - 1] = q[j]))
    BY TailFacts
  <1>2. Len(t) = Len(q) - 1 /\ Len(q) \in Nat /\ Len(q) >= 1
    OBVIOUS
  <1> HIDE DEF t
  <1>3. QED
    BY <1>1, <1>2 DEF Packets, Answers, t

-----------------------------------------------------------------------------
(* The invariant.                                                          *)

\* The server is about to continue, ends the session, or answers requests.
Busy     == pc \in {"cont", "lost"} \/ (pc = "ack" /\ after \in {"cont", "lost"})
Leaving  == pc = "ack" /\ after = "bye"
AtPrompt == pc = "prompt" \/ (pc = "ack" /\ after = "prompt")
Waiting  == gdb \in {"wait", "run"}
Talking  == conn = "open" /\ ~mixed

\* A session has a connection on both sides.
Present == (gdb # "off" => conn \in {"open", "shut"}) /\ (pc # "accept" => conn \in {"open", "half"})

\* Between requests the hart is halted, or GDB has read that its s or c failed,
\* or is about to: nothing else is said in answer to it.
Eased ==
    Talking /\ AtPrompt /\ link = "up" /\ hart # "halted" =>
        /\ Answers(toGdb) = {} => unsure
        /\ \A i \in Answers(toGdb) : Doubt(asked[1], toGdb[i][1])

\* What GDB has not read answers its last request, or a ^C that crossed.
Numbered ==
    conn \in {"open", "shut"} /\ ~mixed =>
        \A i \in DOMAIN toGdb : /\ toGdb[i][2] \in {None, asked[2]}
                                /\ toGdb[i][2] = None /\ toGdb[i] \notin {Plus, O} => crossed

\* The one request that the server may still handle is GDB's last, and is not
\* answered yet; a "+" never comes after it, and a ^C only behind it.
Current == \A i \in Requests(pc, toServer) : toServer[i] = asked /\ Waiting /\ (Busy \/ Answers(toGdb) = {})
Latest  == \A i \in Requests(pc, toServer), j \in Pluses(toServer) : j < i
Single  == gdbNoAck => \A i, j \in Requests(pc, toServer) : i = j /\ ~Busy
Pending == Waiting /\ ~Busy /\ Answers(toGdb) = {} /\ pc # "bye" => Requests(pc, toServer) # {}
Behind  ==
    (~noAck \/ pc = "accept") /\ ~Busy /\ pc # "bye" =>
        \A i \in Alive(pc, toServer) : toServer[i] = CtrlC => \E j \in Requests(pc, toServer) : j < i
Question == Current /\ Latest /\ Single /\ Pending /\ Behind

\* There is one answer, and only while GDB waits for it; in acknowledged mode
\* it is the last thing sent, and the server waits for its "+".
Answering ==
    /\ Answers(toGdb) # {} => Waiting /\ ~Busy
    /\ \A i, j \in Answers(toGdb) : i = j
    /\ \A i \in DOMAIN toGdb : toGdb[i][1] = "ok" => gdb = "wait"
    /\ ~gdbNoAck => \A i \in Packets(toGdb) : i = Len(toGdb) /\ pc = "ack" /\ Pluses(toServer) = {}
    /\ ~gdbNoAck /\ Packets(toGdb) # {} => Busy \/ Answers(toGdb) # {}
    /\ ~acked => ~gdbNoAck /\ IF toGdb = <<>> THEN ~Busy ELSE Head(toGdb) = Plus

\* Who still acknowledges: GDB stops when it reads the answer to
\* QStartNoAckMode, the server when it has the "+" for it.
Acking ==
    /\ pc \in {"cont", "lost"} => Pluses(toServer) = {}
    /\ pc = "ack" => /\ ~noAck /\ \A i, j \in Pluses(toServer) : i = j
                     /\ Packets(toGdb) # {} \/ Pluses(toServer) # {}
    /\ noAck /\ pc # "accept" => gdbNoAck /\ Pluses(toServer) = {}
    /\ gdbNoAck => /\ pc # "accept"
                   /\ noAck \/ (pc = "ack" /\ startNoAck /\ Pluses(toServer) # {} /\ Packets(toGdb) = {})
    /\ startNoAck /\ pc # "accept" =>
           /\ pc = "ack"
           /\ ~gdbNoAck => /\ Pluses(toServer) = {} /\ asked[1] = "noack" /\ gdb = "wait"
                           /\ toGdb # <<>> /\ toGdb[Len(toGdb)] = <<"ok", asked[2]>>
    /\ Answers(toGdb) # {} /\ asked[1] = "noack" => startNoAck /\ ~gdbNoAck

\* The server continues only for GDB's c, and leaves only for its D or k.
Turns ==
    /\ Busy => gdb = "run" /\ handling = asked[2] /\ asked[1] = "c"
    /\ Waiting => (gdb = "run" <=> asked[1] = "c") /\ (gdbNoAck => asked[1] # "noack")
    /\ Leaving => asked[1] \in {"D", "k"} /\ gdb = "wait"

Tidy == Question /\ Answering /\ Acking /\ Turns
Inv  == TypeOK /\ Present /\ Eased /\ Numbered /\ RepliesMatch /\ (Talking => Tidy)

LEMMA InitInv == Init => Inv
  <1> SUFFICES ASSUME Init PROVE Inv
    OBVIOUS
  <1>1. <<"m", 0>> \in Kinds \X Ids /\ <<>> \in Seq(Bytes) /\ <<>> \in Seq(Packet)
    BY DEF Kinds, Ids
  <1>2. QED
    BY <1>1 DEF Init, Inv, TypeOK, Present, Eased, RepliesMatch, Numbered, Talking, AtPrompt, Places

-----------------------------------------------------------------------------
(* Types.                                                                  *)

LEMMA Sent ==
    ASSUME NEW q \in Seq(Packet), NEW x \in Packet
    PROVE  /\ q \o <<x>> = Append(q, x) /\ q \o <<>> = q
           /\ q \o (<<>> \o <<x>>) = Append(q, x)
           /\ q \o (<<Plus>> \o <<x>>) = Append(Append(q, Plus), x)
           /\ q \o <<Plus>> = Append(q, Plus) /\ q \o <<x>> \in Seq(Packet)
           /\ Append(q, x) \in Seq(Packet) /\ Append(q, Plus) \in Seq(Packet)
  BY ByteFacts

\* What a handler sends, with the acknowledgement or without.
LEMMA SentPackets ==
    ASSUME TypeOK, NEW w \in {"stop", "E01", "ok"}, NEW i \in Ids \cup {None}, w = "ok" => i # None
    PROVE  /\ toGdb \o Acks \in Seq(Packet) /\ toGdb \o (Acks \o <<<<w, i>>>>) \in Seq(Packet)
           /\ toGdb \o (<<>> \o <<<<w, i>>>>) \in Seq(Packet) /\ toGdb \o <<<<w, i>>>> \in Seq(Packet)
           /\ toGdb \o <<O>> \in Seq(Packet)
  <1>1. <<w, i>> \in Packet /\ O \in Packet /\ Plus \in Packet /\ toGdb \in Seq(Packet)
    BY PacketFacts, ByteFacts DEF TypeOK
  <1>2. toGdb \o <<>> \in Seq(Packet) /\ toGdb \o <<O>> \in Seq(Packet) /\ toGdb \o <<Plus>> \in Seq(Packet)
    BY <1>1, Sent
  <1>3. /\ toGdb \o (<<>> \o <<<<w, i>>>>) \in Seq(Packet) /\ toGdb \o <<<<w, i>>>> \in Seq(Packet)
        /\ toGdb \o (<<Plus>> \o <<<<w, i>>>>) \in Seq(Packet)
    BY <1>1, Sent
  <1>4. QED
    BY <1>2, <1>3 DEF Acks

LEMMA TypeStep == ASSUME TypeOK, Next PROVE TypeOK'
  <1> DEFINE T == \/ toServer' \in {toServer, <<>>, <<Plus>>}
                  \/ toServer # <<>> /\ toServer' = Tail(toServer)
                  \/ \E x \in Bytes : toServer' = Append(toServer, x)
  <1>1. ASSUME T PROVE toServer' \in Seq(Bytes)
    <2>1. toServer \in Seq(Bytes) /\ Plus \in Bytes
      BY ByteFacts DEF TypeOK
    <2>2. <<>> \in Seq(Bytes) /\ <<Plus>> \in Seq(Bytes)
      BY <2>1
    <2>3. toServer # <<>> => Tail(toServer) \in Seq(Bytes)
      BY <2>1, TailFacts
    <2>4. \A x \in Bytes : Append(toServer, x) \in Seq(Bytes)
      BY <2>1, AppendFacts
    <2>5. QED
      BY <1>1, <2>1, <2>2, <2>3, <2>4
  <1>2. /\ toGdb \o Acks \in Seq(Packet) /\ toGdb \o <<O>> \in Seq(Packet) /\ toGdb \o <<<<"stop", None>>>> \in Seq(Packet)
        /\ \A w \in {"stop", "E01", "ok"}, i \in Ids :
               toGdb \o (Acks \o <<<<w, i>>>>) \in Seq(Packet) /\ toGdb \o (<<>> \o <<<<w, i>>>>) \in Seq(Packet)
        /\ \A w \in {"stop", "E01"} : toGdb \o (<<>> \o <<<<w, handling>>>>) \in Seq(Packet)
    <2>1. /\ toGdb \o Acks \in Seq(Packet) /\ toGdb \o <<O>> \in Seq(Packet)
          /\ toGdb \o <<<<"stop", None>>>> \in Seq(Packet)
      BY SentPackets
    <2>2. \A w \in {"stop", "E01", "ok"}, i \in Ids :
               toGdb \o (Acks \o <<<<w, i>>>>) \in Seq(Packet) /\ toGdb \o (<<>> \o <<<<w, i>>>>) \in Seq(Packet)
      <3>1. None \notin Ids
        BY ByteFacts
      <3>2. QED
        BY <3>1, SentPackets
    <2>3. handling \in Ids \cup {None}
      BY DEF TypeOK
    <2>4. \A w \in {"stop", "E01"} : toGdb \o (<<>> \o <<<<w, handling>>>>) \in Seq(Packet)
      BY <2>3, SentPackets
    <2>5. QED
      BY <2>1, <2>2, <2>4
  <1>3. /\ \A k \in Kinds, i \in Ids : <<k, i>> \in Bytes
        /\ Plus \in Bytes /\ CtrlC \in Bytes /\ (asked[2] + 1) % 3 \in Ids /\ asked \in Bytes
        /\ \A k \in Kinds : <<k, (asked[2] + 1) % 3>> \in Kinds \X Ids /\ <<k, (asked[2] + 1) % 3>> \in Bytes
    BY ByteFacts DEF TypeOK, Ids, Bytes
  <1> HIDE DEF T
  <1>4. CASE Server
    <2>1. T /\ conn' \in {"none", "open", "half", "shut"} /\ asked' = asked /\ gdb' = gdb /\ acked' = acked /\ gdbNoAck' = gdbNoAck
      BY <1>4 DEF T, TypeOK, Server, Accept, Acknowledged, Swallow, Skip, Closed, Interrupted, Request, PollGone,
         PollInterrupt, PollDrop, PollLost, PollReset, PollStop, Reattach, LostInput, Bye, Input, Gone, Other, client, vars, target, server
    <2>2. ASSUME NEW k \in Kinds, NEW i \in Ids, Request(k, i) PROVE TypeOK'
      <3>1. /\ pc' \in Places /\ (pc' = "ack" => after' \in {"prompt", "cont", "lost", "bye"}) /\ toGdb' \in Seq(Packet)
        BY <2>2, <1>2 DEF Request, Answer, Deliver, TypeOK, Places, CanDebug
      <3>2. QED
        BY <1>1, <2>1, <2>2, <3>1 DEF Request, TypeOK
    <2>3. CASE Accept \/ Acknowledged \/ Swallow \/ Skip \/ Closed \/ Bye
      <3>1. pc' \in Places /\ (pc' = "ack" => after' \in {"prompt", "cont", "lost", "bye"}) /\ toGdb' \in Seq(Packet)
        BY <2>3 DEF Accept, Acknowledged, Swallow, Skip, Closed, Bye, Stay, TypeOK, Places, server
      <3>2. noAck' \in BOOLEAN /\ startNoAck' \in BOOLEAN /\ handling' \in Ids \cup {None} /\ crossed' \in BOOLEAN /\ mixed' \in BOOLEAN
        BY <2>3 DEF Accept, Acknowledged, Swallow, Skip, Closed, Bye, TypeOK, server
      <3>3. QED
        BY <1>1, <2>1, <3>1, <3>2 DEF TypeOK
    <2>4. CASE Interrupted \/ PollGone \/ PollInterrupt \/ PollDrop \/ PollLost \/ PollReset \/ PollStop \/ Reattach \/ LostInput
      <3>1. pc' \in Places /\ (pc' = "ack" => after' \in {"prompt", "cont", "lost", "bye"}) /\ toGdb' \in Seq(Packet)
        BY <1>2, <2>4 DEF Interrupted, PollGone, PollInterrupt, PollDrop, PollLost, PollReset, PollStop, Reattach, LostInput,
           Stay, Deliver, Reply, TypeOK, Places, server
      <3>2. noAck' \in BOOLEAN /\ startNoAck' \in BOOLEAN /\ handling' \in Ids \cup {None} /\ crossed' \in BOOLEAN /\ mixed' \in BOOLEAN
        BY <2>4 DEF Interrupted, PollGone, PollInterrupt, PollDrop, PollLost, PollReset, PollStop, Reattach, LostInput, TypeOK, server
      <3>3. QED
        BY <1>1, <2>1, <3>1, <3>2 DEF TypeOK
    <2>5. QED
      BY <1>4, <2>2, <2>3, <2>4 DEF Server
  <1>5. CASE Gdb
    <2>1. T
      BY <1>3, <1>5 DEF T, Gdb, Connect, Ask, Resend, PressCtrlC, Read, Quit, FindClosed
    <2>2. toGdb' \in Seq(Packet)
      <3>1. toGdb' \in {toGdb, <<>>} \/ (toGdb # <<>> /\ toGdb' = Tail(toGdb))
        BY <1>5 DEF Gdb, Connect, Ask, Resend, PressCtrlC, Read, Quit, FindClosed
      <3>2. toGdb \in Seq(Packet) /\ <<>> \in Seq(Packet)
        BY DEF TypeOK
      <3>3. toGdb # <<>> => Tail(toGdb) \in Seq(Packet)
        BY <3>2, TailFacts
      <3>4. QED
        BY <3>1, <3>2, <3>3
    <2>3. conn' \in {"none", "open", "half", "shut"} /\ gdb' \in {"off", "idle", "wait", "run"} /\ asked' \in Kinds \X Ids
      BY <1>3, <1>5 DEF TypeOK, Gdb, Connect, Ask, Resend, PressCtrlC, Read, Quit, FindClosed, client
    <2>4. acked' \in BOOLEAN /\ gdbNoAck' \in BOOLEAN /\ mixed' \in BOOLEAN /\ crossed' \in BOOLEAN
      BY <1>5 DEF TypeOK, Gdb, Connect, Ask, Resend, PressCtrlC, Read, Quit, FindClosed, client
    <2>5. UNCHANGED server
      BY <1>5 DEF TypeOK, Gdb, Connect, Ask, Resend, PressCtrlC, Read, Quit, FindClosed
    <2>6. QED
      BY <1>1, <2>1, <2>2, <2>3, <2>4, <2>5 DEF TypeOK, server
  <1>6. CASE Board
    BY <1>6 DEF Board, TriggerFires, ChipReset, PinsAway, PinsBack, UserReset, Env, TypeOK, server, client
  <1>7. QED
    BY <1>4, <1>5, <1>6 DEF Next

-----------------------------------------------------------------------------
(* What holds of every session, whatever has been mixed up.                *)

LEMMA PresentStep == ASSUME TypeOK, Present, Next PROVE Present'
  <1>1. CASE Server
    <2>1. /\ gdb' = gdb /\ (conn' = conn \/ (pc' = "accept" /\ conn' = IF conn = "half" THEN "none" ELSE "shut"))
          /\ pc # "accept" \/ conn \in {"open", "half"}
      BY <1>1 DEF TypeOK, Server, Accept, Acknowledged, Swallow, Skip, Closed, Interrupted, Request, PollGone,
         PollInterrupt, PollDrop, PollLost, PollReset, PollStop, Reattach, LostInput, Bye, Stay, client
    <2>2. QED
      BY <1>1, <2>1 DEF Present, TypeOK
  <1>2. CASE Gdb
    BY <1>2 DEF Gdb, Connect, Ask, Resend, PressCtrlC, Read, Quit, FindClosed, client, server, Present, TypeOK
  <1>3. CASE Board
    BY <1>3 DEF Board, TriggerFires, ChipReset, PinsAway, PinsBack, UserReset, Env, server, client, Present
  <1>4. QED
    BY <1>1, <1>2, <1>3 DEF Next

-----------------------------------------------------------------------------
(* The numbers of the answers.                                             *)

\* What may be under way to GDB after request n, when a ^C has crossed or not.
Fits(x, n, c) == x[2] \in {None, n} /\ (x[2] = None /\ x \notin {Plus, O} => c)
AllFit(q, n, c) == \A i \in DOMAIN q : Fits(q[i], n, c)

LEMMA NumberedFits == Numbered <=> (conn \in {"open", "shut"} /\ ~mixed => AllFit(toGdb, asked[2], crossed))
  BY DEF Numbered, Fits, AllFit

LEMMA AppendFits ==
    ASSUME NEW q \in Seq(Packet), NEW y \in Packet, NEW n, NEW c, AllFit(q, n, c), Fits(y, n, c)
    PROVE  AllFit(Append(q, y), n, c)
  <1>1. ASSUME NEW i \in DOMAIN Append(q, y) PROVE Append(q, y)[i] = y \/ (i \in DOMAIN q /\ Append(q, y)[i] = q[i])
    BY AppendFacts
  <1>2. QED
    BY <1>1 DEF AllFit

\* What a handler sends has the number of GDB's last request.
LEMMA HandlerFits ==
    ASSUME TypeOK, Numbered, Talking, UNCHANGED <<conn, mixed, asked>>, crossed => crossed', crossed' \in BOOLEAN,
           NEW x \in Packet, x \in {Plus, O} \/ x[2] = asked[2] \/ (x[2] = None /\ crossed'),
           \/ toGdb' \in {toGdb, toGdb \o <<x>>, toGdb \o (<<>> \o <<x>>), toGdb \o (<<Plus>> \o <<x>>), toGdb \o <<Plus>>}
           \/ toGdb' = toGdb \o <<>>
    PROVE  Numbered'
  <1> DEFINE n == asked[2]
             c == crossed'
  <1>1. toGdb \in Seq(Packet) /\ Plus \in Packet /\ Plus[2] = None /\ O[2] = None /\ asked[2] # None
    BY ByteFacts DEF TypeOK
  <1>2. toGdb' \in {toGdb, Append(toGdb, x), Append(toGdb, Plus), Append(Append(toGdb, Plus), x)} /\ Append(toGdb, Plus) \in Seq(Packet)
    BY <1>1, Sent
  <1>3. AllFit(toGdb, n, c)
    BY NumberedFits DEF Talking, AllFit, Fits
  <1>4. Fits(x, n, c) /\ Fits(Plus, n, c)
    BY <1>1 DEF Fits
  <1> HIDE DEF c
  <1>5. AllFit(Append(toGdb, Plus), n, c)
    BY <1>1, <1>3, <1>4, AppendFits
  <1>6. AllFit(Append(toGdb, x), n, c) /\ AllFit(Append(Append(toGdb, Plus), x), n, c)
    BY <1>1, <1>2, <1>3, <1>4, <1>5, AppendFits
  <1>7. AllFit(toGdb', n, c)
    BY <1>2, <1>3, <1>5, <1>6
  <1>8. QED
    BY <1>7 DEF Numbered, AllFit, Fits, c

LEMMA NumberedStep == ASSUME Inv, Next PROVE Numbered'
  <1> SUFFICES ASSUME conn' \in {"open", "shut"}, ~mixed' PROVE Numbered'
    BY DEF Numbered
  <1> USE DEF Inv
  <1>1. O \in Packet /\ Plus \in Packet /\ <<"stop", None>> \in Packet /\ <<"stop", None>>[2] = None
    BY ByteFacts, PacketFacts
  <1>2. \A w \in {"stop", "E01", "ok"}, i \in Ids : <<w, i>> \in Packet /\ <<w, i>>[2] = i
    BY PacketFacts, ByteFacts
  <1>3. ASSUME NEW k \in Kinds, NEW i \in Ids, Request(k, i) PROVE Numbered'
    <2>1. Talking /\ UNCHANGED <<conn, mixed, asked, crossed>> /\ pc = "prompt" /\ toServer # <<>> /\ Head(toServer) = <<k, i>>
      BY <1>3 DEF Request, client, Talking, Present, Input
    <2>2. 1 \in Requests(pc, toServer)
      <3>1. toServer \in Seq(Bytes) /\ <<k, i>>[1] \in Kinds
        BY DEF TypeOK
      <3>2. QED
        BY <2>1, <3>1, ReadByte
    <2>3. asked = <<k, i>>
      BY <2>1, <2>2, TailFacts DEF Tidy, Question, Current, TypeOK
    <2>4. PICK w \in {"stop", "E01", "ok"} : toGdb' \in {toGdb \o (Acks \o <<<<w, i>>>>), toGdb \o Acks}
      BY <1>3 DEF Request, Answer, Deliver
    <2>5. QED
      BY <1>2, <2>1, <2>3, <2>4, HandlerFits DEF Acks, TypeOK
  <1>4. CASE Accept \/ Acknowledged \/ Swallow \/ Skip \/ Closed \/ Bye
    BY <1>4 DEF Accept, Acknowledged, Swallow, Skip, Closed, Bye, Stay, server, client, Numbered, Present
  <1>5. CASE Interrupted \/ PollGone \/ PollInterrupt \/ PollDrop \/ PollLost \/ PollReset \/ PollStop \/ Reattach \/ LostInput
    <2>1. /\ conn' = conn /\ mixed' = mixed /\ asked' = asked /\ Talking /\ crossed' \in BOOLEAN /\ (crossed => crossed')
          /\ Interrupted => crossed'
      BY <1>5 DEF Interrupted, PollGone, PollInterrupt, PollDrop, PollLost, PollReset, PollStop, Reattach, LostInput,
         client, Talking, Present, TypeOK
    <2>2. pc \in {"cont", "lost"} => handling = asked[2] /\ handling \in Ids
      BY <2>1 DEF Tidy, Turns, Busy, TypeOK
    <2>3. CASE toGdb' = toGdb
      BY <1>1, <2>1, <2>3, HandlerFits
    <2>4. CASE toGdb' = toGdb \o <<O>>
      BY <1>1, <2>1, <2>4, HandlerFits
    <2>5. CASE Interrupted /\ toGdb' = toGdb \o <<<<"stop", None>>>>
      BY <1>1, <2>1, <2>5, HandlerFits
    <2>6. CASE pc \in {"cont", "lost"} /\ \E w \in {"stop", "E01"} : toGdb' = toGdb \o (<<>> \o <<<<w, handling>>>>)
      BY <1>2, <2>1, <2>2, <2>6, HandlerFits
    <2>7. QED
      BY <1>5, <2>3, <2>4, <2>5, <2>6 DEF Interrupted, PollGone, PollInterrupt, PollDrop, PollLost, PollReset, PollStop,
         Reattach, LostInput, Stay, Deliver, Reply, server
  <1>6. CASE Connect
    BY <1>6 DEF Connect, Numbered
  <1>7. ASSUME NEW k \in Kinds, Ask(k) PROVE Numbered'
    <2>1. /\ Talking /\ gdb = "idle" /\ UNCHANGED <<toGdb, crossed>>
      BY <1>7 DEF Ask, Talking
    <2>2. \A i \in DOMAIN toGdb : toGdb[i][2] = None /\ (toGdb[i] \notin {Plus, O} => crossed)
      BY <2>1 DEF Tidy, Answering, Answers, Waiting, Numbered, Talking
    <2>3. QED
      BY <2>1, <2>2 DEF Numbered
  <1>8. CASE Read
    <2>1. UNCHANGED <<asked, crossed>> /\ toGdb # <<>> /\ toGdb' = Tail(toGdb) /\ ~mixed /\ conn \in {"open", "shut"}
      BY <1>8 DEF Read, Present, TypeOK
    <2>2. \A i \in DOMAIN toGdb' : i + 1 \in DOMAIN toGdb /\ toGdb'[i] = toGdb[i + 1]
      BY <2>1, ReadPacket DEF TypeOK
    <2>3. QED
      BY <2>1, <2>2 DEF Numbered
  <1>9. CASE Resend \/ PressCtrlC \/ Quit \/ FindClosed
    BY <1>9 DEF Resend, PressCtrlC, Quit, FindClosed, client, Numbered
  <1>10. CASE Board
    BY <1>10 DEF Board, TriggerFires, ChipReset, PinsAway, PinsBack, UserReset, Env, client, Numbered
  <1>11. QED
    BY <1>3, <1>4, <1>5, <1>6, <1>7, <1>8, <1>9, <1>10 DEF Next, Server, Gdb

\* GDB mixes answers up only when it takes the stop reply for a ^C that crossed.
LEMMA MatchStep == ASSUME Inv, Next PROVE RepliesMatch'
  <1> USE DEF Inv
  <1>1. CASE Read
    <2>1. crossed' = crossed /\ toGdb # <<>> /\ conn \in {"open", "shut"}
      BY <1>1 DEF Read, Present, TypeOK
    <2>2. CASE mixed
      BY <2>1, <2>2 DEF RepliesMatch
    <2>3. CASE ~mixed
      <3>1. LET x == Head(toGdb) IN x[2] \in {None, asked[2]} /\ (x[2] = None /\ x \notin {Plus, O} => crossed)
        BY <2>1, <2>3, ReadPacket DEF Numbered, TypeOK
      <3>2. mixed' => LET x == Head(toGdb) IN x[1] \in {"stop", "E01", "ok"} /\ x[2] # asked[2]
        BY <1>1, <2>3 DEF Read
      <3>3. QED
        BY <2>1, <3>1, <3>2, ByteFacts DEF RepliesMatch
    <2>4. QED
      BY <2>2, <2>3 DEF TypeOK
  <1>2. CASE Server \/ Board
             \/ Connect \/ (\E k \in Kinds : Ask(k)) \/ Resend \/ PressCtrlC \/ Quit \/ FindClosed
    <2>1. CASE Server
      <3>1. mixed' = mixed /\ crossed' \in {crossed, TRUE}
        BY <2>1 DEF Server, Accept, Acknowledged, Swallow, Skip, Closed, Interrupted, Request, PollGone,
           PollInterrupt, PollDrop, PollLost, PollReset, PollStop, Reattach, LostInput, Bye
      <3>2. QED
        BY <3>1 DEF RepliesMatch, TypeOK
    <2>2. CASE Connect \/ (\E k \in Kinds : Ask(k)) \/ Resend \/ PressCtrlC \/ Quit \/ FindClosed
      BY <2>2 DEF RepliesMatch, TypeOK, Connect, Ask, Resend, PressCtrlC, Quit, FindClosed
    <2>3. CASE Board
      BY <2>3 DEF RepliesMatch, TypeOK, Board, TriggerFires, ChipReset, PinsAway, PinsBack, UserReset, Env
    <2>4. QED
      BY <1>2, <2>1, <2>2, <2>3
  <1>3. QED
    BY <1>1, <1>2 DEF Next, Gdb

-----------------------------------------------------------------------------
(* Steps of the server in a session.                                       *)

LEMMA PlaceFacts ==
    ASSUME NEW q, NEW p, NEW p2
    PROVE  /\ p # "ack" /\ p2 # "ack" => Alive(p, q) = Alive(p2, q) /\ Requests(p, q) = Requests(p2, q)
           /\ Pluses(q) = {} => Alive("ack", q) = {} /\ Requests("ack", q) = {}
  BY DEF Alive, Requests

LEMMA AnswersArePackets == \A q : Answers(q) \subseteq Packets(q)
  BY ByteFacts DEF Answers, Packets

LEMMA AcceptTidy == ASSUME Inv, Talking', Accept PROVE Tidy'
  <1> USE DEF Inv, TypeOK
  <1>1. Tidy /\ pc = "accept" /\ pc' \in {"prompt", "bye"} /\ ~noAck' /\ ~startNoAck' /\ handling' = None /\ ~gdbNoAck
    BY DEF Accept, Talking, Stay, Tidy, Acking
  <1>2. UNCHANGED <<client, conn, toServer, toGdb, mixed>>
    BY DEF Accept, Stay
  <1>3. Alive(pc', toServer) = Alive(pc, toServer) /\ Requests(pc', toServer) = Requests(pc, toServer)
    BY <1>1, PlaceFacts
  <1>4. Question'
    BY <1>1, <1>2, <1>3 DEF Tidy, Question, Current, Latest, Single, Pending, Behind, client, Busy, Waiting
  <1>5. Answering' /\ Packets(toGdb) = {}
    BY <1>1, <1>2 DEF Tidy, Answering, client, Busy, Waiting
  <1>6. Answers(toGdb') = {}
    BY <1>2, <1>5, AnswersArePackets
  <1>7. Acking'
    BY <1>1, <1>2, <1>6 DEF Tidy, Acking, client
  <1>8. Turns'
    BY <1>1, <1>2 DEF Tidy, Turns, client, Busy, Waiting, Leaving
  <1>9. QED
    BY <1>4, <1>5, <1>7, <1>8 DEF Tidy

\* The server reads a byte, and stays where it is.
LEMMA ReadOn ==
    ASSUME NEW q \in Seq(Bytes), q # <<>>, NEW p, p = "ack" => Head(q) # Plus
    PROVE  LET t == Tail(q)
           IN  /\ \A i \in Pluses(t) : i \in Nat /\ i + 1 \in Pluses(q)
               /\ \A j \in Pluses(q) : j \in Nat /\ (j = 1 \/ j - 1 \in Pluses(t))
               /\ \A i \in Alive(p, t) : i \in Nat /\ i + 1 \in Alive(p, q)
               /\ \A i \in Requests(p, t) : i \in Nat /\ i + 1 \in Requests(p, q) /\ t[i] = q[i + 1]
               /\ \A j \in Requests(p, q) : j \in Nat /\ (j = 1 \/ (j - 1 \in Requests(p, t) /\ t[j - 1] = q[j]))
  <1>1. CASE p = "ack"
    BY <1>1, ReadByte
  <1>2. CASE p # "ack"
    BY <1>2, ReadByte
  <1>3. QED
    BY <1>1, <1>2

\* The server reads a byte that it does not act upon.
LEMMA DropTidy ==
    ASSUME Inv, Talking', UNCHANGED <<server, client, conn, toGdb, target, mixed>>,
           toServer # <<>>, toServer' = Tail(toServer), Busy \/ 1 \notin Requests(pc, toServer),
           pc = "ack" => Head(toServer) # Plus
    PROVE  Tidy'
  <1> USE DEF Inv, TypeOK
  <1>1. Tidy /\ pc' = pc /\ Waiting' = Waiting /\ Busy' = Busy /\ Leaving' = Leaving
    BY DEF Talking, server, client, Waiting, Busy, Leaving
  <1>2. /\ \A i \in Pluses(toServer') : i \in Nat /\ i + 1 \in Pluses(toServer)
        /\ \A j \in Pluses(toServer) : j \in Nat /\ (j = 1 \/ j - 1 \in Pluses(toServer'))
        /\ \A i \in Alive(pc', toServer') : i \in Nat /\ i + 1 \in Alive(pc, toServer)
        /\ \A i \in Requests(pc', toServer') : i \in Nat /\ i + 1 \in Requests(pc, toServer) /\ toServer'[i] = toServer[i + 1]
        /\ \A j \in Requests(pc, toServer) : j \in Nat /\ (j = 1 \/ (j - 1 \in Requests(pc', toServer') /\ toServer'[j - 1] = toServer[j]))
    <2>1. toServer \in Seq(Bytes) /\ pc = pc'
      BY <1>1
    <2>2. toServer \in Seq(Bytes) => LET q == toServer  p == pc  t == Tail(q)
           IN  /\ \A i \in Pluses(t) : i \in Nat /\ i + 1 \in Pluses(q)
               /\ \A j \in Pluses(q) : j \in Nat /\ (j = 1 \/ j - 1 \in Pluses(t))
               /\ \A i \in Alive(p, t) : i \in Nat /\ i + 1 \in Alive(p, q)
               /\ \A i \in Requests(p, t) : i \in Nat /\ i + 1 \in Requests(p, q) /\ t[i] = q[i + 1]
               /\ \A j \in Requests(p, q) : j \in Nat /\ (j = 1 \/ (j - 1 \in Requests(p, t) /\ t[j - 1] = q[j]))
      <3> HIDE DEF Inv, TypeOK
      <3>1. QED
        BY ReadOn
    <2>3. QED
      BY <2>1, <2>2
  <1>3. \A i \in Alive(pc', toServer') : toServer'[i] = toServer[i + 1]
    BY TailFacts DEF Alive
  <1>4. \A j \in Pluses(toServer) : pc = "ack" => j # 1
    BY TailFacts DEF Pluses
  <1>5. UNCHANGED <<pc, after, noAck, startNoAck, handling, gdb, asked, acked, gdbNoAck, toGdb, link>>
    BY DEF server, client, target
  <1>6. Question'
    <2>1. Current'
      BY <1>1, <1>2, <1>5 DEF Tidy, Question, Current
    <2>2. Latest'
      <3>1. ASSUME NEW i \in Requests(pc', toServer'), NEW j \in Pluses(toServer') PROVE j < i
        <4>1. i \in Nat /\ j \in Nat /\ j + 1 < i + 1
          BY <1>1, <1>2, <3>1 DEF Tidy, Question, Latest
        <4>2. QED
          BY <4>1
      <3>2. QED
        BY <3>1 DEF Latest
    <2>3. Single'
      <3>1. ASSUME gdbNoAck, NEW i \in Requests(pc', toServer'), NEW j \in Requests(pc', toServer') PROVE i = j /\ ~Busy
        <4>1. i \in Nat /\ j \in Nat /\ j + 1 = i + 1 /\ ~Busy
          BY <1>1, <1>2, <3>1 DEF Tidy, Question, Single
        <4>2. QED
          BY <4>1
      <3>2. QED
        BY <1>1, <1>5, <3>1 DEF Single
    <2>4. Pending'
      BY <1>1, <1>2, <1>5 DEF Tidy, Question, Pending
    <2>5. Behind'
      <3>1. ASSUME ~Busy, \A i \in Alive(pc, toServer) : toServer[i] = CtrlC => \E j \in Requests(pc, toServer) : j < i,
                   NEW i \in Alive(pc', toServer'), toServer'[i] = CtrlC
            PROVE  \E j \in Requests(pc', toServer') : j < i
        <4>1. i \in Nat /\ i + 1 \in Alive(pc, toServer) /\ toServer[i + 1] = CtrlC
          BY <1>2, <1>3, <3>1
        <4>2. PICK j \in Requests(pc, toServer) : j < i + 1
          BY <3>1, <4>1
        <4>3. j \in Nat /\ j - 1 \in Requests(pc', toServer') /\ j - 1 < i
          BY <1>2, <3>1, <4>1, <4>2
        <4>4. QED
          BY <4>3
      <3>2. QED
        BY <1>1, <1>5, <3>1 DEF Tidy, Question, Behind
    <2>6. QED
      BY <2>1, <2>2, <2>3, <2>4, <2>5 DEF Question
  <1>7. Pluses(toServer) = {} => Pluses(toServer') = {}
    BY <1>2
  <1>8. Answering'
    BY <1>1, <1>5, <1>7 DEF Tidy, Answering
  <1>9. pc = "ack" /\ Pluses(toServer) # {} => Pluses(toServer') # {}
    BY <1>2, <1>4
  <1>10. (\A i, j \in Pluses(toServer) : i = j) => \A i, j \in Pluses(toServer') : i = j
    <2>1. ASSUME \A i, j \in Pluses(toServer) : i = j, NEW i \in Pluses(toServer'), NEW j \in Pluses(toServer') PROVE i = j
      <3>1. i \in Nat /\ j \in Nat /\ i + 1 = j + 1
        BY <1>2, <2>1
      <3>2. QED
        BY <3>1
    <2>2. QED
      BY <2>1
  <1>11. Acking'
    BY <1>1, <1>5, <1>7, <1>9, <1>10 DEF Tidy, Acking
  <1>12. Turns'
    BY <1>1, <1>5 DEF Tidy, Turns
  <1>13. QED
    BY <1>6, <1>8, <1>11, <1>12 DEF Tidy

LEMMA ReadsTidy ==
    ASSUME Inv, Talking', Swallow \/ Skip \/ PollDrop
    PROVE  Tidy'
  <1>1. /\ UNCHANGED <<server, client, conn, toGdb, target, mixed>> /\ toServer # <<>> /\ toServer' = Tail(toServer)
        /\ pc = "ack" => Head(toServer) # Plus
        /\ Busy \/ pc = "ack" \/ Head(toServer) = Plus
    BY DEF Swallow, Skip, PollDrop, Input, Other, Busy
  <1>2. Busy \/ 1 \notin Requests(pc, toServer)
    <2>1. 1 \in Requests(pc, toServer) => pc # "ack" /\ toServer[1][1] \in Kinds /\ Head(toServer) = toServer[1]
      <3>1. toServer \in Seq(Bytes)
        BY DEF Inv, TypeOK
      <3>2. QED
        BY <1>1, <3>1, ReadByte, TailFacts
    <2>2. QED
      BY <1>1, <2>1, ByteFacts
  <1>3. QED
    BY <1>1, <1>2, DropTidy

LEMMA AcknowledgedTidy == ASSUME Inv, Talking', Acknowledged PROVE Tidy'
  <1> USE DEF Inv, TypeOK
  <1>1. /\ Tidy /\ pc = "ack" /\ pc' = after /\ pc' \in {"prompt", "cont", "lost", "bye"} /\ toServer # <<>>
        /\ Head(toServer) = Plus /\ toServer' = Tail(toServer)
        /\ noAck' = (noAck \/ startNoAck) /\ ~startNoAck'
    BY DEF Acknowledged, Talking, Input, Gone
  <1>2. UNCHANGED <<after, handling, conn, toGdb, gdb, asked, acked, gdbNoAck, link, mixed>>
    BY DEF Acknowledged, client, target
  <1>3. Busy' = Busy /\ ~Leaving' /\ Waiting' = Waiting
    BY <1>1, <1>2 DEF Busy, Leaving, Waiting
  <1>4. LET q == toServer  t == toServer'
        IN  /\ \A i \in Pluses(t) : i \in Nat /\ i + 1 \in Pluses(q)
            /\ \A i \in Alive(pc', t) : i \in Nat /\ i + 1 \in Alive(pc, q)
            /\ \A i \in Requests(pc', t) : i \in Nat /\ i + 1 \in Requests(pc, q) /\ t[i] = q[i + 1]
            /\ \A j \in Requests(pc, q) : j \in Nat /\ (j = 1 \/ (j - 1 \in Requests(pc', t) /\ t[j - 1] = q[j]))
            /\ 1 \notin Requests(pc, q)
    BY <1>1, ReadByte
  <1>5. \A i \in Alive(pc', toServer') : toServer'[i] = toServer[i + 1]
    BY <1>1, TailFacts DEF Alive
  <1>6. 1 \in Pluses(toServer)
    BY <1>1, TailFacts DEF Pluses
  <1>7. Pluses(toServer') = {}
    <2>1. ASSUME NEW i \in Pluses(toServer') PROVE FALSE
      <3>1. i + 1 = 1 /\ i \in Nat /\ i \in DOMAIN toServer'
        BY <1>1, <1>4, <1>6 DEF Tidy, Acking, Pluses
      <3>2. i >= 1
        BY <1>1, <3>1, TailFacts
      <3>3. QED
        BY <3>1, <3>2
    <2>2. QED
      BY <2>1
  <1>8. /\ Packets(toGdb) = {} \/ gdbNoAck
        /\ ~noAck /\ (startNoAck => gdbNoAck) /\ (gdbNoAck => startNoAck)
        /\ Answers(toGdb) # {} => asked[1] # "noack"
    BY <1>1, <1>6 DEF Tidy, Answering, Acking
  <1>9. Question'
    <2>1. Current'
      BY <1>1, <1>2, <1>3, <1>4 DEF Tidy, Question, Current
    <2>2. Latest'
      BY <1>7 DEF Latest
    <2>3. Single'
      <3>1. ASSUME gdbNoAck, NEW i \in Requests(pc', toServer'), NEW j \in Requests(pc', toServer') PROVE i = j /\ ~Busy
        <4>1. i \in Nat /\ j \in Nat /\ j + 1 = i + 1 /\ ~Busy
          BY <1>1, <1>4, <3>1 DEF Tidy, Question, Single
        <4>2. QED
          BY <4>1
      <3>2. QED
        BY <1>2, <1>3, <3>1 DEF Single
    <2>4. Pending'
      BY <1>1, <1>2, <1>3, <1>4 DEF Tidy, Question, Pending
    <2>5. Behind'
      <3>1. ASSUME ~Busy, NEW i \in Alive(pc', toServer'), toServer'[i] = CtrlC
            PROVE  \E j \in Requests(pc', toServer') : j < i
        <4>1. i \in Nat /\ i + 1 \in Alive(pc, toServer) /\ toServer[i + 1] = CtrlC
          BY <1>4, <1>5, <3>1
        <4>2. PICK j \in Requests(pc, toServer) : j < i + 1
          BY <1>1, <1>8, <3>1, <4>1 DEF Tidy, Question, Behind
        <4>3. j \in Nat /\ j - 1 \in Requests(pc', toServer') /\ j - 1 < i
          BY <1>4, <4>1, <4>2
        <4>4. QED
          BY <4>3
      <3>2. QED
        BY <1>1, <1>2, <1>3, <3>1 DEF Behind
    <2>6. QED
      BY <2>1, <2>2, <2>3, <2>4, <2>5 DEF Question
  <1>10. Answering'
    BY <1>1, <1>2, <1>3, <1>7, <1>8 DEF Tidy, Answering
  <1>11. Acking'
    BY <1>1, <1>2, <1>7, <1>8 DEF Acking
  <1>12. Turns'
    BY <1>1, <1>2, <1>3 DEF Tidy, Turns
  <1>13. QED
    BY <1>9, <1>10, <1>11, <1>12 DEF Tidy

\* While the target runs no request is left to be handled, but one that was
\* repeated, and GDB has sent no "+".
LEMMA BusyFacts ==
    ASSUME Inv, Talking, pc \in {"cont", "lost"},
           toServer' = toServer \/ (toServer # <<>> /\ toServer' = Tail(toServer)),
           IF noAck THEN pc' \in {"cont", "lost", "prompt"} ELSE pc' = "ack"
    PROVE  /\ Pluses(toServer') = {} /\ Requests(pc', toServer') = {} /\ (~noAck => Alive(pc', toServer') = {})
           /\ Answers(toGdb) = {} /\ (~gdbNoAck => Packets(toGdb) = {}) /\ ~startNoAck /\ noAck = gdbNoAck
           /\ gdb = "run" /\ handling = asked[2] /\ asked[1] = "c"
           /\ ~acked => toGdb # <<>> /\ Head(toGdb) = Plus
  <1> USE DEF Inv, TypeOK
  <1>1. Tidy /\ Busy /\ toServer \in Seq(Bytes)
    BY DEF Talking, Busy
  <1>2. /\ Answers(toGdb) = {} /\ (~gdbNoAck => Packets(toGdb) = {}) /\ ~startNoAck /\ noAck = gdbNoAck
        /\ gdb = "run" /\ handling = asked[2] /\ asked[1] = "c" /\ (~acked => toGdb # <<>> /\ Head(toGdb) = Plus)
        /\ Pluses(toServer) = {}
    BY <1>1 DEF Tidy, Answering, Acking, Turns
  <1>3. gdbNoAck => Requests(pc, toServer) = {}
    BY <1>1 DEF Tidy, Question, Single
  <1>4. Pluses(toServer') = {}
    BY <1>1, <1>2, ReadOn
  <1>5. CASE noAck
    <2>1. pc # "ack" /\ pc' # "ack"
      BY <1>5
    <2>2. Requests(pc, toServer') = {}
      BY <1>1, <1>2, <1>3, <1>5, <2>1, ReadOn
    <2>3. Requests(pc', toServer') = {}
      BY <2>1, <2>2, PlaceFacts
    <2>4. QED
      BY <1>2, <1>4, <1>5, <2>3
  <1>6. CASE ~noAck
    BY <1>2, <1>4, <1>6, PlaceFacts
  <1>7. QED
    BY <1>5, <1>6

\* A console packet while the target runs.
LEMMA ConsoleTidy ==
    ASSUME Inv, Talking, UNCHANGED <<noAck, startNoAck, handling, conn, client, mixed>>,
           toServer' = toServer \/ (toServer # <<>> /\ toServer' = Tail(toServer)),
           pc \in {"cont", "lost"}, NEW then \in {"cont", "lost"}, Deliver(<<O>>, then)
    PROVE  Tidy'
  <1> USE DEF Inv, TypeOK
  <1>1. toGdb' = Append(toGdb, O) /\ toGdb \in Seq(Packet) /\ O \in Packet /\ O # Plus /\ O[1] # "ok" /\ O[2] = None
    BY Sent, ByteFacts DEF Deliver
  <1>2. IF noAck THEN pc' \in {"cont", "lost"} ELSE pc' = "ack" /\ after' \in {"cont", "lost"}
    BY DEF Deliver
  <1>3. /\ Pluses(toServer') = {} /\ Requests(pc', toServer') = {} /\ (~noAck => Alive(pc', toServer') = {})
        /\ Answers(toGdb) = {} /\ (~gdbNoAck => Packets(toGdb) = {}) /\ ~startNoAck /\ noAck = gdbNoAck
        /\ gdb = "run" /\ handling = asked[2] /\ asked[1] = "c"
        /\ ~acked => toGdb # <<>> /\ Head(toGdb) = Plus
    BY <1>2, BusyFacts
  <1>4. UNCHANGED <<gdb, asked, acked, gdbNoAck>>
    BY DEF client
  <1>5. Busy' /\ ~Leaving' /\ Waiting' /\ Tidy
    BY <1>2, <1>3, <1>4 DEF Busy, Leaving, Waiting, Talking
  <1>6. /\ toGdb' # <<>> /\ (toGdb # <<>> => Head(toGdb') = Head(toGdb)) /\ Len(toGdb') \in DOMAIN toGdb'
        /\ DOMAIN toGdb' = DOMAIN toGdb \cup {Len(toGdb')} /\ toGdb'[Len(toGdb')] = O
        /\ \A i \in DOMAIN toGdb : toGdb'[i] = toGdb[i]
        /\ Packets(toGdb') = Packets(toGdb) \cup {Len(toGdb')} /\ Answers(toGdb') = Answers(toGdb)
    <2>1. LET q == toGdb  t == Append(q, O)
          IN  /\ t # <<>> /\ Len(t) = Len(q) + 1 /\ Len(q) \in Nat /\ t[Len(t)] = O
              /\ Head(t) = IF q = <<>> THEN O ELSE Head(q)
              /\ DOMAIN t = DOMAIN q \cup {Len(t)}
              /\ \A i \in DOMAIN q : i \in Nat /\ i < Len(t) /\ t[i] = q[i]
              /\ Packets(t) = Packets(q) \cup (IF O = Plus THEN {} ELSE {Len(t)})
              /\ Answers(t) = Answers(q) \cup (IF O[2] = None THEN {} ELSE {Len(t)})
      BY <1>1, SendPacket
    <2>2. Answers(toGdb) \cup {} = Answers(toGdb)
      OBVIOUS
    <2> HIDE DEF Inv, TypeOK
    <2>3. QED
      BY <1>1, <2>1, <2>2
  <1>7. Question'
    BY <1>3, <1>5 DEF Question, Current, Latest, Single, Pending, Behind
  <1>8. Answering'
    BY <1>1, <1>2, <1>3, <1>4, <1>5, <1>6 DEF Tidy, Answering
  <1>9. Acking'
    BY <1>2, <1>3, <1>4, <1>6 DEF Acking
  <1>10. Turns'
    BY <1>3, <1>4, <1>5 DEF Tidy, Turns
  <1>11. QED
    BY <1>7, <1>8, <1>9, <1>10 DEF Tidy

\* The stop reply, or an error, for c.
LEMMA StopSent ==
    ASSUME Inv, Talking, UNCHANGED <<noAck, startNoAck, handling, conn, client, mixed>>,
           toServer' = toServer \/ (toServer # <<>> /\ toServer' = Tail(toServer)),
           pc \in {"cont", "lost"}, NEW w \in {"stop", "E01"}, Reply(<<>>, w, "prompt")
    PROVE  /\ \A i \in Answers(toGdb') : toGdb'[i][1] = w
           /\ Answers(toGdb') # {} /\ asked'[1] = "c"
  <1> USE DEF Inv, TypeOK
  <1>1. IF noAck THEN pc' = "prompt" ELSE pc' = "ack" /\ after' = "prompt"
    BY DEF Reply, Deliver
  <1>2. Answers(toGdb) = {} /\ handling = asked[2] /\ asked[1] = "c"
    BY <1>1, BusyFacts
  <1> DEFINE x == <<w, handling>>
  <1>3. toGdb \in Seq(Packet) /\ x \in Packet /\ x # Plus /\ x[1] = w /\ x[2] # None
    <2>1. handling \in Ids
      BY <1>2
    <2>2. QED
      BY <2>1, PacketFacts, ByteFacts
  <1>4. toGdb' = Append(toGdb, x)
    BY <1>3, Sent DEF Reply, Deliver
  <1> HIDE DEF x
  <1>5. toGdb'[Len(toGdb')] = x /\ Answers(toGdb') = Answers(toGdb) \cup {Len(toGdb')}
    BY <1>3, <1>4, SendPacket
  <1>6. QED
    BY <1>2, <1>3, <1>5 DEF client

LEMMA StopTidy ==
    ASSUME Inv, Talking, UNCHANGED <<noAck, startNoAck, handling, conn, client, mixed>>,
           toServer' = toServer \/ (toServer # <<>> /\ toServer' = Tail(toServer)),
           pc \in {"cont", "lost"}, NEW w \in {"stop", "E01"}, Reply(<<>>, w, "prompt")
    PROVE  Tidy'
  <1> USE DEF Inv, TypeOK
  <1>1. IF noAck THEN pc' = "prompt" ELSE pc' = "ack" /\ after' = "prompt"
    BY DEF Reply, Deliver
  <1>2. /\ Pluses(toServer') = {} /\ Requests(pc', toServer') = {} /\ (~noAck => Alive(pc', toServer') = {})
        /\ Answers(toGdb) = {} /\ (~gdbNoAck => Packets(toGdb) = {}) /\ ~startNoAck /\ noAck = gdbNoAck
        /\ gdb = "run" /\ handling = asked[2] /\ asked[1] = "c"
        /\ ~acked => toGdb # <<>> /\ Head(toGdb) = Plus
    BY <1>1, BusyFacts
  <1> DEFINE x == <<w, handling>>
  <1>3. toGdb \in Seq(Packet) /\ x \in Packet /\ x # Plus /\ x[1] # "ok" /\ x[2] # None
    <2>1. handling \in Ids
      BY <1>2
    <2>2. QED
      BY <2>1, PacketFacts, ByteFacts
  <1>4. toGdb' = Append(toGdb, x)
    BY <1>3, Sent DEF Reply, Deliver
  <1> HIDE DEF x
  <1>5. UNCHANGED <<gdb, asked, acked, gdbNoAck>>
    BY DEF client
  <1>6. ~Busy' /\ ~Leaving' /\ Waiting' /\ Tidy
    BY <1>1, <1>2, <1>5 DEF Busy, Leaving, Waiting, Talking
  <1>7. /\ toGdb' # <<>> /\ (toGdb # <<>> => Head(toGdb') = Head(toGdb)) /\ Len(toGdb') \in DOMAIN toGdb'
        /\ DOMAIN toGdb' = DOMAIN toGdb \cup {Len(toGdb')} /\ toGdb'[Len(toGdb')] = x
        /\ \A i \in DOMAIN toGdb : toGdb'[i] = toGdb[i]
        /\ Packets(toGdb') = Packets(toGdb) \cup {Len(toGdb')} /\ Answers(toGdb') = Answers(toGdb) \cup {Len(toGdb')}
    BY <1>3, <1>4, SendPacket
  <1>8. Question'
    BY <1>1, <1>2, <1>5, <1>6, <1>7 DEF Question, Current, Latest, Single, Pending, Behind
  <1>9. Answering'
    BY <1>1, <1>2, <1>3, <1>5, <1>6, <1>7 DEF Tidy, Answering
  <1>10. Acking'
    BY <1>1, <1>2, <1>5, <1>7 DEF Acking
  <1>11. Turns'
    BY <1>2, <1>5, <1>6 DEF Tidy, Turns
  <1>12. QED
    BY <1>8, <1>9, <1>10, <1>11 DEF Tidy

LEMMA ReattachTidy == ASSUME Inv, Talking', Reattach PROVE Tidy'
  <1>1. CASE Stay("cont")
    <2> USE DEF Inv, TypeOK
    <2>1. Tidy /\ pc = "lost" /\ pc' = "cont" /\ Busy /\ Busy' /\ ~Leaving'
      BY <1>1 DEF Reattach, Talking, Stay, Busy, Leaving
    <2>2. UNCHANGED <<after, toGdb, noAck, startNoAck, handling, conn, toServer, gdb, asked, acked, gdbNoAck>> /\ Waiting' = Waiting
      BY <1>1 DEF Reattach, Stay, client, Waiting
    <2>3. Requests(pc', toServer) = Requests(pc, toServer)
      BY <2>1, PlaceFacts
    <2>4. Question'
      BY <2>1, <2>2, <2>3 DEF Tidy, Question, Current, Latest, Single, Pending, Behind
    <2>5. Answering'
      BY <2>1, <2>2 DEF Tidy, Answering
    <2>6. Acking'
      BY <2>1, <2>2 DEF Tidy, Acking
    <2>7. Turns'
      BY <2>1, <2>2 DEF Tidy, Turns
    <2>8. QED
      BY <2>4, <2>5, <2>6, <2>7 DEF Tidy
  <1>2. CASE Reply(<<>>, "E01", "prompt")
    <2>1. /\ pc = "lost" /\ Talking /\ UNCHANGED <<noAck, startNoAck, handling, conn, client, mixed>>
          /\ toServer' = toServer
      BY DEF Reattach, Talking
    <2>2. QED
      BY <1>2, <2>1, StopTidy
  <1>3. QED
    BY <1>1, <1>2 DEF Reattach

LEMMA LostInputTidy == ASSUME Inv, Talking', LostInput PROVE Tidy'
  <1>1. /\ pc = "lost" /\ Talking /\ UNCHANGED <<noAck, startNoAck, handling, conn, client, target, mixed>>
        /\ toServer # <<>> /\ toServer' = Tail(toServer)
        /\ Deliver(<<O>>, "lost") \/ Stay("lost")
    BY DEF LostInput, Talking, Gone, Input, Other
  <1>2. CASE Deliver(<<O>>, "lost")
    BY <1>1, <1>2, ConsoleTidy
  <1>3. CASE Stay("lost")
    <2>1. UNCHANGED <<server, toGdb>> /\ Busy
      BY <1>1, <1>3 DEF Stay, server, Busy
    <2>2. QED
      BY <1>1, <2>1, DropTidy
  <1>4. QED
    BY <1>1, <1>2, <1>3

LEMMA PollTidy == ASSUME Inv, Talking', PollInterrupt \/ PollLost \/ PollReset \/ PollStop PROVE Tidy'
  <1>1. /\ pc = "cont" /\ Talking /\ UNCHANGED <<noAck, startNoAck, handling, conn, client, mixed>>
        /\ toServer' = toServer \/ (toServer # <<>> /\ toServer' = Tail(toServer))
    BY DEF PollInterrupt, PollLost, PollReset, PollStop, Talking, Input, target
  <1>2. CASE Deliver(<<O>>, "lost") \/ Deliver(<<O>>, "cont")
    BY <1>1, <1>2, ConsoleTidy
  <1>3. CASE Reply(<<>>, "stop", "prompt") \/ Reply(<<>>, "E01", "prompt")
    BY <1>1, <1>3, StopTidy
  <1>4. QED
    BY <1>2, <1>3 DEF PollInterrupt, PollLost, PollReset, PollStop

\* A ^C at the prompt comes in no-ack mode, or the request before it would
\* have been handled first.
LEMMA InterruptedTidy == ASSUME Inv, Talking', Interrupted PROVE Tidy'
  <1> USE DEF Inv, TypeOK
  <1>1. Tidy /\ pc = "prompt" /\ toServer # <<>> /\ Head(toServer) = CtrlC /\ toServer' = Tail(toServer) /\ toServer \in Seq(Bytes)
    BY DEF Interrupted, Talking, Input
  <1>2. UNCHANGED <<noAck, startNoAck, handling, conn, gdb, asked, acked, gdbNoAck, link, mixed>> /\ Waiting' = Waiting
    BY DEF Interrupted, client, Waiting
  <1>3. /\ 1 \in Alive(pc, toServer) /\ toServer[1] = CtrlC /\ 1 \notin Requests(pc, toServer)
    <2>1. CtrlC[1] \notin Kinds
      BY ByteFacts
    <2>2. QED
      BY <1>1, <2>1, ReadByte, TailFacts
  <1>4. noAck
    <2>1. \A j \in Requests(pc, toServer) : j \in Nat /\ j >= 1
      BY <1>1 DEF Requests, Alive
    <2>2. ~Busy
      BY <1>1 DEF Busy
    <2>3. QED
      BY <1>1, <1>3, <2>1, <2>2 DEF Tidy, Question, Behind
  <1>5. gdbNoAck /\ Pluses(toServer) = {} /\ ~startNoAck /\ acked
    BY <1>1, <1>4 DEF Tidy, Answering, Acking
  <1>6. pc' \in {"prompt", "bye"} /\ toGdb' \in {toGdb, toGdb \o <<<<"stop", None>>>>}
    BY <1>4 DEF Interrupted, Deliver, Stay
  <1>7. ~Busy /\ ~Busy' /\ ~Leaving'
    BY <1>1, <1>6 DEF Busy, Leaving
  <1>8. LET q == toServer  t == toServer'
        IN  /\ \A i \in Pluses(t) : i \in Nat /\ i + 1 \in Pluses(q)
            /\ \A i \in Requests(pc, t) : i \in Nat /\ i + 1 \in Requests(pc, q) /\ t[i] = q[i + 1]
            /\ \A j \in Requests(pc, q) : j \in Nat /\ (j = 1 \/ (j - 1 \in Requests(pc, t) /\ t[j - 1] = q[j]))
    <2>1. pc = "ack" => Head(toServer) # Plus
      BY <1>1
    <2>2. QED
      BY <1>1, <2>1, ReadOn
  <1>9. Pluses(toServer') = {} /\ Requests(pc', toServer') = Requests(pc, toServer')
    BY <1>1, <1>5, <1>6, <1>8, PlaceFacts
  <1>10. /\ Answers(toGdb') = Answers(toGdb)
         /\ \A i \in DOMAIN toGdb' : toGdb'[i][1] = "ok" => i \in DOMAIN toGdb /\ toGdb[i][1] = "ok"
    <2>1. CASE toGdb' = toGdb
      BY <2>1
    <2>2. CASE toGdb' = toGdb \o <<<<"stop", None>>>>
      <3> DEFINE x == <<"stop", None>>
      <3>1. x \in Packet /\ x[1] # "ok" /\ x[2] = None /\ toGdb \in Seq(Packet)
        BY PacketFacts
      <3>2. toGdb' = Append(toGdb, x)
        BY <2>2, <3>1, Sent
      <3> HIDE DEF x
      <3>3. LET q == toGdb  t == Append(q, x)
            IN  /\ t[Len(t)] = x /\ DOMAIN t = DOMAIN q \cup {Len(t)}
                /\ \A i \in DOMAIN q : i \in Nat /\ i < Len(t) /\ t[i] = q[i]
                /\ Answers(t) = Answers(q) \cup (IF x[2] = None THEN {} ELSE {Len(t)})
        BY <3>1, SendPacket
      <3> HIDE DEF Inv, TypeOK
      <3>4. QED
        BY <3>1, <3>2, <3>3
    <2>3. QED
      BY <1>6, <2>1, <2>2
  <1>11. Question'
    <2>1. Current'
      BY <1>1, <1>2, <1>7, <1>8, <1>9, <1>10 DEF Tidy, Question, Current
    <2>2. Latest'
      BY <1>9 DEF Latest
    <2>3. Single'
      <3>1. ASSUME NEW i \in Requests(pc', toServer'), NEW j \in Requests(pc', toServer') PROVE i = j
        <4>1. i \in Nat /\ j \in Nat /\ j + 1 = i + 1
          BY <1>1, <1>5, <1>8, <1>9, <3>1 DEF Tidy, Question, Single
        <4>2. QED
          BY <4>1
      <3>2. QED
        BY <1>7, <3>1 DEF Single
    <2>4. Pending'
      BY <1>1, <1>2, <1>3, <1>7, <1>8, <1>9, <1>10 DEF Tidy, Question, Pending
    <2>5. Behind'
      BY <1>2, <1>4, <1>6 DEF Behind
    <2>6. QED
      BY <2>1, <2>2, <2>3, <2>4, <2>5 DEF Question
  <1>12. Answering'
    <2>1. Answers(toGdb') # {} => Waiting' /\ ~Busy'
      BY <1>1, <1>2, <1>7, <1>10 DEF Tidy, Answering
    <2>2. \A i, j \in Answers(toGdb') : i = j
      BY <1>1, <1>10 DEF Tidy, Answering
    <2>3. \A i \in DOMAIN toGdb' : toGdb'[i][1] = "ok" => gdb' = "wait"
      BY <1>1, <1>2, <1>10 DEF Tidy, Answering
    <2>4. gdbNoAck' /\ acked'
      BY <1>2, <1>5
    <2>5. QED
      BY <2>1, <2>2, <2>3, <2>4 DEF Answering
  <1>13. Acking'
    BY <1>1, <1>2, <1>4, <1>5, <1>6, <1>9, <1>10 DEF Tidy, Acking
  <1>14. Turns'
    BY <1>1, <1>2, <1>7 DEF Tidy, Turns
  <1>15. QED
    BY <1>11, <1>12, <1>13, <1>14 DEF Tidy

\* A request that the server handles is GDB's last, unanswered; no other is
\* left that it would handle, unless GDB repeated it.
LEMMA RequestFacts ==
    ASSUME Inv, Talking', NEW k \in Kinds, NEW i \in Ids, Request(k, i)
    PROVE  /\ Tidy /\ pc = "prompt" /\ asked = <<k, i>> /\ handling' = asked[2]
           /\ UNCHANGED <<noAck, conn, gdb, asked, acked, gdbNoAck, link, mixed>> /\ Waiting /\ Waiting' = Waiting
           /\ noAck = gdbNoAck /\ ~startNoAck /\ (noAck => k # "noack") /\ (k = "c" <=> gdb = "run")
           /\ Answers(toGdb) = {} /\ (~gdbNoAck => Packets(toGdb) = {}) /\ (noAck => acked)
           /\ Pluses(toServer') = {} /\ toServer' \in Seq(Bytes)
           /\ \A j \in Requests("prompt", toServer') : toServer'[j] = asked
           /\ noAck => Requests("prompt", toServer') = {}
  <1> USE DEF Inv, TypeOK
  <1>1. /\ Tidy /\ pc = "prompt" /\ toServer # <<>> /\ Head(toServer) = <<k, i>> /\ toServer' = Tail(toServer)
        /\ toServer \in Seq(Bytes) /\ handling' = i
    BY DEF Request, Talking, Input
  <1>2. UNCHANGED <<noAck, conn, gdb, asked, acked, gdbNoAck, link, mixed>> /\ Waiting' = Waiting /\ ~Busy
    BY <1>1 DEF Request, client, Waiting, Busy
  <1>3. 1 \in Requests(pc, toServer) /\ toServer[1] = <<k, i>>
    <2>1. <<k, i>>[1] \in Kinds
      OBVIOUS
    <2>2. QED
      BY <1>1, <2>1, ReadByte, TailFacts
  <1>4. asked = <<k, i>> /\ Waiting /\ Answers(toGdb) = {}
    BY <1>1, <1>2, <1>3 DEF Tidy, Question, Current
  <1>5. Pluses(toServer) = {}
    <2>1. \A j \in Pluses(toServer) : j \in Nat /\ j >= 1 /\ j < 1
      BY <1>1, <1>3 DEF Tidy, Question, Latest, Pluses
    <2>2. QED
      BY <2>1
  <1>6. noAck = gdbNoAck /\ ~startNoAck /\ (noAck => acked) /\ (~gdbNoAck => Packets(toGdb) = {})
    BY <1>1 DEF Tidy, Answering, Acking
  <1>7. (noAck => k # "noack") /\ (k = "c" <=> gdb = "run")
    BY <1>1, <1>4, <1>6 DEF Tidy, Turns
  <1>8. LET q == toServer  t == toServer'
        IN  /\ \A j \in Pluses(t) : j \in Nat /\ j + 1 \in Pluses(q)
            /\ \A j \in Requests(pc, t) : j \in Nat /\ j + 1 \in Requests(pc, q) /\ t[j] = q[j + 1]
    <2>1. pc = "ack" => Head(toServer) # Plus
      BY <1>1
    <2>2. QED
      BY <1>1, <2>1, ReadOn
  <1>9. \A j \in Requests(pc, toServer') : toServer'[j] = asked
    BY <1>1, <1>8 DEF Tidy, Question, Current
  <1>10. noAck => Requests(pc, toServer') = {}
    <2>1. ASSUME noAck, NEW j \in Requests(pc, toServer') PROVE FALSE
      <3>1. j \in Nat /\ j + 1 = 1
        BY <1>1, <1>3, <1>6, <1>8, <2>1 DEF Tidy, Question, Single
      <3>2. j \in DOMAIN toServer' /\ toServer' \in Seq(Bytes)
        BY <1>1, TailFacts DEF Requests, Alive
      <3>3. QED
        BY <3>1, <3>2
    <2>2. QED
      BY <2>1
  <1>11. Pluses(toServer') = {} /\ toServer' \in Seq(Bytes)
    BY <1>1, <1>5, <1>8, TailFacts
  <1>12. QED
    BY <1>1, <1>2, <1>4, <1>6, <1>7, <1>9, <1>10, <1>11

\* What GDB finds behind what it has not read: an acknowledgement, or none.
LEMMA AckSent ==
    ASSUME TypeOK
    PROVE  LET t == toGdb \o Acks
           IN  /\ t \in Seq(Packet) /\ Packets(t) = Packets(toGdb) /\ Answers(t) = Answers(toGdb)
               /\ \A j \in DOMAIN t : t[j][1] = "ok" => j \in DOMAIN toGdb /\ toGdb[j][1] = "ok"
               /\ toGdb # <<>> => t # <<>> /\ Head(t) = Head(toGdb)
               /\ ~noAck /\ toGdb = <<>> => t # <<>> /\ Head(t) = Plus
               /\ \A x : toGdb \o (Acks \o <<x>>) = t \o <<x>>
  <1>1. toGdb \in Seq(Packet) /\ Plus \in Packet /\ Plus[1] # "ok" /\ Plus[2] = None
    BY ByteFacts DEF TypeOK
  <1>2. CASE noAck
    <2>1. toGdb \o Acks = toGdb /\ \A x : toGdb \o (Acks \o <<x>>) = toGdb \o <<x>>
      BY <1>1, <1>2 DEF Acks
    <2>2. QED
      BY <1>1, <1>2, <2>1
  <1>3. CASE ~noAck
    <2>1. toGdb \o Acks = Append(toGdb, Plus)
      BY <1>1, <1>3 DEF Acks
    <2>2. \A x : toGdb \o (Acks \o <<x>>) = Append(toGdb, Plus) \o <<x>>
      BY <1>1, <1>3 DEF Acks
    <2>3. LET q == toGdb  t == Append(q, Plus)
          IN  /\ t \in Seq(Packet) /\ t # <<>> /\ t[Len(t)] = Plus
              /\ Head(t) = IF q = <<>> THEN Plus ELSE Head(q)
              /\ DOMAIN t = DOMAIN q \cup {Len(t)}
              /\ \A i \in DOMAIN q : i \in Nat /\ i < Len(t) /\ t[i] = q[i]
              /\ Packets(t) = Packets(q) \cup (IF Plus = Plus THEN {} ELSE {Len(t)})
              /\ Answers(t) = Answers(q) \cup (IF Plus[2] = None THEN {} ELSE {Len(t)})
      BY <1>1, SendPacket
    <2>4. Packets(toGdb) \cup {} = Packets(toGdb) /\ Answers(toGdb) \cup {} = Answers(toGdb)
      OBVIOUS
    <2> DEFINE t == Append(toGdb, Plus)
    <2>5. /\ t \in Seq(Packet) /\ Packets(t) = Packets(toGdb) /\ Answers(t) = Answers(toGdb)
          /\ \A j \in DOMAIN t : t[j][1] = "ok" => j \in DOMAIN toGdb /\ toGdb[j][1] = "ok"
          /\ toGdb # <<>> => t # <<>> /\ Head(t) = Head(toGdb)
          /\ ~noAck /\ toGdb = <<>> => t # <<>> /\ Head(t) = Plus
      BY <1>1, <2>3, <2>4
    <2> HIDE DEF t
    <2>6. toGdb \o Acks = t /\ \A x : toGdb \o (Acks \o <<x>>) = t \o <<x>>
      BY <2>1, <2>2 DEF t
    <2>7. QED
      BY <2>5, <2>6
  <1>4. QED
    BY <1>2, <1>3

LEMMA AnsweredTidy ==
    ASSUME Inv, Talking', NEW k \in Kinds, NEW i \in Ids, Request(k, i),
           NEW w \in {"ok", "E01", "stop"}, NEW then \in {"prompt", "bye"}, Answer(w, then, i),
           w = "ok" => k # "c", then = "bye" => k \in {"D", "k"}, k = "noack" => w = "ok"
    PROVE  Tidy'
  <1> DEFINE x == <<w, i>>
             s == toGdb \o Acks
  <1>1. /\ Tidy /\ pc = "prompt" /\ asked = <<k, i>> /\ handling' = asked[2]
        /\ UNCHANGED <<noAck, conn, gdb, asked, acked, gdbNoAck, link, mixed>> /\ Waiting /\ Waiting' = Waiting
        /\ noAck = gdbNoAck /\ ~startNoAck /\ (noAck => k # "noack") /\ (k = "c" <=> gdb = "run")
        /\ Answers(toGdb) = {} /\ (~gdbNoAck => Packets(toGdb) = {}) /\ (noAck => acked)
        /\ Pluses(toServer') = {} /\ toServer' \in Seq(Bytes)
        /\ noAck => Requests("prompt", toServer') = {}
        /\ startNoAck' <=> k = "noack"
    <2>1. startNoAck' = (startNoAck \/ k = "noack")
      BY DEF Request
    <2>2. QED
      BY <2>1, RequestFacts
  <1>2. asked[1] = k /\ asked[2] = i /\ gdb \in {"wait", "run"}
    BY <1>1 DEF Waiting
  <1>3. /\ s \in Seq(Packet) /\ Packets(s) = Packets(toGdb) /\ Answers(s) = Answers(toGdb)
        /\ \A j \in DOMAIN s : s[j][1] = "ok" => j \in DOMAIN toGdb /\ toGdb[j][1] = "ok"
        /\ toGdb # <<>> => s # <<>> /\ Head(s) = Head(toGdb)
        /\ ~noAck /\ toGdb = <<>> => s # <<>> /\ Head(s) = Plus
        /\ toGdb \o (Acks \o <<x>>) = s \o <<x>>
    BY AckSent DEF Inv
  <1>4. x \in Packet /\ x # Plus /\ x[1] = w /\ x[2] = i /\ i # None
    BY PacketFacts, ByteFacts
  <1>5. toGdb' = toGdb \o (Acks \o <<x>>) /\ IF noAck THEN pc' = then ELSE pc' = "ack" /\ after' = then
    BY DEF Answer, Deliver
  <1> HIDE DEF s, x
  <1>6. toGdb' = Append(s, x)
    BY <1>3, <1>4, <1>5, Sent
  <1>7. LET t == Append(s, x)
        IN  /\ t # <<>> /\ t[Len(t)] = x
            /\ Head(t) = IF s = <<>> THEN x ELSE Head(s)
            /\ DOMAIN t = DOMAIN s \cup {Len(t)}
            /\ \A j \in DOMAIN s : j \in Nat /\ j < Len(t) /\ t[j] = s[j]
            /\ Packets(t) = Packets(s) \cup (IF x = Plus THEN {} ELSE {Len(t)})
            /\ Answers(t) = Answers(s) \cup (IF x[2] = None THEN {} ELSE {Len(t)})
    BY <1>3, <1>4, SendPacket
  <1>8. /\ toGdb' # <<>> /\ toGdb'[Len(toGdb')] = x /\ Answers(toGdb') = {Len(toGdb')}
        /\ Packets(toGdb') = Packets(toGdb) \cup {Len(toGdb')}
        /\ ~acked => Head(toGdb') = IF toGdb = <<>> THEN Plus ELSE Head(toGdb)
        /\ \A j \in DOMAIN toGdb' : toGdb'[j][1] = "ok" => (j \in DOMAIN toGdb /\ toGdb[j][1] = "ok") \/ w = "ok"
    <2>1. /\ toGdb' # <<>> /\ toGdb'[Len(toGdb')] = x
          /\ \A j \in DOMAIN s : toGdb'[j] = s[j]
          /\ DOMAIN toGdb' = DOMAIN s \cup {Len(toGdb')}
      BY <1>6, <1>7
    <2>2. Answers(toGdb') = {Len(toGdb')}
      BY <1>1, <1>3, <1>4, <1>6, <1>7
    <2>3. Packets(toGdb') = Packets(toGdb) \cup {Len(toGdb')}
      BY <1>3, <1>4, <1>6, <1>7
    <2>4. ~acked => Head(toGdb') = IF toGdb = <<>> THEN Plus ELSE Head(toGdb)
      <3>1. ~acked => ~noAck /\ s # <<>>
        BY <1>1, <1>3
      <3>2. QED
        BY <1>3, <1>6, <1>7, <3>1
    <2>5. \A j \in DOMAIN toGdb' : toGdb'[j][1] = "ok" => (j \in DOMAIN toGdb /\ toGdb[j][1] = "ok") \/ w = "ok"
      BY <1>3, <1>4, <2>1
    <2>6. QED
      BY <2>1, <2>2, <2>3, <2>4, <2>5
  <1>9. Requests(pc', toServer') = {} /\ (~noAck => Alive(pc', toServer') = {})
    <2>1. CASE noAck
      BY <1>1, <1>5, <2>1, PlaceFacts
    <2>2. CASE ~noAck
      BY <1>1, <1>5, <2>2, PlaceFacts
    <2>3. noAck \in BOOLEAN
      BY DEF Inv, TypeOK
    <2>4. QED
      BY <2>1, <2>2, <2>3
  <1>10. ~Busy' /\ (Leaving' => then = "bye") /\ noAck \in BOOLEAN /\ (pc' = "ack" <=> ~noAck) /\ pc' \notin {"accept", "cont", "lost"}
    BY <1>5 DEF Busy, Leaving, Inv, TypeOK
  <1>11. Question'
    BY <1>1, <1>8, <1>9, <1>10 DEF Question, Current, Latest, Single, Pending, Behind
  <1>12. Answering'
    <2>1. /\ Answers(toGdb') # {} => Waiting' /\ ~Busy'
          /\ \A a, b \in Answers(toGdb') : a = b
      BY <1>1, <1>8, <1>10
    <2>2. \A j \in DOMAIN toGdb' : toGdb'[j][1] = "ok" => gdb' = "wait"
      BY <1>1, <1>2, <1>8 DEF Tidy, Answering
    <2>3. ~gdbNoAck' => \A j \in Packets(toGdb') : j = Len(toGdb') /\ pc' = "ack" /\ Pluses(toServer') = {}
      BY <1>1, <1>8, <1>10
    <2>4. ~gdbNoAck' /\ Packets(toGdb') # {} => Busy' \/ Answers(toGdb') # {}
      BY <1>8
    <2>5. ~acked' => ~gdbNoAck' /\ IF toGdb' = <<>> THEN ~Busy' ELSE Head(toGdb') = Plus
      BY <1>1, <1>8 DEF Tidy, Answering
    <2>6. QED
      BY <2>1, <2>2, <2>3, <2>4, <2>5 DEF Answering
  <1>13. Acking'
    <2>1. startNoAck' => pc' = "ack" /\ asked'[1] = "noack" /\ gdb' = "wait" /\ toGdb'[Len(toGdb')] = <<"ok", asked'[2]>>
      <3>1. startNoAck' => x = <<"ok", asked[2]>> /\ k = "noack"
        BY <1>1, <1>2 DEF x
      <3>2. QED
        BY <1>1, <1>2, <1>8, <1>10, <3>1
    <2>2. asked'[1] = "noack" => startNoAck' /\ ~gdbNoAck'
      BY <1>1, <1>2, <1>10
    <2>3. QED
      BY <1>1, <1>8, <1>10, <2>1, <2>2 DEF Acking
  <1>14. Turns'
    BY <1>1, <1>2, <1>10 DEF Tidy, Turns
  <1>15. QED
    BY <1>11, <1>12, <1>13, <1>14 DEF Tidy

LEMMA ContinuedTidy ==
    ASSUME Inv, Talking', NEW k \in {"c", "k"}, NEW i \in Ids, Request(k, i),
           pc' = IF k = "c" THEN "cont" ELSE "bye", toGdb' = toGdb \o Acks
    PROVE  Tidy'
  <1> DEFINE s == toGdb \o Acks
  <1>1. /\ Tidy /\ pc = "prompt" /\ asked = <<k, i>> /\ handling' = asked[2]
        /\ UNCHANGED <<noAck, conn, gdb, asked, acked, gdbNoAck, link, mixed>> /\ Waiting /\ Waiting' = Waiting
        /\ noAck = gdbNoAck /\ ~startNoAck /\ (k = "c" <=> gdb = "run")
        /\ Answers(toGdb) = {} /\ (~gdbNoAck => Packets(toGdb) = {}) /\ (noAck => acked)
        /\ Pluses(toServer') = {}
        /\ \A j \in Requests("prompt", toServer') : toServer'[j] = asked
        /\ noAck => Requests("prompt", toServer') = {}
    <2>1. k \in Kinds
      BY DEF Kinds
    <2>2. QED
      BY <2>1, RequestFacts
  <1>2. toGdb' = s /\ (pc' = IF k = "c" THEN "cont" ELSE "bye") /\ ~startNoAck'
    BY <1>1 DEF Request
  <1>3. /\ Packets(s) = Packets(toGdb) /\ Answers(s) = Answers(toGdb)
        /\ \A j \in DOMAIN s : s[j][1] = "ok" => j \in DOMAIN toGdb /\ toGdb[j][1] = "ok"
        /\ toGdb # <<>> => s # <<>> /\ Head(s) = Head(toGdb)
        /\ ~noAck /\ toGdb = <<>> => s # <<>> /\ Head(s) = Plus
    BY AckSent DEF Inv
  <1> HIDE DEF s
  <1>4. /\ Packets(toGdb') = Packets(toGdb) /\ Answers(toGdb') = {}
        /\ \A j \in DOMAIN toGdb' : toGdb'[j][1] = "ok" => j \in DOMAIN toGdb /\ toGdb[j][1] = "ok"
        /\ ~acked => toGdb' # <<>> /\ Head(toGdb') = IF toGdb = <<>> THEN Plus ELSE Head(toGdb)
    BY <1>1, <1>2, <1>3
  <1>5. Requests(pc', toServer') = Requests("prompt", toServer')
    BY <1>2, PlaceFacts
  <1>6. ~Leaving' /\ IF k = "c" THEN Busy' ELSE ~Busy' /\ pc' = "bye"
    BY <1>2 DEF Busy, Leaving
  <1>7. Question'
    BY <1>1, <1>2, <1>4, <1>5, <1>6 DEF Question, Current, Latest, Single, Pending, Behind
  <1>8. Answering'
    <2>1. Answers(toGdb') = {} /\ (~gdbNoAck' => Packets(toGdb') = {})
      BY <1>1, <1>4
    <2>2. \A j \in DOMAIN toGdb' : toGdb'[j][1] = "ok" => gdb' = "wait"
      BY <1>1, <1>4 DEF Tidy, Answering
    <2>3. ~acked' => ~gdbNoAck' /\ IF toGdb' = <<>> THEN ~Busy' ELSE Head(toGdb') = Plus
      BY <1>1, <1>4 DEF Tidy, Answering
    <2>4. QED
      BY <2>1, <2>2, <2>3 DEF Answering
  <1>9. Acking'
    BY <1>1, <1>2, <1>4 DEF Acking
  <1>10. Turns'
    <2>1. asked[1] = k /\ gdb \in {"wait", "run"} /\ asked' = asked /\ gdb' = gdb /\ handling' = asked'[2]
      BY <1>1 DEF Waiting
    <2>2. Waiting' => (gdb' = "run" <=> asked'[1] = "c") /\ (gdbNoAck' => asked'[1] # "noack")
      BY <1>1, <2>1
    <2>3. QED
      BY <1>1, <1>6, <2>1, <2>2 DEF Turns
  <1>11. QED
    BY <1>7, <1>8, <1>9, <1>10 DEF Tidy

LEMMA RequestTidy == ASSUME Inv, Talking', NEW k \in Kinds, NEW i \in Ids, Request(k, i) PROVE Tidy'
  <1>1. CASE k \in {"m", "s"} /\ \E w \in {"ok", "E01"} : Answer(w, "prompt", i)
    BY <1>1, AnsweredTidy
  <1>2. CASE k = "noack" /\ Answer("ok", "prompt", i)
    BY <1>2, AnsweredTidy
  <1>3. CASE k = "c" /\ \E w \in {"stop", "E01"} : Answer(w, "prompt", i)
    BY <1>3, AnsweredTidy
  <1>4. CASE k \in {"D", "k"} /\ \E w \in {"ok", "E01"} : Answer(w, "bye", i)
    BY <1>4, AnsweredTidy
  <1>5. CASE k \in {"c", "k"} /\ pc' = (IF k = "c" THEN "cont" ELSE "bye") /\ toGdb' = toGdb \o Acks
    BY <1>5, ContinuedTidy
  <1>6. QED
    BY <1>1, <1>2, <1>3, <1>4, <1>5 DEF Request

LEMMA ServerTidy == ASSUME Inv, Talking', Server PROVE Tidy'
  <1>1. ~Closed /\ ~PollGone
    BY DEF Talking, Closed, PollGone, Gone
  <1>2. ~Bye
    BY DEF Bye, Talking
  <1>3. QED
    BY <1>1, <1>2, AcceptTidy, AcknowledgedTidy, ReadsTidy, InterruptedTidy, RequestTidy, PollTidy, ReattachTidy, LostInputTidy DEF Server

-----------------------------------------------------------------------------
(* Steps of GDB in a session.                                              *)

LEMMA ConnectTidy == ASSUME Inv, Connect PROVE Tidy'
  <1> USE DEF Inv, TypeOK
  <1>1. /\ pc' = "accept" /\ toServer' = <<Plus>> /\ toGdb' = <<>> /\ gdb' = "idle" /\ acked' /\ ~gdbNoAck'
        /\ UNCHANGED server
    BY DEF Connect, server
  <1>2. ~Busy' /\ ~Leaving' /\ ~Waiting'
    BY <1>1 DEF Busy, Leaving, Waiting
  <1>3. /\ DOMAIN toServer' = {1} /\ toServer'[1] = Plus /\ Plus # CtrlC /\ Plus[1] \notin Kinds
    BY <1>1, ByteFacts
  <1>4. Requests(pc', toServer') = {}
    BY <1>3 DEF Requests, Alive
  <1>5. \A i \in Alive(pc', toServer') : toServer'[i] # CtrlC
    BY <1>3 DEF Alive
  <1>6. Packets(toGdb') = {} /\ Answers(toGdb') = {} /\ DOMAIN toGdb' = {}
    BY <1>1 DEF Packets, Answers
  <1>7. Question'
    BY <1>1, <1>2, <1>4, <1>5 DEF Question, Current, Latest, Single, Pending, Behind
  <1>8. Answering'
    BY <1>1, <1>2, <1>6 DEF Answering
  <1>9. Acking'
    BY <1>1, <1>6 DEF Acking
  <1>10. Turns'
    BY <1>2 DEF Turns
  <1>11. QED
    BY <1>7, <1>8, <1>9, <1>10 DEF Tidy

LEMMA AskTidy == ASSUME Inv, NEW k \in Kinds, Ask(k) PROVE Tidy'
  <1> USE DEF Inv, TypeOK
  <1>1. /\ Tidy /\ gdb = "idle" /\ (k = "noack" => ~gdbNoAck) /\ asked' = <<k, (asked[2] + 1) % 3>>
        /\ toServer' = Append(toServer, asked') /\ gdb' = IF k = "c" THEN "run" ELSE "wait"
        /\ acked' = gdbNoAck
    BY DEF Ask, Talking
  <1>2. UNCHANGED <<pc, after, noAck, startNoAck, handling, toGdb, gdbNoAck, link>>
    BY DEF Ask, server, target
  <1>3. ~Waiting /\ Waiting' /\ ~Busy /\ ~Busy' /\ Leaving' = Leaving
    BY <1>1, <1>2 DEF Waiting, Busy, Leaving, Tidy, Turns
  <1>4. Answers(toGdb) = {} /\ Requests(pc, toServer) = {} /\ (~gdbNoAck => Packets(toGdb) = {})
    BY <1>1, <1>3 DEF Tidy, Question, Current, Answering
  <1>5. ~(pc = "ack" /\ Pluses(toServer) = {})
    BY <1>1, <1>4 DEF Tidy, Acking
  <1>6. asked' \in Bytes /\ asked'[1] = k /\ asked' # Plus /\ asked' # CtrlC
    <2>1. (asked[2] + 1) % 3 \in Ids
      BY DEF Ids
    <2>2. QED
      BY <1>1, <2>1, ByteFacts
  <1> DEFINE n == Len(toServer) + 1
  <1>7. LET q == toServer  t == toServer'
        IN  /\ n \in Nat /\ t[n] = asked'
            /\ \A i \in DOMAIN q : i \in Nat /\ i < n /\ t[i] = q[i]
            /\ Pluses(q) \subseteq DOMAIN q /\ Alive(pc, q) \subseteq DOMAIN q
            /\ Pluses(t) = Pluses(q) \cup {}
            /\ Alive(pc, t) = Alive(pc, q) \cup {n}
            /\ Requests(pc, t) = Requests(pc, q) \cup {n}
    <2>1. toServer \in Seq(Bytes)
      OBVIOUS
    <2> DEFINE x == asked'
    <2>2. toServer' = Append(toServer, x) /\ x \in Bytes /\ x # Plus /\ x[1] \in Kinds
      BY <1>1, <1>6
    <2> HIDE DEF x, Inv, TypeOK
    <2>3. LET q == toServer  t == Append(q, x)
              dead == pc = "ack" /\ Pluses(q) = {}
          IN  /\ n \in Nat /\ t[n] = x
              /\ \A i \in DOMAIN q : i \in Nat /\ i < n /\ t[i] = q[i]
              /\ Pluses(q) \subseteq DOMAIN q /\ Alive(pc, q) \subseteq DOMAIN q
              /\ Pluses(t) = Pluses(q) \cup (IF x = Plus THEN {n} ELSE {})
              /\ Alive(pc, t) = Alive(pc, q) \cup (IF dead THEN {} ELSE {n})
              /\ Requests(pc, t) = Requests(pc, q) \cup (IF dead \/ x[1] \notin Kinds THEN {} ELSE {n})
      BY <2>1, <2>2, SendByte
    <2> HIDE DEF n
    <2>4. QED
      BY <1>5, <2>2, <2>3 DEF x
  <1> HIDE DEF n
  <1>8. Pluses(toServer') = Pluses(toServer) /\ Requests(pc, toServer') = {n} /\ \A j \in Pluses(toServer) : j < n
    BY <1>4, <1>7
  <1>9. Question'
    <2>1. Current' /\ Latest' /\ Single' /\ Pending'
      BY <1>2, <1>3, <1>4, <1>7, <1>8 DEF Current, Latest, Single, Pending
    <2>2. ASSUME ~noAck \/ pc = "accept", pc # "bye", NEW i \in Alive(pc, toServer'), toServer'[i] = CtrlC PROVE FALSE
      <3>1. i \in Alive(pc, toServer) /\ toServer[i] = CtrlC
        BY <1>6, <1>7, <2>2
      <3>2. QED
        BY <1>1, <1>3, <1>4, <2>2, <3>1 DEF Tidy, Question, Behind
    <2>3. Behind'
      BY <1>2, <2>2 DEF Behind
    <2>4. QED
      BY <2>1, <2>3 DEF Question
  <1>10. Answering'
    <2>1. ~gdbNoAck /\ toGdb # <<>> => Head(toGdb) = Plus
      <3>1. ~gdbNoAck /\ toGdb # <<>> => 1 \notin Packets(toGdb) /\ 1 \in DOMAIN toGdb /\ Head(toGdb) = toGdb[1]
        BY <1>4
      <3>2. QED
        BY <3>1 DEF Packets
    <2>2. \A i \in DOMAIN toGdb : toGdb[i][1] # "ok"
      BY <1>1 DEF Tidy, Answering
    <2>3. QED
      BY <1>1, <1>2, <1>3, <1>4, <2>1, <2>2 DEF Answering
  <1>11. Acking'
    BY <1>1, <1>2, <1>4, <1>8 DEF Tidy, Acking
  <1>12. Turns'
    BY <1>1, <1>2, <1>3, <1>6 DEF Tidy, Turns
  <1>13. QED
    BY <1>9, <1>10, <1>11, <1>12 DEF Tidy

\* GDB sends its request again, or a ^C.
LEMMA SendTidy ==
    ASSUME Inv, Talking, Waiting, NEW x \in {asked, CtrlC}, toServer' = Append(toServer, x),
           x = asked => ~acked,
           UNCHANGED <<server, conn, toGdb, gdb, asked, acked, gdbNoAck, target, mixed>>
    PROVE  Tidy'
  <1> USE DEF Inv, TypeOK
  <1>1. UNCHANGED <<pc, after, noAck, startNoAck, handling, link>> /\ Tidy
    BY DEF server, target
  <1>2. Waiting' /\ Busy' = Busy /\ Leaving' = Leaving
    BY <1>1 DEF Waiting, Busy, Leaving
  <1> DEFINE n == Len(toServer) + 1
             dead == pc = "ack" /\ Pluses(toServer) = {}
  <1>3. x \in Bytes /\ x # Plus /\ asked # CtrlC /\ asked[1] \in Kinds /\ CtrlC[1] \notin Kinds /\ asked \in Bytes
    BY ByteFacts
  <1>4. LET q == toServer  t == toServer'
        IN  /\ n \in Nat /\ t[n] = x
            /\ \A i \in DOMAIN q : i \in Nat /\ i < n /\ t[i] = q[i]
            /\ Pluses(q) \subseteq DOMAIN q /\ Alive(pc, q) \subseteq DOMAIN q /\ Requests(pc, q) \subseteq DOMAIN q
            /\ Pluses(t) = Pluses(q)
            /\ Alive(pc, t) = Alive(pc, q) \cup (IF dead THEN {} ELSE {n})
            /\ Requests(pc, t) = Requests(pc, q) \cup (IF dead \/ x = CtrlC THEN {} ELSE {n})
    <2>1. toServer \in Seq(Bytes)
      OBVIOUS
    <2> HIDE DEF Inv, TypeOK
    <2>2. LET q == toServer  t == Append(q, x)
          IN  /\ n \in Nat /\ t[n] = x
              /\ \A i \in DOMAIN q : i \in Nat /\ i < n /\ t[i] = q[i]
              /\ Pluses(q) \subseteq DOMAIN q /\ Alive(pc, q) \subseteq DOMAIN q /\ Requests(pc, q) \subseteq DOMAIN q
              /\ Pluses(t) = Pluses(q) \cup (IF x = Plus THEN {n} ELSE {})
              /\ Alive(pc, t) = Alive(pc, q) \cup (IF dead THEN {} ELSE {n})
              /\ Requests(pc, t) = Requests(pc, q) \cup (IF dead \/ x[1] \notin Kinds THEN {} ELSE {n})
      BY <1>3, <2>1, SendByte
    <2>3. x[1] \notin Kinds <=> x = CtrlC
      BY <1>3
    <2> HIDE DEF n, dead
    <2>4. QED
      BY <1>3, <2>2, <2>3
  <1> HIDE DEF n
  <1>5. x = asked => ~gdbNoAck /\ (noAck => pc = "accept")
    BY <1>1 DEF Tidy, Answering, Acking
  <1>6. Answers(toGdb) # {} => Packets(toGdb) # {}
    BY AnswersArePackets
  <1>7. /\ x = asked /\ ~dead => Busy \/ Answers(toGdb) = {}
        /\ x = CtrlC /\ ~dead /\ (~noAck \/ pc = "accept") => Answers(toGdb) = {}
    BY <1>1, <1>5, <1>6 DEF Tidy, Answering, Acking
  <1>8. Question'
    <2>1. Current'
      BY <1>1, <1>2, <1>4, <1>7 DEF Tidy, Question, Current
    <2>2. Latest'
      <3>1. ASSUME NEW i \in Requests(pc, toServer'), NEW j \in Pluses(toServer) PROVE j < i
        BY <1>1, <1>4, <3>1 DEF Tidy, Question, Latest
      <3>2. QED
        BY <1>1, <1>4, <3>1 DEF Latest
    <2>3. Single'
      BY <1>1, <1>2, <1>3, <1>4, <1>5 DEF Tidy, Question, Single
    <2>4. Pending'
      BY <1>1, <1>2, <1>4 DEF Tidy, Question, Pending
    <2>5. ASSUME ~noAck \/ pc = "accept", ~Busy, pc # "bye", NEW i \in Alive(pc, toServer'), toServer'[i] = CtrlC
          PROVE  \E j \in Requests(pc, toServer') : j < i
      <3>1. CASE i \in Alive(pc, toServer)
        <4>1. toServer[i] = CtrlC
          BY <1>4, <2>5, <3>1
        <4>2. PICK j \in Requests(pc, toServer) : j < i
          BY <1>1, <2>5, <3>1, <4>1 DEF Tidy, Question, Behind
        <4>3. j \in Requests(pc, toServer')
          BY <1>4, <4>2
        <4>4. QED
          BY <4>2, <4>3
      <3>2. CASE i \notin Alive(pc, toServer)
        <4>1. i = n /\ x = CtrlC /\ ~dead
          BY <1>3, <1>4, <2>5, <3>2
        <4>2. PICK j \in Requests(pc, toServer) : TRUE
          BY <1>1, <1>7, <2>5, <4>1 DEF Tidy, Question, Pending
        <4>3. j < n /\ j \in Requests(pc, toServer')
          BY <1>4, <4>2
        <4>4. QED
          BY <4>1, <4>3
      <3>3. QED
        BY <3>1, <3>2
    <2>6. Behind'
      BY <1>1, <1>2, <2>5 DEF Behind
    <2>7. QED
      BY <2>1, <2>2, <2>3, <2>4, <2>6 DEF Question
  <1>9. Answering'
    BY <1>1, <1>2, <1>4 DEF Tidy, Answering
  <1>10. Acking'
    BY <1>1, <1>4 DEF Tidy, Acking
  <1>11. Turns'
    BY <1>1, <1>2 DEF Tidy, Turns
  <1>12. QED
    BY <1>8, <1>9, <1>10, <1>11 DEF Tidy

\* What GDB reads next and what is left, in a session.
LEMMA ReadFacts ==
    ASSUME Inv, Talking', Read
    PROVE  LET x == Head(toGdb)
           IN  /\ Tidy /\ Waiting /\ Talking /\ UNCHANGED <<pc, after, noAck, startNoAck, handling, asked, link, conn>>
               /\ toGdb # <<>> /\ toGdb[1] = x /\ 1 \in DOMAIN toGdb /\ toGdb' = Tail(toGdb)
               /\ Len(toGdb') = Len(toGdb) - 1 /\ Len(toGdb) \in Nat /\ Len(toGdb) >= 1
               /\ \A i \in DOMAIN toGdb' : i \in Nat /\ i + 1 \in DOMAIN toGdb /\ toGdb'[i] = toGdb[i + 1]
               /\ \A i \in Packets(toGdb') : i \in Nat /\ i >= 1 /\ i + 1 \in Packets(toGdb)
               /\ \A j \in Packets(toGdb) : j \in Nat /\ (j = 1 \/ j - 1 \in Packets(toGdb'))
               /\ \A i \in Answers(toGdb') : i \in Nat /\ i >= 1 /\ i + 1 \in Answers(toGdb)
               /\ \A j \in Answers(toGdb) : j \in Nat /\ (j = 1 \/ j - 1 \in Answers(toGdb'))
               /\ 1 \in Packets(toGdb) <=> x # Plus
               /\ 1 \in Answers(toGdb) <=> x[2] # None
               /\ acked' = (acked \/ x = Plus)
               /\ \/ x = Plus /\ UNCHANGED <<gdb, gdbNoAck, toServer>>
                  \/ x # Plus /\ acked /\ x = O /\ UNCHANGED <<gdb, gdbNoAck>>
                  \/ /\ x # Plus /\ acked /\ x[2] = asked[2] /\ x[2] # None /\ gdb' = "idle" /\ asked[1] \notin {"D", "k"}
                     /\ gdbNoAck' = (gdbNoAck \/ (asked[1] = "noack" /\ x[1] = "ok"))
               /\ x # Plus => toServer' = IF gdbNoAck THEN toServer ELSE Append(toServer, Plus)
  <1> USE DEF Inv, TypeOK
  <1> DEFINE x == Head(toGdb)
             answer == x[1] \in {"stop", "E01"} \/ (x[1] = "ok" /\ gdb = "wait")
             leaves == answer /\ asked[1] \in {"D", "k"}
  <1>1. /\ toGdb # <<>> /\ toGdb' = Tail(toGdb) /\ Waiting
        /\ acked' = (acked \/ x = Plus) /\ mixed' = (mixed \/ (answer /\ x[2] # asked[2]))
        /\ gdb' = IF leaves THEN "off" ELSE IF answer THEN "idle" ELSE gdb
        /\ conn' = IF ~leaves THEN conn ELSE IF conn = "open" THEN "half" ELSE "none"
        /\ gdbNoAck' = (gdbNoAck \/ (answer /\ asked[1] = "noack" /\ x[1] = "ok"))
        /\ toServer' = IF x = Plus \/ gdbNoAck \/ conn # "open" THEN toServer ELSE Append(toServer, Plus)
        /\ UNCHANGED <<pc, after, noAck, startNoAck, handling, asked, link>>
    BY DEF Read, server, target, Waiting
  <1>2. ~leaves /\ conn = "open" /\ conn' = conn /\ Talking /\ (answer => x[2] = asked[2])
    BY <1>1 DEF Talking
  <1>3. Tidy
    BY <1>2
  <1>4. toGdb \in Seq(Packet)
    OBVIOUS
  <1>5. /\ x \in Packet /\ x = toGdb[1] /\ 1 \in DOMAIN toGdb
        /\ Len(toGdb') = Len(toGdb) - 1 /\ Len(toGdb) \in Nat /\ Len(toGdb) >= 1
        /\ \A i \in DOMAIN toGdb' : i \in Nat /\ i >= 1 /\ i + 1 \in DOMAIN toGdb /\ toGdb'[i] = toGdb[i + 1]
        /\ \A i \in Packets(toGdb') : i \in Nat /\ i >= 1 /\ i + 1 \in Packets(toGdb)
        /\ \A j \in Packets(toGdb) : j \in Nat /\ (j = 1 \/ j - 1 \in Packets(toGdb'))
        /\ \A i \in Answers(toGdb') : i \in Nat /\ i >= 1 /\ i + 1 \in Answers(toGdb)
        /\ \A j \in Answers(toGdb) : j \in Nat /\ (j = 1 \/ j - 1 \in Answers(toGdb'))
        /\ 1 \in Packets(toGdb) <=> x # Plus
        /\ 1 \in Answers(toGdb) <=> x[2] # None
    <2> HIDE DEF Inv, TypeOK
    <2>1. QED
      BY <1>1, <1>4, ReadPacket
  <1>6. x # Plus => acked
    BY <1>1, <1>3, <1>5 DEF Tidy, Answering
  <1>7. x[1] = "ok" => gdb = "wait"
    BY <1>3, <1>5 DEF Tidy, Answering
  <1>8. x = Plus \/ x = O \/ answer
    BY <1>5, <1>7 DEF Packet
  <1>9. ~(answer /\ (x = Plus \/ x = O)) /\ asked[2] # None /\ Plus # O
    BY ByteFacts
  <1> DEFINE R == /\ \/ x = Plus /\ UNCHANGED <<gdb, gdbNoAck, toServer>>
                     \/ x # Plus /\ acked /\ x = O /\ UNCHANGED <<gdb, gdbNoAck>>
                     \/ /\ x # Plus /\ acked /\ x[2] = asked[2] /\ x[2] # None /\ gdb' = "idle" /\ asked[1] \notin {"D", "k"}
                        /\ gdbNoAck' = (gdbNoAck \/ (asked[1] = "noack" /\ x[1] = "ok"))
                  /\ x # Plus => toServer' = IF gdbNoAck THEN toServer ELSE Append(toServer, Plus)
  <1>10. R
    <2> HIDE DEF x, answer, Inv, TypeOK
    <2>1. gdbNoAck \in BOOLEAN
      BY DEF Inv, TypeOK
    <2>2. CASE x = Plus
      BY <1>1, <1>2, <1>9, <2>1, <2>2
    <2>3. CASE x = O
      BY <1>1, <1>2, <1>6, <1>9, <2>1, <2>3
    <2>4. CASE answer
      BY <1>1, <1>2, <1>6, <1>9, <2>1, <2>4
    <2>5. QED
      BY <1>8, <2>2, <2>3, <2>4
  <1> HIDE DEF answer, Inv, TypeOK
  <1>11. QED
    BY <1>1, <1>2, <1>3, <1>5, <1>10

\* GDB reads a "+", or in no-ack mode a console packet.
LEMMA ReadNoneTidy ==
    ASSUME Inv, Talking', Read, Head(toGdb) = Plus \/ (Head(toGdb) = O /\ gdbNoAck), UNCHANGED <<gdb, gdbNoAck, toServer>>, acked'
    PROVE  Tidy'
  <1> DEFINE x == Head(toGdb)
  <1> USE DEF Inv, TypeOK
  <1>1. /\ Tidy /\ UNCHANGED <<pc, after, noAck, startNoAck, handling, asked, link>>
        /\ toGdb # <<>> /\ toGdb[1] = x /\ 1 \in DOMAIN toGdb /\ toGdb' = Tail(toGdb)
        /\ Len(toGdb') = Len(toGdb) - 1 /\ Len(toGdb) \in Nat /\ Len(toGdb) >= 1
        /\ \A i \in DOMAIN toGdb' : i \in Nat /\ i + 1 \in DOMAIN toGdb /\ toGdb'[i] = toGdb[i + 1]
        /\ \A i \in Packets(toGdb') : i \in Nat /\ i >= 1 /\ i + 1 \in Packets(toGdb)
        /\ \A j \in Packets(toGdb) : j \in Nat /\ (j = 1 \/ j - 1 \in Packets(toGdb'))
        /\ \A i \in Answers(toGdb') : i \in Nat /\ i >= 1 /\ i + 1 \in Answers(toGdb)
        /\ \A j \in Answers(toGdb) : j \in Nat /\ (j = 1 \/ j - 1 \in Answers(toGdb'))
        /\ 1 \in Packets(toGdb) <=> x # Plus
        /\ 1 \in Answers(toGdb) <=> x[2] # None
    BY ReadFacts
  <1>2. x[2] = None /\ (x = Plus \/ gdbNoAck) /\ x[1] # "ok"
    BY ByteFacts
  <1> HIDE DEF x
  <1>3. UNCHANGED <<Waiting, Busy, Leaving>>
    BY <1>1 DEF Waiting, Busy, Leaving
  <1>4. Answers(toGdb) = {} <=> Answers(toGdb') = {}
    BY <1>1, <1>2
  <1>5. Question'
    BY <1>1, <1>3, <1>4 DEF Tidy, Question, Current, Latest, Single, Pending, Behind
  <1>6. Answering'
    <2>1. Answers(toGdb') # {} => Waiting' /\ ~Busy'
      BY <1>1, <1>3, <1>4 DEF Tidy, Answering
    <2>2. ASSUME NEW i \in Answers(toGdb'), NEW j \in Answers(toGdb') PROVE i = j
      <3>1. i \in Nat /\ j \in Nat /\ i + 1 = j + 1
        BY <1>1, <2>2 DEF Tidy, Answering
      <3>2. QED
        BY <3>1
    <2>3. \A i \in DOMAIN toGdb' : toGdb'[i][1] = "ok" => gdb' = "wait"
      BY <1>1 DEF Tidy, Answering
    <2>4. ASSUME ~gdbNoAck, NEW i \in Packets(toGdb') PROVE i = Len(toGdb') /\ pc' = "ack" /\ Pluses(toServer') = {}
      <3>1. i \in Nat /\ i + 1 = Len(toGdb) /\ pc = "ack" /\ Pluses(toServer) = {}
        BY <1>1, <2>4 DEF Tidy, Answering
      <3> HIDE DEF Inv, TypeOK
      <3>2. i = Len(toGdb) - 1
        BY <3>1, <1>1
      <3>3. QED
        BY <1>1, <3>1, <3>2
    <2>5. ~gdbNoAck /\ Packets(toGdb') # {} => Busy' \/ Answers(toGdb') # {}
      <3>1. Packets(toGdb') # {} => Packets(toGdb) # {}
        BY <1>1
      <3>2. QED
        BY <1>1, <1>3, <1>4, <3>1 DEF Tidy, Answering
    <2>6. QED
      BY <2>1, <2>2, <2>3, <2>4, <2>5 DEF Answering
  <1>7. Acking'
    <2>1. pc = "ack" => Packets(toGdb') # {} \/ Pluses(toServer) # {}
      BY <1>1, <1>2 DEF Tidy, Acking
    <2>2. Packets(toGdb) = {} => Packets(toGdb') = {}
      BY <1>1
    <2>3. startNoAck /\ pc # "accept" /\ ~gdbNoAck => toGdb' # <<>> /\ toGdb'[Len(toGdb')] = <<"ok", asked[2]>>
      <3>1. SUFFICES ASSUME startNoAck, pc # "accept", ~gdbNoAck PROVE toGdb' # <<>> /\ toGdb'[Len(toGdb')] = <<"ok", asked[2]>>
        OBVIOUS
      <3>2. toGdb[Len(toGdb)] = <<"ok", asked[2]>>
        BY <1>1, <3>1 DEF Tidy, Acking
      <3>3. Len(toGdb) # 1
        BY <1>1, <1>2, <3>1, <3>2
      <3>4. toGdb' \in Seq(Packet)
        BY <1>1, TailFacts
      <3>5. toGdb' # <<>> /\ Len(toGdb') \in DOMAIN toGdb'
        <4>1. Len(toGdb') \in Nat /\ Len(toGdb') >= 1
          <5> HIDE DEF Inv, TypeOK
          <5>1. QED
            BY <1>1, <3>3
        <4> HIDE DEF Inv, TypeOK
        <4>2. QED
          BY <3>4, <4>1
      <3>6. QED
        BY <1>1, <3>2, <3>5
    <2>4. QED
      BY <1>1, <1>4, <2>1, <2>2, <2>3 DEF Tidy, Acking
  <1>8. Turns'
    BY <1>1, <1>3 DEF Tidy, Turns
  <1>9. QED
    BY <1>5, <1>6, <1>7, <1>8 DEF Tidy

\* GDB acknowledges: the server waits for that "+", and will go on.
LEMMA PlusSent ==
    ASSUME toServer \in Seq(Bytes), pc = "ack", Pluses(toServer) = {}, pc' = pc, toServer' = Append(toServer, Plus)
    PROVE  /\ Requests(pc', toServer') = {} /\ Alive(pc', toServer') = {}
           /\ Pluses(toServer') # {} /\ \A i, j \in Pluses(toServer') : i = j
  <1>1. Plus \in Bytes
    BY ByteFacts
  <1>2. LET q == toServer  t == Append(q, Plus)  n == Len(q) + 1
        IN  /\ Pluses(t) = Pluses(q) \cup (IF Plus = Plus THEN {n} ELSE {})
            /\ Alive(pc, t) = Alive(pc, q) \cup (IF pc = "ack" /\ Pluses(q) = {} THEN {} ELSE {n})
            /\ Requests(pc, t) = Requests(pc, q) \cup (IF (pc = "ack" /\ Pluses(q) = {}) \/ Plus[1] \notin Kinds THEN {} ELSE {n})
    BY <1>1, SendByte
  <1>3. Alive(pc, toServer) = {} /\ Requests(pc, toServer) = {}
    BY PlaceFacts
  <1>4. QED
    BY <1>2, <1>3

\* GDB reads the only packet that the server has sent, and acknowledges it.
LEMMA ReadLast ==
    ASSUME Inv, Talking', Read, Head(toGdb) # Plus, ~gdbNoAck
    PROVE  /\ pc = "ack" /\ pc' = "ack" /\ ~noAck /\ toGdb' = <<>> /\ toGdb[Len(toGdb)] = Head(toGdb) /\ Packets(toGdb) # {}
           /\ Requests(pc', toServer') = {} /\ Alive(pc', toServer') = {} /\ Pluses(toServer) = {}
           /\ Pluses(toServer') # {} /\ \A i, j \in Pluses(toServer') : i = j
           /\ DOMAIN toGdb' = {} /\ Packets(toGdb') = {} /\ Answers(toGdb') = {}
  <1>1. /\ Tidy /\ pc' = pc /\ Head(toGdb) = toGdb[1] /\ toGdb' = Tail(toGdb) /\ 1 \in Packets(toGdb)
        /\ toGdb # <<>> /\ toServer' = Append(toServer, Plus)
    BY ReadFacts
  <1>2. 1 = Len(toGdb) /\ pc = "ack" /\ Pluses(toServer) = {}
    BY <1>1 DEF Tidy, Answering
  <1>3. ~noAck
    BY <1>1, <1>2 DEF Tidy, Acking
  <1>4. toGdb' = <<>>
    BY <1>1, <1>2 DEF Inv, TypeOK
  <1>5. DOMAIN toGdb' = {} /\ Packets(toGdb') = {} /\ Answers(toGdb') = {}
    BY <1>4 DEF Packets, Answers
  <1>6. toServer \in Seq(Bytes)
    BY DEF Inv, TypeOK
  <1>7. QED
    BY <1>1, <1>2, <1>3, <1>4, <1>5, <1>6, PlusSent

LEMMA ReadConsoleTidy ==
    ASSUME Inv, Talking', Read, Head(toGdb) = O, ~gdbNoAck, UNCHANGED <<gdb, gdbNoAck>>, acked
    PROVE  Tidy'
  <1>1. /\ Tidy /\ UNCHANGED <<pc, after, noAck, startNoAck, handling, asked, link>> /\ acked'
        /\ toGdb[1] = O /\ 1 \in DOMAIN toGdb
    BY ReadFacts
  <1>2. O # Plus /\ O[2] = None
    BY ByteFacts
  <1>3. /\ pc = "ack" /\ pc' = "ack" /\ ~noAck /\ toGdb' = <<>> /\ toGdb[Len(toGdb)] = O /\ Packets(toGdb) # {}
        /\ Requests(pc', toServer') = {} /\ Alive(pc', toServer') = {} /\ Pluses(toServer) = {}
        /\ Pluses(toServer') # {} /\ \A i, j \in Pluses(toServer') : i = j
        /\ DOMAIN toGdb' = {} /\ Packets(toGdb') = {} /\ Answers(toGdb') = {}
    BY <1>2, ReadLast
  <1>4. Answers(toGdb) = {}
    <2>1. \A i \in Packets(toGdb) : i = Len(toGdb)
      BY <1>1 DEF Tidy, Answering
    <2>2. \A i \in Answers(toGdb) : i = Len(toGdb)
      BY <2>1, AnswersArePackets
    <2>3. QED
      BY <1>2, <1>3, <2>2 DEF Answers
  <1>5. Busy /\ gdb = "run"
    BY <1>1, <1>3, <1>4 DEF Tidy, Answering, Turns
  <1>6. UNCHANGED <<Busy, Waiting, Leaving>>
    BY <1>1 DEF Busy, Waiting, Leaving
  <1>7. ~startNoAck
    BY <1>1, <1>3, <1>5 DEF Tidy, Acking
  <1>8. Question'
    BY <1>3, <1>5, <1>6 DEF Question, Current, Latest, Single, Pending, Behind
  <1>9. Answering'
    BY <1>1, <1>3, <1>5, <1>6 DEF Answering
  <1>10. Acking'
    BY <1>1, <1>3, <1>7 DEF Acking
  <1>11. Turns'
    BY <1>1, <1>6 DEF Tidy, Turns
  <1>12. QED
    BY <1>8, <1>9, <1>10, <1>11 DEF Tidy

LEMMA ReadAnswerTidy ==
    ASSUME Inv, Talking', Read, Head(toGdb) # Plus, Head(toGdb)[2] = asked[2], Head(toGdb)[2] # None, acked,
           gdb' = "idle", asked[1] \notin {"D", "k"},
           gdbNoAck' = (gdbNoAck \/ (asked[1] = "noack" /\ Head(toGdb)[1] = "ok"))
    PROVE  Tidy'
  <1> DEFINE x == Head(toGdb)
  <1>1. /\ Tidy /\ UNCHANGED <<pc, after, noAck, startNoAck, handling, asked, link>> /\ acked'
        /\ toGdb[1] = x /\ 1 \in DOMAIN toGdb /\ 1 \in Answers(toGdb) /\ 1 \in Packets(toGdb) /\ toGdb' = Tail(toGdb) /\ toGdb # <<>>
        /\ \A i \in DOMAIN toGdb' : i \in Nat /\ i + 1 \in DOMAIN toGdb /\ toGdb'[i] = toGdb[i + 1]
        /\ \A i \in Answers(toGdb') : i \in Nat /\ i >= 1 /\ i + 1 \in Answers(toGdb)
        /\ toServer' = IF gdbNoAck THEN toServer ELSE Append(toServer, Plus)
    BY ReadFacts
  <1>2. Waiting /\ ~Busy /\ ~Waiting'
    BY <1>1 DEF Tidy, Answering, Waiting
  <1>3. UNCHANGED <<Busy, Leaving>>
    BY <1>1 DEF Busy, Leaving
  <1>4. ~Leaving
    BY <1>1 DEF Tidy, Turns
  <1>5. Turns'
    BY <1>1, <1>2, <1>3, <1>4 DEF Turns
  <1>6. Answers(toGdb') = {}
    <2>1. ASSUME NEW i \in Answers(toGdb') PROVE FALSE
      <3>1. i \in Nat /\ i >= 1 /\ i + 1 = 1
        BY <1>1, <2>1 DEF Tidy, Answering
      <3>2. QED
        BY <3>1
    <2>2. QED
      BY <2>1
  <1>7. CASE gdbNoAck
    <2>1. Requests(pc', toServer') = {} /\ toServer' = toServer
      BY <1>1, <1>2, <1>7 DEF Tidy, Question, Current
    <2>2. noAck /\ pc # "accept" /\ pc # "ack" /\ Pluses(toServer) = {} /\ ~startNoAck /\ gdbNoAck'
      BY <1>1, <1>7 DEF Tidy, Acking
    <2>3. \A i \in DOMAIN toGdb' : toGdb'[i][1] # "ok"
      <3>1. ASSUME NEW i \in DOMAIN toGdb', toGdb'[i][1] = "ok" PROVE FALSE
        <4>1. i + 1 \in DOMAIN toGdb /\ toGdb[i + 1][1] = "ok" /\ toGdb'[i] = toGdb[i + 1]
          BY <1>1, <3>1
        <4>2. toGdb[i + 1] \in Packet
          BY <4>1 DEF Inv, TypeOK
        <4>3. toGdb[i + 1][2] \in Ids
          BY <4>1, <4>2, ByteFacts DEF Packet
        <4>4. i \in Answers(toGdb')
          BY <3>1, <4>1, <4>3, ByteFacts DEF Answers
        <4>5. QED
          BY <1>6, <4>4
      <3>2. QED
        BY <3>1
    <2>4. Question'
      BY <1>1, <1>2, <2>1, <2>2 DEF Question, Current, Latest, Single, Pending, Behind
    <2>5. Answering'
      BY <1>1, <1>6, <2>2, <2>3 DEF Answering
    <2>6. Acking'
      BY <1>1, <1>6, <2>1, <2>2 DEF Tidy, Acking
    <2>7. QED
      BY <1>5, <2>4, <2>5, <2>6 DEF Tidy
  <1>8. CASE ~gdbNoAck
    <2>1. /\ pc = "ack" /\ pc' = "ack" /\ ~noAck /\ toGdb' = <<>> /\ toGdb[Len(toGdb)] = x /\ Packets(toGdb) # {}
          /\ Requests(pc', toServer') = {} /\ Alive(pc', toServer') = {} /\ Pluses(toServer) = {}
          /\ Pluses(toServer') # {} /\ \A i, j \in Pluses(toServer') : i = j
          /\ DOMAIN toGdb' = {} /\ Packets(toGdb') = {} /\ Answers(toGdb') = {}
      BY <1>8, ReadLast
    <2>2. /\ gdbNoAck' => startNoAck
          /\ startNoAck => gdbNoAck'
      <3>1. asked[1] = "noack" => startNoAck
        BY <1>1 DEF Tidy, Acking
      <3>2. startNoAck => asked[1] = "noack" /\ x = <<"ok", asked[2]>>
        BY <1>1, <1>8, <2>1 DEF Tidy, Acking
      <3>3. startNoAck => x[1] = "ok"
        BY <3>2
      <3>4. gdbNoAck' <=> asked[1] = "noack" /\ x[1] = "ok"
        BY <1>8 DEF Inv, TypeOK
      <3> HIDE DEF x
      <3>5. QED
        BY <3>1, <3>2, <3>3, <3>4
    <2>3. Question'
      BY <1>2, <2>1 DEF Question, Current, Latest, Single, Pending, Behind
    <2>4. Answering'
      BY <1>1, <2>1 DEF Answering
    <2>5. Acking'
      BY <1>1, <2>1, <2>2 DEF Acking
    <2>6. QED
      BY <1>5, <2>3, <2>4, <2>5 DEF Tidy
  <1>9. QED
    BY <1>7, <1>8 DEF Inv, TypeOK

LEMMA GdbTidy == ASSUME Inv, Talking', Gdb PROVE Tidy'
  <1>1. CASE Connect
    BY <1>1, ConnectTidy
  <1>2. ASSUME NEW k \in Kinds, Ask(k) PROVE Tidy'
    BY <1>2, AskTidy
  <1>3. CASE Resend \/ PressCtrlC
    <2>1. /\ UNCHANGED <<server, conn, toGdb, gdb, asked, acked, gdbNoAck, target, mixed>> /\ Waiting
          /\ \E x \in {asked, CtrlC} : toServer' = Append(toServer, x) /\ (x = asked => ~acked)
      <3>1. asked # CtrlC
        BY ByteFacts DEF Inv, TypeOK
      <3>2. QED
        BY <1>3, <3>1 DEF Resend, PressCtrlC, client, Waiting
    <2>2. Talking
      BY <2>1 DEF Talking
    <2>3. QED
      BY <2>1, <2>2, SendTidy
  <1>4. CASE Read
    <2>1. /\ acked' = (acked \/ Head(toGdb) = Plus)
          /\ \/ Head(toGdb) = Plus /\ UNCHANGED <<gdb, gdbNoAck, toServer>>
             \/ Head(toGdb) # Plus /\ acked /\ Head(toGdb) = O /\ UNCHANGED <<gdb, gdbNoAck>>
             \/ /\ Head(toGdb) # Plus /\ acked /\ Head(toGdb)[2] = asked[2] /\ Head(toGdb)[2] # None
                /\ gdb' = "idle" /\ asked[1] \notin {"D", "k"}
                /\ gdbNoAck' = (gdbNoAck \/ (asked[1] = "noack" /\ Head(toGdb)[1] = "ok"))
          /\ Head(toGdb) # Plus => toServer' = IF gdbNoAck THEN toServer ELSE Append(toServer, Plus)
      BY <1>4, ReadFacts
    <2>2. CASE Head(toGdb) = Plus /\ UNCHANGED <<gdb, gdbNoAck, toServer>>
      BY <1>4, <2>1, <2>2, ReadNoneTidy
    <2>3. CASE Head(toGdb) # Plus /\ acked /\ Head(toGdb) = O /\ UNCHANGED <<gdb, gdbNoAck>>
      <3>1. CASE gdbNoAck
        BY <1>4, <2>1, <2>3, <3>1, ReadNoneTidy
      <3>2. CASE ~gdbNoAck
        BY <1>4, <2>3, <3>2, ReadConsoleTidy
      <3>3. QED
        BY <3>1, <3>2
    <2>4. CASE /\ Head(toGdb) # Plus /\ acked /\ Head(toGdb)[2] = asked[2] /\ Head(toGdb)[2] # None
               /\ gdb' = "idle" /\ asked[1] \notin {"D", "k"}
               /\ gdbNoAck' = (gdbNoAck \/ (asked[1] = "noack" /\ Head(toGdb)[1] = "ok"))
      BY <1>4, <2>4, ReadAnswerTidy
    <2>5. QED
      BY <2>1, <2>2, <2>3, <2>4
  <1>5. ~Quit /\ ~FindClosed
    BY DEF Talking, Quit, FindClosed
  <1>6. QED
    BY <1>1, <1>2, <1>3, <1>4, <1>5 DEF Gdb

LEMMA BoardTidy == ASSUME Inv, Talking', Board PROVE Tidy'
  <1>1. UNCHANGED <<server, conn, toServer, toGdb, client, mixed>> /\ (link' = "up" => link = "up")
    BY DEF Board, TriggerFires, ChipReset, PinsAway, PinsBack, UserReset, Reboot, Env
  <1>2. /\ UNCHANGED <<pc, after, noAck, startNoAck, handling, toServer, toGdb, gdb, asked, acked, gdbNoAck>>
        /\ UNCHANGED <<Busy, Waiting, Leaving>> /\ Tidy
    BY <1>1 DEF server, client, Busy, Waiting, Leaving, Talking, Inv
  <1>3. Question'
    BY <1>2 DEF Tidy, Question, Current, Latest, Single, Pending, Behind
  <1>4. Answering'
    BY <1>2 DEF Tidy, Answering
  <1>5. Acking'
    BY <1>2 DEF Tidy, Acking
  <1>6. Turns'
    BY <1>1, <1>2 DEF Tidy, Turns
  <1>7. QED
    BY <1>3, <1>4, <1>5, <1>6 DEF Tidy

-----------------------------------------------------------------------------
(* The hart at the prompt.                                                 *)

\* What a handler's answer adds to what GDB has not read.
LEMMA AnswerSent ==
    ASSUME Inv, Talking', NEW k \in Kinds, NEW i \in Ids, Request(k, i),
           NEW w \in {"ok", "E01", "stop"}, NEW then, Answer(w, then, i)
    PROVE  Answers(toGdb') # {} /\ \A j \in Answers(toGdb') : toGdb'[j][1] = w
  <1> DEFINE x == <<w, i>>
             s == toGdb \o Acks
  <1>1. Answers(toGdb) = {}
    BY RequestFacts
  <1>2. s \in Seq(Packet) /\ Answers(s) = Answers(toGdb) /\ toGdb \o (Acks \o <<x>>) = s \o <<x>>
    BY AckSent DEF Inv
  <1>3. x \in Packet /\ x[1] = w /\ x[2] # None
    BY PacketFacts, ByteFacts
  <1>4. toGdb' = toGdb \o (Acks \o <<x>>)
    BY DEF Answer, Deliver
  <1> HIDE DEF s, x
  <1>5. toGdb' = Append(s, x)
    BY <1>2, <1>3, <1>4, Sent
  <1>6. toGdb'[Len(toGdb')] = x /\ Answers(toGdb') = Answers(s) \cup {Len(toGdb')}
    BY <1>2, <1>3, <1>5, SendPacket
  <1>7. QED
    BY <1>1, <1>2, <1>3, <1>6

LEMMA RequestEased == ASSUME Inv, Talking', NEW k \in Kinds, NEW i \in Ids, Request(k, i) PROVE Eased'
  <1>1. /\ pc = "prompt" /\ asked = <<k, i>> /\ UNCHANGED <<conn, asked, link, mixed>> /\ Answers(toGdb) = {}
    BY RequestFacts
  <1>2. unsure' = unsure
    BY DEF Request, client
  <1>3. asked'[1] = k /\ Talking /\ AtPrompt
    BY <1>1 DEF Talking, AtPrompt
  <1>4. link = "up" /\ hart # "halted" => unsure
    BY <1>1, <1>3 DEF Inv, Eased
  <1>5. ASSUME NEW w \in {"ok", "E01", "stop"}, Answer(w, "prompt", i), hart' # "halted" => Doubt(k, w)', link' = "up"
        PROVE  Eased'
    <2>1. Answers(toGdb') # {} /\ \A j \in Answers(toGdb') : toGdb'[j][1] = w
      BY <1>5, AnswerSent
    <2>2. QED
      BY <1>3, <1>5, <2>1 DEF Eased, Doubt
  <1>6. CASE AtPrompt' /\ link' = "up"
    <2>1. CASE k \in {"m", "noack"}
      <3>1. PICK w \in {"ok", "E01"} : Answer(w, "prompt", i)
        BY <2>1 DEF Request
      <3>2. hart' = hart /\ k \notin Moves
        BY <2>1 DEF Request, Moves
      <3>3. QED
        BY <1>1, <1>2, <1>4, <1>5, <1>6, <3>1, <3>2 DEF Doubt
    <2>2. CASE k \in {"s", "c"}
      <3>1. k \in Moves
        BY <2>2 DEF Moves
      <3>2. \/ Answer("E01", "prompt", i)
            \/ (Answer("ok", "prompt", i) \/ Answer("stop", "prompt", i)) /\ hart' = "halted"
        BY <1>6, <2>2 DEF Request, AtPrompt, CanDebug
      <3>3. QED
        BY <1>5, <1>6, <3>1, <3>2 DEF Doubt
    <2>3. CASE k \in {"D", "k"}
      BY <1>6, <2>3 DEF Request, Answer, Deliver, AtPrompt
    <2>4. QED
      BY <2>1, <2>2, <2>3 DEF Kinds
  <1>7. QED
    BY <1>6 DEF Eased

LEMMA WaitEased ==
    ASSUME Inv, Talking', PollInterrupt \/ PollLost \/ PollReset \/ PollStop \/ Reattach
    PROVE  Eased'
  <1>1. /\ pc \in {"cont", "lost"} /\ Talking /\ UNCHANGED <<noAck, startNoAck, handling, conn, client, mixed>>
        /\ toServer' = toServer \/ (toServer # <<>> /\ toServer' = Tail(toServer))
    BY DEF PollInterrupt, PollLost, PollReset, PollStop, Reattach, Talking, Input
  <1>2. CASE Reply(<<>>, "stop", "prompt") /\ hart' = "halted"
    BY <1>2 DEF Eased
  <1>3. CASE Reply(<<>>, "E01", "prompt")
    <2>1. (\A i \in Answers(toGdb') : toGdb'[i][1] = "E01") /\ Answers(toGdb') # {} /\ asked'[1] = "c"
      BY <1>1, <1>3, StopSent
    <2>2. QED
      BY <2>1 DEF Eased, Doubt, Moves
  <1>4. CASE Deliver(<<O>>, "lost") \/ Deliver(<<O>>, "cont") \/ Stay("cont")
    BY <1>4 DEF Deliver, Stay, Eased, AtPrompt
  <1>5. QED
    BY <1>2, <1>3, <1>4 DEF PollInterrupt, PollLost, PollReset, PollStop, Reattach

LEMMA ReadEased == ASSUME Inv, Talking', Read PROVE Eased'
  <1> DEFINE x == Head(toGdb)
             answer == x[1] \in {"stop", "E01"} \/ (x[1] = "ok" /\ gdb = "wait")
  <1>1. /\ Tidy /\ Waiting /\ Talking /\ UNCHANGED <<pc, after, asked, link, conn>>
        /\ toGdb[1] = x
        /\ \A i \in DOMAIN toGdb' : i \in Nat /\ i + 1 \in DOMAIN toGdb /\ toGdb'[i] = toGdb[i + 1]
        /\ \A i \in Answers(toGdb') : i \in Nat /\ i >= 1 /\ i + 1 \in Answers(toGdb)
        /\ \A j \in Answers(toGdb) : j \in Nat /\ (j = 1 \/ j - 1 \in Answers(toGdb'))
        /\ 1 \in Answers(toGdb) <=> x[2] # None
        /\ \/ x \in {Plus, O}
           \/ x[2] # None /\ gdb' = "idle"
    BY ReadFacts
  <1>2. /\ unsure' = IF answer THEN Doubt(asked[1], x[1]) ELSE unsure
        /\ gdb' = "idle" => answer
        /\ hart' = hart
    BY <1>1 DEF Read, Waiting, target
  <1>3. Plus[2] = None /\ O[2] = None /\ (x \in {Plus, O} => ~answer)
    BY ByteFacts
  <1> HIDE DEF x, answer
  <1>4. \A i \in Answers(toGdb') : toGdb'[i] = toGdb[i + 1]
    BY <1>1 DEF Answers
  <1>5. AtPrompt' = AtPrompt
    BY <1>1 DEF AtPrompt
  <1>6. CASE x \in {Plus, O}
    <2>1. unsure' = unsure /\ 1 \notin Answers(toGdb)
      BY <1>1, <1>2, <1>3, <1>6
    <2>2. Answers(toGdb') = {} => Answers(toGdb) = {}
      BY <1>1, <2>1
    <2>3. QED
      BY <1>1, <1>2, <1>4, <1>5, <2>1, <2>2 DEF Inv, Eased, Doubt
  <1>7. CASE x[2] # None /\ gdb' = "idle"
    <2>1. unsure' = Doubt(asked[1], x[1]) /\ 1 \in Answers(toGdb)
      BY <1>1, <1>2, <1>7
    <2>2. Answers(toGdb') = {}
      <3>1. ASSUME NEW i \in Answers(toGdb') PROVE FALSE
        <4>1. i \in Nat /\ i >= 1 /\ i + 1 = 1
          BY <1>1, <2>1, <3>1 DEF Tidy, Answering
        <4>2. QED
          BY <4>1
      <3>2. QED
        BY <3>1
    <2>3. QED
      BY <1>1, <1>2, <1>5, <2>1, <2>2 DEF Inv, Eased
  <1>8. QED
    BY <1>1, <1>6, <1>7

LEMMA EasedStep == ASSUME Inv, Next PROVE Eased'
  <1> SUFFICES ASSUME Talking' PROVE Eased'
    BY DEF Eased
  <1>1. ASSUME NEW k \in Kinds, NEW i \in Ids, Request(k, i) PROVE Eased'
    BY <1>1, RequestEased
  <1>2. CASE Acknowledged \/ Swallow \/ Skip \/ PollDrop
    <2>1. /\ UNCHANGED <<conn, mixed, hart, link, toGdb, unsure, asked>>
          /\ AtPrompt' => AtPrompt
      BY <1>2 DEF Acknowledged, Swallow, Skip, PollDrop, server, client, target, AtPrompt
    <2>2. QED
      BY <2>1 DEF Inv, Eased, Talking, Doubt
  <1>3. CASE Accept \/ Closed \/ Interrupted \/ PollGone \/ LostInput \/ Bye
    BY <1>3 DEF Accept, Closed, Interrupted, PollGone, LostInput, Bye, Stay, Deliver, Eased, AtPrompt
  <1>4. CASE PollInterrupt \/ PollLost \/ PollReset \/ PollStop \/ Reattach
    BY <1>4, WaitEased
  <1>5. CASE Read
    BY <1>5, ReadEased
  <1>6. ASSUME NEW k \in Kinds, Ask(k) PROVE Eased'
    <2>1. gdb = "idle" /\ Talking /\ UNCHANGED <<pc, after, conn, mixed, toGdb, hart, link, unsure>>
      BY <1>6 DEF Ask, Talking, server, target
    <2>2. Answers(toGdb) = {}
      BY <2>1 DEF Inv, Tidy, Answering, Waiting
    <2>3. QED
      BY <2>1, <2>2 DEF Inv, Eased, AtPrompt
  <1>7. CASE Resend \/ PressCtrlC
    <2>1. UNCHANGED <<pc, after, conn, mixed, toGdb, asked, hart, link, unsure>>
      BY <1>7 DEF Resend, PressCtrlC, server, client, target
    <2>2. QED
      BY <2>1 DEF Inv, Eased, AtPrompt, Talking, Doubt
  <1>8. CASE Connect \/ Quit \/ FindClosed
    BY <1>8 DEF Connect, Quit, FindClosed, server, Talking, Eased, AtPrompt
  <1>9. CASE Board
    <2>1. /\ UNCHANGED <<pc, after, conn, mixed, toGdb, asked, unsure>>
          /\ link' = "up" => link = "up" /\ (hart' = hart \/ hart' = "halted")
      BY <1>9 DEF Board, TriggerFires, ChipReset, PinsAway, PinsBack, UserReset, Reboot, Env, server, client
    <2>2. QED
      BY <2>1 DEF Inv, Eased, AtPrompt, Talking, Doubt
  <1>10. QED
    BY <1>1, <1>2, <1>3, <1>4, <1>5, <1>6, <1>7, <1>8, <1>9 DEF Next, Server, Gdb

-----------------------------------------------------------------------------
(* Theorems.                                                               *)

LEMMA NextInv == Inv /\ [Next]_vars => Inv'
  <1>1. ASSUME Inv, Next PROVE Inv'
    <2>1. TypeOK' /\ Present' /\ Eased' /\ Numbered' /\ RepliesMatch'
      BY <1>1, TypeStep, PresentStep, EasedStep, NumberedStep, MatchStep DEF Inv
    <2>2. Talking' => Tidy'
      BY <1>1, ServerTidy, GdbTidy, BoardTidy DEF Next
    <2>3. QED
      BY <2>1, <2>2 DEF Inv
  <1>2. ASSUME Inv, UNCHANGED vars PROVE Inv'
    <2>1. /\ UNCHANGED <<server, client, target, conn, toServer, toGdb, crossed, mixed>>
          /\ UNCHANGED <<pc, after, noAck, startNoAck, handling, gdb, asked, acked, gdbNoAck, unsure, hart, link>>
      BY <1>2 DEF vars, server, client, target
    <2>2. TypeOK' /\ Present' /\ Eased' /\ Numbered' /\ RepliesMatch'
      BY <1>2, <2>1 DEF Inv, TypeOK, Present, Eased, Numbered, RepliesMatch, AtPrompt, Talking, Doubt
    <2>3. UNCHANGED <<Busy, Waiting, Leaving, Talking>>
      BY <2>1 DEF Busy, Waiting, Leaving, Talking
    <2>4. Tidy => Tidy'
      <3>1. Question => Question'
        BY <2>1, <2>3 DEF Question, Current, Latest, Single, Pending, Behind
      <3>2. Answering /\ Acking /\ Turns => Answering' /\ Acking' /\ Turns'
        BY <2>1, <2>3 DEF Answering, Acking, Turns
      <3>3. QED
        BY <3>1, <3>2 DEF Tidy
    <2>5. QED
      BY <1>2, <2>2, <2>3, <2>4 DEF Inv
  <1>3. QED
    BY <1>1, <1>2

LEMMA SpecInv == Spec => []Inv
  BY InitInv, NextInv, PTL DEF Spec

\* The socket and the two programs stay in their types (Server, recv_packet,
\* send, and GDB's side of the protocol).
THEOREM SessionTypes == Spec => []TypeOK
  <1>1. Inv => TypeOK
    BY DEF Inv
  <1>2. QED
    BY <1>1, SpecInv, PTL

\* GDB takes every answer of serve(), do_continue() and wait_for_link() for
\* that of the request it belongs to, unless a ^C came after the server had
\* stopped: over any number of resets, lost links and repeated requests.
THEOREM AnswersMatch == Spec => []RepliesMatch
  <1>1. Inv => RepliesMatch
    BY DEF Inv
  <1>2. QED
    BY <1>1, SpecInv, PTL

\* In a session whose link works, the hart is halted while GDB is at its prompt,
\* unless its last s or c was answered by an error: do_continue() reports a stop
\* only after it has seen or made the hart halt, whatever access may fail, and
\* nothing that serve() does for another request leaves it running.
THEOREM StoppedIsHalted == Spec => []StoppedMeansHalted
  <1>1. Inv => StoppedMeansHalted
    <2>1. SUFFICES ASSUME Inv, gdb = "idle", conn = "open", pc \notin {"accept", "bye"}, link = "up", ~mixed, ~unsure
                   PROVE  hart = "halted"
      BY DEF StoppedMeansHalted
    <2>2. Tidy /\ Talking
      BY <2>1 DEF Inv, Talking
    <2>3. ~Busy /\ ~Leaving /\ Answers(toGdb) = {}
      BY <2>1, <2>2 DEF Tidy, Turns, Answering, Waiting
    <2>4. AtPrompt
      BY <2>1, <2>3 DEF Inv, TypeOK, Places, Busy, Leaving, AtPrompt
    <2>5. QED
      BY <2>1, <2>2, <2>3, <2>4 DEF Inv, Eased
  <1>2. QED
    BY <1>1, SpecInv, PTL

=============================================================================
