------------------------------ MODULE Session ------------------------------
(***************************************************************************)
(* A GDB session of gdbserver.Server: packets and acknowledgements over    *)
(* the socket, ^C and stop replies that cross, the loops that wait for the *)
(* hart and for the debug link, and how sessions follow one another.       *)
(*                                                                         *)
(* The server is one thread: at the prompt (recv_packet), waiting for an   *)
(* acknowledgement inside send(), in the loop of do_continue or in         *)
(* wait_for_link.  What a handler does to triggers and memory is modelled  *)
(* in Triggers and SoftBreak; here it matters whether it answers, and      *)
(* whether the hart runs afterwards: any access may fail, over a lost link *)
(* and over a working one.  GDB sends a request, reads packets             *)
(* until the answer has come and may press ^C while the target runs, as    *)
(* the remote protocol has it.  The socket loses and reorders nothing; GDB *)
(* repeats a request whose acknowledgement does not come in time.          *)
(***************************************************************************)
EXTENDS Integers, Sequences

CONSTANTS
    MaxDrops,       \* bound: chip resets, pins taken away, in all
    MaxFaults,      \* bound: accesses that fail over a working link while the
                    \* hart's status is read or a session begins, in all
    MaxResends,     \* bound: requests GDB repeats, in all
    MaxUnread       \* bound: what GDB leaves unread when it sends something

ASSUME BoundsAssumption ==
    MaxDrops \in Nat /\ MaxFaults \in Nat /\ MaxResends \in Nat /\ MaxUnread \in Nat

\* Requests: any that needs a halted hart; s and others that let it run until
\* it has halted again; c, QStartNoAckMode, D, k.
Kinds == {"m", "s", "c", "noack", "D", "k"}
Moves == {"s", "c"}
Ids   == 0 .. 2             \* request numbers, modulo 3
None  == 9                  \* an answer to no request

\* Items of the two directions of the socket: what, and for which request.
Plus   == <<"+", None>>
CtrlC  == <<"^C", None>>
O      == <<"O", None>>     \* a console packet

VARIABLES
    pc,         \* the server: see Places
    after,      \* where send() returns to once it is acknowledged
    noAck,      \* Server.no_ack
    startNoAck, \* Server.start_no_ack
    handling,   \* the request in the server's hands
    conn,       \* "none", "open", "half": GDB has closed it, "shut": the server has
    toServer,   \* bytes GDB sent
    toGdb,      \* bytes the server sent
    gdb,        \* "off", "idle", "wait" for a reply, "run": waits for a stop
    asked,      \* GDB's last request, <<kind, number>>
    acked,      \* the server has acknowledged it
    gdbNoAck,   \* GDB has stopped acknowledging
    hart,       \* "running", "halted"
    armed,      \* triggers are programmed
    reset,      \* DMSTATUS.anyhavereset
    link,       \* "up", "down", "stale": pins back, the port not set up
    drops, faults, resends,
    unsure,     \* GDB's last s or c was answered by an error
    crossed,    \* ghost: in this session a ^C came after the server had stopped
    mixed,      \* ghost: GDB took an answer for that of another request
    failed      \* ghost: the last session ended with a failed cleanup

server == <<pc, after, noAck, startNoAck, handling>>
client == <<gdb, asked, acked, gdbNoAck, resends, unsure>>
target == <<hart, armed, reset, link, drops, faults>>
vars == <<server, conn, toServer, toGdb, client, target, crossed, mixed, failed>>

\* accept(), recv_packet(), send() waiting for "+", the loop of do_continue,
\* wait_for_link(), serve()'s finally.
Places == {"accept", "prompt", "ack", "cont", "lost", "bye"}

CanDebug == link = "up" /\ hart = "halted"

\* The hart after accesses that were to take it from one state to the other,
\* of which one failed: over a lost link it stays as it is.
Perhaps(state) == IF link = "up" THEN {hart, state} ELSE {hart}
Fault == link = "up" => faults < MaxFaults

-----------------------------------------------------------------------------
(* The server. *)

\* send(): in acknowledged mode it waits for the "+".
DeliverAndGo(packets, then) == toGdb' = toGdb \o packets /\ pc' = then /\ UNCHANGED after
DeliverAndWait(packets, then) == toGdb' = toGdb \o packets /\ pc' = "ack" /\ after' = then
Deliver(packets, then) ==
    /\ toGdb' = toGdb \o packets
    /\ IF noAck THEN pc' = then /\ UNCHANGED after
       ELSE pc' = "ack" /\ after' = then
Reply(acks, what, then) == Deliver(acks \o <<<<what, handling>>>>, then)
Stay(place) == pc' = place /\ UNCHANGED <<after, toGdb>>

\* The oldest byte or packet GDB sent; the end of its stream.
Input(x) == toServer # <<>> /\ Head(toServer) = x /\ toServer' = Tail(toServer)
Gone     == toServer = <<>> /\ conn = "half" /\ UNCHANGED toServer
Other(S) == toServer # <<>> /\ Head(toServer) \notin S /\ toServer' = Tail(toServer)

\* serve(): a connection; had_reset() and halt() need a working link.
Accept ==
    /\ pc = "accept" /\ conn \in {"open", "half"}
    /\ noAck' = FALSE /\ startNoAck' = FALSE /\ handling' = None
    /\ \/ /\ link = "up" /\ Stay("prompt")
          /\ hart' = "halted" /\ reset' = FALSE /\ UNCHANGED faults
       \/ /\ Fault /\ Stay("bye")
          /\ hart' \in Perhaps("halted") /\ reset' \in {reset, reset /\ link # "up"}
          /\ faults' = IF link = "up" THEN faults + 1 ELSE faults
    /\ UNCHANGED <<conn, toServer, client, armed, link, drops, crossed, mixed, failed>>

\* send(): what is not the "+" is read and dropped.
Acknowledged ==
    /\ pc = "ack"
    /\ Input(Plus) \/ Gone
    /\ pc' = after /\ noAck' = (noAck \/ startNoAck) /\ startNoAck' = FALSE
    /\ UNCHANGED <<after, handling, conn, toGdb, client, target, crossed, mixed, failed>>
Swallow ==
    /\ pc = "ack" /\ Other({Plus})
    /\ UNCHANGED <<server, conn, toGdb, client, target, crossed, mixed, failed>>

\* recv_packet() skips what begins no packet.
Skip ==
    /\ pc = "prompt" /\ Input(Plus)
    /\ UNCHANGED <<server, conn, toGdb, client, target, crossed, mixed, failed>>
Closed ==
    /\ pc = "prompt" /\ Gone /\ Stay("bye")
    /\ UNCHANGED <<noAck, startNoAck, handling, conn, client, target, crossed, mixed, failed>>

\* serve(): ^C at the prompt halts the hart and answers; a DebugError there is
\* not caught by the handler's try and ends the session.
Interrupted ==
    /\ pc = "prompt" /\ Input(CtrlC)
    /\ crossed' = TRUE
    /\ \/ link = "up" /\ Deliver(<<<<"stop", None>>>>, "prompt") /\ hart' = "halted"
       \/ Stay("bye") /\ hart' \in Perhaps("halted")
    /\ UNCHANGED <<noAck, startNoAck, handling, conn, client, armed, reset, link, drops, faults, mixed, failed>>

\* serve(): a request is acknowledged and handled; a DebugError is an E01, and
\* one on the way to letting the hart run may come before or after it.
Acks == IF noAck THEN <<>> ELSE <<Plus>>
Answer(what, then, i) == Deliver(Acks \o <<<<what, i>>>>, then)
Halfway == IF CanDebug THEN hart' \in {"halted", "running"} /\ armed' \in BOOLEAN
           ELSE UNCHANGED <<hart, armed>>
Request(k, i) ==
    /\ pc = "prompt" /\ Input(<<k, i>>)
    /\ handling' = i
    /\ startNoAck' = (startNoAck \/ k = "noack")
    /\ \/ /\ k = "noack" /\ Answer("ok", "prompt", i) /\ UNCHANGED <<hart, armed>>
       \/ /\ k = "m"
          /\ (CanDebug /\ Answer("ok", "prompt", i)) \/ Answer("E01", "prompt", i)
          /\ UNCHANGED <<hart, armed>>
       \/ /\ k = "s"
          /\ \/ CanDebug /\ Answer("ok", "prompt", i) /\ UNCHANGED <<hart, armed>>
             \/ Answer("E01", "prompt", i) /\ Halfway
       \/ /\ k = "c"
          /\ \/ /\ CanDebug /\ hart' = "running" /\ armed' = TRUE
                /\ pc' = "cont" /\ toGdb' = toGdb \o Acks /\ UNCHANGED after
             \/ CanDebug /\ Answer("stop", "prompt", i) /\ UNCHANGED <<hart, armed>>
             \/ Answer("E01", "prompt", i) /\ Halfway
       \/ /\ k = "D"
          /\ \/ CanDebug /\ Answer("ok", "bye", i) /\ hart' = "running" /\ armed' = FALSE
             \/ Answer("E01", "bye", i) /\ Halfway
       \/ /\ k = "k"
          /\ \/ /\ CanDebug /\ hart' = "running" /\ armed' = FALSE
                /\ pc' = "bye" /\ toGdb' = toGdb \o Acks /\ UNCHANGED after
             \/ Answer("E01", "bye", i) /\ Halfway
    /\ UNCHANGED <<noAck, conn, client, reset, link, drops, faults, crossed, mixed, failed>>

\* do_continue: GDB has gone: the hart is halted for the cleanup.
PollGoneNot == FALSE
PollGone ==
    /\ pc = "cont" /\ Gone /\ Stay("bye")
    /\ hart' \in Perhaps("halted")
    /\ UNCHANGED <<noAck, startNoAck, handling, conn, client, armed, reset, link, drops, faults, crossed, mixed, failed>>
\* ^C halts the hart; when halt() fails, over a lost link always, c is
\* answered E01 and the hart may run on.
PollInterruptNoted ==
    /\ pc = "cont" /\ Input(CtrlC)
    /\ UNCHANGED <<server, conn, toGdb, client, target, crossed, mixed, failed>>
PollInterrupt ==
    /\ pc = "cont" /\ Input(CtrlC)
    /\ \/ link = "up" /\ Reply(<<>>, "stop", "prompt") /\ hart' = "halted"
       \/ Reply(<<>>, "E01", "prompt") /\ hart' \in Perhaps("halted")
    /\ UNCHANGED <<noAck, startNoAck, handling, conn, client, armed, reset, link, drops, faults, crossed, mixed, failed>>
\* Any other byte is read and dropped.
PollDrop ==
    /\ pc = "cont" /\ Other({CtrlC})
    /\ UNCHANGED <<server, conn, toGdb, client, target, crossed, mixed, failed>>

\* The status cannot be read: wait_for_link() says so.
PollLost ==
    /\ pc = "cont" /\ Fault
    /\ Deliver(<<O>>, "lost")
    /\ faults' = IF link = "up" THEN faults + 1 ELSE faults
    /\ UNCHANGED <<noAck, startNoAck, handling, conn, toServer, client, hart, armed, reset, link, drops, crossed, mixed, failed>>
\* after_reset(resume=True): halt, arm the triggers again, run, and say so; an
\* access that fails on the way is an E01.
PollResetReports ==
    /\ pc = "cont" /\ link = "up" /\ reset
    /\ reset' = FALSE /\ armed' = TRUE /\ hart' = "running"
    /\ Reply(<<>>, "stop", "prompt")
    /\ UNCHANGED <<noAck, startNoAck, handling, conn, toServer, client, link, drops, faults, crossed, mixed, failed>>
PollReset ==
    /\ pc = "cont" /\ link = "up" /\ reset
    /\ \/ /\ reset' = FALSE /\ armed' = TRUE /\ hart' = "running"
          /\ Deliver(<<O>>, "cont")
       \/ /\ reset' \in BOOLEAN /\ armed' \in BOOLEAN /\ hart' \in {"halted", "running"}
          /\ Reply(<<>>, "E01", "prompt")
    /\ UNCHANGED <<noAck, startNoAck, handling, conn, toServer, client, link, drops, faults, crossed, mixed, failed>>
\* The hart has stopped: the reply, or a step that leaves a watchpoint's guard
\* and lets it run on; either may fail.
PollStop ==
    /\ pc = "cont" /\ link = "up" /\ ~reset /\ hart = "halted"
    /\ \/ Reply(<<>>, "stop", "prompt") /\ UNCHANGED <<hart, armed>>
       \/ Reply(<<>>, "E01", "prompt") /\ hart' \in {"halted", "running"} /\ armed' \in BOOLEAN
    /\ UNCHANGED <<noAck, startNoAck, handling, conn, toServer, client, reset, link, drops, faults, crossed, mixed, failed>>

\* wait_for_link: reattach() succeeds as soon as the pins are back, and the
\* status is read again: a second failure is not caught.  Until then ^C is
\* answered with an explanation and everything else is dropped.
Reattach ==
    /\ pc = "lost" /\ link # "down"
    /\ link' = "up"
    /\ Stay("cont") \/ Reply(<<>>, "E01", "prompt")
    /\ UNCHANGED <<noAck, startNoAck, handling, conn, toServer, client, hart, armed, reset, drops, faults, crossed, mixed, failed>>
LostInput ==
    /\ pc = "lost" /\ link = "down"
    /\ \/ Gone /\ Stay("bye")
       \/ Input(CtrlC) /\ Deliver(<<O>>, "lost")
       \/ Other({CtrlC}) /\ Stay("lost")
    /\ UNCHANGED <<noAck, startNoAck, handling, conn, client, target, crossed, mixed, failed>>

\* serve()'s finally: halt, clean up, let the hart run; then close the socket.
Bye ==
    /\ pc = "bye"
    /\ Stay("accept")
    /\ \/ link = "up" /\ hart' = "running" /\ armed' = FALSE /\ failed' = FALSE
       \/ /\ failed' = TRUE
          /\ IF link = "up" THEN hart' \in {"halted", "running"} /\ armed' \in BOOLEAN
             ELSE UNCHANGED <<hart, armed>>
    /\ conn' = IF conn = "half" THEN "none" ELSE "shut"
    /\ toServer' = <<>>
    /\ UNCHANGED <<noAck, startNoAck, handling, client, reset, link, drops, faults, crossed, mixed>>

Server ==
    \/ Accept \/ Acknowledged \/ Swallow \/ Skip \/ Closed \/ Interrupted
    \/ \E k \in Kinds, i \in Ids : Request(k, i)
    \/ PollGone \/ PollInterrupt \/ PollDrop \/ PollLost \/ PollReset \/ PollStop
    \/ Reattach \/ LostInput \/ Bye

-----------------------------------------------------------------------------
(* GDB. *)

Connect ==
    /\ conn = "none" /\ pc = "accept"
    /\ conn' = "open" /\ toServer' = <<Plus>> /\ toGdb' = <<>>
    /\ gdb' = "idle" /\ acked' = TRUE /\ gdbNoAck' = FALSE /\ unsure' = FALSE
    /\ crossed' = FALSE /\ mixed' = FALSE
    /\ UNCHANGED <<server, asked, resends, target, failed>>

\* What GDB asks after it has mixed answers up is not followed.
Ask(k) ==
    /\ gdb = "idle" /\ conn = "open" /\ ~mixed /\ Len(toGdb) <= MaxUnread
    /\ k = "noack" => ~gdbNoAck
    /\ asked' = <<k, (asked[2] + 1) % 3>>
    /\ toServer' = Append(toServer, asked')
    /\ gdb' = IF k = "c" THEN "run" ELSE "wait"
    /\ acked' = gdbNoAck
    /\ UNCHANGED <<server, conn, toGdb, gdbNoAck, resends, unsure, target, crossed, mixed, failed>>

\* The "+" is slow to come: the request is sent again.
Resend ==
    /\ gdb \in {"wait", "run"} /\ conn = "open" /\ ~acked /\ resends < MaxResends
    /\ resends' = resends + 1
    /\ toServer' = Append(toServer, asked)
    /\ UNCHANGED <<server, conn, toGdb, gdb, asked, acked, gdbNoAck, unsure, target, crossed, mixed, failed>>

PressCtrlC ==
    /\ gdb = "run" /\ conn = "open" /\ Len(toGdb) <= MaxUnread
    /\ \A i \in DOMAIN toServer : toServer[i] # CtrlC
    /\ toServer' = Append(toServer, CtrlC)
    /\ UNCHANGED <<server, conn, toGdb, client, target, crossed, mixed, failed>>

\* GDB reads the next byte or packet, acknowledges a packet, and takes an
\* answer for that of the request it waits on; k waits for none.  From an
\* error in answer to s or c it cannot tell whether the hart runs.
Doubt(k, what) == IF k \in Moves THEN what = "E01" ELSE unsure
Read ==
    /\ gdb \in {"wait", "run"} /\ toGdb # <<>>
    /\ toGdb' = Tail(toGdb)
    /\ LET x == Head(toGdb)
           answer == x[1] \in {"stop", "E01"} \/ (x[1] = "ok" /\ gdb = "wait")
           leaves == answer /\ asked[1] \in {"D", "k"}
       IN  /\ acked' = (acked \/ x = Plus)
           /\ mixed' = (mixed \/ (answer /\ x[2] # asked[2]))
           /\ gdb' = IF leaves THEN "off" ELSE IF answer THEN "idle" ELSE gdb
           /\ conn' = IF ~leaves THEN conn ELSE IF conn = "open" THEN "half" ELSE "none"
           /\ unsure' = IF answer THEN Doubt(asked[1], x[1]) ELSE unsure
           /\ gdbNoAck' = (gdbNoAck \/ (answer /\ asked[1] = "noack" /\ x[1] = "ok"))
           /\ toServer' = IF x = Plus \/ gdbNoAck \/ conn # "open" THEN toServer
                          ELSE Append(toServer, Plus)
    /\ UNCHANGED <<server, asked, resends, target, crossed, failed>>

\* GDB is closed, or finds the connection closed.
Quit ==
    /\ conn = "open" /\ gdb' = "off" /\ conn' = "half"
    /\ UNCHANGED <<server, toServer, toGdb, asked, acked, gdbNoAck, resends, unsure, target, crossed, mixed, failed>>
FindClosed ==
    /\ conn = "shut" /\ (gdb = "idle" \/ toGdb = <<>>)
    /\ gdb' = "off" /\ conn' = "none"
    /\ UNCHANGED <<server, toServer, toGdb, asked, acked, gdbNoAck, resends, unsure, target, crossed, mixed, failed>>

Gdb == Connect \/ (\E k \in Kinds : Ask(k)) \/ Resend \/ PressCtrlC \/ Read \/ Quit \/ FindClosed

-----------------------------------------------------------------------------
(* The target. *)

Env == UNCHANGED <<server, conn, toServer, toGdb, client, crossed, mixed, failed>>

\* A trigger fires, whether or not the link is there.
TriggerFires ==
    /\ hart = "running" /\ armed
    /\ hart' = "halted"
    /\ Env /\ UNCHANGED <<armed, reset, link, drops, faults>>
\* A reset empties the triggers and makes the SWD pins GPIOs.
Reboot == hart' = "running" /\ armed' = FALSE /\ reset' = TRUE /\ link' = "down"
ChipReset ==
    /\ drops < MaxDrops /\ drops' = drops + 1 /\ Reboot /\ Env /\ UNCHANGED faults
PinsAway ==
    /\ drops < MaxDrops /\ drops' = drops + 1 /\ hart = "running" /\ link' = "down"
    /\ Env /\ UNCHANGED <<hart, armed, reset, faults>>
\* The firmware reaches its SWD initialisation.
PinsBack ==
    /\ link = "down" /\ hart = "running" /\ link' = "stale"
    /\ Env /\ UNCHANGED <<hart, armed, reset, drops, faults>>
\* The user resets a board that has stopped where SWD is off.
UserReset ==
    /\ link = "down" /\ hart = "halted"
    /\ Reboot /\ Env /\ UNCHANGED <<drops, faults>>
Board == TriggerFires \/ ChipReset \/ PinsAway \/ PinsBack \/ UserReset

Init ==
    /\ pc = "accept" /\ after = "accept" /\ noAck = FALSE /\ startNoAck = FALSE /\ handling = None
    /\ conn = "none" /\ toServer = <<>> /\ toGdb = <<>>
    /\ gdb = "off" /\ asked = <<"m", 0>> /\ acked = TRUE /\ gdbNoAck = FALSE /\ resends = 0 /\ unsure = FALSE
    /\ hart = "running" /\ armed = FALSE /\ reset = FALSE /\ link = "up" /\ drops = 0 /\ faults = 0
    /\ crossed = FALSE /\ mixed = FALSE /\ failed = FALSE

Next == Server \/ Gdb \/ Board

\* The server's thread runs, GDB reads what it waits for and notices a closed
\* connection, the firmware gets to its SWD initialisation, and a board that
\* has stopped before it is reset, as docs/04-debugger.md 4.5 tells the user.
Fairness ==
    /\ WF_vars(Server) /\ WF_vars(Read) /\ WF_vars(FindClosed)
    /\ WF_vars(PinsBack) /\ WF_vars(UserReset)
Spec == Init /\ [][Next]_vars /\ Fairness

\* A user who presses ^C until the target stops; one who connects again.
PatientSpec == Spec /\ WF_vars(PressCtrlC)
ReconnectingSpec == Spec /\ WF_vars(Connect)

-----------------------------------------------------------------------------
(* Properties. *)

\* GDB takes every answer for the request it belongs to, over lost links,
\* resets, ^C, and the change to no-ack mode, except when a ^C arrived after
\* the server had stopped by itself, which it answers with a stop reply GDB
\* does not expect (serve()).  A repeated request is not handled twice:
\* send() reads it away while it waits for the acknowledgement.
RepliesMatch == mixed => crossed

\* In a session whose link works, GDB at its prompt faces a halted hart, unless
\* its last s or c was answered by an error: the hart may run after one, for
\* resume(), halt() and status() can fail after it was let go.  It does not
\* start again under another request, by a reset, a lost link or an answer out
\* of turn, and after an error GDB is sure again only when it has halted.
StoppedMeansHalted ==
    gdb = "idle" /\ conn = "open" /\ pc \notin {"accept", "bye"} /\ link = "up" /\ ~mixed /\ ~unsure
        => hart = "halted"

\* Every request but c is answered or the connection closed: the server and
\* GDB never wait for each other, and wait_for_link does not hold a request.
EveryRequestAnswered == gdb = "wait" ~> gdb # "wait"

\* The server comes back to accept() once GDB has gone, from wherever it is:
\* waiting for an acknowledgement, for the hart or for the link.
SessionsEnd == conn = "half" ~> pc = "accept"

\* A user who presses ^C gets the prompt back, over resets and lost links.
Interruptible == gdb = "run" ~> gdb # "run"

\* docs/03-getting-started.md:150: "target cleanup failed": connect again and
\* check the target.  A user who does so gets a session.
ReconnectGivesSession == failed ~> pc = "prompt"
=============================================================================
