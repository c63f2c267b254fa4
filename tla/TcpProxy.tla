------------------------------ MODULE TcpProxy ------------------------------
(***************************************************************************)
(* The process that acnetd forks for a TCP client (tcpclient.cpp), with    *)
(* its two protocols, raw (rawhandler.cpp) and WebSocket (wshandler.cpp).  *)
(* It reads frames of commands from the client, passes each on to acnetd,  *)
(* and passes acknowledgements and data from acnetd on to the client.      *)
(*                                                                         *)
(* The socket to the client is non-blocking: what does not fit into it is  *)
(* queued in buffers.  A frame to the client has two units, its header and *)
(* its payload, so that it may be cut by a full socket or a full buffer;   *)
(* of their bytes only the length that the header announces is looked at.  *)
(* A frame from the client may arrive in two parts.  The main loop is a    *)
(* sequence of turns: a call of poll() yields a set of events, and then    *)
(* each is handled in order, while the client and acnetd go on.            *)
(***************************************************************************)
EXTENDS Naturals, FiniteSets, SequencesExt

CONSTANTS Openings,   \* what clients open a connection with: sequences of lines
          Frames,     \* frames that clients send: [op, fin, body, len]
          Sizes,      \* bytes of the data messages that acnetd sends
          AckSizes,   \* bytes of its acknowledgements
          MaxFrames,  \* bound: frames a client sends
          MaxData,    \* bound: data messages that acnetd sends
          Window,     \* units that fit into the socket to the client
          BufSize     \* SOCKET_BUFSIZE, in units

ASSUME BoundsAssumption == {MaxFrames, MaxData} \subseteq Nat

(***************************************************************************)
(* A frame to the client, of at most 64K of data and a header, fits into a *)
(* buffer (rawhandler.cpp:15-19, wshandler.cpp:135, 179, server.h:1471).   *)
(***************************************************************************)
ASSUME SizesAssumption == Window \in Nat \ {0} /\ BufSize \in Nat \ {0, 1}

ASSUME FramesAssumption ==
    Frames \subseteq [op : STRING, fin : BOOLEAN, body : Seq(STRING), len : Nat]

(* What recv() leaves room for (wshandler.cpp:137, 247); Ack to AckNodeStats (server.h:861, 969). *)
MaxDatagram == 65530
ASSUME DatagramAssumption == Sizes \subseteq 0..MaxDatagram /\ AckSizes \subseteq 4..32

VARIABLES client,   \* the TCP client, and what it has written
          daemon,   \* acnetd, and what is in the proxy's UDP sockets
          p         \* the proxy, and what is in its socket to the client

vars == <<client, daemon, p>>

Init ==
    /\ client = [up |-> <<>>, half |-> FALSE, conn |-> "open", frames |-> 0]
    /\ daemon = [cmds |-> <<>>, acks |-> <<>>, data |-> <<>>, served |-> 0, sent |-> 0, lost |-> FALSE]
    /\ p = [state |-> "handshake", handler |-> "none", traffic |-> "all", events |-> {},
            done |-> FALSE, payload |-> <<>>, len |-> 0, q |-> <<>>, wire |-> <<>>]

Running == p.state = "running"

-----------------------------------------------------------------------------
(* Frames to the client. *)

(* `len' bytes come from acnetd or, in a control frame, from the client. *)
Message(kind, n, id, len) == [kind |-> kind, n |-> n, id |-> id, len |-> len]

Unit(m, part) == [m |-> m, part |-> part]
Units(m) == <<Unit(m, 1), Unit(m, 2)>>

(***************************************************************************)
(* SocketBuffer: `len' counts the units ever put into it.  It is filled to *)
(* the brim, and the rest goes to a new one.                               *)
(***************************************************************************)
Buffer(units) == [len |-> Len(units), units |-> units]

AppendUnits(q, units) ==
    LET b == Last(q)
        free == BufSize - b.len
        k == IF free < Len(units) THEN free ELSE Len(units)
        rest == SubSeq(units, k + 1, Len(units))
    IN  Front(q) \o <<[len |-> b.len + k, units |-> b.units \o SubSeq(units, 1, k)]>>
            \o (IF rest = <<>> THEN <<>> ELSE <<Buffer(rest)>>)

(* What the kernel takes of some units. *)
Taken(s, units) ==
    LET room == Window - Len(s.wire) IN IF room < Len(units) THEN room ELSE Len(units)

(* A mutant: the socket is tried first, although older data is queued. *)
SendPastQueue(s, units) ==
    LET k == Taken(s, units)
        rest == SubSeq(units, k + 1, Len(units))
    IN  [s EXCEPT !.wire = @ \o SubSeq(units, 1, k),
                  !.q = IF rest = <<>> THEN @ ELSE Append(@, Buffer(rest))]

Send(s, units) ==
    LET k == Taken(s, units)
        rest == SubSeq(units, k + 1, Len(units))
    IN  IF s.q # <<>> THEN [s EXCEPT !.q = AppendUnits(@, units)]
        ELSE [s EXCEPT !.wire = @ \o SubSeq(units, 1, k),
                       !.q = IF rest = <<>> THEN <<>> ELSE <<Buffer(rest)>>]

(***************************************************************************)
(* Writing to a connection that the client has reset fails; what is only   *)
(* queued does not.                                                        *)
(***************************************************************************)
SendFails(s) == client.conn = "reset" /\ s.q = <<>>

SendOrEnd(s, units) ==
    IF SendFails(s) THEN [s EXCEPT !.done = TRUE] ELSE [Send(s, units) EXCEPT !.done = FALSE]

SendAnyway(s, units) == IF SendFails(s) THEN s ELSE Send(s, units)

(***************************************************************************)
(* The bytes that follow a header: all frames of the raw protocol, and the *)
(* data and acknowledgements of the other, begin with a type.              *)
(***************************************************************************)
HasType(m) == p.handler = "raw" \/ m.kind \in {"data", "ack"}

PayloadOf(m) == IF HasType(m) THEN m.len + 2 ELSE m.len

(* In a byte, where 126, 127 and the bit of the mask are no length (wshandler.cpp:61-80). *)
InByte(size) == {size % 256} \cap 0..125
InTwoBytes(size) == {size % 65536}

(***************************************************************************)
(* The length that the client will read in the header, if it is one.  The  *)
(* raw protocol has 32 bits for it; of the other's two headers the short   *)
(* one is chosen before the type is counted.                               *)
(***************************************************************************)
Announced(m) ==
    IF p.handler = "raw" THEN {PayloadOf(m)}
    ELSE IF HasType(m) /\ m.len > 125 THEN InTwoBytes(PayloadOf(m))
    ELSE InByte(PayloadOf(m))

-----------------------------------------------------------------------------
(* The client. *)

Write(f, half) ==
    /\ Running /\ client.conn = "open" /\ ~client.half /\ client.frames < MaxFrames
    /\ client' = [client EXCEPT !.up = Append(@, f), !.half = half, !.frames = @ + 1]
    /\ UNCHANGED <<daemon, p>>

WriteRest ==
    /\ Running /\ client.conn = "open" /\ client.half
    /\ client' = [client EXCEPT !.half = FALSE]
    /\ UNCHANGED <<daemon, p>>

Read ==
    /\ Running /\ client.conn # "reset" /\ p.wire # <<>>
    /\ p' = [p EXCEPT !.wire = Tail(@)]
    /\ UNCHANGED <<client, daemon>>

(* The client closes its side of the connection, or all of it. *)
Leave(how) ==
    /\ Running /\ client.conn # "reset" /\ client.conn # how
    /\ client' = [client EXCEPT !.conn = how]
    /\ UNCHANGED <<daemon, p>>

-----------------------------------------------------------------------------
(* acnetd: a command is served and acknowledged at once; the data that it  *)
(* gives rise to comes later, and carries the number of the last command.  *)

ServeCommand ==
    /\ Running /\ daemon.cmds # <<>>
    /\ \E len \in AckSizes :
           daemon' = [daemon EXCEPT !.cmds = Tail(@),
                                    !.acks = Append(@, Message("ack", Head(daemon.cmds), 0, len)),
                                    !.served = Head(daemon.cmds)]
    /\ UNCHANGED <<client, p>>

SendData ==
    /\ Running /\ daemon.served > 0 /\ daemon.sent < MaxData
    /\ \E len \in Sizes :
           daemon' = [daemon EXCEPT !.data = Append(@, Message("data", daemon.served, daemon.sent + 1, len)),
                                    !.sent = @ + 1]
    /\ UNCHANGED <<client, p>>

-----------------------------------------------------------------------------
(* The main loop. *)

(***************************************************************************)
(* The last line that asks for a protocol counts, but WebSocket gives way  *)
(* to a protocol that was asked for before.  A client that does not finish *)
(* in time is not served.                                                  *)
(***************************************************************************)
Chosen(h, line) ==
    IF line = "RAW" THEN "raw" ELSE IF line = "Sec-WebSocket-Key:" /\ h = "none" THEN "ws" ELSE h

Handshake(lines, inTime) ==
    LET h == IF inTime THEN FoldLeft(Chosen, "none", lines) ELSE "none"
    IN  /\ p.state = "handshake"
        /\ p' = [p EXCEPT !.handler = h, !.state = IF h = "none" THEN "exited" ELSE "running"]
        /\ UNCHANGED <<client, daemon>>

(* A mutant: the queue is not looked at. *)
ReadyUnqueued ==
    (IF p.traffic = "all" /\ daemon.data # <<>> THEN {"data"} ELSE {})
    \cup (IF p.traffic = "all" /\ (client.up # <<>> \/ client.conn # "open") THEN {"client"} ELSE {})
    \cup (IF daemon.acks # <<>> THEN {"command"} ELSE {})

(* A mutant: data is polled for while an acknowledgement is due. *)
ReadyAll ==
    (IF p.q # <<>> /\ (Len(p.wire) < Window \/ client.conn = "reset") THEN {"pending"} ELSE {})
    \cup (IF daemon.data # <<>> THEN {"data"} ELSE {})
    \cup (IF p.traffic = "all" /\ (client.up # <<>> \/ client.conn # "open") THEN {"client"} ELSE {})
    \cup (IF daemon.acks # <<>> THEN {"command"} ELSE {})

(***************************************************************************)
(* What poll() finds: while an acknowledgement is due, it looks for that   *)
(* alone, and does not see that queued data could leave either.            *)
(***************************************************************************)
Ready ==
    (IF daemon.acks # <<>> THEN {"command"} ELSE {})
    \cup IF p.traffic = "ack" THEN {} ELSE
         (IF p.q # <<>> /\ (Len(p.wire) < Window \/ client.conn = "reset") THEN {"pending"} ELSE {})
         \cup (IF daemon.data # <<>> THEN {"data"} ELSE {})
         \cup (IF client.up # <<>> \/ client.conn # "open" THEN {"client"} ELSE {})

TurnOver == Running /\ p.events = {}

Poll ==
    /\ TurnOver /\ ~p.done /\ Ready # {}
    /\ p' = [p EXCEPT !.events = Ready]
    /\ UNCHANGED <<client, daemon>>

Exit ==
    /\ TurnOver /\ p.done
    /\ p' = [p EXCEPT !.state = "exited"]
    /\ UNCHANGED <<client, daemon>>

(***************************************************************************)
(* The handlers run in this order.  Each sets `done' anew, whatever the    *)
(* one before it said, except that the end of the first ends the turn.     *)
(***************************************************************************)
Order == <<"pending", "data", "client", "command">>

Handling(e) ==
    /\ Running
    /\ \E i \in DOMAIN Order : Order[i] = e /\ e \in p.events /\ \A j \in 1..(i - 1) : Order[j] \notin p.events

Handled(e) == [p EXCEPT !.events = @ \ {e}]

(***************************************************************************)
(* One round of the loop in sendPendingPackets.                            *)
(***************************************************************************)
SendPendingPackets ==
    LET b == Head(p.q)
        k == Taken(p, b.units)
        rest == SubSeq(b.units, k + 1, Len(b.units))
    IN  /\ Handling("pending")
        /\ p' = IF client.conn = "reset" THEN [p EXCEPT !.done = TRUE, !.events = {}]
                ELSE [p EXCEPT !.wire = @ \o SubSeq(b.units, 1, k),
                               !.q = (IF rest = <<>> THEN <<>> ELSE <<[b EXCEPT !.units = rest]>>) \o Tail(@),
                               !.events = IF rest # <<>> \/ Tail(p.q) = <<>> THEN @ \ {"pending"} ELSE @]
        /\ UNCHANGED <<client, daemon>>

HandleDataSocket ==
    /\ Handling("data")
    /\ p' = SendOrEnd(Handled("data"), Units(Head(daemon.data)))
    /\ daemon' = [daemon EXCEPT !.data = Tail(@)]
    /\ UNCHANGED client

HandleCommandSocket ==
    /\ Handling("command")
    /\ p' = SendOrEnd([Handled("command") EXCEPT !.traffic = "all"], Units(Head(daemon.acks)))
    /\ daemon' = [daemon EXCEPT !.acks = Tail(@)]
    /\ UNCHANGED client

(* A mutant: the proxy does not wait for the acknowledgement. *)
ForwardFreely(s, n) ==
    /\ p' = [s EXCEPT !.done = FALSE]
    /\ daemon' = [daemon EXCEPT !.cmds = Append(@, n)]

(***************************************************************************)
(* handleClientCommand: acnetd's socket takes the command, refuses it, or  *)
(* has no room and drops it without a word.                                *)
(***************************************************************************)
HandleClientCommand(s, n) ==
    \/ /\ p' = [s EXCEPT !.traffic = "ack", !.done = FALSE]
       /\ daemon' = [daemon EXCEPT !.cmds = Append(@, n)]
    \/ /\ p' = [s EXCEPT !.traffic = "ack", !.done = FALSE]
       /\ daemon' = [daemon EXCEPT !.lost = TRUE]
    \/ /\ p' = [s EXCEPT !.done = TRUE]
       /\ UNCHANGED daemon

IsCommand(payload) ==
    payload # <<>> /\ (Head(payload) = "whole" \/ (Head(payload) = "first" /\ Len(payload) > 1))

(***************************************************************************)
(* The client's frames are numbered, and a command has the number of the   *)
(* frame that completes it, the first that is not read yet.                *)
(***************************************************************************)
FramesRead == client.frames - Len(client.up)

HandleAcnetCommand(s, payload) ==
    IF IsCommand(payload) THEN HandleClientCommand(s, FramesRead + 1)
    ELSE p' = [s EXCEPT !.done = TRUE] /\ UNCHANGED daemon

RawFrame(f) == HandleAcnetCommand(Handled("client"), f.body)

(***************************************************************************)
(* A control frame is answered by two calls of send(), and takes along the *)
(* fragments of a message that is under way: `len' counts them all.        *)
(***************************************************************************)
Answered(s, kind, len) ==
    LET m == Message(kind, 0, client.frames, len)
    IN  SendAnyway(SendAnyway(s, <<Unit(m, 1)>>), <<Unit(m, 2)>>)

WebSocketFrame(f) ==
    LET payload == p.payload \o f.body
        len == p.len + f.len
        s == [Handled("client") EXCEPT !.payload = IF f.fin THEN <<>> ELSE payload,
                                       !.len = IF f.fin THEN 0 ELSE len]
        Goes(t, done) == p' = [t EXCEPT !.done = done] /\ UNCHANGED daemon
    IN  CASE ~f.fin -> Goes(s, FALSE)
          [] f.fin /\ f.op \in {"text", "binary"} -> HandleAcnetCommand(s, payload)
          [] f.fin /\ f.op = "close" -> Goes(Answered(s, "close", len), TRUE)
          [] f.fin /\ f.op = "ping" -> Goes(Answered(s, "pong", len), FALSE)
          [] OTHER -> Goes(s, FALSE)

(***************************************************************************)
(* readBytes waits for the rest of a frame, or for the end of the stream.  *)
(***************************************************************************)
Complete == client.up # <<>> /\ (Len(client.up) > 1 \/ ~client.half)

HandleClientSocket ==
    /\ Handling("client") /\ Complete
    /\ IF p.handler = "raw" THEN RawFrame(Head(client.up)) ELSE WebSocketFrame(Head(client.up))
    /\ client' = [client EXCEPT !.up = Tail(@)]

ClientSocketEnds ==
    /\ Handling("client") /\ ~Complete /\ client.conn # "open"
    /\ p' = [Handled("client") EXCEPT !.done = TRUE]
    /\ UNCHANGED <<client, daemon>>

(***************************************************************************)
(* Nothing has happened for ten seconds.  Bound: the last ping has left.   *)
(***************************************************************************)
Pings(s) == \E i \in DOMAIN s : s[i].m.kind = "ping"

HandleClientPing ==
    /\ TurnOver /\ ~p.done /\ Ready = {}
    /\ ~Pings(p.wire) /\ \A i \in DOMAIN p.q : ~Pings(p.q[i].units)
    /\ p' = SendOrEnd(p, Units(Message("ping", 0, 0, 0)))
    /\ UNCHANGED <<client, daemon>>

(* The daemon is told to terminate, and its proxies with it. *)
HandleShutdown ==
    /\ TurnOver /\ ~p.done
    /\ p' = [(IF p.handler = "ws" THEN SendAnyway(p, Units(Message("close", 0, 0, 0))) ELSE p)
                 EXCEPT !.done = TRUE]
    /\ UNCHANGED <<client, daemon>>

Proxy ==
    \/ Poll \/ Exit
    \/ SendPendingPackets \/ HandleDataSocket \/ HandleCommandSocket
    \/ HandleClientSocket \/ ClientSocketEnds

Next ==
    \/ \E lines \in Openings, inTime \in BOOLEAN : Handshake(lines, inTime)
    \/ \E f \in Frames, half \in BOOLEAN : Write(f, half)
    \/ WriteRest \/ Read
    \/ \E how \in {"eof", "reset"} : Leave(how)
    \/ ServeCommand \/ SendData
    \/ Proxy
    \/ HandleClientPing
    \/ HandleShutdown

Spec == Init /\ [][Next]_vars

(***************************************************************************)
(* The proxy is a process of its own, and so is acnetd, whose main loop    *)
(* looks at its clients' socket in every turn; pings need ten seconds of   *)
(* silence, which come when nothing else does.  The client finishes the    *)
(* frames it has begun and reads what it is sent.                          *)
(***************************************************************************)
FairSpec ==
    /\ Spec
    /\ WF_vars(Proxy) /\ WF_vars(HandleClientPing)
    /\ WF_vars(ServeCommand)
    /\ WF_vars(WriteRest) /\ WF_vars(Read)

-----------------------------------------------------------------------------
Pending == p.wire \o FlattenSeq([i \in DOMAIN p.q |-> p.q[i].units])

(***************************************************************************)
(* The frames whose header does not tell how many bytes follow.  In the    *)
(* WebSocket protocol a datagram of 124 or 125 bytes gets the short header *)
(* with 126 or 127 in it, which mean a longer one (wshandler.cpp:101-107), *)
(* and the size of an answer to a control frame is cut to a byte           *)
(* (wshandler.cpp:210, 219).                                               *)
(***************************************************************************)
Misread(m) ==
    p.handler # "raw" /\ (IF HasType(m) THEN m.len \in {124, 125} ELSE m.len > 125)

(***************************************************************************)
(* However the socket to the client fills and empties, and wherever a      *)
(* frame is cut, what leaves for the client is a sequence of whole frames: *)
(* the payload of each comes right after its header (tcpclient.cpp:358-412,*)
(* server.h:1497-1518).  The header tells its length, and the client finds *)
(* the next frame, as long as no `Misread' frame has been sent.            *)
(***************************************************************************)
FramesWhole ==
    \A i \in DOMAIN Pending :
        /\ Pending[i].part = 1 => i + 1 \in DOMAIN Pending /\ Pending[i + 1] = Unit(Pending[i].m, 2)
        /\ Pending[i].part = 2 /\ i > 1 => Pending[i - 1] = Unit(Pending[i].m, 1)
        /\ ~Misread(Pending[i].m) => Announced(Pending[i].m) = {PayloadOf(Pending[i].m)}

(***************************************************************************)
(* The client learns the outcome of a command, with the identifiers that   *)
(* it needs to make sense of data, before the data that the command gives  *)
(* rise to, although they come through different sockets                   *)
(* (tcpclient.cpp:105, 347-351, 480).                                      *)
(***************************************************************************)
AckFirst ==
    \A i \in DOMAIN Pending :
        Pending[i].m.kind = "data" =>
            /\ \A j \in (i + 1)..Len(Pending) : Pending[j].m.kind = "ack" => Pending[j].m.n > Pending[i].m.n
            /\ \A j \in DOMAIN daemon.acks : daemon.acks[j].n > Pending[i].m.n

(***************************************************************************)
(* The proxy is the relay of RelaySpec: the frames that are not read yet   *)
(* are known by their numbers, and the client has a frame when it has its  *)
(* second half.                                                            *)
(***************************************************************************)
Arriving(units) ==
    FlattenSeq([i \in DOMAIN units |-> IF units[i].part = 2 THEN <<units[i].m>> ELSE <<>>])

Relay == INSTANCE RelaySpec WITH
    in <- [i \in DOMAIN client.up |-> FramesRead + i],
    cmds <- daemon.cmds, acks <- daemon.acks, data <- daemon.data,
    out <- Arriving(Pending),
    open <- p.state # "exited" /\ client.conn # "reset"

Implements == Relay!Spec

(***************************************************************************)
(* What the client has written is forwarded and answered, and what acnetd  *)
(* sends arrives, again and again until the connection ends; it does end   *)
(* when the client has left, whichever handler notices first.  Excepted is *)
(* a connection on which a command was lost: it waits for its              *)
(* acknowledgement for ever (tcpclient.cpp:470-517).                       *)
(***************************************************************************)
Quiet ==
    /\ client.conn = "open" /\ client.up = <<>>
    /\ daemon.cmds = <<>> /\ daemon.acks = <<>> /\ daemon.data = <<>>
    /\ Pending = <<>>

Relayed == []<>(Quiet \/ ~Running \/ daemon.lost)
=============================================================================
