----------------------------- MODULE Websocket -----------------------------
(***************************************************************************)
(* Websockets (util/cgiwebsocket.c): the parser of the frames a client     *)
(* sends, which are cut into packets anywhere, and the linked list of the  *)
(* open sockets, on the slots of the HTTP server's pool.                   *)
(*                                                                         *)
(* What Httpd models in detail is one step here: a connection with its     *)
(* request, a disconnect with its callback.  A packet is handled one byte  *)
(* per step, as the loop of cgiWebSocketRecv does, and a payload at once.  *)
(***************************************************************************)
EXTENDS Integers, Sequences, FiniteSets, SequencesExt

CONSTANTS
    Conns,             \* connections
    MaxConn,           \* slots of the pool
    MaxSocks,          \* memory for sockets
    Streams,           \* what the connections may send: each a sequence of
                       \* frames, or NULL: it does not ask for a websocket
    MaxPacket,         \* bound: bytes in a packet
    MaxBroadcasts,     \* bound: broadcasts of the application
    LenMod,            \* fr.len wraps here (2^64)
    NULL

Slots == 0 .. MaxConn - 1
Socks == 1 .. MaxSocks

ASSUME WebsocketAssumption ==
    /\ MaxConn \in Nat \ {0} /\ MaxSocks \in Nat /\ MaxPacket \in Nat
    /\ MaxBroadcasts \in Nat /\ LenMod \in Nat \ {0}
    /\ NULL \notin Conns /\ NULL \notin Int

VARIABLES
    slots,             \* of the pool: conn, cgi, cgiPrivData, recvHdl
    socks,             \* Websock and WebsockPriv, by address
    llStart,
    packet,            \* the packet being handled
    stream,            \* of each connection, out of Streams
    state,             \* of each connection
    sent,              \* bytes each client has sent
    got,               \* what recvCb was given: bytes with their flags
    pongs,             \* PONGs sent
    pending,           \* sent callbacks that are due
    clean,             \* no packet held more than a part of one frame
    broadcasts

clients == <<stream, state, sent, got, pongs, pending, clean>>
vars == <<slots, socks, llStart, packet, clients, broadcasts>>

NoPacket == [conn |-> NULL, bytes |-> <<>>, out |-> FALSE]
FreeSlot == [conn |-> NULL, cgi |-> FALSE, priv |-> NULL, recvHdl |-> FALSE]

OPCODE_CONTINUE == 0
OPCODE_TEXT == 1
OPCODE_BINARY == 2
OPCODE_CLOSE == 8
OPCODE_PING == 9
DataOpcodes == {OPCODE_CONTINUE, OPCODE_TEXT, OPCODE_BINARY}

ST_FLAGS == 0
ST_LEN0 == 1
ST_LEN1 == 2
ST_LEN2 == 3
ST_LEN8 == 9
ST_MASK1 == 10
ST_MASK4 == 13
ST_PAYLOAD == 14

-----------------------------------------------------------------------------
(* What clients send: a frame is [op, fin, masked, mask, ext, data].       *)

\* The operator ^ of C on two bytes.
XorBit(a, b, v) == (((a \div v) + (b \div v)) % 2) * v
Xor(a, b) == XorBit(a, b, 1) + XorBit(a, b, 2) + XorBit(a, b, 4) + XorBit(a, b, 8)
           + XorBit(a, b, 16) + XorBit(a, b, 32) + XorBit(a, b, 64) + XorBit(a, b, 128)

MaskAt(f, i) == f.mask[((i - 1) % 4) + 1]

\* n without its last r bytes; a length has four at most.
Shifted(n, r) ==
    CASE r = 0 -> n [] r = 1 -> n \div 256 [] r = 2 -> (n \div 256) \div 256
      [] r = 3 -> ((n \div 256) \div 256) \div 256 [] OTHER -> 0

\* The length field, extended by "ext" bytes.
LengthCode(f) ==
    CASE f.ext = 0 -> Len(f.data) [] f.ext = 2 -> 126 [] f.ext = 8 -> 127
LengthBytes(f) ==
    [i \in 1 .. 1 + f.ext |->
        IF i = 1 THEN (IF f.masked THEN 128 ELSE 0) + LengthCode(f)
        ELSE Shifted(Len(f.data), 1 + f.ext - i) % 256]

\* What a client may send: the length field holds the length.
Byte == 0 .. 255
FrameType ==
    {f \in [op : 0 .. 15, fin : BOOLEAN, masked : BOOLEAN, mask : [1 .. 4 -> Byte],
            ext : {0, 2, 8}, data : Seq(Byte)] :
        /\ Len(f.data) < LenMod
        /\ f.ext = 0 => Len(f.data) <= 125
        /\ f.ext = 2 => Shifted(Len(f.data), 1) \in Byte
        /\ f.ext = 8 => Shifted(Len(f.data), 3) \in Byte}

ASSUME StreamAssumption ==
    \A t \in Streams : \A c \in Conns : t[c] = NULL \/ t[c] \in Seq(FrameType)

FrameHead(f) == <<(IF f.fin THEN 128 ELSE 0) + f.op>> \o LengthBytes(f)
              \o IF f.masked THEN f.mask ELSE <<>>
Payload(f) == [i \in DOMAIN f.data |->
                  IF f.masked THEN Xor(f.data[i], MaskAt(f, i)) ELSE f.data[i]]
Encoded(f) == FrameHead(f) \o Payload(f)

Frames(q) == IF q = NULL THEN <<>> ELSE q
AllStreams == UNION {{t[c] : c \in Conns} : t \in Streams}
Bytes == [q \in AllStreams |-> FlattenSeq([k \in DOMAIN Frames(q) |-> Encoded(q[k])])]
Ends == [q \in AllStreams |-> [k \in 0 .. Len(Frames(q)) |->
            Len(FlattenSeq([j \in 1 .. k |-> Encoded(q[j])]))]]

\* The bytes after "from", up to "to", are a part of one frame with data.
InOneFrame(q, from, to) ==
    \E k \in DOMAIN q :
        Ends[q][k - 1] <= from /\ to <= Ends[q][k] /\ q[k].data # <<>>

-----------------------------------------------------------------------------
(* The parser                                                              *)

\* The structure of a new socket; without a slot the memory is free.
NewSock(s) ==
    [slot |-> s, flags |-> 0, len8 |-> 0, len |-> 0, mask |-> <<0, 0, 0, 0>>,
     maskCtr |-> 0, frameCont |-> FALSE, mustClose |-> FALSE,
     wsStatus |-> ST_FLAGS, next |-> NULL]

IsMasked(ws) == ws.len8 >= 128
Opcode(ws) == ws.flags % 16
AfterLength(ws) == IF IsMasked(ws) THEN ST_MASK1 ELSE ST_PAYLOAD
LastLength(ws) == IF (ws.len8 % 128) = 126 THEN ST_LEN2 ELSE ST_LEN8

\* One byte of a head.
HeadByte(ws, b) ==
    LET st == ws.wsStatus
        read == [ws EXCEPT !.len8 = b]
    IN  CASE st = ST_FLAGS ->
                [ws EXCEPT !.maskCtr = 0, !.frameCont = FALSE, !.flags = b,
                           !.wsStatus = ST_LEN0]
          [] st = ST_LEN0 /\ b % 128 >= 126 ->
                [read EXCEPT !.len = 0, !.wsStatus = ST_LEN1]
          [] st = ST_LEN0 /\ ~(b % 128 >= 126) ->
                [read EXCEPT !.len = b % 128, !.wsStatus = AfterLength(read)]
          [] st \in ST_LEN1 .. ST_LEN8 ->
                [ws EXCEPT !.len = ((@ * 256) + b) % LenMod,
                           !.wsStatus = IF st = LastLength(ws) \/ st = ST_LEN8
                                        THEN AfterLength(ws) ELSE @ + 1]
          [] st \in ST_MASK1 .. ST_MASK4 ->
                [ws EXCEPT !.mask[st - ST_MASK1 + 1] = b, !.wsStatus = @ + 1]

\* The rest of a packet, unmasked from the first byte to the last.
Unmasked(ws, bytes) ==
    [j \in DOMAIN bytes |-> Xor(bytes[j], ws.mask[((ws.maskCtr + j - 1) % 4) + 1])]

\* How much of it is taken for this frame: only the branch for data looks
\* at the length.
Taken(ws, n) ==
    IF Opcode(ws) \in DataOpcodes /\ n > ws.len THEN ws.len ELSE n

\* Mutant: every packet is unmasked from the start of the mask.
AfterPayloadUncounted(ws, n) ==
    LET len == (ws.len - Taken(ws, n)) % LenMod
    IN  [ws EXCEPT !.frameCont = TRUE, !.len = len,
                   !.mustClose = @ \/ Opcode(ws) = OPCODE_CLOSE,
                   !.wsStatus = IF len = 0 THEN ST_FLAGS ELSE @]

AfterPayload(ws, n) ==
    LET len == (ws.len - Taken(ws, n)) % LenMod
    IN  [ws EXCEPT !.maskCtr = (@ + n) % 256, !.frameCont = TRUE, !.len = len,
                   !.mustClose = @ \/ Opcode(ws) = OPCODE_CLOSE,
                   !.wsStatus = IF len = 0 THEN ST_FLAGS ELSE @]

\* recvCb gets the bytes with WEBSOCK_FLAG_BIN and WEBSOCK_FLAG_CONT.
Given(ws, data) ==
    [j \in DOMAIN data |-> [byte |-> data[j], bin |-> Opcode(ws) = OPCODE_BINARY,
                            cont |-> ws.flags < 128]]

-----------------------------------------------------------------------------
(* The list of the open sockets                                            *)

Allocated == {a \in Socks : socks[a].slot # NULL}
Lowest(S) == CHOOSE a \in S : \A b \in S : a <= b

\* The list from llStart on: Chain[i] is its entry behind i others.
Chain[i \in 0 .. MaxSocks] ==
    IF i = 0 THEN llStart
    ELSE IF Chain[i - 1] \in Allocated THEN socks[Chain[i - 1]].next ELSE NULL
Listed == {Chain[i] : i \in 0 .. MaxSocks} \ {NULL}

Appended(ss, a) ==
    [b \in Socks |-> IF b \in Listed /\ ss[b].next = NULL
                     THEN [ss[b] EXCEPT !.next = a] ELSE ss[b]]

\* Mutant: only the first of the list is taken out.
UnlinkedFirst(a) == socks

Unlinked(a) ==
    [b \in Socks |-> IF llStart # a /\ b \in Listed /\ socks[b].next = a
                     THEN [socks[b] EXCEPT !.next = socks[a].next] ELSE socks[b]]

-----------------------------------------------------------------------------
(* Actions                                                                 *)

Init ==
    /\ slots = [s \in Slots |-> FreeSlot]
    /\ socks = [a \in Socks |-> NewSock(NULL)]
    /\ llStart = NULL
    /\ packet = NoPacket
    /\ stream \in Streams
    /\ state = [c \in Conns |-> "none"]
    /\ sent = [c \in Conns |-> 0]
    /\ got = [c \in Conns |-> <<>>]
    /\ pongs = [c \in Conns |-> 0]
    /\ pending = [c \in Conns |-> 0]
    /\ clean = [c \in Conns |-> TRUE]
    /\ broadcasts = 0

Idle == packet = NoPacket
SlotsOf(c) == {s \in Slots : slots[s].conn = c}
FreeSlots == {s \in Slots : slots[s].conn = NULL}

\* Another CGI function answers and is done, as cgiWebsocket is with a 500.
RequestPlain(c, s) ==
    /\ stream[c] = NULL
    /\ slots' = [slots EXCEPT ![s].conn = c, ![s].cgi = FALSE]
    /\ state' = [state EXCEPT ![c] = "open"]
    /\ pending' = [pending EXCEPT ![c] = @ + 1]
    /\ UNCHANGED <<socks, llStart>>

\* The first call of cgiWebsocket.
RequestSocket(c, s) ==
    /\ stream[c] # NULL /\ slots[s].priv = NULL
    /\ Allocated # Socks
    /\ LET a == Lowest(Socks \ Allocated)
       IN  /\ slots' = [slots EXCEPT ![s] = [conn |-> c, cgi |-> TRUE, priv |-> a,
                                             recvHdl |-> TRUE]]
           /\ socks' = [Appended(socks, a) EXCEPT ![a] = NewSock(s)]
           /\ llStart' = IF llStart = NULL THEN a ELSE llStart
    /\ state' = [state EXCEPT ![c] = "socket"]
    /\ pending' = [pending EXCEPT ![c] = @ + 1]

\* The slot still has the socket of an earlier connection, and the call is
\* taken for the one after sending: there is no answer.
RequestStale(c, s) ==
    /\ stream[c] # NULL /\ slots[s].priv # NULL
    /\ slots' = [slots EXCEPT ![s].conn = c, ![s].cgi = ~socks[slots[s].priv].mustClose]
    /\ state' = [state EXCEPT ![c] = "open"]
    /\ UNCHANGED <<socks, llStart, pending>>

Request(c) ==
    /\ Idle /\ state[c] = "none" /\ FreeSlots # {}
    /\ LET s == Lowest(FreeSlots)
       IN  RequestPlain(c, s) \/ RequestSocket(c, s) \/ RequestStale(c, s)
    /\ UNCHANGED <<packet, stream, sent, got, pongs, clean, broadcasts>>

\* A packet of n bytes arrives; cgiWebSocketRecv begins.
Receive(c, n) ==
    /\ Idle /\ state[c] = "socket"
    /\ sent[c] + n <= Len(Bytes[stream[c]])
    /\ \E s \in SlotsOf(c) : slots[s].recvHdl
    /\ packet' = [conn |-> c, bytes |-> SubSeq(Bytes[stream[c]], sent[c] + 1, sent[c] + n),
                  out |-> FALSE]
    /\ sent' = [sent EXCEPT ![c] = @ + n]
    /\ clean' = [clean EXCEPT ![c] = @ /\ InOneFrame(stream[c], sent[c], sent[c] + n)]
    /\ UNCHANGED <<slots, socks, llStart, stream, state, got, pongs, pending, broadcasts>>

InPacket == packet.bytes # <<>>
Sock == CHOOSE a \in Socks : \E s \in SlotsOf(packet.conn) : slots[s].priv = a

RecvHead ==
    /\ InPacket /\ socks[Sock].wsStatus # ST_PAYLOAD
    /\ socks' = [socks EXCEPT ![Sock] = HeadByte(@, Head(packet.bytes))]
    /\ packet' = [packet EXCEPT !.bytes = Tail(@)]
    /\ UNCHANGED <<slots, llStart, clients, broadcasts>>

\* The loop goes on behind the byte after what was taken: "i" is advanced
\* by sl and once more by the loop.
RecvPayload ==
    /\ InPacket /\ socks[Sock].wsStatus = ST_PAYLOAD
    /\ LET ws == socks[Sock]
           n == Len(packet.bytes)
           taken == Taken(ws, n)
           data == SubSeq(Unmasked(ws, packet.bytes), 1, taken)
           c == packet.conn
           ping == Opcode(ws) = OPCODE_PING
           close == Opcode(ws) \in DataOpcodes /\ ~IsMasked(ws)
           text == Opcode(ws) \in DataOpcodes /\ IsMasked(ws)
       IN  /\ socks' = [socks EXCEPT ![Sock] = AfterPayload(@, n)]
           /\ packet' = [packet EXCEPT !.bytes = SubSeq(@, taken + 2, n),
                                       !.out = (@ \/ ping) /\ ~close]
           /\ pongs' = [pongs EXCEPT ![c] = IF ping /\ ~ws.frameCont THEN @ + 1 ELSE @]
           /\ got' = [got EXCEPT ![c] = IF text THEN @ \o Given(ws, data) ELSE @]
           /\ pending' = [pending EXCEPT ![c] = IF close THEN @ + 1 ELSE @]
    /\ UNCHANGED <<slots, llStart, stream, state, sent, clean, broadcasts>>

\* The end of the packet: httpdFlushSendBuffer.
RecvEnd ==
    /\ packet # NoPacket /\ packet.bytes = <<>>
    /\ pending' = [pending EXCEPT ![packet.conn] = IF packet.out THEN @ + 1 ELSE @]
    /\ packet' = NoPacket
    /\ UNCHANGED <<slots, socks, llStart, stream, state, sent, got, pongs, clean, broadcasts>>

\* httpdSentCb: a connection without a CGI function is closed, otherwise
\* cgiWebsocket is done after a CLOSE frame.
SentClose(s) ==
    /\ ~slots[s].cgi
    /\ slots' = [slots EXCEPT ![s].conn = NULL]
    /\ state' = [state EXCEPT ![slots[s].conn] = "gone"]

SentSocket(s) ==
    /\ slots[s].cgi
    /\ slots' = [slots EXCEPT ![s].cgi = ~socks[slots[s].priv].mustClose]
    /\ UNCHANGED state

Sent(c) ==
    /\ Idle /\ pending[c] > 0
    /\ pending' = [pending EXCEPT ![c] = @ - 1]
    /\ \E s \in SlotsOf(c) : SentClose(s) \/ SentSocket(s)
    /\ UNCHANGED <<socks, llStart, packet, stream, sent, got, pongs, clean, broadcasts>>

\* httpdDisconCb: cgiWebsocket cleans up, if it has not finished before.
DisconSocket(s) ==
    /\ slots[s].cgi
    /\ LET a == slots[s].priv
       IN  /\ socks' = [Unlinked(a) EXCEPT ![a] = NewSock(NULL)]
           /\ llStart' = IF llStart = a THEN socks[a].next ELSE llStart
    /\ slots' = [slots EXCEPT ![s].conn = NULL, ![s].cgi = FALSE, ![s].priv = NULL]

DisconDone(s) ==
    /\ ~slots[s].cgi
    /\ slots' = [slots EXCEPT ![s].conn = NULL]
    /\ UNCHANGED <<socks, llStart>>

Disconnect(c) ==
    /\ Idle /\ state[c] \in {"open", "socket"}
    /\ state' = [state EXCEPT ![c] = "gone"]
    /\ pending' = [pending EXCEPT ![c] = 0]
    /\ \E s \in SlotsOf(c) : DisconSocket(s) \/ DisconDone(s)
    /\ UNCHANGED <<packet, stream, sent, got, pongs, clean, broadcasts>>

\* The application sends to every socket of the list.
cgiWebsockBroadcast ==
    /\ Idle /\ broadcasts < MaxBroadcasts
    /\ broadcasts' = broadcasts + 1
    /\ pending' = [c \in Conns |->
          IF \E a \in Listed : slots[socks[a].slot].conn = c
          THEN pending[c] + 1 ELSE pending[c]]
    /\ UNCHANGED <<slots, socks, llStart, packet, stream, state, sent, got, pongs, clean>>

Stack(c) ==
    \/ Request(c) \/ Sent(c) \/ Disconnect(c)
    \/ \E n \in 1 .. MaxPacket : Receive(c, n)

Next ==
    \/ RecvHead \/ RecvPayload \/ RecvEnd
    \/ cgiWebsockBroadcast
    \/ \E c \in Conns : Stack(c)

Spec == Init /\ [][Next]_vars

-----------------------------------------------------------------------------
(* Properties                                                              *)

\* How many bytes of the data of frame k are among the first n bytes.
Arrived(q, k, n) ==
    LET before == Ends[q][k] - Len(q[k].data)
    IN  IF n <= before THEN 0 ELSE IF n >= Ends[q][k] THEN Len(q[k].data) ELSE n - before

Expected(q, n) == FlattenSeq([k \in DOMAIN Frames(q) |->
    [j \in 1 .. IF q[k].op \in DataOpcodes /\ q[k].masked THEN Arrived(q, k, n) ELSE 0 |->
        [byte |-> q[k].data[j], bin |-> q[k].op = OPCODE_BINARY, cont |-> ~q[k].fin]]])

Pinged(q, n) == {k \in DOMAIN Frames(q) : q[k].op = OPCODE_PING /\ Arrived(q, k, n) > 0}

\* The application is given the data of every masked frame, byte by byte as
\* it was before the client masked it, with the flags of its frame, and
\* each PING is answered once: wherever the packets cut a frame, in its
\* length, its mask or its data, and whatever length field it has.  No
\* packet may hold the end of a frame and more, nor a frame without data:
\* the byte behind a payload is skipped (util/cgiwebsocket.c:142-202).
Delivered ==
    Idle => \A c \in Conns : clean[c] =>
        /\ got[c] = Expected(stream[c], sent[c])
        /\ pongs[c] = Cardinality(Pinged(stream[c], sent[c]))

\* The list of sockets is whole, whichever of them is closed and wherever
\* it is in the list: it ends, all of it is allocated, it has the socket of
\* every connection and no other but one that was told to close
\* (util/cgiwebsocket.c:216-230, 267-275).
SocketList ==
    /\ Chain[MaxSocks] = NULL
    /\ Listed \subseteq Allocated
    /\ \A s \in Slots : slots[s].cgi =>
          slots[s].priv \in Listed /\ socks[slots[s].priv].slot = s
    /\ \A a \in Listed : slots[socks[a].slot].cgi \/ socks[a].mustClose
=============================================================================
