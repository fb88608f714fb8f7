------------------------------- MODULE Httpd -------------------------------
(***************************************************************************)
(* The HTTP server of the ESP8266: core/httpd.c with the CGI functions of  *)
(* core/httpdespfs.c, core/auth.c and util/cgiflash.c.                     *)
(*                                                                         *)
(* The TCP stack calls httpdConnectCb, httpdRecvCb, httpdSentCb and        *)
(* httpdDisconCb one at a time, in any order over the connections.  A      *)
(* callback that loops (over received bytes, over the pool) takes one step *)
(* per round while "call" is set, and nothing else runs until it returns.  *)
(*                                                                         *)
(* Bytes are counted in units: a request is req.head units of head and     *)
(* req.len units of body, a file is a sequence of units.  What a client    *)
(* receives is a sequence of status codes (100 and above; a command, which *)
(* answers without a head, is CommandReply) and of the positions of file   *)
(* units.  A connection stands for its remote address and port, which is   *)
(* what httpdFindConnData looks for.                                       *)
(***************************************************************************)
EXTENDS Integers, Sequences, FiniteSets, SequencesExt

CONSTANTS
    Conns,             \* connections clients make
    MaxConn,           \* MAX_CONN: slots of the pool
    MaxPost,           \* MAX_POST, and the 1024 bytes a file is read in
    MaxHead,           \* MAX_HEAD_LEN
    SendBuffLen,       \* MAX_SENDBUFF_LEN
    TokenMax,          \* sizeof(token)
    MaxFiles,          \* memory for open files
    SecSize,           \* SPI_FLASH_SEC_SIZE
    FwSize,            \* size of a firmware partition
    ReadLen,           \* what cgiReadFlash reads (512 * 1024)
    BuiltInUrls,       \* the table: sequence of [urls, cgi]
    File,              \* the files: [url -> sequence of units]
    Gzip,              \* those with FLAG_GZIP
    Scenarios,         \* what the connections ask for; NULL: it is not made
    MaxSegment,        \* bound: units received in one callback
    NULL

Slots == 0 .. MaxConn - 1
Handles == 1 .. MaxFiles
CommandReply == 100
Urls == UNION {BuiltInUrls[i].urls : i \in DOMAIN BuiltInUrls}
Cgis == {"cgiRedirect", "cmd", "authBasic", "cgiEspFsHook", "cgiEspFsTemplate",
         "cgiReadFlash", "cgiUploadFirmware"}

\* auth: a name and password that authBasic accepts; gzip: what the head
\* says of Accept-Encoding; image: the body begins like a firmware.
RequestType ==
    [url : Urls \cup {NULL}, head : Nat \ {0}, len : Nat, auth : BOOLEAN,
     gzip : {"gzip", "other", "none"}, image : BOOLEAN]

ASSUME HttpdAssumption ==
    /\ NULL \notin Conns /\ NULL \notin Nat /\ NULL \notin Urls /\ NULL \notin Cgis
    /\ NULL \notin Seq(Nat)
    /\ MaxConn \in Nat \ {0} /\ MaxPost \in Nat \ {0} /\ MaxHead \in Nat
    /\ MaxFiles \in Nat /\ FwSize \in Nat /\ MaxSegment \in Nat \ {0}
    /\ SecSize \in Nat \ {0} /\ SendBuffLen \in Nat \ {0} /\ TokenMax \in Nat \ {0, 1}
    /\ ReadLen \in Nat \ {0}
    /\ BuiltInUrls \in Seq(Range(BuiltInUrls))
    /\ \A i \in DOMAIN BuiltInUrls : BuiltInUrls[i].cgi \in Cgis
    /\ \A url \in DOMAIN File : File[url] \in Seq(Range(File[url]))
    /\ \A i \in Scenarios : \A c \in Conns : i[c] = NULL \/ i[c] \in RequestType

\* An erase sector and the flash are made of whole blocks: 4096, 512 * 1024
\* and 1024 bytes.
ASSUME FlashAssumption == SecSize % MaxPost = 0 /\ ReadLen % MaxPost = 0

VARIABLES
    connData,          \* the pool
    files,             \* files by handle, those without an owner are closed
    flash,             \* the partition an upload writes to
    call,              \* the callback that is running
    state, req,        \* of each connection
    received,          \* units of the request that have arrived
    reply,             \* what the server has sent
    pending            \* espconn_sent() calls whose callback is due

net == <<state, req, received, reply, pending>>
vars == <<connData, files, flash, call, net>>

NoCall == [cb |-> "none"]
Closed == [owner |-> NULL, url |-> NULL, pos |-> 0, token |-> NULL, streamed |-> FALSE]
FreeSlot == [conn |-> NULL, url |-> NULL, cgi |-> NULL, cgiData |-> NULL,
             cgiPrivData |-> FALSE, len |-> -1, received |-> 0, buffLen |-> 0]

MinNat(m, n) == IF m < n THEN m ELSE n

\* A unit of flash, with the connections that touched it since it was erased.
Blank == -1
Spoilt == -2
Erased(by) == [by |-> by, data |-> Blank]
OldData == [by |-> {}, data |-> Spoilt]

Init ==
    /\ connData = [s \in Slots |-> FreeSlot]
    /\ files = [h \in Handles |-> Closed]
    /\ flash = [a \in 0 .. FwSize - 1 |-> OldData]
    /\ call = NoCall
    /\ state = [c \in Conns |-> "none"]
    /\ req \in Scenarios
    /\ received = [c \in Conns |-> 0]
    /\ reply = [c \in Conns |-> <<>>]
    /\ pending = [c \in Conns |-> 0]

-----------------------------------------------------------------------------
(* What a CGI function works on: its connection, the files, the flash, the *)
(* send buffer, and what it has given to espconn_sent() itself.            *)

World(d) == [d |-> d, files |-> files, flash |-> flash, buff |-> <<>>,
             out |-> <<>>, sends |-> 0, r |-> "MORE"]

\* What does not fit into the send buffer is dropped.
Added(buff, data) ==
    IF Len(buff) + Len(data) > SendBuffLen THEN buff ELSE buff \o data

httpdSend(w, data) == [w EXCEPT !.buff = Added(@, data)]

espconn_sent(w, data) ==
    [w EXCEPT !.out = @ \o data, !.sends = @ + 1]

httpdFlushSendBuffer(w) ==
    IF w.buff = <<>> THEN w
    ELSE [espconn_sent(w, w.buff) EXCEPT !.buff = <<>>]

Return(w, r) == [w EXCEPT !.r = r]

\* A CGI function that sends one answer and is done.
OneShot(w, code) ==
    IF w.d.conn = NULL THEN Return(w, "DONE")
    ELSE Return(httpdSend(w, <<code>>), "DONE")

authBasic(w) ==
    CASE w.d.conn = NULL -> Return(w, "DONE")
      [] w.d.conn # NULL /\ req[w.d.conn].auth -> Return(w, "AUTHENTICATED")
      [] OTHER -> Return(httpdSend(w, <<401>>), "DONE")

-----------------------------------------------------------------------------
(* Files                                                                   *)

FreeHandles(w) == {h \in Handles : w.files[h].owner = NULL}
CanOpen(w) == w.d.url \in DOMAIN File /\ FreeHandles(w) # {}
NewHandle(w) == CHOOSE h \in FreeHandles(w) : \A g \in FreeHandles(w) : h <= g

\* The file is opened once more for every block of a long POST.
espFsOpen(w) ==
    [w EXCEPT !.d.cgiData = NewHandle(w),
              !.files[NewHandle(w)] =
                 [owner |-> w.d.conn, url |-> w.d.url, pos |-> 0, token |-> NULL,
                  streamed |-> w.d.len > MaxPost]]

espFsClose(w) ==
    IF w.d.cgiData = NULL THEN w ELSE [w EXCEPT !.files[w.d.cgiData] = Closed]

\* Mutant: the length of the file is not looked at.
BlockUncapped(f) == [i \in 1 .. MaxPost |-> f.pos + i]

\* The units the next read returns, as positions.
Block(f) == [i \in 1 .. MinNat(MaxPost, Len(File[f.url]) - f.pos) |-> f.pos + i]

\* Without an Accept-Encoding header acceptEncodingBuffer keeps what was on
\* the stack, which may look like gzip or not.
AcceptsGzip(w, stale) == LET e == req[w.d.conn].gzip
                         IN  e = "gzip" \/ (e = "none" /\ stale)

HookOpen(w, stale) ==
    CASE ~CanOpen(w) -> Return(w, "NOTFOUND")
      [] CanOpen(w) /\ w.d.url \in Gzip /\ ~AcceptsGzip(w, stale) ->
            Return(httpdSend(w, <<501>>), "DONE")
      [] OTHER -> Return(httpdSend(espFsOpen(w), <<200>>), "MORE")

\* Mutant: the end of the file is when nothing is left to read.
HookReadToEnd(w) ==
    LET block == Block(w.files[w.d.cgiData])
        read == [w EXCEPT !.files[w.d.cgiData].pos = @ + Len(block)]
    IN  IF block = <<>> THEN Return(espFsClose(read), "DONE")
        ELSE Return(espconn_sent(read, block), "MORE")

HookRead(w) ==
    LET block == Block(w.files[w.d.cgiData])
        read == [w EXCEPT !.files[w.d.cgiData].pos = @ + Len(block)]
        sent == IF block = <<>> THEN read ELSE espconn_sent(read, block)
    IN  IF Len(block) # MaxPost THEN Return(espFsClose(sent), "DONE")
        ELSE Return(sent, "MORE")

\* Mutant: an aborted connection is not cleaned up.
cgiEspFsHookNoAbort(w, stale) ==
    CASE w.d.conn = NULL -> Return(w, "DONE")
      [] w.d.conn # NULL /\ w.d.cgiData = NULL -> HookOpen(w, stale)
      [] OTHER -> HookRead(w)

cgiEspFsHook(w, stale) ==
    CASE w.d.conn = NULL -> Return(espFsClose(w), "DONE")
      [] w.d.conn # NULL /\ w.d.cgiData = NULL -> HookOpen(w, stale)
      [] OTHER -> HookRead(w)

\* A token is sent as the negated positions of its characters.
Expand(token) == [i \in DOMAIN token |-> -token[i]]

\* One unit of a template: t is the token being collected, NULL outside.
\* Text is sent when it ends: e holds what has come since.
TemplateUnit(x, a, p) ==
    LET t == a.t
    IN  CASE t = NULL /\ x # "%" -> [a EXCEPT !.e = Append(@, p)]
          [] t = NULL /\ x = "%" ->
                [a EXCEPT !.buff = Added(@, a.e), !.e = <<>>, !.t = <<>>]
          [] t = <<>> /\ x = "%" -> [a EXCEPT !.buff = Added(@, <<p>>), !.t = NULL]
          [] t \notin {NULL, <<>>} /\ x = "%" ->
                [a EXCEPT !.buff = Added(@, Expand(t)), !.t = NULL]
          [] OTHER -> IF Len(t) < TokenMax - 1 THEN [a EXCEPT !.t = Append(@, p)] ELSE a

TemplateBlock(f, block, buff, token) ==
    LET after[i \in 0 .. Len(block)] ==
            IF i = 0 THEN [buff |-> buff, e |-> <<>>, t |-> token]
            ELSE TemplateUnit(File[f.url][block[i]], after[i - 1], block[i])
    IN  after[Len(block)]

\* Mutant: a token does not reach into the next block.
ParsedAfresh(f, block, buff) == TemplateBlock(f, block, buff, NULL)

Parsed(f, block, buff) == TemplateBlock(f, block, buff, f.token)

TemplateRead(w) ==
    LET f == w.files[w.d.cgiData]
        block == Block(f)
        a == Parsed(f, block, w.buff)
        sent == [w EXCEPT !.buff = Added(a.buff, a.e),
                          !.files[w.d.cgiData].pos = @ + Len(block),
                          !.files[w.d.cgiData].token = a.t]
    IN  IF Len(block) # MaxPost THEN Return(espFsClose(sent), "DONE")
        ELSE Return(sent, "MORE")

cgiEspFsTemplate(w) ==
    CASE w.d.conn = NULL -> Return(espFsClose(w), "DONE")
      [] w.d.conn # NULL /\ w.d.cgiData = NULL ->
            IF ~CanOpen(w) \/ w.d.url \in Gzip THEN Return(w, "NOTFOUND")
            ELSE Return(httpdSend(espFsOpen(w), <<200>>), "MORE")
      [] OTHER -> TemplateRead(w)

-----------------------------------------------------------------------------
(* The flash                                                               *)

\* cgiData counts what has been read; the answer is a head and the flash.
cgiReadFlash(w) ==
    LET pos == w.d.cgiData
    IN  CASE w.d.conn = NULL -> Return(w, "DONE")
          [] w.d.conn # NULL /\ pos = NULL ->
                Return(httpdSend([w EXCEPT !.d.cgiData = 0], <<200>>), "MORE")
          [] OTHER -> Return([espconn_sent(w, [i \in 1 .. MaxPost |-> pos + i])
                                EXCEPT !.d.cgiData = pos + MaxPost],
                             IF pos + MaxPost >= ReadLen THEN "DONE" ELSE "MORE")

Offset(d) == d.received - d.buffLen

\* The checks of an upload: the size, the magic of the first block, whole
\* blocks before this one.
UploadError(d) ==
    CASE d.len > FwSize -> 400
      [] d.len <= FwSize /\ Offset(d) = 0 /\ ~req[d.conn].image -> 400
      [] d.len <= FwSize /\ Offset(d) % MaxPost # 0 -> 500
      [] OTHER -> NULL

\* Mutant: the sector is erased behind the block.
FlashWriteLate(d, fl) ==
    LET from == Offset(d)
        end == from + d.buffLen
        sector == IF end % SecSize = 0 THEN end .. end + SecSize - 1 ELSE {}
    IN  [a \in DOMAIN fl |->
            CASE a \in from .. end - 1 ->
                    [by |-> {d.conn} \cup fl[a].by,
                     data |-> IF fl[a].data = Blank THEN a ELSE Spoilt]
              [] a \in sector -> Erased({d.conn})
              [] OTHER -> fl[a]]

\* Writing only clears bits: what was not erased is spoilt.
FlashWrite(d, fl) ==
    LET from == Offset(d)
        sector == IF from % SecSize = 0 THEN from .. from + SecSize - 1 ELSE {}
        written == from .. from + d.buffLen - 1
    IN  [a \in DOMAIN fl |->
            CASE a \in written ->
                    [by |-> {d.conn} \cup IF a \in sector THEN {} ELSE fl[a].by,
                     data |-> IF a \in sector \/ fl[a].data = Blank THEN a ELSE Spoilt]
              [] a \in sector \ written -> Erased({d.conn})
              [] OTHER -> fl[a]]

cgiUploadFirmware(w0) ==
    LET w == IF Offset(w0.d) = 0 THEN [w0 EXCEPT !.d.cgiPrivData = FALSE] ELSE w0
        error == UploadError(w.d)
    IN  CASE w.d.conn = NULL -> Return(w0, "DONE")
          [] w.d.conn # NULL /\ w.d.cgiPrivData -> Return(w, "DONE")
          [] w.d.conn # NULL /\ ~w.d.cgiPrivData /\ error # NULL ->
                Return(httpdSend([w EXCEPT !.d.cgiPrivData = TRUE], <<error>>), "DONE")
          [] OTHER ->
                LET written == [w EXCEPT !.flash = FlashWrite(w.d, @)]
                IN  IF w.d.received = w.d.len
                    THEN Return(httpdSend(written, <<200>>), "DONE")
                    ELSE Return(written, "MORE")

-----------------------------------------------------------------------------
(* The server                                                              *)

Cgi(w, stale) ==
    CASE w.d.cgi = "cgiRedirect" -> OneShot(w, 302)
      [] w.d.cgi = "cmd" -> OneShot(w, CommandReply)
      [] w.d.cgi = "authBasic" -> authBasic(w)
      [] w.d.cgi = "cgiEspFsHook" -> cgiEspFsHook(w, stale)
      [] w.d.cgi = "cgiEspFsTemplate" -> cgiEspFsTemplate(w)
      [] w.d.cgi = "cgiReadFlash" -> cgiReadFlash(w)
      [] w.d.cgi = "cgiUploadFirmware" -> cgiUploadFirmware(w)

httpdRetireConn(d) == [d EXCEPT !.cgi = NULL, !.conn = NULL]

httpdFindConnData(c) == {s \in Slots : connData[s].conn = c}

\* What a callback leaves behind, for the slot and the client.
Finish(s, w) ==
    LET c == connData[s].conn
    IN  /\ connData' = [connData EXCEPT ![s] = w.d]
        /\ files' = w.files
        /\ flash' = w.flash
        /\ reply' = [reply EXCEPT ![c] = @ \o w.out]

\* Mutant: a slot is free when its CGI function has finished.
UnusedByCgi == {s \in Slots : connData[s].cgi = NULL}

Unused == {s \in Slots : connData[s].conn = NULL}

httpdConnectCb(c) ==
    /\ call = NoCall /\ state[c] = "none" /\ req[c] # NULL
    /\ \/ /\ Unused = {}
          /\ state' = [state EXCEPT ![c] = "refused"]
          /\ UNCHANGED connData
       \/ /\ Unused # {}
          /\ LET s == CHOOSE i \in Unused : \A j \in Unused : i <= j
             IN  connData' = [connData EXCEPT ![s].conn = c, ![s].len = -1,
                                              ![s].received = 0, ![s].buffLen = 0]
          /\ state' = [state EXCEPT ![c] = "open"]
    /\ UNCHANGED <<files, flash, call, req, received, reply, pending>>

Length(q) == q.head + q.len

Recv(s, left) == IF left = 0 THEN NoCall ELSE [cb |-> "recv", slot |-> s, left |-> left]

\* n units arrive.
httpdRecvCb(c, n) ==
    /\ call = NoCall /\ state[c] \in {"open", "finished"}
    /\ received[c] + n <= Length(req[c])
    /\ received' = [received EXCEPT ![c] = @ + n]
    /\ \/ /\ httpdFindConnData(c) = {} /\ UNCHANGED call
       \/ \E s \in httpdFindConnData(c) : call' = Recv(s, n)
    /\ UNCHANGED <<connData, files, flash, state, req, reply, pending>>

\* One round of the loop over the received units.
InRecv == call.cb = "recv"
RecvNext == call' = Recv(call.slot, call.left - 1)
D == connData[call.slot]

\* The last unit of the head, unless the buffer was full before it.
HeadComplete == LET at == received[D.conn] - call.left + 1
                IN  at = req[D.conn].head /\ at <= MaxHead

HeadByte ==
    /\ InRecv /\ D.len < 0 /\ ~HeadComplete
    /\ RecvNext
    /\ UNCHANGED <<connData, files, flash, net>>

Process == call' = [cb |-> "process", slot |-> call.slot, left |-> call.left - 1, i |-> 1]

\* The whole head has arrived: the request line and Content-Length.
HeadEnd ==
    /\ InRecv /\ D.len < 0 /\ HeadComplete
    /\ connData' = [connData EXCEPT ![call.slot].url = req[D.conn].url,
                                    ![call.slot].len = req[D.conn].len]
    /\ IF req[D.conn].len = 0 THEN Process ELSE RecvNext
    /\ UNCHANGED <<files, flash, net>>

BuffSize == MinNat(D.len, MaxPost)

PostByte ==
    /\ InRecv /\ D.len > 0
    /\ connData' = [connData EXCEPT ![call.slot].buffLen = @ + 1,
                                    ![call.slot].received = @ + 1]
    /\ IF D.buffLen + 1 >= BuffSize \/ D.received + 1 = D.len THEN Process ELSE RecvNext
    /\ UNCHANGED <<files, flash, net>>

\* httpdProcessRequest: one entry of the table after the other is asked
\* until one does not pass.  Then the loop over the units goes on.
InProcess == call.cb = "process"
ProcessReturn(w) ==
    /\ Finish(call.slot, [w EXCEPT !.d.buffLen = 0])
    /\ pending' = [pending EXCEPT ![D.conn] = @ + w.sends]
    /\ call' = Recv(call.slot, call.left)

Matching == {i \in call.i .. Len(BuiltInUrls) : D.url \in BuiltInUrls[i].urls}
Entry == CHOOSE i \in Matching : \A j \in Matching : i <= j
Asked == [D EXCEPT !.cgi = BuiltInUrls[Entry].cgi, !.cgiData = NULL]

NoUrl ==
    /\ InProcess /\ D.url = NULL
    /\ ProcessReturn(World(D))
    /\ UNCHANGED <<state, req, received>>

NotFound ==
    /\ InProcess /\ D.url # NULL /\ Matching = {}
    /\ ProcessReturn(httpdFlushSendBuffer(httpdSend(World([D EXCEPT !.cgi = NULL]), <<404>>)))
    /\ UNCHANGED <<state, req, received>>

AskCgi ==
    /\ InProcess /\ D.url # NULL /\ Matching # {}
    /\ \E stale \in BOOLEAN : \E v \in {Cgi(World(Asked), stale)} :
       \E w \in {httpdFlushSendBuffer(v)} :
          \/ /\ w.r \in {"NOTFOUND", "AUTHENTICATED"}
             /\ connData' = [connData EXCEPT ![call.slot] = w.d]
             /\ call' = [call EXCEPT !.i = Entry + 1]
             /\ UNCHANGED <<files, flash, reply, pending>>
          \/ w.r = "MORE" /\ ProcessReturn(w)
          \/ w.r = "DONE" /\ ProcessReturn([w EXCEPT !.d.cgi = NULL])
    /\ UNCHANGED <<state, req, received>>

\* What has been sent is out: the CGI function goes on, or the connection
\* is closed if it has finished.
Close(s) ==
    /\ connData[s].cgi = NULL
    /\ connData' = [connData EXCEPT ![s] = httpdRetireConn(@)]
    /\ state' = [state EXCEPT ![connData[s].conn] = "finished"]
    /\ UNCHANGED <<files, flash, reply>>

SentNext(s, w) ==
    /\ Finish(s, IF w.r = "MORE" THEN w ELSE [w EXCEPT !.d.cgi = NULL])
    /\ UNCHANGED state

httpdSentCb(c) ==
    /\ call = NoCall /\ state[c] \in {"open", "finished"} /\ pending[c] > 0
    /\ \/ /\ httpdFindConnData(c) = {}
          /\ pending' = [pending EXCEPT ![c] = @ - 1]
          /\ UNCHANGED <<connData, files, flash, state, reply>>
       \/ \E s \in httpdFindConnData(c) :
             \/ /\ Close(s)
                /\ pending' = [pending EXCEPT ![c] = @ - 1]
             \/ /\ connData[s].cgi # NULL
                /\ \E v \in {Cgi(World(connData[s]), FALSE)} :
                   \E w \in {httpdFlushSendBuffer(v)} :
                      /\ SentNext(s, w)
                      /\ pending' = [pending EXCEPT ![c] = @ - 1 + w.sends]
    /\ UNCHANGED <<call, req, received>>

\* The callback names no connection: every slot is looked at.
httpdDisconCb(c) ==
    /\ call = NoCall /\ state[c] \in {"finished", "left"}
    /\ call' = [cb |-> "discon", slot |-> 0]
    /\ state' = [state EXCEPT ![c] = "gone"]
    /\ UNCHANGED <<connData, files, flash, req, received, reply, pending>>

InDiscon == call.cb = "discon"
\* espconn->state is ESPCONN_NONE or ESPCONN_CLOSE.
Dead(d) == d.conn # NULL /\ state[d.conn] # "open"

\* Mutant: the first slot found is taken to be the one.
DisconFirst == call' = IF call.slot = MaxConn - 1 \/ Dead(D) THEN NoCall
                       ELSE [call EXCEPT !.slot = @ + 1]

DisconNext == call' = IF call.slot = MaxConn - 1 THEN NoCall
                      ELSE [call EXCEPT !.slot = @ + 1]

DisconSkip ==
    /\ InDiscon
    /\ ~Dead(D)
    /\ DisconNext
    /\ UNCHANGED <<connData, files, flash, net>>

DisconSlot ==
    /\ InDiscon
    /\ Dead(D)
    /\ LET gone == World([D EXCEPT !.conn = NULL])
       IN  \E w \in {IF D.cgi = NULL THEN gone ELSE Cgi(gone, FALSE)} :
             /\ connData' = [connData EXCEPT ![call.slot] = httpdRetireConn(w.d)]
             /\ files' = w.files
             /\ flash' = w.flash
    /\ DisconNext
    /\ UNCHANGED net

\* A client may go away at any time.  After a reset the stack calls
\* httpdReconCb, which does nothing, and no httpdDisconCb.
Leave(c) ==
    /\ call = NoCall /\ state[c] = "open"
    /\ \E to \in {"left", "reset"} : state' = [state EXCEPT ![c] = to]
    /\ UNCHANGED <<connData, files, flash, call, req, received, reply, pending>>

Server == HeadByte \/ HeadEnd \/ PostByte \/ NoUrl \/ NotFound \/ AskCgi
            \/ DisconSkip \/ DisconSlot

Stack(c) ==
    \/ httpdConnectCb(c)
    \/ \E n \in 1 .. MaxSegment : httpdRecvCb(c, n)
    \/ httpdSentCb(c)
    \/ httpdDisconCb(c)
    \/ Leave(c)

Next == Server \/ \E c \in Conns : Stack(c)

\* Callbacks return, and as long as some are due the stack delivers one.
\* Nothing is assumed of the clients, nor of the order.
Serve == Server \/ \E c \in Conns : httpdSentCb(c) \/ httpdDisconCb(c)
Fairness == WF_vars(Serve)

Spec == Init /\ [][Next]_vars /\ Fairness

-----------------------------------------------------------------------------
(* Properties                                                              *)

SlotType ==
    [conn : Conns \cup {NULL}, url : Urls \cup {NULL}, cgi : Cgis \cup {NULL},
     cgiData : Nat \cup {NULL}, cgiPrivData : BOOLEAN,
     len : Nat \cup {-1}, received : Nat, buffLen : Nat]

TypeOK ==
    /\ connData \in [Slots -> SlotType]
    /\ \A h \in Handles : files[h].owner # NULL =>
          /\ files[h].owner \in Conns /\ files[h].url \in DOMAIN File
          /\ files[h].pos \in 0 .. Len(File[files[h].url])
    /\ call = NoCall \/ call.slot \in Slots
    /\ \A c \in Conns :
          /\ state[c] \in {"none", "open", "finished", "left", "reset", "refused", "gone"}
          /\ received[c] \in Nat /\ pending[c] \in Nat

\* No two slots serve one connection, and an open connection has its slot:
\* httpdFindConnData finds what httpdConnectCb stored, whatever was closed,
\* refused or reused in between (core/httpd.c:77, 573).
SlotPerConn ==
    \A c \in Conns :
        /\ \A s, t \in httpdFindConnData(c) : s = t
        /\ state[c] = "open" => httpdFindConnData(c) # {}

FileCgis == {"cgiEspFsHook", "cgiEspFsTemplate"}
Serving(s, h) == connData[s].cgi \in FileCgis /\ connData[s].cgiData = h

\* A CGI function that is called again works on a file that is open and
\* was opened for this very connection, although cgiData is not cleared
\* when a slot is given to the next one; and an open file is in the hands
\* of exactly one connection, which will close it.  The exception are files
\* opened for POST data longer than the buffer, for which the table is
\* searched with every block (core/httpd.c:365, 577, core/httpdespfs.c:45).
FilesOwned ==
    /\ \A s \in Slots : \A h \in Handles :
          Serving(s, h) => files[h].owner = connData[s].conn /\ files[h].owner # NULL
    /\ \A h \in Handles : files[h].owner # NULL /\ ~files[h].streamed =>
          \E s \in Slots : Serving(s, h) /\ \A t \in Slots : Serving(t, h) => t = s

\* What a request should be answered with.  A token is open behind unit i
\* of a template if the number of % up to there is odd.
Percents(url, i) == {p \in 1 .. i : File[url][p] = "%"}
InToken(url, i) == Cardinality(Percents(url, i)) % 2 = 1
LastMark(url, i) == CHOOSE p \in Percents(url, i) : \A r \in Percents(url, i) : r <= p

TemplateOut(url, p) ==
    LET x == File[url][p]
        from == LastMark(url, p - 1)
        name == [i \in 1 .. MinNat(TokenMax - 1, p - 1 - from) |-> from + i]
    IN  CASE ~InToken(url, p - 1) /\ x # "%" -> <<p>>
          [] InToken(url, p - 1) /\ x = "%" -> IF from = p - 1 THEN <<p>> ELSE Expand(name)
          [] OTHER -> <<>>

TemplateText(url, from, to) ==
    LET text[i \in from .. to] ==
            IF i = from THEN <<>> ELSE text[i - 1] \o TemplateOut(url, i)
    IN  text[to]

Positions(n) == [i \in 1 .. n |-> i]

Passes(i, q) ==
    \/ BuiltInUrls[i].cgi = "authBasic" /\ q.auth
    \/ BuiltInUrls[i].cgi \in FileCgis /\ q.url \notin DOMAIN File
    \/ BuiltInUrls[i].cgi = "cgiEspFsTemplate" /\ q.url \in Gzip

Taking(q) == {i \in DOMAIN BuiltInUrls : q.url \in BuiltInUrls[i].urls /\ ~Passes(i, q)}
AllRequests == (UNION {{i[c] : c \in Conns} : i \in Scenarios}) \ {NULL}
Handler == [q \in AllRequests |->
    IF Taking(q) = {} THEN "none"
    ELSE BuiltInUrls[CHOOSE i \in Taking(q) : \A j \in Taking(q) : i <= j].cgi]

FileAnswers(q) ==
    LET whole == <<200>> \o Positions(Len(File[q.url]))
    IN  CASE q.url \notin Gzip \/ q.gzip = "gzip" -> {whole}
          [] q.url \in Gzip /\ q.gzip = "other" -> {<<501>>}
          [] OTHER -> {<<501>>, whole}

Answers == [q \in AllRequests |->
    CASE Handler[q] = "none" -> {<<404>>}
      [] Handler[q] = "cgiRedirect" -> {<<302>>}
      [] Handler[q] = "cmd" -> {<<CommandReply>>}
      [] Handler[q] = "authBasic" -> {<<401>>}
      [] Handler[q] = "cgiEspFsHook" -> FileAnswers(q)
      [] Handler[q] = "cgiEspFsTemplate" ->
            {<<200>> \o TemplateText(q.url, 0, Len(File[q.url]))}
      [] Handler[q] = "cgiReadFlash" -> {<<200>> \o Positions(ReadLen)}
      [] Handler[q] = "cgiUploadFirmware" ->
            IF q.image /\ q.len <= FwSize THEN {<<200>>} ELSE {<<400>>}]

\* A long POST to anything but the upload asks the table with every block.
Streamed(q) == q.len > MaxPost /\ Handler[q] # "cgiUploadFirmware"

\* httpdSend drops what does not fit: a block of a template must.
Blocks(url) == 0 .. Len(File[url]) \div MaxPost
BlockText(url, b) ==
    TemplateText(url, b * MaxPost, MinNat((b + 1) * MaxPost, Len(File[url])))
Fits == {q \in AllRequests : Handler[q] = "cgiEspFsTemplate" =>
            \A b \in Blocks(q.url) : Len(BlockText(q.url, b)) <= SendBuffLen}

\* A client receives the answer to its own request, never anything out of
\* place, and all of it if the server closes the connection: whatever runs
\* at the same time, however the request is cut into segments and wherever
\* a block ends in a template (core/httpd.c:305-376, core/httpdespfs.c:35).
RepliesRight ==
    \A c \in Conns : state[c] # "none" /\ ~Streamed(req[c]) /\ req[c] \in Fits =>
        \E a \in Answers[req[c]] :
            IsPrefix(reply[c], a) /\ (state[c] = "finished" => reply[c] = a)

\* An upload that was answered with 200 is in the flash, unit by unit; only
\* another upload may have come in between (util/cgiflash.c:94-163).
UploadIntact ==
    \A c \in Conns :
        reply[c] = <<200>> /\ Handler[req[c]] = "cgiUploadFirmware" =>
            \A a \in 0 .. req[c].len - 1 :
                \/ flash[a] = [by |-> {c}, data |-> a]
                \/ flash[a].by \ {c} # {}

\* Whether the last call of the CGI function sends something.  If it does
\* not, there is no sent callback to close the connection.
LastSends == [q \in AllRequests |->
    CASE Handler[q] = "cgiEspFsHook" /\ FileAnswers(q) # {<<501>>} ->
            Len(File[q.url]) % MaxPost # 0
      [] Handler[q] = "cgiEspFsTemplate" ->
            BlockText(q.url, Len(File[q.url]) \div MaxPost) # <<>>
      [] OTHER -> TRUE]

Answerable(q) == q.url # NULL /\ q.head <= MaxHead /\ ~Streamed(q)
Asking(c) == state[c] = "open" /\ received[c] = Length(req[c]) /\ Answerable(req[c])

\* A request that has arrived is answered and the connection closed by the
\* server, with files only if their last block is not full.
ServerFinishes ==
    \A c \in Conns : (Asking(c) /\ LastSends[req[c]]) ~> state[c] # "open"

\* The same without that condition, as core/httpd.c:343-345 has it: "find
\* the next cgi function, wait till the cgi data is sent or close up the
\* connection".
AlwaysFinishes == \A c \in Conns : Asking(c) ~> state[c] # "open"

\* A slot whose connection has gone is free after the next disconnect
\* callback, whichever connection that is for; a reset needs one, because
\* httpdReconCb frees nothing (core/httpd.c:536-564).
SlotsFreed ==
    \A c \in Conns :
        (/\ httpdFindConnData(c) # {} /\ state[c] # "open"
         /\ \E o \in Conns : state[o] \in {"finished", "left"})
            ~> httpdFindConnData(c) = {}
=============================================================================
