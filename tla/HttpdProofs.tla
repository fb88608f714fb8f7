---------------------------- MODULE HttpdProofs ----------------------------
(***************************************************************************)
(* Theorems about the slots, files and uploads of Httpd, for any number of *)
(* connections and slots, every table of URLs, set of files and buffer     *)
(* size: each open connection has its slot, and no two slots serve one     *)
(* connection; what is in a slot has its type, and every open file is in   *)
(* the hands of one connection; what an upload sent is in the flash once   *)
(* it was answered with 200.                                               *)
(***************************************************************************)
EXTENDS Httpd, WellFoundedInduction, SequenceTheorems, TLAPS

WorldFields == {"d", "files", "flash", "buff", "out", "sends", "r"}
SlotFields == {"conn", "url", "cgi", "cgiData", "cgiPrivData", "len", "received",
               "buffLen"}

\* Only the fields matter here, not what they hold.
Shape(w) == DOMAIN w = WorldFields /\ DOMAIN w.d = SlotFields

\* A CGI function leaves the connection and itself in their slot.
Keeps(v, w) == Shape(w) /\ w.d.conn = v.d.conn /\ w.d.cgi = v.d.cgi

-----------------------------------------------------------------------------
(* What CGI functions do with a slot *)

\* Keeping a slot is transitive.
LEMMA KeepsAll ==
    ASSUME NEW u, NEW v, NEW w, Keeps(u, v), Keeps(v, w)
    PROVE  Keeps(u, w)
  BY DEF Keeps

\* The calls a CGI function makes: each of them keeps the slot.
LEMMA KeepsReturn ==
    ASSUME NEW w, Shape(w), NEW r
    PROVE  Keeps(w, Return(w, r))
  BY DEF Keeps, Shape, Return, WorldFields, SlotFields

\* httpdSend only adds to the send buffer.
LEMMA KeepsSend ==
    ASSUME NEW w, Shape(w), NEW data
    PROVE  Keeps(w, httpdSend(w, data))
  BY DEF Keeps, Shape, httpdSend, WorldFields, SlotFields

\* espconn_sent hands data to the stack.
LEMMA KeepsSent ==
    ASSUME NEW w, Shape(w), NEW data
    PROVE  Keeps(w, espconn_sent(w, data))
  BY DEF Keeps, Shape, espconn_sent, WorldFields, SlotFields

\* httpdFlushSendBuffer sends or leaves the buffer alone.
LEMMA KeepsFlush ==
    ASSUME NEW w, Shape(w)
    PROVE  Keeps(w, httpdFlushSendBuffer(w))
  <1>1. Keeps(w, espconn_sent(w, w.buff)) /\ Shape(espconn_sent(w, w.buff))
    BY KeepsSent DEF Keeps
  <1> DEFINE v == espconn_sent(w, w.buff)
  <1> HIDE DEF v
  <1>2. Keeps(v, [v EXCEPT !.buff = <<>>])
    BY <1>1 DEF Keeps, Shape, WorldFields, SlotFields, v
  <1>3. Keeps(w, [v EXCEPT !.buff = <<>>])
    BY <1>1, <1>2, KeepsAll DEF v
  <1>4. Keeps(w, w)
    BY DEF Keeps
  <1> QED BY <1>3, <1>4 DEF httpdFlushSendBuffer, v

\* Sending and then returning a result.
LEMMA KeepsSendReturn ==
    ASSUME NEW w, Shape(w), NEW data, NEW r
    PROVE  Keeps(w, Return(httpdSend(w, data), r))
  <1>1. Keeps(w, httpdSend(w, data)) /\ Shape(httpdSend(w, data))
    BY KeepsSend DEF Keeps
  <1>2. Keeps(httpdSend(w, data), Return(httpdSend(w, data), r))
    BY <1>1, KeepsReturn
  <1> QED BY <1>1, <1>2, KeepsAll

\* espFsOpen opens a file.
LEMMA KeepsOpen ==
    ASSUME NEW w, Shape(w)
    PROVE  Keeps(w, espFsOpen(w))
  BY DEF Keeps, Shape, espFsOpen, WorldFields, SlotFields

\* espFsClose closes one.
LEMMA KeepsClose ==
    ASSUME NEW w, Shape(w)
    PROVE  Keeps(w, espFsClose(w))
  BY DEF Keeps, Shape, espFsClose, WorldFields, SlotFields

\* Closing and then returning a result.
LEMMA KeepsCloseReturn ==
    ASSUME NEW w, Shape(w), NEW r
    PROVE  Keeps(w, Return(espFsClose(w), r))
  <1>1. Keeps(w, espFsClose(w)) /\ Shape(espFsClose(w))
    BY KeepsClose DEF Keeps
  <1>2. Keeps(espFsClose(w), Return(espFsClose(w), r))
    BY <1>1, KeepsReturn
  <1> QED BY <1>1, <1>2, KeepsAll

\* Opening and then returning a result.
LEMMA KeepsOpenReturn ==
    ASSUME NEW w, Shape(w), NEW data, NEW r
    PROVE  Keeps(w, Return(httpdSend(espFsOpen(w), data), r))
  <1>1. Keeps(w, espFsOpen(w)) /\ Shape(espFsOpen(w))
    BY KeepsOpen DEF Keeps
  <1>2. Keeps(espFsOpen(w), Return(httpdSend(espFsOpen(w), data), r))
    BY <1>1, KeepsSendReturn
  <1> QED BY <1>1, <1>2, KeepsAll

\* The CGI functions themselves.
LEMMA KeepsHook ==
    ASSUME NEW w, Shape(w), NEW stale
    PROVE  Keeps(w, cgiEspFsHook(w, stale))
  <1>1. Keeps(w, HookOpen(w, stale))
    BY KeepsReturn, KeepsSendReturn, KeepsOpenReturn, SMTT(20) DEF HookOpen
  <1>2. Keeps(w, HookRead(w))
    <2> DEFINE block == Block(w.files[w.d.cgiData])
               read == [w EXCEPT !.files[w.d.cgiData].pos = @ + Len(block)]
               sent == IF block = <<>> THEN read ELSE espconn_sent(read, block)
    <2>1. Keeps(w, read) /\ Shape(read)
      BY DEF Keeps, Shape, WorldFields, SlotFields
    <2>2. Keeps(w, sent) /\ Shape(sent)
      <3> HIDE DEF read, block
      <3>1. Keeps(read, espconn_sent(read, block))
        BY <2>1, KeepsSent
      <3> QED BY <2>1, <3>1, KeepsAll DEF Keeps
    <2>3. Keeps(w, Return(espFsClose(sent), "DONE")) /\ Keeps(w, Return(sent, "MORE"))
      <3> HIDE DEF sent
      <3>1. /\ Keeps(sent, Return(espFsClose(sent), "DONE"))
            /\ Keeps(sent, Return(sent, "MORE"))
        BY <2>2, KeepsReturn, KeepsCloseReturn
      <3> QED BY <2>2, <3>1, KeepsAll
    <2> QED BY <2>3 DEF HookRead
  <1> QED BY <1>1, <1>2, KeepsCloseReturn DEF cgiEspFsHook

\* cgiEspFsTemplate keeps the slot.
LEMMA KeepsTemplate ==
    ASSUME NEW w, Shape(w)
    PROVE  Keeps(w, cgiEspFsTemplate(w))
  <1>1. Keeps(w, TemplateRead(w))
    <2> DEFINE f == w.files[w.d.cgiData]
               block == Block(f)
               a == Parsed(f, block, w.buff)
               sent == [w EXCEPT !.buff = Added(a.buff, a.e),
                                 !.files[w.d.cgiData].pos = @ + Len(block),
                                 !.files[w.d.cgiData].token = a.t]
    <2> HIDE DEF a, block
    <2>1. Keeps(w, sent) /\ Shape(sent)
      BY DEF Keeps, Shape, WorldFields, SlotFields
    <2>2. Keeps(w, Return(espFsClose(sent), "DONE")) /\ Keeps(w, Return(sent, "MORE"))
      <3> HIDE DEF sent
      <3>1. /\ Keeps(sent, Return(espFsClose(sent), "DONE"))
            /\ Keeps(sent, Return(sent, "MORE"))
        BY <2>1, KeepsReturn, KeepsCloseReturn
      <3> QED BY <2>1, <3>1, KeepsAll
    <2> QED BY <2>2, Zenon DEF TemplateRead, a, block
  <1> QED
    <2>1. \A r : Keeps(w, Return(w, r)) /\ Keeps(w, Return(espFsClose(w), r))
      BY KeepsReturn, KeepsCloseReturn
    <2>2. \A data, r : Keeps(w, Return(httpdSend(espFsOpen(w), data), r))
      BY KeepsOpenReturn
    <2> QED BY <1>1, <2>1, <2>2, Zenon DEF cgiEspFsTemplate

\* cgiReadFlash keeps the slot.
LEMMA KeepsFlash ==
    ASSUME NEW w, Shape(w)
    PROVE  Keeps(w, cgiReadFlash(w))
  <1>1. CASE w.d.conn = NULL
    BY <1>1, KeepsReturn DEF cgiReadFlash
  <1>2. CASE w.d.conn # NULL /\ w.d.cgiData = NULL
    <2> DEFINE v == [w EXCEPT !.d.cgiData = 0]
    <2>1. Keeps(w, v) /\ Shape(v)
      BY DEF Keeps, Shape, WorldFields, SlotFields
    <2> HIDE DEF v
    <2>2. Keeps(w, Return(httpdSend(v, <<200>>), "MORE"))
      BY <2>1, KeepsSendReturn, KeepsAll
    <2> QED BY <1>2, <2>2 DEF cgiReadFlash, v
  <1>3. CASE w.d.conn # NULL /\ w.d.cgiData # NULL
    <2> DEFINE u == espconn_sent(w, [i \in 1 .. MaxPost |-> w.d.cgiData + i])
               v == [u EXCEPT !.d.cgiData = w.d.cgiData + MaxPost]
               r == IF w.d.cgiData + MaxPost >= ReadLen THEN "DONE" ELSE "MORE"
    <2>1. Keeps(w, u) /\ Shape(u)
      BY KeepsSent DEF Keeps
    <2> HIDE DEF u
    <2>2. Keeps(u, v) /\ Shape(v)
      BY <2>1 DEF Keeps, Shape, WorldFields, SlotFields
    <2> HIDE DEF v, r
    <2>3. Keeps(w, Return(v, r))
      BY <2>1, <2>2, KeepsReturn, KeepsAll
    <2> QED BY <1>3, <2>3 DEF cgiReadFlash, u, v, r
  <1> QED BY <1>1, <1>2, <1>3

\* cgiUploadFirmware keeps the slot.
LEMMA KeepsUpload ==
    ASSUME NEW w0, Shape(w0)
    PROVE  Keeps(w0, cgiUploadFirmware(w0))
  <1> DEFINE w == IF Offset(w0.d) = 0 THEN [w0 EXCEPT !.d.cgiPrivData = FALSE] ELSE w0
             refused == [w EXCEPT !.d.cgiPrivData = TRUE]
             written == [w EXCEPT !.flash = FlashWrite(w.d, @)]
  <1>1. Keeps(w0, w) /\ Shape(w)
    <2>1. Keeps(w0, [w0 EXCEPT !.d.cgiPrivData = FALSE]) /\ Keeps(w0, w0)
      BY DEF Keeps, Shape, WorldFields, SlotFields
    <2> QED BY <2>1 DEF Keeps
  <1> HIDE DEF w
  <1>2. Keeps(w0, refused) /\ Shape(refused)
    BY <1>1 DEF Keeps, Shape, WorldFields, SlotFields
  <1>3. Keeps(w0, written) /\ Shape(written)
    BY <1>1 DEF Keeps, Shape, WorldFields, SlotFields
  <1> HIDE DEF refused, written
  <1>4. /\ Keeps(w0, Return(w0, "DONE")) /\ Keeps(w0, Return(w, "DONE"))
        /\ Keeps(w0, Return(written, "MORE"))
    BY <1>1, <1>3, KeepsReturn, KeepsAll
  <1>5. /\ Keeps(w0, Return(httpdSend(refused, <<UploadError(w.d)>>), "DONE"))
        /\ Keeps(w0, Return(httpdSend(written, <<200>>), "DONE"))
    BY <1>2, <1>3, KeepsSendReturn, KeepsAll
  <1> QED BY <1>4, <1>5 DEF cgiUploadFirmware, w, refused, written

\* Every entry of the table keeps its slot.
LEMMA KeepsCgi ==
    ASSUME NEW w, Shape(w), w.d.cgi \in Cgis, NEW stale
    PROVE  Keeps(w, Cgi(w, stale))
  <1>1. \A code : Keeps(w, OneShot(w, code))
    BY KeepsReturn, KeepsSendReturn DEF OneShot
  <1>2. Keeps(w, authBasic(w))
    BY KeepsReturn, KeepsSendReturn DEF authBasic
  <1> QED
    BY <1>1, <1>2, KeepsHook, KeepsTemplate, KeepsFlash, KeepsUpload
    DEF Cgi, Cgis

-----------------------------------------------------------------------------
(* The pool *)

\* A set of numbers that is not empty has a least one.
LEMMA Least ==
    ASSUME NEW S \in SUBSET Nat, S # {}
    PROVE  LET least == CHOOSE i \in S : \A j \in S : i <= j
           IN  least \in S /\ \A j \in S : least <= j
  <1>1. \A x, y \in Nat : x < y => <<x, y>> \in OpToRel(<, Nat)
    BY DEF OpToRel
  <1>2. PICK R : R = OpToRel(<, Nat)
    OBVIOUS
  <1>3. IsWellFoundedOn(R, Nat)
    BY <1>2, NatLessThanWellFounded
  <1>4. PICK i \in S : \A j \in S : ~(<<j, i>> \in R)
    BY <1>3, WFMin
  <1>5. \A j \in S : i <= j
    <2> SUFFICES ASSUME NEW j \in S, ~(i <= j) PROVE FALSE
      OBVIOUS
    <2>1. i \in Nat /\ j \in Nat /\ j < i
      OBVIOUS
    <2> QED BY <1>1, <1>2, <1>4, <2>1
  <1> QED BY <1>5

Slot(d) == DOMAIN d = SlotFields /\ d.conn \in Conns \cup {NULL} /\ d.cgi \in Cgis \cup {NULL}

PoolOK == DOMAIN connData = Slots /\ \A s \in Slots : Slot(connData[s])

\* A callback that loops has a slot of the pool.
CallOK ==
    /\ InRecv => call.slot \in Slots
    /\ InProcess => /\ call.slot \in Slots /\ call.i \in Nat \ {0}
                    /\ DOMAIN call = {"cb", "slot", "left", "i"}
    /\ InDiscon => call.slot \in Slots /\ DOMAIN call = {"cb", "slot"}

StateOK == DOMAIN state = Conns

\* Two slots never hold the same connection, a connection that was not made
\* has no slot, and one that is open has one.
Unique == \A s, t \in Slots : connData[s].conn = connData[t].conn /\ s # t => connData[s].conn = NULL
Unmade == \A s \in Slots : connData[s].conn # NULL => state[connData[s].conn] # "none"
Placed == \A c \in Conns : state[c] = "open" => \E s \in Slots : connData[s].conn = c

PoolInv == PoolOK /\ CallOK /\ StateOK /\ Unique /\ Unmade /\ Placed

\* The pool is empty at the start.
LEMMA PoolInit == Init => PoolInv
  <1> SUFFICES ASSUME Init PROVE PoolInv
    OBVIOUS
  <1>1. PoolOK /\ StateOK
    BY DEF Init, PoolOK, StateOK, Slot, FreeSlot, SlotFields
  <1>2. CallOK
    BY DEF Init, CallOK, InRecv, InProcess, InDiscon, NoCall
  <1>3. Unique /\ Unmade /\ Placed
    BY DEF Init, Unique, Unmade, Placed, FreeSlot
  <1> QED BY <1>1, <1>2, <1>3 DEF PoolInv

\* A step that changes one slot but not its connection, and no state.
SlotKept(s) ==
    /\ connData' = [connData EXCEPT ![s] = connData'[s]]
    /\ Slot(connData'[s]) /\ connData'[s].conn = connData[s].conn
    /\ state' = state

\* A step that keeps who is where keeps the invariant.
LEMMA KeptInv ==
    ASSUME PoolInv, NEW s \in Slots, SlotKept(s)
    PROVE  (PoolOK /\ StateOK /\ Unique /\ Unmade /\ Placed)'
  <1>1. \A t \in Slots : connData'[t].conn = connData[t].conn /\ Slot(connData'[t])
    BY DEF SlotKept, PoolInv, PoolOK
  <1>2. PoolOK' /\ StateOK'
    BY <1>1 DEF SlotKept, PoolInv, PoolOK, StateOK
  <1> QED BY <1>1, <1>2 DEF SlotKept, PoolInv, Unique, Unmade, Placed

\* So does a step that leaves pool and calls alone.
LEMMA UnchangedInv ==
    ASSUME PoolInv, UNCHANGED <<connData, state>>
    PROVE  (PoolOK /\ StateOK /\ Unique /\ Unmade /\ Placed)'
  BY DEF PoolInv, PoolOK, StateOK, Unique, Unmade, Placed

\* What is left of the units, and the connection of the running callback.
LEMMA RecvCall ==
    ASSUME NEW s \in Slots, NEW n, call' = Recv(s, n)
    PROVE  CallOK'
  BY DEF Recv, CallOK, InRecv, InProcess, InDiscon, NoCall

\* The call while the table is asked.
LEMMA ProcessCall ==
    ASSUME NEW s \in Slots, Process, call.slot = s
    PROVE  CallOK'
  BY DEF Process, CallOK, InRecv, InProcess, InDiscon

\* The call while the closed connections are gone through.
LEMMA DisconCall ==
    ASSUME CallOK, InDiscon, DisconNext
    PROVE  CallOK'
  <1>1. call.slot \in Slots /\ DOMAIN call = {"cb", "slot"} /\ call.cb = "discon"
    BY DEF CallOK, InDiscon
  <1>2. CASE call.slot = MaxConn - 1
    BY <1>2 DEF DisconNext, NoCall, CallOK, InRecv, InProcess, InDiscon
  <1>3. CASE call.slot # MaxConn - 1
    <2>1. call.slot + 1 \in Slots
      <3>1. MaxConn \in Nat
        BY HttpdAssumption
      <3> QED BY <1>1, <1>3, <3>1 DEF Slots
    <2>2. call' = [call EXCEPT !.slot = @ + 1]
      BY <1>3 DEF DisconNext
    <2>3. call'.slot = call.slot + 1 /\ DOMAIN call' = {"cb", "slot"} /\ call'.cb = "discon"
      BY <1>1, <2>2
    <2> QED BY <2>1, <2>3 DEF CallOK, InRecv, InProcess, InDiscon
  <1> QED BY <1>2, <1>3

-----------------------------------------------------------------------------
(* The steps *)

\* What a CGI function works on, made of the variables.
LEMMA WorldShape ==
    ASSUME NEW d, DOMAIN d = SlotFields
    PROVE  Shape(World(d)) /\ World(d).d = d
  BY DEF Shape, World, WorldFields

\* What a CGI function leaves behind goes into its own slot.
LEMMA FinishKeeps ==
    ASSUME PoolInv, NEW s \in Slots, NEW w, Finish(s, w), DOMAIN w.d = SlotFields,
           w.d.conn = connData[s].conn, w.d.cgi \in Cgis \cup {NULL}, state' = state
    PROVE  SlotKept(s)
  BY DEF PoolInv, PoolOK, Slot, Finish, SlotKept

\* A CGI function and the flush that follows it.
LEMMA CgiKeeps ==
    ASSUME NEW d, DOMAIN d = SlotFields, d.cgi \in Cgis, NEW stale
    PROVE  LET w == httpdFlushSendBuffer(Cgi(World(d), stale))
           IN  Shape(w) /\ w.d.conn = d.conn /\ w.d.cgi = d.cgi
  <1> DEFINE v == Cgi(World(d), stale)
  <1>1. Keeps(World(d), v) /\ Shape(v) /\ World(d).d = d
    BY WorldShape, KeepsCgi DEF Keeps
  <1> HIDE DEF v
  <1>2. Keeps(v, httpdFlushSendBuffer(v))
    BY <1>1, KeepsFlush
  <1>3. Keeps(World(d), httpdFlushSendBuffer(v))
    BY <1>1, <1>2, KeepsAll
  <1> QED BY <1>1, <1>3 DEF Keeps, v

\* httpdConnectCb puts a connection that had no slot into a free one.
LEMMA PoolConnect ==
    ASSUME PoolInv, NEW c \in Conns, httpdConnectCb(c)
    PROVE  PoolInv'
  <1>1. CallOK'
    BY DEF httpdConnectCb, CallOK, InRecv, InProcess, InDiscon, NoCall
  <1>2. CASE Unused = {}
    <2>1. connData' = connData /\ state' = [state EXCEPT ![c] = "refused"]
      BY <1>2 DEF httpdConnectCb
    <2> QED BY <1>1, <2>1 DEF PoolInv, PoolOK, StateOK, Unique, Unmade, Placed
  <1>3. CASE Unused # {}
    <2> DEFINE s == CHOOSE i \in Unused : \A j \in Unused : i <= j
    <2>1. s \in Unused
      <3>1. Unused \in SUBSET Nat
        BY HttpdAssumption DEF Unused, Slots
      <3> QED BY <1>3, <3>1, Least
    <2>2. /\ connData' = [connData EXCEPT ![s].conn = c, ![s].len = -1,
                                         ![s].received = 0, ![s].buffLen = 0]
          /\ state' = [state EXCEPT ![c] = "open"] /\ state[c] = "none"
      BY <1>3 DEF httpdConnectCb
    <2> HIDE DEF s
    <2>3. s \in Slots /\ connData[s].conn = NULL
      BY <2>1 DEF Unused
    <2>4. /\ DOMAIN connData' = Slots /\ DOMAIN connData'[s] = SlotFields
          /\ connData'[s].conn = c /\ connData'[s].cgi = connData[s].cgi
          /\ \A t \in Slots : t # s => connData'[t] = connData[t]
      BY <2>2, <2>3 DEF PoolInv, PoolOK, Slot, SlotFields
    <2>5. PoolOK' /\ StateOK'
      BY <2>2, <2>3, <2>4 DEF PoolInv, PoolOK, StateOK, Slot
    <2>6. \A t \in Slots : connData[t].conn # c
      BY <2>2, HttpdAssumption DEF PoolInv, Unmade
    <2>7. /\ state'[c] = "open"
          /\ \A e \in Conns : e # c => state'[e] = state[e]
      BY <2>2 DEF PoolInv, StateOK
    <2>8. Unique'
      BY <2>3, <2>4, <2>6 DEF PoolInv, Unique
    <2>9. Unmade'
      BY <2>3, <2>4, <2>6, <2>7 DEF PoolInv, Unmade, PoolOK, Slot
    <2>10. Placed'
      BY <2>3, <2>4, <2>7, HttpdAssumption DEF PoolInv, Placed
    <2> QED BY <1>1, <2>5, <2>8, <2>9, <2>10 DEF PoolInv
  <1> QED BY <1>2, <1>3

\* httpdRecvCb begins.
LEMMA PoolRecv ==
    ASSUME PoolInv, NEW c \in Conns, NEW n, httpdRecvCb(c, n)
    PROVE  PoolInv'
  <1>1. CallOK'
    <2>1. CASE call' = call
      BY <2>1 DEF PoolInv, CallOK, InRecv, InProcess, InDiscon
    <2>2. CASE \E s \in Slots : call' = Recv(s, n)
      BY <2>2, RecvCall
    <2> QED BY <2>1, <2>2 DEF httpdRecvCb, httpdFindConnData
  <1> QED BY <1>1, UnchangedInv DEF PoolInv, httpdRecvCb

\* A byte of the head is stored or dropped.
LEMMA PoolHead ==
    ASSUME PoolInv, HeadByte
    PROVE  PoolInv'
  <1>1. CallOK'
    BY RecvCall DEF HeadByte, RecvNext, PoolInv, CallOK
  <1> QED BY <1>1, UnchangedInv DEF PoolInv, HeadByte, net

\* The end of the head.
LEMMA PoolHeadEnd ==
    ASSUME PoolInv, HeadEnd
    PROVE  PoolInv'
  <1>1. call.slot \in Slots
    BY DEF HeadEnd, PoolInv, CallOK
  <1>2. CallOK'
    BY <1>1, RecvCall, ProcessCall DEF HeadEnd, RecvNext
  <1>3. SlotKept(call.slot)
    BY <1>1 DEF HeadEnd, SlotKept, PoolInv, PoolOK, Slot, SlotFields, net
  <1> QED BY <1>1, <1>2, <1>3, KeptInv DEF PoolInv

\* A byte of the body.
LEMMA PoolPost ==
    ASSUME PoolInv, PostByte
    PROVE  PoolInv'
  <1>1. call.slot \in Slots
    BY DEF PostByte, PoolInv, CallOK
  <1>2. CallOK'
    BY <1>1, RecvCall, ProcessCall DEF PostByte, RecvNext
  <1>3. SlotKept(call.slot)
    BY <1>1 DEF PostByte, SlotKept, PoolInv, PoolOK, Slot, SlotFields, net
  <1> QED BY <1>1, <1>2, <1>3, KeptInv DEF PoolInv

\* The end of httpdProcessRequest, whatever the CGI function was.
LEMMA PoolReturn ==
    ASSUME PoolInv, InProcess, NEW w, ProcessReturn(w), state' = state, Shape(w),
           w.d.conn = D.conn, w.d.cgi \in Cgis \cup {NULL}
    PROVE  PoolInv'
  <1>1. call.slot \in Slots
    BY DEF PoolInv, CallOK
  <1>2. CallOK'
    BY <1>1, RecvCall DEF ProcessReturn
  <1> DEFINE v == [w EXCEPT !.d.buffLen = 0]
  <1>3. DOMAIN v.d = SlotFields /\ v.d.conn = D.conn /\ v.d.cgi = w.d.cgi
    BY DEF Shape, WorldFields, SlotFields
  <1>4. Finish(call.slot, v)
    BY DEF ProcessReturn
  <1> HIDE DEF v
  <1>5. SlotKept(call.slot)
    BY <1>1, <1>3, <1>4, FinishKeeps DEF D
  <1> QED BY <1>1, <1>2, <1>5, KeptInv DEF PoolInv

\* The table is asked: what is found calls a CGI function.
LEMMA EntryCgi ==
    ASSUME CallOK, InProcess, Matching # {}
    PROVE  BuiltInUrls[Entry].cgi \in Cgis /\ Entry \in Nat
  <1>1. Len(BuiltInUrls) \in Nat /\ DOMAIN BuiltInUrls = 1 .. Len(BuiltInUrls)
    BY HttpdAssumption
  <1>2. call.i \in Nat \ {0}
    BY DEF CallOK
  <1>3. Matching \in SUBSET Nat /\ Matching \subseteq DOMAIN BuiltInUrls
    BY <1>1, <1>2 DEF Matching
  <1>4. Entry \in Matching
    BY <1>3, Least DEF Entry
  <1> QED BY <1>3, <1>4, HttpdAssumption

\* A request without a URL.
LEMMA PoolNoUrl ==
    ASSUME PoolInv, NoUrl
    PROVE  PoolInv'
  <1>1. call.slot \in Slots /\ Slot(D)
    BY DEF NoUrl, PoolInv, CallOK, PoolOK, D
  <1>2. Shape(World(D)) /\ World(D).d = D
    BY <1>1, WorldShape DEF Slot
  <1> QED BY <1>1, <1>2, PoolReturn DEF NoUrl, Slot

\* No entry of the table is left.
LEMMA PoolNotFound ==
    ASSUME PoolInv, NotFound
    PROVE  PoolInv'
  <1> DEFINE d == [D EXCEPT !.cgi = NULL]
             w == httpdFlushSendBuffer(httpdSend(World(d), <<404>>))
  <1>1. call.slot \in Slots /\ Slot(D)
    BY DEF NotFound, PoolInv, CallOK, PoolOK, D
  <1>2. DOMAIN d = SlotFields /\ d.conn = D.conn /\ d.cgi = NULL
    BY <1>1 DEF Slot, SlotFields
  <1> HIDE DEF d
  <1>3. Shape(World(d)) /\ World(d).d = d
    BY <1>2, WorldShape
  <1>4. Keeps(World(d), w)
    <2>1. Keeps(World(d), httpdSend(World(d), <<404>>))
      BY <1>3, KeepsSend
    <2>2. Keeps(httpdSend(World(d), <<404>>), w)
      BY <2>1, KeepsFlush DEF Keeps
    <2> QED BY <2>1, <2>2, KeepsAll
  <1>5. Shape(w) /\ w.d.conn = D.conn /\ w.d.cgi = NULL
    BY <1>2, <1>3, <1>4 DEF Keeps
  <1>6. InProcess /\ ProcessReturn(w) /\ state' = state
    BY DEF NotFound, d
  <1> HIDE DEF w
  <1> QED BY <1>5, <1>6, PoolReturn

\* An entry of the table is called.
LEMMA PoolAskCgi ==
    ASSUME PoolInv, AskCgi
    PROVE  PoolInv'
  <1>1. call.slot \in Slots /\ Slot(D) /\ InProcess /\ CallOK /\ state' = state
    BY DEF AskCgi, PoolInv, CallOK, PoolOK, D
  <1>2. BuiltInUrls[Entry].cgi \in Cgis /\ Entry \in Nat
    BY <1>1, EntryCgi DEF AskCgi
  <1>3. DOMAIN Asked = SlotFields /\ Asked.conn = D.conn /\ Asked.cgi \in Cgis
    BY <1>1, <1>2 DEF Asked, Slot, SlotFields
  <1>4. PICK stale \in BOOLEAN : \E v \in {Cgi(World(Asked), stale)} :
          \E w \in {httpdFlushSendBuffer(v)} :
             \/ /\ connData' = [connData EXCEPT ![call.slot] = w.d]
                /\ call' = [call EXCEPT !.i = Entry + 1]
             \/ ProcessReturn(w)
             \/ ProcessReturn([w EXCEPT !.d.cgi = NULL])
    BY DEF AskCgi
  <1> DEFINE w == httpdFlushSendBuffer(Cgi(World(Asked), stale))
  <1>5. \/ /\ connData' = [connData EXCEPT ![call.slot] = w.d]
            /\ call' = [call EXCEPT !.i = Entry + 1]
        \/ ProcessReturn(w)
        \/ ProcessReturn([w EXCEPT !.d.cgi = NULL])
    BY <1>4
  <1>6. Shape(w) /\ w.d.conn = D.conn /\ w.d.cgi \in Cgis
    BY <1>3, CgiKeeps
  <1> HIDE DEF w
  <1>7. CASE /\ connData' = [connData EXCEPT ![call.slot] = w.d]
             /\ call' = [call EXCEPT !.i = Entry + 1]
    <2>1. SlotKept(call.slot)
      BY <1>1, <1>6, <1>7 DEF SlotKept, PoolInv, PoolOK, Slot, Shape, D
    <2>2. CallOK'
      BY <1>1, <1>2, <1>7 DEF CallOK, InRecv, InProcess, InDiscon
    <2> QED BY <1>1, <2>1, <2>2, KeptInv DEF PoolInv
  <1>8. CASE ProcessReturn(w)
    BY <1>1, <1>6, <1>8, PoolReturn
  <1>9. CASE ProcessReturn([w EXCEPT !.d.cgi = NULL])
    <2> DEFINE v == [w EXCEPT !.d.cgi = NULL]
    <2>1. Shape(v) /\ v.d.conn = D.conn /\ v.d.cgi = NULL
      BY <1>6 DEF Shape, WorldFields, SlotFields
    <2> HIDE DEF v
    <2>2. ProcessReturn(v)
      BY <1>9 DEF v
    <2> QED BY <1>1, <2>1, <2>2, PoolReturn
  <1> QED BY <1>5, <1>7, <1>8, <1>9

\* A slot is given up: its connection is not open any more.
LEMMA RetireInv ==
    ASSUME PoolInv, NEW s \in Slots, NEW d, DOMAIN d = SlotFields,
           connData' = [connData EXCEPT ![s] = httpdRetireConn(d)],
           StateOK', \A c \in Conns : state'[c] # "none" \/ state[c] = "none",
           \A c \in Conns : state'[c] = "open" => state[c] = "open" /\ c # connData[s].conn
    PROVE  (PoolOK /\ StateOK /\ Unique /\ Unmade /\ Placed)'
  <1>1. /\ DOMAIN connData' = Slots /\ Slot(connData'[s]) /\ connData'[s].conn = NULL
        /\ \A t \in Slots : t # s => connData'[t] = connData[t]
    BY DEF httpdRetireConn, PoolInv, PoolOK, Slot, SlotFields
  <1>2. PoolOK'
    BY <1>1 DEF PoolInv, PoolOK
  <1>3. Unique'
    BY <1>1 DEF PoolInv, Unique
  <1>4. Unmade'
    BY <1>1 DEF PoolInv, Unmade, PoolOK, Slot
  <1>5. Placed'
    BY <1>1 DEF PoolInv, Placed
  <1> QED BY <1>2, <1>3, <1>4, <1>5

\* httpdSentCb goes on with the CGI function or closes.
LEMMA PoolSent ==
    ASSUME PoolInv, NEW c \in Conns, httpdSentCb(c)
    PROVE  PoolInv'
  <1>1. CallOK'
    BY DEF httpdSentCb, CallOK, InRecv, InProcess, InDiscon, NoCall
  <1>2. CASE UNCHANGED <<connData, state>>
    BY <1>1, <1>2, UnchangedInv DEF PoolInv
  <1>3. ASSUME NEW s \in httpdFindConnData(c), Close(s)
        PROVE  PoolInv'
    <2>1. s \in Slots /\ connData[s].conn = c /\ Slot(connData[s])
      BY DEF httpdFindConnData, PoolInv, PoolOK
    <2>2. state' = [state EXCEPT ![c] = "finished"]
      BY <1>3, <2>1 DEF Close
    <2>3. connData' = [connData EXCEPT ![s] = httpdRetireConn(connData[s])]
      BY <1>3 DEF Close
    <2> QED BY <1>1, <2>1, <2>2, <2>3, RetireInv DEF PoolInv, StateOK, Slot
  <1>4. ASSUME NEW s \in httpdFindConnData(c), connData[s].cgi # NULL,
               \E v \in {Cgi(World(connData[s]), FALSE)} :
                  \E w \in {httpdFlushSendBuffer(v)} : SentNext(s, w)
        PROVE  PoolInv'
    <2>1. s \in Slots /\ Slot(connData[s])
      BY DEF httpdFindConnData, PoolInv, PoolOK
    <2> DEFINE w == httpdFlushSendBuffer(Cgi(World(connData[s]), FALSE))
               v == [w EXCEPT !.d.cgi = NULL]
    <2>2. SentNext(s, w)
      BY <1>4
    <2>3. Shape(w) /\ w.d.conn = connData[s].conn /\ w.d.cgi \in Cgis
      BY <1>4, <2>1, CgiKeeps DEF Slot
    <2> HIDE DEF w
    <2>4. Shape(v) /\ v.d.conn = connData[s].conn /\ v.d.cgi = NULL
      BY <2>3 DEF Shape, WorldFields, SlotFields
    <2>5. (Finish(s, w) \/ Finish(s, v)) /\ state' = state
      BY <2>2 DEF SentNext
    <2> HIDE DEF v
    <2>6. SlotKept(s)
      BY <2>1, <2>3, <2>4, <2>5, FinishKeeps DEF Shape
    <2> QED BY <1>1, <2>1, <2>6, KeptInv DEF PoolInv
  <1> QED BY <1>2, <1>3, <1>4 DEF httpdSentCb

\* httpdDisconCb begins.
LEMMA PoolDiscon ==
    ASSUME PoolInv, NEW c \in Conns, httpdDisconCb(c)
    PROVE  PoolInv'
  <1>1. CallOK'
    BY HttpdAssumption DEF httpdDisconCb, CallOK, InRecv, InProcess, InDiscon, Slots
  <1> QED
    BY <1>1 DEF httpdDisconCb, PoolInv, PoolOK, StateOK, Unique, Unmade, Placed

\* It passes over a slot.
LEMMA PoolSkip ==
    ASSUME PoolInv, DisconSkip
    PROVE  PoolInv'
  BY DisconCall, UnchangedInv DEF DisconSkip, PoolInv, net

\* It frees the slot of a closed connection.
LEMMA PoolDisconSlot ==
    ASSUME PoolInv, DisconSlot
    PROVE  PoolInv'
  <1>1. CallOK'
    BY DisconCall DEF DisconSlot, PoolInv
  <1>2. call.slot \in Slots /\ Slot(D) /\ Dead(D) /\ state' = state
    BY DEF DisconSlot, PoolInv, CallOK, PoolOK, D, net
  <1> DEFINE gone == [D EXCEPT !.conn = NULL]
             w == IF D.cgi = NULL THEN World(gone) ELSE Cgi(World(gone), FALSE)
  <1>3. DOMAIN gone = SlotFields /\ gone.cgi = D.cgi
    BY <1>2 DEF Slot, SlotFields
  <1>4. connData' = [connData EXCEPT ![call.slot] = httpdRetireConn(w.d)]
    BY DEF DisconSlot
  <1> HIDE DEF gone
  <1>5. DOMAIN w.d = SlotFields
    <2>1. Shape(World(gone)) /\ World(gone).d = gone
      BY <1>3, WorldShape
    <2>2. D.cgi # NULL => Shape(Cgi(World(gone), FALSE))
      BY <1>2, <1>3, <2>1, KeepsCgi DEF Slot, Keeps
    <2> QED BY <2>1, <2>2 DEF Shape
  <1> HIDE DEF w
  <1> QED BY <1>1, <1>2, <1>4, <1>5, RetireInv DEF PoolInv, StateOK, Dead, D

\* A client leaves; its slot stays.
LEMMA PoolLeave ==
    ASSUME PoolInv, NEW c \in Conns, Leave(c)
    PROVE  PoolInv'
  <1>1. CallOK'
    BY DEF Leave, PoolInv, CallOK, InRecv, InProcess, InDiscon
  <1> QED
    BY <1>1 DEF Leave, PoolInv, PoolOK, StateOK, Unique, Unmade, Placed

\* Every step keeps the invariant of the pool.
LEMMA PoolNext == PoolInv /\ [Next]_vars => PoolInv'
  <1> SUFFICES ASSUME PoolInv, [Next]_vars PROVE PoolInv'
    OBVIOUS
  <1>1. CASE Server
    BY <1>1, PoolHead, PoolHeadEnd, PoolPost, PoolNoUrl, PoolNotFound, PoolAskCgi,
       PoolSkip, PoolDisconSlot DEF Server
  <1>2. CASE \E c \in Conns : Stack(c)
    BY <1>2, PoolConnect, PoolRecv, PoolSent, PoolDiscon, PoolLeave DEF Stack
  <1>3. CASE UNCHANGED vars
    <2>1. CallOK'
      BY <1>3 DEF vars, PoolInv, CallOK, InRecv, InProcess, InDiscon
    <2> QED BY <1>3, <2>1, UnchangedInv DEF vars, net, PoolInv
  <1> QED BY <1>1, <1>2, <1>3 DEF Next

\* An open connection has its slot and no two slots serve one connection,
\* whatever was closed, refused or reused in between (core/httpd.c:77, 573).
THEOREM OneSlotEach == Spec => []SlotPerConn
  <1>1. PoolInv => SlotPerConn
    <2> SUFFICES ASSUME PoolInv, NEW c \in Conns
                 PROVE  /\ \A s, t \in httpdFindConnData(c) : s = t
                        /\ state[c] = "open" => httpdFindConnData(c) # {}
      BY DEF SlotPerConn
    <2> QED BY HttpdAssumption DEF PoolInv, Unique, Placed, httpdFindConnData
  <1> QED BY <1>1, PoolInit, PoolNext, PTL DEF Spec
-----------------------------------------------------------------------------
(* The files *)

FileFields == {"owner", "url", "pos", "token", "streamed"}

FileOK(f) ==
    /\ DOMAIN f = FileFields
    /\ f.owner # NULL => /\ f.owner \in Conns /\ f.url \in DOMAIN File
                         /\ f.pos \in 0 .. Len(File[f.url])

FilesOK(fs) == DOMAIN fs = Handles /\ \A h \in Handles : FileOK(fs[h])

Serves(d, h) == d.cgi \in FileCgis /\ d.cgiData = h

\* A slot that works on a file works on an open one.
HasOpen(d, fs) ==
    d.cgi \in FileCgis /\ d.cgiData # NULL =>
        d.cgiData \in Handles /\ fs[d.cgiData].owner # NULL

Good(w) ==
    /\ Shape(w) /\ w.d \in SlotType /\ w.sends \in Nat
    /\ FilesOK(w.files) /\ HasOpen(w.d, w.files)

-----------------------------------------------------------------------------
(* What CGI functions do with files *)

\* Sending changes neither slot nor files.
Passive(v, w) == Shape(w) /\ w.d = v.d /\ w.files = v.files /\ w.sends \in Nat

\* Returning a result.
LEMMA PassiveReturn ==
    ASSUME NEW w, Shape(w), w.sends \in Nat, NEW r
    PROVE  Passive(w, Return(w, r)) /\ Return(w, r).r = r
  BY DEF Passive, Shape, Return, WorldFields

\* Adding to the send buffer.
LEMMA PassiveSend ==
    ASSUME NEW w, Shape(w), w.sends \in Nat, NEW data
    PROVE  Passive(w, httpdSend(w, data)) /\ httpdSend(w, data).r = w.r
  BY DEF Passive, Shape, httpdSend, WorldFields

\* Giving data to the stack.
LEMMA PassiveSent ==
    ASSUME NEW w, Shape(w), w.sends \in Nat, NEW data
    PROVE  Passive(w, espconn_sent(w, data)) /\ espconn_sent(w, data).r = w.r
  <1>1. w.sends + 1 \in Nat
    OBVIOUS
  <1> QED BY <1>1 DEF Passive, Shape, espconn_sent, WorldFields

\* Flushing the send buffer.
LEMMA PassiveFlush ==
    ASSUME NEW w, Shape(w), w.sends \in Nat
    PROVE  Passive(w, httpdFlushSendBuffer(w)) /\ httpdFlushSendBuffer(w).r = w.r
  <1>1. Passive(w, espconn_sent(w, w.buff)) /\ espconn_sent(w, w.buff).r = w.r
    BY PassiveSent
  <1> DEFINE v == espconn_sent(w, w.buff)
  <1> HIDE DEF v
  <1>2. /\ Passive(w, [v EXCEPT !.buff = <<>>])
        /\ [v EXCEPT !.buff = <<>>].r = w.r
    BY <1>1 DEF Passive, Shape, WorldFields, v
  <1>3. Passive(w, w)
    BY DEF Passive
  <1> QED BY <1>2, <1>3 DEF httpdFlushSendBuffer, v

\* Sending and returning.
LEMMA PassiveSendReturn ==
    ASSUME NEW w, Shape(w), w.sends \in Nat, NEW data, NEW r
    PROVE  /\ Passive(w, Return(httpdSend(w, data), r))
           /\ Return(httpdSend(w, data), r).r = r
  <1>1. Passive(w, httpdSend(w, data))
    BY PassiveSend
  <1>2. /\ Passive(httpdSend(w, data), Return(httpdSend(w, data), r))
        /\ Return(httpdSend(w, data), r).r = r
    BY <1>1, PassiveReturn DEF Passive
  <1> QED BY <1>1, <1>2 DEF Passive

\* What a call of a CGI function can do: nothing to any file, and it has
\* none in its hands; open one for its slot; read on in the one it has; or
\* close it and be done.
SameSlot(d, e) ==
    /\ e.conn = d.conn /\ e.cgi = d.cgi /\ e.len = d.len /\ e.url = d.url
    /\ e.received = d.received /\ e.buffLen = d.buffLen

OthersSame(fs, gs, h) == \A g \in Handles : g # h => gs[g] = fs[g]

NoFile(v, w) ==
    /\ w.files = v.files
    /\ v.d.cgi \in FileCgis => v.d.cgiData = NULL /\ w.d.cgiData = NULL

OpensFile(v, w) ==
    LET h == w.d.cgiData
    IN  /\ v.d.cgi \in FileCgis /\ v.d.cgiData = NULL /\ v.d.conn # NULL
        /\ h \in Handles /\ v.files[h].owner = NULL
        /\ w.files[h].owner = v.d.conn /\ w.files[h].streamed = (v.d.len > MaxPost)
        /\ OthersSame(v.files, w.files, h) /\ w.r = "MORE"

ReadsFile(v, w) ==
    LET h == v.d.cgiData
    IN  /\ v.d.cgi \in FileCgis /\ h \in Handles /\ w.d.cgiData = h /\ v.d.conn # NULL
        /\ w.files[h].owner = v.files[h].owner
        /\ w.files[h].streamed = v.files[h].streamed
        /\ OthersSame(v.files, w.files, h) /\ w.r = "MORE"

ClosesFile(v, w) ==
    LET h == v.d.cgiData
    IN  /\ v.d.cgi \in FileCgis /\ h \in Handles
        /\ w.files[h].owner = NULL
        /\ OthersSame(v.files, w.files, h) /\ w.r = "DONE"

Effect(v, w) ==
    /\ Shape(w) /\ w.d \in SlotType /\ w.sends \in Nat /\ FilesOK(w.files)
    /\ SameSlot(v.d, w.d)
    /\ NoFile(v, w) \/ OpensFile(v, w) \/ ReadsFile(v, w) \/ ClosesFile(v, w)

\* Sending without a file in hand.
LEMMA PassiveEffect ==
    ASSUME NEW v, NEW w, Good(v), Passive(v, w),
           v.d.cgi \in FileCgis => v.d.cgiData = NULL
    PROVE  Effect(v, w)
  BY DEF Good, Passive, Effect, SameSlot, NoFile

\* A block ends within the file.
LEMMA BlockEnd ==
    ASSUME NEW f, f.url \in DOMAIN File, f.pos \in 0 .. Len(File[f.url])
    PROVE  f.pos + Len(Block(f)) \in 0 .. Len(File[f.url])
  <1>1. Len(File[f.url]) \in Nat
    BY HttpdAssumption
  <1> DEFINE n == MinNat(MaxPost, Len(File[f.url]) - f.pos)
  <1>2. n \in Nat /\ f.pos + n \in 0 .. Len(File[f.url])
    BY <1>1, HttpdAssumption DEF MinNat
  <1> HIDE DEF n
  <1>3. Block(f) = [i \in 1 .. n |-> f.pos + i]
    BY DEF Block, n
  <1>4. Len(Block(f)) = n
    BY <1>2, <1>3
  <1> QED BY <1>2, <1>4

\* espFsClose closes the file in hand.
LEMMA CloseEffect ==
    ASSUME NEW v, NEW w, Good(v), v.d.cgi \in FileCgis, v.d.cgiData # NULL,
           Shape(w), w.d = v.d, w.sends \in Nat, FilesOK(w.files),
           OthersSame(v.files, w.files, v.d.cgiData)
    PROVE  Effect(v, Return(espFsClose(w), "DONE"))
  <1>1. v.d.cgiData \in Handles
    BY DEF Good, HasOpen
  <1> DEFINE h == v.d.cgiData
             x == [w EXCEPT !.files[h] = Closed]
  <1>2. /\ Shape(x) /\ x.d = w.d /\ x.sends = w.sends /\ DOMAIN x.files = Handles
        /\ x.files[h] = Closed /\ OthersSame(w.files, x.files, h)
    BY <1>1 DEF Shape, WorldFields, FilesOK, OthersSame
  <1>3. espFsClose(w) = x
    BY DEF espFsClose
  <1> HIDE DEF x, h
  <1>4. FileOK(Closed) /\ Closed.owner = NULL
    BY DEF FileOK, Closed, FileFields
  <1>5. FilesOK(x.files)
    BY <1>2, <1>4 DEF FilesOK, OthersSame
  <1>6. Passive(x, Return(x, "DONE")) /\ Return(x, "DONE").r = "DONE"
    BY <1>2, PassiveReturn
  <1> DEFINE y == Return(x, "DONE")
  <1> HIDE DEF y
  <1>7. Shape(y) /\ y.d = v.d /\ y.sends \in Nat /\ y.files = x.files /\ y.r = "DONE"
    BY <1>2, <1>6 DEF Passive, y
  <1>8. ClosesFile(v, y)
    BY <1>1, <1>2, <1>4, <1>7 DEF ClosesFile, OthersSame, h
  <1> QED BY <1>3, <1>5, <1>7, <1>8 DEF Effect, SameSlot, Good, y

\* Reading on in the file in hand, whatever is sent of it.
LEMMA ReadEffect ==
    ASSUME NEW v, NEW w, Good(v), v.d.cgi \in FileCgis, v.d.cgiData # NULL,
           v.d.conn # NULL, Shape(w), w.d = v.d, w.sends \in Nat, FilesOK(w.files),
           OthersSame(v.files, w.files, v.d.cgiData),
           w.files[v.d.cgiData].owner = v.files[v.d.cgiData].owner,
           w.files[v.d.cgiData].streamed = v.files[v.d.cgiData].streamed
    PROVE  Effect(v, Return(w, "MORE")) /\ Effect(v, Return(espFsClose(w), "DONE"))
  <1>1. v.d.cgiData \in Handles
    BY DEF Good, HasOpen
  <1> DEFINE y == Return(w, "MORE")
  <1>2. Shape(y) /\ y.d = v.d /\ y.sends \in Nat /\ y.files = w.files /\ y.r = "MORE"
    BY PassiveReturn DEF Passive
  <1> HIDE DEF y
  <1>3. ReadsFile(v, y)
    BY <1>1, <1>2 DEF ReadsFile
  <1>4. Effect(v, y)
    BY <1>2, <1>3 DEF Effect, SameSlot, Good
  <1> QED BY <1>4, CloseEffect DEF y

\* espFsOpen opens a file that was closed, for the connection of the slot.
LEMMA OpenEffect ==
    ASSUME NEW w, Good(w), w.d.cgi \in FileCgis, w.d.cgiData = NULL,
           w.d.conn # NULL, CanOpen(w), NEW data
    PROVE  Effect(w, Return(httpdSend(espFsOpen(w), data), "MORE"))
  <1> DEFINE h == NewHandle(w)
             f == [owner |-> w.d.conn, url |-> w.d.url, pos |-> 0, token |-> NULL,
                   streamed |-> w.d.len > MaxPost]
             x == [w EXCEPT !.d.cgiData = h, !.files[h] = f]
  <1>1. h \in FreeHandles(w)
    <2>1. FreeHandles(w) \in SUBSET Nat /\ FreeHandles(w) # {}
      BY DEF FreeHandles, Handles, CanOpen
    <2> QED BY <2>1, Least DEF NewHandle
  <1>2. espFsOpen(w) = x
    BY DEF espFsOpen
  <1> HIDE DEF h, f
  <1>3. h \in Handles /\ h \in Nat /\ w.files[h].owner = NULL
    BY <1>1 DEF FreeHandles, Handles
  <1>4. /\ Shape(x) /\ x.sends = w.sends /\ x.d = [w.d EXCEPT !.cgiData = h]
        /\ DOMAIN x.files = Handles /\ x.files[h] = f /\ OthersSame(w.files, x.files, h)
    BY <1>3 DEF Good, Shape, WorldFields, SlotFields, FilesOK, OthersSame
  <1> HIDE DEF x
  <1>5. x.d \in SlotType /\ SameSlot(w.d, x.d) /\ x.d.cgiData = h
    BY <1>3, <1>4 DEF Good, SlotType, SameSlot
  <1>6. /\ DOMAIN f = FileFields /\ f.owner = w.d.conn /\ f.url = w.d.url /\ f.pos = 0
        /\ f.streamed = (w.d.len > MaxPost)
    BY DEF f, FileFields
  <1>7. FileOK(f)
    <2>1. w.d.url \in DOMAIN File /\ w.d.conn \in Conns
      BY DEF CanOpen, Good, SlotType
    <2>2. 0 \in 0 .. Len(File[w.d.url])
      BY <2>1, HttpdAssumption
    <2> QED BY <1>6, <2>1, <2>2 DEF FileOK
  <1>8. FilesOK(x.files)
    BY <1>4, <1>7 DEF FilesOK, OthersSame, Good
  <1> DEFINE y == Return(httpdSend(x, data), "MORE")
  <1>9. Passive(x, y) /\ y.r = "MORE"
    BY <1>4, PassiveSendReturn DEF Good
  <1> HIDE DEF y
  <1>10. OpensFile(w, y)
    BY <1>3, <1>4, <1>5, <1>6, <1>9 DEF OpensFile, Passive
  <1>11. Effect(w, y)
    BY <1>5, <1>8, <1>9, <1>10 DEF Effect, Passive
  <1> QED BY <1>2, <1>11 DEF y

\* cgiEspFsHook.
LEMMA HookEffect ==
    ASSUME NEW w, Good(w), w.d.cgi \in FileCgis, NEW stale
    PROVE  Effect(w, cgiEspFsHook(w, stale))
  <1>1. CASE w.d.conn = NULL
    <2>1. CASE w.d.cgiData = NULL
      <3>1. Passive(w, Return(espFsClose(w), "DONE"))
        BY <2>1, PassiveReturn DEF espFsClose, Good
      <3> QED BY <1>1, <2>1, <3>1, PassiveEffect DEF cgiEspFsHook
    <2>2. CASE w.d.cgiData # NULL
      <3>1. Effect(w, Return(espFsClose(w), "DONE"))
        BY <2>2, CloseEffect DEF Good, OthersSame
      <3> QED BY <1>1, <3>1 DEF cgiEspFsHook
    <2> QED BY <2>1, <2>2
  <1>2. CASE w.d.conn # NULL /\ w.d.cgiData = NULL
    <2>1. /\ Passive(w, Return(w, "NOTFOUND"))
          /\ Passive(w, Return(httpdSend(w, <<501>>), "DONE"))
      BY PassiveReturn, PassiveSendReturn DEF Good
    <2>2. /\ Effect(w, Return(w, "NOTFOUND"))
          /\ Effect(w, Return(httpdSend(w, <<501>>), "DONE"))
      BY <1>2, <2>1, PassiveEffect
    <2>3. CanOpen(w) => Effect(w, Return(httpdSend(espFsOpen(w), <<200>>), "MORE"))
      BY <1>2, OpenEffect
    <2>4. Effect(w, HookOpen(w, stale))
      BY <2>2, <2>3 DEF HookOpen
    <2> QED BY <1>2, <2>4 DEF cgiEspFsHook
  <1>3. CASE w.d.conn # NULL /\ w.d.cgiData # NULL
    <2> DEFINE h == w.d.cgiData
               block == Block(w.files[h])
               read == [w EXCEPT !.files[h].pos = @ + Len(block)]
               sent == IF block = <<>> THEN read ELSE espconn_sent(read, block)
    <2>1. /\ h \in Handles /\ FileOK(w.files[h]) /\ w.files[h].owner # NULL
          /\ w.files[h].pos + Len(block) \in 0 .. Len(File[w.files[h].url])
      BY <1>3, BlockEnd DEF Good, HasOpen, FilesOK, FileOK
    <2> HIDE DEF block
    <2> DEFINE f == [w.files[h] EXCEPT !.pos = @ + Len(block)]
    <2>2. /\ FileOK(f) /\ f.owner = w.files[h].owner
          /\ f.streamed = w.files[h].streamed
      BY <2>1 DEF FileOK, FileFields
    <2>3. /\ Shape(read) /\ read.d = w.d /\ read.sends = w.sends
          /\ DOMAIN read.files = Handles /\ OthersSame(w.files, read.files, h)
          /\ read.files[h] = f
      BY <2>1 DEF Good, Shape, WorldFields, FilesOK, OthersSame
    <2> HIDE DEF read, f, h
    <2>4. FilesOK(read.files)
      BY <2>2, <2>3 DEF FilesOK, OthersSame, Good
    <2>5. Passive(read, sent)
      <3>1. Passive(read, read) /\ Passive(read, espconn_sent(read, block))
        BY <2>3, PassiveSent DEF Passive, Good
      <3> QED BY <3>1
    <2> HIDE DEF sent
    <2>6. Effect(w, Return(sent, "MORE")) /\ Effect(w, Return(espFsClose(sent), "DONE"))
      BY <1>3, <2>2, <2>3, <2>4, <2>5, ReadEffect, SMTT(20) DEF Passive, h
    <2>7. Effect(w, HookRead(w))
      BY <2>6 DEF HookRead, sent, read, block, h
    <2> QED BY <1>3, <2>7 DEF cgiEspFsHook
  <1> QED BY <1>1, <1>2, <1>3

\* cgiEspFsTemplate.
LEMMA TemplateEffect ==
    ASSUME NEW w, Good(w), w.d.cgi \in FileCgis
    PROVE  Effect(w, cgiEspFsTemplate(w))
  <1>1. CASE w.d.conn = NULL
    <2>1. CASE w.d.cgiData = NULL
      <3>1. Passive(w, Return(espFsClose(w), "DONE"))
        BY <2>1, PassiveReturn DEF espFsClose, Good
      <3> QED BY <1>1, <2>1, <3>1, PassiveEffect DEF cgiEspFsTemplate
    <2>2. CASE w.d.cgiData # NULL
      <3>1. Effect(w, Return(espFsClose(w), "DONE"))
        BY <2>2, CloseEffect DEF Good, OthersSame
      <3> QED BY <1>1, <3>1 DEF cgiEspFsTemplate
    <2> QED BY <2>1, <2>2
  <1>2. CASE w.d.conn # NULL /\ w.d.cgiData = NULL
    <2>1. Effect(w, Return(w, "NOTFOUND"))
      BY <1>2, PassiveReturn, PassiveEffect DEF Good
    <2>2. CanOpen(w) => Effect(w, Return(httpdSend(espFsOpen(w), <<200>>), "MORE"))
      BY <1>2, OpenEffect
    <2> QED BY <1>2, <2>1, <2>2 DEF cgiEspFsTemplate
  <1>3. CASE w.d.conn # NULL /\ w.d.cgiData # NULL
    <2> DEFINE h == w.d.cgiData
               block == Block(w.files[h])
               a == Parsed(w.files[h], block, w.buff)
               sent == [w EXCEPT !.buff = Added(a.buff, a.e),
                                 !.files[h].pos = @ + Len(block),
                                 !.files[h].token = a.t]
    <2>1. /\ h \in Handles /\ FileOK(w.files[h]) /\ w.files[h].owner # NULL
          /\ w.files[h].pos + Len(block) \in 0 .. Len(File[w.files[h].url])
      BY <1>3, BlockEnd DEF Good, HasOpen, FilesOK, FileOK
    <2> HIDE DEF a, block
    <2> DEFINE f == [w.files[h] EXCEPT !.pos = @ + Len(block), !.token = a.t]
    <2>2. /\ FileOK(f) /\ f.owner = w.files[h].owner
          /\ f.streamed = w.files[h].streamed
      BY <2>1 DEF FileOK, FileFields
    <2>3. /\ Shape(sent) /\ sent.d = w.d /\ sent.sends = w.sends
          /\ DOMAIN sent.files = Handles /\ OthersSame(w.files, sent.files, h)
          /\ sent.files[h] = f
      BY <2>1 DEF Good, Shape, WorldFields, FilesOK, FileOK, FileFields, OthersSame
    <2> HIDE DEF sent, f, h
    <2>4. FilesOK(sent.files)
      BY <2>2, <2>3 DEF FilesOK, OthersSame, Good
    <2>5. Effect(w, Return(sent, "MORE")) /\ Effect(w, Return(espFsClose(sent), "DONE"))
      BY <1>3, <2>2, <2>3, <2>4, ReadEffect DEF h, Good
    <2>6. Effect(w, TemplateRead(w))
      BY <2>5, Zenon DEF TemplateRead, sent, a, block, h
    <2> QED BY <1>3, <2>6 DEF cgiEspFsTemplate
  <1> QED BY <1>1, <1>2, <1>3

\* cgiReadFlash counts in cgiData; no file is touched.
LEMMA FlashEffect ==
    ASSUME NEW w, Good(w), w.d.cgi \notin FileCgis,
           w.d.cgiData = NULL \/ w.d.cgiData \in Nat
    PROVE  Effect(w, cgiReadFlash(w))
  <1>1. CASE w.d.conn = NULL
    BY <1>1, PassiveReturn, PassiveEffect DEF cgiReadFlash, Good
  <1>2. CASE w.d.conn # NULL /\ w.d.cgiData = NULL
    <2> DEFINE v == [w EXCEPT !.d.cgiData = 0]
    <2>1. /\ Shape(v) /\ v.files = w.files /\ v.sends = w.sends
          /\ v.d = [w.d EXCEPT !.cgiData = 0]
      BY DEF Good, Shape, WorldFields, SlotFields
    <2> HIDE DEF v
    <2>2. v.d \in SlotType /\ SameSlot(w.d, v.d)
      BY <2>1 DEF Good, SlotType, SameSlot
    <2> DEFINE y == Return(httpdSend(v, <<200>>), "MORE")
    <2>3. Passive(v, y)
      BY <2>1, PassiveSendReturn DEF Good
    <2> HIDE DEF y
    <2>4. Effect(w, y)
      BY <2>1, <2>2, <2>3 DEF Effect, Passive, NoFile, Good
    <2> QED BY <1>2, <2>4 DEF cgiReadFlash, y, v
  <1>3. CASE w.d.conn # NULL /\ w.d.cgiData # NULL
    <2> DEFINE n == w.d.cgiData + MaxPost
               u == espconn_sent(w, [i \in 1 .. MaxPost |-> w.d.cgiData + i])
               v == [u EXCEPT !.d.cgiData = n]
               r == IF w.d.cgiData + MaxPost >= ReadLen THEN "DONE" ELSE "MORE"
    <2>1. n \in Nat
      BY <1>3, HttpdAssumption
    <2> HIDE DEF n
    <2>2. Passive(w, u)
      BY PassiveSent DEF Good
    <2> HIDE DEF u
    <2>3. /\ Shape(v) /\ v.files = w.files /\ v.sends \in Nat
          /\ v.d = [w.d EXCEPT !.cgiData = n]
      BY <2>2 DEF Passive, Shape, WorldFields, SlotFields
    <2> HIDE DEF v, r
    <2>4. v.d \in SlotType /\ SameSlot(w.d, v.d)
      BY <2>1, <2>3 DEF Good, SlotType, SameSlot
    <2>5. Passive(v, Return(v, r))
      BY <2>3, PassiveReturn
    <2> DEFINE y == Return(v, r)
    <2> HIDE DEF y
    <2>6. Effect(w, y)
      BY <2>3, <2>4, <2>5 DEF Effect, Passive, NoFile, Good, y
    <2> QED BY <1>3, <2>6 DEF cgiReadFlash, y, v, u, n, r
  <1> QED BY <1>1, <1>2, <1>3

\* cgiUploadFirmware writes the flash and no file.
LEMMA UploadEffect ==
    ASSUME NEW w0, Good(w0), w0.d.cgi \notin FileCgis
    PROVE  Effect(w0, cgiUploadFirmware(w0))
  <1> DEFINE w == IF Offset(w0.d) = 0 THEN [w0 EXCEPT !.d.cgiPrivData = FALSE] ELSE w0
             refused == [w EXCEPT !.d.cgiPrivData = TRUE]
             written == [w EXCEPT !.flash = FlashWrite(w.d, @)]
             Fine(v) == /\ Shape(v) /\ v.files = w0.files /\ v.sends = w0.sends
                        /\ v.d \in SlotType /\ SameSlot(w0.d, v.d)
  <1>1. Fine(w0)
    BY DEF Good, SameSlot
  <1>2. Fine([w0 EXCEPT !.d.cgiPrivData = FALSE])
    <2> DEFINE v == [w0 EXCEPT !.d.cgiPrivData = FALSE]
    <2>1. /\ Shape(v) /\ v.files = w0.files /\ v.sends = w0.sends
          /\ v.d = [w0.d EXCEPT !.cgiPrivData = FALSE]
      BY DEF Good, Shape, WorldFields, SlotFields
    <2> HIDE DEF v
    <2>2. v.d \in SlotType /\ SameSlot(w0.d, v.d)
      BY <2>1 DEF Good, SlotType, SameSlot
    <2> QED BY <2>1, <2>2 DEF v
  <1>3. Fine(w)
    BY <1>1, <1>2
  <1> HIDE DEF w
  <1>4. Fine(refused)
    <2>1. /\ Shape(refused) /\ refused.files = w.files /\ refused.sends = w.sends
          /\ refused.d = [w.d EXCEPT !.cgiPrivData = TRUE]
      BY <1>3 DEF Shape, WorldFields, SlotFields
    <2> HIDE DEF refused
    <2>2. refused.d \in SlotType /\ SameSlot(w0.d, refused.d)
      BY <1>3, <2>1 DEF SlotType, SameSlot
    <2> QED BY <1>3, <2>1, <2>2
  <1>5. Fine(written)
    BY <1>3 DEF Shape, WorldFields, SlotFields
  <1> HIDE DEF refused, written
  <1>6. ASSUME NEW v, Fine(v), NEW y, Passive(v, y)
        PROVE  Effect(w0, y)
    BY <1>6 DEF Passive, Effect, NoFile, Good
  <1> HIDE DEF Fine
  <1>7. \A v : Fine(v) => Shape(v) /\ v.sends \in Nat
    BY DEF Fine, Good
  <1>8. /\ Effect(w0, Return(w0, "DONE")) /\ Effect(w0, Return(w, "DONE"))
        /\ Effect(w0, Return(written, "MORE"))
    BY <1>1, <1>3, <1>5, <1>6, <1>7, PassiveReturn
  <1>9. /\ Effect(w0, Return(httpdSend(refused, <<UploadError(w.d)>>), "DONE"))
        /\ Effect(w0, Return(httpdSend(written, <<200>>), "DONE"))
    BY <1>4, <1>5, <1>6, <1>7, PassiveSendReturn
  <1> QED BY <1>8, <1>9 DEF cgiUploadFirmware, w, refused, written

\* Every CGI function, and the flush that follows it.
LEMMA CgiEffect ==
    ASSUME NEW w, Good(w), w.d.cgi \in Cgis, NEW stale
    PROVE  Effect(w, httpdFlushSendBuffer(Cgi(w, stale)))
           /\ Effect(w, Cgi(w, stale))
  <1>1. ASSUME w.d.cgi \notin FileCgis
        PROVE  (\A code : Effect(w, OneShot(w, code))) /\ Effect(w, authBasic(w))
    <2>1. \A r : Effect(w, Return(w, r))
      BY <1>1, PassiveReturn, PassiveEffect DEF Good
    <2>2. \A data, r : Effect(w, Return(httpdSend(w, data), r))
      BY <1>1, PassiveSendReturn, PassiveEffect DEF Good
    <2> QED BY <2>1, <2>2 DEF OneShot, authBasic
  <1>2. w.d.cgiData = NULL \/ w.d.cgiData \in Nat
    BY DEF Good, SlotType
  <1>3. w.d.cgi \in FileCgis <=> w.d.cgi \in {"cgiEspFsHook", "cgiEspFsTemplate"}
    BY DEF FileCgis
  <1>4. Effect(w, Cgi(w, stale))
    <2>1. CASE w.d.cgi \in FileCgis
      BY <2>1, HookEffect, TemplateEffect DEF Cgi, FileCgis
    <2>2. CASE w.d.cgi \notin FileCgis
      BY <1>1, <1>2, <1>3, <2>2, FlashEffect, UploadEffect DEF Cgi, Cgis
    <2> QED BY <2>1, <2>2
  <1> DEFINE v == Cgi(w, stale)
             y == httpdFlushSendBuffer(v)
  <1> HIDE DEF v
  <1>5. Passive(v, y) /\ y.r = v.r
    BY <1>4, PassiveFlush DEF Effect, v
  <1> HIDE DEF y
  <1>6. Effect(w, y)
    BY <1>4, <1>5 DEF Effect, Passive, NoFile, OpensFile, ReadsFile, ClosesFile, v
  <1> QED BY <1>4, <1>6 DEF v, y

-----------------------------------------------------------------------------
(* The invariant *)

LeftOf(cl, s) == IF cl.cb \in {"recv", "process"} /\ cl.slot = s THEN cl.left ELSE 0
WhereOf(cl, s) == IF cl.cb = "process" /\ cl.slot = s THEN "table" ELSE "net"

\* A request that is handed to the table at once, with its whole body.
Whole(d) == d.len \in 0 .. MaxPost

\* What a slot says of its request: nothing before the head is complete;
\* then how much of the body has come, and that a body that fits is handed
\* over once, when it is complete.  "left" are the units in hand, "at" is
\* where they are: the table is being asked, or not.
Asks(d, rq, rc) == rq[d.conn] # NULL /\ rc[d.conn] <= Length(rq[d.conn])
Counted(d, left, rq, rc) ==
    /\ d.len < 0 => d.cgi = NULL /\ d.received = 0 /\ d.buffLen = 0
    /\ d.len >= 0 => /\ d.len = rq[d.conn].len
                     /\ d.received + left = rc[d.conn] - rq[d.conn].head
Once(d, at) ==
    /\ at = "table" => d.len >= 0 /\ (Whole(d) => d.cgi \notin FileCgis \/ d.cgiData = NULL)
    /\ Whole(d) => \/ d.received = d.len
                   \/ at # "table" /\ d.cgi = NULL /\ d.buffLen = d.received

SlotInv(d, left, at, rq, rc) ==
    /\ d.conn = NULL => d.cgi = NULL
    /\ d.conn # NULL => Asks(d, rq, rc) /\ Counted(d, left, rq, rc) /\ Once(d, at)

SlotsInv == \A s \in Slots :
    SlotInv(connData[s], LeftOf(call, s), WhereOf(call, s), req, received)

States == {"none", "open", "finished", "left", "reset", "refused", "gone"}
Types ==
    /\ connData \in [Slots -> SlotType] /\ FilesOK(files)
    /\ state \in [Conns -> States] /\ req \in Scenarios
    /\ received \in [Conns -> Nat] /\ pending \in [Conns -> Nat]

Calls ==
    /\ call = NoCall \/ InRecv \/ InProcess \/ InDiscon
    /\ InRecv => call.left \in Nat \ {0}
    /\ InProcess => call.left \in Nat
    /\ InRecv \/ InProcess => D.conn # NULL

Unheard == \A c \in Conns : state[c] = "none" => received[c] = 0

\* The file in the hands of a slot is the one opened for its connection,
\* and only a body that is handed over in parts leaves one behind.
HeldBy(d, fs) ==
    d.cgi \in FileCgis /\ d.cgiData # NULL =>
        /\ d.cgiData \in Handles /\ d.conn # NULL
        /\ fs[d.cgiData].owner = d.conn
        /\ fs[d.cgiData].streamed = (d.len > MaxPost)
Held == \A s \in Slots : HeldBy(connData[s], files)
Kept == \A h \in Handles : files[h].owner # NULL /\ ~files[h].streamed =>
            \E s \in Slots : Serves(connData[s], h)

FilesInv == PoolInv /\ Types /\ Calls /\ Unheard /\ SlotsInv /\ Held /\ Kept

\* The start.
LEMMA FilesInit == Init => FilesInv
  <1> SUFFICES ASSUME Init PROVE FilesInv
    OBVIOUS
  <1>1. PoolInv
    BY PoolInit
  <1>2. FreeSlot \in SlotType
    BY DEF FreeSlot, SlotType
  <1>3. FileOK(Closed) /\ Closed.owner = NULL
    BY DEF FileOK, Closed, FileFields
  <1>4. Types
    BY <1>2, <1>3 DEF Init, Types, FilesOK, States
  <1>5. Calls /\ Unheard
    BY DEF Init, Calls, Unheard, NoCall, InRecv, InProcess, InDiscon
  <1>6. SlotsInv /\ Held /\ Kept
    <2>1. FreeSlot.conn = NULL /\ FreeSlot.cgi = NULL /\ FreeSlot.cgiData = NULL
      BY DEF FreeSlot
    <2> QED BY <1>3, <2>1 DEF Init, SlotsInv, SlotInv, Held, HeldBy, Kept
  <1> QED BY <1>1, <1>4, <1>5, <1>6 DEF FilesInv

\* What a connection that was made asks for.
LEMMA Requests ==
    ASSUME Types, NEW c \in Conns, req[c] # NULL
    PROVE  /\ req[c] \in RequestType /\ req[c].head \in Nat \ {0} /\ req[c].len \in Nat
           /\ req[c].url \in Urls \cup {NULL} /\ Length(req[c]) = req[c].head + req[c].len
  BY HttpdAssumption DEF Types, RequestType, Length

\* The units in hand when the callback goes on.
LEMMA RecvLeft ==
    ASSUME NEW s, NEW n \in Nat, NEW t
    PROVE  /\ LeftOf(Recv(s, n), t) = (IF t = s THEN n ELSE 0)
           /\ WhereOf(Recv(s, n), t) = "net"
  BY DEF Recv, LeftOf, WhereOf, NoCall

\* The call goes on with the units that are left.
LEMMA RecvCalls ==
    ASSUME NEW s \in Slots, NEW n \in Nat, call' = Recv(s, n), connData'[s].conn # NULL
    PROVE  Calls'
  BY DEF Calls, Recv, InRecv, InProcess, InDiscon, NoCall, D

\* Nobody has units in hand outside of those two calls.
LEMMA NoLeft ==
    ASSUME NEW cl, cl.cb \notin {"recv", "process"}, NEW t
    PROVE  LeftOf(cl, t) = 0 /\ WhereOf(cl, t) = "net"
  BY DEF LeftOf, WhereOf

\* A step of one slot.
LEMMA SlotStep ==
    ASSUME FilesInv, NEW s \in Slots, UNCHANGED <<req, received>>,
           \A t \in Slots : t # s => /\ connData'[t] = connData[t]
                                     /\ LeftOf(call', t) = LeftOf(call, t)
                                     /\ WhereOf(call', t) = WhereOf(call, t),
           SlotInv(connData'[s], LeftOf(call', s), WhereOf(call', s), req, received)
    PROVE  SlotsInv'
  BY DEF FilesInv, SlotsInv

\* What a step of one slot may do to the files: those it neither has in its
\* hands nor finds closed stay, and an open one of the others, if it is not
\* one that may be left behind, is in its hands afterwards.
LEMMA FileStep ==
    ASSUME PoolInv, Held, Kept, NEW s \in Slots,
           \A t \in Slots : t # s => connData'[t] = connData[t],
           HeldBy(connData'[s], files'),
           \A h \in Handles :
              IF files[h].owner = NULL \/ Serves(connData[s], h)
              THEN files'[h].owner # NULL /\ ~files'[h].streamed => Serves(connData'[s], h)
              ELSE files'[h].owner = files[h].owner /\ files'[h].streamed = files[h].streamed
    PROVE  Held' /\ Kept'
  <1>1. ASSUME NEW t \in Slots, t # s PROVE HeldBy(connData'[t], files')
    <2> DEFINE d == connData[t]
    <2> SUFFICES ASSUME d.cgi \in FileCgis, d.cgiData # NULL
                 PROVE  /\ d.cgiData \in Handles /\ d.conn # NULL
                        /\ files'[d.cgiData].owner = d.conn
                        /\ files'[d.cgiData].streamed = (d.len > MaxPost)
      BY <1>1 DEF HeldBy
    <2>1. /\ d.cgiData \in Handles /\ d.conn # NULL
          /\ files[d.cgiData].owner = d.conn
          /\ files[d.cgiData].streamed = (d.len > MaxPost)
      BY DEF Held, HeldBy
    <2>2. ~Serves(connData[s], d.cgiData)
      <3> SUFFICES ASSUME Serves(connData[s], d.cgiData) PROVE FALSE
        OBVIOUS
      <3>1. d.cgiData # NULL /\ connData[s].cgiData = d.cgiData
        BY DEF Serves
      <3>2. files[d.cgiData].owner = connData[s].conn
        BY <3>1 DEF Serves, Held, HeldBy
      <3> QED BY <1>1, <2>1, <3>2 DEF PoolInv, Unique
    <2> QED BY <2>1, <2>2
  <1>2. Held'
    BY <1>1 DEF Held
  <1>3. Kept'
    <2> SUFFICES ASSUME NEW h \in Handles, files'[h].owner # NULL, ~files'[h].streamed
                 PROVE  \E t \in Slots : Serves(connData'[t], h)
      BY DEF Kept
    <2>1. CASE files[h].owner = NULL \/ Serves(connData[s], h)
      BY <2>1
    <2>2. CASE ~(files[h].owner = NULL \/ Serves(connData[s], h))
      <3>1. PICK t \in Slots : Serves(connData[t], h)
        BY <2>2 DEF Kept
      <3>2. t # s
        BY <2>2, <3>1
      <3> QED BY <3>1, <3>2
    <2> QED BY <2>1, <2>2
  <1> QED BY <1>2, <1>3

\* A step that leaves the files alone and does not change what its slot has
\* in its hands.
LEMMA IdleStep ==
    ASSUME PoolInv, Held, Kept, NEW s \in Slots, files' = files,
           \A t \in Slots : t # s => connData'[t] = connData[t],
           connData'[s].cgi = connData[s].cgi, connData'[s].cgiData = connData[s].cgiData,
           \/ connData[s].cgi = NULL
           \/ connData'[s].conn = connData[s].conn /\ connData'[s].len = connData[s].len
    PROVE  Held' /\ Kept'
  <1>1. NULL \notin FileCgis
    BY HttpdAssumption DEF FileCgis, Cgis
  <1>2. HeldBy(connData'[s], files')
    BY <1>1 DEF Held, HeldBy
  <1>3. \A h \in Handles : files[h].owner # NULL /\ Serves(connData[s], h) => Serves(connData'[s], h)
    BY DEF Serves
  <1>4. ASSUME NEW h \in Handles
        PROVE IF files[h].owner = NULL \/ Serves(connData[s], h)
              THEN files'[h].owner # NULL /\ ~files'[h].streamed => Serves(connData'[s], h)
              ELSE files'[h].owner = files[h].owner /\ files'[h].streamed = files[h].streamed
    BY <1>3
  <1> QED BY <1>2, <1>4, FileStep

-----------------------------------------------------------------------------
(* The steps *)

\* httpdConnectCb: the slot it takes has nothing in its hands.
LEMMA FilesConnect ==
    ASSUME FilesInv, NEW c \in Conns, httpdConnectCb(c)
    PROVE  FilesInv'
  <1>1. PoolInv'
    BY PoolConnect DEF FilesInv
  <1>2. /\ call = NoCall /\ call' = call /\ files' = files /\ req' = req
        /\ received' = received /\ pending' = pending
        /\ req[c] # NULL /\ state[c] = "none"
    BY DEF httpdConnectCb
  <1>3. Calls'
    BY <1>2 DEF Calls, InRecv, InProcess, InDiscon, NoCall
  <1>4. CASE Unused = {}
    <2>1. connData' = connData /\ state' = [state EXCEPT ![c] = "refused"]
      BY <1>4 DEF httpdConnectCb
    <2>2. Types'
      BY <1>2, <2>1 DEF FilesInv, Types, States
    <2>3. Unheard'
      BY <1>2, <2>1 DEF FilesInv, Unheard, Types
    <2>4. SlotsInv' /\ Held' /\ Kept'
      BY <1>2, <2>1 DEF FilesInv, SlotsInv, Held, Kept
    <2> QED BY <1>1, <1>3, <2>2, <2>3, <2>4 DEF FilesInv
  <1>5. CASE Unused # {}
    <2> DEFINE s == CHOOSE i \in Unused : \A j \in Unused : i <= j
               d == [connData[s] EXCEPT !.conn = c, !.len = -1, !.received = 0,
                                        !.buffLen = 0]
    <2>1. s \in Unused
      <3>1. Unused \in SUBSET Nat
        BY HttpdAssumption DEF Unused, Slots
      <3> QED BY <1>5, <3>1, Least
    <2>2. /\ connData' = [connData EXCEPT ![s] = d]
          /\ state' = [state EXCEPT ![c] = "open"]
      BY <1>5 DEF httpdConnectCb
    <2> HIDE DEF s
    <2>3. s \in Slots /\ connData[s].conn = NULL /\ connData[s] \in SlotType
      BY <2>1 DEF Unused, FilesInv, Types
    <2>4. /\ d \in SlotType /\ d.conn = c /\ d.len = -1 /\ d.received = 0
          /\ d.buffLen = 0 /\ d.cgi = connData[s].cgi /\ d.cgiData = connData[s].cgiData
      BY <2>3 DEF SlotType
    <2> HIDE DEF d
    <2>5. /\ connData'[s] = d /\ connData' \in [Slots -> SlotType]
          /\ \A t \in Slots : t # s => connData'[t] = connData[t]
      BY <2>2, <2>3, <2>4 DEF FilesInv, Types
    <2>6. Types'
      BY <1>2, <2>2, <2>5 DEF FilesInv, Types, States
    <2>7. Unheard'
      BY <1>2, <2>2 DEF FilesInv, Unheard, Types
    <2>8. connData[s].cgi = NULL
      BY <2>3 DEF FilesInv, SlotsInv, SlotInv
    <2>9. SlotInv(d, LeftOf(call', s), WhereOf(call', s), req, received)
      <3>1. received[c] = 0 /\ 0 <= Length(req[c])
        BY <1>2, Requests DEF FilesInv, Unheard
      <3>2. WhereOf(call', s) = "net"
        BY <1>2 DEF WhereOf, NoCall
      <3>3. Asks(d, req, received)
        BY <1>2, <2>4, <3>1 DEF Asks
      <3>4. Counted(d, LeftOf(call', s), req, received) /\ Once(d, WhereOf(call', s))
        BY <2>4, <2>8, <3>2, HttpdAssumption DEF Counted, Once, Whole
      <3>5. d.conn # NULL
        BY <2>4, HttpdAssumption
      <3> QED BY <3>3, <3>4, <3>5 DEF SlotInv
    <2>10. SlotsInv'
      BY <1>2, <2>3, <2>5, <2>9, SlotStep
    <2>11. Held' /\ Kept'
      BY <1>2, <2>3, <2>4, <2>5, <2>8, IdleStep DEF FilesInv
    <2> QED BY <1>1, <1>3, <2>6, <2>7, <2>10, <2>11 DEF FilesInv
  <1> QED BY <1>4, <1>5

\* httpdRecvCb: the units in hand are those that have just arrived.
LEMMA FilesRecv ==
    ASSUME FilesInv, NEW c \in Conns, NEW n \in 1 .. MaxSegment, httpdRecvCb(c, n)
    PROVE  FilesInv'
  <1>1. PoolInv'
    BY PoolRecv DEF FilesInv
  <1>2. /\ call = NoCall /\ connData' = connData /\ files' = files /\ state' = state
        /\ req' = req /\ pending' = pending /\ state[c] # "none"
        /\ received' = [received EXCEPT ![c] = @ + n]
        /\ received[c] + n <= Length(req[c])
    BY DEF httpdRecvCb
  <1>3. n \in Nat \ {0}
    BY HttpdAssumption
  <1>4. /\ received'[c] = received[c] + n /\ received[c] \in Nat
        /\ \A e \in Conns : e # c => received'[e] = received[e]
        /\ received' \in [Conns -> Nat]
    BY <1>2, <1>3 DEF FilesInv, Types
  <1>5. Types' /\ Unheard' /\ Held' /\ Kept'
    BY <1>2, <1>4 DEF FilesInv, Types, Unheard, Held, Kept
  <1>6. ASSUME NEW t \in Slots, connData[t].conn # c
        PROVE  SlotInv(connData[t], 0, "net", req', received')
    <2>1. SlotInv(connData[t], 0, "net", req, received)
      BY <1>2, NoLeft DEF FilesInv, SlotsInv, NoCall
    <2>2. connData[t].conn \in Conns \cup {NULL}
      BY DEF FilesInv, Types, SlotType
    <2> QED BY <1>2, <1>4, <1>6, <2>1, <2>2 DEF SlotInv, Asks, Counted
  <1>7. CASE httpdFindConnData(c) = {}
    <2>1. call' = call
      BY <1>7 DEF httpdRecvCb
    <2>2. \A t \in Slots : connData[t].conn # c
      BY <1>7 DEF httpdFindConnData
    <2>3. SlotsInv'
      BY <1>2, <1>6, <2>1, <2>2, NoLeft DEF SlotsInv, LeftOf, WhereOf, NoCall
    <2>4. Calls'
      BY <1>2, <2>1 DEF Calls, InRecv, InProcess, InDiscon, NoCall
    <2> QED BY <1>1, <1>5, <2>3, <2>4 DEF FilesInv
  <1>8. ASSUME NEW s \in httpdFindConnData(c), call' = Recv(s, n)
        PROVE  FilesInv'
    <2>1. s \in Slots /\ connData[s].conn = c /\ c # NULL
      BY HttpdAssumption DEF httpdFindConnData
    <2>2. Calls'
      BY <1>2, <1>3, <1>8, <2>1, RecvCalls
    <2>3. \A t \in Slots : t # s => connData[t].conn # c
      BY <2>1 DEF FilesInv, PoolInv, Unique
    <2>4. \A t \in Slots : LeftOf(call', t) = (IF t = s THEN n ELSE 0) /\ WhereOf(call', t) = "net"
      BY <1>3, <1>8, RecvLeft
    <2>5. SlotInv(connData[s], n, "net", req', received')
      <3> DEFINE d == connData[s]
      <3>1. SlotInv(d, 0, "net", req, received)
        BY <1>2, <2>1, NoLeft DEF FilesInv, SlotsInv, NoCall
      <3>2. Asks(d, req', received')
        BY <1>2, <1>4, <2>1, <3>1 DEF SlotInv, Asks
      <3>3. Counted(d, n, req', received')
        <4>1. d.received \in Nat /\ req[c].head \in Nat
          BY <2>1, <3>1, Requests DEF FilesInv, Types, SlotType, SlotInv, Asks
        <4>2. d.len >= 0 => d.received + 0 = received[c] - req[c].head
          BY <2>1, <3>1 DEF SlotInv, Counted
        <4>3. d.len >= 0 => d.received + n = received'[c] - req'[c].head
          BY <1>2, <1>3, <1>4, <4>1, <4>2
        <4> QED BY <1>2, <2>1, <3>1, <4>3 DEF SlotInv, Counted
      <3> QED BY <2>1, <3>1, <3>2, <3>3 DEF SlotInv
    <2>6. SlotsInv'
      <3> SUFFICES ASSUME NEW t \in Slots
                   PROVE  SlotInv(connData'[t], LeftOf(call', t), WhereOf(call', t),
                                  req', received')
        BY DEF SlotsInv
      <3>1. CASE t = s
        BY <1>2, <2>4, <2>5, <3>1
      <3>2. CASE t # s
        BY <1>2, <1>6, <2>3, <2>4, <3>2
      <3> QED BY <3>1, <3>2
    <2> QED BY <1>1, <1>5, <2>2, <2>6 DEF FilesInv
  <1> QED BY <1>7, <1>8 DEF httpdRecvCb

\* While units are in hand they are those of a slot with a connection.
LEMMA InHand ==
    ASSUME FilesInv, InRecv \/ InProcess
    PROVE  /\ call.slot \in Slots /\ D = connData[call.slot] /\ D.conn \in Conns
           /\ D.conn # NULL /\ D \in SlotType /\ call.left \in Nat
           /\ InRecv => call.left \in Nat \ {0}
           /\ InRecv => SlotInv(D, call.left, "net", req, received)
           /\ InProcess => SlotInv(D, call.left, "table", req, received)
           /\ \A t \in Slots : t # call.slot => LeftOf(call, t) = 0 /\ WhereOf(call, t) = "net"
  <1>1. call.slot \in Slots /\ D = connData[call.slot] /\ D.conn # NULL
    BY DEF FilesInv, PoolInv, CallOK, D, Calls
  <1>2. D \in SlotType /\ D.conn \in Conns
    BY <1>1 DEF FilesInv, Types, SlotType
  <1>3. call.left \in Nat /\ (InRecv => call.left \in Nat \ {0})
    BY DEF FilesInv, Calls
  <1>4. /\ LeftOf(call, call.slot) = call.left
        /\ InRecv => WhereOf(call, call.slot) = "net"
        /\ InProcess => WhereOf(call, call.slot) = "table"
    BY DEF LeftOf, WhereOf, InRecv, InProcess
  <1>5. /\ InRecv => SlotInv(D, call.left, "net", req, received)
        /\ InProcess => SlotInv(D, call.left, "table", req, received)
    <2>1. SlotInv(D, LeftOf(call, call.slot), WhereOf(call, call.slot), req, received)
      BY <1>1 DEF FilesInv, SlotsInv
    <2> QED BY <1>4, <2>1
  <1>6. \A t \in Slots : t # call.slot => LeftOf(call, t) = 0 /\ WhereOf(call, t) = "net"
    BY DEF LeftOf, WhereOf
  <1> QED BY <1>1, <1>2, <1>3, <1>5, <1>6

\* One unit of the units in hand is done with.
LEMMA UnitStep ==
    ASSUME FilesInv, InRecv, NEW d,
           connData' = [connData EXCEPT ![call.slot] = d],
           UNCHANGED <<files, state, req, received, pending>>,
           d \in SlotType, d.conn = D.conn, d.cgi = D.cgi, d.cgiData = D.cgiData,
           D.cgi = NULL \/ d.len = D.len,
           \/ call' = Recv(call.slot, call.left - 1)
              /\ SlotInv(d, call.left - 1, "net", req, received)
           \/ Process /\ SlotInv(d, call.left - 1, "table", req, received)
    PROVE  Types' /\ Calls' /\ Unheard' /\ SlotsInv' /\ Held' /\ Kept'
  <1> DEFINE s == call.slot
  <1>1. /\ s \in Slots /\ D = connData[s] /\ D.conn # NULL /\ call.left - 1 \in Nat
        /\ \A t \in Slots : t # s => LeftOf(call, t) = 0 /\ WhereOf(call, t) = "net"
    BY InHand
  <1>2. /\ connData'[s] = d /\ connData' \in [Slots -> SlotType]
        /\ \A t \in Slots : t # s => connData'[t] = connData[t]
    BY <1>1 DEF FilesInv, Types
  <1>3. Types' /\ Unheard'
    BY <1>2 DEF FilesInv, Types, Unheard
  <1>4. Held' /\ Kept'
    BY <1>1, <1>2, IdleStep DEF FilesInv
  <1>5. CASE /\ call' = Recv(s, call.left - 1)
             /\ SlotInv(d, call.left - 1, "net", req, received)
    <2>1. Calls'
      BY <1>1, <1>2, <1>5, RecvCalls
    <2>2. \A t \in Slots : /\ LeftOf(call', t) = (IF t = s THEN call.left - 1 ELSE 0)
                           /\ WhereOf(call', t) = "net"
      BY <1>1, <1>5, RecvLeft
    <2>3. SlotsInv'
      BY <1>1, <1>2, <1>5, <2>2, SlotStep
    <2> QED BY <1>3, <1>4, <2>1, <2>3
  <1>6. CASE Process /\ SlotInv(d, call.left - 1, "table", req, received)
    <2>1. Calls'
      BY <1>1, <1>2, <1>6 DEF Process, Calls, InRecv, InProcess, InDiscon, D
    <2>2. \A t \in Slots : /\ LeftOf(call', t) = (IF t = s THEN call.left - 1 ELSE 0)
                           /\ WhereOf(call', t) = (IF t = s THEN "table" ELSE "net")
      BY <1>6 DEF Process, LeftOf, WhereOf
    <2>3. SlotsInv'
      BY <1>1, <1>2, <1>6, <2>2, SlotStep
    <2> QED BY <1>3, <1>4, <2>1, <2>3
  <1> QED BY <1>5, <1>6

\* A unit of the head.
LEMMA FilesHead ==
    ASSUME FilesInv, HeadByte
    PROVE  FilesInv'
  <1>1. PoolInv'
    BY PoolHead DEF FilesInv
  <1>2. InRecv /\ ~InProcess /\ D.len < 0
    BY DEF HeadByte, InRecv, InProcess
  <1>3. SlotInv(D, call.left - 1, "net", req, received)
    <2>1. SlotInv(D, call.left, "net", req, received) /\ D.conn # NULL
      BY <1>2, InHand
    <2>2. ~(D.len >= 0)
      BY <1>2, InHand DEF SlotType
    <2> QED BY <2>1, <2>2 DEF SlotInv, Counted
  <1>4. connData' = [connData EXCEPT ![call.slot] = D]
    BY <1>2, InHand DEF HeadByte, FilesInv, Types
  <1>5. Types' /\ Calls' /\ Unheard' /\ SlotsInv' /\ Held' /\ Kept'
    BY <1>2, <1>3, <1>4, InHand, UnitStep DEF HeadByte, RecvNext, net
  <1> QED BY <1>1, <1>5 DEF FilesInv

\* The end of the head: a request without a body goes to the table.
LEMMA FilesHeadEnd ==
    ASSUME FilesInv, HeadEnd
    PROVE  FilesInv'
  <1> DEFINE q == req[D.conn]
             d == [D EXCEPT !.url = q.url, !.len = q.len]
  <1>1. PoolInv'
    BY PoolHeadEnd DEF FilesInv
  <1>2. InRecv /\ ~InProcess /\ D.len < 0 /\ HeadComplete
    BY DEF HeadEnd, InRecv, InProcess
  <1>3. /\ call.slot \in Slots /\ D = connData[call.slot] /\ D.conn \in Conns
        /\ D.conn # NULL /\ D \in SlotType /\ call.left \in Nat \ {0}
        /\ SlotInv(D, call.left, "net", req, received)
    BY <1>2, InHand
  <1>4. /\ D.cgi = NULL /\ D.received = 0 /\ D.buffLen = 0 /\ q # NULL
        /\ Asks(D, req, received)
    BY <1>2, <1>3 DEF SlotInv, Counted, Asks
  <1>5. q.head \in Nat /\ q.len \in Nat /\ q.url \in Urls \cup {NULL}
    BY <1>3, <1>4, Requests DEF FilesInv
  <1>6. /\ d \in SlotType /\ d.conn = D.conn /\ d.cgi = NULL /\ d.cgiData = D.cgiData
        /\ d.len = q.len /\ d.received = 0 /\ d.buffLen = 0
    <2> HIDE DEF D, q
    <2> QED BY <1>3, <1>4, <1>5 DEF SlotType
  <1>7. connData' = [connData EXCEPT ![call.slot] = d]
    BY <1>3 DEF HeadEnd, FilesInv, Types, SlotType
  <1> HIDE DEF d
  <1>8. 0 + (call.left - 1) = received[D.conn] - q.head
    BY <1>2, <1>3, <1>5 DEF HeadComplete, FilesInv, Types
  <1>9. Asks(d, req, received) /\ Counted(d, call.left - 1, req, received)
    BY <1>3, <1>4, <1>5, <1>6, <1>8 DEF Asks, Counted
  <1>10. SlotInv(d, call.left - 1, "net", req, received)
    BY <1>3, <1>6, <1>9 DEF SlotInv, Once
  <1>11. ASSUME q.len = 0
         PROVE  SlotInv(d, call.left - 1, "table", req, received)
    <2>1. d.len >= 0 /\ d.received = d.len
      BY <1>6, <1>11
    <2>2. d.cgi \notin FileCgis
      BY <1>6, HttpdAssumption DEF FileCgis, Cgis
    <2> QED BY <1>3, <1>6, <1>9, <2>1, <2>2 DEF SlotInv, Once
  <1>12. UNCHANGED <<files, state, req, received, pending>>
    BY DEF HeadEnd, net
  <1>13. \/ Process /\ SlotInv(d, call.left - 1, "table", req, received)
         \/ /\ call' = Recv(call.slot, call.left - 1)
            /\ SlotInv(d, call.left - 1, "net", req, received)
    BY <1>10, <1>11 DEF HeadEnd, RecvNext
  <1>14. Types' /\ Calls' /\ Unheard' /\ SlotsInv' /\ Held' /\ Kept'
    BY <1>2, <1>4, <1>6, <1>7, <1>12, <1>13, UnitStep
  <1> QED BY <1>1, <1>14 DEF FilesInv

\* A unit of the body: a body that fits goes to the table when it is
\* complete and not before, with nothing in the hands of the slot.
LEMMA FilesPost ==
    ASSUME FilesInv, PostByte
    PROVE  FilesInv'
  <1> DEFINE q == req[D.conn]
             d == [D EXCEPT !.buffLen = @ + 1, !.received = @ + 1]
             full == D.buffLen + 1 >= BuffSize \/ D.received + 1 = D.len
  <1>1. PoolInv'
    BY PoolPost DEF FilesInv
  <1>2. InRecv /\ ~InProcess /\ D.len > 0
    BY DEF PostByte, InRecv, InProcess
  <1>3. /\ call.slot \in Slots /\ D = connData[call.slot] /\ D.conn \in Conns
        /\ D.conn # NULL /\ D \in SlotType /\ call.left \in Nat \ {0}
        /\ SlotInv(D, call.left, "net", req, received)
    BY <1>2, InHand
  <1>4. /\ D.len \in Int /\ D.received \in Nat /\ D.buffLen \in Nat
    BY <1>3 DEF SlotType
  <1>5. /\ q # NULL /\ received[D.conn] <= Length(q) /\ D.len = q.len
        /\ D.received + call.left = received[D.conn] - q.head
        /\ Once(D, "net") /\ Asks(D, req, received)
    BY <1>2, <1>3, <1>4 DEF SlotInv, Counted, Asks
  <1>6. q.head \in Nat /\ q.len \in Nat /\ Length(q) = q.head + q.len
    BY <1>3, <1>5, Requests DEF FilesInv
  <1>7. received[D.conn] \in Nat
    BY <1>3 DEF FilesInv, Types
  <1>8. D.received < D.len /\ D.received + 1 + (call.left - 1) = received[D.conn] - q.head
    BY <1>3, <1>4, <1>5, <1>6, <1>7
  <1>9. /\ d \in SlotType /\ d.conn = D.conn /\ d.cgi = D.cgi /\ d.cgiData = D.cgiData
        /\ d.len = D.len /\ d.received = D.received + 1 /\ d.buffLen = D.buffLen + 1
    <2> DEFINE m == D.buffLen + 1
               n == D.received + 1
    <2>1. m \in Nat /\ n \in Nat
      BY <1>4
    <2> HIDE DEF m, n
    <2>2. d = [D EXCEPT !.buffLen = m, !.received = n]
      BY DEF m, n
    <2>3. /\ d \in SlotType /\ d.conn = D.conn /\ d.cgi = D.cgi /\ d.cgiData = D.cgiData
          /\ d.len = D.len /\ d.received = n /\ d.buffLen = m
      BY <1>3, <2>1, <2>2 DEF SlotType
    <2> QED BY <2>3 DEF m, n
  <1>10. connData' = [connData EXCEPT ![call.slot] = d]
    BY <1>3 DEF PostByte, FilesInv, Types, SlotType
  <1> HIDE DEF d
  <1>11. Whole(D) => D.cgi = NULL /\ D.buffLen = D.received
    BY <1>4, <1>5, <1>8 DEF Once
  <1>12. Asks(d, req, received)
    BY <1>5, <1>9 DEF Asks
  <1>13. Counted(d, call.left - 1, req, received)
    <2>1. ~(d.len < 0)
      BY <1>2, <1>4, <1>9
    <2> QED BY <1>5, <1>8, <1>9, <2>1 DEF Counted
  <1>14. ASSUME ~full
         PROVE  SlotInv(d, call.left - 1, "net", req, received)
    <2>1. Whole(d) => d.buffLen = d.received
      BY <1>9, <1>11 DEF Whole
    <2>2. Whole(d) => d.cgi = NULL
      BY <1>9, <1>11 DEF Whole
    <2>3. Once(d, "net")
      BY <2>1, <2>2 DEF Once
    <2> QED BY <1>3, <1>9, <1>12, <1>13, <2>3 DEF SlotInv
  <1>15. ASSUME full
         PROVE  SlotInv(d, call.left - 1, "table", req, received)
    <2>1. Whole(D) => d.received = d.len
      <3> SUFFICES ASSUME Whole(D) PROVE d.received = d.len
        OBVIOUS
      <3>1. BuffSize = D.len
        BY <1>4, HttpdAssumption DEF Whole, BuffSize, MinNat
      <3> HIDE DEF full
      <3>2. D.buffLen + 1 >= D.len \/ D.received + 1 = D.len
        BY <1>15, <3>1 DEF full
      <3> QED BY <1>4, <1>8, <1>9, <1>11, <3>2
    <2>2. d.len >= 0 /\ (Whole(d) => Whole(D))
      BY <1>2, <1>4, <1>9 DEF Whole
    <2>3. Whole(d) => d.cgi \notin FileCgis
      BY <1>9, <1>11, <2>2, HttpdAssumption DEF FileCgis, Cgis
    <2>4. Once(d, "table")
      BY <2>1, <2>2, <2>3 DEF Once
    <2> QED BY <1>3, <1>9, <1>12, <1>13, <2>4 DEF SlotInv
  <1>16. UNCHANGED <<files, state, req, received, pending>>
    BY DEF PostByte, net
  <1>17. \/ Process /\ SlotInv(d, call.left - 1, "table", req, received)
         \/ /\ call' = Recv(call.slot, call.left - 1)
            /\ SlotInv(d, call.left - 1, "net", req, received)
    BY <1>14, <1>15 DEF PostByte, RecvNext
  <1>18. Types' /\ Calls' /\ Unheard' /\ SlotsInv' /\ Held' /\ Kept'
    BY <1>2, <1>9, <1>10, <1>16, <1>17, UnitStep
  <1> QED BY <1>1, <1>18 DEF FilesInv

\* What httpdProcessRequest stores at its end.
LEMMA ReturnStep ==
    ASSUME FilesInv, InProcess, NEW w, ProcessReturn(w),
           UNCHANGED <<state, req, received>>, Shape(w), w.d \in SlotType,
           w.sends \in Nat, FilesOK(w.files), w.d.conn = D.conn, w.d.len = D.len,
           w.d.received = D.received
    PROVE  /\ Types' /\ Calls' /\ Unheard' /\ SlotsInv' /\ files' = w.files
           /\ connData'[call.slot].conn = D.conn /\ connData'[call.slot].len = D.len
           /\ connData'[call.slot].cgi = w.d.cgi
           /\ connData'[call.slot].cgiData = w.d.cgiData
           /\ \A t \in Slots : t # call.slot => connData'[t] = connData[t]
  <1> DEFINE v == [w EXCEPT !.d.buffLen = 0]
             s == call.slot
  <1>1. /\ s \in Slots /\ D = connData[s] /\ D.conn \in Conns /\ D.conn # NULL
        /\ D \in SlotType /\ call.left \in Nat
        /\ SlotInv(D, call.left, "table", req, received)
        /\ \A t \in Slots : t # s => LeftOf(call, t) = 0 /\ WhereOf(call, t) = "net"
    BY InHand
  <1>2. v.files = w.files /\ v.sends = w.sends /\ v.d = [w.d EXCEPT !.buffLen = 0]
    BY DEF Shape, WorldFields, SlotFields
  <1> HIDE DEF v
  <1>3. /\ v.d \in SlotType /\ v.d.conn = D.conn /\ v.d.len = D.len
        /\ v.d.received = D.received /\ v.d.cgi = w.d.cgi /\ v.d.cgiData = w.d.cgiData
        /\ v.d.buffLen = 0
    BY <1>2 DEF SlotType
  <1>4. /\ connData' = [connData EXCEPT ![s] = v.d] /\ files' = v.files
        /\ call' = Recv(s, call.left)
        /\ pending' = [pending EXCEPT ![D.conn] = @ + w.sends]
    BY DEF ProcessReturn, Finish, v
  <1>5. /\ connData'[s] = v.d /\ connData' \in [Slots -> SlotType]
        /\ \A t \in Slots : t # s => connData'[t] = connData[t]
    BY <1>1, <1>3, <1>4 DEF FilesInv, Types
  <1>6. pending' \in [Conns -> Nat]
    BY <1>1, <1>4 DEF FilesInv, Types
  <1>7. Types' /\ Unheard'
    BY <1>2, <1>4, <1>5, <1>6 DEF FilesInv, Types, Unheard
  <1>8. Calls'
    BY <1>1, <1>3, <1>4, <1>5, RecvCalls
  <1>9. \A t \in Slots : /\ LeftOf(call', t) = (IF t = s THEN call.left ELSE 0)
                         /\ WhereOf(call', t) = "net"
    BY <1>1, <1>4, RecvLeft
  <1>10. SlotInv(v.d, call.left, "net", req, received)
    <2>1. Asks(D, req, received) /\ Counted(D, call.left, req, received) /\ Once(D, "table")
      BY <1>1 DEF SlotInv
    <2>2. D.len >= 0 /\ ~(D.len < 0)
      BY <1>1, <2>1 DEF Once, SlotType
    <2>3. Asks(v.d, req, received) /\ Counted(v.d, call.left, req, received)
      BY <1>3, <2>1, <2>2 DEF Asks, Counted
    <2>4. Once(v.d, "net")
      BY <1>3, <2>1 DEF Once, Whole
    <2> QED BY <1>1, <1>3, <2>3, <2>4 DEF SlotInv
  <1>11. SlotsInv'
    BY <1>1, <1>5, <1>9, <1>10, SlotStep
  <1> QED BY <1>2, <1>3, <1>4, <1>5, <1>7, <1>8, <1>11

\* A request without a URL: nothing is asked.
LEMMA FilesNoUrl ==
    ASSUME FilesInv, NoUrl
    PROVE  FilesInv'
  <1>1. PoolInv'
    BY PoolNoUrl DEF FilesInv
  <1>2. InProcess /\ ProcessReturn(World(D)) /\ UNCHANGED <<state, req, received>>
    BY DEF NoUrl
  <1>3. /\ call.slot \in Slots /\ D = connData[call.slot] /\ D \in SlotType
    BY <1>2, InHand
  <1>4. Shape(World(D)) /\ World(D).d = D /\ World(D).files = files /\ World(D).sends = 0
    <2>1. DOMAIN D = SlotFields
      BY <1>3 DEF SlotType, SlotFields
    <2> QED BY <2>1, WorldShape DEF World
  <1>5. FilesOK(files)
    BY DEF FilesInv, Types
  <1>6. /\ Types' /\ Calls' /\ Unheard' /\ SlotsInv' /\ files' = files
        /\ connData'[call.slot].conn = D.conn /\ connData'[call.slot].len = D.len
        /\ connData'[call.slot].cgi = D.cgi /\ connData'[call.slot].cgiData = D.cgiData
        /\ \A t \in Slots : t # call.slot => connData'[t] = connData[t]
    BY <1>2, <1>3, <1>4, <1>5, ReturnStep
  <1>7. Held' /\ Kept'
    BY <1>3, <1>6, IdleStep DEF FilesInv
  <1> QED BY <1>1, <1>6, <1>7 DEF FilesInv

\* What the slot of a request has in its hands while the table is asked is
\* left behind, and was opened for a body handed over in parts.
LEMMA LeftBehind ==
    ASSUME FilesInv, InProcess, NEW h \in Handles, Serves(D, h)
    PROVE  files[h].streamed
  <1>1. /\ call.slot \in Slots /\ D = connData[call.slot] /\ D \in SlotType
        /\ D.conn # NULL /\ SlotInv(D, call.left, "table", req, received)
    BY InHand
  <1>2. D.cgi \in FileCgis /\ D.cgiData = h /\ h # NULL
    BY HttpdAssumption DEF Serves, Handles
  <1>3. D.len >= 0 /\ ~Whole(D)
    BY <1>1, <1>2 DEF SlotInv, Once
  <1>4. D.len > MaxPost
    BY <1>1, <1>3, HttpdAssumption DEF Whole, SlotType
  <1>5. files[h].streamed = (D.len > MaxPost)
    BY <1>1, <1>2 DEF FilesInv, Held, HeldBy
  <1> QED BY <1>4, <1>5

\* No entry of the table is left.
LEMMA FilesNotFound ==
    ASSUME FilesInv, NotFound
    PROVE  FilesInv'
  <1> DEFINE d == [D EXCEPT !.cgi = NULL]
             w == httpdFlushSendBuffer(httpdSend(World(d), <<404>>))
  <1>1. PoolInv'
    BY PoolNotFound DEF FilesInv
  <1>2. InProcess /\ ProcessReturn(w) /\ UNCHANGED <<state, req, received>>
    BY DEF NotFound
  <1>3. /\ call.slot \in Slots /\ D = connData[call.slot] /\ D \in SlotType
    BY <1>2, InHand
  <1>4. /\ d \in SlotType /\ DOMAIN d = SlotFields /\ d.conn = D.conn /\ d.cgi = NULL
        /\ d.len = D.len /\ d.received = D.received
    BY <1>3 DEF SlotType, SlotFields
  <1> HIDE DEF d
  <1>5. /\ Shape(World(d)) /\ World(d).d = d /\ World(d).files = files
        /\ World(d).sends \in Nat
    BY <1>4, WorldShape DEF World
  <1>6. Passive(World(d), w)
    <2>1. Passive(World(d), httpdSend(World(d), <<404>>))
      BY <1>5, PassiveSend
    <2>2. Passive(httpdSend(World(d), <<404>>), w)
      BY <2>1, PassiveFlush DEF Passive
    <2> QED BY <2>1, <2>2 DEF Passive
  <1> HIDE DEF w
  <1>7. Shape(w) /\ w.d = d /\ w.files = files /\ w.sends \in Nat /\ FilesOK(w.files)
    BY <1>5, <1>6 DEF Passive, FilesInv, Types
  <1>8. /\ Types' /\ Calls' /\ Unheard' /\ SlotsInv' /\ files' = files
        /\ connData'[call.slot].cgi = NULL
        /\ \A t \in Slots : t # call.slot => connData'[t] = connData[t]
    BY <1>2, <1>4, <1>7, ReturnStep
  <1>9. Held' /\ Kept'
    <2>1. HeldBy(connData'[call.slot], files')
      BY <1>8, HttpdAssumption DEF HeldBy, FileCgis, Cgis
    <2>2. \A h \in Handles : Serves(connData[call.slot], h) => files[h].streamed
      BY <1>2, <1>3, LeftBehind
    <2>3. \A h \in Handles :
             IF files[h].owner = NULL \/ Serves(connData[call.slot], h)
             THEN files'[h].owner # NULL /\ ~files'[h].streamed => Serves(connData'[call.slot], h)
             ELSE files'[h].owner = files[h].owner /\ files'[h].streamed = files[h].streamed
      BY <1>8, <2>2
    <2> QED BY <1>3, <1>8, <2>1, <2>3, FileStep DEF FilesInv
  <1> QED BY <1>1, <1>8, <1>9 DEF FilesInv

\* A call of a CGI function, on the slot as it is or as the table has
\* prepared it, and what is stored of its result.
LEMMA EffectStep ==
    ASSUME FilesInv, NEW s \in Slots, NEW v, NEW w, Effect(v, w),
           v.files = files, connData[s].conn # NULL,
           v.d.conn = connData[s].conn, v.d.len = connData[s].len,
           \/ v.d.cgi = connData[s].cgi /\ v.d.cgiData = connData[s].cgiData
           \/ /\ v.d.cgiData = NULL
              /\ \A h \in Handles : Serves(connData[s], h) => files[h].streamed,
           \A t \in Slots : t # s => connData'[t] = connData[t],
           files' = w.files,
           connData'[s].conn = w.d.conn, connData'[s].len = w.d.len,
           connData'[s].cgiData = w.d.cgiData,
           connData'[s].cgi = (IF w.r = "DONE" THEN NULL ELSE w.d.cgi)
    PROVE  Held' /\ Kept'
  <1> DEFINE d == connData'[s]
  <1>1. NULL \notin FileCgis /\ \A h \in Handles : h # NULL
    BY HttpdAssumption DEF FileCgis, Cgis, Handles
  <1>2. \A h \in Handles : /\ Serves(connData[s], h) => h # NULL
                           /\ Serves(connData[s], h) => files[h].owner # NULL
    BY <1>1 DEF FilesInv, Held, HeldBy, Serves
  <1>3. CASE NoFile(v, w)
    <2>1. ~(d.cgi \in FileCgis /\ d.cgiData # NULL)
      BY <1>1, <1>3 DEF Effect, SameSlot, NoFile
    <2>2. \A h \in Handles : Serves(connData[s], h) => files[h].streamed
      BY <1>1, <1>3 DEF NoFile, Serves
    <2>3. files' = files
      BY <1>3 DEF NoFile
    <2> QED BY <2>1, <2>2, <2>3, FileStep DEF FilesInv, HeldBy
  <1>4. CASE OpensFile(v, w)
    <2> DEFINE g == w.d.cgiData
    <2>1. /\ g \in Handles /\ files[g].owner = NULL /\ files'[g].owner = d.conn
          /\ files'[g].streamed = (d.len > MaxPost) /\ OthersSame(files, files', g)
          /\ d.cgi \in FileCgis /\ d.cgiData = g /\ d.conn # NULL
      BY <1>4 DEF OpensFile, Effect, SameSlot
    <2>2. HeldBy(d, files') /\ Serves(d, g)
      BY <2>1 DEF HeldBy, Serves
    <2>3. \A h \in Handles : Serves(connData[s], h) => files[h].streamed
      BY <1>1, <1>4 DEF OpensFile, Serves
    <2>4. \A h \in Handles :
             IF files[h].owner = NULL \/ Serves(connData[s], h)
             THEN files'[h].owner # NULL /\ ~files'[h].streamed => Serves(d, h)
             ELSE files'[h].owner = files[h].owner /\ files'[h].streamed = files[h].streamed
      BY <2>1, <2>2, <2>3 DEF OthersSame
    <2> QED BY <2>2, <2>4, FileStep DEF FilesInv
  <1>5. CASE ReadsFile(v, w)
    <2> DEFINE g == v.d.cgiData
    <2>1. /\ g \in Handles /\ g # NULL /\ files'[g].owner = files[g].owner
          /\ files'[g].streamed = files[g].streamed /\ OthersSame(files, files', g)
          /\ connData[s].cgi \in FileCgis /\ connData[s].cgiData = g
          /\ d.cgi = connData[s].cgi /\ d.cgiData = g
          /\ d.conn = connData[s].conn /\ d.len = connData[s].len
      BY <1>1, <1>5 DEF ReadsFile, Effect, SameSlot
    <2>2. HeldBy(d, files')
      BY <2>1 DEF HeldBy, FilesInv, Held
    <2>3. \A h \in Handles :
             IF files[h].owner = NULL \/ Serves(connData[s], h)
             THEN files'[h].owner # NULL /\ ~files'[h].streamed => Serves(d, h)
             ELSE files'[h].owner = files[h].owner /\ files'[h].streamed = files[h].streamed
      BY <2>1 DEF OthersSame, Serves
    <2> QED BY <2>2, <2>3, FileStep DEF FilesInv
  <1>6. CASE ClosesFile(v, w)
    <2> DEFINE g == v.d.cgiData
    <2>1. /\ g \in Handles /\ g # NULL /\ files'[g].owner = NULL
          /\ OthersSame(files, files', g) /\ connData[s].cgiData = g
          /\ connData[s].cgi \in FileCgis /\ d.cgi = NULL
      BY <1>1, <1>6 DEF ClosesFile
    <2>2. HeldBy(d, files')
      BY <1>1, <2>1 DEF HeldBy
    <2>3. \A h \in Handles :
             IF files[h].owner = NULL \/ Serves(connData[s], h)
             THEN files'[h].owner # NULL /\ ~files'[h].streamed => Serves(d, h)
             ELSE files'[h].owner = files[h].owner /\ files'[h].streamed = files[h].streamed
      BY <2>1 DEF OthersSame, Serves
    <2> QED BY <2>2, <2>3, FileStep DEF FilesInv
  <1> QED BY <1>3, <1>4, <1>5, <1>6 DEF Effect

\* What a CGI function is given to work on.
LEMMA GoodWorld ==
    ASSUME FilesInv, NEW d \in SlotType, HasOpen(d, files)
    PROVE  /\ Good(World(d)) /\ World(d).d = d /\ World(d).files = files
  <1>1. DOMAIN d = SlotFields
    BY DEF SlotType, SlotFields
  <1>2. Shape(World(d)) /\ World(d).d = d
    BY <1>1, WorldShape
  <1>3. World(d).files = files /\ World(d).sends = 0
    BY DEF World
  <1> QED BY <1>2, <1>3 DEF Good, FilesInv, Types

\* An entry of the table is asked.
LEMMA FilesAskCgi ==
    ASSUME FilesInv, AskCgi
    PROVE  FilesInv'
  <1>1. PoolInv'
    BY PoolAskCgi DEF FilesInv
  <1>2. InProcess /\ UNCHANGED <<state, req, received>> /\ Matching # {}
    BY DEF AskCgi
  <1>3. /\ call.slot \in Slots /\ D = connData[call.slot] /\ D \in SlotType
        /\ D.conn # NULL /\ D.conn \in Conns /\ call.left \in Nat
        /\ SlotInv(D, call.left, "table", req, received)
        /\ \A t \in Slots : t # call.slot => LeftOf(call, t) = 0 /\ WhereOf(call, t) = "net"
    BY <1>2, InHand
  <1>4. BuiltInUrls[Entry].cgi \in Cgis
    BY <1>2, EntryCgi DEF FilesInv, PoolInv
  <1>5. /\ Asked \in SlotType /\ Asked.conn = D.conn /\ Asked.cgi \in Cgis
        /\ Asked.cgiData = NULL /\ Asked.len = D.len /\ Asked.received = D.received
        /\ Asked.buffLen = D.buffLen
    BY <1>3, <1>4 DEF Asked, SlotType
  <1> DEFINE v == World(Asked)
  <1>6. Good(v) /\ v.d = Asked /\ v.files = files
    BY <1>5, GoodWorld DEF HasOpen
  <1>7. PICK stale \in BOOLEAN : \E x \in {Cgi(v, stale)} :
          \E w \in {httpdFlushSendBuffer(x)} :
             \/ /\ w.r \in {"NOTFOUND", "AUTHENTICATED"}
                /\ connData' = [connData EXCEPT ![call.slot] = w.d]
                /\ call' = [call EXCEPT !.i = Entry + 1]
                /\ UNCHANGED <<files, flash, reply, pending>>
             \/ w.r = "MORE" /\ ProcessReturn(w)
             \/ w.r = "DONE" /\ ProcessReturn([w EXCEPT !.d.cgi = NULL])
    BY DEF AskCgi
  <1> HIDE DEF v
  <1> DEFINE w == httpdFlushSendBuffer(Cgi(v, stale))
  <1>8. \/ /\ w.r \in {"NOTFOUND", "AUTHENTICATED"}
           /\ connData' = [connData EXCEPT ![call.slot] = w.d]
           /\ call' = [call EXCEPT !.i = Entry + 1]
           /\ UNCHANGED <<files, flash, reply, pending>>
        \/ w.r = "MORE" /\ ProcessReturn(w)
        \/ w.r = "DONE" /\ ProcessReturn([w EXCEPT !.d.cgi = NULL])
    BY <1>7
  <1>9. Effect(v, w)
    BY <1>5, <1>6, CgiEffect
  <1> HIDE DEF w
  <1>10. /\ Shape(w) /\ w.d \in SlotType /\ w.sends \in Nat /\ FilesOK(w.files)
         /\ w.d.conn = D.conn /\ w.d.len = D.len /\ w.d.received = D.received
         /\ w.d.buffLen = D.buffLen /\ w.d.cgi = Asked.cgi
    BY <1>5, <1>6, <1>9 DEF Effect, SameSlot
  <1>11. \A h \in Handles : Serves(connData[call.slot], h) => files[h].streamed
    BY <1>2, <1>3, LeftBehind
  <1>12. CASE /\ w.r \in {"NOTFOUND", "AUTHENTICATED"}
              /\ connData' = [connData EXCEPT ![call.slot] = w.d]
              /\ call' = [call EXCEPT !.i = Entry + 1]
              /\ UNCHANGED <<files, flash, reply, pending>>
    <2>1. /\ connData'[call.slot] = w.d /\ connData' \in [Slots -> SlotType]
          /\ \A t \in Slots : t # call.slot => connData'[t] = connData[t]
      BY <1>3, <1>10, <1>12 DEF FilesInv, Types
    <2>2. Types' /\ Unheard'
      BY <1>2, <1>12, <2>1 DEF FilesInv, Types, Unheard
    <2>3. /\ call'.cb = "process" /\ call'.slot = call.slot /\ call'.left = call.left
      BY <1>2, <1>12 DEF FilesInv, PoolInv, CallOK, InProcess
    <2>4. Calls'
      BY <1>3, <1>10, <2>1, <2>3 DEF Calls, InRecv, InProcess, InDiscon, D
    <2>5. \A t \in Slots : LeftOf(call', t) = LeftOf(call, t) /\ WhereOf(call', t) = WhereOf(call, t)
      BY <1>2, <2>3 DEF LeftOf, WhereOf, InProcess
    <2>6. NoFile(v, w)
      BY <1>9, <1>12 DEF Effect, OpensFile, ReadsFile, ClosesFile
    <2>7. w.d.cgi \notin FileCgis \/ w.d.cgiData = NULL
      BY <1>6, <1>10, <2>6 DEF NoFile
    <2>8. SlotInv(w.d, call.left, "table", req, received)
      <3>1. Asks(D, req, received) /\ Counted(D, call.left, req, received) /\ Once(D, "table")
        BY <1>3 DEF SlotInv
      <3>2. D.len >= 0 /\ ~(D.len < 0)
        BY <1>3, <3>1 DEF Once, SlotType
      <3>3. Asks(w.d, req, received) /\ Counted(w.d, call.left, req, received)
        BY <1>10, <3>1, <3>2 DEF Asks, Counted
      <3>4. Once(w.d, "table")
        BY <1>10, <2>7, <3>1 DEF Once, Whole
      <3> QED BY <1>3, <1>10, <3>3, <3>4 DEF SlotInv
    <2>9. LeftOf(call, call.slot) = call.left /\ WhereOf(call, call.slot) = "table"
      BY <1>2 DEF LeftOf, WhereOf, InProcess
    <2>10. SlotsInv'
      BY <1>2, <1>3, <2>1, <2>5, <2>8, <2>9, SlotStep
    <2>11. Held' /\ Kept'
      <3>1. w.files = files /\ files' = w.files
        BY <1>6, <1>12, <2>6 DEF NoFile
      <3>2. w.r # "DONE"
        BY <1>12
      <3> QED BY <1>3, <1>5, <1>6, <1>9, <1>10, <1>11, <2>1, <3>1, <3>2, EffectStep
    <2> QED BY <1>1, <2>2, <2>4, <2>10, <2>11 DEF FilesInv
  <1>13. CASE w.r = "MORE" /\ ProcessReturn(w)
    <2>1. /\ Types' /\ Calls' /\ Unheard' /\ SlotsInv' /\ files' = w.files
          /\ connData'[call.slot].conn = D.conn /\ connData'[call.slot].len = D.len
          /\ connData'[call.slot].cgi = w.d.cgi
          /\ connData'[call.slot].cgiData = w.d.cgiData
          /\ \A t \in Slots : t # call.slot => connData'[t] = connData[t]
      BY <1>2, <1>10, <1>13, ReturnStep
    <2>2. w.r # "DONE"
      BY <1>13
    <2>3. Held' /\ Kept'
      BY <1>3, <1>5, <1>6, <1>9, <1>10, <1>11, <2>1, <2>2, EffectStep
    <2> QED BY <1>1, <2>1, <2>3 DEF FilesInv
  <1>14. CASE w.r = "DONE" /\ ProcessReturn([w EXCEPT !.d.cgi = NULL])
    <2> DEFINE x == [w EXCEPT !.d.cgi = NULL]
    <2>1. /\ Shape(x) /\ x.files = w.files /\ x.sends = w.sends
          /\ x.d = [w.d EXCEPT !.cgi = NULL]
      BY <1>10 DEF Shape, WorldFields, SlotFields
    <2>2. ProcessReturn(x)
      BY <1>14
    <2> HIDE DEF x
    <2>3. /\ x.d \in SlotType /\ x.d.conn = D.conn /\ x.d.len = D.len
          /\ x.d.received = D.received /\ x.d.cgi = NULL /\ x.d.cgiData = w.d.cgiData
      BY <1>10, <2>1 DEF SlotType
    <2>4. /\ Types' /\ Calls' /\ Unheard' /\ SlotsInv' /\ files' = w.files
          /\ connData'[call.slot].conn = D.conn /\ connData'[call.slot].len = D.len
          /\ connData'[call.slot].cgi = NULL
          /\ connData'[call.slot].cgiData = w.d.cgiData
          /\ \A t \in Slots : t # call.slot => connData'[t] = connData[t]
      BY <1>2, <1>10, <2>1, <2>2, <2>3, ReturnStep
    <2>5. w.r = "DONE"
      BY <1>14
    <2>6. Held' /\ Kept'
      BY <1>3, <1>5, <1>6, <1>9, <1>10, <1>11, <2>4, <2>5, EffectStep
    <2> QED BY <1>1, <2>4, <2>6 DEF FilesInv
  <1> QED BY <1>8, <1>12, <1>13, <1>14

\* httpdSentCb: the CGI function goes on, or the connection is closed.
LEMMA FilesSent ==
    ASSUME FilesInv, NEW c \in Conns, httpdSentCb(c)
    PROVE  FilesInv'
  <1>1. PoolInv'
    BY PoolSent DEF FilesInv
  <1>2. /\ call = NoCall /\ call' = call /\ req' = req /\ received' = received
        /\ pending[c] > 0 /\ state[c] # "none"
    BY DEF httpdSentCb
  <1>3. Calls'
    BY <1>2 DEF Calls, InRecv, InProcess, InDiscon, NoCall
  <1>4. \A t \in Slots : LeftOf(call, t) = 0 /\ WhereOf(call, t) = "net"
    BY <1>2, NoLeft DEF NoCall
  <1>5. \A n \in Nat : pending[c] - 1 + n \in Nat
    BY <1>2 DEF FilesInv, Types
  <1>6. pending[c] - 1 \in Nat
    BY <1>2 DEF FilesInv, Types
  <1>7. CASE /\ pending' = [pending EXCEPT ![c] = @ - 1]
             /\ UNCHANGED <<connData, files, flash, state, reply>>
    <2>1. Types'
      BY <1>2, <1>6, <1>7 DEF FilesInv, Types
    <2>2. Unheard' /\ SlotsInv' /\ Held' /\ Kept'
      BY <1>2, <1>7 DEF FilesInv, Unheard, SlotsInv, Held, Kept
    <2> QED BY <1>1, <1>3, <2>1, <2>2 DEF FilesInv
  <1>8. ASSUME NEW s \in httpdFindConnData(c), Close(s),
               pending' = [pending EXCEPT ![c] = @ - 1]
        PROVE  FilesInv'
    <2> DEFINE d == [connData[s] EXCEPT !.cgi = NULL, !.conn = NULL]
    <2>1. /\ s \in Slots /\ connData[s].conn = c /\ connData[s] \in SlotType
          /\ connData[s].cgi = NULL
      BY <1>8 DEF httpdFindConnData, FilesInv, Types, Close
    <2>2. /\ d \in SlotType /\ d.conn = NULL /\ d.cgi = NULL
          /\ d.cgiData = connData[s].cgiData
      BY <2>1 DEF SlotType
    <2>3. connData' = [connData EXCEPT ![s] = d] /\ files' = files
      BY <1>8 DEF Close, httpdRetireConn
    <2> HIDE DEF d
    <2>4. state' = [state EXCEPT ![c] = "finished"]
      BY <1>8, <2>1 DEF Close
    <2>5. /\ connData'[s] = d /\ connData' \in [Slots -> SlotType]
          /\ \A t \in Slots : t # s => connData'[t] = connData[t]
      BY <2>1, <2>2, <2>3 DEF FilesInv, Types
    <2>6. Types'
      BY <1>2, <1>6, <1>8, <2>3, <2>4, <2>5 DEF FilesInv, Types, States
    <2>7. Unheard'
      BY <1>2, <2>4 DEF FilesInv, Unheard, Types
    <2>8. SlotsInv'
      BY <1>2, <2>1, <2>2, <2>5, SlotStep DEF SlotInv
    <2>9. Held' /\ Kept'
      BY <2>1, <2>2, <2>3, <2>5, IdleStep DEF FilesInv
    <2> QED BY <1>1, <1>3, <2>6, <2>7, <2>8, <2>9 DEF FilesInv
  <1>9. ASSUME NEW s \in httpdFindConnData(c), connData[s].cgi # NULL,
               \E x \in {Cgi(World(connData[s]), FALSE)} :
                  \E w \in {httpdFlushSendBuffer(x)} :
                     /\ SentNext(s, w)
                     /\ pending' = [pending EXCEPT ![c] = @ - 1 + w.sends]
        PROVE  FilesInv'
    <2> DEFINE d == connData[s]
               v == World(d)
               w == httpdFlushSendBuffer(Cgi(v, FALSE))
    <2>1. /\ s \in Slots /\ d.conn = c /\ d \in SlotType /\ c # NULL
          /\ HeldBy(d, files) /\ SlotInv(d, 0, "net", req, received)
      BY <1>4, HttpdAssumption DEF httpdFindConnData, FilesInv, Types, Held, SlotsInv
    <2>2. d.cgi \in Cgis
      BY <1>9, <2>1 DEF SlotType
    <2>3. Good(v) /\ v.d = d /\ v.files = files
      BY <2>1, GoodWorld DEF HasOpen, HeldBy
    <2>4. Effect(v, w)
      BY <2>2, <2>3, CgiEffect
    <2>5. SentNext(s, w) /\ pending' = [pending EXCEPT ![c] = @ - 1 + w.sends]
      BY <1>9
    <2> HIDE DEF w, v
    <2>6. /\ Shape(w) /\ w.d \in SlotType /\ w.sends \in Nat /\ FilesOK(w.files)
          /\ w.d.conn = c /\ w.d.len = d.len /\ w.d.received = d.received
          /\ w.d.buffLen = d.buffLen /\ w.d.cgi = d.cgi
      BY <2>1, <2>3, <2>4 DEF Effect, SameSlot
    <2> DEFINE x == IF w.r = "MORE" THEN w ELSE [w EXCEPT !.d.cgi = NULL]
               e == IF w.r = "MORE" THEN w.d ELSE [w.d EXCEPT !.cgi = NULL]
    <2>7. x.files = w.files /\ x.d = e
      BY <2>6 DEF Shape, WorldFields, SlotFields
    <2>8. connData' = [connData EXCEPT ![s] = e] /\ files' = w.files /\ state' = state
      BY <2>5, <2>7 DEF SentNext, Finish
    <2>9. /\ e \in SlotType /\ e.conn = c /\ e.len = d.len /\ e.received = d.received
          /\ e.buffLen = d.buffLen /\ e.cgiData = w.d.cgiData
          /\ e.cgi = (IF w.r = "MORE" THEN d.cgi ELSE NULL)
      BY <2>6 DEF SlotType
    <2> HIDE DEF e, x
    <2>10. /\ connData'[s] = e /\ connData' \in [Slots -> SlotType]
           /\ \A t \in Slots : t # s => connData'[t] = connData[t]
      BY <2>1, <2>8, <2>9 DEF FilesInv, Types
    <2>11. Types' /\ Unheard'
      <3>1. pending' \in [Conns -> Nat]
        BY <1>5, <2>5, <2>6 DEF FilesInv, Types
      <3> QED BY <1>2, <2>6, <2>8, <2>10, <3>1 DEF FilesInv, Types, Unheard
    <2>12. SlotInv(e, 0, "net", req, received)
      <3>1. Asks(d, req, received) /\ Counted(d, 0, req, received) /\ Once(d, "net")
        BY <2>1 DEF SlotInv
      <3>2. ~(d.len < 0)
        BY <1>9, <3>1 DEF Counted
      <3>3. Asks(e, req, received) /\ Counted(e, 0, req, received)
        BY <2>1, <2>9, <3>1, <3>2 DEF Asks, Counted
      <3>4. Whole(d) => d.received = d.len
        BY <1>9, <3>1 DEF Once
      <3>5. Once(e, "net")
        BY <2>9, <3>4 DEF Once, Whole
      <3> QED BY <2>1, <2>9, <3>3, <3>5 DEF SlotInv
    <2>13. SlotsInv'
      BY <1>2, <1>4, <2>1, <2>10, <2>12, SlotStep
    <2>14. Held' /\ Kept'
      <3>1. CASE w.r \in {"MORE", "DONE"}
        <4>1. e.cgi = (IF w.r = "DONE" THEN NULL ELSE w.d.cgi)
          BY <2>6, <2>9, <3>1
        <4> QED BY <2>1, <2>3, <2>4, <2>6, <2>8, <2>9, <2>10, <4>1, EffectStep
      <3>2. CASE w.r \notin {"MORE", "DONE"}
        <4>1. w.files = files /\ (d.cgi \in FileCgis => d.cgiData = NULL)
          BY <2>3, <2>4, <3>2 DEF Effect, NoFile, OpensFile, ReadsFile, ClosesFile
        <4>2. e.cgi = NULL
          BY <2>9, <3>2
        <4>3. HeldBy(e, files')
          BY <4>2, HttpdAssumption DEF HeldBy, FileCgis, Cgis
        <4>4. \A h \in Handles : ~Serves(d, h)
          BY <4>1, HttpdAssumption DEF Serves, Handles
        <4> QED BY <2>1, <2>8, <2>10, <4>1, <4>3, <4>4, FileStep DEF FilesInv
      <3> QED BY <3>1, <3>2
    <2> QED BY <1>1, <1>3, <2>11, <2>13, <2>14 DEF FilesInv
  <1> QED BY <1>7, <1>8, <1>9 DEF httpdSentCb

\* httpdDisconCb begins; no units are in hand.
LEMMA FilesDiscon ==
    ASSUME FilesInv, NEW c \in Conns, httpdDisconCb(c)
    PROVE  FilesInv'
  <1>1. PoolInv'
    BY PoolDiscon DEF FilesInv
  <1>2. /\ call = NoCall /\ call' = [cb |-> "discon", slot |-> 0] /\ connData' = connData
        /\ state' = [state EXCEPT ![c] = "gone"] /\ state[c] # "none"
        /\ UNCHANGED <<files, req, received, pending>>
    BY DEF httpdDisconCb
  <1>3. Types' /\ Unheard' /\ Held' /\ Kept'
    BY <1>2 DEF FilesInv, Types, States, Unheard, Held, Kept
  <1>4. Calls'
    BY <1>2 DEF Calls, InRecv, InProcess, InDiscon
  <1>5. \A t \in Slots : /\ LeftOf(call, t) = 0 /\ WhereOf(call, t) = "net"
                         /\ LeftOf(call', t) = 0 /\ WhereOf(call', t) = "net"
    BY <1>2 DEF LeftOf, WhereOf, NoCall
  <1>6. SlotsInv'
    BY <1>2, <1>5 DEF FilesInv, SlotsInv
  <1> QED BY <1>1, <1>3, <1>4, <1>6 DEF FilesInv

\* While it goes through the slots there are none either.
LEMMA DisconCalls ==
    ASSUME PoolInv, InDiscon, DisconNext
    PROVE  /\ Calls'
           /\ \A t \in Slots : /\ LeftOf(call, t) = 0 /\ WhereOf(call, t) = "net"
                               /\ LeftOf(call', t) = 0 /\ WhereOf(call', t) = "net"
  <1>1. call.cb = "discon" /\ call'.cb \in {"none", "discon"}
    BY DEF PoolInv, CallOK, InDiscon, DisconNext, NoCall
  <1>2. Calls'
    <2>1. CASE call' = NoCall
      BY <2>1 DEF Calls, InRecv, InProcess, InDiscon, NoCall
    <2>2. CASE call' # NoCall
      <3>1. call'.cb = "discon"
        BY <2>2 DEF PoolInv, CallOK, InDiscon, DisconNext
      <3> QED BY <3>1 DEF Calls, InRecv, InProcess, InDiscon
    <2> QED BY <2>1, <2>2
  <1> QED BY <1>1, <1>2, NoLeft

\* It passes over a slot.
LEMMA FilesSkip ==
    ASSUME FilesInv, DisconSkip
    PROVE  FilesInv'
  <1>1. PoolInv'
    BY PoolSkip DEF FilesInv
  <1>2. InDiscon /\ DisconNext /\ UNCHANGED <<connData, files, state, req, received, pending>>
    BY DEF DisconSkip, net
  <1>3. Types' /\ Unheard' /\ Held' /\ Kept'
    BY <1>2 DEF FilesInv, Types, Unheard, Held, Kept
  <1>4. Calls' /\ SlotsInv'
    BY <1>2, DisconCalls DEF FilesInv, SlotsInv
  <1> QED BY <1>1, <1>3, <1>4 DEF FilesInv

\* It frees the slot of a closed connection, whose CGI function closes the
\* file it has in its hands.
LEMMA FilesDisconSlot ==
    ASSUME FilesInv, DisconSlot
    PROVE  FilesInv'
  <1> DEFINE s == call.slot
             gone == [D EXCEPT !.conn = NULL]
             v == World(gone)
             w == IF D.cgi = NULL THEN v ELSE Cgi(v, FALSE)
             e == [w.d EXCEPT !.cgi = NULL, !.conn = NULL]
  <1>1. PoolInv'
    BY PoolDisconSlot DEF FilesInv
  <1>2. /\ InDiscon /\ DisconNext /\ UNCHANGED <<state, req, received, pending>>
    BY DEF DisconSlot, net
  <1>3. /\ s \in Slots /\ D = connData[s] /\ D \in SlotType /\ D.conn # NULL
    BY <1>2 DEF FilesInv, PoolInv, CallOK, Types, D, DisconSlot, Dead
  <1>4. HeldBy(D, files)
    BY <1>3 DEF FilesInv, Held
  <1>5. /\ gone \in SlotType /\ gone.conn = NULL /\ gone.cgi = D.cgi
        /\ gone.cgiData = D.cgiData
    BY <1>3 DEF SlotType
  <1>6. connData' = [connData EXCEPT ![s] = httpdRetireConn(w.d)] /\ files' = w.files
    BY DEF DisconSlot
  <1> HIDE DEF gone
  <1>7. HasOpen(gone, files)
    BY <1>4, <1>5 DEF HasOpen, HeldBy
  <1>8. Good(v) /\ v.d = gone /\ v.files = files
    BY <1>5, <1>7, GoodWorld
  <1> HIDE DEF v
  <1>9. D.cgi # NULL => Effect(v, w)
    BY <1>3, <1>5, <1>8, CgiEffect DEF SlotType
  <1>10. D.cgi = NULL => w = v
    OBVIOUS
  <1> HIDE DEF w
  <1>11. w.d \in SlotType /\ FilesOK(w.files)
    BY <1>8, <1>9, <1>10 DEF Effect, Good
  <1>12. e \in SlotType /\ e.conn = NULL /\ e.cgi = NULL
    BY <1>11 DEF SlotType
  <1>13. connData' = [connData EXCEPT ![s] = e]
    BY <1>6 DEF httpdRetireConn
  <1> HIDE DEF e
  <1>14. /\ connData'[s] = e /\ connData' \in [Slots -> SlotType]
         /\ \A t \in Slots : t # s => connData'[t] = connData[t]
    BY <1>3, <1>12, <1>13 DEF FilesInv, Types
  <1>15. Types' /\ Unheard'
    BY <1>2, <1>6, <1>11, <1>14 DEF FilesInv, Types, Unheard
  <1>16. Calls' /\ SlotsInv'
    <2>1. SlotInv(e, 0, "net", req, received)
      BY <1>12 DEF SlotInv
    <2> QED BY <1>2, <1>3, <1>14, <2>1, DisconCalls, SlotStep DEF FilesInv
  <1>17. Held' /\ Kept'
    <2>1. HeldBy(e, files') /\ NULL \notin FileCgis
      BY <1>12, HttpdAssumption DEF HeldBy, FileCgis, Cgis
    <2>2. CASE w.files = files /\ \A h \in Handles : ~Serves(D, h)
      BY <1>3, <1>6, <1>14, <2>1, <2>2, FileStep DEF FilesInv
    <2>3. CASE ClosesFile(v, w)
      <3> DEFINE g == D.cgiData
      <3>1. /\ g \in Handles /\ files'[g].owner = NULL /\ OthersSame(files, files', g)
            /\ D.cgi \in FileCgis
        BY <1>5, <1>6, <1>8, <2>3 DEF ClosesFile
      <3>2. \A h \in Handles :
               IF files[h].owner = NULL \/ Serves(connData[s], h)
               THEN files'[h].owner # NULL /\ ~files'[h].streamed => Serves(connData'[s], h)
               ELSE files'[h].owner = files[h].owner /\ files'[h].streamed = files[h].streamed
        BY <1>3, <3>1 DEF OthersSame, Serves
      <3> QED BY <1>3, <1>14, <2>1, <3>2, FileStep DEF FilesInv
    <2>4. CASE D.cgi = NULL
      BY <1>8, <1>10, <2>1, <2>2, <2>4 DEF Serves
    <2>5. CASE D.cgi # NULL /\ NoFile(v, w)
      <3>1. \A h \in Handles : ~Serves(D, h)
        BY <1>5, <1>8, <2>5, HttpdAssumption DEF NoFile, Serves, Handles
      <3> QED BY <1>8, <2>2, <2>5, <3>1 DEF NoFile
    <2> QED
      BY <1>5, <1>8, <1>9, <2>3, <2>4, <2>5 DEF Effect, OpensFile, ReadsFile
  <1> QED BY <1>1, <1>15, <1>16, <1>17 DEF FilesInv

\* A client leaves.
LEMMA FilesLeave ==
    ASSUME FilesInv, NEW c \in Conns, Leave(c)
    PROVE  FilesInv'
  <1>1. PoolInv'
    BY PoolLeave DEF FilesInv
  <1>2. /\ call = NoCall /\ UNCHANGED <<connData, files, call, req, received, pending>>
        /\ \E to \in {"left", "reset"} : state' = [state EXCEPT ![c] = to]
        /\ state[c] = "open"
    BY DEF Leave
  <1>3. Types' /\ Unheard'
    BY <1>2 DEF FilesInv, Types, States, Unheard
  <1>4. Calls' /\ SlotsInv' /\ Held' /\ Kept'
    BY <1>2 DEF FilesInv, Calls, InRecv, InProcess, InDiscon, NoCall, SlotsInv, Held, Kept
  <1> QED BY <1>1, <1>3, <1>4 DEF FilesInv

\* Every step keeps the invariant.
LEMMA FilesNext == FilesInv /\ [Next]_vars => FilesInv'
  <1> SUFFICES ASSUME FilesInv, [Next]_vars PROVE FilesInv'
    OBVIOUS
  <1>1. CASE Server
    BY <1>1, FilesHead, FilesHeadEnd, FilesPost, FilesNoUrl, FilesNotFound, FilesAskCgi,
       FilesSkip, FilesDisconSlot DEF Server
  <1>2. CASE \E c \in Conns : Stack(c)
    BY <1>2, FilesConnect, FilesRecv, FilesSent, FilesDiscon, FilesLeave DEF Stack
  <1>3. CASE UNCHANGED vars
    <2>1. PoolInv'
      BY <1>3, PoolNext DEF FilesInv
    <2>2. Types' /\ Unheard' /\ Held' /\ Kept'
      BY <1>3 DEF vars, net, FilesInv, Types, Unheard, Held, Kept
    <2>3. Calls' /\ SlotsInv'
      BY <1>3 DEF vars, net, FilesInv, Calls, InRecv, InProcess, InDiscon, D, SlotsInv
    <2> QED BY <2>1, <2>2, <2>3 DEF FilesInv
  <1> QED BY <1>1, <1>2, <1>3 DEF Next

\* It holds always.
LEMMA FilesAlways == Spec => []FilesInv
  BY FilesInit, FilesNext, PTL DEF Spec

\* What is in a slot and in an open file has its type; above all a file is
\* never read behind its end, whatever block size divides it (core/httpd.c,
\* core/httpdespfs.c:58, 133).
THEOREM TypeCorrect == Spec => []TypeOK
  <1>1. FilesInv => TypeOK
    <2> SUFFICES ASSUME FilesInv PROVE TypeOK
      OBVIOUS
    <2>1. call = NoCall \/ call.slot \in Slots
      BY DEF FilesInv, PoolInv, CallOK, Calls
    <2> QED BY <2>1 DEF FilesInv, Types, FilesOK, FileOK, States, TypeOK
  <1> QED BY <1>1, FilesAlways, PTL

\* A CGI function that is called again works on a file that is open and was
\* opened for this very connection; and an open file is in the hands of one
\* connection, unless it was opened for a body that is handed over in parts
\* (core/httpd.c:365, 577, core/httpdespfs.c:45).
THEOREM FilesCorrect == Spec => []FilesOwned
  <1>1. FilesInv => FilesOwned
    <2> SUFFICES ASSUME FilesInv PROVE FilesOwned
      OBVIOUS
    <2>1. \A h \in Handles : h # NULL
      BY HttpdAssumption DEF Handles
    <2>2. ASSUME NEW s \in Slots, NEW h \in Handles, Serving(s, h)
          PROVE  files[h].owner = connData[s].conn /\ files[h].owner # NULL
      BY <2>1, <2>2 DEF Serving, FilesInv, Held, HeldBy
    <2>3. ASSUME NEW s \in Slots, NEW t \in Slots, NEW h \in Handles,
                 Serving(s, h), Serving(t, h)
          PROVE  t = s
      BY <2>2, <2>3 DEF FilesInv, PoolInv, Unique
    <2>4. ASSUME NEW h \in Handles, files[h].owner # NULL, ~files[h].streamed
          PROVE  \E s \in Slots : Serving(s, h)
      BY <2>4 DEF FilesInv, Kept, Serves, Serving
    <2> QED BY <2>2, <2>3, <2>4 DEF FilesOwned
  <1> QED BY <1>1, FilesAlways, PTL

-----------------------------------------------------------------------------
(* What was uploaded and answered with 200 is in the flash                 *)

Uploading(c) == req[c] # NULL /\ Handler[req[c]] = "cgiUploadFirmware"

\* The entry of the table that takes a request.
Place(q) == CHOOSE i \in Taking(q) : \A j \in Taking(q) : i <= j

\* A unit that holds what connection c wrote, or that another one touched;
\* one that c erased, likewise.
Mine(u, c, a) == u = [by |-> {c}, data |-> a] \/ u.by \ {c} # {}
Fresh(u, c) == u = Erased({c}) \/ u.by \ {c} # {}

\* The image is in the flash up to unit n, and what follows is erased up to
\* the next sector.
Written(fl, c, n) == \A a \in DOMAIN fl : a < n => Mine(fl[a], c, a)
Ahead(fl, c, n) ==
    \A a \in DOMAIN fl : n <= a /\ (\A b \in n .. a : b % SecSize # 0) => Fresh(fl[a], c)
Progress(fl, c, n) == Written(fl, c, n) /\ Ahead(fl, c, n)

\* The slot of an upload: the table has not got beyond its entry.
Routed(d, cl, at, q) ==
    /\ d.buffLen <= MaxPost /\ d.buffLen <= d.received
    /\ d.len >= 0 => d.url = q.url
    /\ at = "net" => d.buffLen < MaxPost /\ d.cgi \in {NULL, "cgiUploadFirmware"}
    /\ at = "table" => cl.i <= Place(q)

SlotsOf(c) == httpdFindConnData(c)
Routes(c) == \A s \in SlotsOf(c) : Routed(connData[s], call, WhereOf(call, s), req[c])

\* An upload that has not been answered: the blocks so far are in the
\* flash.  cgiPrivData says that an error was found, or is left over from
\* the connection before, until the first block resets it.
Going(d, fl, c) == d.cgiPrivData \/ Progress(fl, c, Offset(d))
Begun(c) ==
    /\ reply[c] = <<>> /\ pending[c] = 0
    /\ \A s \in SlotsOf(c) : Going(connData[s], flash, c)

\* One that was answered with 200: all of it is in the flash, and the CGI
\* function will not be called again.
Over(d, at) == at = "net" /\ d.cgi = NULL /\ d.len >= 0 /\ d.received = d.len
Stored(c) ==
    /\ reply[c] = << 200 >> /\ req[c].len <= FwSize /\ Written(flash, c, req[c].len)
    /\ \A s \in SlotsOf(c) : Over(connData[s], WhereOf(call, s))

\* One that was answered with anything else.
Refused(c) == reply[c] \in Seq(Nat) \ {<<>>, << 200 >>}

UploadOK(c) == Routes(c) /\ (Begun(c) \/ Stored(c) \/ Refused(c))

Silent == \A c \in Conns : req[c] = NULL \/ state[c] = "none" => reply[c] = <<>>
Domains == DOMAIN flash = 0 .. FwSize - 1 /\ DOMAIN reply = Conns
UploadInv == Silent /\ Domains /\ \A c \in Conns : Uploading(c) => UploadOK(c)

-----------------------------------------------------------------------------
(* Blocks and sectors *)

\* A number without a remainder is a multiple.
LEMMA Multiple ==
    ASSUME NEW m \in Nat \ {0}, NEW x \in Nat, x % m = 0
    PROVE  \E q \in Nat : x = q * m
  <1>1. x \div m \in Nat /\ x = m * (x \div m) + (x % m)
    OBVIOUS
  <1>2. x = (x \div m) * m
    BY <1>1
  <1> QED BY <1>1, <1>2

\* An erase sector is made of whole blocks.
LEMMA Sectors == \E k \in Nat \ {0} : SecSize = k * MaxPost
  <1>1. SecSize \in Nat \ {0} /\ MaxPost \in Nat \ {0}
    BY HttpdAssumption
  <1>2. PICK k \in Nat : SecSize = k * MaxPost
    BY <1>1, FlashAssumption, Multiple
  <1>3. k # 0
    BY <1>1, <1>2
  <1> QED BY <1>2, <1>3

\* Two multiples that are less than one apart are the same.
LEMMA SameMultiple ==
    ASSUME NEW m \in Nat \ {0}, NEW p \in Nat, NEW q \in Nat,
           p * m <= q * m, q * m < p * m + m
    PROVE  p = q
  <1>1. ~(p < q)
    <2> SUFFICES ASSUME p < q PROVE FALSE
      OBVIOUS
    <2>1. (p + 1) * m <= q * m
      OBVIOUS
    <2> QED BY <2>1
  <1>2. ~(q < p)
    <2> SUFFICES ASSUME q < p PROVE FALSE
      OBVIOUS
    <2>1. (q + 1) * m <= p * m
      OBVIOUS
    <2> QED BY <2>1
  <1> QED BY <1>1, <1>2

\* A multiple has no remainder.
LEMMA NoRemainder ==
    ASSUME NEW m \in Nat \ {0}, NEW q \in Nat
    PROVE  (q * m) % m = 0
  <1> DEFINE x == q * m
             p == x \div m
             r == x % m
  <1>1. x \in Nat
    OBVIOUS
  <1> HIDE DEF x
  <1>2. p \in Nat /\ r \in 0 .. m - 1 /\ x = m * p + r
    BY <1>1
  <1> HIDE DEF p, r
  <1>3. p * m = m * p /\ p * m \in Nat
    BY <1>2
  <1>4. p * m <= x /\ x < p * m + m /\ (x = p * m => r = 0)
    BY <1>1, <1>2, <1>3
  <1>5. p = q
    BY <1>2, <1>4, SameMultiple DEF x
  <1>6. r = 0
    BY <1>4, <1>5 DEF x
  <1> QED BY <1>6 DEF x, r

\* No sector begins within a block.
LEMMA NotWithin ==
    ASSUME NEW n \in Nat, n % MaxPost = 0, NEW b \in Nat, n <= b,
           b < n + MaxPost, b % SecSize = 0
    PROVE  b = n
  <1>1. PICK k \in Nat \ {0} : SecSize = k * MaxPost
    BY Sectors
  <1>2. MaxPost \in Nat \ {0} /\ SecSize \in Nat \ {0}
    BY HttpdAssumption
  <1>3. PICK p \in Nat : n = p * MaxPost
    BY <1>2, Multiple
  <1>4. PICK r \in Nat : b = r * SecSize
    BY <1>2, Multiple
  <1>5. r * k \in Nat /\ b = (r * k) * MaxPost
    BY <1>1, <1>2, <1>4
  <1> DEFINE q == r * k
  <1> HIDE DEF q
  <1>6. q \in Nat /\ b = q * MaxPost
    BY <1>5 DEF q
  <1>7. p * MaxPost <= q * MaxPost /\ q * MaxPost < p * MaxPost + MaxPost
    BY <1>3, <1>6
  <1>8. p = q
    BY <1>2, <1>3, <1>6, <1>7, SameMultiple
  <1> QED BY <1>3, <1>6, <1>8

\* A sector is no shorter than a block, and the next one follows it.
LEMMA SectorEnd ==
    /\ SecSize \in Nat \ {0} /\ MaxPost \in Nat \ {0} /\ MaxPost <= SecSize
    /\ 0 % SecSize = 0
    /\ \A n \in Nat : n % SecSize = 0 => (n + SecSize) % SecSize = 0
  <1>1. PICK k \in Nat \ {0} : SecSize = k * MaxPost
    BY Sectors
  <1>2. MaxPost \in Nat \ {0} /\ SecSize \in Nat \ {0}
    BY HttpdAssumption
  <1>3. 1 * MaxPost <= k * MaxPost
    BY <1>2
  <1>4. MaxPost <= SecSize
    BY <1>1, <1>2, <1>3
  <1>5. 0 % SecSize = 0
    BY <1>2
  <1>6. ASSUME NEW n \in Nat, n % SecSize = 0 PROVE (n + SecSize) % SecSize = 0
    <2>1. PICK q \in Nat : n = q * SecSize
      BY <1>2, <1>6, Multiple
    <2>2. n + SecSize = (q + 1) * SecSize
      BY <1>2, <2>1
    <2>3. ((q + 1) * SecSize) % SecSize = 0
      BY <1>2, NoRemainder
    <2> QED BY <2>2, <2>3
  <1> QED BY <1>2, <1>4, <1>5, <1>6

\* What a block does to a unit of the flash.
InBlock(d, a) == a \in Offset(d) .. Offset(d) + d.buffLen - 1
InSector(d, a) == Offset(d) % SecSize = 0 /\ a \in Offset(d) .. Offset(d) + SecSize - 1
UnitWritten(d, a, u, v) ==
    /\ InBlock(d, a) /\ InSector(d, a) => v = [by |-> {d.conn}, data |-> a]
    /\ InBlock(d, a) /\ ~InSector(d, a) =>
          v = [by |-> {d.conn} \cup u.by, data |-> IF u.data = Blank THEN a ELSE Spoilt]
    /\ ~InBlock(d, a) /\ InSector(d, a) => v = Erased({d.conn})
    /\ ~InBlock(d, a) /\ ~InSector(d, a) => v = u

\* FlashWrite, unit by unit.
LEMMA WriteUnits ==
    ASSUME NEW d, NEW fl
    PROVE  /\ DOMAIN FlashWrite(d, fl) = DOMAIN fl
           /\ \A a \in DOMAIN fl : UnitWritten(d, a, fl[a], FlashWrite(d, fl)[a])
  <1>1. DOMAIN FlashWrite(d, fl) = DOMAIN fl
    BY DEF FlashWrite
  <1> SUFFICES ASSUME NEW a \in DOMAIN fl
               PROVE  UnitWritten(d, a, fl[a], FlashWrite(d, fl)[a])
    BY <1>1
  <1> DEFINE n == Offset(d)
             written == n .. n + d.buffLen - 1
             range == n .. n + SecSize - 1
             sector == IF n % SecSize = 0 THEN range ELSE {}
             u == FlashWrite(d, fl)[a]
  <1>2. u = CASE a \in written ->
                    [by |-> {d.conn} \cup IF a \in sector THEN {} ELSE fl[a].by,
                     data |-> IF a \in sector \/ fl[a].data = Blank THEN a ELSE Spoilt]
              [] a \in sector \ written -> Erased({d.conn})
              [] OTHER -> fl[a]
    BY DEF FlashWrite
  <1>3. /\ a \in sector <=> InSector(d, a)
        /\ a \in written <=> InBlock(d, a)
    BY DEF InSector, InBlock
  <1> HIDE DEF u, sector, written
  <1>4. CASE a \in written /\ a \in sector
    <2>1. {d.conn} \cup {} = {d.conn}
      OBVIOUS
    <2>2. u = [by |-> {d.conn}, data |-> a]
      BY <1>2, <1>4, <2>1
    <2> QED BY <1>3, <1>4, <2>2 DEF UnitWritten, u
  <1>5. CASE a \in written /\ a \notin sector
    <2>1. u = [by |-> {d.conn} \cup fl[a].by,
               data |-> IF fl[a].data = Blank THEN a ELSE Spoilt]
      BY <1>2, <1>5
    <2> QED BY <1>3, <1>5, <2>1 DEF UnitWritten, u
  <1>6. CASE a \notin written
    <2>1. u = IF a \in sector THEN Erased({d.conn}) ELSE fl[a]
      BY <1>2, <1>6
    <2> QED BY <1>3, <1>6, <2>1 DEF UnitWritten, u
  <1> QED BY <1>4, <1>5, <1>6

\* A block of another connection leaves its trace.
LEMMA WriteOther ==
    ASSUME NEW d, NEW fl, NEW a \in DOMAIN fl
    PROVE  \/ FlashWrite(d, fl)[a] = fl[a]
           \/ d.conn \in FlashWrite(d, fl)[a].by
  <1> DEFINE u == FlashWrite(d, fl)[a]
  <1>1. UnitWritten(d, a, fl[a], u)
    BY WriteUnits
  <1> HIDE DEF u
  <1>2. Erased({d.conn}).by = {d.conn}
    BY DEF Erased
  <1>3. u = fl[a] \/ d.conn \in u.by
    BY <1>1, <1>2 DEF UnitWritten
  <1> QED BY <1>3 DEF u

\* A block is stored behind the blocks before it, on what was erased.
LEMMA WriteProgress ==
    ASSUME NEW c, NEW d, d.conn = c, NEW n \in Nat, n = Offset(d),
           d.buffLen \in Nat, d.buffLen <= MaxPost, n % MaxPost = 0,
           NEW fl, DOMAIN fl \subseteq Nat, Progress(fl, c, n)
    PROVE  Progress(FlashWrite(d, fl), c, n + d.buffLen)
  <1> DEFINE m == n + d.buffLen
             gl == FlashWrite(d, fl)
  <1>1. m \in Nat /\ n <= m /\ m <= n + MaxPost /\ m <= n + SecSize
    BY SectorEnd
  <1>2. DOMAIN gl = DOMAIN fl
    BY WriteUnits
  <1>3. SUFFICES ASSUME NEW a \in DOMAIN fl
                 PROVE  /\ a < m => Mine(gl[a], c, a)
                        /\ m <= a /\ (\A b \in m .. a : b % SecSize # 0) => Fresh(gl[a], c)
    BY <1>2 DEF Progress, Written, Ahead
  <1> DEFINE u == gl[a]
             written == InBlock(d, a)
             sector == InSector(d, a)
  <1>4. a \in Nat
    OBVIOUS
  <1>5. /\ written /\ sector => u = [by |-> {c}, data |-> a]
        /\ written /\ ~sector =>
              u = [by |-> {c} \cup fl[a].by,
                   data |-> IF fl[a].data = Blank THEN a ELSE Spoilt]
        /\ ~written /\ sector => u = Erased({c})
        /\ ~written /\ ~sector => u = fl[a]
    <2>1. UnitWritten(d, a, fl[a], u)
      BY WriteUnits
    <2> HIDE DEF u
    <2> QED BY <2>1 DEF UnitWritten
  <1>6. /\ a < n => Mine(fl[a], c, a)
        /\ n <= a /\ (\A b \in n .. a : b % SecSize # 0) => Fresh(fl[a], c)
    BY DEF Progress, Written, Ahead
  <1>7. /\ written <=> n <= a /\ a < m
        /\ sector <=> n % SecSize = 0 /\ n <= a /\ a < n + SecSize
    BY <1>4, SectorEnd DEF InBlock, InSector
  <1> HIDE DEF u, written, sector
  <1>8. CASE a < n
    <2>1. ~written /\ ~sector /\ a < m
      BY <1>1, <1>4, <1>7, <1>8
    <2>2. Mine(u, c, a)
      BY <1>5, <1>6, <1>8, <2>1
    <2> QED BY <1>1, <1>4, <2>1, <2>2 DEF u
  <1>9. CASE n <= a /\ n % SecSize = 0
    <2>1. CASE a < m
      <3>1. written /\ sector
        BY <1>1, <1>4, <1>7, <1>9, <2>1, SectorEnd
      <3>2. Mine(u, c, a)
        BY <1>5, <3>1 DEF Mine
      <3> QED BY <1>1, <1>4, <2>1, <3>2 DEF u
    <2>2. CASE m <= a /\ a < n + SecSize
      <3>1. ~written /\ sector
        BY <1>1, <1>4, <1>7, <1>9, <2>2, SectorEnd
      <3>2. Fresh(u, c)
        BY <1>5, <3>1 DEF Fresh
      <3> QED BY <1>1, <1>4, <2>2, <3>2 DEF u
    <2>3. CASE n + SecSize <= a
      <3>1. (n + SecSize) % SecSize = 0 /\ n + SecSize \in m .. a
        BY <1>1, <1>4, <1>9, <2>3, SectorEnd
      <3>2. ~(a < m)
        BY <1>1, <1>4, <2>3, SectorEnd
      <3> QED BY <3>1, <3>2
    <2> QED BY <1>1, <1>4, <2>1, <2>2, <2>3, SectorEnd
  <1>10. CASE n <= a /\ n % SecSize # 0
    <2>1. ASSUME NEW b \in n .. a, b < m PROVE b % SecSize # 0
      <3>1. b \in Nat /\ n <= b /\ b < n + MaxPost
        BY <1>1, <1>4, <2>1, SectorEnd
      <3> QED BY <1>10, <3>1, NotWithin
    <2>2. ~sector
      BY <1>7, <1>10
    <2>3. CASE a < m
      <3>1. written
        BY <1>7, <1>10, <2>3
      <3>2. \A b \in n .. a : b % SecSize # 0
        BY <1>1, <1>4, <2>1, <2>3
      <3>3. Fresh(fl[a], c)
        BY <1>6, <1>10, <3>2
      <3>4. u = [by |-> {c} \cup fl[a].by,
                 data |-> IF fl[a].data = Blank THEN a ELSE Spoilt]
        BY <1>5, <2>2, <3>1
      <3>5. Mine(u, c, a)
        <4>1. CASE fl[a] = Erased({c})
          <5>1. fl[a].by = {c} /\ fl[a].data = Blank
            BY <4>1 DEF Erased
          <5>2. u = [by |-> {c}, data |-> a]
            BY <3>4, <5>1
          <5> QED BY <5>2 DEF Mine
        <4>2. CASE fl[a].by \ {c} # {}
          <5>1. u.by = {c} \cup fl[a].by
            BY <3>4
          <5>2. u.by \ {c} # {}
            BY <4>2, <5>1
          <5> QED BY <5>2 DEF Mine
        <4> QED BY <3>3, <4>1, <4>2 DEF Fresh
      <3> QED BY <1>1, <1>4, <2>3, <3>5 DEF u
    <2>4. CASE m <= a
      <3>1. SUFFICES ASSUME \A b \in m .. a : b % SecSize # 0 PROVE Fresh(u, c)
        BY <1>1, <1>4, <2>4 DEF u
      <3>2. ~written
        BY <1>1, <1>4, <1>7, <2>4
      <3>3. \A b \in n .. a : b % SecSize # 0
        BY <1>1, <1>4, <2>1, <3>1
      <3> QED BY <1>5, <1>6, <1>10, <2>2, <3>2, <3>3
    <2> QED BY <1>1, <1>4, <2>3, <2>4
  <1> QED BY <1>4, <1>8, <1>9, <1>10

\* An upload that has not begun has made all its progress.
LEMMA NoProgress ==
    ASSUME NEW c, NEW fl, DOMAIN fl \subseteq Nat
    PROVE  Progress(fl, c, 0)
  <1>1. \A a \in DOMAIN fl : ~(a < 0) /\ 0 \in 0 .. a
    OBVIOUS
  <1> QED BY <1>1, SectorEnd DEF Progress, Written, Ahead

-----------------------------------------------------------------------------
(* What CGI functions do with the flash *)

Dry(v, w) == Shape(w) /\ w.flash = v.flash

\* Neither returning nor sending touches the flash, nor do files.
LEMMA DryCalls ==
    ASSUME NEW w, Shape(w)
    PROVE  /\ \A r : Dry(w, Return(w, r))
           /\ \A data : Dry(w, httpdSend(w, data))
           /\ \A data : Dry(w, espconn_sent(w, data))
           /\ Dry(w, espFsOpen(w)) /\ Dry(w, espFsClose(w))
  <1>1. \A r : Dry(w, Return(w, r))
    BY DEF Dry, Shape, WorldFields, Return
  <1>2. \A data : Dry(w, httpdSend(w, data))
    BY DEF Dry, Shape, WorldFields, httpdSend
  <1>3. \A data : Dry(w, espconn_sent(w, data))
    BY DEF Dry, Shape, WorldFields, espconn_sent
  <1>4. Dry(w, espFsOpen(w))
    BY DEF Dry, Shape, WorldFields, SlotFields, espFsOpen
  <1>5. Dry(w, espFsClose(w))
    BY DEF Dry, Shape, WorldFields, espFsClose
  <1> QED BY <1>1, <1>2, <1>3, <1>4, <1>5

\* What follows what is dry is dry.
LEMMA DryAll ==
    ASSUME NEW u, NEW v, NEW w, Dry(u, v), Dry(v, w)
    PROVE  Dry(u, w)
  BY DEF Dry

\* Nor does the flush.
LEMMA DryFlush ==
    ASSUME NEW w, Shape(w)
    PROVE  Dry(w, httpdFlushSendBuffer(w))
  <1> DEFINE v == espconn_sent(w, w.buff)
  <1>1. Dry(w, v) /\ Dry(w, w)
    BY DryCalls DEF Dry
  <1> HIDE DEF v
  <1>2. Dry(v, [v EXCEPT !.buff = <<>>])
    BY <1>1 DEF Dry, Shape, WorldFields
  <1>3. Dry(w, [v EXCEPT !.buff = <<>>])
    BY <1>1, <1>2, DryAll
  <1> QED BY <1>1, <1>3 DEF httpdFlushSendBuffer, v

\* Pairs of calls.
LEMMA DryPairs ==
    ASSUME NEW w, Shape(w)
    PROVE  /\ \A data, r : Dry(w, Return(httpdSend(w, data), r))
           /\ \A data, r : Dry(w, Return(httpdSend(espFsOpen(w), data), r))
           /\ \A r : Dry(w, Return(espFsClose(w), r))
  <1>1. ASSUME NEW v, Dry(w, v), NEW r PROVE Dry(w, Return(v, r))
    BY <1>1, DryCalls, DryAll DEF Dry
  <1>2. ASSUME NEW v, Dry(w, v), NEW data PROVE Dry(w, httpdSend(v, data))
    BY <1>2, DryCalls, DryAll DEF Dry
  <1>3. Dry(w, w) /\ Dry(w, espFsOpen(w)) /\ Dry(w, espFsClose(w))
    BY DryCalls DEF Dry
  <1>4. ASSUME NEW data, NEW r
        PROVE  /\ Dry(w, Return(httpdSend(w, data), r))
               /\ Dry(w, Return(httpdSend(espFsOpen(w), data), r))
    <2>1. Dry(w, httpdSend(w, data)) /\ Dry(w, httpdSend(espFsOpen(w), data))
      BY <1>2, <1>3
    <2> QED BY <1>1, <2>1
  <1> QED BY <1>1, <1>3, <1>4

\* Nor do the CGI functions for files.
LEMMA DryFiles ==
    ASSUME NEW w, Shape(w), NEW stale
    PROVE  Dry(w, cgiEspFsHook(w, stale)) /\ Dry(w, cgiEspFsTemplate(w))
  <1>1. Dry(w, HookRead(w))
    <2> DEFINE block == Block(w.files[w.d.cgiData])
               read == [w EXCEPT !.files[w.d.cgiData].pos = @ + Len(block)]
               sent == IF block = <<>> THEN read ELSE espconn_sent(read, block)
    <2> HIDE DEF block
    <2>1. Dry(w, read) /\ Shape(read)
      BY DEF Dry, Shape, WorldFields
    <2> HIDE DEF read
    <2>2. Dry(w, sent) /\ Shape(sent)
      <3>1. Dry(w, espconn_sent(read, block))
        BY <2>1, DryCalls, DryAll
      <3> QED BY <2>1, <3>1 DEF Dry
    <2> HIDE DEF sent
    <2>4. Dry(sent, Return(espFsClose(sent), "DONE"))
      BY <2>2, DryPairs, Zenon
    <2>5. Dry(sent, Return(sent, "MORE"))
      BY <2>2, DryCalls, Zenon
    <2>3. Dry(w, Return(espFsClose(sent), "DONE")) /\ Dry(w, Return(sent, "MORE"))
      BY <2>2, <2>4, <2>5, DryAll
    <2> QED BY <2>3 DEF HookRead, sent, read, block
  <1>2. Dry(w, TemplateRead(w))
    <2> DEFINE f == w.files[w.d.cgiData]
               block == Block(f)
               a == Parsed(f, block, w.buff)
               sent == [w EXCEPT !.buff = Added(a.buff, a.e),
                                 !.files[w.d.cgiData].pos = @ + Len(block),
                                 !.files[w.d.cgiData].token = a.t]
    <2> HIDE DEF a, block
    <2>1. Dry(w, sent) /\ Shape(sent)
      BY DEF Dry, Shape, WorldFields
    <2>2. Dry(w, Return(espFsClose(sent), "DONE")) /\ Dry(w, Return(sent, "MORE"))
      <3> HIDE DEF sent
      <3>1. Dry(sent, Return(espFsClose(sent), "DONE"))
        BY <2>1, DryPairs, Zenon
      <3>2. Dry(sent, Return(sent, "MORE"))
        BY <2>1, DryCalls, Zenon
      <3> QED BY <2>1, <3>1, <3>2, DryAll
    <2> QED BY <2>2, Zenon DEF TemplateRead, a, block
  <1>3. Dry(w, HookOpen(w, stale))
    BY DryCalls, DryPairs DEF HookOpen
  <1>4. Dry(w, cgiEspFsHook(w, stale))
    BY <1>1, <1>3, DryPairs DEF cgiEspFsHook
  <1>5. Dry(w, cgiEspFsTemplate(w))
    BY <1>2, DryCalls, DryPairs DEF cgiEspFsTemplate
  <1> QED BY <1>4, <1>5

\* cgiReadFlash reads another part of the flash.
LEMMA DryRead ==
    ASSUME NEW w, Shape(w)
    PROVE  Dry(w, cgiReadFlash(w))
  <1>1. CASE w.d.conn = NULL
    BY <1>1, DryCalls DEF cgiReadFlash
  <1>2. CASE w.d.conn # NULL /\ w.d.cgiData = NULL
    <2> DEFINE v == [w EXCEPT !.d.cgiData = 0]
    <2>1. Dry(w, v) /\ Shape(v)
      BY DEF Dry, Shape, WorldFields, SlotFields
    <2> HIDE DEF v
    <2>2. Dry(w, Return(httpdSend(v, << 200 >>), "MORE"))
      BY <2>1, DryPairs, DryAll
    <2> QED BY <1>2, <2>2 DEF cgiReadFlash, v
  <1>3. CASE w.d.conn # NULL /\ w.d.cgiData # NULL
    <2> DEFINE u == espconn_sent(w, [i \in 1 .. MaxPost |-> w.d.cgiData + i])
               v == [u EXCEPT !.d.cgiData = w.d.cgiData + MaxPost]
               r == IF w.d.cgiData + MaxPost >= ReadLen THEN "DONE" ELSE "MORE"
    <2>1. Dry(w, u) /\ Shape(u)
      BY DryCalls DEF Dry
    <2> HIDE DEF u
    <2>2. Dry(u, v) /\ Shape(v)
      BY <2>1 DEF Dry, Shape, WorldFields, SlotFields
    <2> HIDE DEF v, r
    <2>3. Dry(w, Return(v, r))
      BY <2>1, <2>2, DryCalls, DryAll
    <2> QED BY <1>3, <2>3 DEF cgiReadFlash, u, v, r
  <1> QED BY <1>1, <1>2, <1>3

\* cgiUploadFirmware stores its block or leaves the flash alone.
LEMMA UploadWrites ==
    ASSUME NEW w, Shape(w)
    PROVE  LET v == cgiUploadFirmware(w)
           IN  /\ Shape(v)
               /\ \/ v.flash = w.flash
                  \/ w.d.conn # NULL /\ v.flash = FlashWrite(w.d, w.flash)
  <1> DEFINE x == IF Offset(w.d) = 0 THEN [w EXCEPT !.d.cgiPrivData = FALSE] ELSE w
             refused == [x EXCEPT !.d.cgiPrivData = TRUE]
             written == [x EXCEPT !.flash = FlashWrite(x.d, @)]
             error == UploadError(x.d)
  <1>1. Dry(w, x) /\ Shape(x) /\ FlashWrite(x.d, w.flash) = FlashWrite(w.d, w.flash)
        /\ x.d.conn = w.d.conn
    <2> DEFINE y == [w EXCEPT !.d.cgiPrivData = FALSE]
    <2>1. Dry(w, y) /\ Shape(y)
      BY DEF Dry, Shape, WorldFields, SlotFields
    <2>2. /\ y.d.conn = w.d.conn /\ y.d.received = w.d.received
          /\ y.d.buffLen = w.d.buffLen
      BY DEF Shape, WorldFields, SlotFields
    <2> HIDE DEF y
    <2>3. FlashWrite(y.d, w.flash) = FlashWrite(w.d, w.flash)
      BY <2>2 DEF FlashWrite, Offset
    <2> QED BY <2>1, <2>2, <2>3 DEF Dry, y
  <1> HIDE DEF x
  <1>2. Dry(w, refused)
    BY <1>1 DEF Dry, Shape, WorldFields, SlotFields
  <1>3. Shape(written) /\ written.flash = FlashWrite(w.d, w.flash)
    BY <1>1 DEF Dry, Shape, WorldFields
  <1> HIDE DEF refused, written, error
  <1>4. /\ Dry(w, Return(w, "DONE")) /\ Dry(w, Return(x, "DONE"))
        /\ Dry(w, Return(httpdSend(refused, <<error>>), "DONE"))
    BY <1>1, <1>2, DryCalls, DryPairs, DryAll DEF Dry
  <1>5. /\ Dry(written, Return(written, "MORE"))
        /\ Dry(written, Return(httpdSend(written, << 200 >>), "DONE"))
    BY <1>3, DryCalls, DryPairs
  <1> DEFINE v == cgiUploadFirmware(w)
  <1>6. \/ v = Return(w, "DONE") \/ v = Return(x, "DONE")
        \/ v = Return(httpdSend(refused, <<error>>), "DONE")
        \/ /\ w.d.conn # NULL
           /\ v = Return(written, "MORE") \/ v = Return(httpdSend(written, << 200 >>), "DONE")
    <2>1. v = CASE x.d.conn = NULL -> Return(w, "DONE")
                [] x.d.conn # NULL /\ x.d.cgiPrivData -> Return(x, "DONE")
                [] x.d.conn # NULL /\ ~x.d.cgiPrivData /\ error # NULL ->
                      Return(httpdSend(refused, <<error>>), "DONE")
                [] OTHER -> IF x.d.received = x.d.len
                            THEN Return(httpdSend(written, << 200 >>), "DONE")
                            ELSE Return(written, "MORE")
      BY DEF cgiUploadFirmware, x, refused, written, error
    <2> HIDE DEF v
    <2> QED BY <1>1, <2>1
  <1> HIDE DEF v
  <1>7. /\ Shape(v)
        /\ \/ v.flash = w.flash
           \/ w.d.conn # NULL /\ v.flash = FlashWrite(w.d, w.flash)
    BY <1>3, <1>4, <1>5, <1>6 DEF Dry
  <1> QED BY <1>7 DEF v

\* What a CGI function, and the flush behind it, does to the flash: nothing
\* that does not leave the trace of its connection.
Traces(fl, gl, e) ==
    /\ DOMAIN gl = DOMAIN fl
    /\ \A a \in DOMAIN fl : gl[a] = fl[a] \/ e \in gl[a].by

\* A CGI function writes to the flash for its own connection only, and not
\* at all when it has none any more.
LEMMA CgiTraces ==
    ASSUME NEW w, Shape(w), w.d.cgi \in Cgis, NEW stale
    PROVE  LET v == Cgi(w, stale)
               x == httpdFlushSendBuffer(v)
           IN  /\ Traces(w.flash, x.flash, w.d.conn) /\ Traces(w.flash, v.flash, w.d.conn)
               /\ w.d.conn = NULL => v.flash = w.flash
  <1> DEFINE v == Cgi(w, stale)
             x == httpdFlushSendBuffer(v)
  <1>1. \A code : Dry(w, OneShot(w, code))
    BY DryCalls, DryPairs DEF OneShot
  <1>2. Dry(w, authBasic(w))
    BY DryCalls, DryPairs DEF authBasic
  <1>3. \/ Dry(w, v)
        \/ v = cgiUploadFirmware(w)
    BY <1>1, <1>2, DryFiles, DryRead DEF Cgi, Cgis
  <1> HIDE DEF v
  <1>4. /\ Shape(v)
        /\ \/ v.flash = w.flash
           \/ w.d.conn # NULL /\ v.flash = FlashWrite(w.d, w.flash)
    BY <1>3, UploadWrites DEF Dry
  <1>5. x.flash = v.flash
    BY <1>4, DryFlush DEF Dry
  <1>6. Traces(w.flash, v.flash, w.d.conn)
    <2>1. CASE v.flash = w.flash
      BY <2>1 DEF Traces
    <2>2. CASE v.flash = FlashWrite(w.d, w.flash)
      <3>1. /\ DOMAIN FlashWrite(w.d, w.flash) = DOMAIN w.flash
            /\ \A a \in DOMAIN w.flash : FlashWrite(w.d, w.flash)[a] = w.flash[a]
                                         \/ w.d.conn \in FlashWrite(w.d, w.flash)[a].by
        BY WriteUnits, WriteOther
      <3> QED BY <2>2, <3>1 DEF Traces
    <2> QED BY <1>4, <2>1, <2>2
  <1> QED BY <1>4, <1>5, <1>6 DEF v

Empty(w) == Shape(w) /\ w.buff = <<>> /\ w.out = <<>> /\ w.sends = 0

\* Returning without an answer.
LEMMA SendsNothing ==
    ASSUME NEW w, Empty(w), NEW r
    PROVE  LET x == httpdFlushSendBuffer(Return(w, r))
           IN  /\ Shape(x) /\ x.d = w.d /\ x.flash = w.flash /\ x.out = <<>>
               /\ x.sends = 0 /\ x.r = r /\ x = Return(w, r)
  <1> DEFINE v == Return(w, r)
  <1>1. /\ Shape(v) /\ v.d = w.d /\ v.flash = w.flash /\ v.out = <<>>
        /\ v.sends = 0 /\ v.r = r /\ v.buff = <<>>
    BY DEF Empty, Shape, WorldFields, Return
  <1> HIDE DEF v
  <1>2. httpdFlushSendBuffer(v) = v
    BY <1>1 DEF httpdFlushSendBuffer
  <1> QED BY <1>1, <1>2 DEF v

\* What fits is not dropped.
LEMMA AddedFits ==
    ASSUME NEW buff \in Seq(Int), NEW data \in Seq(Int),
           Len(buff) + Len(data) <= SendBuffLen
    PROVE  Added(buff, data) = buff \o data /\ Added(buff, data) \in Seq(Int)
  <1>1. ~(Len(buff) + Len(data) > SendBuffLen)
    <2> DEFINE m == Len(buff)
               n == Len(data)
    <2>1. m \in Nat /\ n \in Nat /\ m + n <= SendBuffLen
      OBVIOUS
    <2> HIDE DEF m, n
    <2>2. ~(m + n > SendBuffLen)
      BY <2>1, HttpdAssumption
    <2> QED BY <2>2 DEF m, n
  <1>2. Added(buff, data) = buff \o data
    BY <1>1, Zenon DEF Added
  <1>3. buff \o data \in Seq(Int)
    OBVIOUS
  <1> QED BY <1>2, <1>3, Zenon

\* The flush sends what is in the buffer.
Flushed(v, x) ==
    /\ Shape(x) /\ x.d = v.d /\ x.files = v.files /\ x.flash = v.flash /\ x.r = v.r
    /\ x.out = v.buff /\ x.sends = (IF v.buff = <<>> THEN 0 ELSE 1)

\* So it does, whatever is there.
LEMMA FlushSends ==
    ASSUME NEW v, Shape(v), v.out = <<>>, v.sends = 0, v.buff \in Seq(Int)
    PROVE  Flushed(v, httpdFlushSendBuffer(v))
  <1> DEFINE x == httpdFlushSendBuffer(v)
  <1>1. CASE v.buff = <<>>
    <2>1. x = v
      BY <1>1 DEF httpdFlushSendBuffer
    <2> HIDE DEF x
    <2> QED BY <1>1, <2>1 DEF Flushed, x
  <1>2. CASE v.buff # <<>>
    <2> DEFINE b == v.buff
               y == espconn_sent(v, b)
               z == [y EXCEPT !.buff = <<>>]
    <2>1. x = z
      BY <1>2 DEF httpdFlushSendBuffer
    <2>2. <<>> \o b = b
      BY ConcatEmptySeq
    <2>3. /\ Shape(y) /\ y.d = v.d /\ y.files = v.files /\ y.flash = v.flash
          /\ y.out = <<>> \o b /\ y.sends = 1 /\ y.r = v.r
      BY DEF espconn_sent, Shape, WorldFields
    <2> HIDE DEF y
    <2>4. /\ Shape(z) /\ z.d = v.d /\ z.files = v.files /\ z.flash = v.flash
          /\ z.out = <<>> \o b /\ z.sends = 1 /\ z.r = v.r
      BY <2>3 DEF Shape, WorldFields
    <2> HIDE DEF x, z
    <2>5. Flushed(v, x)
      BY <1>2, <2>1, <2>2, <2>4 DEF Flushed
    <2> QED BY <2>5 DEF x
  <1> QED BY <1>1, <1>2

\* One code, which fits into any buffer.
LEMMA SendsAnswer ==
    ASSUME NEW w, Empty(w), NEW code \in Int, NEW r
    PROVE  LET x == httpdFlushSendBuffer(Return(httpdSend(w, <<code>>), r))
           IN  /\ Shape(x) /\ x.d = w.d /\ x.files = w.files /\ x.flash = w.flash
               /\ x.out = <<code>> /\ x.sends = 1 /\ x.r = r
  <1> DEFINE b == Added(<<>>, <<code>>)
             v == Return(httpdSend(w, <<code>>), r)
             x == httpdFlushSendBuffer(v)
  <1>1. b = <<code>> /\ b \in Seq(Int)
    <2>1. /\ <<>> \in Seq(Int) /\ <<code>> \in Seq(Int) /\ Len(<<>>) + Len(<<code>>) = 1
          /\ <<>> \o <<code>> = <<code>>
      OBVIOUS
    <2>2. 1 <= SendBuffLen
      BY HttpdAssumption
    <2>3. Added(<<>>, <<code>>) = <<>> \o <<code>> /\ Added(<<>>, <<code>>) \in Seq(Int)
      BY <2>1, <2>2, AddedFits
    <2> QED BY <2>1, <2>3, Zenon
  <1> HIDE DEF b
  <1>2. /\ Shape(v) /\ v.d = w.d /\ v.files = w.files /\ v.flash = w.flash /\ v.out = <<>>
        /\ v.sends = 0 /\ v.r = r /\ v.buff = b
    <2> DEFINE u == [w EXCEPT !.buff = b]
    <2>1. httpdSend(w, <<code>>) = u
      BY DEF httpdSend, Empty, b
    <2>2. /\ Shape(u) /\ u.d = w.d /\ u.files = w.files /\ u.flash = w.flash /\ u.out = <<>>
          /\ u.sends = 0 /\ u.buff = b
      BY DEF Empty, Shape, WorldFields
    <2> HIDE DEF u
    <2> QED BY <2>1, <2>2 DEF Shape, WorldFields, Return
  <1> HIDE DEF v
  <1>3. Flushed(v, x)
    BY <1>1, <1>2, FlushSends
  <1>4. b # <<>>
    BY <1>1
  <1> HIDE DEF x
  <1>5. /\ Shape(x) /\ x.d = w.d /\ x.files = w.files /\ x.flash = w.flash
        /\ x.out = b /\ x.sends = 1 /\ x.r = r
    BY <1>2, <1>3, <1>4 DEF Flushed
  <1> QED BY <1>1, <1>5, Zenon DEF x, v

\* What a call of cgiUploadFirmware amounts to.
Reset(d) == IF Offset(d) = 0 THEN [d EXCEPT !.cgiPrivData = FALSE] ELSE d
Skipped(d, x) ==
    /\ Reset(d).cgiPrivData /\ x.d = Reset(d) /\ x.flash = flash
    /\ x.out = <<>> /\ x.sends = 0 /\ x.r = "DONE"
Rejected(d, x) ==
    /\ ~Reset(d).cgiPrivData /\ UploadError(Reset(d)) # NULL
    /\ x.d = [Reset(d) EXCEPT !.cgiPrivData = TRUE] /\ x.flash = flash /\ x.r = "DONE"
    /\ x.out = <<UploadError(Reset(d))>> /\ x.out \in {<<400>>, <<500>>}
Accepted(d, x) ==
    /\ ~Reset(d).cgiPrivData /\ UploadError(Reset(d)) = NULL
    /\ d.len <= FwSize /\ Offset(d) % MaxPost = 0
    /\ x.d = Reset(d) /\ x.flash = FlashWrite(d, flash)
    /\ \/ x.out = <<>> /\ x.sends = 0 /\ x.r = "MORE" /\ d.received # d.len
       \/ x.out = << 200 >> /\ x.r = "DONE" /\ d.received = d.len

\* The errors it finds.
LEMMA UploadErrors ==
    ASSUME NEW d \in SlotType
    PROVE  /\ UploadError(d) \in {400, 500, NULL}
           /\ UploadError(d) = NULL => d.len <= FwSize /\ Offset(d) % MaxPost = 0
  <1>1. NULL # 400 /\ NULL # 500
    BY HttpdAssumption
  <1>2. d.len \in Int /\ FwSize \in Int
    BY HttpdAssumption DEF SlotType
  <1>3. CASE d.len > FwSize
    BY <1>1, <1>2, <1>3 DEF UploadError
  <1>4. CASE d.len <= FwSize /\ Offset(d) = 0 /\ ~req[d.conn].image
    BY <1>1, <1>2, <1>4 DEF UploadError
  <1>5. CASE d.len <= FwSize /\ ~(Offset(d) = 0 /\ ~req[d.conn].image)
    <2> DEFINE odd == Offset(d) % MaxPost # 0
               long == d.len > FwSize
               wrong == Offset(d) = 0 /\ ~req[d.conn].image
    <2>1. ~long /\ ~wrong
      BY <1>2, <1>5
    <2>2. UploadError(d) = CASE long -> 400 [] d.len <= FwSize /\ wrong -> 400
                             [] d.len <= FwSize /\ odd -> 500 [] OTHER -> NULL
      BY DEF UploadError
    <2> HIDE DEF odd, long, wrong
    <2>3. UploadError(d) = IF odd THEN 500 ELSE NULL
      BY <1>5, <2>1, <2>2
    <2> QED BY <1>1, <1>5, <2>3 DEF odd
  <1> QED BY <1>2, <1>3, <1>4, <1>5

\* A call skips its block, rejects or accepts it.
LEMMA UploadDoes ==
    ASSUME NEW d \in SlotType, d.conn # NULL
    PROVE  LET x == httpdFlushSendBuffer(cgiUploadFirmware(World(d)))
           IN  Shape(x) /\ (Skipped(d, x) \/ Rejected(d, x) \/ Accepted(d, x))
  <1> DEFINE w == World(d)
             e == Reset(d)
             u == IF Offset(w.d) = 0 THEN [w EXCEPT !.d.cgiPrivData = FALSE] ELSE w
             refused == [u EXCEPT !.d.cgiPrivData = TRUE]
             written == [u EXCEPT !.flash = FlashWrite(u.d, @)]
             error == UploadError(u.d)
             v == cgiUploadFirmware(w)
             x == httpdFlushSendBuffer(v)
  <1>1. /\ Empty(w) /\ w.d = d /\ w.flash = flash
    <2>1. DOMAIN d = SlotFields
      BY DEF SlotType, SlotFields
    <2> QED BY <2>1, WorldShape DEF World, Empty
  <1>2. /\ e \in SlotType /\ e.conn = d.conn /\ e.len = d.len /\ e.received = d.received
        /\ e.buffLen = d.buffLen /\ DOMAIN e = SlotFields
    BY DEF Reset, SlotType, SlotFields
  <1>3. FlashWrite(e, flash) = FlashWrite(d, flash) /\ Offset(e) = Offset(d)
    BY <1>2 DEF FlashWrite, Offset
  <1> HIDE DEF w
  <1>4. v = CASE u.d.conn = NULL -> Return(w, "DONE")
              [] u.d.conn # NULL /\ u.d.cgiPrivData -> Return(u, "DONE")
              [] u.d.conn # NULL /\ ~u.d.cgiPrivData /\ error # NULL ->
                    Return(httpdSend(refused, <<error>>), "DONE")
              [] OTHER -> IF u.d.received = u.d.len
                          THEN Return(httpdSend(written, << 200 >>), "DONE")
                          ELSE Return(written, "MORE")
    BY DEF cgiUploadFirmware
  <1> HIDE DEF v
  <1>5. Empty(u) /\ u.d = e /\ u.flash = flash
    <2> DEFINE y == [w EXCEPT !.d.cgiPrivData = FALSE]
    <2>1. Empty(y) /\ y.d = [d EXCEPT !.cgiPrivData = FALSE] /\ y.flash = flash
      BY <1>1 DEF Empty, Shape, WorldFields, SlotFields
    <2> HIDE DEF y
    <2>2. u = IF Offset(d) = 0 THEN y ELSE w
      BY <1>1 DEF y
    <2> HIDE DEF u
    <2> QED BY <1>1, <2>1, <2>2 DEF Reset
  <1> HIDE DEF e, u
  <1>6. /\ Empty(refused) /\ refused.d = [e EXCEPT !.cgiPrivData = TRUE]
        /\ refused.flash = flash
    BY <1>5 DEF Empty, Shape, WorldFields, SlotFields
  <1>7. /\ Empty(written) /\ written.d = e /\ written.flash = FlashWrite(d, flash)
    BY <1>3, <1>5 DEF Empty, Shape, WorldFields
  <1> HIDE DEF refused, written
  <1>8. error \in {400, 500, NULL} /\ (error = NULL => d.len <= FwSize /\ Offset(d) % MaxPost = 0)
    BY <1>2, <1>3, <1>5, UploadErrors
  <1> HIDE DEF error
  <1>9. v = CASE e.conn = NULL -> Return(w, "DONE")
              [] e.conn # NULL /\ e.cgiPrivData -> Return(u, "DONE")
              [] e.conn # NULL /\ ~e.cgiPrivData /\ error # NULL ->
                    Return(httpdSend(refused, <<error>>), "DONE")
              [] OTHER -> IF e.received = e.len
                          THEN Return(httpdSend(written, << 200 >>), "DONE")
                          ELSE Return(written, "MORE")
    BY <1>4, <1>5
  <1>10. CASE e.cgiPrivData
    <2>1. v = Return(u, "DONE")
      BY <1>2, <1>9, <1>10
    <2>2. Shape(x) /\ x.d = e /\ x.flash = flash /\ x.out = <<>> /\ x.sends = 0 /\ x.r = "DONE"
      BY <1>5, <2>1, SendsNothing
    <2> HIDE DEF x
    <2>3. Skipped(d, x)
      BY <1>10, <2>2 DEF Skipped, e
    <2> QED BY <2>2, <2>3 DEF x, v, w
  <1>11. CASE ~e.cgiPrivData /\ error # NULL
    <2>1. v = Return(httpdSend(refused, <<error>>), "DONE")
      BY <1>2, <1>9, <1>11
    <2>3. error \in {400, 500} /\ error \in Int
      BY <1>8, <1>11
    <2>2. /\ Shape(x) /\ x.d = refused.d /\ x.flash = refused.flash
          /\ x.out = <<error>> /\ x.r = "DONE"
      BY <1>6, <2>1, <2>3, SendsAnswer
    <2> HIDE DEF x
    <2>4. /\ Shape(x) /\ x.d = [e EXCEPT !.cgiPrivData = TRUE] /\ x.flash = flash
          /\ x.r = "DONE" /\ x.out = <<error>>
      BY <1>6, <2>2
    <2>6. x.out \in {<<400>>, <<500>>}
      <3>1. ASSUME NEW a, NEW b, error \in {a, b}
            PROVE  x.out \in {<<a>>, <<b>>}
        BY <2>4, <3>1
      <3> QED BY <2>3, <3>1
    <2>8. error = UploadError(e)
      BY <1>5 DEF error
    <2>7. Rejected(d, x)
      BY <1>11, <2>4, <2>6, <2>8, Zenon DEF Rejected, e
    <2> QED BY <2>4, <2>7 DEF x, v, w
  <1>12. CASE ~e.cgiPrivData /\ error = NULL /\ e.received = e.len
    <2>1. v = Return(httpdSend(written, << 200 >>), "DONE")
      BY <1>2, <1>9, <1>12
    <2>4. 200 \in Int
      OBVIOUS
    <2>2. /\ Shape(x) /\ x.d = written.d /\ x.flash = written.flash
          /\ x.out = << 200 >> /\ x.r = "DONE"
      BY <1>7, <2>1, <2>4, SendsAnswer
    <2> HIDE DEF x
    <2>5. error = UploadError(e)
      BY <1>5 DEF error
    <2>3. Shape(x) /\ Accepted(d, x)
      BY <1>2, <1>7, <1>8, <1>12, <2>2, <2>5 DEF Accepted, e
    <2> QED BY <2>3 DEF x, v, w
  <1>13. CASE ~e.cgiPrivData /\ error = NULL /\ e.received # e.len
    <2>1. v = Return(written, "MORE")
      BY <1>2, <1>9, <1>13
    <2>2. /\ Shape(x) /\ x.d = e /\ x.flash = FlashWrite(d, flash) /\ x.out = <<>>
          /\ x.sends = 0 /\ x.r = "MORE"
      BY <1>7, <2>1, SendsNothing
    <2> HIDE DEF x
    <2>4. error = UploadError(e)
      BY <1>5 DEF error
    <2>3. Accepted(d, x)
      BY <1>2, <1>8, <1>13, <2>2, <2>4 DEF Accepted, e
    <2> QED BY <2>2, <2>3 DEF x, v, w
  <1> QED BY <1>10, <1>11, <1>12, <1>13

\* An entry that passes is asked in vain: the slot is as the table has
\* prepared it, nothing is sent and the search goes on.
LEMMA PassedOn ==
    ASSUME NEW d \in SlotType, d.conn # NULL, d.cgiData = NULL, req[d.conn] # NULL,
           d.url = req[d.conn].url, NEW i, d.cgi = BuiltInUrls[i].cgi,
           Passes(i, req[d.conn]), NEW stale
    PROVE  LET x == httpdFlushSendBuffer(Cgi(World(d), stale))
           IN  Shape(x) /\ x.d = d /\ x.r \in {"NOTFOUND", "AUTHENTICATED"}
  <1> DEFINE w == World(d)
             v == Cgi(w, stale)
  <1>1. Empty(w) /\ w.d = d
    <2>1. DOMAIN d = SlotFields
      BY DEF SlotType, SlotFields
    <2> QED BY <2>1, WorldShape DEF World, Empty
  <1> HIDE DEF w
  <1>2. v = Return(w, "AUTHENTICATED") \/ v = Return(w, "NOTFOUND")
    <2>1. CASE d.cgi = "authBasic" /\ req[d.conn].auth
      <3>1. v = authBasic(w)
        BY <1>1, <2>1 DEF Cgi
      <3> QED BY <1>1, <2>1, <3>1 DEF authBasic
    <2>2. CASE d.cgi \in FileCgis /\ d.url \notin DOMAIN File
      <3>1. ~CanOpen(w)
        BY <1>1, <2>2 DEF CanOpen
      <3>2. v = cgiEspFsHook(w, stale) \/ v = cgiEspFsTemplate(w)
        BY <1>1, <2>2 DEF Cgi, FileCgis
      <3> QED BY <1>1, <3>1, <3>2 DEF cgiEspFsHook, HookOpen, cgiEspFsTemplate
    <2>3. CASE d.cgi = "cgiEspFsTemplate" /\ d.url \in Gzip
      <3>1. v = cgiEspFsTemplate(w)
        BY <1>1, <2>3 DEF Cgi
      <3> QED BY <1>1, <2>3, <3>1 DEF cgiEspFsTemplate
    <2> QED BY <2>1, <2>2, <2>3 DEF Passes
  <1> HIDE DEF v
  <1>3. ASSUME NEW r, v = Return(w, r)
        PROVE  LET x == httpdFlushSendBuffer(v) IN Shape(x) /\ x.d = d /\ x.r = r
    BY <1>1, <1>3, SendsNothing
  <1> QED BY <1>2, <1>3 DEF v, w

-----------------------------------------------------------------------------
(* The steps *)

\* At the start nothing has been sent.
LEMMA UploadInit == Init => UploadInv
  <1> SUFFICES ASSUME Init PROVE UploadInv
    OBVIOUS
  <1>1. Silent /\ Domains
    BY DEF Init, Silent, Domains
  <1>2. \A c \in Conns : SlotsOf(c) = {} /\ reply[c] = <<>> /\ pending[c] = 0
    BY HttpdAssumption DEF Init, SlotsOf, httpdFindConnData, FreeSlot
  <1>3. \A c \in Conns : UploadOK(c)
    BY <1>2 DEF UploadOK, Routes, Begun
  <1> QED BY <1>1, <1>3 DEF UploadInv

\* A step for connection e: the others do not notice it, except in flash
\* that bears its trace.
SlotSame(s) ==
    /\ connData'[s] = connData[s] /\ WhereOf(call', s) = WhereOf(call, s)
    /\ WhereOf(call, s) = "table" => call'.i = call.i

Concerns(e) ==
    /\ req' = req /\ DOMAIN reply' = Conns /\ Traces(flash, flash', e)
    /\ \A c \in Conns : state'[c] = "none" => state[c] = "none"
    /\ \A c \in Conns \ {e} : reply'[c] = reply[c] /\ pending'[c] = pending[c]
    /\ \A s \in Slots : connData'[s].conn \in Conns \ {e} => SlotSame(s)
    /\ e \in Conns => reply'[e] = reply[e] \/ (req[e] # NULL /\ state[e] # "none")

\* What another connection leaves of an upload.
LEMMA TracesProgress ==
    ASSUME NEW fl, NEW gl, NEW e, NEW c, e # c, Traces(fl, gl, e)
    PROVE  /\ \A n : Written(fl, c, n) => Written(gl, c, n)
           /\ \A d : Going(d, fl, c) => Going(d, gl, c)
  <1>1. ASSUME NEW a \in DOMAIN fl
        PROVE  /\ Mine(fl[a], c, a) => Mine(gl[a], c, a)
               /\ Fresh(fl[a], c) => Fresh(gl[a], c)
    <2>1. CASE gl[a] = fl[a]
      BY <2>1
    <2>2. CASE e \in gl[a].by
      BY <2>2 DEF Mine, Fresh
    <2> QED BY <2>1, <2>2 DEF Traces
  <1>2. \A n : Written(fl, c, n) => Written(gl, c, n)
    BY <1>1 DEF Written, Traces
  <1>3. \A n : Ahead(fl, c, n) => Ahead(gl, c, n)
    BY <1>1 DEF Ahead, Traces
  <1> QED BY <1>2, <1>3 DEF Going, Progress

\* So it is enough to look at the connection a step is for.
LEMMA Others ==
    ASSUME UploadInv, NEW e, Concerns(e),
           e \in Conns /\ Uploading(e) => UploadOK(e)'
    PROVE  UploadInv'
  <1>1. Silent'
    BY DEF UploadInv, Silent, Concerns
  <1>2. Domains'
    BY DEF UploadInv, Domains, Concerns, Traces
  <1>3. ASSUME NEW c \in Conns, Uploading(c)', c # e
        PROVE  UploadOK(c)'
    <2>1. UploadOK(c)
      BY <1>3 DEF UploadInv, Uploading, Concerns
    <2>2. reply'[c] = reply[c] /\ pending'[c] = pending[c] /\ req' = req
      BY <1>3 DEF Concerns
    <2>3. \A s \in SlotsOf(c)' : s \in SlotsOf(c) /\ SlotSame(s)
      <3>1. SUFFICES ASSUME NEW s \in Slots, connData'[s].conn = c
                     PROVE  connData[s].conn = c /\ SlotSame(s)
        BY DEF SlotsOf, httpdFindConnData
      <3>2. SlotSame(s)
        BY <1>3, <3>1 DEF Concerns
      <3> QED BY <3>1, <3>2 DEF SlotSame
    <2>4. Routes(c)'
      <3> SUFFICES ASSUME NEW s \in SlotsOf(c)'
                   PROVE  Routed(connData'[s], call', WhereOf(call', s), req'[c])
        BY DEF Routes
      <3>1. Routed(connData[s], call, WhereOf(call, s), req[c]) /\ SlotSame(s)
        BY <2>1, <2>3 DEF UploadOK, Routes
      <3> QED BY <2>2, <3>1 DEF SlotSame, Routed
    <2>5. /\ \A n : Written(flash, c, n) => Written(flash', c, n)
          /\ \A d : Going(d, flash, c) => Going(d, flash', c)
      BY <1>3, TracesProgress DEF Concerns
    <2>6. CASE Begun(c)
      <3>1. \A s \in SlotsOf(c)' : Going(connData'[s], flash', c)
        BY <2>3, <2>5, <2>6 DEF Begun, SlotSame
      <3>2. Begun(c)'
        BY <2>2, <2>6, <3>1 DEF Begun
      <3> QED BY <2>4, <3>2 DEF UploadOK
    <2>7. CASE Stored(c)
      <3>1. \A s \in SlotsOf(c)' : Over(connData'[s], WhereOf(call', s))
        BY <2>3, <2>7 DEF Stored, SlotSame
      <3>2. Stored(c)'
        BY <2>2, <2>5, <2>7, <3>1 DEF Stored
      <3> QED BY <2>4, <3>2 DEF UploadOK
    <2>8. CASE Refused(c)
      BY <2>2, <2>4, <2>8 DEF UploadOK, Refused
    <2> QED BY <2>1, <2>6, <2>7, <2>8 DEF UploadOK
  <1>4. ASSUME NEW c \in Conns, Uploading(c)', c = e
        PROVE  UploadOK(c)'
    BY <1>4 DEF Uploading, Concerns
  <1> QED BY <1>1, <1>2, <1>3, <1>4 DEF UploadInv

\* A step that leaves pool, flash and answers alone, outside of the table.
LEMMA UploadIdle ==
    ASSUME UploadInv, UNCHANGED <<connData, flash, req, reply, pending>>,
           \A c \in Conns : state'[c] = "none" => state[c] = "none",
           \A t \in Slots : WhereOf(call, t) = "net" /\ WhereOf(call', t) = "net"
    PROVE  UploadInv'
  <1>1. Concerns(NULL)
    BY HttpdAssumption DEF Concerns, SlotSame, Traces, UploadInv, Domains
  <1> QED BY <1>1, Others, HttpdAssumption

\* Units arrive.
LEMMA UploadRecv ==
    ASSUME FilesInv, UploadInv, NEW c \in Conns, NEW n \in 1 .. MaxSegment,
           httpdRecvCb(c, n)
    PROVE  UploadInv'
  <1>1. /\ call = NoCall /\ state' = state
        /\ UNCHANGED <<connData, flash, req, reply, pending>>
    BY DEF httpdRecvCb
  <1>2. call' = call \/ \E s \in Slots : call' = Recv(s, n)
    BY DEF httpdRecvCb, httpdFindConnData
  <1>3. n \in Nat
    OBVIOUS
  <1>4. \A t \in Slots : WhereOf(call, t) = "net" /\ WhereOf(call', t) = "net"
    <2>1. \A t \in Slots : WhereOf(call, t) = "net"
      BY <1>1, NoLeft DEF NoCall
    <2>2. \A s, t \in Slots : call' = Recv(s, n) => WhereOf(call', t) = "net"
      BY <1>3, RecvLeft
    <2> QED BY <1>2, <2>1, <2>2
  <1> QED BY <1>1, <1>4, UploadIdle

\* A unit of the head.
LEMMA UploadHead ==
    ASSUME FilesInv, UploadInv, HeadByte
    PROVE  UploadInv'
  <1>1. /\ InRecv /\ call' = Recv(call.slot, call.left - 1)
        /\ UNCHANGED <<connData, flash, req, reply, pending, state>>
    BY DEF HeadByte, RecvNext, net
  <1>2. call.left - 1 \in Nat
    BY <1>1, InHand
  <1>3. \A t \in Slots : WhereOf(call, t) = "net"
    BY <1>1 DEF WhereOf, InRecv
  <1>4. \A t \in Slots : WhereOf(call', t) = "net"
    BY <1>1, <1>2, RecvLeft
  <1> QED BY <1>1, <1>3, <1>4, UploadIdle

\* A client leaves, or a disconnect callback begins or passes a slot over.
LEMMA UploadRest ==
    ASSUME FilesInv, UploadInv,
           (\E c \in Conns : httpdDisconCb(c) \/ Leave(c)) \/ DisconSkip
    PROVE  UploadInv'
  <1>1. CASE \E c \in Conns : httpdDisconCb(c) \/ Leave(c)
    <2>1. PICK c \in Conns : httpdDisconCb(c) \/ Leave(c)
      BY <1>1
    <2>2. /\ UNCHANGED <<connData, flash, req, reply, pending>>
          /\ call.cb \notin {"recv", "process"} /\ call'.cb \notin {"recv", "process"}
      BY <2>1 DEF httpdDisconCb, Leave, NoCall
    <2>3. PICK to \in {"gone", "left", "reset"} : state' = [state EXCEPT ![c] = to]
      BY <2>1 DEF httpdDisconCb, Leave
    <2>4. \A e \in Conns : state'[e] = "none" => state[e] = "none"
      BY <2>3 DEF FilesInv, Types
    <2> QED BY <2>2, <2>4, NoLeft, UploadIdle
  <1>2. CASE DisconSkip
    <2>1. /\ UNCHANGED <<connData, flash, req, reply, pending, state>>
          /\ InDiscon /\ DisconNext
      BY <1>2 DEF DisconSkip, net
    <2> QED BY <2>1, DisconCalls, UploadIdle DEF FilesInv
  <1> QED BY <1>1, <1>2

\* A connection that is made has nothing in the flash yet.
LEMMA UploadConnect ==
    ASSUME FilesInv, UploadInv, NEW e \in Conns, httpdConnectCb(e)
    PROVE  UploadInv'
  <1>1. /\ call = NoCall /\ call' = call /\ UNCHANGED <<flash, req, reply, pending>>
        /\ req[e] # NULL /\ state[e] = "none"
    BY DEF httpdConnectCb
  <1>2. \A t \in Slots : WhereOf(call, t) = "net" /\ WhereOf(call', t) = "net"
    BY <1>1, NoLeft DEF NoCall
  <1>3. CASE Unused = {}
    <2>1. connData' = connData /\ state' = [state EXCEPT ![e] = "refused"]
      BY <1>3 DEF httpdConnectCb
    <2>2. \A c \in Conns : state'[c] = "none" => state[c] = "none"
      BY <2>1 DEF FilesInv, Types
    <2> QED BY <1>1, <1>2, <2>1, <2>2, UploadIdle
  <1>4. CASE Unused # {}
    <2> DEFINE s == CHOOSE i \in Unused : \A j \in Unused : i <= j
               d == [connData[s] EXCEPT !.conn = e, !.len = -1, !.received = 0,
                                        !.buffLen = 0]
    <2>1. s \in Unused
      <3>1. Unused \in SUBSET Nat
        BY HttpdAssumption DEF Unused, Slots
      <3> QED BY <1>4, <3>1, Least
    <2>2. /\ connData' = [connData EXCEPT ![s] = d]
          /\ state' = [state EXCEPT ![e] = "open"]
      BY <1>4 DEF httpdConnectCb
    <2> HIDE DEF s
    <2>3. s \in Slots /\ connData[s].conn = NULL /\ connData[s] \in SlotType
      BY <2>1 DEF Unused, FilesInv, Types
    <2>4. /\ d.conn = e /\ d.len = -1 /\ d.received = 0
          /\ d.buffLen = 0 /\ d.cgi = connData[s].cgi
      BY <2>3 DEF SlotType
    <2> HIDE DEF d
    <2>5. /\ connData'[s] = d
          /\ \A t \in Slots : t # s => connData'[t] = connData[t]
      BY <2>2, <2>3 DEF FilesInv, Types
    <2>6. d.cgi = NULL
      BY <2>3, <2>4 DEF FilesInv, SlotsInv, SlotInv
    <2>7. \A c \in Conns : state'[c] = "none" => state[c] = "none"
      BY <2>2 DEF FilesInv, Types
    <2>8. Concerns(e)
      <3>1. \A t \in Slots : connData'[t].conn \in Conns \ {e} => SlotSame(t)
        BY <1>1, <2>4, <2>5 DEF SlotSame
      <3>2. DOMAIN reply' = Conns /\ Traces(flash, flash', e)
        BY <1>1 DEF UploadInv, Domains, Traces
      <3> QED BY <1>1, <2>7, <3>1, <3>2 DEF Concerns
    <2>9. ASSUME Uploading(e)
          PROVE  UploadOK(e)'
      <3>1. \A t \in SlotsOf(e)' : t = s
        <4>1. \A t \in Slots : connData[t].conn # e
          BY <1>1, HttpdAssumption DEF FilesInv, PoolInv, Unmade
        <4> QED BY <2>5, <4>1 DEF SlotsOf, httpdFindConnData
      <3>2. Routed(d, call', "net", req'[e])
        BY <2>4, <2>6, HttpdAssumption DEF Routed
      <3>3. Routes(e)'
        BY <1>2, <2>3, <2>5, <3>1, <3>2 DEF Routes
      <3>4. reply[e] = <<>>
        BY <1>1 DEF UploadInv, Silent
      <3>5. Begun(e)
        <4>1. UploadOK(e)
          BY <2>9 DEF UploadInv
        <4> QED BY <3>4, <4>1 DEF UploadOK, Stored, Refused
      <3>6. Going(d, flash', e)
        <4>1. Offset(d) = 0
          BY <2>4 DEF Offset
        <4>2. DOMAIN flash \subseteq Nat
          BY HttpdAssumption DEF UploadInv, Domains
        <4>3. Progress(flash, e, 0)
          BY <4>2, NoProgress
        <4> QED BY <1>1, <4>1, <4>3 DEF Going
      <3>7. Begun(e)'
        BY <1>1, <2>5, <3>1, <3>5, <3>6 DEF Begun
      <3> QED BY <3>3, <3>7 DEF UploadOK
    <2> QED BY <2>8, <2>9, Others
  <1> QED BY <1>3, <1>4

\* The entry of the table an upload belongs to.
LEMMA PlaceOf ==
    ASSUME FilesInv, NEW c \in Conns, Uploading(c)
    PROVE  LET q == req[c]
               p == Place(q)
           IN  /\ p \in Nat \ {0} /\ p \in DOMAIN BuiltInUrls
               /\ BuiltInUrls[p].cgi = "cgiUploadFirmware"
               /\ q.url \in BuiltInUrls[p].urls /\ q.url # NULL
               /\ \A i \in Taking(q) : p <= i
  <1> DEFINE q == req[c]
             p == Place(q)
  <1>1. q \in AllRequests
    <2>1. req \in Scenarios /\ q # NULL
      BY DEF FilesInv, Types, Uploading
    <2>2. q \in {req[x] : x \in Conns}
      OBVIOUS
    <2> HIDE DEF q
    <2> QED BY <2>1, <2>2 DEF AllRequests
  <1>2. DOMAIN BuiltInUrls = 1 .. Len(BuiltInUrls) /\ Len(BuiltInUrls) \in Nat
    BY HttpdAssumption
  <1>3. Handler[q] = IF Taking(q) = {} THEN "none" ELSE BuiltInUrls[p].cgi
    BY <1>1 DEF Handler, Place
  <1>4. Handler[q] = "cgiUploadFirmware"
    BY DEF Uploading
  <1> HIDE DEF q
  <1>5. Taking(q) \in SUBSET Nat /\ Taking(q) # {} /\ Taking(q) \subseteq DOMAIN BuiltInUrls
    BY <1>2, <1>3, <1>4 DEF Taking
  <1>6. p \in Taking(q) /\ \A i \in Taking(q) : p <= i
    BY <1>5, Least DEF Place
  <1> HIDE DEF p
  <1>7. q.url \in Urls
    BY <1>6 DEF Taking, Urls
  <1>8. p \in 1 .. Len(BuiltInUrls)
    BY <1>2, <1>6 DEF Taking
  <1>9. /\ p \in Nat \ {0} /\ p \in DOMAIN BuiltInUrls
        /\ BuiltInUrls[p].cgi = "cgiUploadFirmware"
        /\ q.url \in BuiltInUrls[p].urls /\ q.url # NULL
    BY <1>2, <1>3, <1>4, <1>5, <1>6, <1>7, <1>8, HttpdAssumption DEF Taking
  <1> QED BY <1>6, <1>9 DEF p, q

\* What a unit in hand may do to the slot of an upload.
LEMMA UploadUnit ==
    ASSUME FilesInv, UploadInv, InRecv, NEW e, e = D.conn, NEW d, d.conn = e,
           connData' = [connData EXCEPT ![call.slot] = d],
           UNCHANGED <<flash, req, reply, pending, state>>,
           Process \/ call' = Recv(call.slot, call.left - 1),
           Uploading(e) =>
              /\ d.buffLen <= MaxPost /\ d.buffLen <= d.received
              /\ d.url = req[e].url /\ d.cgi \in {NULL, "cgiUploadFirmware"}
              /\ Process \/ d.buffLen < MaxPost
              /\ ~Over(D, "net")
              /\ Going(D, flash, e) => Going(d, flash, e)
    PROVE  UploadInv'
  <1>1. PICK s \in Slots :
           /\ s = call.slot /\ D = connData[s] /\ e \in Conns
           /\ call.left - 1 \in Nat
           /\ \A t \in Slots : t # s => WhereOf(call, t) = "net"
    BY InHand
  <1>2. /\ connData'[s] = d /\ connData[s].conn = e
        /\ \A t \in Slots : t # s => connData'[t] = connData[t]
    BY <1>1 DEF FilesInv, Types
  <1>3. /\ WhereOf(call, s) = "net"
        /\ \A t \in Slots : t # s => WhereOf(call', t) = "net"
        /\ \/ WhereOf(call', s) = "table" /\ Process /\ call'.i = 1
           \/ WhereOf(call', s) = "net" /\ call' = Recv(s, call.left - 1)
    <2>1. WhereOf(call, s) = "net"
      BY DEF WhereOf, InRecv
    <2>2. CASE Process
      BY <1>1, <2>1, <2>2 DEF Process, WhereOf
    <2>3. CASE call' = Recv(s, call.left - 1)
      <3>1. \A t \in Slots : WhereOf(call', t) = "net"
        BY <1>1, <2>3, RecvLeft
      <3> QED BY <1>1, <2>1, <2>3, <3>1
    <2> QED BY <1>1, <2>2, <2>3
  <1>4. Concerns(e)
    <2>1. \A t \in Slots : connData'[t].conn \in Conns \ {e} => SlotSame(t)
      BY <1>1, <1>2, <1>3 DEF SlotSame
    <2>2. DOMAIN reply' = Conns /\ Traces(flash, flash', e)
      BY DEF UploadInv, Domains, Traces
    <2> QED BY <1>1, <2>1, <2>2 DEF Concerns
  <1>5. ASSUME Uploading(e)
        PROVE  UploadOK(e)'
    <2>1. SlotsOf(e) = {s} /\ SlotsOf(e)' = {s}
      <3>1. \A t \in Slots : t # s => connData[t].conn # e
        BY <1>1, <1>2, HttpdAssumption DEF FilesInv, PoolInv, Unique
      <3> QED BY <1>1, <1>2, <3>1 DEF SlotsOf, httpdFindConnData
    <2>2. UploadOK(e)
      BY <1>1, <1>5 DEF UploadInv
    <2>3. 1 <= Place(req[e])
      BY <1>1, <1>5, PlaceOf
    <2>4. /\ d.buffLen <= MaxPost /\ d.buffLen <= d.received
          /\ d.url = req[e].url /\ d.cgi \in {NULL, "cgiUploadFirmware"}
          /\ Process \/ d.buffLen < MaxPost
          /\ ~Over(D, "net")
          /\ Going(D, flash, e) => Going(d, flash, e)
      BY <1>5
    <2>5. Routes(e)'
      <3>1. CASE WhereOf(call', s) = "table" /\ Process /\ call'.i = 1
        <4>1. Routed(d, call', "table", req[e])
          BY <2>3, <2>4, <3>1 DEF Routed
        <4> QED BY <1>2, <2>1, <3>1, <4>1 DEF Routes
      <3>2. CASE WhereOf(call', s) = "net" /\ call' = Recv(s, call.left - 1)
        <4>1. ~Process
          BY <3>2 DEF Recv, NoCall, Process
        <4>2. Routed(d, call', "net", req[e])
          BY <2>4, <4>1 DEF Routed
        <4> QED BY <1>2, <2>1, <3>2, <4>2 DEF Routes
      <3> QED BY <1>3, <3>1, <3>2
    <2>6. CASE Begun(e)
      <3>1. Going(D, flash, e)
        BY <1>1, <2>1, <2>6 DEF Begun
      <3>2. Going(d, flash, e)
        BY <2>4, <3>1
      <3>3. Begun(e)'
        BY <1>2, <2>1, <2>6, <3>2 DEF Begun
      <3> QED BY <2>5, <3>3 DEF UploadOK
    <2>7. ~Stored(e)
      BY <1>1, <1>3, <2>1, <2>4 DEF Stored
    <2>8. CASE Refused(e)
      <3>1. Refused(e)'
        BY <2>8 DEF Refused
      <3> QED BY <2>5, <3>1 DEF UploadOK
    <2> QED BY <2>2, <2>6, <2>7, <2>8 DEF UploadOK
  <1> QED BY <1>4, <1>5, Others

\* The end of the head.
LEMMA UploadHeadEnd ==
    ASSUME FilesInv, UploadInv, HeadEnd
    PROVE  UploadInv'
  <1> DEFINE q == req[D.conn]
             d == [D EXCEPT !.url = q.url, !.len = q.len]
  <1>1. /\ InRecv /\ D.len < 0 /\ UNCHANGED <<flash, req, reply, pending, state>>
    BY DEF HeadEnd, net
  <1>2. /\ call.slot \in Slots /\ D = connData[call.slot] /\ D \in SlotType
        /\ D.conn # NULL /\ SlotInv(D, call.left, "net", req, received)
    BY <1>1, InHand
  <1>3. D.cgi = NULL /\ D.received = 0 /\ D.buffLen = 0
    BY <1>1, <1>2 DEF SlotInv, Counted
  <1>4. /\ d.conn = D.conn /\ d.cgi = NULL /\ d.received = 0 /\ d.buffLen = 0
        /\ d.url = q.url /\ d.cgiPrivData = D.cgiPrivData
    BY <1>2, <1>3 DEF SlotType
  <1>5. connData' = [connData EXCEPT ![call.slot] = d]
    BY <1>2 DEF HeadEnd, FilesInv, Types, SlotType
  <1> HIDE DEF d
  <1>6. Process \/ call' = Recv(call.slot, call.left - 1)
    BY DEF HeadEnd, RecvNext
  <1>7. ~Over(D, "net")
    BY <1>1, <1>2 DEF Over, SlotType
  <1>8. Going(D, flash, D.conn) => Going(d, flash, D.conn)
    BY <1>3, <1>4 DEF Going, Offset
  <1>9. d.buffLen < MaxPost /\ d.buffLen <= MaxPost /\ d.buffLen <= d.received
    BY <1>4, HttpdAssumption
  <1> HIDE DEF q
  <1>10. q = req[D.conn]
    BY DEF q
  <1> QED BY <1>1, <1>4, <1>5, <1>6, <1>7, <1>8, <1>9, <1>10, UploadUnit

\* A unit of the body.
LEMMA UploadPost ==
    ASSUME FilesInv, UploadInv, PostByte
    PROVE  UploadInv'
  <1> DEFINE q == req[D.conn]
             d == [D EXCEPT !.buffLen = @ + 1, !.received = @ + 1]
  <1>1. /\ InRecv /\ D.len > 0 /\ UNCHANGED <<flash, req, reply, pending, state>>
    BY DEF PostByte, net
  <1>2. /\ call.slot \in Slots /\ D = connData[call.slot] /\ D \in SlotType
        /\ D.conn # NULL /\ D.conn \in Conns /\ call.left \in Nat \ {0}
        /\ SlotInv(D, call.left, "net", req, received)
        /\ \A t \in Slots : t # call.slot => WhereOf(call, t) = "net"
    BY <1>1, InHand
  <1>3. D.len \in Int /\ D.received \in Nat /\ D.buffLen \in Nat /\ MaxPost \in Nat
    BY <1>2, HttpdAssumption DEF SlotType
  <1>4. /\ d.conn = D.conn /\ d.cgi = D.cgi /\ d.url = D.url
        /\ d.cgiPrivData = D.cgiPrivData
        /\ d.received = D.received + 1 /\ d.buffLen = D.buffLen + 1
    <2> DEFINE m == D.buffLen + 1
               n == D.received + 1
    <2> HIDE DEF m, n
    <2>1. d = [D EXCEPT !.buffLen = m, !.received = n]
      BY DEF m, n
    <2> QED BY <1>2, <2>1 DEF SlotType, m, n
  <1>5. connData' = [connData EXCEPT ![call.slot] = d]
    BY <1>2 DEF PostByte, FilesInv, Types, SlotType
  <1> HIDE DEF d
  <1>6. /\ Process \/ call' = Recv(call.slot, call.left - 1)
        /\ D.buffLen + 1 >= BuffSize => Process
    BY DEF PostByte, RecvNext
  <1>7. D.received < D.len
    <2>1. /\ q # NULL /\ received[D.conn] <= Length(q) /\ D.len = q.len
          /\ D.received + call.left = received[D.conn] - q.head
      BY <1>1, <1>2, <1>3 DEF SlotInv, Counted, Asks
    <2>2. q.head \in Nat /\ q.len \in Nat /\ Length(q) = q.head + q.len
      BY <1>2, <2>1, Requests DEF FilesInv
    <2>3. received[D.conn] \in Nat
      BY <1>2 DEF FilesInv, Types
    <2> DEFINE n == received[D.conn]
               h == q.head
               l == q.len
               r == D.received
    <2>4. /\ n \in Nat /\ h \in Nat /\ l \in Nat /\ r \in Nat /\ call.left \in Nat \ {0}
          /\ n <= h + l /\ D.len = l /\ r + call.left = n - h
      BY <1>2, <1>3, <2>1, <2>2, <2>3
    <2> HIDE DEF n, h, l, r
    <2>5. r < l
      BY <2>4
    <2> QED BY <2>4, <2>5 DEF r
  <1>8. ~Over(D, "net")
    BY <1>3, <1>7 DEF Over
  <1>9. Going(D, flash, D.conn) => Going(d, flash, D.conn)
    <2>1. Offset(d) = Offset(D)
      BY <1>3, <1>4 DEF Offset
    <2> QED BY <1>4, <2>1 DEF Going
  <1>10. ASSUME Uploading(D.conn)
         PROVE  /\ d.buffLen <= MaxPost /\ d.buffLen <= d.received
                /\ d.url = req[D.conn].url /\ d.cgi \in {NULL, "cgiUploadFirmware"}
                /\ Process \/ d.buffLen < MaxPost
    <2>1. Routed(D, call, "net", req[D.conn])
      <3>1. WhereOf(call, call.slot) = "net"
        BY <1>1 DEF WhereOf, InRecv
      <3>2. call.slot \in SlotsOf(D.conn)
        BY <1>2 DEF SlotsOf, httpdFindConnData
      <3> QED BY <1>2, <1>10, <3>1, <3>2 DEF UploadInv, UploadOK, Routes
    <2>2. /\ D.buffLen < MaxPost /\ D.buffLen <= D.received
          /\ D.url = req[D.conn].url /\ D.cgi \in {NULL, "cgiUploadFirmware"}
      BY <1>1, <1>3, <2>1 DEF Routed
    <2>3. BuffSize <= MaxPost /\ BuffSize \in Int
      BY <1>3 DEF BuffSize, MinNat
    <2> HIDE DEF Process
    <2>4. Process \/ d.buffLen < MaxPost
      <3>1. CASE D.buffLen + 1 >= BuffSize
        BY <1>6, <3>1
      <3>2. CASE ~(D.buffLen + 1 >= BuffSize)
        BY <1>3, <1>4, <2>3, <3>2
      <3> QED BY <3>1, <3>2
    <2>5. d.buffLen <= MaxPost /\ d.buffLen <= d.received
      BY <1>3, <1>4, <2>2
    <2> QED BY <1>4, <2>2, <2>4, <2>5
  <1> QED BY <1>1, <1>4, <1>5, <1>6, <1>8, <1>9, <1>10, UploadUnit

\* The slot of an upload while the table is asked: its entry is still ahead,
\* and it has not been answered with 200.
LEMMA UploadAsks ==
    ASSUME FilesInv, UploadInv, InProcess, NEW e, e = D.conn, Uploading(e)
    PROVE  /\ SlotsOf(e) = {call.slot} /\ UploadOK(e) /\ ~Stored(e)
           /\ D.url = req[e].url /\ D.url # NULL /\ D.len >= 0
           /\ D.buffLen <= MaxPost /\ D.buffLen <= D.received
           /\ Matching # {} /\ Entry \in Matching /\ Entry <= Place(req[e])
  <1>1. /\ call.slot \in Slots /\ D = connData[call.slot] /\ e \in Conns /\ e # NULL
        /\ D \in SlotType /\ SlotInv(D, call.left, "table", req, received)
    BY InHand
  <1>2. SlotsOf(e) = {call.slot}
    BY <1>1, HttpdAssumption DEF FilesInv, PoolInv, Unique, SlotsOf, httpdFindConnData
  <1>3. UploadOK(e)
    BY <1>1 DEF UploadInv
  <1>4. WhereOf(call, call.slot) = "table"
    BY DEF WhereOf, InProcess
  <1>5. ~Stored(e)
    BY <1>2, <1>4 DEF Stored, Over
  <1>6. Routed(D, call, "table", req[e])
    BY <1>1, <1>2, <1>3, <1>4 DEF UploadOK, Routes
  <1>7. D.len >= 0
    BY <1>1 DEF SlotInv, Once
  <1> DEFINE p == Place(req[e])
  <1>8. /\ p \in Nat \ {0} /\ p \in DOMAIN BuiltInUrls /\ req[e].url \in BuiltInUrls[p].urls
        /\ req[e].url # NULL
    BY <1>1, PlaceOf
  <1>9. call.i <= p
    BY <1>6 DEF Routed
  <1> HIDE DEF p
  <1>10. D.url = req[e].url /\ D.buffLen <= MaxPost /\ D.buffLen <= D.received
    BY <1>6, <1>7 DEF Routed
  <1>11. call.i \in Nat \ {0}
    BY DEF FilesInv, PoolInv, CallOK
  <1>12. DOMAIN BuiltInUrls = 1 .. Len(BuiltInUrls) /\ Len(BuiltInUrls) \in Nat
    BY HttpdAssumption
  <1>13. p \in Matching /\ Matching \in SUBSET Nat
    BY <1>8, <1>9, <1>10, <1>11, <1>12 DEF Matching
  <1>15. Matching # {}
    BY <1>13
  <1>14. Entry \in Matching /\ \A j \in Matching : Entry <= j
    <2>1. Entry = CHOOSE i \in Matching : \A j \in Matching : i <= j
      BY DEF Entry
    <2> HIDE DEF Entry
    <2> QED BY <1>13, <1>15, <2>1, Least, Zenon
  <1> QED BY <1>2, <1>3, <1>5, <1>7, <1>8, <1>10, <1>13, <1>14 DEF p

\* The end of httpdProcessRequest, whatever the CGI function was.
LEMMA UploadReturn ==
    ASSUME FilesInv, UploadInv, InProcess, NEW w, ProcessReturn(w),
           UNCHANGED <<state, req, received>>, Shape(w), w.d \in SlotType,
           w.d.conn = D.conn, NEW e, e = D.conn, Traces(flash, w.flash, e)
    PROVE  /\ Concerns(e) /\ flash' = w.flash
           /\ connData'[call.slot] = [w.d EXCEPT !.buffLen = 0]
           /\ SlotsOf(e)' = {call.slot} /\ WhereOf(call', call.slot) = "net"
           /\ reply'[e] = reply[e] \o w.out /\ pending'[e] = pending[e] + w.sends
  <1> DEFINE v == [w EXCEPT !.d.buffLen = 0]
  <1>1. PICK s \in Slots :
           /\ s = call.slot /\ D = connData[s] /\ e \in Conns /\ e # NULL
           /\ D \in SlotType /\ call.left \in Nat
           /\ SlotInv(D, call.left, "table", req, received)
           /\ \A t \in Slots : t # s => WhereOf(call, t) = "net"
    BY InHand
  <1>2. /\ v.d = [w.d EXCEPT !.buffLen = 0] /\ v.d.conn = e /\ v.flash = w.flash
        /\ v.out = w.out /\ v.sends = w.sends
    BY DEF Shape, WorldFields, SlotFields
  <1>3. /\ connData' = [connData EXCEPT ![s] = v.d] /\ flash' = w.flash
        /\ reply' = [reply EXCEPT ![e] = @ \o w.out]
        /\ pending' = [pending EXCEPT ![e] = @ + w.sends]
        /\ call' = Recv(s, call.left)
    BY <1>1, <1>2 DEF ProcessReturn, Finish
  <1> HIDE DEF v
  <1>4. /\ connData'[s] = v.d
        /\ \A t \in Slots : t # s => connData'[t] = connData[t] /\ connData[t].conn # e
    BY <1>1, <1>3 DEF FilesInv, Types, PoolInv, Unique
  <1>5. SlotsOf(e)' = {s}
    <2>1. \A t \in Slots : connData'[t].conn = e <=> t = s
      BY <1>1, <1>2, <1>4
    <2> QED BY <2>1 DEF SlotsOf, httpdFindConnData
  <1>6. \A t \in Slots : WhereOf(call', t) = "net"
    BY <1>1, <1>3, RecvLeft
  <1>7. /\ DOMAIN reply' = Conns /\ reply'[e] = reply[e] \o w.out
        /\ \A c \in Conns \ {e} : reply'[c] = reply[c]
    BY <1>1, <1>3 DEF UploadInv, Domains
  <1>8. /\ pending'[e] = pending[e] + w.sends
        /\ \A c \in Conns \ {e} : pending'[c] = pending[c]
    BY <1>1, <1>3 DEF FilesInv, Types
  <1>9. req[e] # NULL /\ state[e] # "none"
    BY <1>1 DEF SlotInv, Asks, FilesInv, PoolInv, Unmade
  <1>10. \A t \in Slots : connData'[t].conn \in Conns \ {e} => SlotSame(t)
    BY <1>1, <1>2, <1>4, <1>6 DEF SlotSame
  <1>11. Concerns(e)
    BY <1>3, <1>7, <1>8, <1>9, <1>10 DEF Concerns
  <1> QED BY <1>1, <1>2, <1>3, <1>4, <1>5, <1>6, <1>7, <1>8, <1>11, Zenon

\* A request without a URL is no upload.
LEMMA UploadNoUrl ==
    ASSUME FilesInv, UploadInv, NoUrl
    PROVE  UploadInv'
  <1>1. /\ InProcess /\ D.url = NULL /\ ProcessReturn(World(D))
        /\ UNCHANGED <<state, req, received>>
    BY DEF NoUrl
  <1>2. D \in SlotType
    BY <1>1, InHand
  <1>3. Shape(World(D)) /\ World(D).d = D /\ World(D).flash = flash
    <2>1. DOMAIN D = SlotFields
      BY <1>2 DEF SlotType, SlotFields
    <2> QED BY <2>1, WorldShape DEF World
  <1>4. PICK e : e = D.conn
    OBVIOUS
  <1>5. Traces(flash, flash, e)
    BY DEF Traces
  <1>6. Concerns(e)
    BY <1>1, <1>2, <1>3, <1>4, <1>5, UploadReturn
  <1>7. ~Uploading(e)
    BY <1>1, <1>4, UploadAsks
  <1> QED BY <1>6, <1>7, Others

\* Nor is one that no entry of the table takes.
LEMMA UploadNotFound ==
    ASSUME FilesInv, UploadInv, NotFound
    PROVE  UploadInv'
  <1> DEFINE d == [D EXCEPT !.cgi = NULL]
             v == httpdSend(World(d), <<404>>)
             w == httpdFlushSendBuffer(v)
  <1>1. /\ InProcess /\ Matching = {} /\ ProcessReturn(w)
        /\ UNCHANGED <<state, req, received>>
    BY DEF NotFound
  <1>2. D \in SlotType
    BY <1>1, InHand
  <1>3. d \in SlotType /\ DOMAIN d = SlotFields /\ d.conn = D.conn
    BY <1>2 DEF SlotType, SlotFields
  <1> HIDE DEF d
  <1>4. Shape(World(d)) /\ World(d).d = d /\ World(d).flash = flash /\ World(d).sends \in Nat
    BY <1>3, WorldShape DEF World
  <1>5. Passive(World(d), v) /\ Dry(World(d), v)
    BY <1>4, PassiveSend, DryCalls
  <1> HIDE DEF v
  <1>6. Passive(v, w) /\ Dry(v, w)
    BY <1>5, PassiveFlush, DryFlush DEF Passive
  <1> HIDE DEF w
  <1>7. Shape(w) /\ w.d = d /\ w.flash = flash
    BY <1>4, <1>5, <1>6 DEF Passive, Dry
  <1>8. PICK e : e = D.conn
    OBVIOUS
  <1>9. Traces(flash, flash, e)
    BY DEF Traces
  <1>10. Concerns(e)
    BY <1>1, <1>3, <1>7, <1>8, <1>9, UploadReturn
  <1>11. ~Uploading(e)
    BY <1>1, <1>8, UploadAsks
  <1> QED BY <1>10, <1>11, Others

\* An answer that is not the one of an upload that was stored does not
\* become it.
LEMMA RefusedStays ==
    ASSUME NEW n, NEW x \in Seq(Nat), x # <<>>, x # <<n>>, NEW y \in Seq(Nat),
           y = <<>> \/ Len(y) = 1
    PROVE  (x \o y) \in Seq(Nat) \ {<<>>, <<n>>}
  <1>1. x \o y \in Seq(Nat) /\ Len(x \o y) = Len(x) + Len(y)
    OBVIOUS
  <1>2. Len(x) >= 1 /\ x \o <<>> = x
    OBVIOUS
  <1>3. CASE y = <<>>
    BY <1>2, <1>3
  <1>4. CASE Len(y) = 1
    <2>1. Len(x \o y) >= 2
      BY <1>1, <1>2, <1>4
    <2> DEFINE z == x \o y
    <2>2. z \in Seq(Nat) /\ Len(z) >= 2
      BY <1>1, <2>1
    <2> HIDE DEF z
    <2>3. Len(<<n>>) = 1
      OBVIOUS
    <2>4. Len(<<>>) = 0
      OBVIOUS
    <2>5. z # <<>>
      <3> SUFFICES ASSUME z = <<>> PROVE FALSE
        OBVIOUS
      <3>1. Len(z) = 0
        BY <2>4
      <3> QED BY <2>2, <3>1
    <2>6. z # <<n>>
      <3> SUFFICES ASSUME z = <<n>> PROVE FALSE
        OBVIOUS
      <3>1. Len(z) = 1
        BY <2>3
      <3> QED BY <2>2, <3>1
    <2> QED BY <2>2, <2>5, <2>6 DEF z
  <1> QED BY <1>3, <1>4

\* What it sends is typed.
LEMMA UploadOut ==
    ASSUME NEW d, NEW x, Skipped(d, x) \/ Rejected(d, x) \/ Accepted(d, x)
    PROVE  x.out \in Seq(Nat) /\ (x.out = <<>> \/ Len(x.out) = 1)
  <1>1. x.out \in {<<>>, << 200 >>, <<400>>, <<500>>}
    BY DEF Skipped, Rejected, Accepted
  <1>2. CASE x.out = <<>>
    BY <1>2
  <1>3. CASE x.out = << 200 >>
    BY <1>3
  <1>4. CASE x.out = <<400>>
    BY <1>4
  <1>5. CASE x.out = <<500>>
    BY <1>5
  <1> QED BY <1>1, <1>2, <1>3, <1>4, <1>5

\* What the flash holds of an upload when a block of it was accepted.
LEMMA AcceptedProgress ==
    ASSUME UploadInv, NEW c, NEW d \in SlotType, d.conn = c,
           d.buffLen <= MaxPost, d.buffLen <= d.received, Going(d, flash, c),
           ~Reset(d).cgiPrivData, Offset(d) % MaxPost = 0
    PROVE  Progress(FlashWrite(d, flash), c, d.received)
  <1>1. d.received \in Nat /\ d.buffLen \in Nat
    BY DEF SlotType
  <1>2. DOMAIN flash \subseteq Nat
    BY HttpdAssumption DEF UploadInv, Domains
  <1>3. Progress(flash, c, Offset(d))
    <2>1. CASE Offset(d) = 0
      BY <1>2, <2>1, NoProgress
    <2>2. CASE Offset(d) # 0
      BY <2>2 DEF Reset, Going
    <2> QED BY <2>1, <2>2
  <1> DEFINE n == Offset(d)
  <1>4. n \in Nat /\ n + d.buffLen = d.received
    BY <1>1 DEF Offset
  <1>5. n % MaxPost = 0
    OBVIOUS
  <1>6. Progress(flash, c, n) /\ n = Offset(d)
    BY <1>3
  <1> HIDE DEF n
  <1> DEFINE fl == flash
  <1>7. DOMAIN fl \subseteq Nat /\ Progress(fl, c, n)
    BY <1>2, <1>6
  <1> HIDE DEF fl
  <1>8. Progress(FlashWrite(d, fl), c, n + d.buffLen)
    BY <1>1, <1>4, <1>5, <1>6, <1>7, WriteProgress
  <1> QED BY <1>4, <1>8 DEF fl

\* What becomes of an upload when the table has called its CGI function.
LEMMA UploadOutcome ==
    ASSUME UploadInv, NEW e \in Conns, NEW s \in Slots,
           NEW d \in SlotType, d.conn = e, d.url = req[e].url, d.len = req[e].len,
           d.len >= 0, d.buffLen <= MaxPost, d.buffLen <= d.received,
           (Begun(e) /\ Going(d, flash, e)) \/ Refused(e),
           NEW x, Skipped(d, x) \/ Rejected(d, x) \/ Accepted(d, x),
           req' = req, flash' = x.flash, reply'[e] = reply[e] \o x.out,
           pending'[e] = pending[e] + x.sends,
           NEW g, connData'[s] = g, SlotsOf(e)' = {s}, WhereOf(call', s) = "net",
           g.cgiPrivData = x.d.cgiPrivData, g.received = d.received, g.len = d.len,
           g.url = d.url, g.buffLen = 0,
           g.cgi = (IF x.r = "DONE" THEN NULL ELSE "cgiUploadFirmware")
    PROVE  UploadOK(e)'
  <1>1. d.received \in Nat /\ d.buffLen \in Nat /\ d.cgiPrivData \in BOOLEAN
        /\ MaxPost \in Nat /\ 0 < MaxPost
    BY HttpdAssumption DEF SlotType
  <1>2. Routes(e)'
    <2>1. Routed(g, call', "net", req'[e])
      BY <1>1 DEF Routed
    <2> QED BY <2>1 DEF Routes
  <1>3. Offset(g) = d.received
    BY <1>1 DEF Offset
  <1>4. ASSUME reply'[e] = <<>>, pending'[e] = 0, Going(g, flash', e)
        PROVE  Begun(e)'
    BY <1>4 DEF Begun
  <1>5. CASE Refused(e)
    <2>1. x.out \in Seq(Nat) /\ (x.out = <<>> \/ Len(x.out) = 1)
      BY UploadOut
    <2>2. ASSUME NEW n, reply[e] \in Seq(Nat) \ {<<>>, <<n>>}
          PROVE  reply'[e] \in Seq(Nat) \ {<<>>, <<n>>}
      <3>1. reply[e] \in Seq(Nat) /\ reply[e] # <<>> /\ reply[e] # <<n>>
        BY <2>2
      <3>2. reply[e] \o x.out \in Seq(Nat) \ {<<>>, <<n>>}
        BY <2>1, <3>1, RefusedStays
      <3> QED BY <3>2
    <2>4. Refused(e)'
      BY <1>5, <2>2, ZenonT(30) DEF Refused
    <2> QED BY <1>2, <2>4 DEF UploadOK
  <1>6. CASE Begun(e) /\ Going(d, flash, e) /\ Skipped(d, x)
    <2>1. reply'[e] = <<>> /\ pending'[e] = 0
      BY <1>6 DEF Begun, Skipped
    <2>2. g.cgiPrivData
      BY <1>6 DEF Skipped
    <2>3. Begun(e)'
      BY <1>4, <2>1, <2>2 DEF Going
    <2> QED BY <1>2, <2>3 DEF UploadOK
  <1>7. CASE Begun(e) /\ Going(d, flash, e) /\ Rejected(d, x)
    <2>2. CASE x.out \in {<<400>>, <<500>>}
      <3>1. PICK n \in {400, 500} : reply'[e] = <<n>>
        BY <1>7, <2>2 DEF Begun
      <3>2. <<n>> \in Seq(Nat) /\ Len(<<n>>) = 1 /\ <<n>> # << 200 >>
        OBVIOUS
      <3>3. reply'[e] \in Seq(Nat) \ {<<>>, << 200 >>}
        <4>1. Len(<<>>) = 0
          OBVIOUS
        <4> QED BY <3>1, <3>2, <4>1
      <3>4. Refused(e)'
        BY <3>3, Zenon DEF Refused
      <3> QED BY <1>2, <3>4 DEF UploadOK
    <2> QED BY <1>7, <2>2 DEF Rejected
  <1>8. CASE Begun(e) /\ Going(d, flash, e) /\ Accepted(d, x)
    <2>1. ~Reset(d).cgiPrivData /\ Offset(d) % MaxPost = 0 /\ flash' = FlashWrite(d, flash)
      BY <1>8 DEF Accepted
    <2>2. Progress(flash', e, d.received)
      BY <1>8, <2>1, AcceptedProgress
    <2>3. CASE x.out = <<>> /\ x.sends = 0
      <3>1. reply'[e] = <<>> /\ pending'[e] = 0
        BY <1>8, <2>3 DEF Begun
      <3>2. Going(g, flash', e)
        BY <1>3, <2>2 DEF Going
      <3>3. Begun(e)'
        BY <1>4, <3>1, <3>2
      <3> QED BY <1>2, <3>3 DEF UploadOK
    <2>4. CASE x.out = << 200 >> /\ x.r = "DONE" /\ d.received = d.len
      <3>1. reply'[e] = << 200 >>
        BY <1>8, <2>4 DEF Begun
      <3>2. req'[e].len <= FwSize
        BY <1>8 DEF Accepted
      <3>3. Written(flash', e, req'[e].len)
        BY <2>2, <2>4 DEF Progress
      <3>4. Over(g, "net")
        BY <2>4 DEF Over
      <3>5. Stored(e)'
        BY <3>1, <3>2, <3>3, <3>4 DEF Stored
      <3> QED BY <1>2, <3>5 DEF UploadOK
    <2> QED BY <1>8, <2>3, <2>4 DEF Accepted
  <1> QED BY <1>5, <1>6, <1>7, <1>8

\* The call of a CGI function by the table.
LEMMA AskedSlot ==
    ASSUME FilesInv, InProcess, Matching # {}, NEW stale
    PROVE  /\ Asked \in SlotType /\ Asked.conn = D.conn /\ Asked.conn # NULL
           /\ Asked.cgi = BuiltInUrls[Entry].cgi /\ Asked.cgi \in Cgis
           /\ Asked.cgiData = NULL /\ Asked.len = D.len /\ Asked.url = D.url
           /\ Asked.received = D.received /\ Asked.buffLen = D.buffLen
           /\ Asked.cgiPrivData = D.cgiPrivData
           /\ LET w == httpdFlushSendBuffer(Cgi(World(Asked), stale))
              IN  /\ Shape(w) /\ w.d \in SlotType /\ w.d.conn = D.conn
                  /\ Traces(flash, w.flash, D.conn)
  <1>1. D \in SlotType /\ D.conn # NULL
    BY InHand
  <1>2. BuiltInUrls[Entry].cgi \in Cgis
    BY EntryCgi DEF FilesInv, PoolInv
  <1>3. /\ Asked \in SlotType /\ Asked.conn = D.conn /\ Asked.conn # NULL
        /\ Asked.cgi = BuiltInUrls[Entry].cgi /\ Asked.cgi \in Cgis
        /\ Asked.cgiData = NULL /\ Asked.len = D.len /\ Asked.url = D.url
        /\ Asked.received = D.received /\ Asked.buffLen = D.buffLen
        /\ Asked.cgiPrivData = D.cgiPrivData
    BY <1>1, <1>2 DEF Asked, SlotType
  <1> DEFINE v == World(Asked)
             x == Cgi(v, stale)
             w == httpdFlushSendBuffer(x)
  <1>4. Good(v) /\ v.d = Asked /\ v.flash = flash
    BY <1>3, GoodWorld DEF HasOpen, World
  <1> HIDE DEF v
  <1>5. Effect(v, w)
    BY <1>3, <1>4, CgiEffect
  <1>6. Traces(v.flash, w.flash, v.d.conn)
    BY <1>3, <1>4, CgiTraces DEF Good
  <1> HIDE DEF w
  <1>7. /\ Shape(w) /\ w.d \in SlotType /\ w.d.conn = D.conn
        /\ Traces(flash, w.flash, D.conn)
    BY <1>3, <1>4, <1>5, <1>6 DEF Effect, SameSlot
  <1> QED BY <1>3, <1>7 DEF w, x, v

\* Before the table comes to the entry of an upload it passes on; there it
\* calls cgiUploadFirmware.
LEMMA UploadEntry ==
    ASSUME FilesInv, UploadInv, InProcess, NEW e, e = D.conn, Uploading(e), NEW stale
    PROVE  LET w == httpdFlushSendBuffer(Cgi(World(Asked), stale))
           IN  \/ /\ w.d = Asked /\ w.r \in {"NOTFOUND", "AUTHENTICATED"}
                  /\ Entry + 1 <= Place(req[e])
               \/ /\ Skipped(Asked, w) \/ Rejected(Asked, w) \/ Accepted(Asked, w)
                  /\ Asked.cgi = "cgiUploadFirmware"
  <1> DEFINE p == Place(req[e])
             w == httpdFlushSendBuffer(Cgi(World(Asked), stale))
  <1>1. /\ D.url = req[e].url /\ Matching # {} /\ Entry \in Matching /\ Entry <= p
    BY UploadAsks
  <1>2. e \in Conns /\ e # NULL /\ req[e] # NULL
    BY InHand DEF SlotInv, Asks
  <1>3. /\ p \in Nat \ {0} /\ BuiltInUrls[p].cgi = "cgiUploadFirmware"
        /\ \A i \in Taking(req[e]) : p <= i
    BY <1>2, PlaceOf
  <1> HIDE DEF p
  <1>4. /\ Asked \in SlotType /\ Asked.conn = e /\ Asked.conn # NULL
        /\ Asked.cgi = BuiltInUrls[Entry].cgi /\ Asked.cgiData = NULL
        /\ Asked.url = D.url
    BY <1>1, AskedSlot
  <1>5. Entry \in Nat /\ Entry \in DOMAIN BuiltInUrls /\ req[e].url \in BuiltInUrls[Entry].urls
    <2>1. call.i \in Nat \ {0}
      BY DEF FilesInv, PoolInv, CallOK
    <2>2. DOMAIN BuiltInUrls = 1 .. Len(BuiltInUrls) /\ Len(BuiltInUrls) \in Nat
      BY HttpdAssumption
    <2> QED BY <1>1, <2>1, <2>2 DEF Matching
  <1>6. CASE Entry = p
    <2>1. Asked.cgi = "cgiUploadFirmware"
      BY <1>3, <1>4, <1>6
    <2>2. World(Asked).d = Asked
      <3>1. DOMAIN Asked = SlotFields
        BY <1>4 DEF SlotType, SlotFields
      <3> QED BY <3>1, WorldShape
    <2>3. Cgi(World(Asked), stale) = cgiUploadFirmware(World(Asked))
      BY <2>1, <2>2 DEF Cgi
    <2>4. Skipped(Asked, w) \/ Rejected(Asked, w) \/ Accepted(Asked, w)
      BY <1>4, <2>3, UploadDoes
    <2> QED BY <2>1, <2>4
  <1>7. CASE Entry # p
    <2>1. Entry + 1 <= p
      BY <1>1, <1>3, <1>5, <1>7
    <2>2. Entry \notin Taking(req[e])
      BY <1>3, <1>5, <2>1
    <2>3. Passes(Entry, req[e])
      BY <1>5, <2>2 DEF Taking
    <2>4. w.d = Asked /\ w.r \in {"NOTFOUND", "AUTHENTICATED"}
      BY <1>1, <1>2, <1>4, <2>3, PassedOn
    <2> QED BY <2>1, <2>4 DEF p
  <1> QED BY <1>6, <1>7

\* An entry of the table is asked.
LEMMA UploadAskCgi ==
    ASSUME FilesInv, UploadInv, AskCgi
    PROVE  UploadInv'
  <1>1. InProcess /\ UNCHANGED <<state, req, received>> /\ Matching # {}
    BY DEF AskCgi
  <1>2. PICK e \in Conns : e = D.conn
    BY <1>1, InHand
  <1>3. PICK s \in Slots :
           /\ s = call.slot /\ D = connData[s] /\ e # NULL /\ D \in SlotType
           /\ SlotInv(D, call.left, "table", req, received)
           /\ \A t \in Slots : t # s => WhereOf(call, t) = "net"
    BY <1>1, <1>2, InHand
  <1>4. PICK stale \in BOOLEAN : \E x \in {Cgi(World(Asked), stale)} :
          \E w \in {httpdFlushSendBuffer(x)} :
             \/ /\ w.r \in {"NOTFOUND", "AUTHENTICATED"}
                /\ connData' = [connData EXCEPT ![call.slot] = w.d]
                /\ call' = [call EXCEPT !.i = Entry + 1]
                /\ UNCHANGED <<files, flash, reply, pending>>
             \/ w.r = "MORE" /\ ProcessReturn(w)
             \/ w.r = "DONE" /\ ProcessReturn([w EXCEPT !.d.cgi = NULL])
    BY DEF AskCgi
  <1> DEFINE w == httpdFlushSendBuffer(Cgi(World(Asked), stale))
  <1>5. \/ /\ w.r \in {"NOTFOUND", "AUTHENTICATED"}
           /\ connData' = [connData EXCEPT ![call.slot] = w.d]
           /\ call' = [call EXCEPT !.i = Entry + 1]
           /\ UNCHANGED <<files, flash, reply, pending>>
        \/ w.r = "MORE" /\ ProcessReturn(w)
        \/ w.r = "DONE" /\ ProcessReturn([w EXCEPT !.d.cgi = NULL])
    BY <1>4
  <1>6. /\ Asked \in SlotType /\ Asked.conn = e /\ Asked.len = D.len /\ Asked.url = D.url
        /\ Asked.received = D.received /\ Asked.buffLen = D.buffLen
        /\ Asked.cgiPrivData = D.cgiPrivData
        /\ Shape(w) /\ w.d \in SlotType /\ w.d.conn = e /\ Traces(flash, w.flash, e)
    BY <1>1, <1>2, AskedSlot
  <1>7. ASSUME Uploading(e)
        PROVE  \/ /\ w.d = Asked /\ w.r \in {"NOTFOUND", "AUTHENTICATED"}
                  /\ Entry + 1 <= Place(req[e])
               \/ /\ Skipped(Asked, w) \/ Rejected(Asked, w) \/ Accepted(Asked, w)
                  /\ Asked.cgi = "cgiUploadFirmware"
    BY <1>1, <1>2, <1>7, UploadEntry
  <1> HIDE DEF w
  <1>8. ASSUME Uploading(e)
        PROVE  /\ SlotsOf(e) = {s} /\ UploadOK(e) /\ ~Stored(e) /\ D.len >= 0
               /\ D.buffLen <= MaxPost /\ D.buffLen <= D.received
               /\ D.url = req[e].url /\ D.len = req[e].len
    <2>1. /\ SlotsOf(e) = {s} /\ UploadOK(e) /\ ~Stored(e) /\ D.len >= 0
          /\ D.buffLen <= MaxPost /\ D.buffLen <= D.received /\ D.url = req[e].url
      BY <1>1, <1>2, <1>3, <1>8, UploadAsks
    <2>2. D.len = req[e].len
      BY <1>2, <1>3, <2>1 DEF SlotInv, Counted
    <2> QED BY <2>1, <2>2
  <1>9. Going(Asked, flash, e) <=> Going(D, flash, e)
    BY <1>6 DEF Going, Offset
  <1>10. CASE /\ w.r \in {"NOTFOUND", "AUTHENTICATED"}
              /\ connData' = [connData EXCEPT ![call.slot] = w.d]
              /\ call' = [call EXCEPT !.i = Entry + 1]
              /\ UNCHANGED <<files, flash, reply, pending>>
    <2>1. /\ connData'[s] = w.d
          /\ \A t \in Slots : t # s => connData'[t] = connData[t] /\ connData[t].conn # e
      BY <1>2, <1>3, <1>10 DEF FilesInv, Types, PoolInv, Unique
    <2>2. /\ call'.cb = "process" /\ call'.slot = s /\ call'.i = Entry + 1
      BY <1>1, <1>3, <1>10 DEF FilesInv, PoolInv, CallOK, InProcess
    <2>3. \A t \in Slots : WhereOf(call', t) = (IF t = s THEN "table" ELSE "net")
      BY <2>2 DEF WhereOf
    <2>4. Concerns(e)
      <3>1. \A t \in Slots : connData'[t].conn \in Conns \ {e} => SlotSame(t)
        BY <1>3, <1>6, <2>1, <2>3 DEF SlotSame
      <3>2. DOMAIN reply' = Conns /\ Traces(flash, flash', e)
        BY <1>10 DEF UploadInv, Domains, Traces
      <3> QED BY <1>1, <1>10, <3>1, <3>2 DEF Concerns
    <2>5. ASSUME Uploading(e)
          PROVE  UploadOK(e)'
      <3>1. w.d = Asked /\ Entry + 1 <= Place(req[e])
        BY <1>7, <1>10, <2>5 DEF Skipped, Rejected, Accepted
      <3>2. SlotsOf(e)' = {s}
        <4>1. \A t \in Slots : connData'[t].conn = e <=> t = s
          BY <1>6, <2>1
        <4> QED BY <4>1 DEF SlotsOf, httpdFindConnData
      <3>3. Routed(Asked, call', "table", req'[e])
        BY <1>1, <1>6, <1>8, <2>2, <2>5, <3>1 DEF Routed
      <3>4. Routes(e)'
        BY <2>1, <2>3, <3>1, <3>2, <3>3 DEF Routes
      <3>5. CASE Begun(e)
        <4>1. Going(D, flash, e)
          BY <1>3, <1>8, <2>5, <3>5 DEF Begun
        <4>2. Going(Asked, flash', e)
          BY <1>9, <1>10, <4>1
        <4>3. Begun(e)'
          BY <1>10, <2>1, <3>1, <3>2, <3>5, <4>2 DEF Begun
        <4> QED BY <3>4, <4>3 DEF UploadOK
      <3>6. CASE Refused(e)
        <4>1. Refused(e)'
          BY <1>10, <3>6 DEF Refused
        <4> QED BY <3>4, <4>1 DEF UploadOK
      <3> QED BY <1>8, <2>5, <3>5, <3>6 DEF UploadOK
    <2> QED BY <2>4, <2>5, Others
  <1>11. ASSUME NEW x, ProcessReturn(x), Shape(x), x.flash = w.flash, x.out = w.out,
                x.sends = w.sends, x.d \in SlotType, x.d.conn = e, x.d.len = w.d.len,
                x.d.url = w.d.url, x.d.received = w.d.received,
                x.d.cgiPrivData = w.d.cgiPrivData,
                x.d.cgi = (IF w.r = "DONE" THEN NULL ELSE w.d.cgi),
                w.r \in {"MORE", "DONE"}
         PROVE  UploadInv'
    <2> DEFINE g == [x.d EXCEPT !.buffLen = 0]
    <2>1. /\ Concerns(e) /\ flash' = w.flash /\ connData'[s] = g
          /\ SlotsOf(e)' = {s} /\ WhereOf(call', s) = "net"
          /\ reply'[e] = reply[e] \o w.out /\ pending'[e] = pending[e] + w.sends
      <3>1. x.d.conn = D.conn /\ Traces(flash, x.flash, e)
        BY <1>2, <1>6, <1>11
      <3>2. ProcessReturn(x) /\ Shape(x) /\ x.d \in SlotType
        BY <1>11
      <3> HIDE DEF g
      <3>3. g = [x.d EXCEPT !.buffLen = 0]
        BY DEF g
      <3>4. /\ Concerns(e) /\ flash' = x.flash
            /\ connData'[call.slot] = [x.d EXCEPT !.buffLen = 0]
            /\ SlotsOf(e)' = {call.slot} /\ WhereOf(call', call.slot) = "net"
            /\ reply'[e] = reply[e] \o x.out /\ pending'[e] = pending[e] + x.sends
        BY <1>1, <1>2, <3>1, <3>2, UploadReturn
      <3> QED BY <1>3, <1>11, <3>3, <3>4
    <2>2. /\ g.cgiPrivData = w.d.cgiPrivData /\ g.received = w.d.received
          /\ g.len = w.d.len /\ g.url = w.d.url /\ g.buffLen = 0
          /\ g.cgi = (IF w.r = "DONE" THEN NULL ELSE w.d.cgi)
      BY <1>11 DEF SlotType
    <2> HIDE DEF g
    <2>3. ASSUME Uploading(e)
          PROVE  UploadOK(e)'
      <3>1. /\ Skipped(Asked, w) \/ Rejected(Asked, w) \/ Accepted(Asked, w)
            /\ Asked.cgi = "cgiUploadFirmware"
        BY <1>7, <1>11, <2>3
      <3>2. /\ w.d.received = Asked.received /\ w.d.len = Asked.len
            /\ w.d.url = Asked.url /\ w.d.cgi = Asked.cgi
        BY <1>6, <3>1 DEF Skipped, Rejected, Accepted, Reset, SlotType
      <3>3. (Begun(e) /\ Going(Asked, flash, e)) \/ Refused(e)
        <4>1. CASE Begun(e)
          <5>1. Going(D, flash, e)
            BY <1>3, <1>8, <2>3, <4>1 DEF Begun
          <5> QED BY <1>9, <4>1, <5>1
        <4> QED BY <1>8, <2>3, <4>1 DEF UploadOK
      <3>4. g.cgi = (IF w.r = "DONE" THEN NULL ELSE "cgiUploadFirmware")
        BY <2>2, <3>1, <3>2
      <3>5. /\ Asked.url = req[e].url /\ Asked.len = req[e].len /\ Asked.len >= 0
            /\ Asked.buffLen <= MaxPost /\ Asked.buffLen <= Asked.received
        BY <1>6, <1>8, <2>3
      <3>6. PICK d : d = Asked
        OBVIOUS
      <3>7. /\ d \in SlotType /\ d.conn = e /\ d.url = req[e].url /\ d.len = req[e].len
            /\ d.len >= 0 /\ d.buffLen <= MaxPost /\ d.buffLen <= d.received
            /\ (Begun(e) /\ Going(d, flash, e)) \/ Refused(e)
            /\ Skipped(d, w) \/ Rejected(d, w) \/ Accepted(d, w)
            /\ g.received = d.received /\ g.len = d.len /\ g.url = d.url
        BY <1>6, <2>2, <3>1, <3>2, <3>3, <3>5, <3>6
      <3>8. req' = req
        BY <1>1
      <3>9. flash' = w.flash /\ reply'[e] = reply[e] \o w.out
            /\ pending'[e] = pending[e] + w.sends /\ WhereOf(call', call.slot) = "net"
            /\ connData'[call.slot] = g /\ SlotsOf(e)' = {call.slot}
            /\ call.slot \in Slots /\ g.cgiPrivData = w.d.cgiPrivData /\ g.buffLen = 0
        BY <1>3, <1>10, <1>11, <2>1, <2>2, <2>3
      <3> HIDE DEF D, Asked, InProcess
      <3> QED BY <1>3, <3>4, <3>7, <3>8, <3>9, UploadOutcome, ZenonT(30)
    <2> QED BY <2>1, <2>3, Others
  <1>12. CASE w.r = "MORE" /\ ProcessReturn(w)
    BY <1>6, <1>11, <1>12
  <1>13. CASE w.r = "DONE" /\ ProcessReturn([w EXCEPT !.d.cgi = NULL])
    <2> DEFINE x == [w EXCEPT !.d.cgi = NULL]
    <2>1. /\ Shape(x) /\ x.flash = w.flash /\ x.out = w.out /\ x.sends = w.sends
          /\ x.d = [w.d EXCEPT !.cgi = NULL]
      BY <1>6 DEF Shape, WorldFields, SlotFields
    <2>2. ProcessReturn(x)
      BY <1>13
    <2> HIDE DEF x
    <2>3. /\ x.d \in SlotType /\ x.d.conn = e /\ x.d.len = w.d.len /\ x.d.url = w.d.url
          /\ x.d.received = w.d.received /\ x.d.cgiPrivData = w.d.cgiPrivData
          /\ x.d.cgi = NULL
      BY <1>6, <2>1 DEF SlotType
    <2> QED BY <1>11, <1>13, <2>1, <2>2, <2>3
  <1> QED BY <1>5, <1>10, <1>12, <1>13

\* What has been sent is out.  An upload that is still waiting for its
\* answer has sent nothing, and one that was stored is closed.
LEMMA UploadSent ==
    ASSUME FilesInv, UploadInv, NEW c \in Conns, httpdSentCb(c)
    PROVE  UploadInv'
  <1>1. /\ call = NoCall /\ call' = call /\ req' = req
        /\ pending[c] > 0 /\ state[c] # "none"
    BY DEF httpdSentCb
  <1>2. \A t \in Slots : WhereOf(call, t) = "net" /\ WhereOf(call', t) = "net"
    BY <1>1, NoLeft DEF NoCall
  <1>3. ASSUME Uploading(c)
        PROVE  UploadOK(c) /\ ~Begun(c)
    BY <1>1, <1>3 DEF UploadInv, Begun
  <1>4. CASE /\ pending' = [pending EXCEPT ![c] = @ - 1]
             /\ UNCHANGED <<connData, files, flash, state, reply>>
    <2>1. Concerns(c)
      <3>1. \A e \in Conns \ {c} : pending'[e] = pending[e]
        BY <1>4 DEF FilesInv, Types
      <3>2. DOMAIN reply' = Conns /\ Traces(flash, flash', c)
        BY <1>4 DEF UploadInv, Domains, Traces
      <3>3. \A t \in Slots : SlotSame(t)
        BY <1>1, <1>4 DEF SlotSame
      <3> QED BY <1>1, <1>4, <3>1, <3>2, <3>3 DEF Concerns
    <2>2. ASSUME Uploading(c)
          PROVE  UploadOK(c)'
      <3>1. SlotsOf(c)' = SlotsOf(c)
        BY <1>4 DEF SlotsOf, httpdFindConnData
      <3>2. Routes(c)'
        BY <1>1, <1>3, <1>4, <2>2, <3>1 DEF UploadOK, Routes
      <3>3. (Stored(c) => Stored(c)') /\ (Refused(c) => Refused(c)')
        BY <1>1, <1>4, <3>1 DEF Stored, Refused
      <3> QED BY <1>3, <2>2, <3>2, <3>3 DEF UploadOK
    <2> QED BY <2>1, <2>2, Others
  <1>5. ASSUME NEW s \in httpdFindConnData(c), Close(s),
               pending' = [pending EXCEPT ![c] = @ - 1]
        PROVE  UploadInv'
    <2>1. s \in Slots /\ connData[s].conn = c /\ connData[s] \in SlotType
      BY DEF httpdFindConnData, FilesInv, Types
    <2> DEFINE d == [connData[s] EXCEPT !.cgi = NULL, !.conn = NULL]
    <2>2. d.conn = NULL
      BY <2>1 DEF SlotType
    <2>3. /\ connData' = [connData EXCEPT ![s] = d]
          /\ UNCHANGED <<files, flash, reply>>
          /\ state' = [state EXCEPT ![c] = "finished"]
      BY <1>5, <2>1 DEF Close, httpdRetireConn
    <2> HIDE DEF d
    <2>4. /\ connData'[s].conn = NULL
          /\ \A t \in Slots : t # s => connData'[t] = connData[t] /\ connData[t].conn # c
      BY <2>1, <2>2, <2>3, HttpdAssumption DEF FilesInv, Types, PoolInv, Unique
    <2>5. Concerns(c)
      <3>1. \A e \in Conns \ {c} : pending'[e] = pending[e]
        BY <1>5 DEF FilesInv, Types
      <3>2. DOMAIN reply' = Conns /\ Traces(flash, flash', c)
        BY <2>3 DEF UploadInv, Domains, Traces
      <3>3. \A t \in Slots : connData'[t].conn \in Conns \ {c} => SlotSame(t)
        BY <1>1, <2>4, HttpdAssumption DEF SlotSame
      <3>4. \A e \in Conns : state'[e] = "none" => state[e] = "none"
        BY <2>3 DEF FilesInv, Types
      <3> QED BY <1>1, <2>3, <3>1, <3>2, <3>3, <3>4 DEF Concerns
    <2>6. ASSUME Uploading(c)
          PROVE  UploadOK(c)'
      <3>1. SlotsOf(c)' = {}
        <4>1. \A t \in Slots : connData'[t].conn # c
          BY <2>4, HttpdAssumption
        <4> QED BY <4>1 DEF SlotsOf, httpdFindConnData
      <3>2. Routes(c)'
        BY <3>1 DEF Routes
      <3>3. (Stored(c) => Stored(c)') /\ (Refused(c) => Refused(c)')
        BY <1>1, <2>3, <3>1 DEF Stored, Refused
      <3> QED BY <1>3, <2>6, <3>2, <3>3 DEF UploadOK
    <2> QED BY <2>5, <2>6, Others
  <1>6. ASSUME NEW s \in httpdFindConnData(c), connData[s].cgi # NULL,
               \E x \in {Cgi(World(connData[s]), FALSE)} :
                  \E w \in {httpdFlushSendBuffer(x)} :
                     /\ SentNext(s, w)
                     /\ pending' = [pending EXCEPT ![c] = @ - 1 + w.sends]
        PROVE  UploadInv'
    <2> DEFINE v == World(connData[s])
               w == httpdFlushSendBuffer(Cgi(v, FALSE))
    <2>1. PICK d \in SlotType : /\ d = connData[s] /\ s \in Slots /\ d.conn = c
                                /\ d.cgi \in Cgis /\ HeldBy(d, files)
                                /\ SlotInv(d, LeftOf(call, s), WhereOf(call, s), req, received)
      BY <1>6 DEF httpdFindConnData, FilesInv, Types, SlotType, Held, SlotsInv
    <2>2. c # NULL /\ req[c] # NULL
      BY <2>1, HttpdAssumption DEF SlotInv, Asks
    <2>3. SentNext(s, w) /\ pending' = [pending EXCEPT ![c] = @ - 1 + w.sends]
      BY <1>6
    <2>4. Good(v) /\ v.d = d /\ v.flash = flash
      BY <2>1, <2>2, GoodWorld DEF HasOpen, HeldBy, World
    <2>5. ASSUME Uploading(c)
          PROVE  /\ Routed(d, call, "net", req[c]) /\ SlotsOf(c) = {s} /\ Refused(c)
                 /\ Skipped(d, w) \/ Rejected(d, w) \/ Accepted(d, w)
      <3>1. SlotsOf(c) = {s}
        BY <2>1, <2>2 DEF FilesInv, PoolInv, Unique, SlotsOf, httpdFindConnData
      <3>2. Routed(d, call, "net", req[c])
        BY <1>2, <1>3, <2>1, <2>5, <3>1 DEF UploadOK, Routes
      <3>3. ~Stored(c)
        BY <1>6, <2>1, <3>1 DEF Stored, Over
      <3>4. Refused(c)
        BY <1>3, <2>5, <3>3 DEF UploadOK
      <3>5. d.cgi = "cgiUploadFirmware"
        BY <1>6, <2>1, <3>2 DEF Routed
      <3>6. Cgi(v, FALSE) = cgiUploadFirmware(World(d))
        BY <2>1, <2>4, <3>5 DEF Cgi
      <3>7. Skipped(d, w) \/ Rejected(d, w) \/ Accepted(d, w)
        BY <2>1, <2>2, <3>6, UploadDoes
      <3> QED BY <3>1, <3>2, <3>4, <3>7
    <2> HIDE DEF v
    <2>6. Effect(v, w)
      BY <2>1, <2>4, CgiEffect
    <2>7. Traces(flash, w.flash, c)
      BY <2>1, <2>4, CgiTraces DEF Good
    <2> HIDE DEF w
    <2>8. /\ Shape(w) /\ w.d \in SlotType /\ w.d.conn = c /\ w.d.len = d.len
          /\ w.d.url = d.url /\ w.d.received = d.received
          /\ w.d.buffLen = d.buffLen /\ w.d.cgi = d.cgi
      BY <2>1, <2>4, <2>6 DEF Effect, SameSlot
    <2> DEFINE x == IF w.r = "MORE" THEN w ELSE [w EXCEPT !.d.cgi = NULL]
               g == IF w.r = "MORE" THEN w.d ELSE [w.d EXCEPT !.cgi = NULL]
    <2>9. x.d = g /\ x.flash = w.flash /\ x.out = w.out
      BY <2>8 DEF Shape, WorldFields, SlotFields
    <2>10. /\ connData' = [connData EXCEPT ![s] = g] /\ flash' = w.flash /\ state' = state
           /\ reply' = [reply EXCEPT ![c] = @ \o w.out]
      BY <2>1, <2>3, <2>9 DEF SentNext, Finish
    <2>11. /\ g.conn = c /\ g.len = d.len /\ g.url = d.url /\ g.received = d.received
           /\ g.buffLen = d.buffLen /\ g.cgi \in {d.cgi, NULL}
      BY <2>8 DEF SlotType
    <2> HIDE DEF x, g
    <2>12. /\ connData'[s] = g
           /\ \A t \in Slots : t # s => connData'[t] = connData[t] /\ connData[t].conn # c
      BY <2>1, <2>2, <2>10 DEF FilesInv, Types, PoolInv, Unique
    <2>13. Concerns(c)
      <3>1. \A e \in Conns \ {c} : pending'[e] = pending[e]
        BY <2>3 DEF FilesInv, Types
      <3>2. DOMAIN reply' = Conns /\ \A e \in Conns \ {c} : reply'[e] = reply[e]
        BY <2>10 DEF UploadInv, Domains
      <3>3. \A t \in Slots : connData'[t].conn \in Conns \ {c} => SlotSame(t)
        BY <1>1, <2>11, <2>12 DEF SlotSame
      <3> QED BY <1>1, <2>2, <2>7, <2>10, <3>1, <3>2, <3>3 DEF Concerns
    <2>14. ASSUME Uploading(c)
           PROVE  UploadOK(c)'
      <3>1. /\ Routed(d, call, "net", req[c]) /\ Refused(c)
            /\ Skipped(d, w) \/ Rejected(d, w) \/ Accepted(d, w)
        BY <2>5, <2>14
      <3>2. SlotsOf(c)' = {s}
        <4>1. \A t \in Slots : connData'[t].conn = c <=> t = s
          BY <2>1, <2>11, <2>12
        <4> QED BY <4>1 DEF SlotsOf, httpdFindConnData
      <3>3. Routed(g, call', "net", req'[c])
        BY <1>1, <2>11, <3>1 DEF Routed
      <3>4. Routes(c)'
        BY <1>2, <2>1, <2>12, <3>2, <3>3 DEF Routes
      <3>5. w.out \in Seq(Nat) /\ (w.out = <<>> \/ Len(w.out) = 1)
        BY <3>1, UploadOut
      <3>7. reply'[c] = reply[c] \o w.out
        BY <2>10 DEF UploadInv, Domains
      <3>8. ASSUME NEW n, reply[c] \in Seq(Nat) \ {<<>>, <<n>>}
            PROVE  reply'[c] \in Seq(Nat) \ {<<>>, <<n>>}
        <4>1. reply[c] \in Seq(Nat) /\ reply[c] # <<>> /\ reply[c] # <<n>>
          BY <3>8
        <4>2. reply[c] \o w.out \in Seq(Nat) \ {<<>>, <<n>>}
          BY <3>5, <4>1, RefusedStays
        <4> QED BY <3>7, <4>2
      <3>9. Refused(c)'
        BY <3>1, <3>8, Zenon DEF Refused
      <3> QED BY <3>4, <3>9 DEF UploadOK
    <2> QED BY <2>13, <2>14, Others
  <1> QED BY <1>4, <1>5, <1>6 DEF httpdSentCb

\* The slot of a closed connection is freed; the CGI function is called
\* without a connection and leaves the flash alone.
LEMMA UploadDisconSlot ==
    ASSUME FilesInv, UploadInv, DisconSlot
    PROVE  UploadInv'
  <1> DEFINE s == call.slot
             gone == [D EXCEPT !.conn = NULL]
             v == World(gone)
             w == IF D.cgi = NULL THEN v ELSE Cgi(v, FALSE)
             e == [w.d EXCEPT !.cgi = NULL, !.conn = NULL]
  <1>1. InDiscon /\ DisconNext /\ UNCHANGED <<state, req, received, reply, pending>>
    BY DEF DisconSlot, net
  <1>2. s \in Slots /\ D = connData[s] /\ D \in SlotType
    BY <1>1 DEF FilesInv, PoolInv, CallOK, Types, D
  <1>3. /\ gone.conn = NULL /\ gone.cgi = D.cgi /\ DOMAIN gone = SlotFields
    BY <1>2 DEF SlotType, SlotFields
  <1>4. /\ connData' = [connData EXCEPT ![s] = httpdRetireConn(w.d)]
        /\ flash' = w.flash
    BY DEF DisconSlot
  <1> HIDE DEF gone
  <1>5. Shape(v) /\ v.d = gone /\ v.flash = flash
    BY <1>3, WorldShape DEF World
  <1> HIDE DEF v
  <1>6. w.flash = flash /\ Shape(w)
    <2>1. CASE D.cgi = NULL
      BY <1>5, <2>1
    <2>2. CASE D.cgi # NULL
      <3>1. v.d.cgi \in Cgis /\ v.d.conn = NULL
        BY <1>2, <1>3, <1>5, <2>2 DEF SlotType
      <3> QED BY <1>5, <2>2, <3>1, CgiTraces, KeepsCgi DEF Keeps
    <2> QED BY <2>1, <2>2
  <1> HIDE DEF w
  <1>7. e.conn = NULL
    BY <1>6 DEF Shape, SlotFields
  <1>8. connData' = [connData EXCEPT ![s] = e]
    BY <1>4 DEF httpdRetireConn
  <1> HIDE DEF e
  <1>9. /\ connData'[s].conn = NULL
        /\ \A t \in Slots : t # s => connData'[t] = connData[t]
    BY <1>2, <1>7, <1>8 DEF FilesInv, Types
  <1>10. \A t \in Slots : WhereOf(call, t) = "net" /\ WhereOf(call', t) = "net"
    BY <1>1, DisconCalls DEF FilesInv
  <1>11. Concerns(NULL)
    <2>1. \A t \in Slots : connData'[t].conn \in Conns => SlotSame(t)
      BY <1>9, <1>10, HttpdAssumption DEF SlotSame
    <2>2. DOMAIN reply' = Conns /\ Traces(flash, flash', NULL)
      BY <1>1, <1>4, <1>6 DEF UploadInv, Domains, Traces
    <2> QED BY <1>1, <2>1, <2>2, HttpdAssumption DEF Concerns
  <1> QED BY <1>11, Others, HttpdAssumption

\* Every step keeps the invariant.
LEMMA UploadNext == FilesInv /\ UploadInv /\ [Next]_vars => UploadInv'
  <1> SUFFICES ASSUME FilesInv, UploadInv, [Next]_vars PROVE UploadInv'
    OBVIOUS
  <1>1. CASE Server
    BY <1>1, UploadHead, UploadHeadEnd, UploadPost, UploadNoUrl, UploadNotFound,
       UploadAskCgi, UploadRest, UploadDisconSlot DEF Server
  <1>2. CASE \E c \in Conns : Stack(c)
    BY <1>2, UploadConnect, UploadRecv, UploadSent, UploadRest DEF Stack
  <1>3. CASE UNCHANGED vars
    <2>1. UNCHANGED <<connData, flash, req, reply, pending, state, call>>
      BY <1>3 DEF vars, net
    <2>2. Concerns(NULL)
      BY <2>1, HttpdAssumption DEF Concerns, SlotSame, Traces, UploadInv, Domains
    <2> QED BY <2>2, Others, HttpdAssumption
  <1> QED BY <1>1, <1>2, <1>3 DEF Next

\* An upload that was answered with 200 is in the flash, unit by unit; only
\* another upload may have come in between (util/cgiflash.c:94-163).
THEOREM UploadsIntact == Spec => []UploadIntact
  <1>1. FilesInv /\ UploadInv => UploadIntact
    <2> SUFFICES ASSUME FilesInv, UploadInv, NEW c \in Conns, reply[c] = << 200 >>,
                        Handler[req[c]] = "cgiUploadFirmware",
                        NEW a \in 0 .. req[c].len - 1
                 PROVE  \/ flash[a] = [by |-> {c}, data |-> a]
                        \/ flash[a].by \ {c} # {}
      BY DEF UploadIntact
    <2>1. req[c] # NULL
      <3>1. reply[c] # <<>>
        OBVIOUS
      <3> QED BY <3>1 DEF UploadInv, Silent
    <2>2. UploadOK(c)
      BY <2>1 DEF UploadInv, Uploading
    <2>3. Stored(c)
      BY <2>2 DEF UploadOK, Begun, Refused
    <2>4. req[c].len \in Nat
      BY <2>1, Requests DEF FilesInv
    <2>5. a \in DOMAIN flash /\ a < req[c].len
      BY <2>3, <2>4, HttpdAssumption DEF Stored, UploadInv, Domains
    <2>6. Mine(flash[a], c, a)
      BY <2>3, <2>5 DEF Stored, Written
    <2> QED BY <2>6 DEF Mine
  <1>2. Init => FilesInv /\ UploadInv
    BY FilesInit, UploadInit
  <1>3. FilesInv /\ UploadInv /\ [Next]_vars => (FilesInv /\ UploadInv)'
    BY FilesNext, UploadNext
  <1> QED BY <1>1, <1>2, <1>3, PTL DEF Spec
=============================================================================
