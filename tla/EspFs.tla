------------------------------- MODULE EspFs -------------------------------
(***************************************************************************)
(* The file system of the web pages: mkespfsimage (espfs/mkespfsimage/     *)
(* main.c) packs files into an image on the build host, compressing them   *)
(* with heatshrink, and espfs.c finds and reads them on the ESP8266.       *)
(*                                                                         *)
(* A program does one round of one of its loops per step: call.at says     *)
(* where it is.  The image is a sequence of bytes; the sixteen bytes of a  *)
(* header are kept in "headers", by address.  A name is a sequence of      *)
(* characters; of the formats mkespfsimage uses one is chosen at Init.     *)
(***************************************************************************)
EXTENDS Integers, Sequences, FiniteSets, SequencesExt

Enc == INSTANCE HeatshrinkEncoder
Dec == INSTANCE HeatshrinkDecoder

CONSTANTS
    Inputs,            \* what is packed: [files, fmt, compression, base]; files
                       \* is a sequence of [name, data]
    Asked,             \* the names that are opened
    ReadLens,          \* how much is read at once
    FeedSize,          \* what the decoder is fed at once (16)
    NULL

COMPRESS_NONE == 0
COMPRESS_HEATSHRINK == 1
FLAG_LASTFILE == 1
HeaderSize == 16
Dot == 46
Slash == 47

\* Names are C strings.
Strings == Seq(1 .. 255)

ASSUME EspFsAssumption ==
    /\ FeedSize \in Nat \ {0} /\ ReadLens \subseteq Nat \ {0}
    /\ \A i \in Inputs : i.fmt \in Enc!FormatType /\ i.base \in Nat
                           /\ i.compression \in {COMPRESS_NONE, COMPRESS_HEATSHRINK}
                           /\ i.files \in Seq([name : Strings \ {<<>>}, data : Seq(Nat)])
    /\ Asked \subseteq Strings /\ NULL \notin Asked /\ NULL \notin Nat

VARIABLES
    input,             \* out of Inputs
    packed,            \* files that have been handled
    headers, image,    \* what has been written
    espFsData,         \* where the image is, once espFsInit has accepted it
    fh,                \* the open file
    name,              \* the name that was opened last
    data,              \* what has been read of it
    short,             \* the last read returned less than was asked for
    call               \* where the running function is

out == <<headers, image>>
reader == <<espFsData, fh, name, data, short>>
vars == <<input, packed, out, reader, call>>

Ready == [at |-> "ready"]
Failed == [at |-> "exit"]

\* What fh is while no file is open: a NULL pointer.
NoFile == [posStart |-> NULL]

Init ==
    /\ input \in Inputs
    /\ packed = 0
    /\ headers = <<>> /\ image = <<>>
    /\ espFsData = NULL /\ fh = NoFile /\ name = NULL /\ data = <<>> /\ short = FALSE
    /\ call = [at |-> "main"]

-----------------------------------------------------------------------------
(* mkespfsimage                                                            *)

File == input.files[packed + 1]

\* One '.' and one '/' are taken off the name.
RealName(n) ==
    LET m == IF n[1] = Dot THEN Tail(n) ELSE n
    IN  IF m # <<>> /\ m[1] = Slash THEN Tail(m) ELSE m

Padding(n) == [i \in 1 .. (4 - (n % 4)) % 4 |-> 0]
Aligned(n) == n + Len(Padding(n))

\* Mutant: the name is counted without its terminator.
NameLength(n) == Aligned(Len(n))

\* The name's length in the header, with its terminator.
NameLen(n) == Aligned(Len(n) + 1)

Header(n, compression, csize, size) ==
    [flags |-> 0, compression |-> compression, nameLen |-> NameLen(n),
     fileLenComp |-> csize, fileLenDecomp |-> size]

Written(hdr, bytes) ==
    /\ headers' = [a \in DOMAIN headers \cup {Len(image)} |->
                      IF a = Len(image) THEN hdr ELSE headers[a]]
    /\ image' = image \o [i \in 1 .. HeaderSize |-> 0] \o bytes

\* The rest of handleFile: what compressing made bigger is stored as it is.
StoreFile(compression, bytes) ==
    LET n == RealName(File.name)
        bigger == Len(bytes) > Len(File.data)
        content == IF bigger THEN File.data ELSE bytes
    IN  /\ Written(Header(n, IF bigger THEN COMPRESS_NONE ELSE compression,
                          Len(content), Len(File.data)),
                   n \o <<0>> \o Padding(Len(n) + 1) \o content \o Padding(Len(content)))
        /\ packed' = packed + 1
        /\ call' = [at |-> "main"]

NextFile == call.at = "main" /\ packed < Len(input.files)

\* mmap() fails for an empty file, which is left out.
HandleEmpty ==
    /\ NextFile /\ File.data = <<>>
    /\ packed' = packed + 1
    /\ UNCHANGED <<input, out, reader, call>>

HandleStored ==
    /\ NextFile /\ File.data # <<>> /\ input.compression = COMPRESS_NONE
    /\ StoreFile(COMPRESS_NONE, File.data)
    /\ UNCHANGED <<input, reader>>

\* compressHeatshrink: the first byte of the output is for the format.
CompressBegin ==
    /\ NextFile /\ File.data # <<>> /\ input.compression = COMPRESS_HEATSHRINK
    /\ call' = [at |-> "sink", left |-> File.data, r |-> <<>>,
                p |-> [e |-> Enc!heatshrink_encoder_alloc(input.fmt), out |-> <<>>,
                       room |-> 2 * Len(File.data) - 1]]
    /\ UNCHANGED <<input, packed, out, reader>>

\* A round of the outer loop begins with sink and perhaps finish.
CompressSink ==
    /\ call.at = "sink"
    /\ LET e == call.p.e
           left == SubSeq(call.left, Enc!SinkSize(e, Len(call.left)) + 1, Len(call.left))
           sunk == Enc!heatshrink_encoder_sink(e, call.left)
       IN  call' = IF ~Enc!MaySink(e) THEN Failed
                   ELSE [call EXCEPT !.at = "poll", !.left = left,
                                     !.p.e = IF left = <<>> THEN Enc!heatshrink_encoder_finish(sunk)
                                             ELSE sunk]
    /\ UNCHANGED <<input, packed, out, reader>>

AfterPoll == IF call.left = <<>> THEN "end" ELSE "sink"

\* The next poll gets what is left of the output buffer.
Emptied(q) == [q EXCEPT !.out = <<>>, !.room = @ - Len(q.out)]

\* poll refuses to run without room for output.  It is not asked to: the
\* code for a literal byte is never twice as long as the byte.
CompressRound ==
    /\ call.at = "poll" /\ call.p.room > 0
    /\ \E q \in {Enc!EncoderStep(call.p)} :
         LET polled == Enc!EncoderPolled(call.p, q)
         IN  call' = CASE polled = "GOES_ON" -> [call EXCEPT !.p = q]
                       [] polled = "MORE" -> [call EXCEPT !.p = Emptied(q), !.r = @ \o q.out]
                       [] polled = "EMPTY" -> [call EXCEPT !.p = Emptied(q), !.r = @ \o q.out,
                                                           !.at = AfterPoll]
    /\ UNCHANGED <<input, packed, out, reader>>

Parameters(fmt) == (fmt.window * 16) + fmt.lookahead

CompressEnd ==
    /\ call.at = "end"
    /\ StoreFile(COMPRESS_HEATSHRINK, <<Parameters(input.fmt)>> \o call.r)
    /\ UNCHANGED <<input, reader>>

LastHeader == [flags |-> FLAG_LASTFILE, compression |-> COMPRESS_NONE, nameLen |-> 0,
               fileLenComp |-> 0, fileLenDecomp |-> 0]

finishArchive ==
    /\ call.at = "main" /\ packed = Len(input.files)
    /\ Written(LastHeader, <<>>)
    /\ call' = Ready
    /\ UNCHANGED <<input, packed, reader>>

-----------------------------------------------------------------------------
(* espfs                                                                   *)

Byte(a) == image[a - input.base + 1]
Bytes(a, n) == [i \in 1 .. n |-> Byte(a + i - 1)]
\* spi_flash_read() of a header; there is no other magic in the image.
HasHeader(a) == a - input.base \in DOMAIN headers
HeaderAt(a) == headers[a - input.base]

\* Accepted if it is aligned and begins with a header.
espFsInit ==
    /\ call = Ready /\ espFsData = NULL
    /\ input.base % 4 = 0 /\ HasHeader(input.base)
    /\ espFsData' = input.base
    /\ UNCHANGED <<input, packed, out, fh, name, data, short, call>>

Stripped(n) == SubSeq(n, 1 + Cardinality({i \in DOMAIN n : \A j \in 1 .. i : n[j] = Slash}), Len(n))

\* strcmp() of the name behind a header.
IsName(a, n) == Bytes(a, Len(n) + 1) = n \o <<0>>

OpenBegin(n) ==
    /\ call = Ready /\ fh = NoFile
    /\ name' = (IF espFsData = NULL THEN NULL ELSE n) /\ data' = <<>> /\ short' = FALSE
    /\ call' = IF espFsData = NULL THEN Ready ELSE [at |-> "open", p |-> espFsData]
    /\ UNCHANGED <<input, packed, out, espFsData, fh>>

InOpen == call.at = "open"

\* The end, or what is not a header.
OpenNone ==
    /\ InOpen
    /\ ~HasHeader(call.p) \/ HeaderAt(call.p).flags = FLAG_LASTFILE
    /\ call' = Ready
    /\ UNCHANGED <<input, packed, out, reader>>

Handle(p) ==
    LET h == HeaderAt(p)
        start == p + HeaderSize + h.nameLen
        parm == Byte(start)
        fmt == [byte |-> input.fmt.byte, window |-> parm \div 16, lookahead |-> parm % 16]
    IN  [head |-> h, posStart |-> start, posDecomp |-> 0,
         posComp |-> IF h.compression = COMPRESS_NONE THEN start ELSE start + 1,
         dec |-> IF h.compression = COMPRESS_NONE THEN NULL
                 ELSE Dec!heatshrink_decoder_alloc(fmt, FeedSize)]

Here == HasHeader(call.p) /\ HeaderAt(call.p).flags # FLAG_LASTFILE
            /\ IsName(call.p + HeaderSize, Stripped(name))
Elsewhere == HasHeader(call.p) /\ HeaderAt(call.p).flags # FLAG_LASTFILE
            /\ ~IsName(call.p + HeaderSize, Stripped(name))

OpenFound ==
    /\ InOpen /\ Here
    /\ fh' = Handle(call.p)
    /\ call' = Ready
    /\ UNCHANGED <<input, packed, out, espFsData, name, data, short>>

\* The header behind the next 32 bit boundary.
OpenNext ==
    /\ InOpen /\ Elsewhere
    /\ call' = [call EXCEPT !.p =
          Aligned(@ + HeaderSize + HeaderAt(call.p).nameLen + HeaderAt(call.p).fileLenComp)]
    /\ UNCHANGED <<input, packed, out, reader>>

Left == fh.head.fileLenComp - (fh.posComp - fh.posStart)
SmallerOf(m, n) == IF m < n THEN m ELSE n

ReadStored(len) ==
    /\ call = Ready /\ fh # NoFile /\ fh.dec = NULL
    /\ LET n == SmallerOf(len, Left)
       IN  /\ data' = data \o Bytes(fh.posComp, n)
           /\ short' = (n < len)
           /\ fh' = [fh EXCEPT !.posDecomp = @ + n, !.posComp = @ + n]
    /\ UNCHANGED <<input, packed, out, espFsData, name, call>>

ReadAtEnd(len) ==
    /\ call = Ready /\ fh # NoFile /\ fh.dec # NULL
    /\ fh.posDecomp = fh.head.fileLenDecomp
    /\ short' = TRUE
    /\ UNCHANGED <<input, packed, out, espFsData, fh, name, data, call>>

ReadBegin(len) ==
    /\ call = Ready /\ fh # NoFile /\ fh.dec # NULL
    /\ fh.posDecomp # fh.head.fileLenDecomp
    /\ call' = [at |-> "feed", len |-> len, decoded |-> <<>>]
    /\ UNCHANGED <<input, packed, out, reader>>

\* A round of the loop: the decoder is fed with what is left, up to what
\* the buffer holds, and takes what it has room for.
ReadFeed ==
    /\ call.at = "feed"
    /\ LET chunk == Bytes(fh.posComp, SmallerOf(FeedSize, Left))
           fed == Dec!heatshrink_decoder_sink(fh.dec, chunk)
       IN  /\ fh' = [fh EXCEPT !.posComp = @ + Dec!DecoderTakes(fh.dec, Len(chunk))]
           /\ call' = [at |-> "decode", len |-> call.len, decoded |-> call.decoded,
                       elen |-> Left,
                       p |-> [h |-> fed, out |-> <<>>, room |-> call.len - Len(call.decoded)]]
    /\ UNCHANGED <<input, packed, out, espFsData, name, data, short>>

\* Mutant: it goes on until it has everything it was asked for.
ReadUntilFull(elen, decoded, len) == Len(decoded) >= len

\* The loop ends, also without having everything if there is no more input.
ReadReturns(elen, decoded, len) == elen = 0 \/ Len(decoded) >= len

Decode ==
    /\ call.at = "decode"
    /\ \E q \in {Dec!DecoderStep(call.p)} :
         LET decoded == call.decoded \o q.out
         IN  \/ /\ ~Dec!DecoderPolled(call.p, q)
                /\ call' = [call EXCEPT !.p = q]
                /\ UNCHANGED <<fh, data, short>>
             \/ /\ Dec!DecoderPolled(call.p, q)
                /\ fh' = [fh EXCEPT !.dec = q.h, !.posDecomp = @ + Len(q.out)]
                /\ \/ /\ ReadReturns(call.elen, decoded, call.len)
                      /\ data' = data \o decoded
                      /\ short' = (Len(decoded) < call.len)
                      /\ call' = Ready
                   \/ /\ ~ReadReturns(call.elen, decoded, call.len)
                      /\ call' = [at |-> "feed", len |-> call.len, decoded |-> decoded]
                      /\ UNCHANGED <<data, short>>
    /\ UNCHANGED <<input, packed, out, espFsData, name>>

espFsClose ==
    /\ call = Ready /\ fh # NoFile
    /\ fh' = NoFile /\ name' = NULL
    /\ UNCHANGED <<input, packed, out, espFsData, data, short, call>>

-----------------------------------------------------------------------------

Host ==
    \/ HandleEmpty \/ HandleStored
    \/ CompressBegin \/ CompressSink \/ CompressRound \/ CompressEnd
    \/ finishArchive

Reading == OpenNone \/ OpenFound \/ OpenNext \/ ReadFeed \/ Decode

Next ==
    \/ Host \/ Reading \/ espFsInit
    \/ \E n \in Asked : OpenBegin(n)
    \/ \E len \in ReadLens : ReadStored(len) \/ ReadAtEnd(len) \/ ReadBegin(len)
    \/ espFsClose

\* Programs that have been called go on.
Spec == Init /\ [][Next]_vars /\ WF_vars(Host \/ Reading)

-----------------------------------------------------------------------------
(* Properties                                                              *)

\* The file a name stands for: the first that has it.
Named(n) == {i \in DOMAIN input.files :
                input.files[i].data # <<>> /\ RealName(input.files[i].name) = Stripped(n)}
Content(n) == input.files[CHOOSE i \in Named(n) : \A j \in Named(n) : i <= j].data

\* Reading gives the file that was packed, byte by byte, and all of it when
\* a read returns less than it was asked for: however the file is
\* compressed, whatever was read at once, wherever the decoder ran out of
\* input or of room (espfs/espfs.c:196-258, lib/heatshrink).
RoundTrip ==
    fh # NoFile => IsPrefix(data, Content(name)) /\ (short => data = Content(name))

\* Every file that is not empty is found under its name behind any number
\* of slashes, and no other is; packing does not give up (espfs/espfs.c:127-193,
\* espfs/mkespfsimage/main.c:178-273).
OpensRight ==
    /\ call # Failed
    /\ call = Ready /\ name # NULL /\ espFsData # NULL => (fh # NoFile <=> Named(name) # {})

\* Packing ends, and so does every espFsOpen and espFsRead, although a read
\* loops until it has what it was asked for (espfs/espfs.c:229-253,
\* espfs/mkespfsimage/main.c:68-81).
CallsReturn == (call # Ready) ~> (call = Ready)
=============================================================================
