---------------------------- MODULE MCWebsocket ----------------------------
(* Small instances of Websocket.                                           *)
EXTENDS Websocket

CONSTANTS c1, c2, c3

Frame(op, data) == [op |-> op, fin |-> TRUE, masked |-> TRUE, mask |-> <<17, 34, 68, 136>>,
                    ext |-> 0, data |-> data]
Text == Frame(OPCODE_TEXT, <<65, 66, 67, 68, 69, 70>>)
Long(f, ext) == [f EXCEPT !.ext = ext]
Short == Frame(OPCODE_BINARY, <<1>>)
Part == [Frame(OPCODE_CONTINUE, <<7, 8>>) EXCEPT !.fin = FALSE]
Ping == Frame(OPCODE_PING, <<9, 9>>)
Bye == Frame(OPCODE_CLOSE, <<3, 232>>)
Bare(f) == [f EXCEPT !.masked = FALSE]

Sends(q1, q2, q3) == [c \in {c1, c2, c3} |->
    CASE c = c1 -> q1 [] c = c2 -> q2 [] c = c3 -> q3]

\* One client with every kind of frame; several that come and go.
MCStreams ==
    {Sends(<<Text, Short>>, NULL, NULL), Sends(<<Long(Text, 2), Part>>, NULL, NULL),
     Sends(<<Long(Ping, 8), Short>>, NULL, NULL), Sends(<<Ping, Ping>>, NULL, NULL),
     Sends(<<Bare(Text), Short>>, NULL, NULL),
     Sends(<<Frame(OPCODE_TEXT, <<>>), Short>>, NULL, NULL),
     Sends(<<Short, Bye>>, <<>>, <<>>), Sends(<<Bye>>, <<Short>>, NULL),
     Sends(<<>>, <<>>, <<>>)}
=============================================================================
