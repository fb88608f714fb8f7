------------------------------ MODULE MCEspFs ------------------------------
(* Small instances of EspFs: every short file over two bytes, and long     *)
(* files that fill the window several times.                               *)
EXTENDS EspFs

Fmt(b, w, l) == [byte |-> b, window |-> w, lookahead |-> l]

\* "./a", "/b", "./aaab" and how they are asked for.
A == <<46, 47, 97>>
B == <<47, 98>>
AB == <<46, 47, 97, 97, 97, 98>>
MCAsked == {<<47, 97>>, <<47, 47, 98>>, <<97, 97, 97, 98>>, <<47, 97, 98>>}

Pattern(n, k) == [i \in 1 .. n |-> (i \div k) % 4]
Squares(n) == [i \in 1 .. n |-> (((i * i) % 7) + ((i * i) \div 5)) % 4]
Runs(n) == [i \in 1 .. n |-> IF i % 9 < 6 THEN 0 ELSE i % 4]
Long == {Pattern(45, 1), Pattern(50, 3), Pattern(40, 60), Squares(44), Runs(52)}
Short == UNION {[1 .. n -> {0, 1}] : n \in 1 .. 5}

One(f, fmt, compression) ==
    [files |-> <<[name |-> A, data |-> f]>>, fmt |-> fmt, compression |-> compression,
     base |-> 4]
Three(f, g, fmt, base) ==
    [files |-> <<[name |-> AB, data |-> f], [name |-> A, data |-> g],
                 [name |-> B, data |-> <<>>], [name |-> B, data |-> <<1>>]>>,
     fmt |-> fmt, compression |-> COMPRESS_HEATSHRINK, base |-> base]

MCInputs ==
    {One(f, fmt, COMPRESS_HEATSHRINK) : f \in Short \cup Long, fmt \in {Fmt(2, 4, 3)}}
        \cup {One(f, fmt, COMPRESS_HEATSHRINK) : f \in Long, fmt \in {Fmt(8, 5, 3), Fmt(3, 4, 2)}}
        \cup {One(Pattern(5, 1), Fmt(8, 5, 3), COMPRESS_NONE)}
        \cup {Three(Pattern(14, 2), Pattern(9, 20), Fmt(2, 4, 3), base) : base \in {0, 2}}
=============================================================================
