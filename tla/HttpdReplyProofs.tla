------------------------- MODULE HttpdReplyProofs -------------------------
(***************************************************************************)
(* Every request is answered with the reply it asks for (RepliesRight of   *)
(* Httpd), whatever the files, the table of URLs, the requests and the     *)
(* sizes of the buffers are.                                               *)
(*                                                                         *)
(* The invariant, ReplyInv, says of a connection that it waits for a       *)
(* request, or that the one it sends is being received or served by the    *)
(* slot that is its own: nothing has been sent so far, or a part of the    *)
(* answer with the rest of the file, of the template or of the upload      *)
(* still to come at the place the slot remembers, or the whole answer.     *)
(* The lemmas follow the code: the text of a template, tokens, blocks,     *)
(* what a CGI function sends at the first call and at a later one, the     *)
(* search of the table, the steps of the server and of the stack.          *)
(***************************************************************************)
EXTENDS HttpdProofs, FiniteSetTheorems

\* Room for one more file while the table is asked.
Memory == InProcess => \E h \in Handles : files[h].owner = NULL

\* The requests RepliesRight speaks of.
Cared(c) == req[c] # NULL /\ ~Streamed(req[c]) /\ req[c] \in Fits

\* The table has not got beyond the entry that takes the request.
Searching(d, cl, at, q) ==
    /\ d.len >= 0 => d.url = q.url
    /\ at = "table" => (\A i \in Taking(q) : cl.i <= i) /\ (d.url = NULL => d.cgi = NULL)

\* An upload gets here block by block.
Blockwise(d, at, q) ==
    /\ Offset(d) % MaxPost = 0
    /\ at = "table" => d.buffLen = MaxPost \/ d.received = d.len
    /\ Offset(d) # 0 => ~d.cgiPrivData /\ q.image /\ q.len <= FwSize

\* A slot whose request is still to be answered, with nothing sent.
Expecting(d, cl, at, q) ==
    /\ Searching(d, cl, at, q)
    /\ at = "net" => \/ d.cgi = NULL
                     \/ d.cgi = "cgiUploadFirmware" /\ Handler[q] = "cgiUploadFirmware"
    /\ Handler[q] = "cgiUploadFirmware" => Blockwise(d, at, q)

\* Nothing has been sent to the connection.
Waiting(c) ==
    /\ reply[c] = <<>> /\ pending[c] = 0
    /\ \A s \in SlotsOf(c) : Expecting(connData[s], call, WhereOf(call, s), req[c])

\* The token the parser is in before unit p + 1, as far as it is kept.
TokenAt(url, p) ==
    IF InToken(url, p)
    THEN [i \in 1 .. MinNat(TokenMax - 1, p - LastMark(url, p)) |-> LastMark(url, p) + i]
    ELSE NULL

\* A status code alone, and an answer from its head on.
Code(n) == <<n>>
Headed(s) == << 200 >> \o s

\* How far the answer has come.
HookPart(f, q, rep) ==
    /\ f.owner # NULL /\ f.url = q.url /\ (q.url \in Gzip => q.gzip # "other")
    /\ rep = Headed(Positions(f.pos))
TemplatePart(f, q, rep) ==
    /\ f.owner # NULL /\ f.url = q.url /\ f.pos % MaxPost = 0 /\ f.token = TokenAt(q.url, f.pos)
    /\ rep = Headed(TemplateText(q.url, 0, f.pos))
FlashPart(pos, rep) ==
    /\ pos \in Nat /\ pos % MaxPost = 0 /\ pos < ReadLen
    /\ rep = Headed(Positions(pos))
Part(d, fs, q, rep) ==
    \/ d.cgi = "cgiEspFsHook" /\ d.cgiData \in Handles /\ HookPart(fs[d.cgiData], q, rep)
    \/ /\ d.cgi = "cgiEspFsTemplate" /\ d.cgiData \in Handles
       /\ TemplatePart(fs[d.cgiData], q, rep)
    \/ d.cgi = "cgiReadFlash" /\ FlashPart(d.cgiData, rep)

\* A slot that waits for the sent callback with the rest of the answer.
Sending(d, at, fs, q, rep) ==
    /\ at = "net" /\ d.cgi = Handler[q] /\ d.len >= 0 /\ d.received = d.len /\ d.url = q.url
    /\ Part(d, fs, q, rep)

\* A part has been sent, and the slot knows where to go on.
InService(c) ==
    /\ \E a \in Answers[req[c]] : IsPrefix(reply[c], a)
    /\ \A s \in SlotsOf(c) :
          Sending(connData[s], WhereOf(call, s), files, req[c], reply[c])

\* The rest of an upload that has been rejected.
Ignored(d, cl, at, q) ==
    /\ Handler[q] = "cgiUploadFirmware" /\ Searching(d, cl, at, q)
    /\ Offset(d) # 0 /\ d.cgiPrivData /\ (at = "net" => d.cgi = NULL)

\* All has been sent, and nothing more will be.
Answered(c) ==
    /\ reply[c] \in Answers[req[c]]
    /\ \A s \in SlotsOf(c) : LET at == WhereOf(call, s)
                             IN  \/ Over(connData[s], at)
                                 \/ Ignored(connData[s], call, at, req[c])

\* One of these at any time; a connection that the server closed is answered.
ReplyOK(c) ==
    /\ Waiting(c) \/ InService(c) \/ Answered(c)
    /\ state[c] = "finished" => Answered(c)
Quiet == \A c \in Conns : state[c] = "none" => pending[c] = 0
ReplyInv == Quiet /\ \A c \in Conns : Cared(c) => ReplyOK(c)

-----------------------------------------------------------------------------
(* The text of a template *)

\* Induction up to n over the members of a set.
LEMMA UpTo ==
    ASSUME NEW n \in Nat, NEW G, 0 \in G, \A i \in 1 .. n : i - 1 \in G => i \in G
    PROVE  \A i \in 0 .. n : i \in G
  <1> DEFINE Bad == (0 .. n) \ G
  <1>1. SUFFICES ASSUME Bad # {} PROVE FALSE
    OBVIOUS
  <1>2. Bad \in SUBSET Nat
    OBVIOUS
  <1>3. PICK m \in Bad : \A j \in Bad : m <= j
    <2> HIDE DEF Bad
    <2> QED BY <1>1, <1>2, Least
  <1>4. m \in 1 .. n /\ m - 1 \in 0 .. n /\ ~(m <= m - 1)
    BY <1>3
  <1>5. m - 1 \in G
    BY <1>3, <1>4
  <1> QED BY <1>3, <1>4, <1>5

\* F[i] is what the units behind "from" make up to unit i.
Texts(url, from, to, F) ==
    F = [i \in from .. to |-> IF i = from THEN <<>> ELSE F[i - 1] \o TemplateOut(url, i)]

\* There is such a function.
LEMMA TextsExist ==
    ASSUME NEW url, NEW from \in Nat, NEW n \in Nat
    PROVE  \E F : Texts(url, from, from + n, F)
  <1> DEFINE G == {m \in 0 .. n : \E F : Texts(url, from, from + m, F)}
  <1>1. 0 \in G
    <2>1. Texts(url, from, from + 0, [i \in {from} |-> <<>>])
      BY DEF Texts
    <2> QED BY <2>1
  <1>2. ASSUME NEW m \in 1 .. n, m - 1 \in G
        PROVE  m \in G
    <2>1. PICK F : Texts(url, from, from + (m - 1), F)
      BY <1>2
    <2> DEFINE to == from + m
               H == [i \in from .. to |->
                       IF i = to THEN F[to - 1] \o TemplateOut(url, to) ELSE F[i]]
    <2>2. /\ to \in Nat /\ from < to /\ from + (m - 1) = to - 1
          /\ \A i \in from .. to : i # to => i \in from .. to - 1
          /\ \A i \in from .. to : i # from => i - 1 \in from .. to /\ i - 1 # to
      OBVIOUS
    <2> HIDE DEF to
    <2>3. ASSUME NEW i \in from .. to
          PROVE  H[i] = IF i = from THEN <<>> ELSE H[i - 1] \o TemplateOut(url, i)
      <3>1. CASE i = to
        <4>1. H[i] = F[i - 1] \o TemplateOut(url, i)
          BY <3>1
        <4>2. i # from /\ H[i - 1] = F[i - 1]
          BY <2>2, <3>1
        <4> QED BY <4>1, <4>2
      <3>2. CASE i # to
        <4>1. H[i] = F[i] /\ (i # from => H[i - 1] = F[i - 1])
          BY <2>2, <3>2
        <4>2. F[i] = IF i = from THEN <<>> ELSE F[i - 1] \o TemplateOut(url, i)
          BY <2>1, <2>2, <3>2 DEF Texts
        <4> QED BY <4>1, <4>2
      <3> QED BY <3>1, <3>2
    <2>4. Texts(url, from, to, H)
      <3>1. \A i \in from .. to :
               H[i] = IF i = from THEN <<>> ELSE H[i - 1] \o TemplateOut(url, i)
        BY <2>3
      <3>2. H = [i \in from .. to |-> H[i]]
        OBVIOUS
      <3> HIDE DEF H
      <3> QED BY <3>1, <3>2 DEF Texts
    <2> QED BY <2>4 DEF to
  <1> HIDE DEF G
  <1>3. \A i \in 0 .. n : i \in G
    BY <1>1, <1>2, UpTo
  <1> QED BY <1>3 DEF G

\* It gives the text.
LEMMA TextOf ==
    ASSUME NEW url, NEW from \in Nat, NEW to \in Nat, from <= to,
           NEW F, Texts(url, from, to, F)
    PROVE  TemplateText(url, from, to) = F[to]
  <1> DEFINE C == CHOOSE F1 : Texts(url, from, to, F1)
  <1>1. TemplateText(url, from, to) = C[to]
    BY DEF TemplateText, Texts
  <1>2. Texts(url, from, to, C)
    BY Zenon
  <1> HIDE DEF C
  <1> DEFINE G == {i \in 0 .. to - from : C[from + i] = F[from + i]}
  <1>3. 0 \in G
    BY <1>2 DEF Texts
  <1>4. ASSUME NEW i \in 1 .. to - from, i - 1 \in G
        PROVE  i \in G
    <2>1. /\ from + i \in from .. to /\ from + i # from
          /\ from + (i - 1) = (from + i) - 1
      OBVIOUS
    <2>2. /\ C[from + i] = C[(from + i) - 1] \o TemplateOut(url, from + i)
          /\ F[from + i] = F[(from + i) - 1] \o TemplateOut(url, from + i)
      BY <1>2, <2>1 DEF Texts
    <2>3. i \in 0 .. to - from /\ C[from + (i - 1)] = F[from + (i - 1)]
      BY <1>4
    <2>4. C[from + i] = F[from + i]
      BY <2>1, <2>2, <2>3
    <2> QED BY <2>3, <2>4
  <1> HIDE DEF G
  <1>5. to - from \in Nat /\ from + (to - from) = to
    OBVIOUS
  <1>6. to - from \in G
    BY <1>3, <1>4, <1>5, UpTo
  <1> QED BY <1>1, <1>5, <1>6 DEF G

\* The text of no units, and of one unit more.
LEMMA TextStep ==
    ASSUME NEW url, NEW from \in Nat, NEW to \in Nat, from <= to
    PROVE  /\ TemplateText(url, from, from) = <<>>
           /\ TemplateText(url, from, to + 1)
                 = TemplateText(url, from, to) \o TemplateOut(url, to + 1)
  <1>1. PICK F : Texts(url, from, to + 1, F)
    <2>1. (to + 1) - from \in Nat /\ from + ((to + 1) - from) = to + 1
      OBVIOUS
    <2> QED BY <2>1, TextsExist
  <1>2. F[from] = <<>> /\ F[to + 1] = F[to] \o TemplateOut(url, to + 1)
    <2>1. from \in from .. to + 1 /\ to + 1 \in from .. to + 1 /\ to + 1 # from
          /\ (to + 1) - 1 = to
      OBVIOUS
    <2> QED BY <1>1, <2>1 DEF Texts
  <1>3. TemplateText(url, from, to + 1) = F[to + 1]
    BY <1>1, TextOf
  <1>4. ASSUME NEW n \in from .. to
        PROVE  TemplateText(url, from, n) = F[n]
    <2> DEFINE H == [i \in from .. n |-> F[i]]
    <2>1. Texts(url, from, n, H)
      <3>1. \A i \in from .. n : i \in from .. to + 1 /\ (i # from => i - 1 \in from .. n)
        OBVIOUS
      <3>2. \A i \in from .. n :
               H[i] = IF i = from THEN <<>> ELSE H[i - 1] \o TemplateOut(url, i)
        BY <1>1, <3>1 DEF Texts
      <3>3. H = [i \in from .. n |-> H[i]]
        OBVIOUS
      <3> HIDE DEF H
      <3> QED BY <3>2, <3>3 DEF Texts
    <2>2. n \in Nat /\ from <= n /\ H[n] = F[n]
      OBVIOUS
    <2> HIDE DEF H
    <2> QED BY <2>1, <2>2, TextOf
  <1>5. TemplateText(url, from, from) = F[from] /\ TemplateText(url, from, to) = F[to]
    <2>1. from \in from .. to /\ to \in from .. to
      OBVIOUS
    <2> QED BY <1>4, <2>1
  <1> QED BY <1>2, <1>3, <1>5

-----------------------------------------------------------------------------
(* Tokens *)

IsMark(url, p) == File[url][p] = "%"

\* The marks up to one unit more.
LEMMA PercentsStep ==
    ASSUME NEW url, NEW p \in Nat
    PROVE  /\ Percents(url, 0) = {}
           /\ Percents(url, p) \in SUBSET (1 .. p)
           /\ IsFiniteSet(Percents(url, p)) /\ Cardinality(Percents(url, p)) \in Nat
           /\ p + 1 \notin Percents(url, p)
           /\ Percents(url, p + 1) = IF IsMark(url, p + 1) THEN Percents(url, p) \cup {p + 1}
                                     ELSE Percents(url, p)
  <1>1. Percents(url, 0) = {} /\ Percents(url, p) \in SUBSET (1 .. p)
    BY DEF Percents
  <1>2. IsFiniteSet(Percents(url, p))
    <2>1. 0 \in Int /\ p \in Int /\ 1 \in Int
      OBVIOUS
    <2>2. IsFiniteSet(1 .. p)
      BY <2>1, FS_Interval
    <2> QED BY <1>1, <2>2, FS_Subset
  <1>3. Cardinality(Percents(url, p)) \in Nat
    BY <1>2, FS_CardinalityType
  <1>4. p + 1 \notin Percents(url, p)
    BY <1>1
  <1>5. Percents(url, p + 1) = IF IsMark(url, p + 1) THEN Percents(url, p) \cup {p + 1}
                               ELSE Percents(url, p)
    <2>1. 1 .. p + 1 = (1 .. p) \cup {p + 1}
      OBVIOUS
    <2> QED BY <2>1 DEF Percents, IsMark
  <1> QED BY <1>1, <1>2, <1>3, <1>4, <1>5

\* Each mark opens a token or closes it.
LEMMA TokenToggles ==
    ASSUME NEW url, NEW p \in Nat
    PROVE  /\ ~InToken(url, 0)
           /\ IsMark(url, p + 1) => (InToken(url, p + 1) <=> ~InToken(url, p))
           /\ ~IsMark(url, p + 1) => (InToken(url, p + 1) <=> InToken(url, p))
  <1>1. ~InToken(url, 0)
    <2>1. Percents(url, 0) = {} /\ Cardinality({}) = 0
      BY PercentsStep, FS_EmptySet
    <2> QED BY <2>1 DEF InToken
  <1>2. IsMark(url, p + 1) => (InToken(url, p + 1) <=> ~InToken(url, p))
    <2> SUFFICES ASSUME IsMark(url, p + 1)
                 PROVE  InToken(url, p + 1) <=> ~InToken(url, p)
      OBVIOUS
    <2> DEFINE S == Percents(url, p)
               n == Cardinality(S)
    <2>1. IsFiniteSet(S) /\ n \in Nat /\ p + 1 \notin S
          /\ Percents(url, p + 1) = S \cup {p + 1}
      BY PercentsStep
    <2>2. Cardinality(S \cup {p + 1}) = n + 1
      <3> HIDE DEF S
      <3> QED BY <2>1, FS_AddElement
    <2>3. /\ InToken(url, p) <=> n % 2 = 1
          /\ InToken(url, p + 1) <=> (n + 1) % 2 = 1
      BY <2>1, <2>2 DEF InToken
    <2> HIDE DEF n
    <2>4. (n + 1) % 2 = 1 <=> ~(n % 2 = 1)
      BY <2>1
    <2> QED BY <2>3, <2>4
  <1>3. ~IsMark(url, p + 1) => (InToken(url, p + 1) <=> InToken(url, p))
    BY PercentsStep DEF InToken
  <1> QED BY <1>1, <1>2, <1>3

\* A token begins behind its last mark.
LEMMA MarkStep ==
    ASSUME NEW url, NEW p \in Nat
    PROVE  /\ InToken(url, p) => LastMark(url, p) \in 1 .. p
           /\ IsMark(url, p + 1) => LastMark(url, p + 1) = p + 1
           /\ ~IsMark(url, p + 1) => LastMark(url, p + 1) = LastMark(url, p)
  <1>1. ~IsMark(url, p + 1) => LastMark(url, p + 1) = LastMark(url, p)
    BY PercentsStep DEF LastMark
  <1>2. IsMark(url, p + 1) => LastMark(url, p + 1) = p + 1
    <2> SUFFICES ASSUME IsMark(url, p + 1) PROVE LastMark(url, p + 1) = p + 1
      OBVIOUS
    <2>1. Percents(url, p + 1) = Percents(url, p) \cup {p + 1}
          /\ Percents(url, p) \in SUBSET (1 .. p)
      BY PercentsStep
    <2> DEFINE S == Percents(url, p + 1)
    <2>2. /\ p + 1 \in S /\ \A r \in S : r \in Nat /\ r <= p + 1
      BY <2>1
    <2>3. LastMark(url, p + 1) = CHOOSE m \in S : \A r \in S : r <= m
      BY DEF LastMark
    <2> HIDE DEF S
    <2>4. PICK l : l = CHOOSE m \in S : \A r \in S : r <= m
      OBVIOUS
    <2>5. l \in S /\ \A r \in S : r <= l
      BY <2>2, <2>4
    <2>6. l = p + 1
      <3>1. l \in Nat /\ l <= p + 1 /\ p + 1 <= l
        BY <2>2, <2>5
      <3> QED BY <3>1
    <2> QED BY <2>3, <2>4, <2>6
  <1>3. InToken(url, p) => LastMark(url, p) \in 1 .. p
    <2> SUFFICES ASSUME InToken(url, p) PROVE LastMark(url, p) \in 1 .. p
      OBVIOUS
    <2> DEFINE S == Percents(url, p)
    <2>1. S \in SUBSET (1 .. p)
      BY PercentsStep
    <2>2. S # {}
      <3>1. Cardinality({}) = 0
        BY FS_EmptySet
      <3> QED BY <3>1 DEF InToken
    <2>3. LastMark(url, p) = CHOOSE m \in S : \A r \in S : r <= m
      BY DEF LastMark
    <2> HIDE DEF S
    <2> DEFINE B == {p - r : r \in S}
    <2>4. B \in SUBSET Nat /\ B # {}
      <3>1. \A r \in S : p - r \in Nat
        BY <2>1
      <3> QED BY <2>2, <3>1
    <2>5. PICK b \in B : \A j \in B : b <= j
      <3> HIDE DEF B
      <3> QED BY <2>4, Least
    <2>6. PICK m \in S : b = p - m
      BY <2>5
    <2>7. ASSUME NEW r \in S PROVE r <= m
      <3>1. p - r \in B /\ r \in Nat /\ m \in Nat
        BY <2>1
      <3>2. p - m <= p - r
        BY <2>5, <2>6, <3>1
      <3> QED BY <3>1, <3>2
    <2>8. (CHOOSE l \in S : \A r \in S : r <= l) \in S
      BY <2>7
    <2> QED BY <2>1, <2>3, <2>8
  <1> QED BY <1>1, <1>2, <1>3

\* A token that is being collected: its characters so far, as many as fit.
LEMMA TokenType ==
    ASSUME NEW url, NEW p \in Nat
    PROVE  /\ TokenAt(url, 0) = NULL
           /\ TokenAt(url, p) = NULL <=> ~InToken(url, p)
           /\ InToken(url, p) =>
                 /\ TokenAt(url, p) \in Seq(Nat)
                 /\ Len(TokenAt(url, p)) = MinNat(TokenMax - 1, p - LastMark(url, p))
                 /\ DOMAIN TokenAt(url, p) = 1 .. MinNat(TokenMax - 1, p - LastMark(url, p))
                 /\ \A i \in DOMAIN TokenAt(url, p) :
                       TokenAt(url, p)[i] = LastMark(url, p) + i
  <1>1. TokenAt(url, 0) = NULL
    BY TokenToggles DEF TokenAt
  <1>2. ASSUME InToken(url, p)
        PROVE  /\ TokenAt(url, p) \in Seq(Nat)
               /\ Len(TokenAt(url, p)) = MinNat(TokenMax - 1, p - LastMark(url, p))
               /\ DOMAIN TokenAt(url, p) = 1 .. MinNat(TokenMax - 1, p - LastMark(url, p))
               /\ \A i \in DOMAIN TokenAt(url, p) :
                     TokenAt(url, p)[i] = LastMark(url, p) + i
    <2> DEFINE l == LastMark(url, p)
               n == MinNat(TokenMax - 1, p - l)
    <2>1. l \in Nat /\ n \in Nat
      <3>1. l \in 1 .. p
        BY <1>2, MarkStep
      <3> HIDE DEF l
      <3> QED BY <3>1, HttpdAssumption DEF MinNat
    <2>2. TokenAt(url, p) = [i \in 1 .. n |-> l + i]
      BY <1>2 DEF TokenAt
    <2> HIDE DEF l, n
    <2>3. [i \in 1 .. n |-> l + i] \in Seq(Nat)
      BY <2>1
    <2> QED BY <2>1, <2>2, <2>3 DEF l, n
  <1>3. TokenAt(url, p) = NULL <=> ~InToken(url, p)
    BY <1>2, HttpdAssumption DEF TokenAt
  <1> QED BY <1>1, <1>2, <1>3

\* A mark ends the text or begins a token.
LEMMA TokenMark ==
    ASSUME NEW url, NEW p \in Nat, IsMark(url, p + 1)
    PROVE  TokenAt(url, p + 1) = IF InToken(url, p) THEN NULL ELSE <<>>
  <1>1. CASE InToken(url, p)
    BY <1>1, TokenToggles DEF TokenAt
  <1>2. CASE ~InToken(url, p)
    <2>1. InToken(url, p + 1) /\ LastMark(url, p + 1) = p + 1
      BY <1>2, TokenToggles, MarkStep
    <2>2. p + 1 \in Nat
      OBVIOUS
    <2>3. /\ TokenAt(url, p + 1) \in Seq(Nat)
          /\ Len(TokenAt(url, p + 1)) = MinNat(TokenMax - 1, (p + 1) - LastMark(url, p + 1))
      BY <2>1, <2>2, TokenType
    <2>4. MinNat(TokenMax - 1, (p + 1) - (p + 1)) = 0
      BY HttpdAssumption DEF MinNat
    <2>5. Len(TokenAt(url, p + 1)) = 0
      BY <2>1, <2>3, <2>4
    <2> QED BY <1>2, <2>3, <2>5, EmptySeq
  <1> QED BY <1>1, <1>2

\* Another unit is text, or the next character of the token.
LEMMA TokenGrows ==
    ASSUME NEW url, NEW p \in Nat, ~IsMark(url, p + 1)
    PROVE  LET t == TokenAt(url, p)
           IN  TokenAt(url, p + 1)
                  = IF t = NULL THEN NULL
                    ELSE IF Len(t) < TokenMax - 1 THEN Append(t, p + 1) ELSE t
  <1> DEFINE t == TokenAt(url, p)
             u == TokenAt(url, p + 1)
             l == LastMark(url, p)
  <1>1. CASE ~InToken(url, p)
    BY <1>1, TokenToggles, TokenType DEF TokenAt
  <1>2. CASE InToken(url, p)
    <2>0. p + 1 \in Nat
      OBVIOUS
    <2>1. InToken(url, p + 1) /\ LastMark(url, p + 1) = l /\ l \in 1 .. p
      BY <1>2, TokenToggles, MarkStep
    <2>2. /\ t \in Seq(Nat) /\ Len(t) = MinNat(TokenMax - 1, p - l)
          /\ DOMAIN t = 1 .. Len(t) /\ t # NULL
          /\ \A i \in DOMAIN t : t[i] = l + i
      BY <1>2, TokenType
    <2>3. /\ u \in Seq(Nat) /\ Len(u) = MinNat(TokenMax - 1, (p + 1) - l)
          /\ DOMAIN u = 1 .. Len(u)
          /\ \A i \in DOMAIN u : u[i] = l + i
      BY <2>0, <2>1, TokenType
    <2> HIDE DEF t, u, l
    <2> SUFFICES u = IF t = NULL THEN NULL
                     ELSE IF Len(t) < TokenMax - 1 THEN Append(t, p + 1) ELSE t
      BY DEF t, u
    <2>4. CASE Len(t) < TokenMax - 1
      <3>1. Len(t) = p - l /\ Len(u) = Len(t) + 1
        BY <2>1, <2>2, <2>3, <2>4, HttpdAssumption DEF MinNat
      <3>2. Append(t, p + 1) \in Seq(Nat) /\ Len(Append(t, p + 1)) = Len(t) + 1
            /\ \A i \in 1 .. Len(t) : Append(t, p + 1)[i] = t[i]
            /\ Append(t, p + 1)[Len(t) + 1] = p + 1
        BY <2>2
      <3>3. ASSUME NEW i \in 1 .. Len(u) PROVE u[i] = Append(t, p + 1)[i]
        <4>1. u[i] = l + i
          BY <2>3
        <4>2. CASE i \in 1 .. Len(t)
          BY <2>2, <3>2, <4>1, <4>2
        <4>3. CASE i = Len(t) + 1
          <5>1. l + i = p + 1
            BY <2>1, <3>1, <4>3
          <5> QED BY <3>2, <4>1, <4>3, <5>1
        <4> QED BY <2>2, <3>1, <4>2, <4>3
      <3>4. Len(u) = Len(Append(t, p + 1))
        BY <3>1, <3>2
      <3>5. PICK v \in Seq(Nat) : v = Append(t, p + 1)
        BY <3>2
      <3>6. u = v
        BY <2>3, <3>3, <3>4, <3>5, SeqEqual
      <3> QED BY <2>2, <2>4, <3>5, <3>6
    <2>5. CASE ~(Len(t) < TokenMax - 1)
      <3>1. Len(u) = Len(t)
        BY <2>1, <2>2, <2>3, <2>5, HttpdAssumption DEF MinNat
      <3>2. \A i \in 1 .. Len(u) : u[i] = t[i]
        BY <2>2, <2>3, <3>1
      <3>3. u = t
        BY <2>2, <2>3, <3>1, <3>2, SeqEqual
      <3> QED BY <2>2, <2>5, <3>3
    <2> QED BY <2>4, <2>5
  <1> QED BY <1>1, <1>2

\* Appending to the second of two sequences.
LEMMA AppendLast ==
    ASSUME NEW b \in Seq(Int), NEW e \in Seq(Int), NEW n \in Int
    PROVE  b \o Append(e, n) = (b \o e) \o <<n>>
  <1>1. Append(e, n) = e \o <<n>>
    BY AppendIsConcat
  <1>2. <<n>> \in Seq(Int)
    OBVIOUS
  <1>3. b \o (e \o <<n>>) = (b \o e) \o <<n>>
    BY <1>2, ConcatAssociative
  <1> QED BY <1>1, <1>3, Zenon

\* What one unit adds to the text.
LEMMA OutOf ==
    ASSUME NEW url, NEW p \in Nat
    PROVE  /\ TemplateOut(url, p + 1)
                 = IF InToken(url, p)
                   THEN IF IsMark(url, p + 1)
                        THEN IF TokenAt(url, p) = <<>> THEN <<p + 1>>
                             ELSE Expand(TokenAt(url, p))
                        ELSE <<>>
                   ELSE IF IsMark(url, p + 1) THEN <<>> ELSE <<p + 1>>
           /\ TemplateOut(url, p + 1) \in Seq(Int)
  <1> DEFINE l == LastMark(url, p)
             t == TokenAt(url, p)
  <1>0. (p + 1) - 1 = p
    OBVIOUS
  <1>1. InToken(url, p) /\ IsMark(url, p + 1) =>
           TemplateOut(url, p + 1) = IF l = p THEN <<p + 1>> ELSE Expand(t)
    <2> SUFFICES ASSUME InToken(url, p), File[url][p + 1] = "%"
                 PROVE  TemplateOut(url, p + 1) = IF l = p THEN <<p + 1>> ELSE Expand(t)
      BY DEF IsMark
    <2>1. t = [i \in 1 .. MinNat(TokenMax - 1, p - l) |-> l + i]
      BY DEF TokenAt
    <2> HIDE DEF t
    <2>2. TemplateOut(url, p + 1)
             = LET name == [i \in 1 .. MinNat(TokenMax - 1, p - l) |-> l + i]
               IN  IF l = p THEN <<p + 1>> ELSE Expand(name)
      BY <1>0, Zenon DEF TemplateOut
    <2> QED BY <2>1, <2>2, Zenon
  <1>2. ~(InToken(url, p) /\ IsMark(url, p + 1)) =>
           TemplateOut(url, p + 1)
              = IF InToken(url, p) \/ IsMark(url, p + 1) THEN <<>> ELSE <<p + 1>>
    BY <1>0 DEF TemplateOut, IsMark
  <1>3. InToken(url, p) => /\ l = p <=> t = <<>>
                           /\ Expand(t) \in Seq(Int)
    <2> SUFFICES ASSUME InToken(url, p) PROVE (l = p <=> t = <<>>) /\ Expand(t) \in Seq(Int)
      OBVIOUS
    <2>1. l \in 1 .. p /\ t \in Seq(Nat) /\ Len(t) = MinNat(TokenMax - 1, p - l)
      BY MarkStep, TokenType
    <2> HIDE DEF l, t
    <2>2. l = p <=> Len(t) = 0
      BY <2>1, HttpdAssumption DEF MinNat
    <2>3. Len(t) = 0 <=> t = <<>>
      BY <2>1, EmptySeq
    <2>4. Expand(t) \in Seq(Int)
      BY <2>1 DEF Expand
    <2> QED BY <2>2, <2>3, <2>4
  <1> HIDE DEF l, t
  <1>4. <<p + 1>> \in Seq(Int) /\ <<>> \in Seq(Int)
    OBVIOUS
  <1>5. t = TokenAt(url, p)
    BY DEF t
  <1> QED BY <1>1, <1>2, <1>3, <1>4, <1>5

\* Texts are sequences, and they grow.
LEMMA TextType ==
    ASSUME NEW url, NEW from \in Nat, NEW n \in Nat
    PROVE  TemplateText(url, from, from + n) \in Seq(Int)
  <1> DEFINE G == {i \in 0 .. n : TemplateText(url, from, from + i) \in Seq(Int)}
  <1>1. 0 \in G
    <2>1. from + 0 = from /\ from <= from /\ <<>> \in Seq(Int)
      OBVIOUS
    <2>2. TemplateText(url, from, from) = <<>>
      BY <2>1, TextStep
    <2> QED BY <2>1, <2>2
  <1>2. ASSUME NEW i \in 1 .. n, i - 1 \in G PROVE i \in G
    <2>1. /\ from + (i - 1) \in Nat /\ from <= from + (i - 1)
          /\ (from + (i - 1)) + 1 = from + i
      OBVIOUS
    <2>2. TemplateText(url, from, from + i)
             = TemplateText(url, from, from + (i - 1)) \o TemplateOut(url, from + i)
      BY <2>1, TextStep
    <2>3. TemplateOut(url, from + i) \in Seq(Int)
      BY <2>1, OutOf
    <2>4. TemplateText(url, from, from + (i - 1)) \in Seq(Int)
      BY <1>2
    <2>5. TemplateText(url, from, from + i) \in Seq(Int)
      <3> DEFINE s == TemplateText(url, from, from + (i - 1))
                 o == TemplateOut(url, from + i)
      <3>1. s \in Seq(Int) /\ o \in Seq(Int)
        BY <2>3, <2>4
      <3> HIDE DEF s, o
      <3>2. s \o o \in Seq(Int)
        BY <3>1
      <3> QED BY <2>2, <3>2 DEF s, o
    <2> QED BY <2>5
  <1> HIDE DEF G
  <1>3. n \in G
    BY <1>1, <1>2, UpTo
  <1> QED BY <1>3 DEF G

\* The same for the end of the text.
LEMMA TextSeq ==
    ASSUME NEW url, NEW from \in Nat, NEW to \in Nat, from <= to
    PROVE  TemplateText(url, from, to) \in Seq(Int)
  <1>1. to - from \in Nat /\ from + (to - from) = to
    OBVIOUS
  <1>2. TemplateText(url, from, from + (to - from)) \in Seq(Int)
    BY <1>1, TextType
  <1> QED BY <1>1, <1>2

\* What has been taken up of a block after unit p: a is the state of the
\* loop, "buff" and "e" together are the text.
Taken(a, url, from, p) ==
    /\ DOMAIN a = {"buff", "e", "t"} /\ a.buff \in Seq(Int) /\ a.e \in Seq(Int)
    /\ a.t = TokenAt(url, p)
    /\ InToken(url, p) => a.e = <<>>
    /\ a.buff \o a.e = TemplateText(url, from, p)

\* A mark behind text, and the second of two marks in a row.
LEMMA UnitMarks ==
    ASSUME NEW a, NEW p
    PROVE  /\ a.t = NULL => TemplateUnit("%", a, p)
                               = [a EXCEPT !.buff = Added(@, a.e), !.e = <<>>, !.t = <<>>]
           /\ a.t = <<>> /\ a.t # NULL => TemplateUnit("%", a, p)
                               = [a EXCEPT !.buff = Added(@, <<p>>), !.t = NULL]
  <1>1. PICK t : t = a.t
    OBVIOUS
  <1>2. PICK none : none = <<>>
    OBVIOUS
  <1>3. NULL # none
    BY <1>2, HttpdAssumption, EmptySeq
  <1>4. /\ t = NULL => TemplateUnit("%", a, p)
                         = [a EXCEPT !.buff = Added(@, a.e), !.e = none, !.t = none]
        /\ t = none => TemplateUnit("%", a, p)
                         = [a EXCEPT !.buff = Added(@, <<p>>), !.t = NULL]
    BY <1>1, <1>2, <1>3 DEF TemplateUnit
  <1> QED BY <1>1, <1>2, <1>4, Zenon

\* The loop takes up the next unit, and drops nothing if the text fits.
LEMMA UnitText ==
    ASSUME NEW url, NEW from \in Nat, NEW p \in Nat, from <= p,
           NEW a, Taken(a, url, from, p),
           Len(TemplateText(url, from, p + 1)) <= SendBuffLen
    PROVE  Taken(TemplateUnit(File[url][p + 1], a, p + 1), url, from, p + 1)
  <1> DEFINE text == TemplateText(url, from, p)
             more == TemplateOut(url, p + 1)
             x == File[url][p + 1]
             b == TemplateUnit(x, a, p + 1)
             buff == a.buff
             e == a.e
             t == TokenAt(url, p)
             token == InToken(url, p)
  <1>1. /\ TemplateText(url, from, p + 1) = text \o more
        /\ text \in Seq(Int) /\ more \in Seq(Int)
    BY TextStep, OutOf, TextSeq
  <1>2. Len(text) <= SendBuffLen /\ Len(text) + Len(more) <= SendBuffLen
    <2>1. Len(text \o more) = Len(text) + Len(more) /\ Len(more) \in Nat /\ Len(text) \in Nat
      BY <1>1
    <2>2. Len(text \o more) <= SendBuffLen
      BY <1>1
    <2> HIDE DEF text, more
    <2> QED BY <2>1, <2>2, HttpdAssumption
  <1>3. /\ DOMAIN a = {"buff", "e", "t"} /\ buff \in Seq(Int) /\ e \in Seq(Int)
        /\ a.t = t /\ (token => e = <<>>) /\ buff \o e = text
    BY DEF Taken
  <1>4. t = NULL <=> ~token
    BY TokenType
  <1>5. token => buff = text
    BY <1>3, ConcatEmptySeq
  <1>6. Len(buff) + Len(e) = Len(text)
    BY <1>3, ConcatProperties
  <1>7. p + 1 \in Nat
    OBVIOUS
  <1>8. NULL # <<>>
    BY HttpdAssumption, EmptySeq
  <1>9. CASE ~token /\ ~IsMark(url, p + 1)
    <2>1. b = [a EXCEPT !.e = Append(@, p + 1)]
      BY <1>3, <1>4, <1>9 DEF TemplateUnit, IsMark
    <2>2. DOMAIN b = {"buff", "e", "t"} /\ b.buff = buff /\ b.e = Append(e, p + 1) /\ b.t = t
      BY <1>3, <2>1
    <2>3. more = <<p + 1>>
      BY <1>9, OutOf
    <2>4. TokenAt(url, p + 1) = NULL /\ ~InToken(url, p + 1)
      BY <1>4, <1>9, TokenGrows, TokenToggles
    <2> HIDE DEF b, text, more, buff, e, t
    <2>5. Append(e, p + 1) \in Seq(Int)
      BY <1>3
    <2>6. buff \o Append(e, p + 1) = text \o more
      <3>1. buff \in Seq(Int) /\ e \in Seq(Int) /\ p + 1 \in Int /\ buff \o e = text
        BY <1>3
      <3>2. buff \o Append(e, p + 1) = (buff \o e) \o <<p + 1>>
        BY <3>1, AppendLast
      <3> QED BY <2>3, <3>1, <3>2, Zenon
    <2>7. Taken(b, url, from, p + 1)
      BY <1>1, <1>3, <1>4, <1>9, <2>2, <2>4, <2>5, <2>6 DEF Taken, text, more
    <2> QED BY <2>7 DEF b
  <1>10. CASE ~token /\ IsMark(url, p + 1)
    <2>1. b = [a EXCEPT !.buff = Added(@, e), !.e = <<>>, !.t = <<>>]
      <3>1. x = "%" /\ a.t = NULL
        BY <1>3, <1>4, <1>10 DEF IsMark
      <3> QED BY <3>1, UnitMarks
    <2>2. Added(buff, e) = text
      <3>1. buff \in Seq(Int) /\ e \in Seq(Int) /\ Len(buff) + Len(e) <= SendBuffLen
        BY <1>2, <1>3, <1>6
      <3>2. Added(buff, e) = buff \o e
        BY <3>1, AddedFits
      <3> QED BY <1>3, <3>2, Zenon
    <2>3. more = <<>>
      BY <1>10, OutOf
    <2>4. TokenAt(url, p + 1) = <<>>
      BY <1>10, TokenMark
    <2>5. text \o <<>> = text /\ <<>> \in Seq(Int)
      BY <1>1, ConcatEmptySeq
    <2>6. /\ DOMAIN b = {"buff", "e", "t"} /\ b.buff = text /\ b.e = <<>> /\ b.t = <<>>
      BY <1>3, <2>1, <2>2
    <2>7. TemplateText(url, from, p + 1) = text
      BY <1>1, <2>3, <2>5
    <2> HIDE DEF b, text
    <2> QED BY <1>1, <2>4, <2>5, <2>6, <2>7 DEF Taken, b, x
  <1>11. CASE token /\ IsMark(url, p + 1)
    <2>1. b = [a EXCEPT !.buff = Added(@, more), !.t = NULL]
      <3>1. more = IF t = <<>> THEN <<p + 1>> ELSE Expand(t)
        BY <1>11, OutOf
      <3>2. x = "%" /\ t # NULL
        BY <1>4, <1>11 DEF IsMark
      <3> HIDE DEF x, t, more
      <3>3. CASE t = <<>>
        <4>1. a.t = <<>> /\ a.t # NULL
          BY <1>3, <1>8, <3>3
        <4>2. TemplateUnit("%", a, p + 1) = [a EXCEPT !.buff = Added(@, <<p + 1>>), !.t = NULL]
          BY <4>1, UnitMarks
        <4>3. more = <<p + 1>>
          BY <3>1, <3>3
        <4> QED BY <3>2, <4>2, <4>3, Zenon
      <3>4. CASE t # <<>>
        BY <1>3, <3>1, <3>2, <3>4 DEF TemplateUnit
      <3> QED BY <3>3, <3>4
    <2>2. Added(buff, more) = text \o more
      <3>1. buff = text /\ text \in Seq(Int) /\ more \in Seq(Int)
            /\ Len(text) + Len(more) <= SendBuffLen
        BY <1>1, <1>2, <1>5, <1>11
      <3>2. Added(text, more) = text \o more
        BY <3>1, AddedFits
      <3> QED BY <3>1, <3>2, Zenon
    <2>3. TokenAt(url, p + 1) = NULL
      BY <1>11, TokenMark
    <2>4. /\ DOMAIN b = {"buff", "e", "t"} /\ b.buff = text \o more /\ b.e = <<>>
          /\ b.t = NULL
      BY <1>3, <1>11, <2>1, <2>2
    <2>5. PICK u \in Seq(Int) : u = text \o more /\ TemplateText(url, from, p + 1) = u
      <3>1. text \o more \in Seq(Int)
        BY <1>1, ConcatProperties
      <3> QED BY <1>1, <3>1, Zenon
    <2>6. u \o <<>> = u /\ <<>> \in Seq(Int)
      BY ConcatEmptySeq
    <2> HIDE DEF b, text, more
    <2> QED BY <2>3, <2>4, <2>5, <2>6 DEF Taken, b, x
  <1>12. CASE token /\ ~IsMark(url, p + 1)
    <2>1. b = IF Len(t) < TokenMax - 1 THEN [a EXCEPT !.t = Append(@, p + 1)] ELSE a
      <3>1. x # "%" /\ t # NULL
        BY <1>4, <1>12 DEF IsMark
      <3> HIDE DEF x, t
      <3> QED BY <1>3, <3>1 DEF TemplateUnit
    <2>2. more = <<>>
      BY <1>12, OutOf
    <2>3. /\ TokenAt(url, p + 1) = IF Len(t) < TokenMax - 1 THEN Append(t, p + 1) ELSE t
          /\ InToken(url, p + 1)
      BY <1>4, <1>12, TokenGrows, TokenToggles
    <2>4. /\ DOMAIN b = {"buff", "e", "t"} /\ b.buff = buff /\ b.e = <<>>
          /\ b.t = TokenAt(url, p + 1)
      BY <1>3, <1>12, <2>1, <2>3
    <2>5. TemplateText(url, from, p + 1) = text
      BY <1>1, <2>2, ConcatEmptySeq
    <2>6. buff \o <<>> = text /\ <<>> \in Seq(Int)
      BY <1>1, <1>5, <1>12, ConcatEmptySeq
    <2> HIDE DEF b, text, buff
    <2> QED BY <1>3, <2>4, <2>5, <2>6 DEF Taken, b, x
  <1> QED BY <1>9, <1>10, <1>11, <1>12

\* Three sequences in a row.
LEMMA ThreeSeqs ==
    ASSUME NEW s \in Seq(Int), NEW t \in Seq(Int), NEW u \in Seq(Int)
    PROVE  (s \o t) \o u = s \o (t \o u)
  BY ConcatAssociative

\* Two texts in a row are one.
LEMMA TextConcat ==
    ASSUME NEW url, NEW a \in Nat, NEW b \in Nat, NEW c \in Nat, a <= b, b <= c
    PROVE  /\ TemplateText(url, a, c) = TemplateText(url, a, b) \o TemplateText(url, b, c)
           /\ Len(TemplateText(url, a, b)) <= Len(TemplateText(url, a, c))
  <1> DEFINE T(m, n) == TemplateText(url, m, n)
             G == {i \in 0 .. c - b : T(a, b + i) = T(a, b) \o T(b, b + i)}
  <1>1. T(a, b) \in Seq(Int) /\ T(b, c) \in Seq(Int)
    BY TextSeq
  <1>2. 0 \in G
    <2>1. T(b, b) = <<>>
      BY TextStep
    <2>2. T(a, b) \o <<>> = T(a, b)
      BY <1>1, ConcatEmptySeq
    <2>3. b + 0 = b /\ 0 \in 0 .. c - b
      OBVIOUS
    <2> QED BY <2>1, <2>2, <2>3
  <1>3. ASSUME NEW i \in 1 .. c - b, i - 1 \in G PROVE i \in G
    <2>1. PICK n \in Nat : n = b + (i - 1)
      OBVIOUS
    <2>2. a <= n /\ b <= n /\ n + 1 = b + i
      BY <2>1
    <2>3. T(a, n + 1) = T(a, n) \o TemplateOut(url, n + 1)
      BY <2>2, TextStep
    <2>4. T(b, n + 1) = T(b, n) \o TemplateOut(url, n + 1)
      BY <2>2, TextStep
    <2>5. T(a, n) = T(a, b) \o T(b, n)
      BY <1>3, <2>1
    <2>6. T(b, n) \in Seq(Int) /\ TemplateOut(url, n + 1) \in Seq(Int)
      BY <2>2, TextSeq, OutOf
    <2>7. (T(a, b) \o T(b, n)) \o TemplateOut(url, n + 1)
             = T(a, b) \o (T(b, n) \o TemplateOut(url, n + 1))
      <3>a. PICK s, t, u : s = T(a, b) /\ t = T(b, n) /\ u = TemplateOut(url, n + 1)
        OBVIOUS
      <3>1. s \in Seq(Int) /\ t \in Seq(Int) /\ u \in Seq(Int)
        BY <1>1, <2>6, <3>a
      <3>2. (s \o t) \o u = s \o (t \o u)
        BY <3>1, ThreeSeqs
      <3> QED BY <3>a, <3>2, Zenon
    <2>8. T(a, n + 1) = T(a, b) \o T(b, n + 1)
      BY <2>3, <2>4, <2>5, <2>7, Zenon
    <2>9. i \in 0 .. c - b /\ T(a, b + i) = T(a, b) \o T(b, b + i)
      <3> HIDE DEF T
      <3> QED BY <2>2, <2>8
    <2> QED BY <2>9
  <1> HIDE DEF G
  <1>4. c - b \in Nat /\ b + (c - b) = c
    OBVIOUS
  <1>5. c - b \in G
    BY <1>2, <1>3, <1>4, UpTo
  <1>6. T(a, c) = T(a, b) \o T(b, c)
    BY <1>4, <1>5 DEF G
  <1>7. Len(T(a, b)) <= Len(T(a, c))
    <2> DEFINE x == T(a, b)
               y == T(b, c)
    <2>1. x \in Seq(Int) /\ y \in Seq(Int) /\ T(a, c) = x \o y
      BY <1>1, <1>6
    <2> HIDE DEF x, y
    <2>2. Len(x \o y) = Len(x) + Len(y) /\ Len(x) \in Nat /\ Len(y) \in Nat
      BY <2>1
    <2>3. Len(x) <= Len(x \o y)
      BY <2>2
    <2> QED BY <2>1, <2>3, Zenon DEF x
  <1> QED BY <1>6, <1>7

\* A block is a sequence of positions that follow each other.
LEMMA BlockOf ==
    ASSUME NEW f, f.url \in DOMAIN File, f.pos \in 0 .. Len(File[f.url])
    PROVE  /\ Block(f) \in Seq(Nat)
           /\ Len(Block(f)) = MinNat(MaxPost, Len(File[f.url]) - f.pos)
           /\ Len(Block(f)) \in Nat /\ f.pos + Len(Block(f)) <= Len(File[f.url])
           /\ Len(Block(f)) <= MaxPost
           /\ Len(Block(f)) # MaxPost => f.pos + Len(Block(f)) = Len(File[f.url])
           /\ \A i \in 1 .. Len(Block(f)) : Block(f)[i] = f.pos + i
  <1> DEFINE n == Len(File[f.url])
             p == f.pos
             k == MinNat(MaxPost, n - p)
  <1>1. n \in Nat /\ p \in Nat /\ p <= n
    <2>1. File[f.url] \in Seq(Range(File[f.url]))
      BY HttpdAssumption
    <2>2. n \in Nat
      BY <2>1
    <2> QED BY <2>2
  <1>2. MaxPost \in Nat \ {0}
    BY HttpdAssumption
  <1>3. Block(f) = [i \in 1 .. k |-> p + i]
    BY DEF Block
  <1> HIDE DEF n, p
  <1>4. /\ k \in Nat /\ p + k <= n /\ k <= MaxPost /\ (k # MaxPost => p + k = n)
    BY <1>1, <1>2 DEF MinNat
  <1> HIDE DEF k
  <1>5. /\ [i \in 1 .. k |-> p + i] \in Seq(Nat)
        /\ Len([i \in 1 .. k |-> p + i]) = k
    BY <1>1, <1>4
  <1> QED BY <1>3, <1>4, <1>5 DEF k, n, p

\* The states of the loop over a block.
Loop(f, block, base, n, F) ==
    F = [i \in 0 .. n |-> IF i = 0 THEN base
                          ELSE TemplateUnit(File[f.url][block[i]], F[i - 1], block[i])]

\* There are such states.
LEMMA LoopExists ==
    ASSUME NEW f, NEW block, NEW base, NEW n \in Nat
    PROVE  \E F : Loop(f, block, base, n, F)
  <1> DEFINE Unit(i, a) == TemplateUnit(File[f.url][block[i]], a, block[i])
             G == {m \in 0 .. n : \E F : Loop(f, block, base, m, F)}
  <1>1. 0 \in G
    <2>1. Loop(f, block, base, 0, [i \in {0} |-> base])
      BY DEF Loop
    <2> QED BY <2>1
  <1>2. ASSUME NEW m \in 1 .. n, m - 1 \in G
        PROVE  m \in G
    <2>1. PICK F : Loop(f, block, base, m - 1, F)
      BY <1>2
    <2> DEFINE H == [i \in 0 .. m |-> IF i = m THEN Unit(m, F[m - 1]) ELSE F[i]]
    <2>2. /\ m # 0 /\ \A i \in 0 .. m : i # m => i \in 0 .. m - 1
          /\ \A i \in 0 .. m : i # 0 => i - 1 \in 0 .. m /\ i - 1 # m
      OBVIOUS
    <2>3. ASSUME NEW i \in 0 .. m
          PROVE  H[i] = IF i = 0 THEN base ELSE Unit(i, H[i - 1])
      <3>1. CASE i = m
        <4>1. H[i] = Unit(i, F[i - 1])
          BY <3>1
        <4>2. i # 0 /\ H[i - 1] = F[i - 1]
          BY <2>2, <3>1
        <4> QED BY <4>1, <4>2
      <3>2. CASE i # m
        <4>1. H[i] = F[i] /\ (i # 0 => H[i - 1] = F[i - 1])
          BY <2>2, <3>2
        <4>2. F[i] = IF i = 0 THEN base ELSE Unit(i, F[i - 1])
          BY <2>1, <2>2, <3>2 DEF Loop
        <4> QED BY <4>1, <4>2
      <3> QED BY <3>1, <3>2
    <2>4. Loop(f, block, base, m, H)
      <3>1. \A i \in 0 .. m : H[i] = IF i = 0 THEN base ELSE Unit(i, H[i - 1])
        BY <2>3
      <3>2. H = [i \in 0 .. m |-> H[i]]
        OBVIOUS
      <3> HIDE DEF H
      <3> QED BY <3>1, <3>2 DEF Loop
    <2> QED BY <2>4
  <1> HIDE DEF G
  <1>3. n \in G
    BY <1>1, <1>2, UpTo
  <1> QED BY <1>3 DEF G

\* The loop over a block makes the text of the block, if it fits.
LEMMA LoopText ==
    ASSUME NEW f, f.url \in DOMAIN File, f.pos \in 0 .. Len(File[f.url]),
           f.token = TokenAt(f.url, f.pos),
           Len(TemplateText(f.url, f.pos, f.pos + Len(Block(f)))) <= SendBuffLen
    PROVE  Taken(TemplateBlock(f, Block(f), <<>>, f.token), f.url, f.pos,
                 f.pos + Len(Block(f)))
  <1> DEFINE url == f.url
             p == f.pos
             block == Block(f)
             n == Len(block)
             base == [buff |-> <<>>, e |-> <<>>, t |-> f.token]
             C == CHOOSE F : Loop(f, block, base, n, F)
  <1>1. n \in Nat /\ p \in Nat /\ \A i \in 1 .. n : block[i] = p + i
    BY BlockOf
  <1>2. TemplateBlock(f, block, <<>>, f.token) = C[n]
    BY DEF TemplateBlock, Loop
  <1>3. Loop(f, block, base, n, C)
    <2> HIDE DEF n, base, block
    <2>1. \E F : Loop(f, block, base, n, F)
      BY <1>1, LoopExists
    <2> QED BY <2>1, Zenon
  <1> HIDE DEF C
  <1> DEFINE G == {i \in 0 .. n : Taken(C[i], url, p, p + i)}
  <1>4. 0 \in G
    <2>1. C[0] = base
      BY <1>1, <1>3 DEF Loop
    <2>2. TemplateText(url, p, p) = <<>> /\ p + 0 = p
      BY <1>1, TextStep
    <2>3. Taken(base, url, p, p)
      <3>1. /\ DOMAIN base = {"buff", "e", "t"} /\ base.buff = <<>> /\ base.e = <<>>
            /\ base.t = TokenAt(url, p)
        OBVIOUS
      <3>2. <<>> \in Seq(Int) /\ <<>> \o <<>> = <<>>
        OBVIOUS
      <3> HIDE DEF base
      <3> QED BY <2>2, <3>1, <3>2 DEF Taken
    <2> QED BY <1>1, <2>1, <2>2, <2>3
  <1>5. ASSUME NEW i \in 1 .. n, i - 1 \in G PROVE i \in G
    <2>1. PICK m \in Nat : m = p + (i - 1)
      BY <1>1
    <2>2. p <= m /\ m + 1 = p + i /\ m + 1 <= p + n /\ i \in 0 .. n /\ m + 1 \in Nat
          /\ p <= m + 1 /\ p + n \in Nat
      BY <1>1, <2>1
    <2>3. C[i] = TemplateUnit(File[url][m + 1], C[i - 1], m + 1)
      <3>1. C[i] = TemplateUnit(File[url][block[i]], C[i - 1], block[i])
        <4>1. i \in 0 .. n /\ i # 0
          BY <1>1
        <4> HIDE DEF n, block, url, base
        <4>2. C[i] = IF i = 0 THEN base ELSE TemplateUnit(File[f.url][block[i]], C[i - 1], block[i])
          BY <1>3, <4>1 DEF Loop
        <4> QED BY <4>1, <4>2 DEF url
      <3>2. block[i] = m + 1
        BY <1>1, <2>2
      <3> QED BY <3>1, <3>2, Zenon
    <2>4. Taken(C[i - 1], url, p, m)
      BY <1>5, <2>1
    <2>5. Len(TemplateText(url, p, m + 1)) <= SendBuffLen
      <3>1. Len(TemplateText(url, p, m + 1)) <= Len(TemplateText(url, p, p + n))
        BY <1>1, <2>2, TextConcat
      <3>2. Len(TemplateText(url, p, m + 1)) \in Nat /\ Len(TemplateText(url, p, p + n)) \in Nat
        <4>1. TemplateText(url, p, m + 1) \in Seq(Int) /\ TemplateText(url, p, p + n) \in Seq(Int)
          BY <1>1, <2>2, TextSeq
        <4> QED BY <4>1, LenProperties
      <3> QED BY <3>1, <3>2, HttpdAssumption
    <2>6. Taken(C[i], url, p, m + 1)
      BY <1>1, <2>2, <2>3, <2>4, <2>5, UnitText
    <2> QED BY <2>2, <2>6
  <1> HIDE DEF G, n
  <1>6. n \in G
    <2>1. \A i \in 0 .. n : i \in G
      BY <1>1, <1>4, <1>5, UpTo
    <2> QED BY <1>1, <2>1
  <1> QED BY <1>2, <1>6 DEF G, n

-----------------------------------------------------------------------------
(* What the CGI functions send *)

\* What goes to the stack directly is not flushed again.
LEMMA SendsDirectly ==
    ASSUME NEW v, Shape(v), v.buff = <<>>
    PROVE  httpdFlushSendBuffer(v) = v
  BY DEF httpdFlushSendBuffer

-----------------------------------------------------------------------------
(* Positions *)

\* What is sent of a file so far, and the block that follows.
Following(n, k) == [i \in 1 .. k |-> n + i]

\* One after the other they are the positions up to the later end.
LEMMA PositionsFollow ==
    ASSUME NEW n \in Nat, NEW k \in Nat
    PROVE  /\ Positions(n) \in Seq(Int) /\ Following(n, k) \in Seq(Int)
           /\ Positions(n) \o Following(n, k) = Positions(n + k)
           /\ Positions(0) = <<>>
  <1>1. /\ Positions(n) \in Seq(Int) /\ Following(n, k) \in Seq(Int)
        /\ Len(Positions(n)) = n /\ Len(Following(n, k)) = k
        /\ Positions(n + k) \in Seq(Int) /\ Len(Positions(n + k)) = n + k
        /\ \A i \in 1 .. n : Positions(n)[i] = i
        /\ \A i \in 1 .. k : Following(n, k)[i] = n + i
        /\ \A i \in 1 .. n + k : Positions(n + k)[i] = i
    BY DEF Positions, Following
  <1>2. PICK s \in Seq(Int), t \in Seq(Int), u \in Seq(Int) :
           s = Positions(n) /\ t = Following(n, k) /\ u = Positions(n + k)
    BY <1>1
  <1>3. /\ Len(s) = n /\ Len(t) = k /\ Len(u) = n + k
        /\ \A i \in 1 .. n : s[i] = i
        /\ \A i \in 1 .. k : t[i] = n + i
        /\ \A i \in 1 .. n + k : u[i] = i
    BY <1>1, <1>2
  <1>4. s \o t \in Seq(Int) /\ Len(s \o t) = n + k
    BY <1>3, ConcatProperties
  <1>5. ASSUME NEW i \in 1 .. Len(u) PROVE (s \o t)[i] = u[i]
    <2>1. CASE i \in 1 .. n
      BY <1>3, <2>1
    <2>2. CASE i \in n + 1 .. n + k
      <3>1. i - n \in 1 .. k /\ ~(i <= n)
        BY <2>2
      <3>2. (s \o t)[i] = t[i - n]
        BY <1>3, <2>2, <3>1
      <3> QED BY <1>3, <3>1, <3>2
    <2> QED BY <1>3, <2>1, <2>2
  <1>6. s \o t = u
    BY <1>3, <1>4, <1>5, SeqEqual
  <1>7. Positions(0) = <<>>
    <2>1. Positions(0) \in Seq(Int) /\ Len(Positions(0)) = 0
      BY DEF Positions
    <2> QED BY <2>1, EmptySeq
  <1> QED BY <1>1, <1>2, <1>6, <1>7, Zenon

\* Behind the head.
LEMMA HeadFollows ==
    ASSUME NEW s \in Seq(Int), NEW t \in Seq(Int)
    PROVE  Headed(s) \o t = Headed(s \o t) /\ Headed(s) \in Seq(Int)
  <1>a. PICK u : u = << 200 >>
    OBVIOUS
  <1>1. u \in Seq(Int)
    BY <1>a
  <1>2. (u \o s) \o t = u \o (s \o t) /\ u \o s \in Seq(Int)
    BY <1>1, ThreeSeqs
  <1>3. \A x : Headed(x) = u \o x
    BY <1>a, Zenon DEF Headed
  <1> QED BY <1>2, <1>3, Zenon

\* A sequence is a prefix of what it is continued to.
LEMMA Continued ==
    ASSUME NEW s \in Seq(Int), NEW t \in Seq(Int)
    PROVE  IsPrefix(s, s \o t) /\ IsPrefix(s, s) /\ IsPrefix(<<>>, s)
  <1>1. s \o t \in Seq(Int) /\ Len(s \o t) = Len(s) + Len(t) /\ Len(s) \in Nat /\ Len(t) \in Nat
    BY ConcatProperties
  <1>2. PICK u \in Seq(Int) : u = s \o t
    BY <1>1
  <1>3. Len(s) <= Len(u)
    BY <1>1, <1>2
  <1>4. \A i \in 1 .. Len(s) : u[i] = s[i]
    BY <1>2
  <1>5. SubSeq(s, 1, Len(s)) = s
    BY SubSeqFull
  <1>6. SubSeq(u, 1, Len(s)) = s
    <2>1. SubSeq(u, 1, Len(s)) = [i \in 1 .. Len(s) |-> u[i]]
      BY <1>1, <1>3
    <2>2. s = [i \in 1 .. Len(s) |-> s[i]]
      OBVIOUS
    <2> QED BY <1>4, <2>1, <2>2
  <1>7. IsPrefix(s, u)
    BY <1>3, <1>5, <1>6 DEF IsPrefix
  <1>8. IsPrefix(s, s)
    BY <1>1 DEF IsPrefix
  <1>9. IsPrefix(<<>>, s)
    <2>1. <<>> \in Seq(Int) /\ Len(<<>>) = 0
      OBVIOUS
    <2>2. SubSeq(<<>>, 1, 0) = <<>> /\ SubSeq(s, 1, 0) = <<>>
      BY <2>1, SubSeqEmpty
    <2> QED BY <1>1, <2>1, <2>2 DEF IsPrefix
  <1> QED BY <1>2, <1>7, <1>8, <1>9

-----------------------------------------------------------------------------
(* The calls of a CGI function *)

\* The next multiple.
LEMMA NextMultiple ==
    ASSUME NEW m \in Nat \ {0}, NEW x \in Nat, NEW y \in Nat, x % m = 0, y % m = 0, x < y
    PROVE  x + m <= y /\ (x + m) % m = 0
  <1>1. PICK p \in Nat : x = p * m
    BY Multiple
  <1>2. PICK q \in Nat : y = q * m
    BY Multiple
  <1>3. p < q
    <2> SUFFICES ASSUME q <= p PROVE FALSE
      BY <1>1, <1>2
    <2>1. PICK k \in Nat : p = q + k
      <3>1. p - q \in Nat /\ p = q + (p - q)
        OBVIOUS
      <3> QED BY <3>1
    <2>2. x = q * m + k * m /\ k * m \in Nat
      BY <1>1, <2>1
    <2> QED BY <1>2, <2>2
  <1>4. PICK k \in Nat : q = (p + 1) + k
    <2>1. q - (p + 1) \in Nat /\ q = (p + 1) + (q - (p + 1))
      BY <1>3
    <2> QED BY <2>1
  <1>5. y = p * m + m + k * m /\ k * m \in Nat /\ (p + 1) * m = p * m + m
    BY <1>2, <1>4
  <1>6. x + m <= y /\ x + m = (p + 1) * m
    BY <1>1, <1>5
  <1>7. ((p + 1) * m) % m = 0
    BY NoRemainder
  <1> QED BY <1>6, <1>7

\* The block of a template that begins at a multiple of the block size is
\* one of those that Fits looks at.
LEMMA BlockFits ==
    ASSUME NEW q \in Fits, Handler[q] = "cgiEspFsTemplate",
           NEW f, f.url = q.url, f.url \in DOMAIN File,
           f.pos \in 0 .. Len(File[f.url]), f.pos % MaxPost = 0
    PROVE  Len(TemplateText(f.url, f.pos, f.pos + Len(Block(f)))) <= SendBuffLen
  <1> DEFINE n == Len(File[f.url])
             p == f.pos
             M == MaxPost
             l == Len(Block(f))
  <1>1. n \in Nat /\ p \in Nat /\ p <= n /\ l = MinNat(M, n - p) /\ M \in Nat \ {0}
    <2>1. File[f.url] \in Seq(Range(File[f.url])) /\ M \in Nat \ {0}
      BY HttpdAssumption
    <2>2. n \in Nat
      BY <2>1
    <2> QED BY <2>1, <2>2, BlockOf
  <1>2. p % M = 0 /\ p = f.pos
    OBVIOUS
  <1>3. Blocks(q.url) = 0 .. n \div M
    BY DEF Blocks
  <1>4. \A b \in Blocks(q.url) : Len(BlockText(q.url, b)) <= SendBuffLen
    BY DEF Fits
  <1>5. \A b : BlockText(q.url, b) = TemplateText(f.url, b * M, MinNat((b + 1) * M, n))
    BY DEF BlockText
  <1> HIDE DEF n, p, M, l
  <1>6. PICK b \in Nat : p = b * M
    BY <1>1, <1>2, Multiple
  <1>7. (b + 1) * M = p + M /\ MinNat((b + 1) * M, n) = p + l
    <2>1. (b + 1) * M = b * M + M
      BY <1>1
    <2> QED BY <1>1, <1>6, <2>1 DEF MinNat
  <1>8. b \in 0 .. n \div M
    <2>1. PICK k \in Nat : k = n \div M
      BY <1>1
    <2>2. n < (k + 1) * M
      <3>1. \A x \in Nat, m \in Nat \ {0} :
               x = m * (x \div m) + (x % m) /\ x % m \in 0 .. m - 1
        OBVIOUS
      <3>2. PICK r \in 0 .. M - 1 : n = M * k + r
        <4>1. n \in Nat /\ M \in Nat \ {0}
          BY <1>1
        <4>2. n = M * (n \div M) + (n % M) /\ n % M \in 0 .. M - 1
          BY <3>1, <4>1
        <4>3. PICK r : r = n % M
          OBVIOUS
        <4> QED BY <2>1, <4>2, <4>3, Zenon
      <3>3. (k + 1) * M = M * k + M /\ M * k \in Nat
        BY <1>1
      <3> QED BY <1>1, <3>2, <3>3
    <2>3. b <= k
      <3> SUFFICES ASSUME k + 1 <= b PROVE FALSE
        OBVIOUS
      <3>1. PICK j \in Nat : b = (k + 1) + j
        <4>1. b - (k + 1) \in Nat /\ b = (k + 1) + (b - (k + 1))
          OBVIOUS
        <4> QED BY <4>1
      <3>2. b * M = (k + 1) * M + j * M /\ j * M \in Nat /\ (k + 1) * M \in Nat
        BY <1>1, <3>1
      <3> QED BY <1>1, <1>6, <2>2, <3>2
    <2> QED BY <2>1, <2>3
  <1>9. Len(TemplateText(f.url, b * M, MinNat((b + 1) * M, n))) <= SendBuffLen
    BY <1>3, <1>4, <1>5, <1>8
  <1>10. Len(TemplateText(f.url, p, p + l)) <= SendBuffLen
    BY <1>6, <1>7, <1>9
  <1> QED BY <1>10 DEF p, l

WholeFile(q) == Headed(Positions(Len(File[q.url])))
WholeText(q) == Headed(TemplateText(q.url, 0, Len(File[q.url])))
WholeFlash == Headed(Positions(ReadLen))

\* What the handler of a request is allowed to answer.
LEMMA AnswersOf ==
    ASSUME NEW q \in AllRequests
    PROVE  /\ Handler[q] = "none" => Answers[q] = {Code(404)}
           /\ Handler[q] = "cgiRedirect" => Answers[q] = {Code(302)}
           /\ Handler[q] = "cmd" => Answers[q] = {Code(CommandReply)}
           /\ Handler[q] = "authBasic" => Answers[q] = {Code(401)}
           /\ Handler[q] = "cgiEspFsHook" =>
                 /\ q.url \notin Gzip \/ q.gzip # "other" => WholeFile(q) \in Answers[q]
                 /\ q.url \in Gzip /\ q.gzip # "gzip" => Code(501) \in Answers[q]
           /\ Handler[q] = "cgiEspFsTemplate" => Answers[q] = {WholeText(q)}
           /\ Handler[q] = "cgiReadFlash" => Answers[q] = {WholeFlash}
           /\ Handler[q] = "cgiUploadFirmware" => Answers[q] =
                 IF q.image /\ q.len <= FwSize THEN {Code(200)} ELSE {Code(400)}
  <1> DEFINE K == Handler[q]
             whole == WholeFile(q)
             text == WholeText(q)
             flashed == WholeFlash
             loaded == IF q.image /\ q.len <= FwSize THEN {Code(200)} ELSE {Code(400)}
  <1>1. FileAnswers(q) = CASE q.url \notin Gzip \/ q.gzip = "gzip" -> {whole}
                           [] q.url \in Gzip /\ q.gzip = "other" -> {Code(501)}
                           [] OTHER -> {Code(501), whole}
    BY Zenon DEF FileAnswers, WholeFile, Headed, Code
  <1>2. Answers[q] = CASE K = "none" -> {Code(404)}
                       [] K = "cgiRedirect" -> {Code(302)}
                       [] K = "cmd" -> {Code(CommandReply)}
                       [] K = "authBasic" -> {Code(401)}
                       [] K = "cgiEspFsHook" -> FileAnswers(q)
                       [] K = "cgiEspFsTemplate" -> {text}
                       [] K = "cgiReadFlash" -> {flashed}
                       [] K = "cgiUploadFirmware" -> loaded
    BY Zenon DEF Answers, WholeText, WholeFlash, Headed, Code
  <1> HIDE DEF K, whole, text, flashed, loaded
  <1>3. /\ q.url \notin Gzip \/ q.gzip # "other" => whole \in FileAnswers(q)
        /\ q.url \in Gzip /\ q.gzip # "gzip" => Code(501) \in FileAnswers(q)
    <2> PICK bad : bad = Code(501)
      OBVIOUS
    <2> QED BY <1>1
  <1>4. /\ K = "none" => Answers[q] = {Code(404)}
        /\ K = "cgiRedirect" => Answers[q] = {Code(302)}
        /\ K = "cmd" => Answers[q] = {Code(CommandReply)}
        /\ K = "authBasic" => Answers[q] = {Code(401)}
        /\ K = "cgiEspFsHook" => Answers[q] = FileAnswers(q)
        /\ K = "cgiEspFsTemplate" => Answers[q] = {text}
        /\ K = "cgiReadFlash" => Answers[q] = {flashed}
        /\ K = "cgiUploadFirmware" => Answers[q] = loaded
    BY <1>2
  <1>5. K = "cgiEspFsHook" =>
           /\ q.url \notin Gzip \/ q.gzip # "other" => whole \in Answers[q]
           /\ q.url \in Gzip /\ q.gzip # "gzip" => Code(501) \in Answers[q]
    <2> SUFFICES ASSUME K = "cgiEspFsHook"
                 PROVE  /\ q.url \notin Gzip \/ q.gzip # "other" => whole \in Answers[q]
                        /\ q.url \in Gzip /\ q.gzip # "gzip" => Code(501) \in Answers[q]
      OBVIOUS
    <2>1. Answers[q] = FileAnswers(q)
      BY <1>4
    <2> QED BY <1>3, <2>1, Zenon
  <1> QED BY <1>4, <1>5, Zenon DEF K, whole, text, flashed, loaded

\* A call that is the last one has sent all of an answer; another leaves
\* the slot with a part of it.
Finishes(x, q, rep) == x.r = "DONE" /\ rep \o x.out \in Answers[q]
Continues(x, q, rep) == x.r = "MORE" /\ Part(x.d, x.files, q, rep \o x.out)
Answering(x, q, rep) == Shape(x) /\ (Finishes(x, q, rep) \/ Continues(x, q, rep))

\* The two ways of it, with what has been sent afterwards.
LEMMA AnswersMore ==
    ASSUME NEW x, NEW q, NEW rep, NEW more, Shape(x), more = rep \o x.out
    PROVE  /\ x.r = "DONE" /\ more \in Answers[q] => Answering(x, q, rep)
           /\ x.r = "MORE" /\ Part(x.d, x.files, q, more) => Answering(x, q, rep)
  BY DEF Answering, Finishes, Continues

\* What handlers may answer, one by one.
LEMMA CodesOf ==
    ASSUME NEW q \in AllRequests
    PROVE  /\ Handler[q] = "none" => Code(404) \in Answers[q]
           /\ Handler[q] = "cgiRedirect" => Code(302) \in Answers[q]
           /\ Handler[q] = "cmd" => Code(CommandReply) \in Answers[q]
           /\ Handler[q] = "authBasic" => Code(401) \in Answers[q]
           /\ Handler[q] = "cgiEspFsHook" /\ q.url \in Gzip /\ q.gzip # "gzip" =>
                 Code(501) \in Answers[q]
           /\ Handler[q] = "cgiEspFsHook" /\ (q.url \in Gzip => q.gzip # "other") =>
                 WholeFile(q) \in Answers[q]
           /\ Handler[q] = "cgiEspFsTemplate" => WholeText(q) \in Answers[q]
           /\ Handler[q] = "cgiReadFlash" => WholeFlash \in Answers[q]
  <1>1. Handler[q] = "none" => Code(404) \in Answers[q]
    <2>1. Handler[q] = "none" => Answers[q] = {Code(404)}
      BY AnswersOf
    <2> QED BY <2>1
  <1>2. Handler[q] = "cgiRedirect" => Code(302) \in Answers[q]
    <2>1. Handler[q] = "cgiRedirect" => Answers[q] = {Code(302)}
      BY AnswersOf
    <2> QED BY <2>1
  <1>3. Handler[q] = "cmd" => Code(CommandReply) \in Answers[q]
    <2>1. Handler[q] = "cmd" => Answers[q] = {Code(CommandReply)}
      BY AnswersOf
    <2> QED BY <2>1
  <1>4. Handler[q] = "authBasic" => Code(401) \in Answers[q]
    <2>1. Handler[q] = "authBasic" => Answers[q] = {Code(401)}
      BY AnswersOf
    <2> QED BY <2>1
  <1>5. Handler[q] = "cgiEspFsHook" /\ q.url \in Gzip /\ q.gzip # "gzip" =>
           Code(501) \in Answers[q]
    BY AnswersOf
  <1>6. Handler[q] = "cgiEspFsHook" /\ (q.url \in Gzip => q.gzip # "other") =>
           WholeFile(q) \in Answers[q]
    BY AnswersOf
  <1>7. Handler[q] = "cgiEspFsTemplate" => WholeText(q) \in Answers[q]
    <2>1. Handler[q] = "cgiEspFsTemplate" => Answers[q] = {WholeText(q)}
      BY AnswersOf
    <2> QED BY <2>1
  <1>8. Handler[q] = "cgiReadFlash" => WholeFlash \in Answers[q]
    <2>1. Handler[q] = "cgiReadFlash" => Answers[q] = {WholeFlash}
      BY AnswersOf
    <2> QED BY <2>1
  <1> QED BY <1>1, <1>2, <1>3, <1>4, <1>5, <1>6, <1>7, <1>8, Zenon

\* The answers that are whole files.
LEMMA WholeAnswers ==
    ASSUME NEW q \in AllRequests
    PROVE  /\ Handler[q] = "cgiEspFsHook" /\ (q.url \in Gzip => q.gzip # "other") =>
                 WholeFile(q) \in Answers[q]
           /\ Handler[q] = "cgiEspFsTemplate" => WholeText(q) \in Answers[q]
           /\ Handler[q] = "cgiReadFlash" => WholeFlash \in Answers[q]
  BY CodesOf

\* What a CGI function is given.
LEMMA EmptyWorld ==
    ASSUME NEW d \in SlotType
    PROVE  Empty(World(d)) /\ World(d).d = d /\ World(d).files = files
  <1>1. DOMAIN d = SlotFields
    BY DEF SlotType, SlotFields
  <1> QED BY <1>1, WorldShape DEF World, Empty

\* espFsOpen opens a file at its beginning.
LEMMA OpensAtStart ==
    ASSUME NEW w, Empty(w), DOMAIN w.files = Handles, CanOpen(w), w.d.conn # NULL
    PROVE  LET o == espFsOpen(w)
               h == o.d.cgiData
           IN  /\ Empty(o) /\ o.d.cgi = w.d.cgi /\ h \in Handles
               /\ o.files[h].owner # NULL /\ o.files[h].url = w.d.url
               /\ o.files[h].pos = 0 /\ o.files[h].token = NULL
  <1> DEFINE h == NewHandle(w)
             o == espFsOpen(w)
             e == [w EXCEPT !.d.cgiData = h]
             g == [owner |-> w.d.conn, url |-> w.d.url, pos |-> 0, token |-> NULL,
                   streamed |-> w.d.len > MaxPost]
  <1>1. h \in Handles
    <2>1. FreeHandles(w) \in SUBSET Nat /\ FreeHandles(w) # {}
      BY DEF FreeHandles, CanOpen, Handles
    <2>2. h \in FreeHandles(w)
      BY <2>1, Least DEF NewHandle
    <2> QED BY <2>2 DEF FreeHandles
  <1> HIDE DEF h
  <1>2. /\ g.owner # NULL /\ g.url = w.d.url /\ g.pos = 0 /\ g.token = NULL
    OBVIOUS
  <1> HIDE DEF g
  <1>3. o = [e EXCEPT !.files[h] = g]
    BY DEF espFsOpen, h, g
  <1>4. /\ Empty(e) /\ e.d.cgi = w.d.cgi /\ e.d.cgiData = h /\ DOMAIN e.files = Handles
    BY DEF Empty, Shape, WorldFields, SlotFields
  <1> HIDE DEF e, o
  <1>5. /\ Empty(o) /\ o.d = e.d /\ o.files[h] = g
    BY <1>1, <1>3, <1>4 DEF Empty, Shape, WorldFields
  <1>6. o.d.cgi = w.d.cgi /\ o.d.cgiData = h
    BY <1>4, <1>5
  <1> QED BY <1>1, <1>2, <1>5, <1>6 DEF o

\* The head of the answer, and a file that is open at its beginning.
LEMMA OpensAndSends ==
    ASSUME NEW w, Empty(w), DOMAIN w.files = Handles, CanOpen(w), w.d.conn # NULL,
           NEW x, x = httpdFlushSendBuffer(Return(httpdSend(espFsOpen(w), << 200 >>), "MORE"))
    PROVE  /\ Shape(x) /\ x.r = "MORE" /\ x.out = << 200 >>
           /\ x.d.cgi = w.d.cgi /\ x.d.cgiData \in Handles
           /\ x.files[x.d.cgiData].owner # NULL /\ x.files[x.d.cgiData].url = w.d.url
           /\ x.files[x.d.cgiData].pos = 0 /\ x.files[x.d.cgiData].token = NULL
  <1>1. PICK o : o = espFsOpen(w)
    OBVIOUS
  <1>2. /\ Empty(o) /\ o.d.cgi = w.d.cgi /\ o.d.cgiData \in Handles
        /\ o.files[o.d.cgiData].owner # NULL /\ o.files[o.d.cgiData].url = w.d.url
        /\ o.files[o.d.cgiData].pos = 0 /\ o.files[o.d.cgiData].token = NULL
    BY <1>1, OpensAtStart
  <1>3. 200 \in Int
    OBVIOUS
  <1>4. x = httpdFlushSendBuffer(Return(httpdSend(o, << 200 >>), "MORE"))
    BY <1>1
  <1>5. Shape(x) /\ x.d = o.d /\ x.files = o.files /\ x.out = << 200 >> /\ x.r = "MORE"
    BY <1>2, <1>3, <1>4, SendsAnswer
  <1> QED BY <1>2, <1>5

\* At its beginning nothing but the head has been sent.
LEMMA PartBegins ==
    /\ << 200 >> = Headed(Positions(0))
    /\ \A url : /\ << 200 >> = Headed(TemplateText(url, 0, 0))
                /\ TokenAt(url, 0) = NULL
    /\ 0 % MaxPost = 0 /\ 0 < ReadLen
  <1>1. << 200 >> \in Seq(Int) /\ << 200 >> \o <<>> = << 200 >>
    OBVIOUS
  <1>2. Positions(0) = <<>>
    <2>1. 0 \in Nat
      OBVIOUS
    <2> QED BY <2>1, PositionsFollow
  <1>3. ASSUME NEW url PROVE TemplateText(url, 0, 0) = <<>> /\ TokenAt(url, 0) = NULL
    <2>1. 0 \in Nat /\ 0 <= 0
      OBVIOUS
    <2> QED BY <2>1, TextStep, TokenType
  <1>4. 0 % MaxPost = 0 /\ 0 < ReadLen
    BY HttpdAssumption
  <1> QED BY <1>1, <1>2, <1>3, <1>4, Zenon DEF Headed

\* The entry that takes a request calls its CGI function for the first time.
LEMMA FirstCall ==
    ASSUME FilesOK(files), \E h \in Handles : files[h].owner = NULL,
           NEW d \in SlotType, d.conn # NULL, d.cgiData = NULL,
           NEW q \in AllRequests, q \in RequestType, req[d.conn] = q, d.url = q.url,
           NEW i, d.cgi = BuiltInUrls[i].cgi, ~Passes(i, q),
           d.cgi = Handler[q], Handler[q] \in Cgis \ {"cgiUploadFirmware"}, NEW stale,
           NEW x, x = httpdFlushSendBuffer(Cgi(World(d), stale))
    PROVE  Answering(x, q, <<>>)
  <1> DEFINE w == World(d)
  <1> PICK v : v = Cgi(w, stale)
    OBVIOUS
  <1>0. x = httpdFlushSendBuffer(v)
    OBVIOUS
  <1>c. PICK p : p = Handler[q]
    OBVIOUS
  <1>e. /\ p = "cgiRedirect" => Code(302) \in Answers[q]
        /\ p = "cmd" => Code(CommandReply) \in Answers[q]
        /\ p = "authBasic" => Code(401) \in Answers[q]
        /\ p = "cgiEspFsHook" /\ q.url \in Gzip /\ q.gzip # "gzip" => Code(501) \in Answers[q]
    <2>1. /\ Handler[q] = "cgiRedirect" => Code(302) \in Answers[q]
          /\ Handler[q] = "cmd" => Code(CommandReply) \in Answers[q]
          /\ Handler[q] = "authBasic" => Code(401) \in Answers[q]
          /\ Handler[q] = "cgiEspFsHook" /\ q.url \in Gzip /\ q.gzip # "gzip" =>
                Code(501) \in Answers[q]
      BY CodesOf
    <2> QED BY <1>c, <2>1
  <1>f. d.cgi = p
    BY <1>c
  <1>1. Empty(w) /\ w.d = d /\ w.files = files
    BY EmptyWorld
  <1> HIDE DEF w
  <1>2. ASSUME NEW code \in Int, v = Return(httpdSend(w, <<code>>), "DONE"),
               Code(code) \in Answers[q]
        PROVE  Answering(x, q, <<>>)
    <2>1. Shape(x) /\ x.out = Code(code) /\ x.r = "DONE"
      BY <1>0, <1>1, <1>2, SendsAnswer DEF Code
    <2>2. <<>> \o Code(code) = Code(code)
      BY DEF Code
    <2> QED BY <1>2, <2>1, <2>2 DEF Answering, Finishes
  <1>3. 302 \in Int /\ CommandReply \in Int /\ 401 \in Int /\ 501 \in Int
    BY DEF CommandReply
  <1>4. CASE d.cgi = "cgiRedirect"
    <2>1. v = Return(httpdSend(w, <<302>>), "DONE")
      BY <1>1, <1>4 DEF Cgi, OneShot
    <2>2. Code(302) \in Answers[q]
      BY <1>4, <1>e, <1>f
    <2> QED BY <1>2, <1>3, <2>1, <2>2
  <1>5. CASE d.cgi = "cmd"
    <2>1. v = Return(httpdSend(w, <<CommandReply>>), "DONE")
      BY <1>1, <1>5 DEF Cgi, OneShot
    <2>2. Code(CommandReply) \in Answers[q]
      BY <1>5, <1>e, <1>f
    <2> QED BY <1>2, <1>3, <2>1, <2>2
  <1>6. CASE d.cgi = "authBasic"
    <2>1. ~req[d.conn].auth
      BY <1>6 DEF Passes
    <2>2. v = Return(httpdSend(w, <<401>>), "DONE")
      <3>1. v = authBasic(w)
        BY <1>1, <1>6 DEF Cgi
      <3> QED BY <1>1, <2>1, <3>1 DEF authBasic
    <2>3. Code(401) \in Answers[q]
      BY <1>6, <1>e, <1>f
    <2> QED BY <1>2, <1>3, <2>2, <2>3
  <1>7. d.cgi \in FileCgis => CanOpen(w) /\ DOMAIN w.files = Handles
    BY <1>1 DEF Passes, CanOpen, FreeHandles, FilesOK
  <1>8. ASSUME d.cgi \in FileCgis, v = Return(httpdSend(espFsOpen(w), << 200 >>), "MORE"),
               d.cgi = "cgiEspFsHook" => (q.url \in Gzip => q.gzip # "other")
        PROVE  Answering(x, q, <<>>)
    <2> DEFINE h == x.d.cgiData
    <2>1. /\ Shape(x) /\ x.r = "MORE" /\ x.out = << 200 >>
          /\ x.d.cgi = d.cgi /\ h \in Handles
          /\ x.files[h].owner # NULL /\ x.files[h].url = d.url
          /\ x.files[h].pos = 0 /\ x.files[h].token = NULL
      BY <1>0, <1>1, <1>7, <1>8, OpensAndSends
    <2>2. PICK m : m = << 200 >>
      OBVIOUS
    <2>b. <<>> \o m = m /\ x.out = m
      BY <2>1, <2>2
    <2>a. Shape(x) /\ x.r = "MORE" /\ m = <<>> \o x.out
      BY <2>1, <2>b
    <2>3. CASE d.cgi = "cgiEspFsHook"
      <3>1. HookPart(x.files[h], q, m)
        BY <1>8, <2>1, <2>2, <2>3, PartBegins DEF HookPart
      <3>2. Part(x.d, x.files, q, m)
        BY <2>1, <2>3, <3>1 DEF Part
      <3> QED BY <2>a, <3>2, AnswersMore, Zenon
    <2>4. CASE d.cgi = "cgiEspFsTemplate"
      <3>1. TemplatePart(x.files[h], q, m)
        BY <2>1, <2>2, PartBegins DEF TemplatePart
      <3>2. Part(x.d, x.files, q, m)
        BY <2>1, <2>4, <3>1 DEF Part
      <3> QED BY <2>a, <3>2, AnswersMore, Zenon
    <2> QED BY <1>8, <2>3, <2>4 DEF FileCgis
  <1>9. CASE d.cgi = "cgiEspFsHook"
    <2>1. v = HookOpen(w, stale)
      <3>1. v = cgiEspFsHook(w, stale)
        BY <1>1, <1>9 DEF Cgi
      <3> QED BY <1>1, <3>1 DEF cgiEspFsHook
    <2>2. CanOpen(w) /\ d.cgi \in FileCgis
      BY <1>7, <1>9 DEF FileCgis
    <2>3. AcceptsGzip(w, stale) <=> q.gzip = "gzip" \/ (q.gzip = "none" /\ stale)
      BY <1>1 DEF AcceptsGzip
    <2>4. CASE q.url \in Gzip /\ ~AcceptsGzip(w, stale)
      <3>1. v = Return(httpdSend(w, << 501 >>), "DONE")
        BY <1>1, <2>1, <2>2, <2>4 DEF HookOpen
      <3>2. q.url \in Gzip /\ q.gzip # "gzip"
        BY <2>3, <2>4
      <3>3. Code(501) \in Answers[q]
        BY <1>9, <1>e, <1>f, <3>2
      <3> QED BY <1>2, <1>3, <3>1, <3>3
    <2>5. CASE ~(q.url \in Gzip /\ ~AcceptsGzip(w, stale))
      <3>1. v = Return(httpdSend(espFsOpen(w), << 200 >>), "MORE")
        BY <1>1, <2>1, <2>2, <2>5 DEF HookOpen
      <3>2. q.url \in Gzip => q.gzip # "other"
        BY <2>3, <2>5
      <3> QED BY <1>8, <2>2, <3>1, <3>2
    <2> QED BY <2>4, <2>5
  <1>10. CASE d.cgi = "cgiEspFsTemplate"
    <2>1. CanOpen(w) /\ d.cgi \in FileCgis /\ d.url \notin Gzip
      BY <1>7, <1>10 DEF FileCgis, Passes
    <2>2. v = Return(httpdSend(espFsOpen(w), << 200 >>), "MORE")
      <3>1. v = cgiEspFsTemplate(w)
        BY <1>1, <1>10 DEF Cgi
      <3> QED BY <1>1, <2>1, <3>1 DEF cgiEspFsTemplate
    <2> QED BY <1>8, <1>10, <2>1, <2>2
  <1>11. CASE d.cgi = "cgiReadFlash"
    <2> DEFINE u == [w EXCEPT !.d.cgiData = 0]
    <2>1. v = Return(httpdSend(u, << 200 >>), "MORE")
      <3>1. v = cgiReadFlash(w)
        BY <1>1, <1>11 DEF Cgi
      <3> QED BY <1>1, <3>1 DEF cgiReadFlash
    <2>2. Empty(u) /\ u.d.cgi = d.cgi /\ u.d.cgiData = 0
      BY <1>1 DEF Empty, Shape, WorldFields, SlotFields
    <2>3. 200 \in Int /\ 0 \in Nat
      OBVIOUS
    <2> HIDE DEF u
    <2>4. Shape(x) /\ x.r = "MORE" /\ x.out = << 200 >> /\ x.d = u.d
      BY <1>0, <2>1, <2>2, <2>3, SendsAnswer
    <2>m. PICK m : m = << 200 >>
      OBVIOUS
    <2>5. FlashPart(x.d.cgiData, m)
      BY <2>2, <2>3, <2>4, <2>m, PartBegins DEF FlashPart
    <2>6. Part(x.d, x.files, q, m)
      BY <1>11, <2>2, <2>4, <2>5 DEF Part
    <2>7. <<>> \o m = m /\ x.out = m
      BY <2>4, <2>m
    <2>8. Shape(x) /\ x.r = "MORE" /\ m = <<>> \o x.out
      BY <2>4, <2>7
    <2> QED BY <2>6, <2>8, AnswersMore
  <1> QED BY <1>4, <1>5, <1>6, <1>9, <1>10, <1>11 DEF Cgis

\* A CGI function that reads on and is done or not.
Reads(w, x, out, done) ==
    /\ Shape(x) /\ x.out = out /\ x.d.cgi = w.d.cgi /\ x.r = (IF done THEN "DONE" ELSE "MORE")

\* Returning, with the file closed behind the last block.
LEMMA Returns ==
    ASSUME NEW w, Shape(w), DOMAIN w.files = Handles, w.d.cgiData \in Handles,
           NEW done \in BOOLEAN, NEW v,
           v = (IF done THEN Return(espFsClose(w), "DONE") ELSE Return(w, "MORE"))
    PROVE  /\ Shape(v) /\ v.d = w.d /\ v.out = w.out /\ v.buff = w.buff /\ v.sends = w.sends
           /\ v.r = (IF done THEN "DONE" ELSE "MORE")
           /\ ~done => v.files = w.files
  <1>1. CASE done
    <2>1. w.d.cgiData # NULL
      BY HttpdAssumption DEF Handles
    <2> DEFINE y == [w EXCEPT !.files[w.d.cgiData] = Closed]
    <2>2. v = Return(y, "DONE")
      BY <1>1, <2>1 DEF espFsClose
    <2>3. /\ Shape(y) /\ y.d = w.d /\ y.out = w.out /\ y.buff = w.buff /\ y.sends = w.sends
      BY DEF Shape, WorldFields
    <2> HIDE DEF y
    <2> QED BY <1>1, <2>2, <2>3 DEF Return, Shape, WorldFields
  <1>2. CASE ~done
    BY <1>2 DEF Return, Shape, WorldFields
  <1> QED BY <1>1, <1>2

\* HookRead sends the next block, and all of the file has been read when
\* that is not a full one.
LEMMA HookReads ==
    ASSUME NEW w, Empty(w), FilesOK(w.files), NEW h \in Handles, h = w.d.cgiData,
           NEW f, f = w.files[h], f.owner # NULL,
           NEW x, x = httpdFlushSendBuffer(HookRead(w))
    PROVE  LET done == Len(Block(f)) # MaxPost
           IN  /\ Shape(x) /\ x.out = Block(f) /\ x.d = w.d
               /\ x.r = (IF done THEN "DONE" ELSE "MORE")
               /\ ~done => x.files[h] = [f EXCEPT !.pos = @ + Len(Block(f))]
  <1> DEFINE block == Block(f)
             k == Len(block)
             done == k # MaxPost
             g == [f EXCEPT !.pos = @ + k]
             read == [w EXCEPT !.files[h] = g]
             sent == IF block = <<>> THEN read ELSE espconn_sent(read, block)
             v == IF done THEN Return(espFsClose(sent), "DONE") ELSE Return(sent, "MORE")
  <1>1. DOMAIN w.files = Handles /\ FileOK(f)
    BY DEF FilesOK
  <1>2. block \in Seq(Nat)
    BY <1>1, BlockOf DEF FileOK
  <1>3. HookRead(w) = v
    <2>1. [w EXCEPT !.files[h].pos = @ + k] = read
      OBVIOUS
    <2> QED BY <2>1 DEF HookRead
  <1> HIDE DEF g
  <1>4. /\ Shape(read) /\ read.d = w.d /\ read.buff = <<>> /\ read.out = <<>>
        /\ read.files[h] = g /\ DOMAIN read.files = Handles
    BY <1>1 DEF Empty, Shape, WorldFields
  <1> HIDE DEF block, read
  <1>5. /\ Shape(sent) /\ sent.d = w.d /\ sent.buff = <<>> /\ sent.out = block
        /\ sent.files = read.files
    <2>1. CASE block = <<>>
      BY <1>4, <2>1
    <2>2. CASE block # <<>>
      <3>1. <<>> \o block = block
        BY <1>2
      <3>2. sent = espconn_sent(read, block)
        BY <2>2
      <3> HIDE DEF sent
      <3> QED BY <1>4, <3>1, <3>2 DEF espconn_sent, Shape, WorldFields
    <2> QED BY <2>1, <2>2
  <1>6. done \in BOOLEAN
    OBVIOUS
  <1> HIDE DEF sent, done
  <1>7. /\ Shape(v) /\ v.d = w.d /\ v.out = block /\ v.buff = <<>>
        /\ v.r = (IF done THEN "DONE" ELSE "MORE") /\ (~done => v.files[h] = g)
    BY <1>4, <1>5, <1>6, Returns
  <1> HIDE DEF v
  <1>8. x = v
    BY <1>3, <1>7, SendsDirectly
  <1> QED BY <1>7, <1>8, Zenon DEF block, done, k, g

\* What the loop over the next block of a template leaves, and what is sent.
Looped(f) == TemplateBlock(f, Block(f), <<>>, f.token)
TextSent(f) == Added(Looped(f).buff, Looped(f).e)

TextRead(w, h, f, x) ==
    LET done == Len(Block(f)) # MaxPost
    IN  /\ Shape(x) /\ x.out = TextSent(f) /\ x.d = w.d
        /\ x.r = (IF done THEN "DONE" ELSE "MORE")
        /\ ~done => x.files[h] = [f EXCEPT !.pos = @ + Len(Block(f)), !.token = Looped(f).t]

\* TemplateRead puts what the block says into the send buffer.
LEMMA TemplateReads ==
    ASSUME NEW w, Empty(w), FilesOK(w.files), NEW h \in Handles, h = w.d.cgiData,
           NEW f, f = w.files[h], f.owner # NULL,
           TextSent(f) \in Seq(Int),
           NEW x, x = httpdFlushSendBuffer(TemplateRead(w))
    PROVE  TextRead(w, h, f, x)
  <1>a. PICK a : a = Looped(f)
    OBVIOUS
  <1>b. PICK text : text = Added(a.buff, a.e)
    OBVIOUS
  <1>c. text = TextSent(f) /\ text \in Seq(Int)
    BY <1>a, <1>b DEF TextSent
  <1> DEFINE k == Len(Block(f))
             done == k # MaxPost
             g == [f EXCEPT !.pos = @ + k, !.token = a.t]
             F == w.files[w.d.cgiData]
             A == Parsed(F, Block(F), w.buff)
             sent == [w EXCEPT !.buff = Added(A.buff, A.e),
                               !.files[w.d.cgiData].pos = @ + Len(Block(F)),
                               !.files[w.d.cgiData].token = A.t]
             u == IF Len(Block(F)) # MaxPost THEN Return(espFsClose(sent), "DONE")
                  ELSE Return(sent, "MORE")
             v == IF done THEN Return(espFsClose(sent), "DONE") ELSE Return(sent, "MORE")
  <1>1. DOMAIN w.files = Handles /\ FileOK(f)
    BY DEF FilesOK
  <1>2. F = f /\ Parsed(f, Block(f), w.buff) = a
    BY <1>a DEF Parsed, Empty, Looped
  <1>3. TemplateRead(w) = v
    <2>1. TemplateRead(w) = u
      BY DEF TemplateRead
    <2> HIDE DEF sent, F
    <2> QED BY <1>2, <2>1
  <1>5. A = a /\ Len(Block(F)) = k
    <2> HIDE DEF F
    <2> QED BY <1>2
  <1>4. /\ Shape(sent) /\ sent.d = w.d /\ sent.buff = text /\ sent.out = <<>>
        /\ sent.sends = 0 /\ sent.files[h] = g /\ DOMAIN sent.files = Handles
    <2> PICK p : p = f.pos + k
      OBVIOUS
    <2> PICK t : t = a.t
      OBVIOUS
    <2> DEFINE y == [w EXCEPT !.buff = text]
               z == [y EXCEPT !.files[h].pos = p]
               s == [z EXCEPT !.files[h].token = t]
               f1 == [f EXCEPT !.pos = p]
    <2>1. sent = s
      <3> HIDE DEF F, A
      <3> QED BY <1>5, <1>b
    <2>2. /\ Shape(y) /\ y.d = w.d /\ y.buff = text /\ y.out = <<>> /\ y.sends = 0
          /\ y.files = w.files
      BY DEF Empty, Shape, WorldFields
    <2> HIDE DEF y
    <2>3. /\ Shape(z) /\ z.d = w.d /\ z.buff = text /\ z.out = <<>> /\ z.sends = 0
          /\ z.files[h] = f1 /\ DOMAIN z.files = Handles
      BY <1>1, <2>2 DEF Shape, WorldFields
    <2> HIDE DEF z
    <2>4. /\ Shape(s) /\ s.d = w.d /\ s.buff = text /\ s.out = <<>> /\ s.sends = 0
          /\ s.files[h] = [f1 EXCEPT !.token = t] /\ DOMAIN s.files = Handles
      BY <2>3 DEF Shape, WorldFields
    <2>5. [f1 EXCEPT !.token = t] = g
      OBVIOUS
    <2> HIDE DEF s, f1, sent, g
    <2> QED BY <2>1, <2>4, <2>5, Zenon
  <1> HIDE DEF g
  <1>6. done \in BOOLEAN
    OBVIOUS
  <1> HIDE DEF sent, done, u
  <1>7. /\ Shape(v) /\ v.d = w.d /\ v.out = <<>> /\ v.buff = text /\ v.sends = 0
        /\ v.r = (IF done THEN "DONE" ELSE "MORE") /\ (~done => v.files[h] = g)
    BY <1>4, <1>6, Returns
  <1> HIDE DEF v
  <1>8. x.out = text /\ x.d = v.d /\ x.files = v.files /\ x.r = v.r /\ Shape(x)
    BY <1>3, <1>7, <1>c, FlushSends DEF Flushed
  <1>9. /\ Shape(x) /\ x.out = text /\ x.d = w.d
        /\ x.r = (IF done THEN "DONE" ELSE "MORE") /\ (~done => x.files[h] = g)
    BY <1>7, <1>8
  <1> QED BY <1>9, <1>a, <1>c, Zenon DEF done, k, g, TextRead

\* cgiReadFlash sends the next block of the flash.
LEMMA FlashReads ==
    ASSUME NEW w, Empty(w), w.d.conn # NULL, NEW pos \in Nat, pos = w.d.cgiData,
           NEW x, x = httpdFlushSendBuffer(cgiReadFlash(w))
    PROVE  /\ Shape(x) /\ x.out = Following(pos, MaxPost)
           /\ x.d.cgi = w.d.cgi /\ x.d.cgiData = pos + MaxPost
           /\ x.r = (IF pos + MaxPost >= ReadLen THEN "DONE" ELSE "MORE")
  <1> DEFINE block == Following(pos, MaxPost)
             more == pos + MaxPost
             y == espconn_sent(w, block)
             z == [y EXCEPT !.d.cgiData = more]
             r == IF more >= ReadLen THEN "DONE" ELSE "MORE"
  <1>1. pos # NULL
    BY HttpdAssumption
  <1>2. cgiReadFlash(w) = Return([espconn_sent(w, [i \in 1 .. MaxPost |-> pos + i])
                                     EXCEPT !.d.cgiData = pos + MaxPost],
                                 IF pos + MaxPost >= ReadLen THEN "DONE" ELSE "MORE")
    BY <1>1 DEF cgiReadFlash
  <1>3. cgiReadFlash(w) = Return(z, r)
    BY <1>2, Zenon DEF Following
  <1>4. block \in Seq(Int) /\ <<>> \o block = block
    <2>1. block \in Seq(Int)
      BY HttpdAssumption, PositionsFollow
    <2> HIDE DEF block
    <2> QED BY <2>1
  <1> HIDE DEF block, more, r
  <1>5. Shape(y) /\ y.d = w.d /\ y.buff = <<>> /\ y.out = block
    BY <1>4 DEF Empty, Shape, WorldFields, espconn_sent
  <1> HIDE DEF y
  <1>6. Shape(z) /\ z.d.cgi = w.d.cgi /\ z.d.cgiData = more /\ z.buff = <<>> /\ z.out = block
    BY <1>5 DEF Empty, Shape, WorldFields, SlotFields
  <1> HIDE DEF z
  <1> DEFINE v == Return(z, r)
  <1>7. /\ Shape(v) /\ v.d = z.d /\ v.buff = <<>> /\ v.out = block /\ v.r = r
    BY <1>6 DEF Shape, WorldFields, Return
  <1> HIDE DEF v
  <1>8. x = v
    BY <1>3, <1>7, SendsDirectly DEF v
  <1>9. Shape(x) /\ x.out = block /\ x.d.cgi = w.d.cgi /\ x.d.cgiData = more /\ x.r = r
    BY <1>6, <1>7, <1>8
  <1> QED BY <1>9, Zenon DEF block, more, r

\* A block further on, the position is at the beginning of a block again.
LEMMA BlockLater ==
    ASSUME NEW p \in Nat, p % MaxPost = 0
    PROVE  (p + MaxPost) % MaxPost = 0
  <1>1. MaxPost \in Nat \ {0}
    BY HttpdAssumption
  <1>2. PICK q \in Nat : p = q * MaxPost
    BY <1>1, Multiple
  <1>3. q + 1 \in Nat /\ (q + 1) * MaxPost = p + MaxPost
    BY <1>1, <1>2
  <1> QED BY <1>1, <1>3, NoRemainder

\* What follows a part of a file.
LEMMA HookFollows ==
    ASSUME NEW f, f.url \in DOMAIN File, f.pos \in 0 .. Len(File[f.url]), NEW q, NEW rep,
           HookPart(f, q, rep)
    PROVE  rep \o Block(f) = Headed(Positions(f.pos + Len(Block(f))))
  <1> DEFINE p == f.pos
             k == Len(Block(f))
  <1>1. /\ Block(f) \in Seq(Nat) /\ k \in Nat /\ \A i \in 1 .. k : Block(f)[i] = p + i
    BY BlockOf
  <1>2. p \in Nat
    OBVIOUS
  <1>3. Block(f) = Following(p, k)
    <2>1. k = MinNat(MaxPost, Len(File[f.url]) - p)
      BY BlockOf
    <2>2. Block(f) = Following(p, MinNat(MaxPost, Len(File[f.url]) - p))
      BY Zenon DEF Block, Following
    <2> HIDE DEF k
    <2> QED BY <2>1, <2>2, Zenon
  <1>4. rep = Headed(Positions(p))
    BY DEF HookPart
  <1> HIDE DEF p, k
  <1>5. /\ Positions(p) \in Seq(Int) /\ Following(p, k) \in Seq(Int)
        /\ Positions(p) \o Following(p, k) = Positions(p + k)
    BY <1>1, <1>2, PositionsFollow
  <1>6. Headed(Positions(p)) \o Following(p, k)
           = Headed(Positions(p) \o Following(p, k))
    BY <1>5, HeadFollows
  <1>7. rep \o Block(f) = Headed(Positions(p + k))
    BY <1>3, <1>4, <1>5, <1>6, Zenon
  <1> QED BY <1>7, Zenon DEF p, k

\* A file that is sent as it is.
LEMMA NextHook ==
    ASSUME NEW w, Empty(w), FilesOK(w.files), w.d.cgi = "cgiEspFsHook",
           NEW q \in AllRequests, Handler[q] = "cgiEspFsHook", NEW rep,
           w.d.cgiData \in Handles, HookPart(w.files[w.d.cgiData], q, rep),
           NEW x, x = httpdFlushSendBuffer(HookRead(w))
    PROVE  Answering(x, q, rep)
  <1> PICK h \in Handles : h = w.d.cgiData
    OBVIOUS
  <1> PICK f : f = w.files[h]
    OBVIOUS
  <1> DEFINE k == Len(Block(f))
             done == k # MaxPost
             more == Headed(Positions(f.pos + k))
  <1>1. HookPart(f, q, rep) /\ f.owner # NULL /\ f.url = q.url
    BY DEF HookPart
  <1>2. /\ DOMAIN f = FileFields /\ f.url \in DOMAIN File
        /\ f.pos \in 0 .. Len(File[f.url])
    BY <1>1 DEF FilesOK, FileOK
  <1>3. /\ Shape(x) /\ x.out = Block(f) /\ x.d = w.d
        /\ x.r = (IF done THEN "DONE" ELSE "MORE")
        /\ ~done => x.files[h] = [f EXCEPT !.pos = @ + k]
    BY <1>1, HookReads
  <1>4. rep \o Block(f) = more
    <2> HIDE DEF more
    <2>1. rep \o Block(f) = Headed(Positions(f.pos + k))
      BY <1>1, <1>2, HookFollows, Zenon
    <2> QED BY <2>1, Zenon DEF more
  <1>5. CASE done
    <2>1. f.pos + k = Len(File[f.url])
      BY <1>2, <1>5, BlockOf
    <2>2. more = WholeFile(q)
      BY <1>1, <2>1, Zenon DEF WholeFile
    <2>3. q.url \in Gzip => q.gzip # "other"
      BY <1>1 DEF HookPart
    <2>5. WholeFile(q) \in Answers[q]
      BY <2>3, WholeAnswers, Zenon
    <2>4. more \in Answers[q]
      <3> HIDE DEF more
      <3> QED BY <2>2, <2>5
    <2> HIDE DEF more, done
    <2> QED BY <1>3, <1>4, <1>5, <2>4, AnswersMore
  <1>6. CASE ~done
    <2> DEFINE g == [f EXCEPT !.pos = @ + k]
    <2>1. g.owner = f.owner /\ g.url = f.url /\ g.pos = f.pos + k
      BY <1>2 DEF FileFields
    <2> HIDE DEF g
    <2>4. more = Headed(Positions(g.pos))
      BY <2>1, Zenon
    <2>5. q.url \in Gzip => q.gzip # "other"
      BY <1>1, Zenon DEF HookPart
    <2> HIDE DEF more
    <2>2. HookPart(g, q, more)
      BY <1>1, <2>1, <2>4, <2>5, Zenon DEF HookPart
    <2>3. x.files[x.d.cgiData] = g /\ x.d.cgiData \in Handles /\ x.d.cgi = "cgiEspFsHook"
      BY <1>3, <1>6 DEF g
    <2> HIDE DEF done
    <2>6. Part(x.d, x.files, q, more)
      BY <2>2, <2>3 DEF Part
    <2> QED BY <1>3, <1>4, <1>6, <2>6, AnswersMore
  <1> QED BY <1>5, <1>6

\* Text that fits into the send buffer in two parts.
LEMMA AddedAll ==
    ASSUME NEW b \in Seq(Int), NEW e \in Seq(Int), NEW text, text = b \o e,
           Len(text) <= SendBuffLen
    PROVE  Added(b, e) = text
  <1>1. Len(b \o e) = Len(b) + Len(e)
    OBVIOUS
  <1>2. Len(b) + Len(e) <= SendBuffLen
    BY <1>1
  <1> QED BY <1>2, AddedFits

TextFollows(f, q, rep) ==
    /\ TextSent(f) \in Seq(Int)
    /\ rep \o TextSent(f) = Headed(TemplateText(q.url, 0, f.pos + Len(Block(f))))
    /\ Looped(f).t = TokenAt(q.url, f.pos + Len(Block(f)))

\* What a template says next: the loop over the block, and all that is sent.
LEMMA TemplateFollows ==
    ASSUME NEW f, f.url \in DOMAIN File, f.pos \in 0 .. Len(File[f.url]),
           NEW q \in Fits, Handler[q] = "cgiEspFsTemplate", NEW rep, TemplatePart(f, q, rep)
    PROVE  TextFollows(f, q, rep)
  <1>a. PICK a : a = Looped(f)
    OBVIOUS
  <1> DEFINE p == f.pos
             m == p + Len(Block(f))
             text == TemplateText(q.url, p, m)
             all == TemplateText(q.url, 0, p)
             sent == TextSent(f)
  <1>1. /\ f.url = q.url /\ f.pos % MaxPost = 0 /\ f.token = TokenAt(q.url, f.pos)
        /\ rep = Headed(all)
    BY Zenon DEF TemplatePart
  <1>2. Len(text) <= SendBuffLen
    BY <1>1, BlockFits
  <1>3. Taken(a, q.url, p, m)
    <2>1. /\ f.token = TokenAt(f.url, f.pos)
          /\ Len(TemplateText(f.url, f.pos, f.pos + Len(Block(f)))) <= SendBuffLen
      BY <1>1, <1>2, Zenon
    <2>2. Taken(TemplateBlock(f, Block(f), <<>>, f.token), f.url, f.pos,
                f.pos + Len(Block(f)))
      BY <2>1, LoopText
    <2> QED BY <1>1, <1>a, <2>2, Zenon DEF Looped
  <1>4. p \in Nat /\ m \in Nat /\ 0 \in Nat /\ 0 <= p /\ p <= m
    BY BlockOf
  <1> HIDE DEF p, m
  <1>5. /\ text \in Seq(Int) /\ all \in Seq(Int)
        /\ TemplateText(q.url, 0, m) = all \o text
    BY <1>4, TextSeq, TextConcat, Zenon
  <1>6. a.buff \in Seq(Int) /\ a.e \in Seq(Int) /\ a.t = TokenAt(q.url, m) /\ a.buff \o a.e = text
    BY <1>3 DEF Taken
  <1> HIDE DEF text, all
  <1>7. sent = text
    <2>4. Added(a.buff, a.e) = text
      BY <1>2, <1>6, AddedAll
    <2> QED BY <1>a, <2>4 DEF TextSent
  <1> HIDE DEF sent
  <1>8. Headed(all) \o text = Headed(all \o text)
    BY <1>5, HeadFollows
  <1>9. rep \o sent = Headed(TemplateText(q.url, 0, m))
    BY <1>1, <1>5, <1>7, <1>8, Zenon
  <1>10. sent \in Seq(Int)
    BY <1>5, <1>7
  <1> QED BY <1>6, <1>9, <1>10, <1>a, Zenon DEF sent, p, m, TextFollows

\* A template.
LEMMA NextTemplate ==
    ASSUME NEW w, Empty(w), FilesOK(w.files), w.d.cgi = "cgiEspFsTemplate",
           NEW q \in Fits, Handler[q] = "cgiEspFsTemplate", NEW rep,
           w.d.cgiData \in Handles, TemplatePart(w.files[w.d.cgiData], q, rep),
           NEW x, x = httpdFlushSendBuffer(TemplateRead(w))
    PROVE  Answering(x, q, rep)
  <1> PICK h \in Handles : h = w.d.cgiData
    OBVIOUS
  <1> PICK f : f = w.files[h]
    OBVIOUS
  <1> DEFINE k == Len(Block(f))
             done == k # MaxPost
             more == Headed(TemplateText(q.url, 0, f.pos + k))
  <1>1. /\ TemplatePart(f, q, rep) /\ f.owner # NULL /\ f.url = q.url /\ f.pos % MaxPost = 0
        /\ q \in AllRequests
    BY Zenon DEF TemplatePart, Fits
  <1>2. /\ DOMAIN f = FileFields /\ f.url \in DOMAIN File
        /\ f.pos \in 0 .. Len(File[f.url]) /\ f.pos \in Nat
    BY <1>1 DEF FilesOK, FileOK
  <1>4. /\ TextSent(f) \in Seq(Int) /\ rep \o TextSent(f) = more
        /\ Looped(f).t = TokenAt(q.url, f.pos + k)
    <2>1. TextFollows(f, q, rep)
      BY <1>1, <1>2, TemplateFollows, Zenon
    <2> QED BY <2>1, Zenon DEF TextFollows
  <1>3. /\ Shape(x) /\ x.out = TextSent(f) /\ x.d = w.d
        /\ x.r = (IF done THEN "DONE" ELSE "MORE")
        /\ ~done => x.files[h] = [f EXCEPT !.pos = @ + k, !.token = Looped(f).t]
    <2>1. f.owner # NULL /\ TextSent(f) \in Seq(Int)
      BY <1>1, <1>4, Zenon
    <2>2. TextRead(w, h, f, x)
      BY <2>1, TemplateReads
    <2> QED BY <2>2, Zenon DEF TextRead
  <1>5. CASE done
    <2>1. f.pos + k = Len(File[f.url])
      BY <1>2, <1>5, BlockOf
    <2>2. more = WholeText(q)
      BY <1>1, <2>1, Zenon DEF WholeText
    <2>4. WholeText(q) \in Answers[q]
      BY <1>1, WholeAnswers, Zenon
    <2>3. more \in Answers[q]
      <3> HIDE DEF more
      <3> QED BY <2>2, <2>4
    <2> HIDE DEF more, done
    <2> QED BY <1>3, <1>4, <1>5, <2>3, AnswersMore
  <1>6. CASE ~done
    <2> DEFINE g == [f EXCEPT !.pos = @ + k, !.token = Looped(f).t]
    <2>1. g.owner = f.owner /\ g.url = f.url /\ g.pos = f.pos + k /\ g.token = Looped(f).t
      BY <1>2 DEF FileFields
    <2>2. f.pos \in Nat /\ k = MaxPost
      BY <1>2, <1>6, Zenon
    <2>3. (f.pos + k) % MaxPost = 0
      BY <1>1, <2>2, BlockLater
    <2> HIDE DEF g
    <2>7. /\ g.owner # NULL /\ g.url = q.url /\ g.pos % MaxPost = 0
          /\ g.token = TokenAt(q.url, g.pos) /\ more = Headed(TemplateText(q.url, 0, g.pos))
      BY <1>1, <1>4, <2>1, <2>3, Zenon
    <2>4. TemplatePart(g, q, more)
      BY <2>7, Zenon DEF TemplatePart
    <2>5. /\ x.files[x.d.cgiData] = g /\ x.d.cgiData \in Handles
          /\ x.d.cgi = "cgiEspFsTemplate"
      BY <1>3, <1>6 DEF g
    <2> HIDE DEF more, done
    <2>6. Part(x.d, x.files, q, more)
      BY <2>4, <2>5 DEF Part
    <2>8. x.r = "MORE" /\ Shape(x) /\ rep \o x.out = more
      BY <1>3, <1>4, <1>6, Zenon
    <2> QED BY <2>6, <2>8, AnswersMore, Zenon
  <1> QED BY <1>5, <1>6

\* The flash.
LEMMA NextFlash ==
    ASSUME NEW w, Empty(w), w.d.conn # NULL, w.d.cgi = "cgiReadFlash",
           NEW q \in AllRequests, Handler[q] = "cgiReadFlash", NEW rep,
           FlashPart(w.d.cgiData, rep),
           NEW x, x = httpdFlushSendBuffer(cgiReadFlash(w))
    PROVE  Answering(x, q, rep)
  <1> PICK p : p = w.d.cgiData
    OBVIOUS
  <1> DEFINE n == p + MaxPost
             block == Following(p, MaxPost)
             more == Headed(Positions(n))
  <1>1. /\ p \in Nat /\ p % MaxPost = 0 /\ p < ReadLen /\ rep = Headed(Positions(p))
    BY DEF FlashPart
  <1>2. /\ MaxPost \in Nat \ {0} /\ ReadLen \in Nat /\ ReadLen % MaxPost = 0
    BY HttpdAssumption, FlashAssumption
  <1>3. n <= ReadLen /\ n % MaxPost = 0 /\ n \in Nat
    <2>1. p + MaxPost <= ReadLen /\ (p + MaxPost) % MaxPost = 0
      BY <1>1, <1>2, NextMultiple, Zenon
    <2>2. p + MaxPost \in Nat
      BY <1>1, <1>2
    <2> QED BY <2>1, <2>2, Zenon
  <1>4. /\ Shape(x) /\ x.out = block /\ x.d.cgi = w.d.cgi /\ x.d.cgiData = n
        /\ x.r = (IF n >= ReadLen THEN "DONE" ELSE "MORE")
    BY <1>1, FlashReads
  <1>5. rep \o block = more
    <2>1. /\ Positions(p) \in Seq(Int) /\ block \in Seq(Int)
          /\ Positions(p) \o block = Positions(n)
      BY <1>1, <1>2, PositionsFollow
    <2> HIDE DEF block, n
    <2>2. Headed(Positions(p)) \o block = Headed(Positions(p) \o block)
      BY <2>1, HeadFollows
    <2> QED BY <1>1, <2>1, <2>2, Zenon
  <1> HIDE DEF block
  <1>6. CASE n >= ReadLen
    <2>1. n = ReadLen
      BY <1>2, <1>3, <1>6
    <2>2. more = WholeFlash
      BY <2>1, Zenon DEF WholeFlash
    <2>3. more \in Answers[q]
      BY <2>2, WholeAnswers, Zenon
    <2>4. x.r = "DONE"
      BY <1>4, <1>6
    <2> HIDE DEF more
    <2> QED BY <1>4, <1>5, <2>3, <2>4, AnswersMore
  <1>7. CASE ~(n >= ReadLen)
    <2>1. FlashPart(n, more)
      BY <1>2, <1>3, <1>7 DEF FlashPart
    <2>2. Part(x.d, x.files, q, more)
      BY <1>4, <2>1 DEF Part
    <2>3. x.r = "MORE"
      BY <1>4, <1>7
    <2> HIDE DEF more
    <2> QED BY <1>4, <1>5, <2>2, <2>3, AnswersMore
  <1> QED BY <1>6, <1>7

\* A CGI function that is called again goes on with the answer.
LEMMA NextCall ==
    ASSUME FilesOK(files), NEW d \in SlotType, d.conn # NULL, NEW q \in Fits,
           d.cgi = Handler[q], NEW rep, Part(d, files, q, rep),
           NEW x, x = httpdFlushSendBuffer(Cgi(World(d), FALSE))
    PROVE  Answering(x, q, rep)
  <1> DEFINE w == World(d)
  <1>1. Empty(w) /\ w.d = d /\ w.files = files
    BY EmptyWorld
  <1>2. q \in AllRequests /\ \A h \in Handles : h # NULL
    BY HttpdAssumption DEF Fits, Handles
  <1> HIDE DEF w
  <1>3. x = httpdFlushSendBuffer(Cgi(w, FALSE))
    BY DEF w
  <1>4. CASE d.cgi = "cgiEspFsHook"
    <2>1. /\ Handler[q] = "cgiEspFsHook" /\ w.d.cgi = "cgiEspFsHook" /\ w.d.conn # NULL
          /\ w.d.cgiData \in Handles /\ HookPart(w.files[w.d.cgiData], q, rep)
      BY <1>1, <1>4 DEF Part
    <2>2. Cgi(w, FALSE) = HookRead(w)
      <3>1. Cgi(w, FALSE) = cgiEspFsHook(w, FALSE)
        BY <2>1 DEF Cgi
      <3> QED BY <1>2, <2>1, <3>1 DEF cgiEspFsHook
    <2> QED BY <1>1, <1>2, <1>3, <2>1, <2>2, NextHook
  <1>5. CASE d.cgi = "cgiEspFsTemplate"
    <2>1. /\ Handler[q] = "cgiEspFsTemplate" /\ w.d.cgi = "cgiEspFsTemplate" /\ w.d.conn # NULL
          /\ w.d.cgiData \in Handles /\ TemplatePart(w.files[w.d.cgiData], q, rep)
      BY <1>1, <1>5 DEF Part
    <2>2. Cgi(w, FALSE) = TemplateRead(w)
      <3>1. Cgi(w, FALSE) = cgiEspFsTemplate(w)
        BY <2>1 DEF Cgi
      <3> QED BY <1>2, <2>1, <3>1 DEF cgiEspFsTemplate
    <2> QED BY <1>1, <1>3, <2>1, <2>2, NextTemplate
  <1>6. CASE d.cgi = "cgiReadFlash"
    <2>1. /\ Handler[q] = "cgiReadFlash" /\ w.d.cgi = "cgiReadFlash" /\ w.d.conn # NULL
          /\ FlashPart(w.d.cgiData, rep)
      BY <1>1, <1>6 DEF Part
    <2>2. Cgi(w, FALSE) = cgiReadFlash(w)
      BY <2>1 DEF Cgi
    <2> QED BY <1>1, <1>2, <1>3, <2>1, <2>2, NextFlash
  <1> QED BY <1>4, <1>5, <1>6 DEF Part

\* More units of a file behind its head.
LEMMA LongerFile ==
    ASSUME NEW n \in Nat, NEW m \in Nat, n <= m
    PROVE  IsPrefix(Headed(Positions(n)), Headed(Positions(m)))
  <1>1. PICK k \in Nat : m = n + k
    <2>1. m - n \in Nat /\ m = n + (m - n)
      OBVIOUS
    <2> QED BY <2>1, Zenon
  <1>2. PICK s, t : s = Positions(n) /\ t = Following(n, k)
    OBVIOUS
  <1>3. s \in Seq(Int) /\ t \in Seq(Int) /\ s \o t = Positions(m)
    BY <1>1, <1>2, PositionsFollow
  <1>4. Headed(s) \o t = Headed(s \o t) /\ Headed(s) \in Seq(Int)
    BY <1>3, HeadFollows
  <1>5. IsPrefix(Headed(s), Headed(s) \o t)
    BY <1>3, <1>4, Continued
  <1> QED BY <1>2, <1>3, <1>4, <1>5, Zenon

\* A part of an answer is the beginning of one.
LEMMA PartPrefix ==
    ASSUME NEW q \in Fits, NEW d, NEW fs, FilesOK(fs), d.cgi = Handler[q], NEW rep,
           Part(d, fs, q, rep)
    PROVE  \E a \in Answers[q] : IsPrefix(rep, a)
  <1>0. q \in AllRequests
    BY DEF Fits
  <1>2. CASE d.cgi = "cgiEspFsHook" /\ d.cgiData \in Handles /\ HookPart(fs[d.cgiData], q, rep)
    <2> PICK f : f = fs[d.cgiData]
      OBVIOUS
    <2>1. /\ HookPart(f, q, rep) /\ f.owner # NULL /\ f.url = q.url
          /\ rep = Headed(Positions(f.pos)) /\ (q.url \in Gzip => q.gzip # "other")
      BY <1>2 DEF HookPart
    <2>2. f.url \in DOMAIN File /\ f.pos \in 0 .. Len(File[f.url])
      BY <1>2, <2>1 DEF FilesOK, FileOK
    <2>3. Len(File[f.url]) \in Nat /\ f.pos \in Nat /\ f.pos <= Len(File[f.url])
      BY <2>2, HttpdAssumption
    <2>4. IsPrefix(Headed(Positions(f.pos)), Headed(Positions(Len(File[f.url]))))
      BY <2>3, LongerFile
    <2>5. IsPrefix(rep, WholeFile(q))
      BY <2>1, <2>4, Zenon DEF WholeFile
    <2>6. WholeFile(q) \in Answers[q]
      BY <1>0, <1>2, <2>1, WholeAnswers, Zenon
    <2> QED BY <2>5, <2>6, Zenon
  <1>3. CASE /\ d.cgi = "cgiEspFsTemplate" /\ d.cgiData \in Handles
             /\ TemplatePart(fs[d.cgiData], q, rep)
    <2> PICK f : f = fs[d.cgiData]
      OBVIOUS
    <2>1. /\ f.owner # NULL /\ f.url = q.url /\ rep = Headed(TemplateText(q.url, 0, f.pos))
      BY <1>3 DEF TemplatePart
    <2>2. f.url \in DOMAIN File /\ f.pos \in 0 .. Len(File[f.url])
      BY <1>3, <2>1 DEF FilesOK, FileOK
    <2> DEFINE n == f.pos
               m == Len(File[f.url])
               T(a, b) == TemplateText(q.url, a, b)
    <2>3. m \in Nat /\ n \in Nat /\ n <= m /\ 0 \in Nat /\ 0 <= n
      BY <2>2, HttpdAssumption
    <2> HIDE DEF n, m
    <2>4. T(0, n) \in Seq(Int) /\ T(n, m) \in Seq(Int) /\ T(0, m) = T(0, n) \o T(n, m)
      BY <2>3, TextSeq, TextConcat, Zenon
    <2> HIDE DEF T
    <2>5. /\ Headed(T(0, n)) \o T(n, m) = Headed(T(0, n) \o T(n, m))
          /\ Headed(T(0, n)) \in Seq(Int)
      BY <2>4, HeadFollows
    <2>7. IsPrefix(Headed(T(0, n)), Headed(T(0, n)) \o T(n, m))
      BY <2>4, <2>5, Continued
    <2>8. IsPrefix(Headed(T(0, n)), Headed(T(0, m)))
      BY <2>4, <2>5, <2>7, Zenon
    <2>9. IsPrefix(rep, WholeText(q))
      BY <2>1, <2>8, Zenon DEF WholeText, T, n, m
    <2>10. WholeText(q) \in Answers[q]
      BY <1>0, <1>3, WholeAnswers, Zenon
    <2> QED BY <2>9, <2>10, Zenon
  <1>4. CASE d.cgi = "cgiReadFlash" /\ FlashPart(d.cgiData, rep)
    <2> PICK p : p = d.cgiData
      OBVIOUS
    <2>1. p \in Nat /\ p <= ReadLen /\ ReadLen \in Nat /\ rep = Headed(Positions(p))
      BY <1>4, HttpdAssumption DEF FlashPart
    <2>2. IsPrefix(Headed(Positions(p)), Headed(Positions(ReadLen)))
      BY <2>1, LongerFile
    <2>3. IsPrefix(rep, WholeFlash)
      BY <2>1, <2>2, Zenon DEF WholeFlash
    <2>4. WholeFlash \in Answers[q]
      BY <1>0, <1>4, WholeAnswers, Zenon
    <2> QED BY <2>3, <2>4, Zenon
  <1> QED BY <1>2, <1>3, <1>4 DEF Part

\* What an upload is answered.
Loadable(q) == q.image /\ q.len <= FwSize
Loaded(d, q, x) ==
    /\ ~x.d.cgiPrivData /\ Loadable(q)
    /\ IF d.received = d.len THEN x.out = << 200 >> /\ x.r = "DONE"
       ELSE x.out = <<>> /\ x.sends = 0 /\ x.r = "MORE"
Unloadable(d, q, x) ==
    x.d.cgiPrivData /\ ~Loadable(q) /\ x.out = <<400>> /\ x.r = "DONE"

\* A call that finds no error loads the block; one that does sends it.
LEMMA UploadAnswers ==
    ASSUME NEW d \in SlotType, NEW q \in AllRequests, req[d.conn] = q, d.len = q.len,
           Offset(d) % MaxPost = 0, Offset(d) # 0 => ~d.cgiPrivData /\ q.image /\ q.len <= FwSize,
           NEW x, Skipped(d, x) \/ Rejected(d, x) \/ Accepted(d, x)
    PROVE  Loaded(d, q, x) \/ Unloadable(d, q, x)
  <1> DEFINE e == Reset(d)
  <1>1. /\ e.len = d.len /\ e.conn = d.conn /\ e.received = d.received /\ e.buffLen = d.buffLen
        /\ ~e.cgiPrivData /\ e \in SlotType
    BY DEF Reset, SlotType
  <1>2. Offset(e) = Offset(d)
    BY <1>1 DEF Offset
  <1>3. d.len \in Int /\ FwSize \in Int
    BY HttpdAssumption DEF SlotType
  <1> HIDE DEF e
  <1>4. UploadError(e) = IF Loadable(q) THEN NULL ELSE 400
    <2> DEFINE long == d.len > FwSize
               wrong == Offset(d) = 0 /\ ~q.image
               odd == Offset(d) % MaxPost # 0
    <2>1. UploadError(e) = CASE long -> 400 [] d.len <= FwSize /\ wrong -> 400
                             [] d.len <= FwSize /\ odd -> 500 [] OTHER -> NULL
      BY <1>1, <1>2 DEF UploadError
    <2>2. ~odd /\ (Loadable(q) <=> ~long /\ ~wrong) /\ (d.len <= FwSize <=> ~long)
      BY <1>3 DEF Loadable
    <2> HIDE DEF long, wrong, odd
    <2> QED BY <2>1, <2>2
  <1>5. NULL # 400
    BY HttpdAssumption
  <1>6. ~Skipped(d, x)
    BY <1>1 DEF Skipped, e
  <1>7. CASE Rejected(d, x)
    <2>1. ~Loadable(q)
      BY <1>4, <1>7 DEF Rejected, e
    <2>2. x.out = <<UploadError(e)>> /\ UploadError(e) = 400 /\ x.r = "DONE"
      BY <1>4, <1>7, <2>1 DEF Rejected, e
    <2>3. x.d = [e EXCEPT !.cgiPrivData = TRUE]
      BY <1>7 DEF Rejected, e
    <2>4. x.d.cgiPrivData
      BY <1>1, <2>3 DEF SlotType
    <2>5. x.out = <<400>>
      BY <2>2
    <2> QED BY <2>1, <2>2, <2>4, <2>5, Zenon DEF Unloadable
  <1>8. CASE Accepted(d, x)
    <2>1. Loadable(q)
      BY <1>4, <1>5, <1>8 DEF Accepted, e
    <2>2. ~x.d.cgiPrivData
      BY <1>8, <1>1 DEF Accepted, e
    <2> QED BY <1>8, <2>1, <2>2 DEF Accepted, Loaded
  <1> QED BY <1>6, <1>7, <1>8

\* At the start nothing has been sent and no slot is taken.
LEMMA ReplyInit == Init => ReplyInv
  <1> SUFFICES ASSUME Init PROVE ReplyInv
    OBVIOUS
  <1>1. \A c \in Conns : reply[c] = <<>> /\ pending[c] = 0 /\ state[c] = "none"
    BY DEF Init
  <1>2. \A c \in Conns : SlotsOf(c) = {}
    BY HttpdAssumption DEF Init, FreeSlot, SlotsOf, httpdFindConnData
  <1>3. \A c \in Conns : Waiting(c)
    BY <1>1, <1>2 DEF Waiting
  <1> QED BY <1>1, <1>3 DEF ReplyInv, Quiet, ReplyOK

\* A step for connection e: the others do not notice it, and their files
\* stay as they are.
FilesMine(e) == \A h \in Handles : files[h].owner \notin {NULL, e} => files'[h] = files[h]
Apart(e) ==
    /\ req' = req /\ FilesMine(e)
    /\ \A c \in Conns \ {e} :
          /\ reply'[c] = reply[c] /\ pending'[c] = pending[c]
          /\ state'[c] \in {"none", "finished"} => state[c] = state'[c]
    /\ \A s \in Slots : connData'[s].conn \in Conns \ {e} => SlotSame(s)

\* Then they go on as they were.
LEMMA RepliesApart ==
    ASSUME FilesInv, ReplyInv, NEW e, Apart(e),
           e \in Conns => /\ Cared(e) => ReplyOK(e)'
                          /\ state'[e] # "none" \/ pending'[e] = 0
    PROVE  ReplyInv'
  <1>1. Quiet'
    BY DEF Quiet, ReplyInv, Apart
  <1>2. ASSUME NEW c \in Conns, Cared(c)', c # e
        PROVE  ReplyOK(c)'
    <2>1. Cared(c) /\ ReplyOK(c)
      BY <1>2 DEF ReplyInv, Cared, Apart
    <2>2. /\ reply'[c] = reply[c] /\ pending'[c] = pending[c] /\ req' = req
          /\ state'[c] = "finished" => state[c] = "finished"
      BY <1>2 DEF Apart
    <2>3. \A s \in SlotsOf(c)' : s \in SlotsOf(c) /\ SlotSame(s)
      <3>1. SUFFICES ASSUME NEW s \in Slots, connData'[s].conn = c
                     PROVE  connData[s].conn = c /\ SlotSame(s)
        BY DEF SlotsOf, httpdFindConnData
      <3>2. SlotSame(s)
        BY <1>2, <3>1 DEF Apart
      <3> QED BY <3>1, <3>2 DEF SlotSame
    <2>4. \A s \in SlotsOf(c)' : \A q :
             Expecting(connData[s], call, WhereOf(call, s), q) =>
                Expecting(connData'[s], call', WhereOf(call', s), q)
      BY <2>3 DEF SlotSame, Expecting, Searching
    <2>5. \A s \in SlotsOf(c)' : \A q :
             Ignored(connData[s], call, WhereOf(call, s), q) =>
                Ignored(connData'[s], call', WhereOf(call', s), q)
      BY <2>3 DEF SlotSame, Ignored, Searching
    <2>6. ASSUME NEW s \in SlotsOf(c)', NEW q, NEW rep,
                 Sending(connData[s], WhereOf(call, s), files, q, rep)
          PROVE  Sending(connData'[s], WhereOf(call', s), files', q, rep)
      <3> DEFINE d == connData[s]
                 h == d.cgiData
      <3>1. connData'[s] = d /\ WhereOf(call', s) = WhereOf(call, s) /\ d.conn = c /\ s \in Slots
        BY <2>3, <2>6 DEF SlotSame, SlotsOf, httpdFindConnData
      <3>2. d.cgi \in FileCgis /\ h \in Handles => files'[h] = files[h]
        <4>1. \A g \in Handles : g # NULL
          BY HttpdAssumption DEF Handles
        <4>2. HeldBy(d, files)
          BY <3>1 DEF FilesInv, Held
        <4>3. c # NULL
          BY HttpdAssumption
        <4> HIDE DEF d
        <4> QED BY <1>2, <3>1, <4>1, <4>2, <4>3 DEF HeldBy, Apart, FilesMine
      <3>3. Part(d, files, q, rep) => Part(d, files', q, rep)
        <4> HIDE DEF d
        <4> QED BY <3>2 DEF Part, FileCgis
      <3> HIDE DEF d
      <3> QED BY <2>6, <3>1, <3>3 DEF Sending, d
    <2>7. Waiting(c) => Waiting(c)'
      BY <2>2, <2>3, <2>4 DEF Waiting
    <2>8. InService(c) => InService(c)'
      BY <2>2, <2>3, <2>6 DEF InService
    <2>9. Answered(c) => Answered(c)'
      <3>1. \A s \in SlotsOf(c)' :
               Over(connData[s], WhereOf(call, s)) => Over(connData'[s], WhereOf(call', s))
        BY <2>3 DEF SlotSame
      <3> QED BY <2>2, <2>3, <2>5, <3>1 DEF Answered
    <2> QED BY <2>1, <2>2, <2>7, <2>8, <2>9 DEF ReplyOK
  <1>3. ASSUME NEW c \in Conns, Cared(c)', c = e
        PROVE  ReplyOK(c)'
    BY <1>3 DEF Cared, Apart
  <1> QED BY <1>1, <1>2, <1>3 DEF ReplyInv

\* A step that leaves pool, files and answers alone, outside of the table.
LEMMA RepliesIdle ==
    ASSUME FilesInv, ReplyInv, UNCHANGED <<connData, files, req, reply, pending>>,
           \A c \in Conns : state'[c] \in {"none", "finished"} => state[c] = state'[c],
           \A t \in Slots : WhereOf(call, t) = "net" /\ WhereOf(call', t) = "net"
    PROVE  ReplyInv'
  <1>1. Apart(NULL)
    BY DEF Apart, FilesMine, SlotSame
  <1>2. NULL \notin Conns
    BY HttpdAssumption
  <1> QED BY <1>1, <1>2, RepliesApart

\* Units arrive.
LEMMA RepliesRecv ==
    ASSUME FilesInv, ReplyInv, NEW c \in Conns, NEW n \in 1 .. MaxSegment, httpdRecvCb(c, n)
    PROVE  ReplyInv'
  <1>1. /\ call = NoCall
        /\ \/ call' = call
           \/ \E s \in httpdFindConnData(c) : call' = Recv(s, n)
        /\ UNCHANGED <<connData, files, req, reply, pending, state>>
    BY DEF httpdRecvCb
  <1>2. \A t \in Slots : WhereOf(call, t) = "net"
    BY <1>1, NoLeft DEF NoCall, httpdRecvCb
  <1>3. \A t \in Slots : WhereOf(call', t) = "net"
    <2>1. n \in Nat
      BY HttpdAssumption
    <2> QED BY <1>1, <1>2, <2>1, RecvLeft
  <1> QED BY <1>1, <1>2, <1>3, RepliesIdle

\* A byte of the head.
LEMMA RepliesHead ==
    ASSUME FilesInv, ReplyInv, HeadByte
    PROVE  ReplyInv'
  <1>1. /\ InRecv /\ call' = Recv(call.slot, call.left - 1)
        /\ UNCHANGED <<connData, files, req, reply, pending, state>>
    BY DEF HeadByte, RecvNext, net
  <1>2. \A t \in Slots : WhereOf(call, t) = "net"
    BY <1>1 DEF WhereOf, InRecv
  <1>3. call.left - 1 \in Nat
    BY <1>1, InHand
  <1>4. \A t \in Slots : WhereOf(call', t) = "net"
    BY <1>1, <1>3, RecvLeft
  <1> QED BY <1>1, <1>2, <1>4, RepliesIdle

\* Disconnections, as long as no slot is freed, and clients that leave.
LEMMA RepliesRest ==
    ASSUME FilesInv, ReplyInv,
           (\E c \in Conns : httpdDisconCb(c) \/ Leave(c)) \/ DisconSkip
    PROVE  ReplyInv'
  <1>1. /\ UNCHANGED <<connData, files, req, reply, pending>>
        /\ call.cb \notin {"recv", "process"} /\ call'.cb \notin {"recv", "process"}
    <2>1. CASE \E c \in Conns : httpdDisconCb(c)
      BY <2>1 DEF httpdDisconCb, NoCall
    <2>2. CASE \E c \in Conns : Leave(c)
      BY <2>2 DEF Leave, NoCall
    <2>3. CASE DisconSkip
      <3>1. DOMAIN call = {"cb", "slot"} /\ call.cb = "discon"
        BY <2>3 DEF DisconSkip, InDiscon, FilesInv, PoolInv, CallOK
      <3>2. call' = NoCall \/ call' = [call EXCEPT !.slot = @ + 1]
        BY <2>3 DEF DisconSkip, DisconNext
      <3> QED BY <2>3, <3>1, <3>2 DEF DisconSkip, net, NoCall
    <2> QED BY <2>1, <2>2, <2>3
  <1>2. \A c \in Conns : state'[c] \in {"none", "finished"} => state[c] = state'[c]
    <2>1. DOMAIN state = Conns
      BY DEF FilesInv, Types
    <2>2. CASE \E c \in Conns : httpdDisconCb(c)
      BY <2>1, <2>2 DEF httpdDisconCb
    <2>3. CASE \E c \in Conns : Leave(c)
      BY <2>1, <2>3 DEF Leave
    <2>4. CASE DisconSkip
      BY <2>4 DEF DisconSkip, net
    <2> QED BY <2>2, <2>3, <2>4
  <1>3. \A t \in Slots : WhereOf(call, t) = "net" /\ WhereOf(call', t) = "net"
    BY <1>1, NoLeft
  <1> QED BY <1>1, <1>2, <1>3, RepliesIdle

\* A step of a unit for the slot in hand.
LEMMA RepliesUnit ==
    ASSUME FilesInv, ReplyInv, InRecv, NEW e, e = D.conn, NEW d, d.conn = e,
           connData' = [connData EXCEPT ![call.slot] = d],
           UNCHANGED <<files, req, reply, pending, state>>,
           NEW at, \/ Process /\ at = "table"
                   \/ call' = Recv(call.slot, call.left - 1) /\ at = "net",
           Cared(e) =>
              /\ D.len >= 0 => D.received # D.len
              /\ Expecting(D, call, "net", req[e]) => Expecting(d, call', at, req[e])
              /\ Ignored(D, call, "net", req[e]) => Ignored(d, call', at, req[e])
    PROVE  ReplyInv'
  <1>1. PICK s \in Slots :
           /\ s = call.slot /\ D = connData[s] /\ e \in Conns
           /\ call.left - 1 \in Nat
           /\ \A t \in Slots : t # s => WhereOf(call, t) = "net"
    BY InHand
  <1>2. /\ connData'[s] = d /\ connData[s].conn = e
        /\ \A t \in Slots : t # s => connData'[t] = connData[t]
    BY <1>1 DEF FilesInv, Types
  <1>3. /\ WhereOf(call, s) = "net" /\ WhereOf(call', s) = at
        /\ \A t \in Slots : t # s => WhereOf(call', t) = "net"
    <2>1. WhereOf(call, s) = "net"
      BY DEF WhereOf, InRecv
    <2>2. CASE Process /\ at = "table"
      BY <1>1, <2>1, <2>2 DEF Process, WhereOf
    <2>3. CASE call' = Recv(s, call.left - 1) /\ at = "net"
      <3>1. \A t \in Slots : WhereOf(call', t) = "net"
        BY <1>1, <2>3, RecvLeft
      <3> QED BY <1>1, <2>1, <2>3, <3>1
    <2> QED BY <1>1, <2>2, <2>3
  <1>4. Apart(e)
    <2>1. \A t \in Slots : connData'[t].conn \in Conns \ {e} => SlotSame(t)
      BY <1>1, <1>2, <1>3 DEF SlotSame
    <2> QED BY <2>1 DEF Apart, FilesMine
  <1>5. ASSUME Cared(e)
        PROVE  ReplyOK(e)'
    <2>1. SlotsOf(e) = {s} /\ SlotsOf(e)' = {s}
      <3>1. \A t \in Slots : t # s => connData[t].conn # e
        BY <1>1, <1>2, HttpdAssumption DEF FilesInv, PoolInv, Unique
      <3> QED BY <1>1, <1>2, <3>1 DEF SlotsOf, httpdFindConnData
    <2>2. ReplyOK(e)
      BY <1>1, <1>5 DEF ReplyInv
    <2>3. ~InService(e)
      BY <1>1, <1>5, <2>1 DEF InService, Sending
    <2>4. Waiting(e) => Waiting(e)'
      BY <1>1, <1>2, <1>3, <1>5, <2>1 DEF Waiting
    <2>5. Answered(e) => Answered(e)'
      <3>1. ~Over(D, "net")
        BY <1>5 DEF Over
      <3> QED BY <1>1, <1>2, <1>3, <1>5, <2>1, <3>1 DEF Answered
    <2> QED BY <2>2, <2>3, <2>4, <2>5 DEF ReplyOK
  <1>6. state'[e] # "none"
    BY <1>1, <1>2, HttpdAssumption DEF FilesInv, PoolInv, Unmade
  <1> QED BY <1>4, <1>5, <1>6, RepliesApart

\* A slot at the start of a request expects it.
LEMMA ExpectsStart ==
    ASSUME NEW d, d.cgi = NULL, Offset(d) = 0, NEW cl, NEW q, d.len >= 0 => d.url = q.url
    PROVE  Expecting(d, cl, "net", q)
  <1>1. Searching(d, cl, "net", q)
    BY DEF Searching
  <1>2. 0 % MaxPost = 0
    BY PartBegins
  <1>3. Blockwise(d, "net", q)
    BY <1>2 DEF Blockwise
  <1> QED BY <1>1, <1>3 DEF Expecting

\* A connection is made or refused: nothing has been sent on it yet.
LEMMA RepliesConnect ==
    ASSUME FilesInv, UploadInv, ReplyInv, NEW e \in Conns, httpdConnectCb(e)
    PROVE  ReplyInv'
  <1>1. /\ call = NoCall /\ call' = call /\ UNCHANGED <<files, req, reply, pending>>
        /\ req[e] # NULL /\ state[e] = "none"
    BY DEF httpdConnectCb
  <1>2. \A t \in Slots : WhereOf(call, t) = "net" /\ WhereOf(call', t) = "net"
    BY <1>1, NoLeft DEF NoCall
  <1>3. CASE Unused = {}
    <2>1. connData' = connData /\ state' = [state EXCEPT ![e] = "refused"]
      BY <1>3 DEF httpdConnectCb
    <2>2. \A c \in Conns : state'[c] \in {"none", "finished"} => state[c] = state'[c]
      BY <2>1 DEF FilesInv, Types
    <2> QED BY <1>1, <1>2, <2>1, <2>2, RepliesIdle
  <1>4. CASE Unused # {}
    <2> DEFINE s == CHOOSE i \in Unused : \A j \in Unused : i <= j
               d == [connData[s] EXCEPT !.conn = e, !.len = -1, !.received = 0,
                                        !.buffLen = 0]
    <2>1. s \in Unused
      <3>1. Unused \in SUBSET Nat
        BY HttpdAssumption DEF Unused, Slots
      <3> QED BY <1>4, <3>1, Least
    <2>2. /\ connData' = [connData EXCEPT ![s] = d]
          /\ state' = [state EXCEPT ![e] = "open"]
      BY <1>4 DEF httpdConnectCb
    <2> HIDE DEF s
    <2>3. s \in Slots /\ connData[s].conn = NULL /\ connData[s] \in SlotType
      BY <2>1 DEF Unused, FilesInv, Types
    <2>4. /\ d.conn = e /\ d.len = -1 /\ d.received = 0
          /\ d.buffLen = 0 /\ d.cgi = connData[s].cgi
      BY <2>3 DEF SlotType
    <2> HIDE DEF d
    <2>5. /\ connData'[s] = d
          /\ \A t \in Slots : t # s => connData'[t] = connData[t]
      BY <2>2, <2>3 DEF FilesInv, Types
    <2>6. d.cgi = NULL
      BY <2>3, <2>4 DEF FilesInv, SlotsInv, SlotInv
    <2>7. /\ state'[e] = "open"
          /\ \A c \in Conns \ {e} : state'[c] = state[c]
      BY <2>2 DEF FilesInv, Types
    <2>8. Apart(e)
      <3>1. \A t \in Slots : connData'[t].conn \in Conns \ {e} => SlotSame(t)
        BY <1>1, <2>4, <2>5 DEF SlotSame
      <3> QED BY <1>1, <2>7, <3>1 DEF Apart, FilesMine
    <2>9. \A t \in SlotsOf(e)' : t = s
      <3>1. \A t \in Slots : connData[t].conn # e
        BY <1>1, HttpdAssumption DEF FilesInv, PoolInv, Unmade
      <3> QED BY <2>5, <3>1 DEF SlotsOf, httpdFindConnData
    <2>10. reply[e] = <<>> /\ pending[e] = 0
      BY <1>1 DEF UploadInv, Silent, ReplyInv, Quiet
    <2>11. Expecting(d, call', "net", req[e])
      <3>1. Offset(d) = 0 /\ ~(d.len >= 0)
        BY <2>4 DEF Offset
      <3> QED BY <2>6, <3>1, ExpectsStart
    <2>12. Waiting(e)'
      BY <1>1, <1>2, <2>3, <2>5, <2>9, <2>10, <2>11 DEF Waiting
    <2>13. ReplyOK(e)'
      BY <2>7, <2>12 DEF ReplyOK
    <2> QED BY <2>7, <2>8, <2>13, RepliesApart
  <1> QED BY <1>3, <1>4

\* Somebody who is not an upload and not streamed fits into the buffer.
LEMMA OnePost ==
    ASSUME FilesInv, NEW e \in Conns, Cared(e)
    PROVE  /\ req[e] \in RequestType /\ req[e].len \in Nat /\ req[e] \in AllRequests
           /\ Handler[req[e]] # "cgiUploadFirmware" => req[e].len <= MaxPost
  <1>1. req[e] # NULL
    BY DEF Cared
  <1>2. req[e] \in RequestType /\ req[e].len \in Nat
    BY <1>1, Requests DEF FilesInv
  <1>3. MaxPost \in Nat
    BY HttpdAssumption
  <1> QED BY <1>2, <1>3 DEF Cared, Fits, Streamed

\* The head has arrived.
LEMMA RepliesHeadEnd ==
    ASSUME FilesInv, ReplyInv, HeadEnd
    PROVE  ReplyInv'
  <1> DEFINE e == D.conn
             d == [D EXCEPT !.url = req[D.conn].url, !.len = req[D.conn].len]
  <1>1. /\ InRecv /\ D.len < 0
        /\ \/ Process /\ req[e].len = 0
           \/ call' = Recv(call.slot, call.left - 1)
        /\ UNCHANGED <<files, req, reply, pending, state>>
    BY DEF HeadEnd, RecvNext, net
  <1>2. PICK s \in Slots :
           /\ s = call.slot /\ D = connData[s] /\ D \in SlotType /\ e \in Conns
           /\ SlotInv(D, call.left, "net", req, received)
           /\ D.conn # NULL
    BY <1>1, InHand
  <1>3. connData' = [connData EXCEPT ![call.slot] = d]
    BY <1>2 DEF HeadEnd, FilesInv, Types
  <1>4. /\ d.conn = e /\ d.url = req[e].url /\ d.len = req[e].len /\ d.cgi = D.cgi
        /\ d.received = D.received /\ d.buffLen = D.buffLen
        /\ d.cgiPrivData = D.cgiPrivData
    BY <1>2 DEF SlotType
  <1>5. D.cgi = NULL /\ D.received = 0 /\ D.buffLen = 0
    BY <1>1, <1>2 DEF SlotInv, Counted
  <1> HIDE DEF d
  <1>6. Offset(D) = 0 /\ Offset(d) = 0 /\ d.cgi = NULL /\ ~Ignored(D, call, "net", req[e])
    BY <1>4, <1>5 DEF Offset, Ignored
  <1>7. CASE call' = Recv(call.slot, call.left - 1)
    <2>1. Expecting(d, call', "net", req[e])
      BY <1>4, <1>6, ExpectsStart
    <2>2. D.len >= 0 => D.received # D.len
      BY <1>1, <1>2 DEF SlotType
    <2> QED BY <1>1, <1>3, <1>4, <1>6, <1>7, <2>1, <2>2, RepliesUnit
  <1>8. CASE Process /\ req[e].len = 0
    <2>1. D.len >= 0 => D.received # D.len
      BY <1>1, <1>2 DEF SlotType
    <2>2. call'.i = 1
      BY <1>8 DEF Process
    <2>3. \A i \in Taking(req[e]) : call'.i <= i
      BY <2>2, HttpdAssumption DEF Taking
    <2>4. Searching(d, call', "table", req[e])
      BY <1>4, <1>6, <2>3 DEF Searching
    <2>5. Blockwise(d, "table", req[e])
      <3>1. 0 % MaxPost = 0
        BY PartBegins
      <3>2. d.received = d.len
        BY <1>4, <1>5, <1>8
      <3> QED BY <1>6, <3>1, <3>2 DEF Blockwise
    <2>6. Expecting(d, call', "table", req[e])
      BY <2>4, <2>5 DEF Expecting
    <2> QED BY <1>1, <1>3, <1>4, <1>6, <1>8, <2>1, <2>6, RepliesUnit
  <1> QED BY <1>1, <1>7, <1>8

\* The buffer of an upload is full, or the request is complete.
LEMMA FullBlock ==
    ASSUME NEW len \in Nat, NEW rec \in Nat, NEW buff \in Nat,
           rec < len, buff < MaxPost, buff <= rec,
           buff + 1 >= MinNat(len, MaxPost) \/ rec + 1 = len
    PROVE  buff + 1 = MaxPost \/ rec + 1 = len
  BY HttpdAssumption DEF MinNat

\* A byte of the body.
LEMMA RepliesPost ==
    ASSUME FilesInv, UploadInv, ReplyInv, PostByte
    PROVE  ReplyInv'
  <1> DEFINE e == D.conn
             d == [D EXCEPT !.buffLen = @ + 1, !.received = @ + 1]
             full == D.buffLen + 1 >= BuffSize \/ D.received + 1 = D.len
  <1>1. /\ InRecv /\ D.len > 0
        /\ \/ full /\ Process
           \/ call' = Recv(call.slot, call.left - 1)
        /\ UNCHANGED <<files, req, reply, pending, state>>
    BY DEF PostByte, RecvNext, net
  <1>2. PICK s \in Slots :
           /\ s = call.slot /\ D = connData[s] /\ D \in SlotType /\ e \in Conns
           /\ SlotInv(D, call.left, "net", req, received)
           /\ D.conn # NULL /\ call.left \in Nat \ {0}
    BY <1>1, InHand
  <1>3. connData' = [connData EXCEPT ![call.slot] = d]
    BY <1>2 DEF PostByte, FilesInv, Types
  <1>4. /\ d.conn = e /\ d.url = D.url /\ d.len = D.len /\ d.cgi = D.cgi
        /\ d.received = D.received + 1 /\ d.buffLen = D.buffLen + 1
        /\ d.cgiPrivData = D.cgiPrivData
    BY <1>2 DEF SlotType
  <1>5. D.received \in Nat /\ D.buffLen \in Nat /\ D.len \in Nat \ {0}
    BY <1>1, <1>2 DEF SlotType
  <1> HIDE DEF d
  <1>6. D.received < D.len
    <2>1. /\ D.len = req[e].len /\ D.received + call.left = received[e] - req[e].head
          /\ received[e] <= Length(req[e]) /\ req[e] # NULL
      BY <1>2, <1>5 DEF SlotInv, Counted, Asks
    <2>2. req[e].head \in Nat /\ req[e].len \in Nat /\ received[e] \in Nat
      BY <1>2, <2>1, Requests DEF FilesInv, Types
    <2> QED BY <1>2, <1>5, <2>1, <2>2 DEF Length
  <1>7. Offset(d) = Offset(D)
    <2> DEFINE a == D.received
               b == D.buffLen
    <2>1. a \in Nat /\ b \in Nat /\ (a + 1) - (b + 1) = a - b
      BY <1>5
    <2> QED BY <1>4, <2>1 DEF Offset
  <1>8. SlotsOf(e) = {s}
    <2>1. \A t \in Slots : t # s => connData[t].conn # e
      BY <1>2, HttpdAssumption DEF FilesInv, PoolInv, Unique
    <2> QED BY <1>2, <2>1 DEF SlotsOf, httpdFindConnData
  <1>9. ASSUME Cared(e), Handler[req[e]] = "cgiUploadFirmware"
        PROVE  /\ D.url = req[e].url /\ D.url # NULL
               /\ full => d.buffLen = MaxPost \/ d.received = d.len
    <2>1. Uploading(e)
      BY <1>9 DEF Cared, Uploading
    <2>2. Routed(D, call, "net", req[e])
      <3>1. Routes(e)
        BY <1>2, <2>1 DEF UploadInv, UploadOK
      <3>2. WhereOf(call, s) = "net"
        BY <1>1 DEF WhereOf, InRecv
      <3> QED BY <1>2, <1>8, <3>1, <3>2 DEF Routes
    <2>3. D.buffLen < MaxPost /\ D.buffLen <= D.received /\ D.url = req[e].url
      BY <1>5, <2>2 DEF Routed
    <2>4. req[e].url # NULL
      BY <1>2, <2>1, PlaceOf
    <2>5. full => D.buffLen + 1 = MaxPost \/ D.received + 1 = D.len
      BY <1>5, <1>6, <2>3, FullBlock DEF BuffSize
    <2> QED BY <1>4, <2>3, <2>4, <2>5
  <1> HIDE DEF full
  <1>10. ASSUME NEW at, Cared(e),
                \/ at = "net"
                \/ at = "table" /\ full /\ call'.i = 1
         PROVE  /\ Expecting(D, call, "net", req[e]) => Expecting(d, call', at, req[e])
                /\ Ignored(D, call, "net", req[e]) => Ignored(d, call', at, req[e])
    <2>1. at = "table" => \A i \in Taking(req[e]) : call'.i <= i
      BY <1>10, HttpdAssumption DEF Taking
    <2>2. Searching(D, call, "net", req[e])
             /\ (d.cgi = NULL \/ Handler[req[e]] = "cgiUploadFirmware")
          => Searching(d, call', at, req[e])
      BY <1>4, <1>5, <1>9, <1>10, <2>1 DEF Searching
    <2>3. Handler[req[e]] = "cgiUploadFirmware" /\ Blockwise(D, "net", req[e])
             => Blockwise(d, at, req[e])
      BY <1>4, <1>7, <1>9, <1>10 DEF Blockwise
    <2>4. Expecting(D, call, "net", req[e]) => Expecting(d, call', at, req[e])
      BY <1>4, <2>2, <2>3 DEF Expecting
    <2>5. Ignored(D, call, "net", req[e]) => Ignored(d, call', at, req[e])
      BY <1>4, <1>7, <2>2 DEF Ignored
    <2> QED BY <2>4, <2>5
  <1>11. D.received # D.len
    BY <1>5, <1>6
  <1>12. CASE call' = Recv(call.slot, call.left - 1)
    <2>1. Cared(e) => /\ Expecting(D, call, "net", req[e]) => Expecting(d, call', "net", req[e])
                      /\ Ignored(D, call, "net", req[e]) => Ignored(d, call', "net", req[e])
      BY <1>10
    <2> QED BY <1>1, <1>3, <1>4, <1>11, <1>12, <2>1, RepliesUnit
  <1>13. CASE full /\ Process
    <2>1. Cared(e) => /\ Expecting(D, call, "net", req[e]) => Expecting(d, call', "table", req[e])
                      /\ Ignored(D, call, "net", req[e]) => Ignored(d, call', "table", req[e])
      <3>1. call'.i = 1
        BY <1>13 DEF Process
      <3> QED BY <1>10, <1>13, <3>1
    <2> QED BY <1>1, <1>3, <1>4, <1>11, <1>13, <2>1, RepliesUnit
  <1> QED BY <1>1, <1>12, <1>13

\* A slot between two calls, the reply that belongs to it.
Replied(g, q, rep) ==
    rep \in Answers[q] /\ (Over(g, "net") \/ \A cl : Ignored(g, cl, "net", q))
Served(g, fs, q, rep, sent) ==
    \/ rep = <<>> /\ sent = 0 /\ \A cl : Expecting(g, cl, "net", q)
    \/ Sending(g, "net", fs, q, rep)
    \/ Replied(g, q, rep)

\* Such a slot is as it should be.
LEMMA ServedOK ==
    ASSUME NEW e, Cared(e), req' = req, NEW s, NEW g, connData'[s] = g, SlotsOf(e)' = {s},
           WhereOf(call', s) = "net", FilesOK(files'),
           Served(g, files', req[e], reply'[e], pending'[e]),
           state'[e] = "finished" => Replied(g, req[e], reply'[e])
    PROVE  ReplyOK(e)'
  <1>1. PICK q : q = req[e] /\ req'[e] = q /\ q \in Fits
    BY DEF Cared
  <1>2. ASSUME Sending(g, "net", files', q, reply'[e])
        PROVE  InService(e)'
    <2>1. g.cgi = Handler[q] /\ Part(g, files', q, reply'[e])
      BY <1>2 DEF Sending
    <2>2. \E a \in Answers[q] : IsPrefix(reply'[e], a)
      BY <1>1, <2>1, PartPrefix
    <2> QED BY <1>1, <1>2, <2>2 DEF InService
  <1>3. ASSUME reply'[e] = <<>>, pending'[e] = 0, \A cl : Expecting(g, cl, "net", q)
        PROVE  Waiting(e)'
    BY <1>1, <1>3 DEF Waiting
  <1>4. ASSUME Replied(g, q, reply'[e])
        PROVE  Answered(e)'
    BY <1>1, <1>4 DEF Replied, Answered
  <1>5. Waiting(e)' \/ InService(e)' \/ Answered(e)'
    BY <1>1, <1>2, <1>3, <1>4 DEF Served
  <1>6. state'[e] = "finished" => Answered(e)'
    BY <1>1, <1>4
  <1> QED BY <1>5, <1>6 DEF ReplyOK

\* While the table is asked nothing has been sent, or the rest of an upload
\* is ignored; everything else has arrived with its only block.
LEMMA TableAsks ==
    ASSUME FilesInv, ReplyInv, InProcess, NEW e, e = D.conn, Cared(e)
    PROVE  /\ SlotsOf(e) = {call.slot} /\ D.len >= 0 /\ D.len = req[e].len
           /\ D.url = req[e].url
           /\ Handler[req[e]] # "cgiUploadFirmware" => D.received = D.len
           /\ \/ /\ Waiting(e) /\ Expecting(D, call, "table", req[e])
                 /\ state[e] # "finished"
              \/ Answered(e) /\ Ignored(D, call, "table", req[e])
  <1>1. /\ call.slot \in Slots /\ D = connData[call.slot] /\ e \in Conns /\ e # NULL
        /\ D \in SlotType /\ SlotInv(D, call.left, "table", req, received)
    BY InHand
  <1>2. SlotsOf(e) = {call.slot}
    BY <1>1, HttpdAssumption DEF FilesInv, PoolInv, Unique, SlotsOf, httpdFindConnData
  <1>3. WhereOf(call, call.slot) = "table"
    BY DEF WhereOf, InProcess
  <1>4. ReplyOK(e)
    BY <1>1 DEF ReplyInv
  <1>5. ~InService(e)
    BY <1>2, <1>3 DEF InService, Sending
  <1>6. Waiting(e) => Expecting(D, call, "table", req[e])
    BY <1>1, <1>2, <1>3 DEF Waiting
  <1>7. Answered(e) => Ignored(D, call, "table", req[e])
    BY <1>1, <1>2, <1>3 DEF Answered, Over
  <1>8. ~(Expecting(D, call, "table", req[e]) /\ Ignored(D, call, "table", req[e]))
    BY DEF Expecting, Ignored, Blockwise
  <1>9. D.len >= 0
    BY <1>1 DEF SlotInv, Once
  <1>10. D.len = req[e].len
    BY <1>1, <1>9 DEF SlotInv, Counted
  <1>11. D.url = req[e].url
    BY <1>4, <1>5, <1>6, <1>7, <1>9 DEF ReplyOK, Expecting, Ignored, Searching
  <1>12. Handler[req[e]] # "cgiUploadFirmware" => D.received = D.len
    <2>1. Handler[req[e]] # "cgiUploadFirmware" => D.len \in 0 .. MaxPost
      BY <1>1, <1>9, <1>10, OnePost, HttpdAssumption
    <2> QED BY <1>1, <2>1 DEF SlotInv, Once, Whole
  <1> QED BY <1>2, <1>4, <1>5, <1>6, <1>7, <1>8, <1>9, <1>10, <1>11, <1>12 DEF ReplyOK

\* The end of httpdProcessRequest.
LEMMA RepliesReturn ==
    ASSUME FilesInv, UploadInv, ReplyInv, InProcess, NEW w, ProcessReturn(w),
           UNCHANGED <<state, req, received>>, Shape(w), w.d \in SlotType,
           w.d.conn = D.conn, NEW e, e = D.conn, Traces(flash, w.flash, e),
           FilesOK(w.files),
           \A h \in Handles : files[h].owner \notin {NULL, e} => w.files[h] = files[h],
           NEW g, g = [w.d EXCEPT !.buffLen = 0],
           Cared(e) =>
              /\ Served(g, w.files, req[e], reply[e] \o w.out, pending[e] + w.sends)
              /\ state[e] = "finished" => Replied(g, req[e], reply[e] \o w.out)
    PROVE  ReplyInv'
  <1>1. /\ Concerns(e) /\ connData'[call.slot] = g
        /\ SlotsOf(e)' = {call.slot} /\ WhereOf(call', call.slot) = "net"
        /\ reply'[e] = reply[e] \o w.out /\ pending'[e] = pending[e] + w.sends
    BY UploadReturn
  <1>2. files' = w.files
    BY DEF ProcessReturn, Finish, Shape, WorldFields
  <1>3. Apart(e)
    <2>1. FilesMine(e)
      BY <1>2 DEF FilesMine
    <2> QED BY <1>1, <2>1 DEF Apart, Concerns
  <1>4. e \in Conns /\ state'[e] # "none"
    <2>1. call.slot \in Slots /\ D = connData[call.slot] /\ e \in Conns /\ e # NULL
      BY InHand
    <2> QED BY <2>1 DEF FilesInv, PoolInv, Unmade
  <1>5. ASSUME Cared(e)
        PROVE  ReplyOK(e)'
    <2>1. /\ Served(g, w.files, req[e], reply[e] \o w.out, pending[e] + w.sends)
          /\ state[e] = "finished" => Replied(g, req[e], reply[e] \o w.out)
      BY <1>5
    <2>2. /\ Served(g, files', req[e], reply'[e], pending'[e])
          /\ state'[e] = "finished" => Replied(g, req[e], reply'[e])
      BY <1>1, <1>2, <2>1
    <2>3. FilesOK(files') /\ req' = req
      BY <1>2
    <2> QED BY <1>1, <1>5, <2>2, <2>3, ServedOK
  <1> QED BY <1>3, <1>4, <1>5, RepliesApart

\* Without a URL nothing is asked.
LEMMA RepliesNoUrl ==
    ASSUME FilesInv, UploadInv, ReplyInv, NoUrl
    PROVE  ReplyInv'
  <1>1. /\ InProcess /\ D.url = NULL /\ ProcessReturn(World(D))
        /\ UNCHANGED <<state, req, received>>
    BY DEF NoUrl
  <1>2. D \in SlotType
    BY <1>1, InHand
  <1>3. PICK e : e = D.conn
    OBVIOUS
  <1>a. PICK w : w = World(D)
    OBVIOUS
  <1>4. /\ Shape(w) /\ w.d = D /\ w.flash = flash /\ w.files = files
        /\ w.out = <<>> /\ w.sends = 0
    <2>1. DOMAIN D = SlotFields
      BY <1>2 DEF SlotType, SlotFields
    <2> QED BY <1>a, <2>1, WorldShape DEF World
  <1>5. Traces(flash, w.flash, e)
    BY <1>4 DEF Traces
  <1>b. PICK g : g = [w.d EXCEPT !.buffLen = 0]
    OBVIOUS
  <1>6. g.cgi = D.cgi /\ g.url = D.url /\ g.len = D.len
    BY <1>2, <1>4, <1>b DEF SlotType
  <1>7. ASSUME Cared(e)
        PROVE  /\ Served(g, w.files, req[e], reply[e] \o w.out, pending[e] + w.sends)
               /\ state[e] # "finished"
    <2>1. Handler[req[e]] # "cgiUploadFirmware"
      <3>1. ~Uploading(e)
        BY <1>1, <1>3, UploadAsks
      <3> QED BY <1>7, <3>1 DEF Uploading, Cared
    <2>2. /\ Waiting(e) /\ Expecting(D, call, "table", req[e]) /\ state[e] # "finished"
          /\ D.url = req[e].url
      BY <1>1, <1>3, <1>7, <2>1, TableAsks DEF Ignored
    <2>3. D.cgi = NULL
      BY <1>1, <2>2 DEF Expecting, Searching
    <2>4. \A cl : Expecting(g, cl, "net", req[e])
      BY <1>6, <2>1, <2>2, <2>3 DEF Expecting, Searching
    <2>5. reply[e] \o w.out = <<>> /\ pending[e] + w.sends = 0
      <3>1. reply[e] = <<>> /\ pending[e] = 0
        BY <2>2 DEF Waiting
      <3>2. (<<>> \o <<>>) = <<>> /\ 0 + 0 = 0
        OBVIOUS
      <3> QED BY <1>4, <3>1, <3>2
    <2> QED BY <2>2, <2>4, <2>5 DEF Served
  <1>8. FilesOK(w.files)
    BY <1>4 DEF FilesInv, Types
  <1> QED BY <1>1, <1>2, <1>3, <1>a, <1>4, <1>5, <1>b, <1>7, <1>8, RepliesReturn

\* The entries of the table that are left, and those that take the request.
LEMMA EntryDecides ==
    ASSUME FilesInv, InProcess, NEW q \in AllRequests, D.url = q.url,
           \A i \in Taking(q) : call.i <= i
    PROVE  /\ Matching = {} => Handler[q] = "none"
           /\ Matching # {} =>
                 /\ Entry \in DOMAIN BuiltInUrls
                 /\ Passes(Entry, q) => \A i \in Taking(q) : Entry + 1 <= i
                 /\ ~Passes(Entry, q) => Handler[q] = BuiltInUrls[Entry].cgi
  <1>1. DOMAIN BuiltInUrls = 1 .. Len(BuiltInUrls) /\ Len(BuiltInUrls) \in Nat
    BY HttpdAssumption
  <1>2. call.i \in Nat \ {0}
    BY DEF FilesInv, PoolInv, CallOK
  <1>3. \A i \in Taking(q) : i \in Matching /\ i \in DOMAIN BuiltInUrls
    BY <1>1, <1>2 DEF Taking, Matching
  <1>4. CASE Matching = {}
    <2>1. Taking(q) = {}
      BY <1>3, <1>4
    <2> QED BY <1>4, <2>1 DEF Handler
  <1>5. CASE Matching # {}
    <2>1. Matching \in SUBSET Nat
      BY <1>1, <1>2 DEF Matching
    <2>2. Entry \in Matching /\ \A j \in Matching : Entry <= j
      BY <1>5, <2>1, Least DEF Entry
    <2>3. Entry \in DOMAIN BuiltInUrls /\ q.url \in BuiltInUrls[Entry].urls /\ Entry \in Nat
      BY <1>1, <1>2, <2>1, <2>2 DEF Matching
    <2>4. Passes(Entry, q) => \A i \in Taking(q) : Entry + 1 <= i
      <3> SUFFICES ASSUME Passes(Entry, q), NEW i \in Taking(q) PROVE Entry + 1 <= i
        OBVIOUS
      <3>1. i # Entry
        BY DEF Taking
      <3>2. Entry <= i /\ i \in Nat
        BY <1>1, <1>3, <2>2
      <3> QED BY <2>3, <3>1, <3>2
    <2>5. ASSUME ~Passes(Entry, q)
          PROVE  Handler[q] = BuiltInUrls[Entry].cgi
      <3>1. Entry \in Taking(q)
        BY <2>3, <2>5 DEF Taking
      <3>2. Taking(q) \in SUBSET Nat
        BY <1>1, <1>3
      <3> DEFINE p == CHOOSE i \in Taking(q) : \A j \in Taking(q) : i <= j
      <3>3. p \in Taking(q) /\ \A j \in Taking(q) : p <= j
        BY <3>1, <3>2, Least
      <3>4. Handler[q] = BuiltInUrls[p].cgi
        BY <3>1 DEF Handler
      <3> HIDE DEF p
      <3>5. p <= Entry /\ Entry <= p
        BY <1>3, <2>2, <3>1, <3>3
      <3>6. p = Entry
        BY <2>3, <3>2, <3>3, <3>5
      <3> QED BY <3>4, <3>6
    <2> QED BY <1>5, <2>3, <2>4, <2>5
  <1> QED BY <1>4, <1>5

\* What a request that was waiting is answered with.
LEMMA FirstOut ==
    ASSUME NEW e, Waiting(e), NEW out \in Seq(Int)
    PROVE  reply[e] \o out = out
  <1>1. reply[e] = <<>>
    BY DEF Waiting
  <1>2. (<<>> \o out) = out
    OBVIOUS
  <1> QED BY <1>1, <1>2, Zenon

\* One number, or nothing.
LEMMA FirstCode ==
    ASSUME NEW e, Waiting(e)
    PROVE  /\ reply[e] \o Code(200) = Code(200) /\ reply[e] \o Code(400) = Code(400)
           /\ reply[e] \o Code(404) = Code(404) /\ reply[e] \o <<>> = <<>>
  <1>a. PICK a, b, d : a = Code(200) /\ b = Code(400) /\ d = Code(404)
    OBVIOUS
  <1>1. a \in Seq(Int) /\ b \in Seq(Int) /\ d \in Seq(Int) /\ <<>> \in Seq(Int)
    BY <1>a DEF Code
  <1>2. \A out \in Seq(Int) : reply[e] \o out = out
    BY FirstOut, Zenon
  <1>3. reply[e] \o a = a /\ reply[e] \o b = b /\ reply[e] \o d = d /\ reply[e] \o <<>> = <<>>
    BY <1>1, <1>2, Zenon
  <1> QED BY <1>a, <1>3, Zenon

\* One status code fits into the empty buffer.
LEMMA OneAdded ==
    ASSUME NEW code \in Int
    PROVE  Added(<<>>, <<code>>) = <<code>>
  <1>1. /\ <<>> \in Seq(Int) /\ <<code>> \in Seq(Int) /\ Len(<<>>) + Len(<<code>>) = 1
        /\ <<>> \o <<code>> = <<code>>
    OBVIOUS
  <1>2. 1 <= SendBuffLen
    BY HttpdAssumption
  <1>3. Added(<<>>, <<code>>) = <<>> \o <<code>>
    BY <1>1, <1>2, AddedFits
  <1> QED BY <1>1, <1>3, Zenon

\* Nothing in the table.
LEMMA RepliesNotFound ==
    ASSUME FilesInv, UploadInv, ReplyInv, NotFound
    PROVE  ReplyInv'
  <1>a. PICK d : d = [D EXCEPT !.cgi = NULL]
    OBVIOUS
  <1>b. PICK v : v = httpdSend(World(d), <<404>>)
    OBVIOUS
  <1>c. PICK w : w = httpdFlushSendBuffer(v)
    OBVIOUS
  <1>1. /\ InProcess /\ Matching = {} /\ ProcessReturn(w)
        /\ UNCHANGED <<state, req, received>>
    BY <1>a, <1>b, <1>c DEF NotFound
  <1>2. D \in SlotType /\ D.conn \in Conns
    BY <1>1, InHand
  <1>3. /\ d \in SlotType /\ DOMAIN d = SlotFields /\ d.conn = D.conn /\ d.cgi = NULL
        /\ d.len = D.len /\ d.received = D.received
    BY <1>2, <1>a DEF SlotType, SlotFields
  <1>4. Empty(World(d)) /\ World(d).d = d /\ World(d).files = files /\ World(d).flash = flash
    BY <1>3, EmptyWorld DEF World
  <1>5. /\ Shape(v) /\ v.d = d /\ v.files = files /\ v.flash = flash
        /\ v.out = <<>> /\ v.sends = 0 /\ v.buff = <<404>>
    <2>1. Added(<<>>, <<404>>) = <<404>>
      <3>1. 404 \in Int
        OBVIOUS
      <3> QED BY <3>1, OneAdded
    <2>2. PICK u : u = World(d)
      OBVIOUS
    <2>3. Shape(u) /\ u.buff = <<>> /\ u.out = <<>> /\ u.sends = 0
      BY <1>4, <2>2 DEF Empty
    <2>4. v = [u EXCEPT !.buff = Added(@, <<404>>)]
      BY <1>b, <2>2 DEF httpdSend
    <2> QED BY <1>4, <2>1, <2>2, <2>3, <2>4 DEF Shape, WorldFields
  <1>6. /\ Shape(w) /\ w.d = d /\ w.files = files /\ w.flash = flash /\ w.out = <<404>>
    <2>1. <<404>> \in Seq(Int)
      OBVIOUS
    <2>2. Flushed(v, w)
      BY <1>5, <1>c, <2>1, FlushSends
    <2> QED BY <1>5, <2>2 DEF Flushed
  <1>d. PICK e : e = D.conn
    OBVIOUS
  <1>e. PICK g : g = [w.d EXCEPT !.buffLen = 0]
    OBVIOUS
  <1>7. g.cgi = NULL /\ g.len = D.len /\ g.received = D.received
    BY <1>3, <1>6, <1>e DEF SlotType
  <1>8. ASSUME Cared(e)
        PROVE  Replied(g, req[e], reply[e] \o w.out)
    <2>1. Handler[req[e]] # "cgiUploadFirmware"
      <3>1. ~Uploading(e)
        BY <1>1, <1>d, UploadAsks
      <3> QED BY <1>8, <3>1 DEF Uploading, Cared
    <2>2. /\ Waiting(e) /\ Expecting(D, call, "table", req[e])
          /\ D.url = req[e].url /\ D.len >= 0 /\ D.received = D.len
      BY <1>1, <1>8, <1>d, <2>1, TableAsks DEF Ignored
    <2>3. \A i \in Taking(req[e]) : call.i <= i
      BY <2>2 DEF Expecting, Searching
    <2>4. req[e] \in AllRequests
      BY <1>2, <1>8, <1>d, OnePost
    <2>5. Handler[req[e]] = "none"
      BY <1>1, <2>2, <2>3, <2>4, EntryDecides
    <2>6. Code(404) \in Answers[req[e]]
      BY <2>4, <2>5, CodesOf
    <2>7. reply[e] \o w.out = Code(404)
      <3>1. w.out = Code(404)
        BY <1>6 DEF Code
      <3> QED BY <2>2, <3>1, FirstCode
    <2> QED BY <1>7, <2>2, <2>6, <2>7 DEF Replied, Over
  <1>9. /\ Cared(e) => Served(g, w.files, req[e], reply[e] \o w.out, pending[e] + w.sends)
        /\ FilesOK(w.files) /\ Traces(flash, w.flash, e)
    BY <1>6, <1>8 DEF Served, FilesInv, Types, Traces
  <1>10. w.d \in SlotType /\ w.d.conn = D.conn /\ Shape(w) /\ w.files = files
    BY <1>3, <1>6
  <1> QED BY <1>1, <1>d, <1>e, <1>8, <1>9, <1>10, RepliesReturn

\* What an entry of the table is asked with, and what it may touch.
LEMMA AskedFiles ==
    ASSUME FilesInv, InProcess, Matching # {}, NEW stale,
           NEW w, w = httpdFlushSendBuffer(Cgi(World(Asked), stale)), NEW e, e = D.conn
    PROVE  /\ FilesOK(w.files) /\ SameSlot(Asked, w.d)
           /\ \A h \in Handles : files[h].owner \notin {NULL, e} => w.files[h] = files[h]
  <1>1. /\ Asked \in SlotType /\ Asked.cgi \in Cgis /\ Asked.cgiData = NULL
    BY AskedSlot
  <1>a. PICK v : v = World(Asked)
    OBVIOUS
  <1>2. Good(v) /\ v.d = Asked /\ v.files = files
    BY <1>1, <1>a, GoodWorld DEF HasOpen
  <1>3. Effect(v, w)
    BY <1>1, <1>a, <1>2, CgiEffect
  <1>4. NULL \notin Handles
    BY HttpdAssumption DEF Handles
  <1>5. NoFile(v, w) \/ OpensFile(v, w)
    BY <1>1, <1>2, <1>3, <1>4 DEF Effect, ReadsFile, ClosesFile
  <1>6. \A h \in Handles : files[h].owner \notin {NULL, e} => w.files[h] = files[h]
    BY <1>2, <1>5 DEF NoFile, OpensFile, OthersSame
  <1> QED BY <1>2, <1>3, <1>6 DEF Effect

\* The table goes on to the next entry.
LEMMA RepliesPassed ==
    ASSUME FilesInv, ReplyInv, InProcess, D.url # NULL, NEW e, e = D.conn,
           NEW d, d.conn = e, connData' = [connData EXCEPT ![call.slot] = d],
           NEW n, call' = [call EXCEPT !.i = n],
           UNCHANGED <<files, req, reply, pending, state>>,
           Cared(e) => /\ d.len = D.len /\ d.url = D.url /\ d.received = D.received
                       /\ d.buffLen = D.buffLen /\ d.cgiPrivData = D.cgiPrivData
                       /\ \A i \in Taking(req[e]) : n <= i
    PROVE  ReplyInv'
  <1>1. PICK s \in Slots :
           /\ s = call.slot /\ D = connData[s] /\ e \in Conns /\ e # NULL
           /\ \A t \in Slots : t # s => WhereOf(call, t) = "net"
    BY InHand
  <1>2. /\ connData'[s] = d
        /\ \A t \in Slots : t # s => connData'[t] = connData[t] /\ connData[t].conn # e
    BY <1>1 DEF FilesInv, Types, PoolInv, Unique
  <1>3. /\ call'.cb = "process" /\ call'.slot = s /\ call'.i = n
    BY <1>1 DEF FilesInv, PoolInv, CallOK, InProcess
  <1>4. \A t \in Slots : WhereOf(call', t) = (IF t = s THEN "table" ELSE "net")
    BY <1>3 DEF WhereOf
  <1>5. Apart(e)
    <2>1. \A t \in Slots : connData'[t].conn \in Conns \ {e} => SlotSame(t)
      BY <1>1, <1>2, <1>4 DEF SlotSame
    <2> QED BY <2>1 DEF Apart, FilesMine
  <1>6. state'[e] # "none"
    BY <1>1, <1>2 DEF FilesInv, PoolInv, Unmade
  <1>7. ASSUME Cared(e)
        PROVE  ReplyOK(e)'
    <2>1. PICK q : q = req[e] /\ req'[e] = q
      OBVIOUS
    <2>2. /\ d.len = D.len /\ d.url = D.url /\ d.received = D.received
          /\ d.buffLen = D.buffLen /\ d.cgiPrivData = D.cgiPrivData
          /\ \A i \in Taking(q) : n <= i
      BY <1>7, <2>1
    <2>3. Offset(d) = Offset(D)
      BY <2>2 DEF Offset
    <2>4. Searching(D, call, "table", q) => Searching(d, call', "table", q)
      BY <1>3, <2>2 DEF Searching
    <2>5. SlotsOf(e)' = {s}
      <3>1. \A t \in Slots : connData'[t].conn = e <=> t = s
        BY <1>1, <1>2
      <3> QED BY <3>1 DEF SlotsOf, httpdFindConnData
    <2>6. CASE /\ Waiting(e) /\ Expecting(D, call, "table", q) /\ state[e] # "finished"
      <3>1. Expecting(d, call', "table", q)
        BY <2>2, <2>3, <2>4, <2>6 DEF Expecting, Blockwise
      <3>2. Waiting(e)'
        BY <1>2, <1>4, <2>1, <2>5, <2>6, <3>1 DEF Waiting
      <3> QED BY <2>6, <3>2 DEF ReplyOK
    <2>7. CASE Answered(e) /\ Ignored(D, call, "table", q)
      <3>1. Ignored(d, call', "table", q)
        BY <2>2, <2>3, <2>4, <2>7 DEF Ignored
      <3>2. Answered(e)'
        BY <1>2, <1>4, <2>1, <2>5, <2>7, <3>1 DEF Answered
      <3> QED BY <3>2 DEF ReplyOK
    <2> QED BY <1>1, <1>7, <2>1, <2>6, <2>7, TableAsks
  <1> QED BY <1>5, <1>6, <1>7, RepliesApart

\* A request that is no upload: the entry passes, or it is the one that
\* answers.
LEMMA AskedOther ==
    ASSUME FilesInv, ReplyInv, Memory, InProcess, Matching # {}, NEW e, e = D.conn,
           Cared(e), Handler[req[e]] # "cgiUploadFirmware",
           NEW stale, NEW w, w = httpdFlushSendBuffer(Cgi(World(Asked), stale))
    PROVE  \/ /\ w.d = Asked /\ w.r \in {"NOTFOUND", "AUTHENTICATED"}
              /\ \A i \in Taking(req[e]) : Entry + 1 <= i
           \/ Asked.cgi = Handler[req[e]] /\ Answering(w, req[e], <<>>)
  <1>a. PICK q : q = req[e]
    OBVIOUS
  <1>1. e \in Conns /\ e # NULL
    BY InHand
  <1>2. q \in AllRequests /\ q \in RequestType /\ q # NULL
    BY <1>1, <1>a, OnePost DEF Cared
  <1>3. D.url = q.url /\ Expecting(D, call, "table", q)
    BY <1>a, TableAsks DEF Ignored
  <1>4. \A i \in Taking(q) : call.i <= i
    BY <1>3 DEF Expecting, Searching
  <1>5. /\ Passes(Entry, q) => \A i \in Taking(q) : Entry + 1 <= i
        /\ ~Passes(Entry, q) => Handler[q] = BuiltInUrls[Entry].cgi
    BY <1>2, <1>3, <1>4, EntryDecides
  <1>6. /\ Asked \in SlotType /\ Asked.conn = e /\ Asked.cgi = BuiltInUrls[Entry].cgi
        /\ Asked.cgi \in Cgis /\ Asked.cgiData = NULL /\ Asked.url = D.url
    BY AskedSlot
  <1>b. PICK d : d = Asked
    OBVIOUS
  <1>7. /\ d \in SlotType /\ d.conn # NULL /\ d.cgi = BuiltInUrls[Entry].cgi
        /\ d.cgi \in Cgis /\ d.cgiData = NULL /\ d.url = q.url /\ req[d.conn] = q
    BY <1>1, <1>3, <1>6, <1>a, <1>b
  <1>8. CASE Passes(Entry, q)
    <2>1. w.d = d /\ w.r \in {"NOTFOUND", "AUTHENTICATED"}
      BY <1>2, <1>7, <1>8, <1>b, PassedOn
    <2> QED BY <1>5, <1>8, <1>a, <1>b, <2>1
  <1>9. CASE ~Passes(Entry, q)
    <2>1. d.cgi = Handler[q] /\ Handler[q] \in Cgis \ {"cgiUploadFirmware"}
      BY <1>5, <1>7, <1>9, <1>a
    <2>2. FilesOK(files) /\ \E h \in Handles : files[h].owner = NULL
      BY DEF FilesInv, Types, Memory
    <2>3. w = httpdFlushSendBuffer(Cgi(World(d), stale))
      BY <1>b
    <2>4. Answering(w, q, <<>>)
      BY <1>2, <1>7, <1>9, <2>1, <2>2, <2>3, FirstCall
    <2> QED BY <1>a, <1>b, <2>1, <2>4
  <1> QED BY <1>8, <1>9

\* It has been answered, or the answer has begun.
LEMMA AskedServes ==
    ASSUME NEW q, NEW d, NEW w, NEW rep, Answering(w, q, rep), d.cgi = Handler[q], d.len >= 0,
           d.received = d.len, d.url = q.url, SameSlot(d, w.d),
           NEW g, g.len = d.len, g.received = d.received, g.url = d.url,
           g.cgiData = w.d.cgiData, g.cgi = (IF w.r = "DONE" THEN NULL ELSE w.d.cgi),
           NEW sent
    PROVE  Served(g, w.files, q, rep \o w.out, sent)
  <1>1. CASE Finishes(w, q, rep)
    BY <1>1 DEF Finishes, Served, Replied, Over
  <1>2. CASE Continues(w, q, rep)
    <2>1. g.cgi = w.d.cgi /\ w.d.cgi = Handler[q]
      BY <1>2 DEF Continues, SameSlot
    <2>2. Part(g, w.files, q, rep \o w.out)
      BY <1>2, <2>1 DEF Continues, Part
    <2> QED BY <2>1, <2>2 DEF Served, Sending
  <1> QED BY <1>1, <1>2 DEF Answering

\* A slot that an upload goes on with, and one that ignores the rest of it.
LEMMA NextBlock ==
    ASSUME NEW q, Handler[q] = "cgiUploadFirmware", NEW g, g.url = q.url, g.buffLen = 0,
           g.received \in Nat, g.cgi \in {NULL, "cgiUploadFirmware"}
    PROVE  /\ Offset(g) = g.received
           /\ g.received % MaxPost = 0 /\ ~g.cgiPrivData /\ Loadable(q) =>
                 \A cl : Expecting(g, cl, "net", q)
           /\ g.received # 0 /\ g.cgiPrivData /\ g.cgi = NULL =>
                 \A cl : Ignored(g, cl, "net", q)
  <1>1. Offset(g) = g.received
    BY DEF Offset
  <1>2. \A cl : Searching(g, cl, "net", q)
    BY DEF Searching
  <1>3. ASSUME g.received % MaxPost = 0, ~g.cgiPrivData, Loadable(q)
        PROVE  \A cl : Expecting(g, cl, "net", q)
    <2>1. Blockwise(g, "net", q)
      BY <1>1, <1>3 DEF Blockwise, Loadable
    <2> QED BY <1>2, <2>1 DEF Expecting
  <1>4. ASSUME g.received # 0, g.cgiPrivData, g.cgi = NULL
        PROVE  \A cl : Ignored(g, cl, "net", q)
    BY <1>1, <1>2, <1>4 DEF Ignored
  <1> QED BY <1>1, <1>3, <1>4

\* The first blocks of an upload have been accepted, or none was; once it
\* was answered the rest of it is ignored.
LEMMA BlockServed ==
    ASSUME NEW e, NEW q \in AllRequests, q = req[e], Handler[q] = "cgiUploadFirmware",
           NEW d \in SlotType, d.conn = e, d.url = q.url, d.len = q.len, d.len >= 0,
           d.buffLen <= d.received,
           \/ Waiting(e) /\ Blockwise(d, "table", q)
           \/ reply[e] \in Answers[q] /\ Offset(d) # 0 /\ d.cgiPrivData,
           NEW w, Skipped(d, w) \/ Rejected(d, w) \/ Accepted(d, w),
           NEW g, g.cgiPrivData = w.d.cgiPrivData, g.received = d.received, g.len = d.len,
           g.url = d.url, g.buffLen = 0,
           g.cgi = (IF w.r = "DONE" THEN NULL ELSE "cgiUploadFirmware"), NEW fs
    PROVE  /\ Served(g, fs, q, reply[e] \o w.out, pending[e] + w.sends)
           /\ \/ Waiting(e) /\ Blockwise(d, "table", q)
              \/ Replied(g, q, reply[e] \o w.out)
  <1>1. d.received \in Nat /\ d.buffLen \in Nat /\ MaxPost \in Nat \ {0}
    BY HttpdAssumption DEF SlotType
  <1>2. /\ d.received % MaxPost = 0 /\ ~g.cgiPrivData /\ Loadable(q) =>
              \A cl : Expecting(g, cl, "net", q)
        /\ d.received # 0 /\ g.cgiPrivData /\ g.cgi = NULL =>
              \A cl : Ignored(g, cl, "net", q)
    <2>1. g.cgi \in {NULL, "cgiUploadFirmware"} /\ g.url = q.url /\ g.received \in Nat
      BY <1>1
    <2> QED BY <2>1, NextBlock
  <1>3. /\ Loadable(q) => Code(200) \in Answers[q]
        /\ ~Loadable(q) => Code(400) \in Answers[q]
    BY AnswersOf DEF Loadable
  <1>4. ASSUME w.r = "DONE", d.received # d.len => d.received # 0 /\ w.d.cgiPrivData,
               NEW rep \in Answers[q]
        PROVE  Replied(g, q, rep)
    <2>1. g.cgi = NULL
      BY <1>4
    <2>2. CASE d.received = d.len
      BY <1>4, <2>1, <2>2 DEF Replied, Over
    <2>3. CASE d.received # d.len
      <3>1. \A cl : Ignored(g, cl, "net", q)
        BY <1>2, <1>4, <2>1, <2>3
      <3> QED BY <1>4, <3>1 DEF Replied
    <2> QED BY <2>2, <2>3
  <1>5. CASE Waiting(e) /\ Blockwise(d, "table", q)
    <2>1. /\ Offset(d) % MaxPost = 0
          /\ Offset(d) # 0 => ~d.cgiPrivData /\ q.image /\ q.len <= FwSize
          /\ d.buffLen = MaxPost \/ d.received = d.len
      BY <1>5 DEF Blockwise
    <2>2. Loaded(d, q, w) \/ Unloadable(d, q, w)
      BY <2>1, UploadAnswers
    <2>3. d.received # d.len => d.received # 0 /\ d.received % MaxPost = 0
      <3> SUFFICES ASSUME d.received # d.len
                   PROVE  d.received # 0 /\ d.received % MaxPost = 0
        OBVIOUS
      <3>a. PICK p : p = d.received - MaxPost
        OBVIOUS
      <3>1. p \in Nat /\ p = Offset(d) /\ d.received = p + MaxPost
        <4>1. d.buffLen = MaxPost
          BY <2>1
        <4>2. p = Offset(d)
          BY <3>a, <4>1 DEF Offset
        <4>3. MaxPost <= d.received
          BY <4>1
        <4> QED BY <1>1, <3>a, <4>2, <4>3
      <3>2. (p + MaxPost) % MaxPost = 0
        BY <2>1, <3>1, BlockLater
      <3> QED BY <1>1, <3>1, <3>2
    <2>4. CASE Loaded(d, q, w) /\ d.received = d.len
      <3>1. w.out = << 200 >> /\ w.r = "DONE" /\ Loadable(q)
        BY <2>4 DEF Loaded
      <3>2. w.out = Code(200)
        BY <3>1 DEF Code
      <3>3. reply[e] \o w.out = Code(200)
        BY <1>5, <3>2, FirstCode
      <3>4. Replied(g, q, Code(200))
        BY <1>3, <1>4, <2>4, <3>1
      <3> QED BY <1>5, <3>3, <3>4 DEF Served
    <2>5. CASE Loaded(d, q, w) /\ d.received # d.len
      <3>1. ~w.d.cgiPrivData /\ Loadable(q) /\ w.out = <<>> /\ w.sends = 0
        BY <2>5 DEF Loaded
      <3>2. \A cl : Expecting(g, cl, "net", q)
        BY <1>2, <2>3, <2>5, <3>1
      <3>3. reply[e] \o <<>> = <<>>
        BY <1>5, FirstCode
      <3>4. reply[e] \o w.out = <<>>
        BY <3>1, <3>3, Zenon
      <3>5. pending[e] + w.sends = 0
        BY <1>5, <3>1 DEF Waiting
      <3> QED BY <1>5, <3>2, <3>4, <3>5 DEF Served
    <2>6. CASE Unloadable(d, q, w)
      <3>1. w.d.cgiPrivData /\ ~Loadable(q) /\ w.out = <<400>> /\ w.r = "DONE"
        BY <2>6 DEF Unloadable
      <3>2. w.out = Code(400)
        BY <3>1 DEF Code
      <3>3. reply[e] \o w.out = Code(400)
        BY <1>5, <3>2, FirstCode
      <3>4. Replied(g, q, Code(400))
        BY <1>3, <1>4, <2>3, <3>1
      <3> QED BY <1>5, <3>3, <3>4 DEF Served
    <2> QED BY <2>2, <2>4, <2>5, <2>6
  <1>6. CASE reply[e] \in Answers[q] /\ Offset(d) # 0 /\ d.cgiPrivData
    <2>1. Reset(d) = d
      BY <1>6 DEF Reset
    <2>2. Skipped(d, w)
      BY <1>6, <2>1 DEF Rejected, Accepted
    <2>3. w.d = d /\ w.out = <<>> /\ w.r = "DONE"
      BY <2>1, <2>2 DEF Skipped
    <2>4. d.received # 0
      BY <1>1, <1>6 DEF Offset
    <2>5. reply[e] \o w.out = reply[e]
      <3>1. reply[e] \in Seq(Int)
        <4>1. Answers[q] = {Code(200)} \/ Answers[q] = {Code(400)}
          BY AnswersOf
        <4>2. Code(200) \in Seq(Int) /\ Code(400) \in Seq(Int)
          BY DEF Code
        <4> QED BY <1>6, <4>1, <4>2
      <3>2. \A s \in Seq(Int) : (s \o <<>>) = s
        OBVIOUS
      <3> QED BY <2>3, <3>1, <3>2
    <2>6. Replied(g, q, reply[e])
      BY <1>4, <1>6, <2>3, <2>4
    <2> QED BY <2>5, <2>6 DEF Served
  <1> QED BY <1>5, <1>6

\* An upload: the entry passes, or it is the one of the upload.
LEMMA AskedUpload ==
    ASSUME FilesInv, UploadInv, InProcess, NEW e, e = D.conn, Uploading(e), NEW stale,
           NEW w, w = httpdFlushSendBuffer(Cgi(World(Asked), stale))
    PROVE  \/ /\ w.d = Asked /\ w.r \in {"NOTFOUND", "AUTHENTICATED"}
              /\ \A i \in Taking(req[e]) : Entry + 1 <= i
           \/ /\ Skipped(Asked, w) \/ Rejected(Asked, w) \/ Accepted(Asked, w)
              /\ Asked.cgi = "cgiUploadFirmware"
  <1> DEFINE p == Place(req[e])
  <1>1. /\ Matching # {} /\ Entry \in Nat
    BY UploadAsks, EntryCgi DEF FilesInv, PoolInv
  <1>2. e \in Conns
    BY InHand
  <1>3. /\ p \in Nat /\ \A i \in Taking(req[e]) : p <= i
        /\ \A i \in Taking(req[e]) : i \in Nat
    BY <1>2, PlaceOf, HttpdAssumption DEF Taking
  <1> HIDE DEF p
  <1>4. Entry + 1 <= p => \A i \in Taking(req[e]) : Entry + 1 <= i
    <2> DEFINE n == Entry
    <2>1. n \in Nat
      BY <1>1
    <2> HIDE DEF n
    <2>2. n + 1 <= p => \A i \in Taking(req[e]) : n + 1 <= i
      BY <1>3, <2>1
    <2> QED BY <2>2 DEF n
  <1>5. \/ /\ w.d = Asked /\ w.r \in {"NOTFOUND", "AUTHENTICATED"}
           /\ Entry + 1 <= p
        \/ /\ Skipped(Asked, w) \/ Rejected(Asked, w) \/ Accepted(Asked, w)
           /\ Asked.cgi = "cgiUploadFirmware"
    BY UploadEntry DEF p
  <1> QED BY <1>4, <1>5

\* An entry of the table is asked.
LEMMA RepliesAskCgi ==
    ASSUME FilesInv, UploadInv, ReplyInv, Memory, AskCgi
    PROVE  ReplyInv'
  <1>1. InProcess /\ UNCHANGED <<state, req, received>> /\ Matching # {} /\ D.url # NULL
    BY DEF AskCgi
  <1>2. PICK e \in Conns : e = D.conn
    BY <1>1, InHand
  <1>3. PICK stale \in BOOLEAN : \E x \in {Cgi(World(Asked), stale)} :
          \E w \in {httpdFlushSendBuffer(x)} :
             \/ /\ w.r \in {"NOTFOUND", "AUTHENTICATED"}
                /\ connData' = [connData EXCEPT ![call.slot] = w.d]
                /\ call' = [call EXCEPT !.i = Entry + 1]
                /\ UNCHANGED <<files, flash, reply, pending>>
             \/ w.r = "MORE" /\ ProcessReturn(w)
             \/ w.r = "DONE" /\ ProcessReturn([w EXCEPT !.d.cgi = NULL])
    BY DEF AskCgi
  <1>a. PICK w : w = httpdFlushSendBuffer(Cgi(World(Asked), stale))
    OBVIOUS
  <1>4. \/ /\ w.r \in {"NOTFOUND", "AUTHENTICATED"}
           /\ connData' = [connData EXCEPT ![call.slot] = w.d]
           /\ call' = [call EXCEPT !.i = Entry + 1]
           /\ UNCHANGED <<files, flash, reply, pending>>
        \/ w.r = "MORE" /\ ProcessReturn(w)
        \/ w.r = "DONE" /\ ProcessReturn([w EXCEPT !.d.cgi = NULL])
    BY <1>3, <1>a
  <1>b. PICK d : d = Asked
    OBVIOUS
  <1>5. /\ d \in SlotType /\ d.conn = e /\ d.len = D.len /\ d.url = D.url
        /\ d.received = D.received /\ d.buffLen = D.buffLen
        /\ d.cgiPrivData = D.cgiPrivData
        /\ Shape(w) /\ w.d \in SlotType /\ w.d.conn = e /\ Traces(flash, w.flash, e)
    BY <1>1, <1>2, <1>a, <1>b, AskedSlot
  <1>6. /\ FilesOK(w.files) /\ SameSlot(d, w.d)
        /\ \A h \in Handles : files[h].owner \notin {NULL, e} => w.files[h] = files[h]
    BY <1>1, <1>2, <1>a, <1>b, AskedFiles
  <1>7. ASSUME Cared(e), Handler[req[e]] # "cgiUploadFirmware"
        PROVE  \/ /\ w.d = d /\ w.r \in {"NOTFOUND", "AUTHENTICATED"}
                  /\ \A i \in Taking(req[e]) : Entry + 1 <= i
               \/ d.cgi = Handler[req[e]] /\ Answering(w, req[e], <<>>)
    BY <1>1, <1>2, <1>7, <1>a, <1>b, AskedOther
  <1>8. ASSUME Cared(e), Handler[req[e]] = "cgiUploadFirmware"
        PROVE  /\ \/ /\ w.d = d /\ w.r \in {"NOTFOUND", "AUTHENTICATED"}
                     /\ \A i \in Taking(req[e]) : Entry + 1 <= i
                  \/ /\ Skipped(d, w) \/ Rejected(d, w) \/ Accepted(d, w)
                     /\ d.cgi = "cgiUploadFirmware"
               /\ D.buffLen <= D.received
    <2>1. Uploading(e)
      BY <1>8 DEF Uploading, Cared
    <2>2. D.buffLen <= D.received
      BY <1>1, <1>2, <2>1, UploadAsks
    <2> QED BY <1>1, <1>2, <1>a, <1>b, <2>1, <2>2, AskedUpload
  <1>9. CASE /\ w.r \in {"NOTFOUND", "AUTHENTICATED"}
             /\ connData' = [connData EXCEPT ![call.slot] = w.d]
             /\ call' = [call EXCEPT !.i = Entry + 1]
             /\ UNCHANGED <<files, flash, reply, pending>>
    <2>1. ASSUME Cared(e)
          PROVE  w.d = d /\ \A i \in Taking(req[e]) : Entry + 1 <= i
      BY <1>7, <1>8, <1>9, <2>1 DEF Skipped, Rejected, Accepted, Answering, Finishes, Continues
    <2>2. Cared(e) => /\ w.d.len = D.len /\ w.d.url = D.url /\ w.d.received = D.received
                      /\ w.d.buffLen = D.buffLen /\ w.d.cgiPrivData = D.cgiPrivData
                      /\ \A i \in Taking(req[e]) : Entry + 1 <= i
      BY <1>5, <2>1
    <2> QED BY <1>1, <1>2, <1>5, <1>9, <2>2, RepliesPassed
  <1>10. ASSUME NEW x, ProcessReturn(x), Shape(x), x.flash = w.flash, x.out = w.out,
                x.sends = w.sends, x.files = w.files, x.d \in SlotType, x.d.conn = e,
                x.d.len = w.d.len, x.d.url = w.d.url, x.d.received = w.d.received,
                x.d.cgiPrivData = w.d.cgiPrivData, x.d.cgiData = w.d.cgiData,
                x.d.cgi = (IF w.r = "DONE" THEN NULL ELSE w.d.cgi),
                w.r \in {"MORE", "DONE"}
         PROVE  ReplyInv'
    <2>a. PICK g : g = [x.d EXCEPT !.buffLen = 0]
      OBVIOUS
    <2>1. /\ g.cgiPrivData = w.d.cgiPrivData /\ g.received = d.received
          /\ g.len = d.len /\ g.url = d.url /\ g.buffLen = 0 /\ g.cgiData = w.d.cgiData
          /\ g.cgi = (IF w.r = "DONE" THEN NULL ELSE w.d.cgi)
      BY <1>6, <1>10, <2>a DEF SlotType, SameSlot
    <2>2. ASSUME Cared(e)
          PROVE  /\ Served(g, x.files, req[e], reply[e] \o x.out, pending[e] + x.sends)
                 /\ state[e] = "finished" => Replied(g, req[e], reply[e] \o x.out)
      <3>a. PICK q : q = req[e]
        OBVIOUS
      <3>1. /\ D.len >= 0 /\ D.len = q.len /\ D.url = q.url
            /\ Handler[q] # "cgiUploadFirmware" => D.received = D.len
            /\ \/ /\ Waiting(e) /\ Expecting(D, call, "table", q) /\ state[e] # "finished"
               \/ Answered(e) /\ Ignored(D, call, "table", q)
        BY <1>1, <1>2, <2>2, <3>a, TableAsks
      <3>2. q \in AllRequests
        BY <2>2, <3>a, OnePost
      <3>3. CASE Handler[q] # "cgiUploadFirmware"
        <4>1. Waiting(e) /\ state[e] # "finished"
          BY <3>1, <3>3 DEF Ignored
        <4>2. d.cgi = Handler[q] /\ Answering(w, q, <<>>)
          BY <1>7, <1>10, <2>2, <3>3, <3>a
        <4>3. d.len >= 0 /\ d.received = d.len /\ d.url = q.url
          BY <1>5, <3>1, <3>3
        <4>4. Served(g, w.files, q, <<>> \o w.out, pending[e] + x.sends)
          BY <1>6, <2>1, <4>2, <4>3, AskedServes
        <4>5. reply[e] = <<>>
          BY <4>1 DEF Waiting
        <4> QED BY <1>10, <3>a, <4>1, <4>4, <4>5
      <3>4. CASE Handler[q] = "cgiUploadFirmware"
        <4>1. /\ Skipped(d, w) \/ Rejected(d, w) \/ Accepted(d, w)
              /\ d.cgi = "cgiUploadFirmware" /\ d.buffLen <= d.received
          BY <1>5, <1>8, <1>10, <2>2, <3>4, <3>a
        <4>2. g.cgi = (IF w.r = "DONE" THEN NULL ELSE "cgiUploadFirmware")
          BY <1>6, <2>1, <4>1 DEF SameSlot
        <4>3. Offset(d) = Offset(D)
          BY <1>5 DEF Offset
        <4>4. \/ Waiting(e) /\ Blockwise(d, "table", q) /\ state[e] # "finished"
              \/ reply[e] \in Answers[q] /\ Offset(d) # 0 /\ d.cgiPrivData
          <5>1. Blockwise(D, "table", q) => Blockwise(d, "table", q)
            BY <1>5, <4>3 DEF Blockwise
          <5> QED BY <1>5, <3>1, <3>4, <3>a, <4>3, <5>1 DEF Expecting, Ignored, Answered
        <4>5. ~(Blockwise(d, "table", q) /\ Offset(d) # 0 /\ d.cgiPrivData)
          BY DEF Blockwise
        <4>6. /\ Served(g, x.files, q, reply[e] \o w.out, pending[e] + w.sends)
              /\ \/ Waiting(e) /\ Blockwise(d, "table", q)
                 \/ Replied(g, q, reply[e] \o w.out)
          <5>1. d.url = q.url /\ d.len = q.len /\ d.len >= 0
            BY <1>5, <3>1
          <5>2. \/ Waiting(e) /\ Blockwise(d, "table", q)
                \/ reply[e] \in Answers[q] /\ Offset(d) # 0 /\ d.cgiPrivData
            BY <4>4
          <5> QED BY <1>5, <2>1, <3>2, <3>4, <3>a, <4>1, <4>2, <5>1, <5>2, BlockServed
        <4>7. state[e] = "finished" => Replied(g, q, reply[e] \o w.out)
          BY <4>4, <4>5, <4>6
        <4> QED BY <1>10, <3>a, <4>6, <4>7
      <3> QED BY <3>3, <3>4
    <2>3. x.d.conn = D.conn /\ Traces(flash, x.flash, e) /\ FilesOK(x.files)
          /\ \A h \in Handles : files[h].owner \notin {NULL, e} => x.files[h] = files[h]
      BY <1>2, <1>5, <1>6, <1>10
    <2>4. ProcessReturn(x) /\ Shape(x) /\ x.d \in SlotType
      BY <1>10
    <2> QED BY <1>1, <1>2, <2>2, <2>3, <2>4, <2>a, RepliesReturn
  <1>11. CASE w.r = "MORE" /\ ProcessReturn(w)
    BY <1>5, <1>10, <1>11
  <1>12. CASE w.r = "DONE" /\ ProcessReturn([w EXCEPT !.d.cgi = NULL])
    <2>a. PICK x : x = [w EXCEPT !.d.cgi = NULL]
      OBVIOUS
    <2>1. /\ Shape(x) /\ x.flash = w.flash /\ x.out = w.out /\ x.sends = w.sends
          /\ x.files = w.files /\ x.d = [w.d EXCEPT !.cgi = NULL]
      BY <1>5, <2>a DEF Shape, WorldFields, SlotFields
    <2>2. ProcessReturn(x)
      BY <1>12, <2>a
    <2>3. /\ x.d \in SlotType /\ x.d.conn = e /\ x.d.len = w.d.len /\ x.d.url = w.d.url
          /\ x.d.received = w.d.received /\ x.d.cgiPrivData = w.d.cgiPrivData
          /\ x.d.cgiData = w.d.cgiData /\ x.d.cgi = NULL
      BY <1>5, <2>1 DEF SlotType
    <2> QED BY <1>10, <1>12, <2>1, <2>2, <2>3
  <1> QED BY <1>4, <1>9, <1>11, <1>12

\* A CGI function only touches the file in hand, or one that was closed.
LEMMA EffectMine ==
    ASSUME NEW v, NEW w, Effect(v, w), v.files = files, NEW e,
           v.d.cgi \in FileCgis /\ v.d.cgiData \in Handles => files[v.d.cgiData].owner = e,
           files' = w.files
    PROVE  FilesMine(e)
  <1>1. SUFFICES ASSUME NEW h \in Handles, files[h].owner \notin {NULL, e}
                 PROVE  w.files[h] = files[h]
    BY DEF FilesMine
  <1>2. CASE NoFile(v, w)
    BY <1>2 DEF NoFile
  <1>3. CASE OpensFile(v, w)
    BY <1>1, <1>3 DEF OpensFile, OthersSame
  <1>4. CASE ReadsFile(v, w)
    BY <1>1, <1>4 DEF ReadsFile, OthersSame
  <1>5. CASE ClosesFile(v, w)
    BY <1>1, <1>5 DEF ClosesFile, OthersSame
  <1> QED BY <1>2, <1>3, <1>4, <1>5 DEF Effect

\* What has been sent is out: only an answer that is complete is closed, and
\* the CGI function goes on with the others.
LEMMA RepliesSent ==
    ASSUME FilesInv, UploadInv, ReplyInv, NEW c \in Conns, httpdSentCb(c)
    PROVE  ReplyInv'
  <1>1. /\ call = NoCall /\ call' = call /\ req' = req
        /\ pending[c] > 0 /\ state[c] # "none"
    BY DEF httpdSentCb
  <1>2. \A t \in Slots : WhereOf(call, t) = "net" /\ WhereOf(call', t) = "net"
    BY <1>1, NoLeft DEF NoCall
  <1>3. ASSUME Cared(c)
        PROVE  /\ InService(c) \/ Answered(c)
               /\ state[c] = "finished" => Answered(c)
    <2>1. ~Waiting(c)
      BY <1>1 DEF Waiting
    <2> QED BY <1>3, <2>1 DEF ReplyInv, ReplyOK
  <1>4. NULL \notin Cgis
    BY HttpdAssumption
  <1>5. CASE /\ httpdFindConnData(c) = {}
             /\ pending' = [pending EXCEPT ![c] = @ - 1]
             /\ UNCHANGED <<connData, files, flash, state, reply>>
    <2>1. Apart(c)
      <3>1. \A e \in Conns \ {c} : pending'[e] = pending[e]
        BY <1>5 DEF FilesInv, Types
      <3>2. \A t \in Slots : SlotSame(t)
        BY <1>1, <1>5 DEF SlotSame
      <3> QED BY <1>1, <1>5, <3>1, <3>2 DEF Apart, FilesMine
    <2>2. ASSUME Cared(c)
          PROVE  ReplyOK(c)'
      <3>1. SlotsOf(c)' = {}
        BY <1>5 DEF SlotsOf, httpdFindConnData
      <3>2. (InService(c) => InService(c)') /\ (Answered(c) => Answered(c)')
        BY <1>1, <1>5, <3>1 DEF InService, Answered
      <3> QED BY <1>3, <1>5, <2>2, <3>2 DEF ReplyOK
    <2> QED BY <1>1, <1>5, <2>1, <2>2, RepliesApart
  <1>6. ASSUME NEW s \in httpdFindConnData(c), Close(s),
               pending' = [pending EXCEPT ![c] = @ - 1]
        PROVE  ReplyInv'
    <2>1. s \in Slots /\ connData[s].conn = c /\ connData[s] \in SlotType
      BY DEF httpdFindConnData, FilesInv, Types
    <2> DEFINE d == [connData[s] EXCEPT !.cgi = NULL, !.conn = NULL]
    <2>2. d.conn = NULL
      BY <2>1 DEF SlotType
    <2>3. /\ connData' = [connData EXCEPT ![s] = d] /\ connData[s].cgi = NULL
          /\ UNCHANGED <<files, flash, reply>>
          /\ state' = [state EXCEPT ![c] = "finished"]
      BY <1>6, <2>1 DEF Close, httpdRetireConn
    <2> HIDE DEF d
    <2>4. /\ connData'[s].conn = NULL
          /\ \A t \in Slots : t # s => connData'[t] = connData[t] /\ connData[t].conn # c
      BY <2>1, <2>2, <2>3, HttpdAssumption DEF FilesInv, Types, PoolInv, Unique
    <2>5. state'[c] = "finished" /\ \A e \in Conns \ {c} : state'[e] = state[e]
      BY <2>3 DEF FilesInv, Types
    <2>6. Apart(c)
      <3>1. \A e \in Conns \ {c} : pending'[e] = pending[e]
        BY <1>6 DEF FilesInv, Types
      <3>2. \A t \in Slots : connData'[t].conn \in Conns \ {c} => SlotSame(t)
        BY <1>1, <2>4, HttpdAssumption DEF SlotSame
      <3> QED BY <1>1, <2>3, <2>5, <3>1, <3>2 DEF Apart, FilesMine
    <2>7. ASSUME Cared(c)
          PROVE  ReplyOK(c)'
      <3>1. SlotsOf(c)' = {}
        <4>1. \A t \in Slots : connData'[t].conn # c
          BY <2>4, HttpdAssumption
        <4> QED BY <4>1 DEF SlotsOf, httpdFindConnData
      <3>2. ~InService(c)
        <4>1. s \in SlotsOf(c)
          BY <2>1 DEF SlotsOf, httpdFindConnData
        <4> QED BY <1>4, <2>3, <4>1 DEF InService, Sending, Part, Cgis
      <3>3. Answered(c)'
        BY <1>1, <1>3, <2>3, <2>7, <3>1, <3>2 DEF Answered
      <3> QED BY <3>3 DEF ReplyOK
    <2> QED BY <2>5, <2>6, <2>7, RepliesApart
  <1>7. ASSUME NEW s \in httpdFindConnData(c), connData[s].cgi # NULL,
               \E x \in {Cgi(World(connData[s]), FALSE)} :
                  \E w \in {httpdFlushSendBuffer(x)} :
                     /\ SentNext(s, w)
                     /\ pending' = [pending EXCEPT ![c] = @ - 1 + w.sends]
        PROVE  ReplyInv'
    <2>1. PICK d \in SlotType : /\ d = connData[s] /\ s \in Slots /\ d.conn = c
                                /\ d.cgi \in Cgis /\ HeldBy(d, files) /\ d.cgi # NULL
      BY <1>7 DEF httpdFindConnData, FilesInv, Types, SlotType, Held
    <2>2. c # NULL
      BY HttpdAssumption
    <2>a. PICK v : v = World(d)
      OBVIOUS
    <2>b. PICK w : w = httpdFlushSendBuffer(Cgi(v, FALSE))
      OBVIOUS
    <2>3. SentNext(s, w) /\ pending' = [pending EXCEPT ![c] = @ - 1 + w.sends]
      BY <1>7, <2>1, <2>a, <2>b
    <2>4. Good(v) /\ v.d = d /\ v.files = files
      BY <2>1, <2>2, <2>a, GoodWorld DEF HasOpen, HeldBy
    <2>5. Effect(v, w)
      BY <2>1, <2>4, <2>b, CgiEffect
    <2>6. Shape(w) /\ w.d \in SlotType /\ w.d.conn = c /\ SameSlot(d, w.d) /\ FilesOK(w.files)
      BY <2>1, <2>4, <2>5 DEF Effect, SameSlot
    <2>c. PICK g : g = IF w.r = "MORE" THEN w.d ELSE [w.d EXCEPT !.cgi = NULL]
      OBVIOUS
    <2>7. /\ connData' = [connData EXCEPT ![s] = g] /\ files' = w.files /\ state' = state
          /\ reply' = [reply EXCEPT ![c] = @ \o w.out]
      <3>a. PICK x : x = IF w.r = "MORE" THEN w ELSE [w EXCEPT !.d.cgi = NULL]
        OBVIOUS
      <3>1. x.d = g /\ x.files = w.files /\ x.out = w.out
        BY <2>6, <2>c, <3>a DEF Shape, WorldFields, SlotFields
      <3> QED BY <2>1, <2>3, <3>a, <3>1 DEF SentNext, Finish
    <2>8. /\ g.conn = c /\ g.len = d.len /\ g.url = d.url /\ g.received = d.received
          /\ g.cgiData = w.d.cgiData
          /\ g.cgi = (IF w.r = "MORE" THEN w.d.cgi ELSE NULL)
      BY <2>6, <2>c DEF SlotType, SameSlot
    <2>9. /\ connData'[s] = g
          /\ \A t \in Slots : t # s => connData'[t] = connData[t] /\ connData[t].conn # c
      BY <2>1, <2>2, <2>7 DEF FilesInv, Types, PoolInv, Unique
    <2>10. Apart(c)
      <3>1. \A e \in Conns \ {c} : pending'[e] = pending[e]
        BY <2>3 DEF FilesInv, Types
      <3>2. \A e \in Conns \ {c} : reply'[e] = reply[e]
        BY <2>7
      <3>3. \A t \in Slots : connData'[t].conn \in Conns \ {c} => SlotSame(t)
        BY <1>1, <2>8, <2>9 DEF SlotSame
      <3>4. FilesMine(c)
        <4>1. d.cgi \in FileCgis /\ d.cgiData \in Handles => files[d.cgiData].owner = c
          BY <2>1, HttpdAssumption DEF HeldBy, Handles
        <4> QED BY <2>4, <2>5, <2>7, <4>1, EffectMine
      <3> QED BY <1>1, <2>7, <3>1, <3>2, <3>3, <3>4 DEF Apart
    <2>11. ASSUME Cared(c)
           PROVE  ReplyOK(c)'
      <3>1. SlotsOf(c) = {s}
        BY <2>1, <2>2 DEF FilesInv, PoolInv, Unique, SlotsOf, httpdFindConnData
      <3>2. ~Answered(c)
        BY <1>2, <2>1, <3>1 DEF Answered, Over, Ignored
      <3>3. InService(c) /\ state[c] # "finished"
        BY <1>3, <2>11, <3>2
      <3>a. PICK q : q = req[c]
        OBVIOUS
      <3>b. PICK rep : rep = reply[c]
        OBVIOUS
      <3>4. /\ d.cgi = Handler[q] /\ d.len >= 0 /\ d.received = d.len /\ d.url = q.url
            /\ Part(d, files, q, rep)
        BY <2>1, <3>1, <3>3, <3>a, <3>b DEF InService, Sending
      <3>5. Answering(w, q, rep)
        <4>1. FilesOK(files) /\ q \in Fits
          BY <2>11, <3>a DEF FilesInv, Types, Cared
        <4> QED BY <2>1, <2>2, <2>a, <2>b, <3>4, <4>1, NextCall
      <3>6. g.cgi = (IF w.r = "DONE" THEN NULL ELSE w.d.cgi)
        BY <2>8, <3>5 DEF Answering, Finishes, Continues
      <3>7. Served(g, w.files, q, rep \o w.out, pending'[c])
        BY <2>6, <2>8, <3>4, <3>5, <3>6, AskedServes
      <3>8. reply'[c] = rep \o w.out
        BY <2>7, <3>b DEF UploadInv, Domains
      <3>9. SlotsOf(c)' = {s}
        <4>1. \A t \in Slots : connData'[t].conn = c <=> t = s
          BY <2>1, <2>8, <2>9
        <4> QED BY <4>1 DEF SlotsOf, httpdFindConnData
      <3>10. WhereOf(call', s) = "net"
        BY <1>2, <2>1
      <3>11. /\ Served(g, files', req[c], reply'[c], pending'[c]) /\ FilesOK(files')
             /\ state'[c] # "finished"
        BY <2>6, <2>7, <3>3, <3>7, <3>8, <3>a
      <3> QED BY <1>1, <2>9, <2>11, <3>9, <3>10, <3>11, ServedOK
    <2> QED BY <1>1, <2>7, <2>10, <2>11, RepliesApart
  <1> QED BY <1>5, <1>6, <1>7 DEF httpdSentCb

\* A slot whose connection has gone is freed.
LEMMA RepliesDisconSlot ==
    ASSUME FilesInv, ReplyInv, DisconSlot
    PROVE  ReplyInv'
  <1> DEFINE s == call.slot
             gone == [D EXCEPT !.conn = NULL]
             v == World(gone)
             w == IF D.cgi = NULL THEN v ELSE Cgi(v, FALSE)
             g == [w.d EXCEPT !.cgi = NULL, !.conn = NULL]
  <1>1. /\ InDiscon /\ DisconNext /\ UNCHANGED <<state, req, received, reply, pending>>
        /\ D.conn # NULL
    BY DEF DisconSlot, net, Dead
  <1>2. s \in Slots /\ D = connData[s] /\ D \in SlotType
    BY <1>1 DEF FilesInv, PoolInv, CallOK, Types, D
  <1>3. HeldBy(D, files)
    BY <1>2 DEF FilesInv, Held
  <1>a. PICK e \in Conns : e = D.conn
    BY <1>1, <1>2 DEF SlotType
  <1>4. /\ gone \in SlotType /\ gone.conn = NULL /\ gone.cgi = D.cgi
        /\ gone.cgiData = D.cgiData
    BY <1>2 DEF SlotType
  <1>5. connData' = [connData EXCEPT ![s] = httpdRetireConn(w.d)] /\ files' = w.files
    BY DEF DisconSlot
  <1> HIDE DEF gone
  <1>6. HasOpen(gone, files)
    BY <1>3, <1>4 DEF HasOpen, HeldBy
  <1>7. Good(v) /\ v.d = gone /\ v.files = files
    BY <1>4, <1>6, GoodWorld
  <1> HIDE DEF v
  <1>8. FilesMine(e) /\ Shape(w)
    <2>1. CASE D.cgi = NULL
      BY <1>5, <1>7, <2>1 DEF FilesMine, Good
    <2>2. CASE D.cgi # NULL
      <3>1. Effect(v, w)
        BY <1>2, <1>4, <1>7, <2>2, CgiEffect DEF SlotType
      <3>2. v.d.cgi \in FileCgis /\ v.d.cgiData \in Handles => files[v.d.cgiData].owner = e
        BY <1>3, <1>4, <1>7, <1>a, HttpdAssumption DEF HeldBy, Handles
      <3> HIDE DEF w
      <3> QED BY <1>5, <1>7, <3>1, <3>2, EffectMine DEF Effect
    <2> QED BY <2>1, <2>2
  <1> HIDE DEF w
  <1>9. g.conn = NULL
    BY <1>8 DEF Shape, SlotFields
  <1>10. connData' = [connData EXCEPT ![s] = g]
    BY <1>5 DEF httpdRetireConn
  <1> HIDE DEF g
  <1>11. /\ connData'[s].conn = NULL
         /\ \A t \in Slots : t # s => connData'[t] = connData[t] /\ connData[t].conn # e
    BY <1>1, <1>2, <1>9, <1>10, <1>a DEF FilesInv, Types, PoolInv, Unique
  <1>12. \A t \in Slots : WhereOf(call, t) = "net" /\ WhereOf(call', t) = "net"
    BY <1>1, DisconCalls DEF FilesInv
  <1>13. Apart(e)
    <2>1. \A t \in Slots : connData'[t].conn \in Conns => SlotSame(t)
      BY <1>11, <1>12, HttpdAssumption DEF SlotSame
    <2> QED BY <1>1, <1>8, <2>1 DEF Apart
  <1>14. ASSUME Cared(e)
         PROVE  ReplyOK(e)'
    <2>1. SlotsOf(e)' = {}
      <3>1. \A t \in Slots : connData'[t].conn # e
        BY <1>11, HttpdAssumption
      <3> QED BY <3>1 DEF SlotsOf, httpdFindConnData
    <2>2. /\ Waiting(e) => Waiting(e)'
          /\ InService(e) => InService(e)'
          /\ Answered(e) => Answered(e)'
      BY <1>1, <2>1 DEF Waiting, InService, Answered
    <2> QED BY <1>1, <1>14, <2>2 DEF ReplyInv, ReplyOK
  <1>15. state'[e] # "none"
    BY <1>1, <1>2, <1>a DEF FilesInv, PoolInv, Unmade
  <1> QED BY <1>13, <1>14, <1>15, RepliesApart

\* Every step keeps the invariant, as long as a file can be opened when the
\* table is asked.
LEMMA ReplyNext ==
    FilesInv /\ UploadInv /\ ReplyInv /\ Memory /\ [Next]_vars => ReplyInv'
  <1> SUFFICES ASSUME FilesInv, UploadInv, ReplyInv, Memory, [Next]_vars PROVE ReplyInv'
    OBVIOUS
  <1>1. CASE Server
    BY <1>1, RepliesHead, RepliesHeadEnd, RepliesPost, RepliesNoUrl, RepliesNotFound,
       RepliesAskCgi, RepliesRest, RepliesDisconSlot DEF Server
  <1>2. CASE \E c \in Conns : Stack(c)
    BY <1>2, RepliesConnect, RepliesRecv, RepliesSent, RepliesRest DEF Stack
  <1>3. CASE UNCHANGED vars
    <2>1. UNCHANGED <<connData, files, req, reply, pending, state, call>>
      BY <1>3 DEF vars, net
    <2>2. Apart(NULL)
      BY <2>1 DEF Apart, FilesMine, SlotSame
    <2> QED BY <2>2, RepliesApart, HttpdAssumption
  <1> QED BY <1>1, <1>2, <1>3 DEF Next

\* Who answers, and if it is one for files, that there is one.
LEMMA HandlerOf ==
    ASSUME NEW q \in AllRequests
    PROVE  /\ Handler[q] \in Cgis \cup {"none"}
           /\ Handler[q] \in FileCgis => q.url \in DOMAIN File /\ Len(File[q.url]) \in Nat
  <1>1. DOMAIN BuiltInUrls \in SUBSET Nat /\ \A i \in DOMAIN BuiltInUrls : BuiltInUrls[i].cgi \in Cgis
    BY HttpdAssumption
  <1>2. CASE Taking(q) = {}
    BY <1>2 DEF Handler, FileCgis
  <1>3. CASE Taking(q) # {}
    <2> DEFINE p == CHOOSE i \in Taking(q) : \A j \in Taking(q) : i <= j
    <2>1. Taking(q) \in SUBSET Nat
      BY <1>1 DEF Taking
    <2>2. p \in Taking(q)
      BY <1>3, <2>1, Least
    <2>3. Handler[q] = BuiltInUrls[p].cgi
      BY <1>3 DEF Handler
    <2> HIDE DEF p
    <2>4. Handler[q] \in Cgis
      BY <1>1, <2>2, <2>3 DEF Taking
    <2>5. Handler[q] \in FileCgis => q.url \in DOMAIN File
      BY <2>2, <2>3 DEF Taking, Passes
    <2>6. q.url \in DOMAIN File => Len(File[q.url]) \in Nat
      BY HttpdAssumption
    <2> QED BY <2>4, <2>5, <2>6
  <1> QED BY <1>2, <1>3

\* Every request has answers, which are sequences.
LEMMA AnswersTyped ==
    ASSUME NEW q \in AllRequests
    PROVE  Answers[q] # {} /\ \A a \in Answers[q] : a \in Seq(Int)
  <1>1. /\ \A n \in Nat : Headed(Positions(n)) \in Seq(Int)
        /\ Code(404) \in Seq(Int) /\ Code(302) \in Seq(Int) /\ Code(CommandReply) \in Seq(Int)
        /\ Code(401) \in Seq(Int) /\ Code(501) \in Seq(Int)
        /\ Code(200) \in Seq(Int) /\ Code(400) \in Seq(Int)
    <2>1. ASSUME NEW n \in Nat
          PROVE  Headed(Positions(n)) \in Seq(Int)
      <3>1. Positions(n) \in Seq(Int)
        BY <2>1, PositionsFollow
      <3> QED BY <3>1, HeadFollows
    <2> QED BY <2>1 DEF Code, CommandReply
  <1>2. /\ Handler[q] \in Cgis \cup {"none"}
        /\ Handler[q] \in FileCgis => q.url \in DOMAIN File /\ Len(File[q.url]) \in Nat
    BY HandlerOf
  <1>3. CASE Handler[q] = "none"
    <2>1. Answers[q] = {Code(404)}
      BY <1>3, AnswersOf
    <2> QED BY <1>1, <2>1
  <1>4. CASE Handler[q] = "cgiRedirect"
    <2>1. Answers[q] = {Code(302)}
      BY <1>4, AnswersOf
    <2> QED BY <1>1, <2>1
  <1>5. CASE Handler[q] = "cmd"
    <2>1. Answers[q] = {Code(CommandReply)}
      BY <1>5, AnswersOf
    <2> QED BY <1>1, <2>1
  <1>6. CASE Handler[q] = "authBasic"
    <2>1. Answers[q] = {Code(401)}
      BY <1>6, AnswersOf
    <2> QED BY <1>1, <2>1
  <1>7. CASE Handler[q] = "cgiEspFsHook"
    <2> DEFINE whole == Headed(Positions(Len(File[q.url])))
    <2>1. whole \in Seq(Int) /\ Code(501) \in Seq(Int)
      <3>1. Len(File[q.url]) \in Nat
        BY <1>2, <1>7 DEF FileCgis
      <3> QED BY <1>1, <3>1, Zenon
    <2> HIDE DEF whole
    <2>2. Answers[q] = FileAnswers(q)
      BY <1>7 DEF Answers
    <2>3. /\ FileAnswers(q) \subseteq {Code(501), whole}
          /\ Code(501) \in FileAnswers(q) \/ whole \in FileAnswers(q)
      <3>1. FileAnswers(q) = CASE q.url \notin Gzip \/ q.gzip = "gzip" -> {whole}
                               [] q.url \in Gzip /\ q.gzip = "other" -> {Code(501)}
                               [] OTHER -> {Code(501), whole}
        BY Zenon DEF FileAnswers, Headed, Code, whole
      <3> QED BY <3>1
    <2> QED BY <2>1, <2>2, <2>3
  <1>8. CASE Handler[q] = "cgiEspFsTemplate"
    <2>1. Answers[q] = {WholeText(q)}
      BY <1>8, AnswersOf
    <2>2. WholeText(q) \in Seq(Int)
      <3>1. Len(File[q.url]) \in Nat
        BY <1>2, <1>8 DEF FileCgis
      <3>2. TemplateText(q.url, 0, Len(File[q.url])) \in Seq(Int)
        BY <3>1, TextSeq
      <3> QED BY <3>2, HeadFollows DEF WholeText
    <2> QED BY <2>1, <2>2
  <1>9. CASE Handler[q] = "cgiReadFlash"
    <2>1. Answers[q] = {WholeFlash}
      BY <1>9, AnswersOf
    <2>2. WholeFlash \in Seq(Int)
      BY <1>1, HttpdAssumption DEF WholeFlash
    <2> QED BY <2>1, <2>2
  <1>10. CASE Handler[q] = "cgiUploadFirmware"
    <2>a. PICK a, b : a = Code(200) /\ b = Code(400)
      OBVIOUS
    <2>1. Answers[q] = {a} \/ Answers[q] = {b}
      BY <1>10, <2>a, AnswersOf
    <2>2. a \in Seq(Int) /\ b \in Seq(Int)
      BY <1>1, <2>a
    <2> QED BY <2>1, <2>2, Zenon
  <1> QED BY <1>2, <1>3, <1>4, <1>5, <1>6, <1>7, <1>8, <1>9, <1>10 DEF Cgis

\* The invariant says what a client may have received.
LEMMA ReplyImplies ==
    ASSUME FilesInv, ReplyInv
    PROVE  RepliesRight
  <1> SUFFICES ASSUME NEW c \in Conns, state[c] # "none", ~Streamed(req[c]), req[c] \in Fits
               PROVE  \E a \in Answers[req[c]] :
                         IsPrefix(reply[c], a) /\ (state[c] = "finished" => reply[c] = a)
    BY DEF RepliesRight
  <1>a. PICK q : q = req[c]
    OBVIOUS
  <1>1. q \in AllRequests /\ q # NULL
    BY <1>a DEF Fits, AllRequests
  <1>2. ReplyOK(c)
    BY <1>1, <1>a DEF ReplyInv, Cared
  <1>3. Answers[q] # {} /\ \A a \in Answers[q] : a \in Seq(Int)
    BY <1>1, AnswersTyped
  <1>4. \A a \in Answers[q] : IsPrefix(<<>>, a) /\ IsPrefix(a, a)
    BY <1>3, Continued
  <1>5. CASE Answered(c)
    BY <1>4, <1>5, <1>a DEF Answered
  <1>6. CASE Waiting(c) /\ state[c] # "finished"
    BY <1>3, <1>4, <1>6, <1>a DEF Waiting
  <1>7. CASE InService(c) /\ state[c] # "finished"
    BY <1>7, <1>a DEF InService
  <1> QED BY <1>2, <1>5, <1>6, <1>7 DEF ReplyOK

\* A client receives the answer to its own request, never anything out of
\* place, and all of it if the server closes the connection, provided that
\* a file can be opened whenever the table is asked.
THEOREM RepliesCorrect == Spec /\ []Memory => []RepliesRight
  <1>1. Init => FilesInv /\ UploadInv /\ ReplyInv
    BY FilesInit, UploadInit, ReplyInit
  <1>2. FilesInv /\ UploadInv /\ ReplyInv /\ Memory /\ [Next]_vars
           => (FilesInv /\ UploadInv /\ ReplyInv)'
    BY FilesNext, UploadNext, ReplyNext
  <1>3. FilesInv /\ UploadInv /\ ReplyInv => RepliesRight
    BY ReplyImplies
  <1> QED BY <1>1, <1>2, <1>3, PTL DEF Spec

\* Every file that is open is in the hands of a connection.
NoLeaks == \A h \in Handles : files[h].owner # NULL => ~files[h].streamed

\* Then there is one more handle than files while the table is asked: no
\* two slots have the same file, and the slot in hand has none.
LEMMA RoomForOne ==
    ASSUME FilesInv, NoLeaks, MaxConn <= MaxFiles
    PROVE  Memory
  <1> SUFFICES ASSUME InProcess, \A h \in Handles : files[h].owner # NULL
               PROVE  FALSE
    BY DEF Memory
  <1>1. call.slot \in Slots /\ D = connData[call.slot]
    BY InHand
  <1>2. \A h \in Handles : ~Serves(D, h)
    BY LeftBehind DEF NoLeaks
  <1>3. \A h \in Handles : \E s \in Slots \ {call.slot} : Serves(connData[s], h)
    BY <1>1, <1>2 DEF FilesInv, Kept, NoLeaks
  <1> DEFINE T == Slots \ {call.slot}
             f == [h \in Handles |-> CHOOSE s \in T : Serves(connData[s], h)]
  <1>4. f \in [Handles -> T] /\ \A h \in Handles : Serves(connData[f[h]], h)
    BY <1>3
  <1>5. /\ IsFiniteSet(Handles) /\ Cardinality(Handles) = MaxFiles
        /\ IsFiniteSet(Slots) /\ Cardinality(Slots) = MaxConn
    <2>1. MaxFiles \in Nat /\ MaxConn \in Nat \ {0}
      BY HttpdAssumption
    <2>2. IsFiniteSet(1 .. MaxFiles) /\ Cardinality(1 .. MaxFiles) = MaxFiles
      BY <2>1, FS_Interval
    <2>3. IsFiniteSet(0 .. MaxConn - 1) /\ Cardinality(0 .. MaxConn - 1) = MaxConn
      BY <2>1, FS_Interval
    <2> QED BY <2>2, <2>3 DEF Handles, Slots
  <1>6. IsFiniteSet(T) /\ Cardinality(T) = MaxConn - 1
    BY <1>1, <1>5, FS_RemoveElement
  <1>7. Cardinality(T) < Cardinality(Handles)
    BY <1>5, <1>6, HttpdAssumption
  <1> HIDE DEF f, T
  <1>8. \E g, h \in Handles : g # h /\ f[g] = f[h]
    BY <1>4, <1>5, <1>6, <1>7, FS_PigeonHole
  <1> QED BY <1>4, <1>8 DEF Serves

\* A step opens files only for requests of one block.
LEMMA NoLeaksStep ==
    ASSUME NoLeaks, NEW v, NEW w, Effect(v, w), v.files = files, files' = w.files,
           v.d.cgi \in FileCgis /\ v.d.cgiData = NULL /\ v.d.conn # NULL =>
              ~(v.d.len > MaxPost)
    PROVE  NoLeaks'
  <1>1. SUFFICES ASSUME NEW h \in Handles, w.files[h].owner # NULL
                 PROVE  ~w.files[h].streamed
    BY DEF NoLeaks
  <1>2. CASE NoFile(v, w)
    BY <1>1, <1>2 DEF NoFile, NoLeaks
  <1>3. CASE OpensFile(v, w)
    <2>1. CASE h = w.d.cgiData
      BY <1>3, <2>1 DEF OpensFile
    <2>2. CASE h # w.d.cgiData
      BY <1>1, <1>3, <2>2 DEF OpensFile, OthersSame, NoLeaks
    <2> QED BY <2>1, <2>2
  <1>4. CASE ReadsFile(v, w)
    <2>1. CASE h = v.d.cgiData
      BY <1>1, <1>4, <2>1 DEF ReadsFile, NoLeaks
    <2>2. CASE h # v.d.cgiData
      BY <1>1, <1>4, <2>2 DEF ReadsFile, OthersSame, NoLeaks
    <2> QED BY <2>1, <2>2
  <1>5. CASE ClosesFile(v, w)
    BY <1>1, <1>5 DEF ClosesFile, OthersSame, NoLeaks
  <1> QED BY <1>2, <1>3, <1>4, <1>5 DEF Effect

\* A request that is no upload has come in one block.
LEMMA NotStreamed ==
    ASSUME FilesInv, \A q \in AllRequests : ~Streamed(q), NEW s \in Slots,
           NEW d, d = connData[s], d.conn # NULL, ~Uploading(d.conn)
    PROVE  d.len \in Nat => ~(d.len > MaxPost)
  <1>1. d \in SlotType /\ d.conn \in Conns
    BY DEF FilesInv, Types, SlotType
  <1>2. SlotInv(d, LeftOf(call, s), WhereOf(call, s), req, received)
    BY DEF FilesInv, SlotsInv
  <1>3. req[d.conn] # NULL /\ (d.len >= 0 => d.len = req[d.conn].len)
    BY <1>2 DEF SlotInv, Asks, Counted
  <1>4. req[d.conn] \in AllRequests
    BY <1>1, <1>3 DEF FilesInv, Types, AllRequests
  <1> QED BY <1>3, <1>4 DEF Streamed, Uploading

\* Only files for requests of one block are open.
LEMMA LeaksAskCgi ==
    ASSUME FilesInv, UploadInv, NoLeaks, \A q \in AllRequests : ~Streamed(q), AskCgi
    PROVE  NoLeaks'
  <1>1. InProcess /\ Matching # {}
    BY DEF AskCgi
  <1>2. PICK stale \in BOOLEAN : \E x \in {Cgi(World(Asked), stale)} :
          \E w \in {httpdFlushSendBuffer(x)} :
             \/ files' = files
             \/ ProcessReturn(w)
             \/ ProcessReturn([w EXCEPT !.d.cgi = NULL])
    BY DEF AskCgi
  <1>a. PICK w : w = httpdFlushSendBuffer(Cgi(World(Asked), stale))
    OBVIOUS
  <1>b. PICK v : v = World(Asked)
    OBVIOUS
  <1>3. /\ Asked \in SlotType /\ Asked.cgi \in Cgis /\ Asked.cgiData = NULL
        /\ Asked.len = D.len /\ Asked.conn = D.conn /\ Shape(w)
    BY <1>1, <1>a, AskedSlot
  <1>4. Good(v) /\ v.d = Asked /\ v.files = files
    BY <1>3, <1>b, GoodWorld DEF HasOpen
  <1>5. Effect(v, w)
    <2>1. v.d.cgi \in Cgis /\ w = httpdFlushSendBuffer(Cgi(v, stale))
      BY <1>3, <1>4, <1>a, <1>b
    <2> QED BY <1>4, <2>1, CgiEffect, Zenon
  <1>6. files' = files \/ files' = w.files
    <2>1. files' = files \/ ProcessReturn(w) \/ ProcessReturn([w EXCEPT !.d.cgi = NULL])
      BY <1>2, <1>a
    <2>2. PICK u : u = [w EXCEPT !.d.cgi = NULL]
      OBVIOUS
    <2>3. u.files = w.files
      BY <1>3, <2>2 DEF Shape, WorldFields
    <2>4. \A x : ProcessReturn(x) => files' = x.files
      BY DEF ProcessReturn, Finish
    <2> QED BY <2>1, <2>2, <2>3, <2>4, Zenon
  <1>7. CASE files' = files
    BY <1>7 DEF NoLeaks
  <1>8. CASE files' = w.files
    <2>1. call.slot \in Slots /\ D = connData[call.slot] /\ D.conn # NULL /\ D \in SlotType
      BY <1>1, InHand
    <2>2. CASE ~Uploading(D.conn)
      <3>1. D.len \in Nat => ~(D.len > MaxPost)
        BY <2>1, <2>2, NotStreamed
      <3>2. D.len \notin Nat => ~(D.len > MaxPost)
        BY <2>1, HttpdAssumption DEF SlotType
      <3> QED BY <1>3, <1>4, <1>5, <1>8, <3>1, <3>2, NoLeaksStep
    <2>3. CASE Uploading(D.conn)
      <3>1. \/ w.r \in {"NOTFOUND", "AUTHENTICATED"}
            \/ Asked.cgi = "cgiUploadFirmware"
        BY <1>1, <1>a, <2>3, AskedUpload
      <3>2. CASE Asked.cgi = "cgiUploadFirmware"
        BY <1>4, <1>5, <1>8, <3>2, NoLeaksStep DEF FileCgis
      <3>3. CASE w.r \in {"NOTFOUND", "AUTHENTICATED"}
        <4>1. NULL \notin Handles
          BY HttpdAssumption DEF Handles
        <4>2. NoFile(v, w)
          BY <1>3, <1>4, <1>5, <3>3, <4>1 DEF Effect, OpensFile, ReadsFile, ClosesFile
        <4> QED BY <1>4, <1>8, <4>2 DEF NoFile, NoLeaks
      <3> QED BY <3>1, <3>2, <3>3
    <2> QED BY <2>2, <2>3
  <1> QED BY <1>6, <1>7, <1>8

\* So it stays when a CGI function goes on with its answer,
LEMMA LeaksSent ==
    ASSUME FilesInv, UploadInv, NoLeaks, \A q \in AllRequests : ~Streamed(q),
           NEW c \in Conns, httpdSentCb(c)
    PROVE  NoLeaks'
  <1>1. \/ files' = files
        \/ \E s \in httpdFindConnData(c) :
              /\ connData[s].cgi # NULL
              /\ \E x \in {Cgi(World(connData[s]), FALSE)} :
                 \E w \in {httpdFlushSendBuffer(x)} : SentNext(s, w)
    BY DEF httpdSentCb, Close
  <1>2. CASE files' = files
    BY <1>2 DEF NoLeaks
  <1>3. ASSUME NEW s \in httpdFindConnData(c), connData[s].cgi # NULL,
               \E x \in {Cgi(World(connData[s]), FALSE)} :
                 \E w \in {httpdFlushSendBuffer(x)} : SentNext(s, w)
        PROVE  NoLeaks'
    <2>1. PICK d \in SlotType : /\ d = connData[s] /\ s \in Slots /\ d.conn = c
                                /\ d.cgi \in Cgis /\ HeldBy(d, files) /\ d.cgi # NULL
      BY <1>3 DEF httpdFindConnData, FilesInv, Types, SlotType, Held
    <2>2. c # NULL
      BY HttpdAssumption
    <2>a. PICK v : v = World(d)
      OBVIOUS
    <2>b. PICK w : w = httpdFlushSendBuffer(Cgi(v, FALSE))
      OBVIOUS
    <2>3. SentNext(s, w)
      BY <1>3, <2>1, <2>a, <2>b
    <2>4. Good(v) /\ v.d = d /\ v.files = files
      BY <2>1, <2>2, <2>a, GoodWorld DEF HasOpen, HeldBy
    <2>5. Effect(v, w)
      BY <2>1, <2>4, <2>b, CgiEffect
    <2>6. files' = w.files
      BY <2>3, <2>5 DEF SentNext, Finish, Effect, Shape, WorldFields
    <2>7. d.cgi \in FileCgis => ~(d.len > MaxPost)
      <3>1. CASE ~Uploading(c)
        <4>1. d.len \in Nat => ~(d.len > MaxPost)
          BY <2>1, <2>2, <3>1, NotStreamed
        <4>2. d.len \notin Nat => ~(d.len > MaxPost)
          BY <2>1, HttpdAssumption DEF SlotType
        <4> QED BY <4>1, <4>2
      <3>2. CASE Uploading(c)
        <4>1. WhereOf(call, s) = "net"
          BY NoLeft DEF httpdSentCb, NoCall
        <4>2. Routed(d, call, "net", req[c])
          BY <2>1, <3>2, <4>1 DEF UploadInv, UploadOK, Routes, SlotsOf, httpdFindConnData
        <4> QED BY <2>1, <4>2 DEF Routed, FileCgis
      <3> QED BY <3>1, <3>2
    <2> QED BY <2>4, <2>5, <2>6, <2>7, NoLeaksStep
  <1> QED BY <1>1, <1>2, <1>3

\* when the slot of a closed connection is given up,
LEMMA LeaksDisconSlot ==
    ASSUME FilesInv, NoLeaks, DisconSlot
    PROVE  NoLeaks'
  <1> DEFINE gone == [D EXCEPT !.conn = NULL]
             v == World(gone)
             w == IF D.cgi = NULL THEN v ELSE Cgi(v, FALSE)
  <1>1. InDiscon /\ files' = w.files
    BY DEF DisconSlot
  <1>2. call.slot \in Slots /\ D = connData[call.slot] /\ D \in SlotType
    BY <1>1 DEF FilesInv, PoolInv, CallOK, Types, D
  <1>3. HeldBy(D, files)
    BY <1>2 DEF FilesInv, Held
  <1>4. /\ gone \in SlotType /\ gone.conn = NULL /\ gone.cgi = D.cgi
        /\ gone.cgiData = D.cgiData
    BY <1>2 DEF SlotType
  <1> HIDE DEF gone
  <1>5. HasOpen(gone, files)
    BY <1>3, <1>4 DEF HasOpen, HeldBy
  <1>6. Good(v) /\ v.d = gone /\ v.files = files
    BY <1>4, <1>5, GoodWorld
  <1> HIDE DEF v
  <1>7. CASE D.cgi = NULL
    BY <1>1, <1>6, <1>7 DEF NoLeaks
  <1>8. CASE D.cgi # NULL
    <2>1. Effect(v, w)
      BY <1>2, <1>4, <1>6, <1>8, CgiEffect DEF SlotType
    <2> HIDE DEF w
    <2> QED BY <1>1, <1>4, <1>6, <2>1, NoLeaksStep
  <1> QED BY <1>7, <1>8

\* and in every step, if requests that are no uploads fit into one block.
LEMMA LeaksNext ==
    ASSUME FilesInv, UploadInv, NoLeaks, \A q \in AllRequests : ~Streamed(q), [Next]_vars
    PROVE  NoLeaks'
  <1>1. AskCgi \/ (\E c \in Conns : httpdSentCb(c)) \/ DisconSlot \/ files' = files
    <2>1. CASE Server
      <3>1. HeadByte \/ HeadEnd \/ PostByte \/ DisconSkip => files' = files
        BY DEF HeadByte, HeadEnd, PostByte, DisconSkip
      <3>2. NoUrl => files' = files
        <4>1. NoUrl => InProcess /\ ProcessReturn(World(D))
          BY DEF NoUrl
        <4>2. InProcess => Shape(World(D)) /\ World(D).files = files
          BY InHand, EmptyWorld DEF Empty
        <4> QED BY <4>1, <4>2 DEF ProcessReturn, Finish, Shape, WorldFields
      <3>3. NotFound => files' = files
        <4> SUFFICES ASSUME NotFound PROVE files' = files
          OBVIOUS
        <4>a. PICK d : d = [D EXCEPT !.cgi = NULL]
          OBVIOUS
        <4>b. PICK x : x = httpdSend(World(d), <<404>>)
          OBVIOUS
        <4>c. PICK w : w = httpdFlushSendBuffer(x)
          OBVIOUS
        <4>1. InProcess /\ ProcessReturn(w)
          BY <4>a, <4>b, <4>c DEF NotFound
        <4>2. d \in SlotType
          BY <4>1, <4>a, InHand DEF SlotType
        <4>3. Shape(World(d)) /\ World(d).files = files /\ World(d).sends \in Nat
          BY <4>2, EmptyWorld DEF Empty
        <4>4. Passive(World(d), x)
          BY <4>3, <4>b, PassiveSend
        <4>5. Passive(x, w)
          BY <4>4, <4>c, PassiveFlush DEF Passive
        <4> QED BY <4>1, <4>3, <4>4, <4>5 DEF Passive, ProcessReturn, Finish, Shape, WorldFields
      <3> QED BY <2>1, <3>1, <3>2, <3>3 DEF Server
    <2>2. ASSUME NEW c \in Conns, Stack(c)
          PROVE  httpdSentCb(c) \/ files' = files
      BY <2>2 DEF Stack, httpdConnectCb, httpdRecvCb, httpdDisconCb, Leave
    <2>3. CASE UNCHANGED vars
      BY <2>3 DEF vars
    <2> QED BY <2>1, <2>2, <2>3 DEF Next
  <1>2. files' = files => NoLeaks'
    BY DEF NoLeaks
  <1> QED BY <1>1, <1>2, LeaksAskCgi, LeaksSent, LeaksDisconSlot

\* The same without the proviso, if there is memory for a file on every
\* connection and requests that are no uploads fit into one block.
THEOREM RepliesAlways ==
    ASSUME MaxConn <= MaxFiles, \A q \in AllRequests : ~Streamed(q)
    PROVE  Spec => []RepliesRight
  <1> DEFINE Inv == FilesInv /\ UploadInv /\ ReplyInv /\ NoLeaks
  <1>1. Init => Inv
    BY FilesInit, UploadInit, ReplyInit DEF Init, NoLeaks, Closed
  <1>2. Inv /\ [Next]_vars => Inv'
    BY FilesNext, UploadNext, RoomForOne, ReplyNext, LeaksNext
  <1>3. Inv => RepliesRight
    BY ReplyImplies
  <1> HIDE DEF Inv
  <1> QED BY <1>1, <1>2, <1>3, PTL DEF Spec
=============================================================================
