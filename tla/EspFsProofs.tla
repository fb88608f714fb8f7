---------------------------- MODULE EspFsProofs ----------------------------
(***************************************************************************)
(* Theorems about the file system: for every list of files, every base     *)
(* address and format, a file is found under its name and no other is      *)
(* (OpensRight of EspFs), and one that is stored as it is is read as it    *)
(* was packed (RoundTrip).                                                 *)
(*                                                                         *)
(* The image is a chain of headers.  The proofs follow it by a function    *)
(* "at" that gives the address of every file's header, and of the last     *)
(* one behind them (Layout).                                               *)
(***************************************************************************)
EXTENDS EspFs, SequenceTheorems, FiniteSetTheorems, WellFoundedInduction, TLAPS

\* A sequence, of whatever.
IsSeq(s) == \E S : s \in Seq(S)

\* Files that are in the image, and the places an espFsOpen comes to.
Stored == {i \in 1 .. packed : input.files[i].data # <<>>}
Stops == Stored \cup {packed + 1}
First(i) == \A j \in Stored : i <= j
Follows(i, j) == i < j /\ \A m \in Stored : m <= i \/ j <= m

FileName(i) == RealName(input.files[i].name)
FileData(i) == input.files[i].data

\* The name of file i is behind the header at a, and its data if it is stored
\* as it is.
NameAt(a, n) ==
    /\ \A j \in 1 .. Len(n) : image[a + HeaderSize + j] = n[j]
    /\ image[a + HeaderSize + Len(n) + 1] = 0
DataAt(a, d) == \A j \in 1 .. Len(d) : image[a + j] = d[j]
EndOf(a) == a + HeaderSize + headers[a].nameLen + Aligned(headers[a].fileLenComp)
EntryAt(a, i) ==
    /\ a \in DOMAIN headers
    /\ headers[a].flags = 0 /\ headers[a].nameLen = NameLen(FileName(i))
    /\ headers[a].fileLenComp \in Nat /\ EndOf(a) <= Len(image)
    /\ NameAt(a, FileName(i))
    /\ headers[a].compression = COMPRESS_NONE =>
          /\ headers[a].fileLenComp = Len(FileData(i))
          /\ DataAt(a + HeaderSize + headers[a].nameLen, FileData(i))

\* mkespfsimage is running; and what comes behind its last file.
Packing == call.at \in {"main", "sink", "poll", "end"}
LastAt(a) ==
    IF Packing THEN a = Len(image)
    ELSE packed = Len(input.files) /\ a \in DOMAIN headers /\ headers[a].flags = FLAG_LASTFILE

Layout(at) ==
    /\ at \in [Stops -> Nat] /\ LastAt(at[packed + 1])
    /\ \A i \in Stops : at[i] % 4 = 0 /\ (First(i) => at[i] = 0)
    /\ \A i \in Stored : EntryAt(at[i], i)
    /\ \A i \in Stored, j \in Stops : Follows(i, j) => at[j] = EndOf(at[i])

\* The encoder is fed and asked in the order it wants.
EncoderFields == {"fmt", "state", "flags", "input_size", "match_scan_index", "match_length",
                  "match_pos", "outgoing_bits", "outgoing_bits_count", "current_byte",
                  "bit_index", "buffer"}
Shape(p) == DOMAIN p = {"e", "out", "room"} /\ DOMAIN p.e = EncoderFields /\ IsSeq(p.out)
NotFinishing(e) == "IS_FINISHING" \notin e.flags /\ "ON_FINAL_LITERAL" \notin e.flags
Feeding(e) == NotFinishing(e) /\ e.state \notin {"DONE", "FLUSH_BITS"}
Compressing ==
    call.at \in {"sink", "poll", "end"} =>
        /\ DOMAIN call = {"at", "left", "r", "p"} /\ Shape(call.p) /\ IsSeq(call.r)
        /\ packed < Len(input.files) /\ File.data # <<>>
        /\ call.at = "sink" => NotFinishing(call.p.e) /\ call.p.e.state = "NOT_FULL"
        /\ call.at = "poll" => call.left = <<>> \/ Feeding(call.p.e)

PackInv ==
    /\ input \in Inputs /\ packed \in 0 .. Len(input.files) /\ IsSeq(image)
    /\ call.at \in {"main", "sink", "poll", "end", "ready", "open", "feed", "decode"}
    /\ \E at : Layout(at)
    /\ Compressing

\* File k is the one a name stands for.
IsNamed(k, n) ==
    /\ k \in Stored /\ FileName(k) = Stripped(n)
    /\ \A i \in Stored : i < k => FileName(i) # Stripped(n)

\* What espFsOpen has passed has other names.
Walking ==
    /\ DOMAIN call = {"at", "p"}
    /\ \E at : Layout(at) /\ \E k \in Stops :
        /\ call.p = input.base + at[k]
        /\ \A i \in Stored : i < k => FileName(i) # Stripped(name)

\* An open file is the one asked for.  If it is stored as it is, what has
\* been read is its beginning.
FileFields == {"head", "posStart", "posDecomp", "posComp", "dec"}
Holding ==
    /\ DOMAIN fh = FileFields /\ fh.posStart \in Nat /\ name # NULL
    /\ \E at : Layout(at) /\ \E k \in Stored :
        /\ IsNamed(k, name) /\ fh.head = headers[at[k]]
        /\ fh.posStart = input.base + at[k] + HeaderSize + headers[at[k]].nameLen
        /\ fh.head.compression = COMPRESS_NONE =>
              /\ fh.dec = NULL /\ data \in Seq(Nat) /\ Len(data) <= Len(FileData(k))
              /\ fh.posComp = fh.posStart + Len(data)
              /\ \A j \in 1 .. Len(data) : data[j] = FileData(k)[j]
              /\ short => Len(data) = Len(FileData(k))

DecodeFields == {"at", "len", "decoded", "elen", "p"}
ReadInv ==
    /\ espFsData \in {NULL, input.base} /\ name \in Asked \cup {NULL}
    /\ espFsData # NULL => input.base % 4 = 0 /\ ~Packing
    /\ espFsData = NULL \/ name = NULL => fh = NoFile
    /\ espFsData = NULL => name = NULL
    /\ call.at = "ready" => call = Ready
    /\ call.at = "open" => fh = NoFile /\ name # NULL /\ data = <<>> /\ ~short /\ Walking
    /\ call.at \in {"feed", "decode"} =>
          fh # NoFile /\ fh.head.compression # COMPRESS_NONE
    /\ call.at = "decode" => DOMAIN call = DecodeFields
    /\ fh # NoFile => Holding
    /\ call.at # "open" /\ name # NULL /\ fh = NoFile => Named(name) = {}

FsInv == PackInv /\ ReadInv

-----------------------------------------------------------------------------
(* Sequences, names and addresses                                          *)

\* What a sequence is made of two.
LEMMA Joining ==
    ASSUME NEW s, NEW t, IsSeq(s), IsSeq(t)
    PROVE  /\ IsSeq(s \o t) /\ Len(s) \in Nat /\ Len(t) \in Nat
           /\ Len(s \o t) = Len(s) + Len(t)
           /\ \A i \in 1 .. Len(s) : (s \o t)[i] = s[i]
           /\ \A i \in 1 .. Len(t) : (s \o t)[Len(s) + i] = t[i]
  <1>1. PICK S, T : s \in Seq(S) /\ t \in Seq(T)
    BY DEF IsSeq
  <1>2. PICK U : U = S \cup T
    OBVIOUS
  <1>3. s \in Seq(U) /\ t \in Seq(U)
    BY <1>1, <1>2, SeqMonotonic
  <1>4. Len(s) \in Nat /\ Len(t) \in Nat
    BY <1>3
  <1>5. /\ s \o t \in Seq(U) /\ Len(s \o t) = Len(s) + Len(t)
        /\ \A i \in 1 .. Len(s) + Len(t) : (s \o t)[i] = IF i <= Len(s) THEN s[i] ELSE t[i - Len(s)]
    BY <1>3, ConcatProperties
  <1>6. \A i \in 1 .. Len(t) : Len(s) + i \in 1 .. Len(s) + Len(t) /\ ~(Len(s) + i <= Len(s))
                                /\ Len(s) + i - Len(s) = i
    BY <1>4
  <1>7. \A i \in 1 .. Len(s) : i \in 1 .. Len(s) + Len(t) /\ i <= Len(s)
    BY <1>4
  <1> QED BY <1>4, <1>5, <1>6, <1>7 DEF IsSeq

\* One more element.
LEMMA Appending ==
    ASSUME NEW s, IsSeq(s), NEW x
    PROVE  IsSeq(Append(s, x))
  <1>1. PICK S : s \in Seq(S)
    BY DEF IsSeq
  <1>2. s \in Seq(S \cup {x})
    BY <1>1, SeqMonotonic
  <1>3. Append(s, x) \in Seq(S \cup {x})
    BY <1>2
  <1> QED BY <1>3 DEF IsSeq

\* Sequences that are the same everywhere.
LEMMA SameSeq ==
    ASSUME NEW s, IsSeq(s), NEW t, IsSeq(t), Len(s) = Len(t), \A i \in 1 .. Len(s) : s[i] = t[i]
    PROVE  s = t
  <1>1. PICK S, T : s \in Seq(S) /\ t \in Seq(T)
    BY DEF IsSeq
  <1>2. PICK U : U = S \cup T
    OBVIOUS
  <1>3. s \in Seq(U) /\ t \in Seq(U)
    BY <1>1, <1>2, SeqMonotonic
  <1> QED BY <1>3, SeqEqual

\* Zeros up to a multiple of four.
Fill(n) == (4 - (n % 4)) % 4

\* They depend on the remainder only.
LEMMA FillMod ==
    ASSUME NEW n \in Nat
    PROVE  /\ Fill(n) \in 0 .. 3 /\ (n + Fill(n)) % 4 = 0
           /\ \A b \in Nat : b % 4 = 0 => Fill(b + n) = Fill(n)
  BY DEF Fill

\* There are as many zeros as are missing.
LEMMA PaddingSeq ==
    ASSUME NEW n \in Nat
    PROVE  Padding(n) \in Seq({0}) /\ Len(Padding(n)) = Fill(n)
  <1>1. PICK k : k = Fill(n)
    OBVIOUS
  <1>2. k \in Nat
    BY <1>1, FillMod
  <1>3. Padding(n) = [i \in 1 .. k |-> 0]
    BY <1>1 DEF Padding, Fill
  <1>4. [i \in 1 .. k |-> 0] \in Seq({0}) /\ Len([i \in 1 .. k |-> 0]) = k
    BY <1>2
  <1> QED BY <1>1, <1>3, <1>4

\* Zeros bring a length to a multiple of four.
LEMMA Filled ==
    ASSUME NEW n \in Nat
    PROVE  /\ IsSeq(Padding(n)) /\ Len(Padding(n)) \in 0 .. 3
           /\ Aligned(n) = n + Len(Padding(n))
           /\ Aligned(n) \in Nat /\ Aligned(n) >= n /\ Aligned(n) % 4 = 0
           /\ \A b \in Nat : b % 4 = 0 => Aligned(b + n) = b + Aligned(n)
  <1>1. ASSUME NEW m \in Nat PROVE Aligned(m) = m + Fill(m)
    BY PaddingSeq DEF Aligned
  <1>2. Fill(n) \in 0 .. 3 /\ (n + Fill(n)) % 4 = 0
    BY FillMod
  <1>3. ASSUME NEW b \in Nat, b % 4 = 0 PROVE Aligned(b + n) = b + Aligned(n)
    <2>3. \A c \in Nat : c % 4 = 0 => Fill(c + n) = Fill(n)
      BY FillMod
    <2>1. b + n \in Nat /\ Fill(b + n) = Fill(n)
      BY <1>3, <2>3
    <2>2. Aligned(b + n) = (b + n) + Fill(n) /\ Aligned(n) = n + Fill(n)
      BY <1>1, <2>1
    <2> QED BY <1>2, <2>2
  <1>4. Len(Padding(n)) = Fill(n) /\ IsSeq(Padding(n))
    BY PaddingSeq DEF IsSeq
  <1>5. Aligned(n) = n + Fill(n)
    BY <1>1
  <1>7. n + Fill(n) \in Nat /\ n + Fill(n) >= n
    <2>1. PICK f \in 0 .. 3 : f = Fill(n)
      BY <1>2
    <2>2. n + f \in Nat /\ n + f >= n
      OBVIOUS
    <2> QED BY <2>1, <2>2, Zenon
  <1>6. Aligned(n) \in Nat /\ Aligned(n) >= n /\ Aligned(n) % 4 = 0
    BY <1>2, <1>5, <1>7, Zenon
  <1> QED BY <1>2, <1>3, <1>4, <1>5, <1>6, Zenon

\* The address behind a header, a name and data.
LEMMA SumAligned ==
    ASSUME NEW a \in Nat, NEW l \in Nat, NEW k \in Nat, a % 4 = 0, l % 4 = 0, k % 4 = 0
    PROVE  (a + HeaderSize + l + k) % 4 = 0
  <1>1. PICK x \in Nat : a = 4 * x
    <2>1. a \div 4 \in Nat /\ a = 4 * (a \div 4)
      OBVIOUS
    <2> QED BY <2>1
  <1>2. PICK y \in Nat : l = 4 * y
    <2>1. l \div 4 \in Nat /\ l = 4 * (l \div 4)
      OBVIOUS
    <2> QED BY <2>1
  <1>3. PICK z \in Nat : k = 4 * z
    <2>1. k \div 4 \in Nat /\ k = 4 * (k \div 4)
      OBVIOUS
    <2> QED BY <2>1
  <1>4. a + HeaderSize + l + k = 4 * (x + 4 + y + z)
    BY <1>1, <1>2, <1>3 DEF HeaderSize
  <1>5. PICK w \in Nat : w = x + 4 + y + z
    OBVIOUS
  <1>6. (4 * w) % 4 = 0
    OBVIOUS
  <1> QED BY <1>4, <1>5, <1>6

\* A string without its first character.
LEMMA TailString ==
    ASSUME NEW n \in Strings, n # <<>>
    PROVE  Tail(n) \in Strings
  BY DEF Strings

\* Names stay strings.
LEMMA RealString ==
    ASSUME NEW n \in Strings, n # <<>>
    PROVE  RealName(n) \in Strings
  BY TailString DEF RealName

\* Without its slashes a name stays a string.
LEMMA StrippedString ==
    ASSUME NEW n \in Strings
    PROVE  Stripped(n) \in Strings
  <1> DEFINE S == {i \in DOMAIN n : \A j \in 1 .. i : n[j] = Slash}
             m == 1 + Cardinality(S)
  <1>1. n \in Seq(1 .. 255) /\ Len(n) \in Nat /\ DOMAIN n = 1 .. Len(n)
    BY DEF Strings
  <1>2. IsFiniteSet(S)
    <2>1. IsFiniteSet(1 .. Len(n))
      BY <1>1, FS_Interval
    <2> QED BY <1>1, <2>1, FS_Subset
  <1>3. Cardinality(S) \in Nat
    BY <1>2, FS_CardinalityType
  <1>4. m \in Int /\ m >= 1
    BY <1>3
  <1>5. Stripped(n) = SubSeq(n, m, Len(n))
    BY DEF Stripped
  <1> HIDE DEF m
  <1>8. \A i \in 1 .. Len(n) : n[i] \in 1 .. 255
    BY <1>1, ElementOfSeq
  <1>6. \A i \in m .. Len(n) : n[i] \in 1 .. 255
    BY <1>1, <1>4, <1>8
  <1>7. SubSeq(n, m, Len(n)) \in Seq(1 .. 255)
    BY <1>1, <1>4, <1>6, SubSeqProperties
  <1> QED BY <1>5, <1>7 DEF Strings

-----------------------------------------------------------------------------
(* The image                                                               *)

\* strcmp() of two strings, one of them in the image.
LEMMA NamesCompared ==
    ASSUME NEW a \in Nat, input.base \in Nat, NEW m \in Strings, NEW n \in Strings, NameAt(a, m)
    PROVE  IsName(input.base + a + HeaderSize, n) <=> m = n
  <1> DEFINE p == input.base + a + HeaderSize
  <1>1. \A i \in 1 .. Len(n) + 1 : Bytes(p, Len(n) + 1)[i] = image[a + HeaderSize + i]
    <2>1. \A i \in 1 .. Len(n) + 1 : Bytes(p, Len(n) + 1)[i] = image[(p + i - 1) - input.base + 1]
      BY DEF Bytes, Byte
    <2>2. \A i \in Nat : (p + i - 1) - input.base + 1 = a + HeaderSize + i
      BY DEF HeaderSize
    <2>3. \A i \in 1 .. Len(n) + 1 : i \in Nat
      BY DEF Strings
    <2> HIDE DEF p
    <2> QED BY <2>1, <2>2, <2>3
  <1>2. /\ IsSeq(n) /\ IsSeq(m) /\ Len(n) \in Nat /\ Len(m) \in Nat
        /\ IsSeq(<<0>>) /\ Len(<<0>>) = 1 /\ <<0>>[1] = 0
    <2>1. <<0>> \in Seq(Nat)
      OBVIOUS
    <2>2. Len(n) \in Nat /\ Len(m) \in Nat
      BY DEF Strings
    <2> QED BY <2>1, <2>2 DEF Strings, IsSeq
  <1>3. /\ \A i \in 1 .. Len(n) : n[i] \in 1 .. 255
        /\ \A i \in 1 .. Len(m) : m[i] \in 1 .. 255
    BY ElementOfSeq DEF Strings
  <1> DEFINE z == n \o <<0>>
  <1>4. /\ IsSeq(z) /\ Len(z) = Len(n) + 1 /\ \A i \in 1 .. Len(n) : z[i] = n[i]
        /\ z[Len(n) + 1] = 0
    BY <1>2, Joining
  <1>5. Bytes(p, Len(n) + 1) = z <=> \A i \in 1 .. Len(n) + 1 : image[a + HeaderSize + i] = z[i]
    <2>1. PICK B : B = Bytes(p, Len(n) + 1)
      OBVIOUS
    <2>2. IsSeq(B) /\ Len(B) = Len(n) + 1
      <3>1. PICK k \in Nat : k = Len(n) + 1
        BY <1>2
      <3>2. B = [i \in 1 .. k |-> Byte(p + i - 1)]
        BY <2>1, <3>1 DEF Bytes
      <3>3. B \in Seq({Byte(p + i - 1) : i \in 1 .. k}) /\ Len(B) = k
        BY <3>1, <3>2
      <3> QED BY <3>1, <3>3 DEF IsSeq
    <2>3. \A i \in 1 .. Len(n) + 1 : B[i] = image[a + HeaderSize + i]
      BY <1>1, <2>1
    <2> HIDE DEF z, p
    <2>4. ASSUME \A i \in 1 .. Len(n) + 1 : image[a + HeaderSize + i] = z[i]
          PROVE  B = z
      BY <1>4, <2>2, <2>3, <2>4, SameSeq
    <2> QED BY <2>1, <2>3, <2>4
  <1> DEFINE w == [i \in Nat |-> image[a + HeaderSize + i]]
  <1>10. \A i \in Nat : w[i] = image[a + HeaderSize + i]
    OBVIOUS
  <1> HIDE DEF w, z, p
  <1>6. /\ \A i \in 1 .. Len(m) : w[i] = m[i]
        /\ w[Len(m) + 1] = 0
    <2>1. a + HeaderSize + (Len(m) + 1) = a + HeaderSize + Len(m) + 1
      BY <1>2 DEF HeaderSize
    <2>2. Len(m) + 1 \in Nat /\ \A i \in 1 .. Len(m) : i \in Nat
      BY <1>2
    <2> QED BY <1>10, <2>1, <2>2 DEF NameAt
  <1>7. (\A i \in 1 .. Len(n) + 1 : image[a + HeaderSize + i] = z[i])
            <=> (\A i \in 1 .. Len(n) + 1 : w[i] = z[i])
    BY <1>2, <1>10
  <1>8. ASSUME \A i \in 1 .. Len(n) + 1 : w[i] = z[i]
        PROVE  m = n
    <2>1. ~(Len(n) < Len(m))
      <3> SUFFICES ASSUME Len(n) < Len(m) PROVE FALSE
        OBVIOUS
      <3>1. Len(n) + 1 \in 1 .. Len(m) /\ Len(n) + 1 \in 1 .. Len(n) + 1
        BY <1>2
      <3>2. m[Len(n) + 1] = 0 /\ m[Len(n) + 1] \in 1 .. 255
        BY <1>3, <1>4, <1>6, <1>8, <3>1
      <3> QED BY <3>2
    <2>2. ~(Len(m) < Len(n))
      <3> SUFFICES ASSUME Len(m) < Len(n) PROVE FALSE
        OBVIOUS
      <3>1. Len(m) + 1 \in 1 .. Len(n) /\ Len(m) + 1 \in 1 .. Len(n) + 1
        BY <1>2
      <3>2. n[Len(m) + 1] = 0 /\ n[Len(m) + 1] \in 1 .. 255
        BY <1>3, <1>4, <1>6, <1>8, <3>1
      <3> QED BY <3>2
    <2>3. Len(m) = Len(n)
      BY <1>2, <2>1, <2>2
    <2>4. \A i \in 1 .. Len(n) : m[i] = n[i]
      <3>1. \A i \in 1 .. Len(n) : i \in 1 .. Len(n) + 1
        BY <1>2
      <3> QED BY <1>4, <1>6, <1>8, <2>3, <3>1
    <2> QED BY <1>2, <2>3, <2>4, SameSeq
  <1>9. ASSUME m = n
        PROVE  \A i \in 1 .. Len(n) + 1 : w[i] = z[i]
    <2>1. \A i \in 1 .. Len(n) + 1 : i \in 1 .. Len(n) \/ i = Len(n) + 1
      BY <1>2
    <2> QED BY <1>4, <1>6, <1>9, <2>1
  <1> QED BY <1>5, <1>7, <1>8, <1>9 DEF IsName, z, p

\* What is packed.
LEMMA FilesTyped ==
    ASSUME input \in Inputs
    PROVE  /\ Len(input.files) \in Nat /\ input.base \in Nat
           /\ \A i \in 1 .. Len(input.files) :
                 FileName(i) \in Strings /\ FileData(i) \in Seq(Nat) /\ IsSeq(FileData(i))
  <1> DEFINE T == [name : Strings \ {<<>>}, data : Seq(Nat)]
             s == input.files
  <1>1. s \in Seq(T) /\ input.base \in Nat
    BY EspFsAssumption
  <1> HIDE DEF s
  <1>2. Len(s) \in Nat /\ \A i \in 1 .. Len(s) : s[i] \in T
    <2> HIDE DEF T
    <2> QED BY <1>1, ElementOfSeq
  <1>3. \A i \in 1 .. Len(s) : s[i].name \in Strings /\ s[i].name # <<>> /\ s[i].data \in Seq(Nat)
    BY <1>2
  <1>4. \A i \in 1 .. Len(s) : RealName(s[i].name) \in Strings /\ IsSeq(s[i].data)
    BY <1>3, RealString DEF IsSeq
  <1> QED BY <1>1, <1>2, <1>3, <1>4 DEF s, FileName, FileData

\* A header and what follows it come behind the image.
LEMMA WrittenOut ==
    ASSUME IsSeq(image), NEW hdr, NEW bytes, IsSeq(bytes), Written(hdr, bytes)
    PROVE  /\ IsSeq(image)' /\ Len(image) \in Nat /\ Len(bytes) \in Nat
           /\ Len(image') = Len(image) + HeaderSize + Len(bytes)
           /\ \A k \in 1 .. Len(image) : image'[k] = image[k]
           /\ \A j \in 1 .. Len(bytes) : image'[Len(image) + HeaderSize + j] = bytes[j]
           /\ DOMAIN headers' = DOMAIN headers \cup {Len(image)}
           /\ headers'[Len(image)] = hdr
           /\ \A a \in DOMAIN headers \ {Len(image)} : headers'[a] = headers[a]
  <1> DEFINE gap == [i \in 1 .. HeaderSize |-> 0]
             front == image \o gap
  <1>1. IsSeq(gap) /\ Len(gap) = HeaderSize
    <2>1. gap \in Seq(Nat) /\ Len(gap) = HeaderSize
      BY DEF HeaderSize
    <2> QED BY <2>1 DEF IsSeq
  <1>2. image' = front \o bytes
    BY DEF Written
  <1> HIDE DEF gap
  <1>3. /\ IsSeq(front) /\ Len(image) \in Nat /\ Len(front) = Len(image) + HeaderSize
        /\ \A k \in 1 .. Len(image) : front[k] = image[k]
    BY <1>1, Joining
  <1> HIDE DEF front
  <1>4. /\ IsSeq(front \o bytes) /\ Len(bytes) \in Nat
        /\ Len(front \o bytes) = Len(front) + Len(bytes)
        /\ \A k \in 1 .. Len(front) : (front \o bytes)[k] = front[k]
        /\ \A j \in 1 .. Len(bytes) : (front \o bytes)[Len(front) + j] = bytes[j]
    BY <1>3, Joining
  <1>5. \A k \in 1 .. Len(image) : k \in 1 .. Len(front)
    BY <1>3 DEF HeaderSize
  <1>6. /\ DOMAIN headers' = DOMAIN headers \cup {Len(image)}
        /\ headers'[Len(image)] = hdr
        /\ \A a \in DOMAIN headers \ {Len(image)} : headers'[a] = headers[a]
    BY DEF Written
  <1>7. IsSeq(image)'
    BY <1>2, <1>4 DEF IsSeq
  <1>8. /\ Len(image') = Len(image) + HeaderSize + Len(bytes)
        /\ \A k \in 1 .. Len(image) : image'[k] = image[k]
        /\ \A j \in 1 .. Len(bytes) : image'[Len(image) + HeaderSize + j] = bytes[j]
    BY <1>2, <1>3, <1>4, <1>5
  <1> QED BY <1>3, <1>4, <1>6, <1>7, <1>8

\* The length of a name with its end and zeros.
LEMMA NameLenOf ==
    ASSUME NEW n \in Strings
    PROVE  /\ Len(n) \in Nat /\ NameLen(n) \in Nat /\ NameLen(n) >= Len(n) + 1
           /\ NameLen(n) % 4 = 0 /\ NameLen(n) = Len(n) + 1 + Len(Padding(Len(n) + 1))
  <1>1. Len(n) \in Nat /\ Len(n) + 1 \in Nat
    BY DEF Strings
  <1> QED BY <1>1, Filled DEF NameLen

\* What is behind a header stays there.
LEMMA EntryStays ==
    ASSUME input \in Inputs, input' = input, IsSeq(image), NEW hdr, NEW bytes, IsSeq(bytes),
           Written(hdr, bytes), NEW a \in Nat, NEW i \in 1 .. Len(input.files), EntryAt(a, i)
    PROVE  EntryAt(a, i)' /\ EndOf(a)' = EndOf(a)
  <1> DEFINE n == FileName(i)
             d == FileData(i)
             h == headers[a]
             l == NameLen(n)
  <1>1. n \in Strings /\ d \in Seq(Nat) /\ Len(d) \in Nat
    BY FilesTyped
  <1>2. Len(n) \in Nat /\ l \in Nat /\ l >= Len(n) + 1
    BY <1>1, NameLenOf
  <1>3. /\ a \in DOMAIN headers /\ h.flags = 0 /\ h.nameLen = l /\ h.fileLenComp \in Nat
        /\ a + HeaderSize + l + Aligned(h.fileLenComp) <= Len(image)
        /\ NameAt(a, n)
        /\ h.compression = COMPRESS_NONE =>
              h.fileLenComp = Len(d) /\ DataAt(a + HeaderSize + l, d)
    BY DEF EntryAt, EndOf
  <1>4. Aligned(h.fileLenComp) \in Nat /\ Aligned(h.fileLenComp) >= h.fileLenComp
    BY <1>3, Filled
  <1>5. /\ Len(image) \in Nat /\ Len(image') \in Nat /\ Len(image) <= Len(image')
        /\ \A k \in 1 .. Len(image) : image'[k] = image[k]
        /\ a # Len(image) => a \in DOMAIN headers' /\ headers'[a] = h
    BY <1>3, WrittenOut DEF HeaderSize
  <1>6. n' = n /\ d' = d
    BY DEF FileName, FileData
  <1> HIDE DEF n, d, h, l
  <1>7. a < Len(image)
    BY <1>2, <1>3, <1>4, <1>5 DEF HeaderSize
  <1>8. a \in DOMAIN headers' /\ headers'[a] = h
    BY <1>5, <1>7
  <1>9. EndOf(a)' = EndOf(a) /\ EndOf(a)' <= Len(image')
    <2>1. EndOf(a)' = a + HeaderSize + l + Aligned(h.fileLenComp)
      BY <1>3, <1>8 DEF EndOf
    <2>2. EndOf(a) = a + HeaderSize + l + Aligned(h.fileLenComp)
      BY <1>3 DEF EndOf, h
    <2> QED BY <1>2, <1>3, <1>4, <1>5, <2>1, <2>2 DEF HeaderSize
  <1>10. NameAt(a, n)'
    <2>1. \A j \in 1 .. Len(n) : a + HeaderSize + j \in 1 .. Len(image)
      BY <1>2, <1>3, <1>4, <1>5 DEF HeaderSize
    <2>2. a + HeaderSize + Len(n) + 1 \in 1 .. Len(image)
      BY <1>2, <1>3, <1>4, <1>5 DEF HeaderSize
    <2> QED BY <1>3, <1>5, <1>6, <2>1, <2>2 DEF NameAt
  <1>11. h.compression = COMPRESS_NONE => DataAt(a + HeaderSize + l, d)'
    <2> SUFFICES ASSUME h.compression = COMPRESS_NONE PROVE DataAt(a + HeaderSize + l, d)'
      OBVIOUS
    <2>1. \A j \in 1 .. Len(d) : a + HeaderSize + l + j \in 1 .. Len(image)
      <3>1. PICK c \in Nat : c = Aligned(h.fileLenComp)
        BY <1>4
      <3>2. PICK m \in Nat, e \in Nat : m = Len(d) /\ e = Len(image)
        BY <1>1, <1>5
      <3>3. c >= m /\ a + HeaderSize + l + c <= e
        BY <1>3, <1>4, <3>1, <3>2
      <3>4. \A j \in 1 .. m : a + HeaderSize + l + j \in 1 .. e
        BY <1>2, <3>3 DEF HeaderSize
      <3> QED BY <3>2, <3>4, Zenon
    <2>2. \A j \in 1 .. Len(d) : image[a + HeaderSize + l + j] = d[j]
      BY <1>3 DEF DataAt
    <2> QED BY <1>5, <1>6, <2>1, <2>2 DEF DataAt, l, h
  <1> QED BY <1>3, <1>6, <1>8, <1>9, <1>10, <1>11 DEF EntryAt, n, d, l

\* What StoreFile writes behind the header.
Body(n, content) ==
    n \o <<0>> \o Padding(Len(n) + 1) \o content \o Padding(Len(content))

\* The name and the data are where the lengths say.
LEMMA BodyParts ==
    ASSUME NEW n \in Strings, NEW content, IsSeq(content), NEW body, body = Body(n, content)
    PROVE  /\ IsSeq(body) /\ Len(content) \in Nat
           /\ Len(body) = NameLen(n) + Aligned(Len(content))
           /\ \A j \in 1 .. Len(n) : body[j] = n[j]
           /\ body[Len(n) + 1] = 0
           /\ \A j \in 1 .. Len(content) : body[NameLen(n) + j] = content[j]
  <1> DEFINE s1 == n \o <<0>>
             p1 == Padding(Len(n) + 1)
             s2 == s1 \o p1
             s3 == s2 \o content
             p2 == Padding(Len(content))
             b == s3 \o p2
  <1>1. IsSeq(n) /\ IsSeq(<<0>>) /\ Len(<<0>>) = 1 /\ <<0>>[1] = 0
    <2>1. n \in Seq(1 .. 255) /\ <<0>> \in Seq(Nat)
      BY DEF Strings
    <2> QED BY <2>1 DEF IsSeq
  <1>2. /\ Len(n) \in Nat /\ NameLen(n) \in Nat /\ NameLen(n) = Len(n) + 1 + Len(p1)
        /\ Len(content) \in Nat
    BY NameLenOf, Joining
  <1>3. IsSeq(p1) /\ Len(p1) \in 0 .. 3 /\ IsSeq(p2) /\ Len(p2) \in 0 .. 3
        /\ Aligned(Len(content)) = Len(content) + Len(p2)
    <2>1. Len(n) + 1 \in Nat
      BY <1>2
    <2> QED BY <1>2, <2>1, Filled
  <1> HIDE DEF p1, p2
  <1>4. /\ IsSeq(s1) /\ Len(s1) = Len(n) + 1 /\ \A j \in 1 .. Len(n) : s1[j] = n[j]
        /\ s1[Len(n) + 1] = 0
    BY <1>1, Joining
  <1> HIDE DEF s1
  <1>5. IsSeq(s2) /\ Len(s2) = Len(s1) + Len(p1) /\ \A j \in 1 .. Len(s1) : s2[j] = s1[j]
    BY <1>3, <1>4, Joining
  <1> HIDE DEF s2
  <1>6. /\ IsSeq(s3) /\ Len(s3) = Len(s2) + Len(content)
        /\ \A j \in 1 .. Len(s2) : s3[j] = s2[j]
        /\ \A j \in 1 .. Len(content) : s3[Len(s2) + j] = content[j]
    BY <1>5, Joining, SMTT(20)
  <1> HIDE DEF s3
  <1>7. /\ IsSeq(b) /\ Len(b) = Len(s3) + Len(p2) /\ \A j \in 1 .. Len(s3) : b[j] = s3[j]
    BY <1>3, <1>6, Joining, ZenonT(30)
  <1> HIDE DEF b
  <1>8. Len(s2) = NameLen(n) /\ Len(s3) = NameLen(n) + Len(content)
    BY <1>2, <1>3, <1>4, <1>5, <1>6
  <1>9. \A j \in 1 .. Len(n) + 1 : b[j] = s1[j]
    <2>1. \A j \in 1 .. Len(n) + 1 : j \in 1 .. Len(s1) /\ j \in 1 .. Len(s2) /\ j \in 1 .. Len(s3)
      BY <1>2, <1>3, <1>4, <1>8
    <2> QED BY <1>5, <1>6, <1>7, <2>1
  <1>10. \A j \in 1 .. Len(content) : b[NameLen(n) + j] = content[j]
    <2>1. \A j \in 1 .. Len(content) : NameLen(n) + j \in 1 .. Len(s3)
      BY <1>2, <1>8
    <2> QED BY <1>6, <1>7, <1>8, <2>1
  <1>11. Len(b) = NameLen(n) + Aligned(Len(content))
    BY <1>2, <1>3, <1>7, <1>8
  <1>12. \A j \in 1 .. Len(n) : b[j] = n[j] /\ j \in 1 .. Len(n) + 1
    BY <1>2, <1>4, <1>9
  <1>13. b[Len(n) + 1] = 0
    BY <1>2, <1>4, <1>9
  <1>14. b = body
    BY DEF b, s3, s2, s1, p1, p2, Body
  <1> QED BY <1>2, <1>7, <1>10, <1>11, <1>12, <1>13, <1>14, Zenon

\* A file that is stored has its place in the chain.
LEMMA EntryNew ==
    ASSUME input \in Inputs, input' = input, packed \in Nat, packed < Len(input.files),
           IsSeq(image), Len(image) % 4 = 0, NEW c, NEW bytes, IsSeq(bytes),
           c = COMPRESS_NONE => bytes = File.data, StoreFile(c, bytes),
           NEW a, a = Len(image), NEW i, i = packed + 1
    PROVE  /\ a \in Nat /\ EntryAt(a, i)' /\ EndOf(a)' = Len(image') /\ Len(image') % 4 = 0
           /\ IsSeq(image)'
           /\ \E hdr, bs : IsSeq(bs) /\ Written(hdr, bs)
  <1> DEFINE n == FileName(i)
             d == FileData(i)
             content == IF Len(bytes) > Len(d) THEN d ELSE bytes
             hdr == Header(n, IF Len(bytes) > Len(d) THEN COMPRESS_NONE ELSE c,
                           Len(content), Len(d))
             bs == Body(n, content)
             l == NameLen(n)
  <1>1. i \in 1 .. Len(input.files) /\ n \in Strings /\ d \in Seq(Nat) /\ IsSeq(d)
    <2>1. i \in 1 .. Len(input.files)
      BY FilesTyped
    <2> QED BY <2>1, FilesTyped
  <1>2. n = RealName(File.name) /\ d = File.data
    BY DEF FileName, FileData, File
  <1>3. Written(hdr, bs)
    BY <1>2 DEF StoreFile, Body
  <1>4. IsSeq(content)
    BY <1>1
  <1>5. /\ hdr.flags = 0 /\ hdr.nameLen = l /\ hdr.fileLenComp = Len(content)
        /\ hdr.compression = COMPRESS_NONE => content = d
    BY <1>2 DEF Header
  <1>6. n' = n /\ d' = d
    BY DEF FileName, FileData
  <1> HIDE DEF n, d, content, hdr
  <1>7. /\ IsSeq(bs) /\ Len(content) \in Nat
        /\ Len(bs) = l + Aligned(Len(content))
        /\ \A j \in 1 .. Len(n) : bs[j] = n[j]
        /\ bs[Len(n) + 1] = 0
        /\ \A j \in 1 .. Len(content) : bs[l + j] = content[j]
    <2>1. PICK N, C, B : N \in Strings /\ N = n /\ C = content /\ B = bs
      BY <1>1
    <2>2. B = Body(N, C) /\ IsSeq(C)
      BY <1>4, <2>1
    <2>3. /\ IsSeq(B) /\ Len(C) \in Nat /\ Len(B) = NameLen(N) + Aligned(Len(C))
          /\ \A j \in 1 .. Len(N) : B[j] = N[j]
          /\ B[Len(N) + 1] = 0
          /\ \A j \in 1 .. Len(C) : B[NameLen(N) + j] = C[j]
      BY <2>1, <2>2, BodyParts, SMTT(30)
    <2> HIDE DEF bs
    <2> QED BY <2>1, <2>3
  <1>8. /\ Len(n) \in Nat /\ l \in Nat /\ l >= Len(n) + 1 /\ l % 4 = 0
    BY <1>1, NameLenOf
  <1> HIDE DEF bs, l
  <1>9. /\ IsSeq(image)' /\ Len(image) \in Nat
        /\ Len(image') = a + HeaderSize + Len(bs)
        /\ \A j \in 1 .. Len(bs) : image'[a + HeaderSize + j] = bs[j]
        /\ a \in DOMAIN headers' /\ headers'[a] = hdr
    BY <1>3, <1>7, WrittenOut
  <1>10. PICK k \in Nat : k = Aligned(Len(content)) /\ k >= Len(content) /\ k % 4 = 0
    BY <1>7, Filled
  <1>11. EndOf(a)' = a + HeaderSize + l + k
    BY <1>5, <1>9, <1>10 DEF EndOf
  <1>12. Len(bs) = l + k
    BY <1>7, <1>10
  <1>13. EndOf(a)' = Len(image') /\ Len(image') % 4 = 0 /\ EndOf(a)' \in Nat
    <2>1. a \in Nat /\ a % 4 = 0
      BY <1>9
    <2>2. PICK e : e = a + HeaderSize + l + k
      OBVIOUS
    <2>3. e \in Nat /\ e = a + HeaderSize + (l + k)
      <3>1. l \in Nat
        BY <1>8
      <3>2. a + 16 + l + k \in Nat
        BY <2>1, <3>1
      <3>3. a + 16 + l + k = a + 16 + (l + k)
        BY <2>1, <3>1
      <3> QED BY <2>2, <3>2, <3>3, Zenon DEF HeaderSize
    <2>4. e % 4 = 0
      <3>1. (a + HeaderSize + l + k) % 4 = 0
        BY <1>8, <1>10, <2>1, SumAligned, Zenon
      <3> QED BY <2>2, <3>1, Zenon
    <2> QED BY <1>9, <1>11, <1>12, <2>2, <2>3, <2>4
  <1>14. NameAt(a, n)'
    <2>1. \A j \in 1 .. Len(n) + 1 : j \in 1 .. Len(bs)
      BY <1>8, <1>12
    <2>2. \A j \in 1 .. Len(n) + 1 : image'[a + HeaderSize + j] = bs[j]
      BY <1>9, <2>1
    <2>3. /\ Len(n) + 1 \in 1 .. Len(n) + 1 /\ \A j \in 1 .. Len(n) : j \in 1 .. Len(n) + 1
          /\ a + HeaderSize + (Len(n) + 1) = a + HeaderSize + Len(n) + 1
      BY <1>8, <1>9 DEF HeaderSize
    <2>4. image'[a + HeaderSize + Len(n) + 1] = 0
      BY <1>7, <2>2, <2>3
    <2>5. \A j \in 1 .. Len(n) : image'[a + HeaderSize + j] = n[j]
      BY <1>7, <2>2, <2>3
    <2> QED BY <1>6, <2>4, <2>5 DEF NameAt
  <1>15. ASSUME hdr.compression = COMPRESS_NONE
         PROVE  Len(content) = Len(d) /\ DataAt(a + HeaderSize + l, d)'
    <2>1. content = d
      BY <1>5, <1>15
    <2>2. \A j \in 1 .. Len(d) : /\ l + j \in 1 .. Len(bs)
                                /\ a + HeaderSize + l + j = a + HeaderSize + (l + j)
      <3>1. PICK m \in Nat : m = Len(d) /\ m <= k
        BY <1>7, <1>10, <2>1
      <3>2. \A j \in 1 .. m : /\ l + j \in 1 .. l + k
                             /\ a + HeaderSize + l + j = a + HeaderSize + (l + j)
        BY <1>8, <1>9, <3>1 DEF HeaderSize
      <3> QED BY <1>12, <3>1, <3>2
    <2>3. \A j \in 1 .. Len(d) : image'[a + HeaderSize + l + j] = d[j]
      BY <1>7, <1>9, <2>1, <2>2
    <2> QED BY <1>6, <2>1, <2>3 DEF DataAt, l
  <1>16. EntryAt(a, i)'
    <2>1. a \in DOMAIN headers' /\ headers'[a].flags = 0 /\ headers'[a].nameLen = l
          /\ headers'[a].fileLenComp = Len(content) /\ headers'[a].compression = hdr.compression
      BY <1>5, <1>9
    <2>2. EndOf(a)' <= Len(image')
      BY <1>13
    <2> QED BY <1>6, <1>7, <1>14, <1>15, <2>1, <2>2 DEF EntryAt, n, d, l
  <1> QED BY <1>3, <1>7, <1>9, <1>13, <1>16

-----------------------------------------------------------------------------
(* The encoder                                                             *)

\* The encoder's state and flags, which say what it wants next.
SameMode(p, q) == Shape(q) /\ q.e.flags = p.e.flags /\ q.e.state = p.e.state

\* A byte goes out.
LEMMA PutByteMode ==
    ASSUME NEW p, Shape(p), NEW b
    PROVE  SameMode(p, Enc!PutByte(p, b))
  <1>1. IsSeq(Append(p.out, b))
    BY Appending DEF Shape
  <1> QED BY <1>1 DEF SameMode, Shape, EncoderFields, Enc!PutByte

\* Bits are collected to a byte, which may go out.
LEMMA PushBitsMode ==
    ASSUME NEW p, Shape(p), NEW count, NEW bits
    PROVE  SameMode(p, Enc!push_bits(p, count, bits))
  <1>1. ASSUME NEW x, NEW y
        PROVE  SameMode(p, [p EXCEPT !.e.current_byte = x, !.e.bit_index = y])
    BY DEF SameMode, Shape, EncoderFields
  <1>2. ASSUME NEW x, NEW y, NEW b
        PROVE  SameMode(p, Enc!PutByte([p EXCEPT !.e.current_byte = x, !.e.bit_index = y], b))
    <2>1. PICK v : v = [p EXCEPT !.e.current_byte = x, !.e.bit_index = y]
      OBVIOUS
    <2>2. PICK w : w = Enc!PutByte(v, b)
      OBVIOUS
    <2>3. Shape(v) /\ v.e.flags = p.e.flags /\ v.e.state = p.e.state
      BY <1>1, <2>1, ZenonT(30) DEF SameMode
    <2>4. Shape(w) /\ w.e.flags = v.e.flags /\ w.e.state = v.e.state
      BY <2>2, <2>3, PutByteMode DEF SameMode
    <2>5. SameMode(p, w)
      BY <2>3, <2>4, Zenon DEF SameMode
    <2> QED BY <2>1, <2>2, <2>5
  <1> QED BY <1>1, <1>2 DEF Enc!push_bits

\* What is left of a value goes out bit by bit.
LEMMA PushOutgoingMode ==
    ASSUME NEW p, Shape(p)
    PROVE  SameMode(p, Enc!push_outgoing_bits(p))
  <1>1. ASSUME NEW q, SameMode(p, q), NEW x
        PROVE  SameMode(p, [q EXCEPT !.e.outgoing_bits_count = x])
    BY <1>1 DEF SameMode, Shape, EncoderFields
  <1> QED BY <1>1, PushBitsMode DEF Enc!push_outgoing_bits

\* A step that ends in another state.
LEMMA GotoMode ==
    ASSUME NEW p, Shape(p), NEW state
    PROVE  /\ Shape(Enc!Goto(p, state)) /\ Enc!Goto(p, state).e.flags = p.e.flags
           /\ Enc!Goto(p, state).e.state = state
  BY DEF Shape, EncoderFields, Enc!Goto

\* Only an encoder that has been told so finishes.
LEMMA EncoderStepMode ==
    ASSUME NEW p, Shape(p)
    PROVE  /\ Shape(Enc!EncoderStep(p))
           /\ Feeding(p.e) => Feeding(Enc!EncoderStep(p).e)
           /\ p.e.state = "NOT_FULL" => Enc!EncoderStep(p) = p
  <1> DEFINE Good(q) == Shape(q) /\ (Feeding(p.e) => Feeding(q.e))
  <1>1. Good(p)
    OBVIOUS
  <1>2. ASSUME NEW q, SameMode(p, q), NEW state, Feeding(p.e) => state \notin {"DONE", "FLUSH_BITS"}
        PROVE  Good(Enc!Goto(q, state))
    BY <1>2, GotoMode DEF SameMode, Feeding, NotFinishing
  <1>3. SameMode(p, p)
    BY DEF SameMode
  <1>4. Good(Enc!Goto(p, "SEARCH"))
    BY <1>2, <1>3
  <1>5. Good(Enc!st_step_search(p))
    <2>1. ASSUME NEW x, NEW y, NEW f, f \in {p.e.flags, p.e.flags \cup {"HAS_LITERAL"}}
          PROVE  Good(Enc!Goto([p EXCEPT !.e.match_scan_index = x, !.e.match_length = y,
                                         !.e.flags = f], "YIELD_TAG_BIT"))
      <3> DEFINE q == [p EXCEPT !.e.match_scan_index = x, !.e.match_length = y, !.e.flags = f]
      <3>1. Shape(q) /\ q.e.flags = f
        BY DEF Shape, EncoderFields
      <3> HIDE DEF q
      <3>2. Good(Enc!Goto(q, "YIELD_TAG_BIT"))
        BY <2>1, <3>1, GotoMode DEF Feeding, NotFinishing
      <3> QED BY <3>2 DEF q
    <2>2. ASSUME NEW x, NEW y
          PROVE  SameMode(p, [p EXCEPT !.e.match_pos = x, !.e.match_length = y])
      BY DEF SameMode, Shape, EncoderFields
    <2>3. ASSUME NEW x, NEW y
          PROVE  Good(Enc!Goto([p EXCEPT !.e.match_pos = x, !.e.match_length = y], "YIELD_TAG_BIT"))
      BY <1>2, <2>2
    <2>4. Good(Enc!Goto(p, "SAVE_BACKLOG"))
      BY <1>2, <1>3
    <2> HIDE DEF Good
    <2> QED BY <2>1, <2>3, <2>4 DEF Enc!st_step_search
  <1>6. Good(Enc!st_yield_tag_bit(p))
    <2>1. Good(Enc!Goto(Enc!push_bits(p, 1, Enc!LITERAL_MARKER), "YIELD_LITERAL"))
      BY <1>2, PushBitsMode
    <2>2. ASSUME NEW q, SameMode(p, q), NEW x, NEW y
          PROVE  SameMode(p, [q EXCEPT !.e.outgoing_bits = x, !.e.outgoing_bits_count = y])
      BY <2>2 DEF SameMode, Shape, EncoderFields
    <2>3. ASSUME NEW x, NEW y
          PROVE  Good(Enc!Goto([Enc!push_bits(p, 1, Enc!BACKREF_MARKER) EXCEPT
                           !.e.outgoing_bits = x, !.e.outgoing_bits_count = y], "YIELD_BR_INDEX"))
      BY <1>2, <2>2, PushBitsMode
    <2> HIDE DEF Good
    <2> QED BY <2>1, <2>3 DEF Enc!st_yield_tag_bit
  <1>7. Good(Enc!st_yield_literal(p))
    <2>1. ASSUME NEW q, SameMode(p, q), NEW state,
                 Feeding(p.e) => state \notin {"DONE", "FLUSH_BITS"}
          PROVE  Good(Enc!Goto([q EXCEPT !.e.flags = @ \ {"HAS_LITERAL"}], state))
      <3> DEFINE u == [q EXCEPT !.e.flags = @ \ {"HAS_LITERAL"}]
      <3>1. Shape(u) /\ u.e.flags = q.e.flags \ {"HAS_LITERAL"}
        BY <2>1 DEF SameMode, Shape, EncoderFields
      <3> HIDE DEF u
      <3>2. Good(Enc!Goto(u, state))
        BY <2>1, <3>1, GotoMode DEF Feeding, NotFinishing, SameMode
      <3> QED BY <3>2 DEF u
    <2>2. PICK r : r = CASE "ON_FINAL_LITERAL" \in p.e.flags -> "FLUSH_BITS"
                         [] p.e.match_length > 0 -> "YIELD_TAG_BIT"
                         [] OTHER -> "SEARCH"
      OBVIOUS
    <2>3. Feeding(p.e) => r \notin {"DONE", "FLUSH_BITS"}
      BY <2>2 DEF Feeding, NotFinishing
    <2> HIDE DEF Good
    <2> QED BY <2>1, <2>2, <2>3, PushBitsMode DEF Enc!st_yield_literal
  <1>8. Good(Enc!st_yield_br_index(p))
    <2>1. ASSUME NEW x, NEW y
          PROVE  SameMode(p, [p EXCEPT !.e.outgoing_bits = x, !.e.outgoing_bits_count = y])
      BY DEF SameMode, Shape, EncoderFields
    <2>2. ASSUME NEW x, NEW y
          PROVE  Good(Enc!Goto([p EXCEPT !.e.outgoing_bits = x, !.e.outgoing_bits_count = y],
                               "YIELD_BR_LENGTH"))
      BY <1>2, <2>1
    <2>3. Good(Enc!push_outgoing_bits(p))
      BY PushOutgoingMode DEF SameMode, Feeding, NotFinishing
    <2> HIDE DEF Good
    <2> QED BY <2>2, <2>3 DEF Enc!st_yield_br_index
  <1>9. Good(Enc!st_yield_br_length(p))
    <2>1. ASSUME NEW x, NEW y
          PROVE  SameMode(p, [p EXCEPT !.e.match_scan_index = x, !.e.match_length = y])
      BY DEF SameMode, Shape, EncoderFields
    <2>2. ASSUME NEW x, NEW y
          PROVE  Good(Enc!Goto([p EXCEPT !.e.match_scan_index = x, !.e.match_length = y], "SEARCH"))
      BY <1>2, <2>1
    <2>3. Good(Enc!push_outgoing_bits(p))
      BY PushOutgoingMode DEF SameMode, Feeding, NotFinishing
    <2> HIDE DEF Good
    <2> QED BY <2>2, <2>3 DEF Enc!st_yield_br_length
  <1>10. Good(Enc!st_save_backlog(p))
    <2> DEFINE u == [p EXCEPT !.e = Enc!save_backlog(@)]
    <2>1. Shape(u) /\ (NotFinishing(p.e) => NotFinishing(u.e))
      <3>1. ASSUME NEW x, NEW y, NEW z
            PROVE  LET v == [p EXCEPT !.e = [p.e EXCEPT !.buffer = x,
                                !.flags = @ \cup {IF "BACKLOG_IS_PARTIAL" \in @
                                    THEN "BACKLOG_IS_FILLED" ELSE "BACKLOG_IS_PARTIAL"},
                                !.match_scan_index = y, !.input_size = z]]
                   IN  Shape(v) /\ (NotFinishing(p.e) => NotFinishing(v.e))
        BY DEF Shape, EncoderFields, NotFinishing
      <3> QED BY <3>1 DEF Enc!save_backlog
    <2> HIDE DEF u
    <2>2. Good(Enc!Goto(u, "NOT_FULL"))
      BY <2>1, GotoMode DEF Feeding, NotFinishing
    <2>3. ASSUME NEW f
          PROVE  Shape([p EXCEPT !.e.flags = f])
      BY DEF Shape, EncoderFields
    <2>4. ASSUME "IS_FINISHING" \in p.e.flags, NEW f, NEW state
          PROVE  Good(Enc!Goto([p EXCEPT !.e.flags = f], state)) /\ Good(Enc!Goto(p, state))
      BY <2>3, <2>4, GotoMode DEF Feeding, NotFinishing
    <2> HIDE DEF Good
    <2> QED BY <2>2, <2>4 DEF Enc!st_save_backlog, u
  <1>11. ASSUME p.e.state = "FLUSH_BITS"
         PROVE  Good(Enc!st_flush_bit_buffer(p))
    <2>1. ~Feeding(p.e)
      BY <1>11 DEF Feeding
    <2>2. Shape(Enc!st_flush_bit_buffer(p))
      BY GotoMode, PutByteMode DEF SameMode, Enc!st_flush_bit_buffer
    <2> QED BY <2>1, <2>2
  <1>12. p.e.state = "NOT_FULL" => Enc!EncoderStep(p) = p
    BY DEF Enc!EncoderStep, Enc!Yielding
  <1> HIDE DEF Good
  <1>13. Good(Enc!EncoderStep(p))
    BY <1>1, <1>4, <1>5, <1>6, <1>7, <1>8, <1>9, <1>10, <1>11 DEF Enc!EncoderStep
  <1> QED BY <1>12, <1>13 DEF Good

-----------------------------------------------------------------------------
(* The chain of headers                                                    *)

\* A chain that nothing is added to.
LEMMA LayoutSame ==
    ASSUME UNCHANGED <<input, packed, out>>, Packing' <=> Packing, NEW at, Layout(at)
    PROVE  Layout(at)'
  <1>1. input' = input /\ packed' = packed /\ headers' = headers /\ image' = image
    BY DEF out
  <1>2. Stored' = Stored /\ Stops' = Stops
    BY <1>1 DEF Stored, Stops
  <1>3. \A a : EndOf(a)' = EndOf(a)
    BY <1>1 DEF EndOf
  <1>4. \A a, i : EntryAt(a, i)' <=> EntryAt(a, i)
    BY <1>1, <1>3 DEF EntryAt, NameAt, DataAt, FileName, FileData
  <1>5. LastAt(at[packed + 1])'
    BY <1>1 DEF Layout, LastAt
  <1>6. \A i, j : (First(i)' <=> First(i)) /\ (Follows(i, j)' <=> Follows(i, j))
    BY <1>2 DEF First, Follows
  <1> QED BY <1>1, <1>2, <1>3, <1>4, <1>5, <1>6 DEF Layout

\* A file that is left out.
LEMMA LayoutEmpty ==
    ASSUME HandleEmpty, packed \in Nat, NEW at, Layout(at)
    PROVE  \E x : Layout(x)'
  <1>1. /\ input' = input /\ packed' = packed + 1 /\ headers' = headers /\ image' = image
        /\ call' = call /\ input.files[packed + 1].data = <<>> /\ Packing
    BY DEF HandleEmpty, NextFile, File, out, Packing
  <1>2. \A i \in 1 .. packed + 1 : i \in 1 .. packed \/ i = packed + 1
    OBVIOUS
  <1>3. Stored' = Stored
    BY <1>1, <1>2 DEF Stored
  <1>4. Stops' = Stored \cup {packed + 2}
    BY <1>1, <1>3 DEF Stops
  <1>5. \A i \in Stored : i \in Nat /\ i <= packed
    BY DEF Stored
  <1>20. PICK x : x = [i \in Stops' |-> IF i = packed + 2 THEN at[packed + 1] ELSE at[i]]
    OBVIOUS
  <1>6. /\ at \in [Stops -> Nat] /\ at[packed + 1] = Len(image)
        /\ \A i \in Stops : at[i] % 4 = 0 /\ (First(i) => at[i] = 0)
        /\ \A i \in Stored : EntryAt(at[i], i)
        /\ \A i \in Stored, j \in Stops : Follows(i, j) => at[j] = EndOf(at[i])
    BY <1>1 DEF Layout, LastAt
  <1>7. packed + 1 \in Stops /\ \A i \in Stored : i \in Stops
    BY DEF Stops
  <1>8. /\ x \in [Stops' -> Nat] /\ x[packed + 2] = at[packed + 1]
        /\ \A i \in Stored : x[i] = at[i] /\ i # packed + 2
    BY <1>4, <1>5, <1>6, <1>7, <1>20
  <1>9. LastAt(x[packed + 1])'
    <2>1. x[packed' + 1] = Len(image')
      BY <1>1, <1>6, <1>8
    <2> QED BY <1>1, <2>1 DEF LastAt, Packing
  <1>10. ASSUME NEW i \in Stops'
         PROVE  x[i] % 4 = 0 /\ (First(i)' => x[i] = 0)
    <2>1. CASE i \in Stored
      BY <1>3, <1>6, <1>7, <1>8, <2>1 DEF First
    <2>2. CASE i = packed + 2
      <3>1. First(i)' => First(packed + 1)
        BY <1>3, <1>5, <2>2 DEF First
      <3> QED BY <1>6, <1>7, <1>8, <2>2, <3>1
    <2> QED BY <1>4, <2>1, <2>2
  <1>11. \A a : EndOf(a)' = EndOf(a)
    BY <1>1 DEF EndOf
  <1>12. \A i \in Stored : EntryAt(x[i], i)'
    <2>1. \A a, i : EntryAt(a, i)' <=> EntryAt(a, i)
      BY <1>1, <1>11, SMTT(20) DEF EntryAt, NameAt, DataAt, FileName, FileData
    <2> QED BY <1>6, <1>8, <2>1
  <1>13. ASSUME NEW i \in Stored, NEW j \in Stops', Follows(i, j)'
         PROVE  x[j] = EndOf(x[i])
    <2>1. CASE j \in Stored
      BY <1>3, <1>6, <1>7, <1>8, <1>13, <2>1 DEF Follows
    <2>2. CASE j = packed + 2
      <3>1. Follows(i, packed + 1)
        BY <1>3, <1>5, <1>13, <2>2 DEF Follows
      <3> QED BY <1>6, <1>7, <1>8, <2>2, <3>1
    <2> QED BY <1>4, <2>1, <2>2
  <1>14. Layout(x)'
    BY <1>3, <1>8, <1>9, <1>10, <1>11, <1>12, <1>13 DEF Layout
  <1> QED BY <1>14

\* A file that is stored.
LEMMA LayoutStored ==
    ASSUME PackInv, NEW at, Layout(at), call.at \in {"main", "end"}, packed < Len(input.files),
           File.data # <<>>, NEW c, NEW bytes, IsSeq(bytes),
           c = COMPRESS_NONE => bytes = File.data, StoreFile(c, bytes), input' = input
    PROVE  (\E x : Layout(x)') /\ IsSeq(image)'
  <1>20. PICK n, a : n = packed + 1 /\ a = Len(image)
    OBVIOUS
  <1>1. /\ input' = input /\ packed' = n /\ packed \in Nat /\ n \in 1 .. Len(input.files)
        /\ call'.at = "main" /\ input.files[n].data # <<>> /\ Packing /\ input \in Inputs
        /\ IsSeq(image) /\ Len(input.files) \in Nat
    <2>1. Len(input.files) \in Nat
      BY FilesTyped DEF PackInv
    <2> QED BY <1>20, <2>1 DEF PackInv, StoreFile, File, Packing
  <1>2. \A i \in 1 .. n : i \in 1 .. packed \/ i = n
    BY <1>1, <1>20
  <1>3. Stored' = Stored \cup {n}
    BY <1>1, <1>2, <1>20 DEF Stored
  <1>4. Stops' = Stored \cup {n, n + 1}
    BY <1>1, <1>3 DEF Stops
  <1>5. \A i \in Stored : i \in Nat /\ i < n /\ i \in 1 .. Len(input.files)
    BY <1>1, <1>20 DEF Stored
  <1>21. PICK x : x = [i \in Stops' |-> IF i = n + 1 THEN Len(image') ELSE at[i]]
    OBVIOUS
  <1>6. /\ at \in [Stops -> Nat] /\ at[n] = a
        /\ \A i \in Stops : at[i] % 4 = 0 /\ (First(i) => at[i] = 0)
        /\ \A i \in Stored : EntryAt(at[i], i)
        /\ \A i \in Stored, j \in Stops : Follows(i, j) => at[j] = EndOf(at[i])
    BY <1>1, <1>20 DEF Layout, LastAt
  <1>7. n \in Stops /\ \A i \in Stored : i \in Stops
    BY <1>20 DEF Stops
  <1>8. a \in Nat /\ a % 4 = 0
    <2>1. a \in Nat
      BY <1>1, <1>20 DEF IsSeq
    <2> QED BY <1>6, <1>7, <2>1
  <1>9. /\ EntryAt(a, n)' /\ EndOf(a)' = Len(image') /\ Len(image') % 4 = 0 /\ IsSeq(image)'
        /\ \E hdr, bs : IsSeq(bs) /\ Written(hdr, bs)
    <2>1. Len(image) % 4 = 0 /\ packed < Len(input.files) /\ StoreFile(c, bytes)
      BY <1>8, <1>20
    <2> QED BY <1>1, <1>20, <2>1, EntryNew
  <1>10. PICK hdr, bs : IsSeq(bs) /\ Written(hdr, bs)
    BY <1>9
  <1>11. \A i \in Stored : EntryAt(at[i], i)' /\ EndOf(at[i])' = EndOf(at[i])
    <2> SUFFICES ASSUME NEW i \in Stored PROVE EntryAt(at[i], i)' /\ EndOf(at[i])' = EndOf(at[i])
      OBVIOUS
    <2>1. PICK b \in Nat : b = at[i] /\ EntryAt(b, i) /\ i \in 1 .. Len(input.files)
      BY <1>5, <1>6, <1>7
    <2>2. EntryAt(b, i)' /\ EndOf(b)' = EndOf(b)
      BY <1>1, <1>10, <2>1, EntryStays
    <2> QED BY <2>1, <2>2
  <1>12. Len(image') \in Nat
    BY <1>9, Joining
  <1>13. n # n + 1 /\ \A i \in Stored : i # n + 1 /\ i # n
    BY <1>1, <1>5
  <1>14. /\ x \in [Stops' -> Nat] /\ x[n + 1] = Len(image') /\ x[n] = a
         /\ \A i \in Stored : x[i] = at[i]
    BY <1>4, <1>6, <1>7, <1>12, <1>13, <1>21
  <1>15. LastAt(x[packed + 1])'
    BY <1>1, <1>14 DEF LastAt, Packing
  <1>16. ASSUME NEW i \in Stops'
         PROVE  x[i] % 4 = 0 /\ (First(i)' => x[i] = 0)
    <2>1. CASE i \in Stored \cup {n}
      <3>1. i \in Stops /\ x[i] = at[i]
        BY <1>6, <1>7, <1>14, <2>1
      <3>2. First(i)' => First(i)
        BY <1>3 DEF First
      <3> QED BY <1>6, <3>1, <3>2
    <2>2. CASE i = n + 1
      <3>1. ~First(i)'
        <4>1. n \in Stored' /\ ~(n + 1 <= n)
          BY <1>1, <1>3
        <4> QED BY <2>2, <4>1 DEF First
      <3> QED BY <1>9, <1>14, <2>2, <3>1
    <2> QED BY <1>4, <2>1, <2>2
  <1>17. \A i \in Stored' : EntryAt(x[i], i)'
    BY <1>3, <1>9, <1>11, <1>14
  <1>18. ASSUME NEW i \in Stored', NEW j \in Stops', Follows(i, j)'
         PROVE  x[j] = EndOf(x[i])'
    <2>1. CASE j \in Stored \cup {n}
      <3>1. i \in Stored /\ j \in Stops /\ x[j] = at[j] /\ x[i] = at[i]
        BY <1>1, <1>3, <1>5, <1>6, <1>7, <1>14, <1>18, <2>1 DEF Follows
      <3>2. Follows(i, j)
        BY <1>3, <1>18 DEF Follows
      <3> QED BY <1>6, <1>11, <3>1, <3>2
    <2>2. CASE j = n + 1
      <3>1. i = n
        BY <1>1, <1>3, <1>5, <1>18, <2>2 DEF Follows
      <3> QED BY <1>9, <1>14, <2>2, <3>1
    <2> QED BY <1>4, <2>1, <2>2
  <1>19. Layout(x)'
    BY <1>14, <1>15, <1>16, <1>17, <1>18 DEF Layout
  <1> QED BY <1>9, <1>19

\* The end of the image.
LEMMA LayoutFinished ==
    ASSUME PackInv, NEW at, Layout(at), finishArchive
    PROVE  Layout(at)' /\ IsSeq(image)'
  <1>1. /\ input' = input /\ packed' = packed /\ packed = Len(input.files) /\ packed \in Nat
        /\ call'.at = "ready" /\ Packing /\ input \in Inputs /\ IsSeq(image)
        /\ Written(LastHeader, <<>>)
    <2>1. Len(input.files) \in Nat
      BY FilesTyped DEF PackInv
    <2> QED BY <2>1 DEF PackInv, finishArchive, Packing, Ready
  <1>2. IsSeq(<<>>)
    <2>1. <<>> \in Seq(Nat)
      OBVIOUS
    <2> QED BY <2>1 DEF IsSeq
  <1>3. /\ at \in [Stops -> Nat] /\ at[packed + 1] = Len(image)
        /\ \A i \in Stops : at[i] % 4 = 0 /\ (First(i) => at[i] = 0)
        /\ \A i \in Stored : EntryAt(at[i], i)
        /\ \A i \in Stored, j \in Stops : Follows(i, j) => at[j] = EndOf(at[i])
    BY <1>1 DEF Layout, LastAt
  <1>4. Stored' = Stored /\ Stops' = Stops
    BY <1>1 DEF Stored, Stops
  <1>5. \A i \in Stored : EntryAt(at[i], i)' /\ EndOf(at[i])' = EndOf(at[i])
    <2> SUFFICES ASSUME NEW i \in Stored PROVE EntryAt(at[i], i)' /\ EndOf(at[i])' = EndOf(at[i])
      OBVIOUS
    <2>1. PICK b \in Nat : b = at[i] /\ EntryAt(b, i) /\ i \in 1 .. Len(input.files)
      BY <1>1, <1>3 DEF Stored, Stops
    <2>2. EntryAt(b, i)' /\ EndOf(b)' = EndOf(b)
      BY <1>1, <1>2, <2>1, EntryStays
    <2> QED BY <2>1, <2>2
  <1>6. /\ IsSeq(image)' /\ Len(image) \in DOMAIN headers'
        /\ headers'[Len(image)].flags = FLAG_LASTFILE
    BY <1>1, <1>2, WrittenOut DEF LastHeader
  <1>7. LastAt(at[packed + 1])'
    BY <1>1, <1>3, <1>6 DEF LastAt, Packing
  <1>8. \A i, j : (First(i)' <=> First(i)) /\ (Follows(i, j)' <=> Follows(i, j))
    BY <1>4 DEF First, Follows
  <1> QED BY <1>1, <1>3, <1>4, <1>5, <1>6, <1>7, <1>8 DEF Layout

-----------------------------------------------------------------------------
(* Packing                                                                 *)

\* The encoder is made.
LEMMA BeginCompresses ==
    ASSUME PackInv, CompressBegin
    PROVE  Compressing'
  <1>1. /\ call' = [at |-> "sink", left |-> File.data, r |-> <<>>,
                    p |-> [e |-> Enc!heatshrink_encoder_alloc(input.fmt), out |-> <<>>,
                           room |-> 2 * Len(File.data) - 1]]
        /\ input' = input /\ packed' = packed /\ packed < Len(input.files) /\ File.data # <<>>
    BY DEF CompressBegin, NextFile
  <1>2. IsSeq(<<>>)
    <2>1. <<>> \in Seq(Nat)
      OBVIOUS
    <2> QED BY <2>1 DEF IsSeq
  <1>3. PICK e : e = Enc!heatshrink_encoder_alloc(input.fmt)
    OBVIOUS
  <1>4. DOMAIN e = EncoderFields /\ e.flags = {} /\ e.state = "NOT_FULL"
    BY <1>3 DEF EncoderFields, Enc!heatshrink_encoder_alloc
  <1>5. /\ call'.at = "sink" /\ DOMAIN call' = {"at", "left", "r", "p"} /\ call'.r = <<>>
        /\ call'.p.e = e /\ call'.p.out = <<>> /\ DOMAIN call'.p = {"e", "out", "room"}
    BY <1>1, <1>3
  <1>6. Shape(call'.p)
    BY <1>2, <1>4, <1>5 DEF Shape
  <1>7. File' = File
    BY <1>1 DEF File
  <1> QED BY <1>1, <1>2, <1>4, <1>5, <1>6, <1>7 DEF Compressing, NotFinishing

\* The encoder is fed.
LEMMA SinkCompresses ==
    ASSUME PackInv, CompressSink
    PROVE  Compressing' /\ call'.at = "poll"
  <1>1. /\ call.at = "sink" /\ input' = input /\ packed' = packed
        /\ DOMAIN call = {"at", "left", "r", "p"} /\ Shape(call.p) /\ IsSeq(call.r)
        /\ packed < Len(input.files) /\ File.data # <<>>
        /\ NotFinishing(call.p.e) /\ call.p.e.state = "NOT_FULL"
    BY DEF PackInv, Compressing, CompressSink
  <1> DEFINE e == call.p.e
             left == SubSeq(call.left, Enc!SinkSize(e, Len(call.left)) + 1, Len(call.left))
             sunk == Enc!heatshrink_encoder_sink(e, call.left)
             f == IF left = <<>> THEN Enc!heatshrink_encoder_finish(sunk) ELSE sunk
  <1>2. Enc!MaySink(e)
    BY <1>1 DEF NotFinishing, Enc!MaySink
  <1>3. call' = [call EXCEPT !.at = "poll", !.left = left, !.p.e = f]
    BY <1>2 DEF CompressSink
  <1>4. DOMAIN sunk = EncoderFields /\ sunk.flags = e.flags /\ sunk.state \in {"FILLED", "NOT_FULL"}
    <2>1. DOMAIN e = EncoderFields
      BY <1>1 DEF Shape
    <2> HIDE DEF e
    <2>2. ASSUME NEW x, NEW y, NEW z \in {"FILLED", e.state}
          PROVE  LET s == [e EXCEPT !.buffer = x, !.input_size = y, !.state = z]
                 IN  DOMAIN s = EncoderFields /\ s.flags = e.flags /\ s.state = z
      BY <2>1 DEF EncoderFields
    <2>3. e.state = "NOT_FULL"
      BY <1>1 DEF e
    <2> QED BY <2>2, <2>3 DEF Enc!heatshrink_encoder_sink
  <1> HIDE DEF sunk
  <1>5. DOMAIN f = EncoderFields /\ (left = <<>> \/ Feeding(f))
    <2>1. Feeding(sunk)
      BY <1>1, <1>4 DEF Feeding, NotFinishing
    <2>2. DOMAIN Enc!heatshrink_encoder_finish(sunk) = EncoderFields
      BY <1>4 DEF EncoderFields, Enc!heatshrink_encoder_finish
    <2> HIDE DEF left
    <2> QED BY <1>4, <2>1, <2>2
  <1> HIDE DEF left, f
  <1>6. /\ DOMAIN call' = {"at", "left", "r", "p"} /\ call'.at = "poll" /\ call'.left = left
        /\ call'.r = call.r /\ call'.p = [call.p EXCEPT !.e = f]
    BY <1>1, <1>3
  <1>7. DOMAIN call'.p = {"e", "out", "room"} /\ call'.p.e = f /\ call'.p.out = call.p.out
    BY <1>1, <1>6 DEF Shape
  <1>8. Shape(call'.p)
    BY <1>1, <1>5, <1>7 DEF Shape
  <1>9. File' = File
    BY <1>1 DEF File
  <1> QED BY <1>1, <1>5, <1>6, <1>7, <1>8, <1>9 DEF Compressing

\* The encoder is asked for output.
LEMMA RoundCompresses ==
    ASSUME PackInv, CompressRound
    PROVE  Compressing' /\ call'.at \in {"poll", "sink", "end"}
  <1>1. /\ call.at = "poll" /\ input' = input /\ packed' = packed
        /\ DOMAIN call = {"at", "left", "r", "p"} /\ Shape(call.p) /\ IsSeq(call.r)
        /\ packed < Len(input.files) /\ File.data # <<>>
        /\ call.left = <<>> \/ Feeding(call.p.e)
    BY DEF PackInv, Compressing, CompressRound
  <1>2. PICK q : q = Enc!EncoderStep(call.p)
    OBVIOUS
  <1>3. /\ Shape(q) /\ (Feeding(call.p.e) => Feeding(q.e))
        /\ call.p.e.state = "NOT_FULL" => q = call.p
    BY <1>1, <1>2, EncoderStepMode
  <1>4. PICK m : m = Emptied(q)
    OBVIOUS
  <1>5. Shape(m) /\ m.e = q.e
    <2>1. IsSeq(<<>>)
      <3>1. <<>> \in Seq(Nat)
        OBVIOUS
      <3> QED BY <3>1 DEF IsSeq
    <2> QED BY <1>3, <1>4, <2>1 DEF Emptied, Shape
  <1>6. IsSeq(call.r \o q.out)
    BY <1>1, <1>3, Joining DEF Shape
  <1>7. File' = File
    BY <1>1 DEF File
  <1>8. PICK polled : polled = Enc!EncoderPolled(call.p, q)
    OBVIOUS
  <1>9. /\ polled \in {"GOES_ON", "MORE", "EMPTY"}
        /\ polled = "EMPTY" => call.p.e.state \in {"NOT_FULL", "DONE", "FLUSH_BITS"}
    BY <1>8 DEF Enc!EncoderPolled
  <1>10. call' = CASE polled = "GOES_ON" -> [call EXCEPT !.p = q]
                   [] polled = "MORE" -> [call EXCEPT !.p = m, !.r = @ \o q.out]
                   [] polled = "EMPTY" -> [call EXCEPT !.p = m, !.r = @ \o q.out,
                                                       !.at = AfterPoll]
    BY <1>2, <1>4, <1>8 DEF CompressRound
  <1>11. ASSUME polled = "GOES_ON"
         PROVE  Compressing' /\ call'.at = "poll"
    <2>1. /\ DOMAIN call' = {"at", "left", "r", "p"} /\ call'.at = "poll" /\ call'.p = q
          /\ call'.left = call.left /\ call'.r = call.r
      BY <1>1, <1>10, <1>11
    <2> QED BY <1>1, <1>3, <1>7, <2>1 DEF Compressing
  <1>12. ASSUME polled = "MORE"
         PROVE  Compressing' /\ call'.at = "poll"
    <2>1. /\ DOMAIN call' = {"at", "left", "r", "p"} /\ call'.at = "poll" /\ call'.p = m
          /\ call'.left = call.left /\ call'.r = call.r \o q.out
      BY <1>1, <1>10, <1>12
    <2> QED BY <1>1, <1>3, <1>5, <1>6, <1>7, <2>1 DEF Compressing
  <1>13. ASSUME polled = "EMPTY"
         PROVE  Compressing' /\ call'.at \in {"sink", "end"}
    <2>1. /\ DOMAIN call' = {"at", "left", "r", "p"} /\ call'.at = AfterPoll /\ call'.p = m
          /\ call'.left = call.left /\ call'.r = call.r \o q.out
      BY <1>1, <1>10, <1>13
    <2>2. AfterPoll \in {"sink", "end"} /\ (AfterPoll = "sink" => call.left # <<>>)
      BY DEF AfterPoll
    <2>3. ASSUME AfterPoll = "sink"
          PROVE  NotFinishing(m.e) /\ m.e.state = "NOT_FULL"
      <3>1. Feeding(call.p.e) /\ call.p.e.state = "NOT_FULL"
        BY <1>1, <1>9, <1>13, <2>2, <2>3 DEF Feeding
      <3> QED BY <1>3, <1>5, <3>1 DEF Feeding
    <2> QED BY <1>1, <1>5, <1>6, <1>7, <2>1, <2>2, <2>3 DEF Compressing
  <1> QED BY <1>9, <1>11, <1>12, <1>13

\* Steps that pack keep the image right.
LEMMA HostPacks ==
    ASSUME PackInv, Host
    PROVE  PackInv'
  <1>1. /\ input \in Inputs /\ packed \in 0 .. Len(input.files) /\ IsSeq(image)
        /\ Len(input.files) \in Nat /\ packed \in Nat
    <2>1. Len(input.files) \in Nat
      BY FilesTyped DEF PackInv
    <2> QED BY <2>1 DEF PackInv
  <1>2. PICK at : Layout(at)
    BY DEF PackInv
  <1>3. CASE HandleEmpty
    <2>1. \E x : Layout(x)'
      BY <1>1, <1>2, <1>3, LayoutEmpty
    <2>2. /\ input' = input /\ image' = image /\ packed' = packed + 1 /\ call' = call
          /\ packed < Len(input.files) /\ call.at = "main"
      BY <1>3 DEF HandleEmpty, NextFile, out
    <2>3. packed' \in 0 .. Len(input'.files)
      BY <1>1, <2>2
    <2>4. IsSeq(image)' /\ Compressing'
      BY <1>1, <2>2 DEF IsSeq, Compressing
    <2> QED BY <1>1, <2>1, <2>2, <2>3, <2>4 DEF PackInv
  <1>4. ASSUME NEW c, NEW bytes, IsSeq(bytes), c = COMPRESS_NONE => bytes = File.data,
               StoreFile(c, bytes), input' = input, packed < Len(input.files),
               File.data # <<>>, call.at \in {"main", "end"}
        PROVE  PackInv'
    <2>1. (\E x : Layout(x)') /\ IsSeq(image)'
      BY <1>2, <1>4, LayoutStored
    <2>2. packed' = packed + 1 /\ call' = [at |-> "main"] /\ input' = input
      BY <1>4 DEF StoreFile
    <2>3. packed' \in 0 .. Len(input'.files)
      BY <1>1, <1>4, <2>2
    <2>4. Compressing' /\ call'.at = "main"
      BY <2>2 DEF Compressing
    <2> QED BY <1>1, <2>1, <2>2, <2>3, <2>4 DEF PackInv
  <1>5. CASE HandleStored
    <2>1. IsSeq(File.data)
      <3>1. packed + 1 \in 1 .. Len(input.files) /\ File.data = FileData(packed + 1)
        BY <1>1, <1>5 DEF HandleStored, NextFile, File, FileData
      <3> QED BY <1>1, <3>1, FilesTyped
    <2> QED BY <1>4, <1>5, <2>1 DEF HandleStored, NextFile
  <1>6. CASE CompressEnd
    <2>1. IsSeq(<<Parameters(input.fmt)>> \o call.r)
      <3>1. PICK b : b = Parameters(input.fmt)
        OBVIOUS
      <3>2. IsSeq(<<b>>)
        <4>1. <<b>> \in Seq({b})
          OBVIOUS
        <4> QED BY <4>1 DEF IsSeq
      <3>3. IsSeq(call.r)
        BY <1>6 DEF CompressEnd, PackInv, Compressing
      <3> QED BY <3>1, <3>2, <3>3, Joining
    <2>2. call.at = "end" /\ packed < Len(input.files) /\ File.data # <<>>
      BY <1>6 DEF CompressEnd, PackInv, Compressing
    <2>3. COMPRESS_HEATSHRINK # COMPRESS_NONE
      BY DEF COMPRESS_HEATSHRINK, COMPRESS_NONE
    <2>4. StoreFile(COMPRESS_HEATSHRINK, <<Parameters(input.fmt)>> \o call.r) /\ input' = input
      BY <1>6 DEF CompressEnd
    <2> QED BY <1>4, <2>1, <2>2, <2>3, <2>4
  <1>7. CASE finishArchive
    <2>1. Layout(at)' /\ IsSeq(image)'
      BY <1>2, <1>7, LayoutFinished
    <2>2. input' = input /\ packed' = packed /\ call' = Ready
      BY <1>7 DEF finishArchive
    <2>3. Compressing' /\ call'.at = "ready"
      BY <2>2 DEF Compressing, Ready
    <2> QED BY <1>1, <2>1, <2>2, <2>3 DEF PackInv
  <1>8. CASE CompressBegin \/ CompressSink \/ CompressRound
    <2>1. UNCHANGED <<input, packed, out>> /\ call.at \in {"main", "sink", "poll"}
      BY <1>8 DEF CompressBegin, CompressSink, CompressRound, NextFile
    <2>2. Compressing' /\ call'.at \in {"sink", "poll", "end"}
      <3>1. CompressBegin => call'.at = "sink"
        BY DEF CompressBegin
      <3> QED BY <1>8, <3>1, BeginCompresses, SinkCompresses, RoundCompresses
    <2>3. Packing /\ Packing'
      BY <2>1, <2>2 DEF Packing
    <2>4. Layout(at)'
      BY <1>2, <2>1, <2>3, LayoutSame
    <2>5. input' = input /\ packed' = packed /\ IsSeq(image)'
      BY <1>1, <2>1 DEF out, IsSeq
    <2> QED BY <1>1, <2>2, <2>4, <2>5 DEF PackInv
  <1> QED BY <1>3, <1>5, <1>6, <1>7, <1>8 DEF Host

\* Other steps leave the image alone.
LEMMA OthersPack ==
    ASSUME PackInv, UNCHANGED <<input, packed, out>>, ~Packing,
           call'.at \in {"ready", "open", "feed", "decode"}
    PROVE  PackInv' /\ \A at : Layout(at) => Layout(at)'
  <1>1. ~Packing'
    BY DEF Packing
  <1>2. \A at : Layout(at) => Layout(at)'
    BY <1>1, LayoutSame
  <1>3. Compressing'
    BY DEF Compressing
  <1>4. input' = input /\ packed' = packed /\ IsSeq(image)'
    BY DEF PackInv, out, IsSeq
  <1> QED BY <1>2, <1>3, <1>4 DEF PackInv

-----------------------------------------------------------------------------
(* Opening                                                                 *)

\* A set of numbers that is not empty has a least one.
LEMMA Least ==
    ASSUME NEW S \in SUBSET Nat, S # {}
    PROVE  \E i \in S : \A j \in S : i <= j
  <1>1. \A x, y \in Nat : x < y => <<x, y>> \in OpToRel(<, Nat)
    BY DEF OpToRel
  <1>2. PICK R : R = OpToRel(<, Nat)
    OBVIOUS
  <1>3. IsWellFoundedOn(R, Nat)
    BY <1>2, NatLessThanWellFounded
  <1>4. PICK i \in S : \A j \in S : ~(<<j, i>> \in R)
    BY <1>3, WFMin
  <1>5. \A j \in S : i <= j
    <2> SUFFICES ASSUME NEW j \in S, ~(i <= j) PROVE FALSE
      OBVIOUS
    <2>1. i \in Nat /\ j \in Nat /\ j < i
      OBVIOUS
    <2> QED BY <1>1, <1>2, <1>4, <2>1
  <1> QED BY <1>5

\* Where an espFsOpen is, seen by the chain.
StopAt(at, k) ==
    /\ k \in Stops /\ call.p = input.base + at[k]
    /\ \A i \in Stored : i < k => FileName(i) # Stripped(name)

\* It is at a file, or at the end behind all of them.
LEMMA AtStop ==
    ASSUME PackInv, call.at = "open", NEW at, Layout(at), NEW k, StopAt(at, k)
    PROVE  /\ packed \in Nat /\ input.base \in Nat /\ at[k] \in Nat /\ k \in Nat
           /\ packed = Len(input.files)
           /\ HeaderAt(call.p) = headers[at[k]] /\ HasHeader(call.p)
           /\ k \in Stored => EntryAt(at[k], k) /\ headers[at[k]].flags # FLAG_LASTFILE
           /\ k \notin Stored => k = packed + 1 /\ headers[at[k]].flags = FLAG_LASTFILE
  <1>1. /\ input \in Inputs /\ input.base \in Nat /\ packed \in Nat /\ ~Packing
    <2>1. Len(input.files) \in Nat /\ input.base \in Nat
      BY FilesTyped DEF PackInv
    <2> QED BY <2>1 DEF PackInv, Packing
  <1>2. /\ at[k] \in Nat /\ k \in Nat /\ (k \in Stored \/ k = packed + 1)
        /\ packed = Len(input.files) /\ at[packed + 1] \in DOMAIN headers
        /\ headers[at[packed + 1]].flags = FLAG_LASTFILE
        /\ k \in Stored => EntryAt(at[k], k)
    BY <1>1 DEF Layout, LastAt, StopAt, Stops, Stored
  <1>3. k \in Stored => at[k] \in DOMAIN headers /\ headers[at[k]].flags = 0
    BY <1>2 DEF EntryAt
  <1>4. call.p - input.base = at[k]
    BY <1>1, <1>2 DEF StopAt
  <1> QED BY <1>1, <1>2, <1>3, <1>4 DEF HeaderAt, HasHeader, FLAG_LASTFILE

\* The address of the first header is that of the image.
LEMMA OpenStarts ==
    ASSUME PackInv, NEW at, Layout(at), NEW p, p = input.base
    PROVE  \E k \in Stops : p = input.base + at[k] /\ \A i \in Stored : ~(i < k)
  <1>1. packed \in Nat /\ input.base \in Nat
    <2>1. Len(input.files) \in Nat /\ input.base \in Nat
      BY FilesTyped DEF PackInv
    <2> QED BY <2>1 DEF PackInv
  <1>2. Stops \in SUBSET Nat /\ packed + 1 \in Stops /\ Stops # {}
        /\ \A i \in Stored : i \in Stops
    BY <1>1 DEF Stops, Stored
  <1>3. PICK k \in Stops : \A j \in Stops : k <= j
    BY <1>2, Least
  <1>4. at[k] = 0
    BY <1>2, <1>3 DEF Layout, First
  <1>5. \A i \in Stored : ~(i < k)
    <2>1. k \in Nat /\ \A i \in Stored : i \in Nat /\ k <= i
      BY <1>2, <1>3 DEF Stored
    <2>2. \A x, y \in Nat : x <= y => ~(y < x)
      OBVIOUS
    <2> QED BY <2>1, <2>2, Zenon
  <1> QED BY <1>1, <1>3, <1>4, <1>5

\* The address of the header behind a file that is not the one.
LEMMA OpenGoesOn ==
    ASSUME PackInv, call.at = "open", input.base % 4 = 0, NEW at, Layout(at),
           NEW k, StopAt(at, k), k \in Stored, FileName(k) # Stripped(name)
    PROVE  \E j \in Stops :
              /\ Aligned(call.p + HeaderSize + HeaderAt(call.p).nameLen
                            + HeaderAt(call.p).fileLenComp) = input.base + at[j]
              /\ \A i \in Stored : i < j => FileName(i) # Stripped(name)
  <1>1. /\ packed \in Nat /\ input.base \in Nat /\ at[k] \in Nat /\ k \in Nat
        /\ HeaderAt(call.p) = headers[at[k]] /\ EntryAt(at[k], k)
    BY AtStop
  <1> DEFINE S == {j \in Stops : k < j}
  <1>2. S \in SUBSET Nat /\ packed + 1 \in S
    BY <1>1 DEF Stops, Stored
  <1>3. PICK j \in S : \A m \in S : j <= m
    BY <1>2, Least
  <1>4. j \in Stops /\ Follows(k, j)
    <2>1. \A m \in Stored : m \in Nat /\ (m <= k \/ m \in S)
      BY <1>1 DEF Stops, Stored
    <2> QED BY <1>3, <2>1 DEF Follows
  <1>5. at[j] = EndOf(at[k])
    BY <1>4 DEF Layout
  <1>6. at[k] % 4 = 0
    BY DEF Layout, StopAt
  <1>7. PICK h : h = headers[at[k]]
    OBVIOUS
  <1>8. h.nameLen \in Nat /\ h.nameLen % 4 = 0 /\ h.fileLenComp \in Nat
    <2>1. FileName(k) \in Strings
      <3>1. k \in 1 .. Len(input.files) /\ input \in Inputs
        BY FilesTyped DEF PackInv, Stored
      <3> QED BY <3>1, FilesTyped
    <2> QED BY <1>1, <1>7, <2>1, NameLenOf DEF EntryAt
  <1> DEFINE b == input.base + at[k] + HeaderSize + h.nameLen
  <1>9. b \in Nat /\ b % 4 = 0
    <2>1. PICK x \in Nat, y \in Nat, l \in Nat : x = input.base /\ y = at[k] /\ l = h.nameLen
      BY <1>1, <1>8
    <2>2. x % 4 = 0 /\ y % 4 = 0 /\ l % 4 = 0
      BY <1>6, <1>8, <2>1
    <2>3. (x + HeaderSize + l + y) % 4 = 0
      BY <2>2, SumAligned, Zenon
    <2>4. x + y + HeaderSize + l = x + HeaderSize + l + y /\ x + y + HeaderSize + l \in Nat
      BY DEF HeaderSize
    <2> QED BY <2>1, <2>3, <2>4, Zenon
  <1>10. Aligned(b + h.fileLenComp) = b + Aligned(h.fileLenComp) /\ Aligned(h.fileLenComp) \in Nat
    <2> HIDE DEF b
    <2> QED BY <1>8, <1>9, Filled
  <1>11. b + Aligned(h.fileLenComp) = input.base + at[j]
    <2>1. EndOf(at[k]) = at[k] + HeaderSize + h.nameLen + Aligned(h.fileLenComp)
      BY <1>7 DEF EndOf
    <2> QED BY <1>1, <1>5, <1>8, <1>10, <2>1 DEF HeaderSize
  <1>12. call.p + HeaderSize + HeaderAt(call.p).nameLen + HeaderAt(call.p).fileLenComp
            = b + h.fileLenComp
    BY <1>1, <1>7 DEF StopAt
  <1>13. \A i \in Stored : i < j => FileName(i) # Stripped(name)
    <2>1. \A i \in Stored : i \in Nat /\ (i < j => i <= k)
      BY <1>1, <1>2, <1>4 DEF Follows, Stored
    <2> QED BY <1>1, <2>1 DEF StopAt
  <1> HIDE DEF b, S
  <1> QED BY <1>4, <1>10, <1>11, <1>12, <1>13, Zenon

\* At the end no file has the name.
LEMMA OpenMisses ==
    ASSUME PackInv, ReadInv, OpenNone
    PROVE  Named(name) = {}
  <1>1. PICK at, k : Layout(at) /\ StopAt(at, k) /\ call.at = "open"
    BY DEF OpenNone, InOpen, ReadInv, Walking, StopAt
  <1>2. k = packed + 1 /\ packed = Len(input.files) /\ packed \in Nat
    BY <1>1, AtStop DEF OpenNone
  <1>3. \A i \in Stored : FileName(i) # Stripped(name)
    <2>1. \A i \in Stored : i < k
      BY <1>2 DEF Stored
    <2> QED BY <1>1, <2>1 DEF StopAt
  <1>4. DOMAIN input.files = 1 .. packed
    BY <1>2, EspFsAssumption DEF PackInv
  <1>5. \A i \in DOMAIN input.files :
            input.files[i].data # <<>> => RealName(input.files[i].name) # Stripped(name)
    BY <1>3, <1>4 DEF Stored, FileName
  <1> QED BY <1>5 DEF Named

\* A name that is found is the file's.
LEMMA OpenHits ==
    ASSUME PackInv, call.at = "open", name \in Asked, NEW at, Layout(at), NEW k, StopAt(at, k)
    PROVE  /\ Here => IsNamed(k, name)
           /\ Elsewhere => k \in Stored /\ FileName(k) # Stripped(name)
  <1>1. /\ k \in Stored \/ HeaderAt(call.p).flags = FLAG_LASTFILE
        /\ k \in Stored => EntryAt(at[k], k)
        /\ at[k] \in Nat /\ input.base \in Nat
    BY AtStop
  <1>2. Here \/ Elsewhere => k \in Stored
    BY <1>1 DEF Here, Elsewhere
  <1>3. k \in Stored =>
            (IsName(call.p + HeaderSize, Stripped(name)) <=> FileName(k) = Stripped(name))
    <2> SUFFICES ASSUME k \in Stored
                 PROVE  IsName(call.p + HeaderSize, Stripped(name)) <=> FileName(k) = Stripped(name)
      OBVIOUS
    <2>1. FileName(k) \in Strings
      <3>1. k \in 1 .. Len(input.files) /\ input \in Inputs
        BY FilesTyped DEF PackInv, Stored
      <3> QED BY <3>1, FilesTyped
    <2>2. Stripped(name) \in Strings
      BY StrippedString, EspFsAssumption
    <2>3. PICK a \in Nat, m \in Strings, n \in Strings :
             a = at[k] /\ m = FileName(k) /\ n = Stripped(name)
      BY <1>1, <2>1, <2>2
    <2>4. NameAt(a, m)
      BY <1>1, <2>3 DEF EntryAt
    <2>5. IsName(input.base + a + HeaderSize, n) <=> m = n
      BY <1>1, <2>4, NamesCompared
    <2>6. call.p = input.base + a
      BY <2>3 DEF StopAt
    <2> QED BY <2>3, <2>5, <2>6
  <1>4. \A i \in Stored : i < k => FileName(i) # Stripped(name)
    BY DEF StopAt
  <1> QED BY <1>2, <1>3, <1>4 DEF Here, Elsewhere, IsNamed

\* The file is then open.
LEMMA OpenHolds ==
    ASSUME PackInv, ReadInv, OpenFound
    PROVE  Holding'
  <1>1. PICK at, k : Layout(at) /\ StopAt(at, k)
    BY DEF OpenFound, InOpen, ReadInv, Walking, StopAt
  <1>2. /\ call.at = "open" /\ name # NULL /\ name \in Asked /\ data = <<>> /\ ~short
        /\ UNCHANGED <<input, packed, out>> /\ name' = name /\ data' = data /\ short' = short
        /\ call' = Ready /\ fh' = Handle(call.p) /\ Here
    BY DEF OpenFound, InOpen, ReadInv
  <1>3. Layout(at)'
    BY <1>1, <1>2, LayoutSame DEF Packing, Ready
  <1>4. IsNamed(k, name)
    BY <1>1, <1>2, OpenHits
  <1>5. k \in Stored' /\ IsNamed(k, name)'
    BY <1>2, <1>4 DEF IsNamed, Stored, FileName
  <1>6. PICK a \in Nat : a = at[k] /\ EntryAt(a, k) /\ HeaderAt(call.p) = headers[a]
                         /\ call.p = input.base + a /\ input.base \in Nat
    BY <1>1, <1>2, <1>4, AtStop DEF IsNamed, StopAt
  <1>7. headers' = headers /\ input' = input
    BY <1>2 DEF out
  <1>8. PICK h : h = headers[a]
    OBVIOUS
  <1>9. h.nameLen \in Nat
    <2>1. FileName(k) \in Strings
      <3>1. k \in 1 .. Len(input.files) /\ input \in Inputs
        BY <1>4, FilesTyped DEF PackInv, Stored, IsNamed
      <3> QED BY <3>1, FilesTyped
    <2> QED BY <1>6, <1>8, <2>1, NameLenOf DEF EntryAt
  <1>10. PICK start \in Nat : start = input.base + a + HeaderSize + h.nameLen
    BY <1>6, <1>9 DEF HeaderSize
  <1>11. /\ DOMAIN fh' = FileFields /\ fh'.head = h /\ fh'.posStart = start
         /\ h.compression = COMPRESS_NONE => fh'.posComp = start /\ fh'.dec = NULL
    <2>1. call.p + HeaderSize + h.nameLen = start
      BY <1>6, <1>10
    <2> QED BY <1>2, <1>6, <1>8, <2>1 DEF Handle, FileFields
  <1>12. /\ data' \in Seq(Nat) /\ Len(data') = 0
         /\ fh'.posStart + 0 = start /\ ~short'
    BY <1>2, <1>10, <1>11
  <1>13. Len(FileData(k)') \in Nat
    <2>1. k \in 1 .. Len(input.files) /\ input \in Inputs
      BY <1>4, FilesTyped DEF PackInv, Stored, IsNamed
    <2> QED BY <1>7, <2>1, FilesTyped DEF FileData
  <1>14. fh'.head.compression = COMPRESS_NONE =>
            /\ fh'.dec = NULL /\ data' \in Seq(Nat) /\ Len(data') <= Len(FileData(k)')
            /\ fh'.posComp = fh'.posStart + Len(data')
            /\ \A j \in 1 .. Len(data') : data'[j] = FileData(k)'[j]
            /\ short' => Len(data') = Len(FileData(k)')
    BY <1>10, <1>11, <1>12, <1>13
  <1>15. /\ fh'.head = headers'[at[k]]
         /\ fh'.posStart = input'.base + at[k] + HeaderSize + headers'[at[k]].nameLen
         /\ fh'.posStart \in Nat
    BY <1>6, <1>7, <1>8, <1>10, <1>11
  <1> QED BY <1>2, <1>3, <1>5, <1>11, <1>14, <1>15 DEF Holding

-----------------------------------------------------------------------------
(* Reading                                                                 *)

\* Of a compressed file only the place matters.
LEMMA HoldingStays ==
    ASSUME Holding, UNCHANGED <<input, packed, out, name>>, Packing' <=> Packing,
           DOMAIN fh' = DOMAIN fh, fh'.head = fh.head, fh'.posStart = fh.posStart,
           fh.head.compression # COMPRESS_NONE
    PROVE  Holding'
  <1>1. PICK at, k : /\ Layout(at) /\ k \in Stored /\ IsNamed(k, name) /\ fh.head = headers[at[k]]
                     /\ fh.posStart = input.base + at[k] + HeaderSize + headers[at[k]].nameLen
    BY DEF Holding
  <1>2. Layout(at)'
    BY <1>1, LayoutSame
  <1>3. k \in Stored' /\ IsNamed(k, name)' /\ headers' = headers
    BY <1>1 DEF IsNamed, Stored, FileName, out
  <1>4. /\ fh'.head = headers'[at[k]] /\ fh'.head.compression # COMPRESS_NONE
        /\ fh'.posStart = input'.base + at[k] + HeaderSize + headers'[at[k]].nameLen
        /\ fh'.posStart \in Nat /\ name' # NULL /\ DOMAIN fh' = FileFields
    BY <1>1, <1>3 DEF Holding
  <1> QED BY <1>2, <1>3, <1>4 DEF Holding

\* What is read of a file that is stored as it is comes out of its data.
LEMMA StoredRead ==
    ASSUME PackInv, Holding, ~Packing, fh.head.compression = COMPRESS_NONE,
           NEW len \in Nat, ReadStored(len), ~Packing'
    PROVE  Holding'
  <1>23. PICK at, k :
           /\ Layout(at) /\ k \in Stored /\ IsNamed(k, name) /\ fh.head = headers[at[k]]
           /\ fh.posStart = input.base + at[k] + HeaderSize + headers[at[k]].nameLen
           /\ fh.head.compression = COMPRESS_NONE =>
                 /\ fh.dec = NULL /\ data \in Seq(Nat) /\ Len(data) <= Len(FileData(k))
                 /\ fh.posComp = fh.posStart + Len(data)
                 /\ \A j \in 1 .. Len(data) : data[j] = FileData(k)[j]
                 /\ short => Len(data) = Len(FileData(k))
    BY Zenon DEF Holding
  <1>1. /\ Layout(at) /\ k \in Stored /\ IsNamed(k, name) /\ fh.head = headers[at[k]]
        /\ fh.posStart = input.base + at[k] + HeaderSize + headers[at[k]].nameLen
        /\ fh.dec = NULL /\ data \in Seq(Nat) /\ Len(data) <= Len(FileData(k))
        /\ fh.posComp = fh.posStart + Len(data)
        /\ \A j \in 1 .. Len(data) : data[j] = FileData(k)[j]
    BY <1>23, Zenon
  <1>2. PICK d : d = FileData(k)
    OBVIOUS
  <1>3. /\ d \in Seq(Nat) /\ Len(d) \in Nat /\ Len(data) \in Nat /\ FileName(k) \in Strings
        /\ \A j \in 1 .. Len(d) : d[j] \in Nat
    <2>1. k \in 1 .. Len(input.files) /\ input \in Inputs
      BY <1>1, FilesTyped DEF PackInv, Stored
    <2>2. d \in Seq(Nat) /\ FileName(k) \in Strings
      BY <1>2, <2>1, FilesTyped
    <2> QED BY <1>1, <2>2, ElementOfSeq
  <1>4. PICK a \in Nat : a = at[k] /\ EntryAt(a, k)
    BY <1>1 DEF Layout, Stops
  <1>5. PICK h : h = headers[a]
    OBVIOUS
  <1>6. /\ fh.head = h /\ h.compression = COMPRESS_NONE /\ h.fileLenComp = Len(d)
        /\ h.nameLen \in Nat /\ DataAt(a + HeaderSize + h.nameLen, d)
    BY <1>1, <1>2, <1>3, <1>4, <1>5, NameLenOf DEF EntryAt
  <1>7. PICK base \in Nat : base = input.base
    <2>1. input.base \in Nat
      BY FilesTyped DEF PackInv
    <2> QED BY <2>1
  <1>8. PICK start \in Nat : start = a + HeaderSize + h.nameLen
    BY <1>6 DEF HeaderSize
  <1>9. fh.posStart = base + start /\ fh.posComp = base + start + Len(data)
    <2>1. PICK l \in Nat : l = h.nameLen
      BY <1>6
    <2>2. base + a + HeaderSize + l = base + (a + HeaderSize + l)
      BY DEF HeaderSize
    <2>3. fh.posStart = base + a + HeaderSize + l
      BY <1>1, <1>4, <1>5, <1>7, <2>1, Zenon
    <2>4. start = a + HeaderSize + l
      BY <1>8, <2>1, Zenon
    <2> QED BY <1>1, <2>2, <2>3, <2>4, Zenon
  <1>10. Left = Len(d) - Len(data)
    BY <1>3, <1>6, <1>9 DEF Left
  <1>11. PICK n \in Nat : /\ n = SmallerOf(len, Left) /\ Len(data) + n <= Len(d)
                          /\ n < len => Len(data) + n = Len(d)
    <2>1. PICK x \in Nat, y \in Nat : x = Len(data) /\ y = Len(d) /\ x <= y
      BY <1>1, <1>2, <1>3
    <2>2. Left = y - x
      BY <1>10, <2>1, Zenon
    <2>3. PICK z : z = SmallerOf(len, y - x)
      OBVIOUS
    <2>4. z \in Nat /\ x + z <= y /\ (z < len => x + z = y)
      BY <2>1, <2>3 DEF SmallerOf
    <2> QED BY <2>1, <2>2, <2>3, <2>4, Zenon
  <1>12. PICK B : B = Bytes(fh.posComp, n)
    OBVIOUS
  <1>13. B \in Seq(Nat) /\ Len(B) = n /\ \A i \in 1 .. n : B[i] = d[Len(data) + i]
    <2>1. \A i \in 1 .. n : Byte(fh.posComp + i - 1) = d[Len(data) + i]
      <3> SUFFICES ASSUME NEW i \in 1 .. n PROVE Byte(fh.posComp + i - 1) = d[Len(data) + i]
        OBVIOUS
      <3>1. Len(data) + i \in 1 .. Len(d)
        BY <1>3, <1>11
      <3>2. image[start + (Len(data) + i)] = d[Len(data) + i]
        BY <1>6, <1>8, <3>1 DEF DataAt
      <3>3. PICK c \in Nat : c = fh.posComp
        BY <1>3, <1>9
      <3>4. c + i - 1 - base + 1 = start + (Len(data) + i)
        BY <1>3, <1>9, <3>3
      <3>5. Byte(c + i - 1) = image[c + i - 1 - base + 1]
        BY <1>7 DEF Byte
      <3> QED BY <3>2, <3>3, <3>4, <3>5, Zenon
    <2>2. \A i \in 1 .. n : Len(data) + i \in 1 .. Len(d)
      BY <1>3, <1>11
    <2>3. \A i \in 1 .. n : Byte(fh.posComp + i - 1) \in Nat
      BY <1>3, <2>1, <2>2
    <2>4. B = [i \in 1 .. n |-> Byte(fh.posComp + i - 1)]
      BY <1>12 DEF Bytes
    <2> QED BY <2>1, <2>3, <2>4
  <1>14. /\ data' = data \o B /\ short' = (n < len)
         /\ fh' = [fh EXCEPT !.posDecomp = @ + n, !.posComp = @ + n]
         /\ UNCHANGED <<input, packed, out, name>>
    BY <1>11, <1>12 DEF ReadStored
  <1>15. /\ data' \in Seq(Nat) /\ Len(data') = Len(data) + n
         /\ \A j \in 1 .. Len(data') : data'[j] = d[j]
    <2>4. PICK D \in Seq(Nat) : D = data
      BY <1>1
    <2>5. B \in Seq(Nat)
      BY <1>13
    <2>6. D \o B \in Seq(Nat) /\ Len(D \o B) = Len(D) + Len(B)
      BY <2>5, ConcatProperties
    <2>1. data \o B \in Seq(Nat) /\ Len(data \o B) = Len(data) + Len(B)
      BY <2>4, <2>6, Zenon
    <2>2. /\ \A i \in 1 .. Len(data) : (data \o B)[i] = data[i]
          /\ \A i \in 1 .. n : (data \o B)[Len(data) + i] = B[i]
      BY <1>1, <1>13, Joining DEF IsSeq
    <2>3. ASSUME NEW j \in 1 .. Len(data) + n
          PROVE  (data \o B)[j] = d[j]
      <3>1. CASE j \in 1 .. Len(data)
        BY <1>1, <1>2, <2>2, <3>1
      <3>2. CASE j \notin 1 .. Len(data)
        <4>1. PICK i \in 1 .. n : j = Len(data) + i
          <5>1. j - Len(data) \in 1 .. n /\ j = Len(data) + (j - Len(data))
            BY <1>3, <3>2
          <5> QED BY <5>1
        <4> QED BY <1>13, <2>2, <4>1
      <3> QED BY <3>1, <3>2
    <2> QED BY <1>13, <1>14, <2>1, <2>3
  <1>16. /\ DOMAIN fh' = FileFields /\ fh'.head = h /\ fh'.posStart = fh.posStart
         /\ fh'.dec = NULL /\ fh'.posComp = fh.posComp + n /\ fh'.posStart \in Nat
    BY <1>1, <1>6, <1>14 DEF Holding, FileFields
  <1>17. fh'.posComp = fh'.posStart + Len(data')
    BY <1>3, <1>9, <1>15, <1>16
  <1>18. Layout(at)'
    BY <1>1, <1>14, LayoutSame
  <1>19. k \in Stored' /\ IsNamed(k, name)' /\ headers' = headers /\ FileData(k)' = d
    BY <1>1, <1>2, <1>14 DEF IsNamed, Stored, FileName, FileData, out
  <1>20. short' => Len(data') = Len(d)
    BY <1>11, <1>14, <1>15
  <1>21. /\ fh'.head = headers'[at[k]] /\ name' # NULL
         /\ fh'.posStart = input'.base + at[k] + HeaderSize + headers'[at[k]].nameLen
    BY <1>1, <1>4, <1>5, <1>14, <1>16, <1>19 DEF Holding
  <1>22. Len(data') <= Len(d)
    BY <1>11, <1>15
  <1> QED BY <1>15, <1>16, <1>17, <1>18, <1>19, <1>20, <1>21, <1>22 DEF Holding

-----------------------------------------------------------------------------
(* The invariant                                                           *)

\* At first there is no image.
LEMMA FsStarts ==
    ASSUME Init
    PROVE  FsInv
  <1>1. /\ input \in Inputs /\ packed = 0 /\ headers = <<>> /\ image = <<>>
        /\ espFsData = NULL /\ fh = NoFile /\ name = NULL /\ call = [at |-> "main"]
    BY DEF Init
  <1>2. Len(input.files) \in Nat
    BY <1>1, FilesTyped
  <1>3. Stored = {} /\ Stops = {1}
    <2>1. 1 .. packed = {}
      BY <1>1
    <2> QED BY <1>1, <2>1 DEF Stored, Stops
  <1>4. PICK at : at = [i \in {1} |-> 0]
    OBVIOUS
  <1>5. call.at = "main" /\ Packing
    BY <1>1 DEF Packing
  <1>6. IsSeq(image) /\ Len(image) = 0
    <2>1. <<>> \in Seq(Nat) /\ Len(<<>>) = 0
      OBVIOUS
    <2> QED BY <1>1, <2>1 DEF IsSeq
  <1>7. Layout(at)
    <2>1. at \in [Stops -> Nat] /\ at[1] = 0 /\ 0 % 4 = 0
      BY <1>3, <1>4
    <2>2. LastAt(at[packed + 1])
      BY <1>1, <1>5, <1>6, <2>1 DEF LastAt
    <2> QED BY <1>3, <2>1, <2>2 DEF Layout
  <1>8. PackInv
    <2>1. packed \in 0 .. Len(input.files)
      BY <1>1, <1>2
    <2> QED BY <1>1, <1>5, <1>6, <1>7, <2>1 DEF PackInv, Compressing
  <1>9. ReadInv
    BY <1>1, <1>5 DEF ReadInv
  <1> QED BY <1>8, <1>9 DEF FsInv

\* Packing leaves the readers alone: there is nothing to read yet.
LEMMA HostReads ==
    ASSUME FsInv, Host
    PROVE  ReadInv'
  <1>1. Packing /\ reader' = reader /\ input' = input
    BY DEF Host, HandleEmpty, HandleStored, CompressBegin, CompressSink, CompressRound,
           CompressEnd, finishArchive, NextFile, Packing
  <1>2. espFsData = NULL /\ name = NULL /\ fh = NoFile
    BY <1>1 DEF FsInv, ReadInv
  <1>3. call'.at \in {"main", "sink", "poll", "end"} \/ call' = Ready
    <2>1. HandleEmpty => call' = call
      BY DEF HandleEmpty
    <2>2. HandleStored \/ CompressEnd => call'.at = "main"
      BY DEF HandleStored, CompressEnd, StoreFile
    <2>3. CompressBegin => call'.at = "sink"
      BY DEF CompressBegin
    <2>4. CompressSink \/ CompressRound => call'.at \in {"sink", "poll", "end"}
      BY SinkCompresses, RoundCompresses DEF FsInv
    <2>5. finishArchive => call' = Ready
      BY DEF finishArchive
    <2> QED BY <1>1, <2>1, <2>2, <2>3, <2>4, <2>5 DEF Host, Packing
  <1>4. /\ espFsData' = NULL /\ name' = NULL /\ fh' = NoFile
        /\ call'.at \notin {"open", "feed", "decode"} /\ (call'.at = "ready" => call' = Ready)
    BY <1>1, <1>2, <1>3 DEF reader, Ready
  <1> QED BY <1>4 DEF ReadInv

\* espFsOpen begins with the first header.
LEMMA BeginReads ==
    ASSUME FsInv, NEW n \in Asked, OpenBegin(n)
    PROVE  FsInv'
  <1>1. /\ call = Ready /\ fh = NoFile /\ data' = <<>> /\ short' = FALSE
        /\ name' = (IF espFsData = NULL THEN NULL ELSE n)
        /\ call' = IF espFsData = NULL THEN Ready ELSE [at |-> "open", p |-> espFsData]
        /\ UNCHANGED <<input, packed, out, espFsData, fh>>
    BY DEF OpenBegin
  <1>2. ~Packing /\ call'.at \in {"ready", "open"}
    BY <1>1 DEF Packing, Ready
  <1>3. PackInv' /\ \A at : Layout(at) => Layout(at)'
    BY <1>1, <1>2, OthersPack DEF FsInv
  <1>4. ~Packing'
    BY <1>2 DEF Packing
  <1>5. CASE espFsData = NULL
    <2>1. /\ espFsData' = NULL /\ name' = NULL /\ fh' = NoFile /\ call' = Ready
          /\ call'.at = "ready"
      BY <1>1, <1>5 DEF Ready
    <2>2. ReadInv'
      BY <2>1 DEF ReadInv
    <2> QED BY <1>3, <2>2 DEF FsInv
  <1>6. CASE espFsData # NULL
    <2>1. /\ call'.at = "open" /\ call'.p = input.base /\ name' = n /\ n # NULL
          /\ DOMAIN call' = {"at", "p"}
          /\ espFsData = input.base /\ input.base % 4 = 0
      BY <1>1, <1>6, EspFsAssumption DEF FsInv, ReadInv
    <2>2. PICK at : Layout(at)
      BY DEF FsInv, PackInv
    <2>3. PICK k \in Stops : call'.p = input.base + at[k] /\ \A i \in Stored : ~(i < k)
      BY <2>1, <2>2, OpenStarts DEF FsInv
    <2>4. Stops' = Stops /\ Stored' = Stored /\ input' = input
      BY <1>1 DEF Stops, Stored
    <2>5. Walking'
      BY <1>3, <2>1, <2>2, <2>3, <2>4 DEF Walking
    <2>6. ReadInv'
      BY <1>1, <1>4, <1>6, <2>1, <2>4, <2>5 DEF ReadInv
    <2> QED BY <1>3, <2>6 DEF FsInv
  <1> QED BY <1>3, <1>5, <1>6 DEF FsInv

\* Steps of an espFsOpen.
LEMMA OpenReads ==
    ASSUME FsInv, OpenNone \/ OpenFound \/ OpenNext
    PROVE  FsInv'
  <1>1. /\ call.at = "open" /\ fh = NoFile /\ name # NULL /\ name \in Asked
        /\ data = <<>> /\ ~short /\ espFsData = input.base /\ input.base % 4 = 0
        /\ espFsData # NULL /\ DOMAIN call = {"at", "p"}
        /\ UNCHANGED <<input, packed, out, espFsData, name, data, short>>
    BY DEF FsInv, ReadInv, OpenNone, OpenFound, OpenNext, InOpen, Walking, reader
  <1>2. ~Packing /\ PackInv /\ ReadInv
    BY <1>1 DEF Packing, FsInv
  <1>3. input' = input /\ Stops' = Stops /\ Stored' = Stored
    BY <1>1 DEF Stops, Stored
  <1>4. CASE OpenNone
    <2>1. call' = Ready /\ call'.at = "ready" /\ fh' = NoFile
      BY <1>1, <1>4 DEF OpenNone, Ready, reader
    <2>2. PackInv' /\ ~Packing'
      BY <1>1, <1>2, <2>1, OthersPack DEF Packing
    <2>3. Named(name)' = {}
      BY <1>1, <1>2, <1>4, OpenMisses DEF Named
    <2>4. ReadInv'
      BY <1>1, <2>1, <2>2, <2>3 DEF ReadInv
    <2> QED BY <2>2, <2>4 DEF FsInv
  <1>5. CASE OpenFound
    <2>1. call' = Ready /\ call'.at = "ready"
      BY <1>5 DEF OpenFound, Ready
    <2>2. PackInv' /\ ~Packing'
      BY <1>1, <1>2, <2>1, OthersPack DEF Packing
    <2>3. Holding'
      BY <1>2, <1>5, OpenHolds
    <2>4. fh' # NoFile
      BY <2>3, EspFsAssumption DEF Holding, NoFile
    <2>5. ReadInv'
      BY <1>1, <2>1, <2>2, <2>3, <2>4 DEF ReadInv
    <2> QED BY <2>2, <2>5 DEF FsInv
  <1>6. CASE OpenNext
    <2>1. PICK at, k : Layout(at) /\ StopAt(at, k)
      BY <1>1 DEF FsInv, ReadInv, Walking, StopAt
    <2>2. k \in Stored /\ FileName(k) # Stripped(name)
      BY <1>1, <1>2, <1>6, <2>1, OpenHits DEF OpenNext
    <2>3. PICK p : p = Aligned(call.p + HeaderSize + HeaderAt(call.p).nameLen
                                  + HeaderAt(call.p).fileLenComp)
      OBVIOUS
    <2>4. PICK j \in Stops : p = input.base + at[j]
                             /\ \A i \in Stored : i < j => FileName(i) # Stripped(name)
      BY <1>1, <1>2, <2>1, <2>2, <2>3, OpenGoesOn
    <2>5. /\ call' = [call EXCEPT !.p = p] /\ fh' = NoFile
      BY <1>1, <1>6, <2>3 DEF OpenNext, reader
    <2>6. DOMAIN call' = {"at", "p"} /\ call'.at = "open" /\ call'.p = p
      BY <1>1, <2>5
    <2>7. PackInv' /\ ~Packing' /\ Layout(at)'
      BY <1>1, <1>2, <2>1, <2>6, OthersPack DEF Packing
    <2>8. Walking'
      <3>1. \A i : FileName(i)' = FileName(i)
        BY <1>3 DEF FileName
      <3>2. \A i \in Stored : i < j => FileName(i)' # Stripped(name')
        BY <1>1, <2>4, <3>1
      <3>3. j \in Stops' /\ call'.p = input'.base + at[j]
        BY <1>3, <2>4, <2>6
      <3>4. \E m \in Stops' : /\ call'.p = input'.base + at[m]
                              /\ \A i \in Stored' : i < m => FileName(i)' # Stripped(name')
        BY <1>3, <3>2, <3>3
      <3> QED BY <2>6, <2>7, <3>4 DEF Walking
    <2>9. ReadInv'
      BY <1>1, <2>5, <2>6, <2>7, <2>8 DEF ReadInv
    <2> QED BY <2>7, <2>9 DEF FsInv
  <1> QED BY <1>4, <1>5, <1>6

\* What is open stays open.
LEMMA ReadingReads ==
    ASSUME FsInv, NEW len \in Nat,
           ReadStored(len) \/ ReadAtEnd(len) \/ ReadBegin(len) \/ ReadFeed \/ Decode
    PROVE  FsInv'
  <1>1. /\ call.at \in {"ready", "feed", "decode"} /\ fh # NoFile /\ Holding /\ PackInv
        /\ UNCHANGED <<input, packed, out, espFsData, name>>
        /\ call.at \in {"feed", "decode"} => fh.head.compression # COMPRESS_NONE
        /\ call.at = "ready" => call = Ready
    <2>1. /\ call.at \in {"ready", "feed", "decode"}
          /\ UNCHANGED <<input, packed, out, espFsData, name>>
          /\ call.at = "ready" => fh # NoFile
      <3>1. CASE ReadStored(len) \/ ReadAtEnd(len) \/ ReadBegin(len)
        <4>1. /\ call = Ready /\ fh # NoFile
              /\ UNCHANGED <<input, packed, out, espFsData, name>>
          BY <3>1, ZenonT(30) DEF ReadStored, ReadAtEnd, ReadBegin, reader
        <4> QED BY <4>1 DEF Ready
      <3>2. CASE ReadFeed \/ Decode
        BY <3>2 DEF ReadFeed, Decode
      <3> QED BY <3>1, <3>2
    <2> QED BY <2>1 DEF FsInv, ReadInv
  <1>2. espFsData \in {NULL, input.base} /\ name \in Asked \cup {NULL}
        /\ espFsData # NULL /\ name # NULL /\ input.base % 4 = 0 /\ ~Packing
    BY <1>1 DEF FsInv, ReadInv
  <1>3. fh.dec # NULL => fh.head.compression # COMPRESS_NONE
    BY <1>1 DEF Holding
  <1>4. ASSUME Holding', \/ call' = Ready
                         \/ /\ call'.at \in {"feed", "decode"}
                            /\ fh'.head.compression # COMPRESS_NONE,
               call'.at = "decode" => DOMAIN call' = DecodeFields
        PROVE  FsInv'
    <2>1. call'.at \in {"ready", "feed", "decode"}
      BY <1>4 DEF Ready
    <2>2. PackInv' /\ ~Packing'
      BY <1>1, <1>2, <2>1, OthersPack DEF Packing
    <2>3. fh' # NoFile
      BY <1>4, EspFsAssumption DEF Holding, NoFile
    <2>4. call'.at = "ready" => call' = Ready
      BY <1>4
    <2>5. ReadInv'
      <3>1. /\ espFsData' \in {NULL, input'.base} /\ name' \in Asked \cup {NULL}
            /\ espFsData' # NULL /\ name' # NULL /\ input'.base % 4 = 0
            /\ call'.at # "open"
        BY <1>1, <1>2, <2>1
      <3>2. call'.at \in {"feed", "decode"} => fh'.head.compression # COMPRESS_NONE
        BY <1>4 DEF Ready
      <3> QED BY <1>4, <2>2, <2>3, <2>4, <3>1, <3>2 DEF ReadInv
    <2> QED BY <2>2, <2>5 DEF FsInv
  <1>5. ASSUME DOMAIN fh' = DOMAIN fh, fh'.head = fh.head, fh'.posStart = fh.posStart,
               fh.head.compression # COMPRESS_NONE,
               call' = Ready \/ call'.at \in {"feed", "decode"},
               call'.at = "decode" => DOMAIN call' = DecodeFields
        PROVE  FsInv'
    <2>1. ~Packing'
      BY <1>5 DEF Packing, Ready
    <2>2. Holding'
      BY <1>1, <1>2, <1>5, <2>1, HoldingStays
    <2> QED BY <1>4, <1>5, <2>2
  <1>6. DOMAIN fh = FileFields
    BY <1>1 DEF Holding
  <1>7. CASE ReadStored(len)
    <2>1. call' = Ready /\ ~Packing' /\ call'.at # "decode"
      BY <1>7 DEF ReadStored, Ready, Packing
    <2>2. PICK x, y : fh' = [fh EXCEPT !.posDecomp = x, !.posComp = y]
      BY <1>7 DEF ReadStored
    <2>3. DOMAIN fh' = DOMAIN fh /\ fh'.head = fh.head /\ fh'.posStart = fh.posStart
      BY <1>6, <2>2 DEF FileFields
    <2>4. CASE fh.head.compression = COMPRESS_NONE
      <3>2. Holding'
        BY <1>1, <1>2, <1>7, <2>1, <2>4, StoredRead
      <3>3. call'.at = "decode" => DOMAIN call' = DecodeFields
        BY <2>1
      <3>4. \/ call' = Ready
            \/ call'.at \in {"feed", "decode"} /\ fh'.head.compression # COMPRESS_NONE
        BY <2>1
      <3> QED BY <1>4, <3>2, <3>3, <3>4
    <2>5. CASE fh.head.compression # COMPRESS_NONE
      BY <1>5, <2>1, <2>3, <2>5
    <2> QED BY <2>4, <2>5
  <1>8. CASE ReadAtEnd(len) \/ ReadBegin(len)
    <2>1. /\ fh' = fh /\ fh.head.compression # COMPRESS_NONE
          /\ call' = Ready \/ call'.at = "feed"
          /\ call'.at # "decode"
      BY <1>3, <1>8 DEF ReadAtEnd, ReadBegin, reader, Ready
    <2> QED BY <1>5, <2>1
  <1>9. CASE ReadFeed
    <2>1. PICK x : fh' = [fh EXCEPT !.posComp = x]
      BY <1>9 DEF ReadFeed
    <2>2. DOMAIN fh' = DOMAIN fh /\ fh'.head = fh.head /\ fh'.posStart = fh.posStart
      BY <1>6, <2>1 DEF FileFields
    <2>3. /\ call'.at = "decode" /\ fh.head.compression # COMPRESS_NONE
          /\ DOMAIN call' = DecodeFields
      BY <1>1, <1>9 DEF ReadFeed, DecodeFields
    <2> QED BY <1>5, <2>2, <2>3
  <1>10. CASE Decode
    <2>1. PICK q : \/ call' = [call EXCEPT !.p = q] /\ fh' = fh
                   \/ /\ fh' = [fh EXCEPT !.dec = q.h, !.posDecomp = @ + Len(q.out)]
                      /\ call' = Ready \/ call' = [at |-> "feed", len |-> call.len,
                                                  decoded |-> call.decoded \o q.out]
      <3>1. PICK q : LET decoded == call.decoded \o q.out
                     IN  \/ /\ call' = [call EXCEPT !.p = q]
                            /\ UNCHANGED <<fh, data, short>>
                         \/ /\ fh' = [fh EXCEPT !.dec = q.h, !.posDecomp = @ + Len(q.out)]
                            /\ \/ call' = Ready
                               \/ call' = [at |-> "feed", len |-> call.len, decoded |-> decoded]
        BY <1>10, Zenon DEF Decode
      <3> QED BY <3>1
    <2>2. DOMAIN fh' = DOMAIN fh /\ fh'.head = fh.head /\ fh'.posStart = fh.posStart
      BY <1>6, <2>1 DEF FileFields
    <2>3. /\ call' = Ready \/ call'.at \in {"feed", "decode"}
          /\ call'.at = "decode" => DOMAIN call' = DecodeFields
      <3>1. call.at = "decode" /\ DOMAIN call = DecodeFields
        BY <1>10 DEF Decode, FsInv, ReadInv
      <3> QED BY <2>1, <3>1 DEF DecodeFields, Ready
    <2>4. fh.head.compression # COMPRESS_NONE
      BY <1>1, <1>10 DEF Decode
    <2> QED BY <1>5, <2>2, <2>3, <2>4
  <1> QED BY <1>7, <1>8, <1>9, <1>10

\* The image is looked at first, a file is closed last.
LEMMA InitCloseReads ==
    ASSUME FsInv, espFsInit \/ espFsClose
    PROVE  FsInv'
  <1>1. call = Ready /\ call' = call /\ UNCHANGED <<input, packed, out>>
    BY DEF espFsInit, espFsClose
  <1>2. ~Packing /\ ~Packing' /\ call'.at = "ready" /\ PackInv /\ input' = input
    BY <1>1 DEF Packing, Ready, FsInv
  <1>3. PackInv'
    BY <1>1, <1>2, OthersPack
  <1>4. CASE espFsInit
    <2>1. espFsData' = input.base /\ input.base % 4 = 0 /\ name' = NULL /\ fh' = NoFile
      BY <1>4 DEF espFsInit, FsInv, ReadInv
    <2>2. ReadInv'
      BY <1>1, <1>2, <2>1 DEF ReadInv
    <2> QED BY <1>3, <2>2 DEF FsInv
  <1>5. CASE espFsClose
    <2>1. fh' = NoFile /\ name' = NULL /\ espFsData' = espFsData
          /\ espFsData \in {NULL, input.base} /\ (espFsData # NULL => input.base % 4 = 0)
      BY <1>5 DEF espFsClose, FsInv, ReadInv
    <2>2. ReadInv'
      BY <1>1, <1>2, <2>1 DEF ReadInv
    <2> QED BY <1>3, <2>2 DEF FsInv
  <1> QED BY <1>4, <1>5

\* Nothing happens.
LEMMA StutterReads ==
    ASSUME FsInv, UNCHANGED vars
    PROVE  FsInv'
  <1>1. /\ input' = input /\ packed' = packed /\ headers' = headers /\ image' = image
        /\ espFsData' = espFsData /\ fh' = fh /\ name' = name /\ data' = data /\ short' = short
        /\ call' = call /\ UNCHANGED <<input, packed, out>>
    BY DEF vars, out, reader
  <1>2. Packing' <=> Packing
    BY <1>1 DEF Packing
  <1>3. \A at : Layout(at) => Layout(at)'
    BY <1>1, <1>2, LayoutSame
  <1>4. PackInv'
    BY <1>1, <1>3 DEF FsInv, PackInv, Compressing, File, IsSeq
  <1>5. /\ Stored' = Stored /\ Stops' = Stops /\ Named(name)' = Named(name)
        /\ \A i : FileName(i)' = FileName(i) /\ FileData(i)' = FileData(i)
    BY <1>1 DEF Stored, Stops, FileName, FileData, Named
  <1>6. Walking => Walking'
    BY <1>1, <1>3, <1>5 DEF Walking
  <1>7. Holding => Holding'
    <2>1. \A k : IsNamed(k, name) => IsNamed(k, name)'
      BY <1>1, <1>5 DEF IsNamed
    <2> QED BY <1>1, <1>3, <1>5, <2>1 DEF Holding
  <1>8. ReadInv'
    BY <1>1, <1>2, <1>5, <1>6, <1>7 DEF FsInv, ReadInv
  <1> QED BY <1>4, <1>8 DEF FsInv

\* Every reachable state has the invariant.
LEMMA FsInvariant == Spec => []FsInv
  <1>1. Init => FsInv
    BY FsStarts
  <1>2. FsInv /\ [Next]_vars => FsInv'
    <2> SUFFICES ASSUME FsInv, [Next]_vars PROVE FsInv'
      OBVIOUS
    <2>1. CASE Host
      BY <2>1, HostPacks, HostReads DEF FsInv
    <2>2. CASE OpenNone \/ OpenFound \/ OpenNext
      BY <2>2, OpenReads
    <2>3. CASE ReadFeed \/ Decode
      <3>1. 0 \in Nat
        OBVIOUS
      <3> QED BY <2>3, <3>1, ReadingReads
    <2>4. CASE \E n \in Asked : OpenBegin(n)
      BY <2>4, BeginReads
    <2>5. CASE \E len \in ReadLens : ReadStored(len) \/ ReadAtEnd(len) \/ ReadBegin(len)
      <3>1. \A len \in ReadLens : len \in Nat
        BY EspFsAssumption
      <3> QED BY <2>5, <3>1, ReadingReads
    <2>6. CASE espFsInit \/ espFsClose
      BY <2>6, InitCloseReads
    <2>7. CASE UNCHANGED vars
      BY <2>7, StutterReads
    <2> QED BY <2>1, <2>2, <2>3, <2>4, <2>5, <2>6, <2>7 DEF Next, Reading
  <1> QED BY <1>1, <1>2, PTL DEF Spec

-----------------------------------------------------------------------------
(* What readers may rely on                                                *)

\* The file a name stands for.
LEMMA NamedFile ==
    ASSUME PackInv, NEW n, NEW k, IsNamed(k, n)
    PROVE  k \in Named(n)
  <1>1. k \in DOMAIN input.files
    <2>1. k \in 1 .. Len(input.files)
      BY FilesTyped DEF PackInv, IsNamed, Stored
    <2>2. input.files \in Seq([name : Strings \ {<<>>}, data : Seq(Nat)])
      BY EspFsAssumption DEF PackInv
    <2> QED BY <2>1, <2>2
  <1> QED BY <1>1 DEF Named, IsNamed, Stored, FileName

\* It is the first of its name.
LEMMA ContentOf ==
    ASSUME PackInv, ~Packing, NEW at, Layout(at), NEW n, NEW k, IsNamed(k, n)
    PROVE  Content(n) = FileData(k)
  <1>1. packed = Len(input.files) /\ packed \in Nat
    <2>1. Len(input.files) \in Nat
      BY FilesTyped DEF PackInv
    <2> QED BY <2>1 DEF PackInv, Layout, LastAt
  <1>2. DOMAIN input.files = 1 .. packed
    <2>1. input.files \in Seq([name : Strings \ {<<>>}, data : Seq(Nat)])
      BY EspFsAssumption DEF PackInv
    <2> QED BY <1>1, <2>1
  <1>3. k \in Named(n)
    BY NamedFile
  <1>4. \A j \in Named(n) : j \in Nat /\ j \in Stored /\ FileName(j) = Stripped(n)
    BY <1>2 DEF Named, Stored, FileName
  <1>5. \A j \in Named(n) : k <= j
    <2>1. \A j \in Named(n) : ~(j < k)
      BY <1>4 DEF IsNamed
    <2> QED BY <1>3, <1>4, <2>1
  <1>6. \A i \in Named(n) : (\A j \in Named(n) : i <= j) => i = k
    <2> SUFFICES ASSUME NEW i \in Named(n), \A j \in Named(n) : i <= j PROVE i = k
      OBVIOUS
    <2>1. i <= k /\ k <= i /\ i \in Nat /\ k \in Nat
      BY <1>3, <1>4, <1>5
    <2> QED BY <2>1
  <1>7. (CHOOSE i \in Named(n) : \A j \in Named(n) : i <= j) = k
    BY <1>3, <1>5, <1>6, Zenon
  <1> QED BY <1>7 DEF Content, FileData

\* Packing does not give up.  An espFsOpen that has returned has found a file
\* if there is one of that name that is not empty, and only then (OpensRight;
\* espfs/espfs.c:127-193, espfs/mkespfsimage/main.c:178-273).
THEOREM OpensCorrect == Spec => []OpensRight
  <1>1. FsInv => OpensRight
    <2> SUFFICES ASSUME FsInv PROVE OpensRight
      OBVIOUS
    <2>1. call # Failed
      BY DEF FsInv, PackInv, Failed
    <2>2. ASSUME call = Ready, name # NULL, fh = NoFile
          PROVE  Named(name) = {}
      BY <2>2 DEF FsInv, ReadInv, Ready
    <2>3. ASSUME fh # NoFile
          PROVE  Named(name) # {}
      <3>1. PICK k : IsNamed(k, name)
        BY <2>3 DEF FsInv, ReadInv, Holding
      <3> QED BY <3>1, NamedFile DEF FsInv
    <2> QED BY <2>1, <2>2, <2>3 DEF OpensRight
  <1> QED BY <1>1, FsInvariant, PTL

\* A file that the image holds as it is, because it is not compressed or
\* compressing makes it bigger, is read as it was packed, however much is
\* read at once (RoundTrip; espfs/espfs.c:196-212,
\* espfs/mkespfsimage/main.c:178-273).
THEOREM StoredCorrect ==
    Spec => [](fh # NoFile /\ fh.head.compression = COMPRESS_NONE => RoundTrip)
  <1> DEFINE Stays == fh # NoFile /\ fh.head.compression = COMPRESS_NONE => RoundTrip
  <1>1. FsInv => Stays
    <2> SUFFICES ASSUME FsInv, fh # NoFile, fh.head.compression = COMPRESS_NONE PROVE RoundTrip
      OBVIOUS
    <2>1. Holding /\ PackInv /\ ~Packing
      BY DEF FsInv, ReadInv
    <2>2. PICK at, k : /\ Layout(at) /\ k \in Stored /\ IsNamed(k, name)
                       /\ data \in Seq(Nat) /\ Len(data) <= Len(FileData(k))
                       /\ \A j \in 1 .. Len(data) : data[j] = FileData(k)[j]
                       /\ short => Len(data) = Len(FileData(k))
      BY <2>1 DEF Holding
    <2>3. PICK d : d = FileData(k)
      OBVIOUS
    <2>4. d = Content(name)
      BY <2>1, <2>2, <2>3, ContentOf
    <2>5. d \in Seq(Nat)
      <3>1. k \in 1 .. Len(input.files) /\ input \in Inputs
        BY <2>1, <2>2, FilesTyped DEF PackInv, Stored
      <3> QED BY <2>3, <3>1, FilesTyped
    <2>6. IsPrefix(data, d)
      BY <2>2, <2>3, <2>5 DEF IsPrefix
    <2>7. short => data = d
      <3>1. short => Len(data) = Len(d)
        BY <2>2, <2>3
      <3> QED BY <2>2, <2>3, <2>5, <3>1, SeqEqual
    <2> QED BY <2>4, <2>6, <2>7 DEF RoundTrip
  <1> HIDE DEF Stays
  <1>2. Spec => []Stays
    BY <1>1, FsInvariant, PTL
  <1> QED BY <1>2 DEF Stays
=============================================================================
