--------------------------- MODULE DcfDecoderProofs ---------------------------
(***************************************************************************)
(* Theorems about DcfDecoder: what the sixty bits of a minute can be, what *)
(* is made of them, and how the clock goes on in between, for any number   *)
(* of minutes, wherever the decode timer is started and whatever seconds   *)
(* are disturbed.                                                          *)
(***************************************************************************)
EXTENDS DcfDecoder, FiniteSetTheorems, TLAPS

-----------------------------------------------------------------------------
(* The civil time *)

TimeOfDay(t) == t.hours * 60 + t.minutes

\* A minute later.
NextMinute(m) == IF m = 1439 THEN 0 ELSE m + 1

LEMMA Remainders ==
    ASSUME NEW m \in Nat, NEW k \in {7, 24, 60, 1440}
    PROVE  /\ m % k \in 0 .. k - 1
           /\ m \div k \in Nat
           /\ m = (k * (m \div k)) + (m % k)
           /\ (m + 1) % k = IF m % k = k - 1 THEN 0 ELSE (m % k) + 1
           /\ (m + 1) \div k = IF m % k = k - 1 THEN (m \div k) + 1 ELSE m \div k
  <1>1. CASE k = 7
    BY <1>1
  <1>2. CASE k = 24
    BY <1>2
  <1>3. CASE k = 60
    BY <1>3
  <1>4. CASE k = 1440
    BY <1>4
  <1> QED BY <1>1, <1>2, <1>3, <1>4

CivilTime == [minutes : 0 .. 59, hours : 0 .. 23, date : 1 .. 31, dow : 1 .. 7,
              month : 1 .. 12, year : 0 .. 99]

\* As long as the month lasts, the civil time is one.
LEMMA CivilRange ==
    ASSUME base \in Starts, NEW n \in 0 .. MaxMinutes + 1
    PROVE  Civil(n) \in CivilTime
  <1> DEFINE m == base.minutes + n
             h == base.hours + (m \div 60)
             d == h \div 24
             w == base.dow - 1 + d
  <1>1. /\ base \in CivilTime
        /\ base.date + (MaxMinutes \div 1440) < 31
        /\ MaxMinutes \in Nat
    BY DcfAssumption DEF CivilTime
  <1>2. /\ base.minutes \in 0 .. 59
        /\ base.hours \in 0 .. 23
        /\ base.date \in 1 .. 31
        /\ base.dow \in 1 .. 7
        /\ base.month \in 1 .. 12
        /\ base.year \in 0 .. 99
    BY <1>1 DEF CivilTime
  <1>3. m \in Nat
    BY <1>1, <1>2
  <1> HIDE DEF m
  <1>4. /\ m % 60 \in 0 .. 59
        /\ h \in Nat
    <2>1. m % 60 \in 0 .. 59 /\ m \div 60 \in Nat
      BY <1>3, Remainders
    <2> QED BY <1>2, <2>1
  <1>5. d \in Nat /\ d <= 1 + (MaxMinutes \div 1440)
    <2> DEFINE x == m \div 60
               q == MaxMinutes \div 1440
    <2>1. m = (60 * x) + (m % 60) /\ m % 60 \in 0 .. 59 /\ x \in Nat
      BY <1>3, Remainders
    <2>2. MaxMinutes = (1440 * q) + (MaxMinutes % 1440)
          /\ MaxMinutes % 1440 \in 0 .. 1439 /\ q \in Nat
      BY <1>1, Remainders
    <2>3. h = (24 * d) + (h % 24) /\ h % 24 \in 0 .. 23 /\ d \in Nat
      <3>1. h \in Nat
        BY <1>4
      <3> HIDE DEF h
      <3> QED BY <3>1, Remainders
    <2>4. m <= 59 + (MaxMinutes + 1)
      BY <1>1, <1>2 DEF m
    <2>5. h <= 23 + x
      BY <1>2, <2>1
    <2> HIDE DEF x, q, h
    <2>6. x <= (24 * q) + 24
      BY <1>1, <1>3, <2>1, <2>2, <2>4
    <2> HIDE DEF d
    <2>7. d <= 1 + q
      BY <1>4, <2>1, <2>2, <2>3, <2>5, <2>6
    <2> QED BY <2>3, <2>7 DEF q
  <1> HIDE DEF h
  <1>6. h % 24 \in 0 .. 23
    BY <1>4, Remainders
  <1> HIDE DEF d
  <1>7. base.date + d \in 1 .. 31
    BY <1>1, <1>2, <1>5
  <1>8. (w % 7) + 1 \in 1 .. 7
    <2>1. w \in Nat
      BY <1>2, <1>5
    <2> QED BY <2>1, Remainders
  <1>9. Civil(n) = [minutes |-> m % 60, hours |-> h % 24, date |-> base.date + d,
                    dow |-> (w % 7) + 1, month |-> base.month, year |-> base.year]
    BY DEF Civil, m, h, d
  <1> QED BY <1>2, <1>4, <1>6, <1>7, <1>8, <1>9 DEF CivilTime

\* It goes on by a minute a minute.
LEMMA CivilNext ==
    ASSUME base \in Starts, NEW n \in 0 .. MaxMinutes
    PROVE  TimeOfDay(Civil(n + 1)) = NextMinute(TimeOfDay(Civil(n)))
  <1> DEFINE m == base.minutes + n
             h == base.hours + (m \div 60)
             k == base.hours + ((m + 1) \div 60)
  <1>1. base.minutes \in Nat /\ base.hours \in Nat /\ n \in Nat
    BY DcfAssumption
  <1>2. base.minutes + (n + 1) = m + 1 /\ m \in Nat
    BY <1>1
  <1>3. /\ Civil(n).minutes = m % 60
        /\ Civil(n).hours = h % 24
        /\ Civil(n + 1).minutes = (m + 1) % 60
        /\ Civil(n + 1).hours = k % 24
    BY <1>2 DEF Civil
  <1> HIDE DEF m
  <1>4. /\ h \in Nat
        /\ k = IF m % 60 = 59 THEN h + 1 ELSE h
    <2>1. m \div 60 \in Nat /\ (m + 1) \div 60 = IF m % 60 = 59 THEN (m \div 60) + 1 ELSE m \div 60
      BY <1>2, Remainders
    <2> QED BY <1>1, <2>1
  <1> HIDE DEF h, k
  <1>5. /\ h % 24 \in 0 .. 23
        /\ (h + 1) % 24 = IF h % 24 = 23 THEN 0 ELSE (h % 24) + 1
    BY <1>4, Remainders
  <1>6. /\ m % 60 \in 0 .. 59
        /\ (m + 1) % 60 = IF m % 60 = 59 THEN 0 ELSE (m % 60) + 1
    BY <1>2, Remainders
  <1> QED BY <1>3, <1>4, <1>5, <1>6 DEF TimeOfDay, NextMinute

-----------------------------------------------------------------------------
(* The bits of a minute *)

\* The numbers that fit into a field of n + 1 bits.
Fits(v, n) ==
    /\ v \in 0 .. 99
    /\ n = 6 => v < 80
    /\ n = 5 => v < 40
    /\ n = 4 => v < 20
    /\ n = 2 => v < 8

\* A digit is the sum of its bits.
LEMMA Digit ==
    ASSUME NEW d \in 0 .. 9
    PROVE  d = (IF d % 2 = 1 THEN 1 ELSE 0) + (IF (d \div 2) % 2 = 1 THEN 2 ELSE 0)
               + (IF (d \div 4) % 2 = 1 THEN 4 ELSE 0) + (IF (d \div 8) % 2 = 1 THEN 8 ELSE 0)
  OBVIOUS

LEMMA BcdBits ==
    ASSUME NEW v \in 0 .. 99
    PROVE  /\ BcdBit(v, 0) = (v % 10) % 2
           /\ BcdBit(v, 1) = ((v % 10) \div 2) % 2
           /\ BcdBit(v, 2) = ((v % 10) \div 4) % 2
           /\ BcdBit(v, 3) = ((v % 10) \div 8) % 2
           /\ BcdBit(v, 4) = (v \div 10) % 2
           /\ BcdBit(v, 5) = ((v \div 10) \div 2) % 2
           /\ BcdBit(v, 6) = ((v \div 10) \div 4) % 2
           /\ BcdBit(v, 7) = ((v \div 10) \div 8) % 2
  BY DEF BcdBit, Weights

\* dcf2time() makes of the bits of a number that number.
LEMMA DecodesBcd ==
    ASSUME NEW lo \in Nat, NEW n \in {2, 4, 5, 6, 7}, NEW v, Fits(v, n),
           \A i \in 0 .. n : Bit(lo + i) = BcdBit(v, i)
    PROVE  decode_value(lo, lo + n) = v
  <1> DEFINE value(i) == IF i <= n /\ Bit(lo + i) = 1 THEN Weights[i + 1] ELSE 0
             part(i) == IF BcdBit(v, i) = 1 THEN Weights[i + 1] ELSE 0
             d == v % 10
             e == v \div 10
  <1>1. d \in 0 .. 9 /\ e \in 0 .. 9 /\ v = d + (10 * e)
    BY DEF Fits
  <1>2. /\ n < 7 => BcdBit(v, 7) # 1
        /\ n < 6 => BcdBit(v, 6) # 1
        /\ n < 5 => BcdBit(v, 5) # 1
        /\ n < 4 => BcdBit(v, 4) # 1 /\ BcdBit(v, 3) # 1
    BY BcdBits DEF Fits
  <1>3. \A i \in 0 .. 7 : value(i) = part(i)
    <2> SUFFICES ASSUME NEW i \in 0 .. 7 PROVE value(i) = part(i)
      OBVIOUS
    <2>1. CASE i <= n
      BY <2>1
    <2>2. CASE i > n
      <3>1. BcdBit(v, i) # 1
        BY <1>2, <2>2
      <3> QED BY <2>2, <3>1
    <2> QED BY <2>1, <2>2
  <1>4. decode_value(lo, lo + n) = value(0) + value(1) + value(2) + value(3)
                                       + value(4) + value(5) + value(6) + value(7)
    BY DEF decode_value
  <1>5. part(0) + part(1) + part(2) + part(3) = d
    <2>1. /\ part(0) = IF d % 2 = 1 THEN 1 ELSE 0
          /\ part(1) = IF (d \div 2) % 2 = 1 THEN 2 ELSE 0
          /\ part(2) = IF (d \div 4) % 2 = 1 THEN 4 ELSE 0
          /\ part(3) = IF (d \div 8) % 2 = 1 THEN 8 ELSE 0
      BY BcdBits DEF Weights, Fits
    <2> HIDE DEF part, d
    <2> QED BY <1>1, <2>1, Digit
  <1>6. part(4) + part(5) + part(6) + part(7) = 10 * e
    <2> DEFINE a == IF e % 2 = 1 THEN 1 ELSE 0
               b == IF (e \div 2) % 2 = 1 THEN 2 ELSE 0
               c == IF (e \div 4) % 2 = 1 THEN 4 ELSE 0
               g == IF (e \div 8) % 2 = 1 THEN 8 ELSE 0
    <2>1. /\ part(4) = 10 * a
          /\ part(5) = 10 * b
          /\ part(6) = 10 * c
          /\ part(7) = 10 * g
      BY BcdBits DEF Weights, Fits
    <2>2. e = a + b + c + g
      <3> HIDE DEF part, e
      <3> QED BY <1>1, Digit
    <2>3. a \in Nat /\ b \in Nat /\ c \in Nat /\ g \in Nat
      OBVIOUS
    <2> HIDE DEF part, e, a, b, c, g
    <2> QED BY <2>1, <2>2, <2>3
  <1>7. \A i \in 0 .. 7 : part(i) \in Nat
    BY DEF Weights
  <1> HIDE DEF value, part, d, e
  <1> QED BY <1>1, <1>3, <1>4, <1>5, <1>6, <1>7

\* The bits of a time are those of its fields.
LEMMA FieldBits ==
    ASSUME NEW t, NEW f \in DOMAIN Fields, NEW s \in Fields[f][1] .. Fields[f][2]
    PROVE  DataBit(t, s) = BcdBit(t[f], s - Fields[f][1])
  <1> DEFINE fs == {g \in DOMAIN Fields : s \in Fields[g][1] .. Fields[g][2]}
  <1>1. fs = {f}
    <2>1. \A g \in DOMAIN Fields : s \in Fields[g][1] .. Fields[g][2] => g = f
      BY DEF Fields
    <2> QED BY <2>1
  <1>2. DataBit(t, s) = LET g == CHOOSE g \in fs : TRUE IN BcdBit(t[g], s - Fields[g][1])
    BY <1>1 DEF DataBit
  <1> HIDE DEF fs
  <1>3. (CHOOSE g \in fs : TRUE) = f
    BY <1>1
  <1> QED BY <1>2, <1>3

\* Each bit is zero or one.
LEMMA DataBinary ==
    ASSUME NEW t \in CivilTime, NEW s \in 0 .. 58
    PROVE  DataBit(t, s) \in {0, 1}
  <1>1. CASE \E f \in DOMAIN Fields : s \in Fields[f][1] .. Fields[f][2]
    <2>1. PICK f \in DOMAIN Fields : s \in Fields[f][1] .. Fields[f][2]
      BY <1>1
    <2>2. DataBit(t, s) = BcdBit(t[f], s - Fields[f][1])
      BY <2>1, FieldBits
    <2>3. t[f] \in 0 .. 99 /\ s - Fields[f][1] \in 0 .. 7
      BY <2>1 DEF Fields, CivilTime
    <2>4. \A v \in 0 .. 99, i \in 0 .. 7 : BcdBit(v, i) \in {0, 1}
      BY BcdBits
    <2> QED BY <2>2, <2>3, <2>4
  <1>2. CASE ~\E f \in DOMAIN Fields : s \in Fields[f][1] .. Fields[f][2]
    BY <1>2 DEF DataBit
  <1> QED BY <1>1, <1>2

\* What is sent in the seconds without parities.
LEMMA TelegramData ==
    ASSUME NEW t, NEW s \in 0 .. 58, s \notin {28, 35, 58}
    PROVE  Telegram(t)[s] = IF s = 20 THEN 1 ELSE DataBit(t, s)
  BY DEF Telegram, Parities

\* ... and in those with parities.
LEMMA TelegramParity ==
    ASSUME NEW t, NEW p \in Parities
    PROVE  Telegram(t)[p[3]] = Cardinality({s \in p[1] .. p[2] : Telegram(t)[s] = 1}) % 2
  <1> DEFINE data == [s \in 0 .. 58 |-> IF s = 20 THEN 1 ELSE DataBit(t, s)]
  <1>1. \A q \in Parities : q[3] = p[3] => q = p
    BY DEF Parities
  <1>2. (CHOOSE q \in Parities : q[3] = p[3]) = p
    BY <1>1
  <1>3. p[3] \in 0 .. 58 /\ \A s \in p[1] .. p[2] : s \in 0 .. 58 /\ s \notin {28, 35, 58}
    BY DEF Parities
  <1>4. Telegram(t)[p[3]] = OddOnes(data, p[1] .. p[2])
    BY <1>2, <1>3 DEF Telegram
  <1>5. \A s \in p[1] .. p[2] : data[s] = Telegram(t)[s]
    BY <1>3, TelegramData
  <1> HIDE DEF data
  <1>6. {s \in p[1] .. p[2] : data[s] = 1} = {s \in p[1] .. p[2] : Telegram(t)[s] = 1}
    BY <1>5
  <1> QED BY <1>4, <1>6 DEF OddOnes

\* Some bits of a part of a minute.
LEMMA BitsFinite ==
    ASSUME NEW p \in Parities, NEW S \in SUBSET (p[1] .. p[2])
    PROVE  IsFiniteSet(S) /\ Cardinality(S) \in Nat
  <1>1. p[1] \in Int /\ p[2] \in Int
    BY DEF Parities
  <1>2. IsFiniteSet(p[1] .. p[2])
    BY <1>1, FS_Interval
  <1>3. IsFiniteSet(S)
    BY <1>2, FS_Subset
  <1> QED BY <1>3, FS_CardinalityType

LEMMA TelegramBinary ==
    ASSUME NEW t \in CivilTime, NEW s \in 0 .. 58
    PROVE  Telegram(t)[s] \in {0, 1}
  <1>1. CASE s \in {28, 35, 58}
    <2>1. PICK p \in Parities : p[3] = s
      BY <1>1 DEF Parities
    <2> DEFINE S == {r \in p[1] .. p[2] : Telegram(t)[r] = 1}
    <2>2. Cardinality(S) \in Nat
      BY BitsFinite
    <2>3. Telegram(t)[s] = Cardinality(S) % 2
      BY <2>1, TelegramParity
    <2> HIDE DEF S
    <2> QED BY <2>2, <2>3
  <1>2. CASE s \notin {28, 35, 58}
    BY <1>2, TelegramData, DataBinary
  <1> QED BY <1>1, <1>2

-----------------------------------------------------------------------------
(* What dcf2time() makes of a whole minute *)

Wrong(t, s) == Bit(s) # Telegram(t)[s]

Binary == \A s \in 0 .. 58 : Bit(s) \in {0, 1}

\* Without an error all parities are good.
LEMMA ParitiesOfTelegram ==
    ASSUME NEW t, \A s \in 0 .. 58 : ~Wrong(t, s)
    PROVE  ParitiesGood
  <1> SUFFICES ASSUME NEW p \in Parities PROVE check_parity(p[1], p[2], p[3])
    BY DEF ParitiesGood
  <1>1. p[3] \in 0 .. 58 /\ \A s \in p[1] .. p[2] : s \in 0 .. 58
    BY DEF Parities
  <1>2. \A s \in p[1] .. p[2] : Bit(s) = Telegram(t)[s]
    BY <1>1 DEF Wrong
  <1>3. {s \in p[1] .. p[2] : Bit(s) = 1} = {s \in p[1] .. p[2] : Telegram(t)[s] = 1}
    BY <1>2
  <1>4. Bit(p[3]) = Telegram(t)[p[3]]
    BY <1>1 DEF Wrong
  <1> QED BY <1>3, <1>4, TelegramParity DEF check_parity

\* A single error in what a parity is about is noticed.
LEMMA ErrorNoticed ==
    ASSUME NEW t \in CivilTime, Binary, NEW p \in Parities, NEW w \in p[1] .. p[2],
           Wrong(t, w), \A s \in 0 .. 58 : Wrong(t, s) => s = w
    PROVE  ~check_parity(p[1], p[2], p[3])
  <1> DEFINE A == {s \in p[1] .. p[2] : Bit(s) = 1}
             B == {s \in p[1] .. p[2] : Telegram(t)[s] = 1}
  <1>1. /\ p[3] \in 0 .. 58
        /\ p[3] # w
        /\ \A s \in p[1] .. p[2] : s \in 0 .. 58
    BY DEF Parities
  <1>2. /\ Bit(w) \in {0, 1}
        /\ Telegram(t)[w] \in {0, 1}
        /\ Bit(w) # Telegram(t)[w]
    BY <1>1, TelegramBinary DEF Binary, Wrong
  <1>3. \A s \in p[1] .. p[2] : s # w => Bit(s) = Telegram(t)[s]
    BY <1>1 DEF Wrong
  <1>4. /\ IsFiniteSet(A) /\ Cardinality(A) \in Nat
        /\ IsFiniteSet(B) /\ Cardinality(B) \in Nat
    BY BitsFinite
  <1>5. \/ A = B \cup {w} /\ w \notin B
        \/ B = A \cup {w} /\ w \notin A
    <2>1. CASE Bit(w) = 1
      BY <1>2, <1>3, <2>1
    <2>2. CASE Bit(w) # 1
      BY <1>2, <1>3, <2>2
    <2> QED BY <2>1, <2>2
  <1>6. Bit(p[3]) = Cardinality(B) % 2
    BY <1>1, TelegramParity DEF Wrong
  <1> HIDE DEF A, B
  <1>7. \/ Cardinality(A) = Cardinality(B) + 1
        \/ Cardinality(B) = Cardinality(A) + 1
    BY <1>4, <1>5, FS_AddElement
  <1>8. Cardinality(A) % 2 # Cardinality(B) % 2
    BY <1>4, <1>7
  <1> QED BY <1>6, <1>8 DEF check_parity, A

\* With at most one error good parities mean the time that was sent.
LEMMA GoodIsSent ==
    ASSUME NEW t \in CivilTime, Binary, ParitiesGood,
           \A r, s \in 0 .. 58 : Wrong(t, r) /\ Wrong(t, s) => r = s
    PROVE  \A f \in DOMAIN Fields : Decoded[f] = t[f]
  <1>1. ASSUME NEW p \in Parities, NEW s \in p[1] .. p[2]
        PROVE  s \in 0 .. 58 /\ ~Wrong(t, s)
    <2>1. s \in 0 .. 58
      BY DEF Parities
    <2> QED BY <2>1, ErrorNoticed DEF ParitiesGood
  <1> SUFFICES ASSUME NEW f \in DOMAIN Fields PROVE Decoded[f] = t[f]
    OBVIOUS
  <1> DEFINE lo == Fields[f][1]
             n == Fields[f][2] - lo
  <1>2. /\ lo \in Nat
        /\ n \in {2, 4, 5, 6, 7}
        /\ Fields[f][2] = lo + n
        /\ Fits(t[f], n)
    BY DEF Fields, CivilTime, Fits
  <1>3. PICK p \in Parities : p[1] <= lo /\ lo + n <= p[2] /\ p[1] \in Nat /\ p[2] \in Nat
    BY DEF Fields, Parities
  <1>4. \A s \in lo .. lo + n : s \notin {20, 28, 35, 58}
    BY DEF Fields
  <1>5. Decoded[f] = decode_value(lo, lo + n)
    BY <1>2 DEF Decoded, Fields
  <1>6. \A s \in lo .. lo + n : DataBit(t, s) = BcdBit(t[f], s - lo)
    BY <1>2, FieldBits
  <1> HIDE DEF lo, n
  <1>7. ASSUME NEW i \in 0 .. n PROVE Bit(lo + i) = BcdBit(t[f], i)
    <2>1. lo + i \in p[1] .. p[2] /\ lo + i \in lo .. lo + n /\ (lo + i) - lo = i
      BY <1>2, <1>3
    <2>2. lo + i \in 0 .. 58 /\ Bit(lo + i) = Telegram(t)[lo + i]
      BY <1>1, <2>1 DEF Wrong
    <2>3. Telegram(t)[lo + i] = DataBit(t, lo + i)
      BY <1>4, <2>1, <2>2, TelegramData
    <2> QED BY <1>6, <2>1, <2>2, <2>3
  <1> QED BY <1>2, <1>5, <1>7, DecodesBcd

-----------------------------------------------------------------------------
(* The minute that is being received *)

BIT == {0, 1}

Buffer(sig) == sig \in Seq(BIT) /\ Len(sig) <= 60

InBounds(m, s) == (m * 60) + s <= MaxMinutes * 60

Flags ==
    /\ decoded \in BOOLEAN /\ counted \in BOOLEAN
    /\ time_valid \in BOOLEAN /\ bad \in BOOLEAN

Numbers ==
    /\ minute \in 0 .. MaxMinutes /\ second \in 0 .. 59
    /\ phase \in 0 .. 200 /\ dcf_hc \in 0 .. 40 /\ pulse \in {0, 20, 40}
    /\ phase > 40 => dcf_hc = 0
    /\ phase = 200 => decoded
    /\ flips \in 0 .. MaxFlips /\ lost \in Nat /\ extra \in Nat /\ clean \in 0 .. 2

Basics == base \in Starts /\ InBounds(minute, second) /\ Buffer(signal) /\ Flags /\ Numbers

\* The time that is announced in this minute.
Announced == Civil(minute + 1)

\* The seconds of this minute that have been decoded.
Done == IF decoded THEN second + 1 ELSE second

\* The last second of a minute, before and after its missing pulse is decoded.
AtMark == second = 59 /\ ~decoded
PastMark == second = 59 /\ decoded

\* Nothing of this minute is missing.
Whole == ~PastMark /\ Len(signal) = Done + 1

Errors == {s \in 0 .. Done - 1 : Wrong(Announced, s)}

\* While the timer is clear and nothing went unnoticed, the buffer begins no earlier
\* than the minute, each error in it is a flipped pulse, and so is one that is still
\* to come.
Received ==
    Noticeable /\ Clear =>
        /\ Len(signal) <= IF PastMark THEN 1 ELSE Done + 1
        /\ Whole => /\ \A r, s \in Errors : r = s
                    /\ Errors # {} => flips >= 1
        /\ ~decoded => \/ pulse = Sent(minute, second)
                       \/ second # 59 /\ pulse = 0
                       \/ second # 59 /\ flips >= 1 /\ (Whole => Errors = {})

\* A clean pulse is the one that was sent; with a clear timer no bit is missing or
\* wrong since a clean mark.
CleanOK ==
    /\ clean >= 1 /\ ~decoded => pulse = Sent(minute, second)
    /\ Clear =>
        /\ clean >= 1 /\ PastMark => Len(signal) = 1
        /\ (clean >= 1 /\ ~AtMark /\ ~PastMark) \/ (clean = 2 /\ AtMark)
              => Whole /\ Errors = {}

\* Clear of the pulses all that is counted is the present pulse.
LEMMA PulseCounted ==
    ASSUME Basics, Clear
    PROVE  Counted = pulse /\ After(phase, pulse) = 0
  BY DEF Basics, Flags, Numbers, Counted, Before, After, Clear

\* Anywhere, what is left of a pulse is no more than the pulse.
LEMMA AfterRange ==
    ASSUME Basics
    PROVE  /\ After(phase, pulse) \in 0 .. 40
           /\ phase >= 40 => After(phase, pulse) = 0 /\ Before(phase, pulse) = pulse
  BY DEF Basics, Flags, Numbers, After, Before

\* Where a mark moves the timer to: beyond the pulses only from there.
LEMMA RestartedRange ==
    ASSUME Basics, ~decoded, NEW p \in Restarted
    PROVE  p \in 0 .. 200 /\ (p > 40 => phase >= 40 /\ p \in {phase, phase + 1})
  BY DEF Basics, Flags, Numbers, Restarted

\* It holds initially.
LEMMA BasicsInit == Init => Basics
  <1> SUFFICES ASSUME Init PROVE Basics
    OBVIOUS
  <1>1. Buffer(signal)
    BY DEF Init, Buffer
  <1>2. InBounds(0, 0)
    BY DcfAssumption DEF InBounds
  <1>3. phase \in 0 .. 199 /\ 0 \in 0 .. MaxMinutes /\ 0 \in 0 .. MaxFlips
    BY DcfAssumption DEF Init
  <1>4. Flags
    BY DEF Init, Flags
  <1>5. Numbers
    BY <1>3 DEF Init, Numbers
  <1>6. minute = 0 /\ second = 0 /\ base \in Starts
    BY DEF Init
  <1> QED BY <1>1, <1>2, <1>4, <1>5, <1>6 DEF Basics

\* A bit is appended.
LEMMA StoredBit ==
    ASSUME NEW sig, Buffer(sig), NEW b \in BIT
    PROVE  /\ Buffer(Stored(sig, b))
           /\ \A j \in 1 .. Len(sig) : Stored(sig, b)[j] = sig[j]
           /\ Len(sig) < 60 => /\ Len(Stored(sig, b)) = Len(sig) + 1
                               /\ Stored(sig, b)[Len(sig) + 1] = b
           /\ Len(sig) = 60 => Stored(sig, b) = sig
  <1> USE DEF Buffer
  <1>1. Buffer(Stored(sig, b))
    BY DEF Stored
  <1>2. \A j \in 1 .. Len(sig) : Stored(sig, b)[j] = sig[j]
    BY DEF Stored
  <1>3. ASSUME Len(sig) < 60
        PROVE  Len(Stored(sig, b)) = Len(sig) + 1 /\ Stored(sig, b)[Len(sig) + 1] = b
    BY <1>3 DEF Stored
  <1>4. Len(sig) = 60 => Stored(sig, b) = sig
    BY DEF Stored
  <1> QED BY <1>1, <1>2, <1>3, <1>4, Zenon

\* After a mark the buffer has its bit.
LEMMA StoredMark == /\ Buffer(Stored(<<>>, 0))
                    /\ Len(Stored(<<>>, 0)) = 1
                    /\ Stored(<<>>, 0)[1] = 0
  BY DEF Stored, BIT, Buffer

BitNow == IF pulse = 40 THEN 1 ELSE 0

\* What the decode timer does to the buffer.
LEMMA BitStep ==
    ASSUME Basics, BitDecoded
    PROVE  /\ \E b \in BIT : signal' = Stored(signal, b)
           /\ ~decoded /\ decoded' = TRUE
           /\ dcf_hc' \in 0 .. 40 /\ (phase > 40 => dcf_hc' = 0)
           /\ UNCHANGED <<base, minute, second, pulse, phase, clock, counted, noise,
                         clean, bad>>
  BY AfterRange DEF BitDecoded, BIT, Basics, Numbers

\* Clear of the pulses the bit is that of the present pulse.
LEMMA BitOfPulse ==
    ASSUME Basics, Clear, BitDecoded
    PROVE  signal' = Stored(signal, BitNow) /\ pulse \in {20, 40}
  BY PulseCounted DEF BitDecoded, BitNow, Basics, Flags, Numbers

LEMMA MarkStep ==
    ASSUME Basics, MinuteMark
    PROVE  /\ signal' = Stored(<<>>, 0)
           /\ ~decoded /\ decoded' = TRUE
           /\ phase' \in 0 .. 200 /\ dcf_hc' \in 0 .. 40
           /\ phase' > 40 => dcf_hc' = 0 /\ pulse = 0
           /\ Clear => pulse = 0
           /\ dcf2time
           /\ UNCHANGED <<base, minute, second, pulse, counted, noise, clean>>
  <1>1. ~decoded /\ phase' \in Restarted /\ Counted <= 10 /\ dcf_hc' = After(phase, pulse)
    BY DEF MinuteMark
  <1>2. phase' \in 0 .. 200 /\ (phase' > 40 => phase >= 40)
    BY <1>1, RestartedRange
  <1>3. phase >= 40 => dcf_hc' = 0 /\ pulse = 0
    BY <1>1, AfterRange DEF Counted, Basics, Numbers
  <1>4. dcf_hc' \in 0 .. 40
    BY <1>1, AfterRange
  <1>5. phase' > 40 => dcf_hc' = 0 /\ pulse = 0
    BY <1>2, <1>3
  <1>6. Clear => pulse = 0
    BY <1>3 DEF Clear, Basics, Numbers
  <1> QED BY <1>1, <1>2, <1>4, <1>5, <1>6 DEF MinuteMark

\* The next pulse is what is sent, or it is flipped or lost, or drowns a mark.
LEMMA NextPulse ==
    ASSUME Basics, NextSecond
    PROVE  \/ /\ pulse' = Sent(minute', second')
              /\ UNCHANGED noise
              /\ clean' = IF second' = 59 /\ clean < 2 THEN clean + 1 ELSE clean
           \/ /\ clean' = 0 /\ second' # 59 /\ flips < MaxFlips /\ flips' = flips + 1
              /\ pulse' = 60 - Sent(minute', second') /\ UNCHANGED <<lost, extra>>
           \/ /\ clean' = 0 /\ second' # 59 /\ lost' = lost + 1
              /\ pulse' = 0 /\ UNCHANGED <<flips, extra>>
           \/ /\ clean' = 0 /\ extra' = extra + 1
              /\ pulse' = 20 /\ UNCHANGED <<flips, lost>>
  BY DEF NextSecond, Arrives

\* The next pulse is a zero, a one or none.
LEMMA PulseRange ==
    ASSUME Basics, NextSecond
    PROVE  pulse' \in {0, 20, 40}
  <1>1. Sent(minute', second') \in {0, 20, 40}
    BY DEF Sent
  <1>2. second' # 59 => Sent(minute', second') \in {20, 40}
    BY DEF Sent
  <1> QED BY <1>1, <1>2, NextPulse

\* A timer that was stopped is started right behind a pulse, any other stays.
LEMMA TimerNext ==
    ASSUME Basics, NextSecond
    PROVE  /\ phase' \in 0 .. 200 /\ dcf_hc' \in 0 .. 40 /\ decoded' \in BOOLEAN
           /\ phase' > 40 => dcf_hc' = 0
           /\ phase' = 200 => decoded'
           /\ Clear' => Clear /\ ~decoded'
  <1>1. /\ phase = 200 => phase' = pulse' /\ dcf_hc' = dcf_hc + pulse' /\ decoded' = TRUE
        /\ phase # 200 => decoded' = FALSE /\ phase' = phase /\ dcf_hc' = dcf_hc
    BY DEF NextSecond
  <1>2. /\ phase \in 0 .. 200 /\ dcf_hc \in 0 .. 40
        /\ phase > 40 => dcf_hc = 0
    BY DEF Basics, Numbers
  <1>3. CASE phase = 200
    <2>1. phase' = pulse' /\ dcf_hc' = pulse' /\ decoded' = TRUE /\ pulse' \in {0, 20, 40}
      BY <1>1, <1>2, <1>3, PulseRange
    <2>2. phase' \in 0 .. 40
      BY <2>1
    <2> QED BY <2>1, <2>2 DEF Clear
  <1>4. CASE phase # 200
    <2>1. phase' = phase /\ dcf_hc' = dcf_hc /\ decoded' = FALSE
      BY <1>1, <1>4
    <2>2. Clear' => Clear
      BY <2>1 DEF Clear
    <2> QED BY <1>2, <1>4, <2>1, <2>2
  <1> QED BY <1>3, <1>4

LEMMA BasicsNext == Basics /\ [Next]_vars => Basics'
  <1> SUFFICES ASSUME Basics, [Next]_vars PROVE Basics'
    OBVIOUS
  <1>1. CASE MinuteMark
    <2>1. time_valid' \in BOOLEAN /\ bad' \in BOOLEAN
      BY MarkStep, <1>1 DEF dcf2time, clock, Basics, Flags, Numbers
    <2>2. Buffer(signal')
      BY <1>1, MarkStep, StoredMark
    <2>3. Flags'
      BY <1>1, <2>1, MarkStep DEF Basics, Flags
    <2>4. Numbers'
      <3>1. /\ UNCHANGED <<minute, second, pulse, flips, lost, extra, clean>>
            /\ phase' \in 0 .. 200 /\ decoded' = TRUE
            /\ dcf_hc' \in 0 .. 40 /\ (phase' > 40 => dcf_hc' = 0)
        BY <1>1, MarkStep DEF noise
      <3> QED BY <3>1 DEF Basics, Numbers
    <2>5. base' \in Starts /\ InBounds(minute', second')
      BY <1>1, MarkStep DEF Basics
    <2> QED BY <2>2, <2>3, <2>4, <2>5 DEF Basics
  <1>2. CASE BitDecoded
    <2>1. Buffer(signal')
      <3>1. Buffer(signal)
        BY DEF Basics
      <3> QED BY <1>2, <3>1, BitStep, StoredBit
    <2>2. Flags'
      BY <1>2, BitStep DEF Basics, Flags, clock
    <2>3. Numbers'
      <3>1. /\ UNCHANGED <<minute, second, pulse, flips, lost, extra, clean>>
            /\ phase' = phase /\ decoded' = TRUE
            /\ dcf_hc' \in 0 .. 40 /\ (phase > 40 => dcf_hc' = 0)
        BY <1>2, BitStep DEF noise
      <3> QED BY <3>1 DEF Basics, Numbers
    <2>4. base' \in Starts /\ InBounds(minute', second')
      BY <1>2, BitStep DEF Basics
    <2> QED BY <2>1, <2>2, <2>3, <2>4 DEF Basics
  <1>3. CASE time_inc_timer_cb
    BY <1>3 DEF time_inc_timer_cb, noise, Basics, Flags, Numbers
  <1>4. CASE NextSecond
    <2>1. /\ minute' \in 0 .. MaxMinutes
          /\ second' \in 0 .. 59
          /\ InBounds(minute', second')
      <3>0. minute \in 0 .. MaxMinutes /\ second \in 0 .. 59 /\ minute < MaxMinutes
        BY <1>4 DEF Basics, Flags, Numbers, NextSecond
      <3>1. CASE second = 59
        BY <1>4, <3>0, <3>1, DcfAssumption DEF NextSecond, InBounds
      <3>2. CASE second # 59
        <4>1. second' = second + 1 /\ minute' = minute
          BY <1>4, <3>0, <3>2 DEF NextSecond
        <4> QED BY <3>0, <3>2, <4>1, DcfAssumption DEF InBounds
      <3> QED BY <3>1, <3>2
    <2>2. /\ pulse' \in {0, 20, 40}
          /\ flips' \in 0 .. MaxFlips /\ lost' \in Nat /\ extra' \in Nat
          /\ clean' \in 0 .. 2
      <3>1. Sent(minute', second') \in {0, 20, 40}
        BY DEF Sent
      <3>2. second' # 59 => Sent(minute', second') \in {20, 40}
        BY DEF Sent
      <3>3. flips \in 0 .. MaxFlips /\ lost \in Nat /\ extra \in Nat /\ clean \in 0 .. 2
        BY DEF Basics, Flags, Numbers
      <3> QED BY <1>4, <3>1, <3>2, <3>3, NextPulse, DcfAssumption DEF noise
    <2>3. /\ phase' \in 0 .. 200 /\ dcf_hc' \in 0 .. 40 /\ decoded' \in BOOLEAN
          /\ phase' > 40 => dcf_hc' = 0
          /\ phase' = 200 => decoded'
      BY <1>4, TimerNext
    <2>4. /\ counted' = FALSE /\ UNCHANGED <<base, signal, time_valid, bad>>
      BY <1>4 DEF NextSecond, clock
    <2>5. Flags' /\ Numbers'
      BY <2>1, <2>2, <2>3, <2>4 DEF Basics, Flags, Numbers
    <2> QED BY <2>1, <2>4, <2>5 DEF Basics
  <1>5. CASE UNCHANGED vars
    BY <1>5 DEF vars, noise, clock, Basics, Flags, Numbers
  <1> QED BY <1>1, <1>2, <1>3, <1>4, <1>5 DEF Next

\* The time that is announced is one.
LEMMA AnnouncedCivil ==
    ASSUME Basics
    PROVE  Announced \in CivilTime
  <1>1. minute + 1 \in 0 .. MaxMinutes + 1
    BY DcfAssumption DEF Basics, Numbers
  <1> QED BY <1>1, CivilRange DEF Basics, Announced

\* A pulse as it is sent is decoded to the bit it stands for, and no other is.
LEMMA SentBit ==
    ASSUME Basics, second # 59, pulse \in {20, 40}
    PROVE  pulse = Sent(minute, second) <=> BitNow = Telegram(Announced)[second]
  <1>1. second \in 0 .. 58
    BY DEF Basics, Numbers
  <1>2. Telegram(Announced)[second] \in {0, 1}
    BY <1>1, AnnouncedCivil, TelegramBinary
  <1> QED BY <1>2 DEF Sent, BitNow, Announced

LEMMA BufferLength ==
    ASSUME Basics
    PROVE  Len(signal) \in Nat
  BY DEF Basics, Buffer

\* A bit of the minute is appended to the others.
LEMMA ErrorsAfterBit ==
    ASSUME Basics, Clear, BitDecoded, second # 59, Len(signal) <= Done + 1
    PROVE  /\ Len(signal') = Len(signal) + 1
           /\ Done' = Done + 1
           /\ ~PastMark'
           /\ Whole' <=> Whole
           /\ Whole => Errors' = IF BitNow = Telegram(Announced)[second] THEN Errors
                                 ELSE Errors \cup {second}
  <1> DEFINE n == Len(signal)
  <1>1. second \in 0 .. 58 /\ Done = second /\ ~PastMark
    <2>1. second \in 0 .. 59
      BY DEF Basics, Numbers
    <2>2. ~decoded
      BY BitStep
    <2> QED BY <2>1, <2>2 DEF Done, PastMark
  <1>2. n \in Nat /\ n <= second + 1
    BY <1>1, BufferLength
  <1>3. /\ Len(signal') = n + 1
        /\ signal'[n + 1] = BitNow
        /\ \A j \in 1 .. n : signal'[j] = signal[j]
    <2>1. BitNow \in BIT /\ Buffer(signal)
      BY DEF BitNow, BIT, Basics
    <2>2. n < 60
      BY <1>1, <1>2
    <2> QED BY <2>1, <2>2, BitOfPulse, StoredBit
  <1>4. Done' = second + 1 /\ ~PastMark' /\ second' = second
    BY <1>1, BitStep DEF Done, PastMark
  <1>5. Announced' = Announced
    BY BitStep DEF Announced, Civil
  <1> HIDE DEF n
  <1>6. Whole' <=> Whole
    <2>1. Whole <=> n = second + 1
      BY <1>1 DEF Whole, n
    <2>2. Whole' <=> n + 1 = (second + 1) + 1
      BY <1>3, <1>4 DEF Whole
    <2> QED BY <1>1, <1>2, <2>1, <2>2
  <1>7. ASSUME Whole
        PROVE  Errors' = IF BitNow = Telegram(Announced)[second] THEN Errors
                         ELSE Errors \cup {second}
    <2>1. n = second + 1
      BY <1>1, <1>7 DEF Whole, n
    <2> DEFINE bad1(s) == signal'[s + 2] # Telegram(Announced)[s]
               bad0(s) == signal[s + 2] # Telegram(Announced)[s]
    <2>2. \A s \in 0 .. second - 1 : bad1(s) <=> bad0(s)
      <3> SUFFICES ASSUME NEW s \in 0 .. second - 1 PROVE bad1(s) <=> bad0(s)
        OBVIOUS
      <3>1. s + 2 \in 1 .. n
        BY <1>1, <2>1
      <3> QED BY <1>3, <3>1
    <2>3. bad1(second) <=> BitNow # Telegram(Announced)[second]
      <3>1. second + 2 = n + 1
        BY <1>1, <2>1
      <3> QED BY <1>3, <3>1
    <2>4. /\ Errors = {s \in 0 .. second - 1 : bad0(s)}
          /\ Errors' = {s \in 0 .. second : bad1(s)}
      <3>1. (second + 1) - 1 = second
        BY <1>1
      <3> QED BY <1>1, <1>4, <1>5, <3>1 DEF Errors, Wrong, Bit
    <2> HIDE DEF bad0, bad1
    <2>5. 0 .. second = (0 .. second - 1) \cup {second} /\ second \notin 0 .. second - 1
      BY <1>1
    <2>6. CASE BitNow = Telegram(Announced)[second]
      <3>1. \A s \in 0 .. second : bad1(s) <=> s \in Errors
        BY <2>2, <2>3, <2>4, <2>5, <2>6
      <3> QED BY <2>4, <2>5, <2>6, <3>1
    <2>7. CASE BitNow # Telegram(Announced)[second]
      <3>1. \A s \in 0 .. second : bad1(s) <=> s \in Errors \cup {second}
        BY <2>2, <2>3, <2>4, <2>5, <2>7
      <3> QED BY <2>4, <2>5, <2>7, <3>1
    <2> QED BY <2>6, <2>7
  <1> QED BY <1>1, <1>3, <1>4, <1>6, <1>7 DEF n

\* A mark empties the buffer, wherever it is found.
LEMMA AfterMark ==
    ASSUME Basics, MinuteMark
    PROVE  /\ Len(signal') = 1 /\ ~Whole' /\ decoded'
           /\ PastMark' <=> second = 59
           /\ Done' \in Nat
  <1>1. second \in 0 .. 59
    BY DEF Basics, Numbers
  <1>2. Len(signal') = 1 /\ decoded' = TRUE /\ second' = second
    BY MarkStep, StoredMark
  <1>3. Done' = second + 1
    BY <1>2 DEF Done
  <1> QED BY <1>1, <1>2, <1>3 DEF Whole, PastMark

\* In the next second the same is missing and wrong; a new minute is empty.
LEMMA AfterSecond ==
    ASSUME Basics, Clear, NextSecond
    PROVE  /\ signal' = signal /\ ~PastMark' /\ ~decoded'
           /\ second # 59 => Done' = Done /\ (Whole' <=> Whole) /\ Errors' = Errors
           /\ second = 59 => /\ PastMark /\ Done' = 0 /\ Errors' = {}
                             /\ Whole' <=> Len(signal) = 1
  <1>1. /\ decoded /\ decoded' = FALSE
        /\ UNCHANGED <<base, signal>>
        /\ second' = (second + 1) % 60
        /\ minute' = IF second = 59 THEN minute + 1 ELSE minute
    BY DEF NextSecond, Clear
  <1>2. second \in 0 .. 59
    BY DEF Basics, Numbers
  <1>3. ~PastMark'
    BY <1>1 DEF PastMark
  <1>4. CASE second # 59
    <2>1. second' = second + 1 /\ minute' = minute
      BY <1>1, <1>2, <1>4
    <2>2. Done' = second + 1 /\ Done = second + 1 /\ ~PastMark
      BY <1>1, <1>4, <2>1 DEF Done, PastMark
    <2>3. Announced' = Announced
      BY <1>1, <2>1 DEF Announced, Civil
    <2>4. Errors' = Errors
      BY <1>1, <2>2, <2>3 DEF Errors, Wrong, Bit
    <2>5. Whole' <=> Whole
      BY <1>1, <1>3, <2>2 DEF Whole
    <2> QED BY <1>1, <1>3, <1>4, <2>2, <2>4, <2>5
  <1>5. CASE second = 59
    <2>1. second' = 0
      BY <1>1, <1>5
    <2>2. Done' = 0
      BY <1>1, <2>1 DEF Done
    <2>3. Errors' = {}
      BY <2>2 DEF Errors
    <2>4. Whole' <=> Len(signal) = 1
      BY <1>1, <1>3, <2>2 DEF Whole
    <2>5. PastMark
      BY <1>1, <1>5 DEF PastMark
    <2> QED BY <1>1, <1>3, <1>5, <2>2, <2>3, <2>4, <2>5
  <1> QED BY <1>4, <1>5

LEMMA ReceivedInit == Init => Received
  <1> SUFFICES ASSUME Init PROVE Received
    OBVIOUS
  <1>1. Done = 0 /\ Len(signal) = 0 /\ ~PastMark /\ second = 0 /\ pulse = 20
    BY DEF Init, Done, PastMark
  <1>2. ~Whole
    BY <1>1 DEF Whole
  <1>3. pulse = Sent(minute, second)
    <2>1. Telegram(Announced)[0] = 0
      <3>1. ~\E f \in DOMAIN Fields : 0 \in Fields[f][1] .. Fields[f][2]
        BY DEF Fields
      <3>2. DataBit(Announced, 0) = 0
        BY <3>1 DEF DataBit
      <3> QED BY <3>2, TelegramData
    <2> QED BY <1>1, <2>1 DEF Sent, Announced
  <1> QED BY <1>1, <1>2, <1>3 DEF Received

\* In the last second of a minute no pulse is found.
LEMMA NoPulseAtMark ==
    ASSUME Basics, Received, Noticeable, Clear, BitDecoded
    PROVE  second # 59
  <1>1. pulse \in {20, 40} /\ ~decoded
    BY BitStep, BitOfPulse
  <1>2. pulse = Sent(minute, second) \/ second # 59
    BY <1>1 DEF Received
  <1> QED BY <1>1, <1>2 DEF Sent

LEMMA ReceivedNext ==
    ASSUME Basics, Received, [Next]_vars
    PROVE  Received'
  <1> SUFFICES ASSUME Noticeable', Clear' PROVE Received'
    BY DEF Received
  <1>0. extra \in Nat /\ flips \in 0 .. MaxFlips /\ MaxFlips \in Nat /\ second \in 0 .. 59
    BY DcfAssumption DEF Basics, Numbers
  <1>1. CASE MinuteMark
    <2>1. Len(signal') = 1 /\ ~Whole' /\ decoded' /\ Done' \in Nat
      BY <1>1, AfterMark
    <2>2. Len(signal') <= IF PastMark' THEN 1 ELSE Done' + 1
      <3>1. 1 <= 1 /\ \A n \in Nat : 1 <= n + 1
        OBVIOUS
      <3> QED BY <2>1, <3>1, Zenon
    <2> QED BY <2>1, <2>2 DEF Received
  <1>2. CASE BitDecoded
    <2>0. UNCHANGED <<extra, flips>> /\ Noticeable /\ Clear
      BY <1>2, BitStep DEF noise, Noticeable, Clear
    <2>1. UNCHANGED <<extra, flips>> /\ ~decoded /\ decoded' /\ pulse \in {20, 40}
      BY <1>2, <2>0, BitStep, BitOfPulse
    <2>2. second # 59 /\ ~PastMark
      BY <1>2, <2>0, <2>1, NoPulseAtMark DEF PastMark
    <2>3. Len(signal) <= Done + 1 /\ Done \in Nat
      BY <1>0, <2>0, <2>1, <2>2 DEF Received, Done
    <2>4. /\ Len(signal') = Len(signal) + 1
          /\ Done' = Done + 1
          /\ ~PastMark'
          /\ Whole' <=> Whole
      BY <1>2, <2>0, <2>2, <2>3, ErrorsAfterBit
    <2>5. Len(signal') <= Done' + 1
      BY <2>3, <2>4, BufferLength
    <2>6. ASSUME Whole PROVE (\A r, s \in Errors' : r = s) /\ (Errors' # {} => flips >= 1)
      <3>1. CASE pulse = Sent(minute, second)
        <4>1. Errors' = Errors
          BY <1>2, <2>0, <2>1, <2>2, <2>3, <2>6, <3>1, ErrorsAfterBit, SentBit
        <4> QED BY <2>0, <2>6, <4>1 DEF Received
      <3>2. CASE pulse # Sent(minute, second)
        <4>1. flips >= 1 /\ Errors = {}
          BY <2>0, <2>1, <2>6, <3>2 DEF Received
        <4>2. Errors' = Errors \cup {second}
          BY <1>2, <2>0, <2>1, <2>2, <2>3, <2>6, <3>2, ErrorsAfterBit, SentBit
        <4> QED BY <4>1, <4>2
      <3> QED BY <3>1, <3>2
    <2> QED BY <2>1, <2>4, <2>5, <2>6 DEF Received
  <1>3. CASE time_inc_timer_cb
    <2>1. UNCHANGED <<base, minute, second, pulse, signal, decoded, noise, phase>>
      BY <1>3 DEF time_inc_timer_cb
    <2>2. Errors' = Errors /\ Done' = Done /\ (PastMark' <=> PastMark) /\ (Whole' <=> Whole)
          /\ Sent(minute, second)' = Sent(minute, second)
      BY <2>1 DEF Errors, Done, PastMark, Whole, Wrong, Bit, Announced, Civil, Sent
    <2> QED BY <2>1, <2>2 DEF Received, noise, Noticeable, Clear
  <1>4. CASE NextSecond
    <2>0. Clear
      BY <1>4, TimerNext
    <2>1. Noticeable
      BY <1>0, <1>4, NextPulse DEF noise, Noticeable
    <2>2. signal' = signal /\ ~PastMark' /\ ~decoded'
      BY <1>4, <2>0, AfterSecond
    <2>3. /\ Len(signal') <= Done' + 1
          /\ Whole' => \A r, s \in Errors' : r = s
          /\ Whole' /\ Errors' # {} => flips >= 1
      <3>1. CASE second = 59
        BY <1>4, <2>0, <2>1, <2>2, <3>1, AfterSecond DEF Received
      <3>2. CASE second # 59
        <4>1. ~PastMark
          BY <3>2 DEF PastMark
        <4> QED BY <1>4, <2>0, <2>1, <2>2, <3>2, <4>1, AfterSecond DEF Received
      <3> QED BY <3>1, <3>2
    <2>4. flips' >= flips /\ flips' \in Nat
      BY <1>0, <1>4, NextPulse DEF noise
    <2>5. \/ pulse' = Sent(minute', second')
          \/ second' # 59 /\ pulse' = 0
          \/ second' # 59 /\ flips = 0 /\ flips' = 1
      BY <1>0, <1>4, <2>1, NextPulse DEF Noticeable, noise
    <2>6. Whole' /\ Errors' # {} => flips' >= 1
      BY <1>0, <2>3, <2>4
    <2>7. /\ Len(signal') <= IF PastMark' THEN 1 ELSE Done' + 1
          /\ Whole' => /\ \A r, s \in Errors' : r = s
                       /\ Errors' # {} => flips' >= 1
      BY <2>2, <2>3, <2>6
    <2>8. \/ pulse' = Sent(minute', second')
          \/ second' # 59 /\ pulse' = 0
          \/ second' # 59 /\ flips' >= 1 /\ (Whole' => Errors' = {})
      BY <2>3, <2>5
    <2>9. Sent(minute, second)' = Sent(minute', second')
      BY <1>4 DEF NextSecond, Sent, Civil
    <2> QED BY <2>7, <2>8, <2>9 DEF Received
  <1>5. CASE UNCHANGED vars
    <2>1. UNCHANGED <<base, minute, second, pulse, signal, decoded, noise, phase>>
      BY <1>5 DEF vars
    <2>2. Errors' = Errors /\ Done' = Done /\ (PastMark' <=> PastMark) /\ (Whole' <=> Whole)
          /\ Sent(minute, second)' = Sent(minute, second)
      BY <2>1 DEF Errors, Done, PastMark, Whole, Wrong, Bit, Announced, Civil, Sent
    <2> QED BY <2>1, <2>2 DEF Received, noise, Noticeable, Clear
  <1> QED BY <1>1, <1>2, <1>3, <1>4, <1>5 DEF Next

-----------------------------------------------------------------------------
(* Clean minutes *)

\* It holds initially.
LEMMA CleanInit == Init => CleanOK
  BY DEF Init, CleanOK

\* A mark of an undisturbed signal is found in the last second.
LEMMA CleanMark ==
    ASSUME Basics, CleanOK, MinuteMark
    PROVE  CleanOK'
  <1>1. /\ second \in 0 .. 59 /\ second' = second /\ clean' = clean /\ clean \in 0 .. 2
        /\ ~decoded /\ decoded' /\ Len(signal') = 1
    BY MarkStep, StoredMark DEF Basics, Numbers
  <1>2. ASSUME Clear', clean >= 1
        PROVE  second = 59
    <2>1. pulse = 0
      <3>1. phase' \in 41 .. 199
        BY <1>2 DEF Clear
      <3>2. phase' > 40
        BY <3>1
      <3> QED BY <3>2, MarkStep
    <2>2. second # 59 => Sent(minute, second) # 0
      BY DEF Sent
    <2> QED BY <1>1, <1>2, <2>1, <2>2 DEF CleanOK
  <1>3. Clear' /\ clean' >= 1 => PastMark' /\ ~AtMark'
    BY <1>1, <1>2 DEF PastMark, AtMark
  <1> QED BY <1>1, <1>3 DEF CleanOK

\* A bit of a clean minute is the one that was sent.
LEMMA CleanBit ==
    ASSUME Basics, CleanOK, BitDecoded
    PROVE  CleanOK'
  <1>1. /\ second \in 0 .. 59 /\ second' = second /\ clean' = clean /\ clean \in 0 .. 2
        /\ ~decoded /\ decoded' /\ phase' = phase
    BY BitStep DEF Basics, Numbers
  <1> SUFFICES ASSUME clean >= 1, Clear PROVE CleanOK'
    BY <1>1 DEF CleanOK, Clear
  <1>2. pulse = Sent(minute, second) /\ pulse \in {20, 40}
    BY <1>1, BitOfPulse DEF CleanOK
  <1>3. second # 59
    BY <1>1, <1>2 DEF Sent
  <1>4. ~AtMark /\ ~PastMark /\ ~AtMark' /\ ~PastMark'
    BY <1>1, <1>3 DEF AtMark, PastMark
  <1>5. Whole /\ Errors = {}
    BY <1>4 DEF CleanOK
  <1>6. Len(signal) <= Done + 1
    BY <1>1, <1>5 DEF Whole, Done
  <1>7. BitNow = Telegram(Announced)[second]
    BY <1>1, <1>2, <1>3, SentBit
  <1>8. Whole' /\ Errors' = {}
    BY <1>3, <1>5, <1>6, <1>7, ErrorsAfterBit
  <1> QED BY <1>1, <1>4, <1>8 DEF CleanOK

\* The next second of a clean minute, and the first one of the next.
LEMMA CleanSecond ==
    ASSUME Basics, CleanOK, NextSecond
    PROVE  CleanOK'
  <1>1. /\ second \in 0 .. 59 /\ second' = (second + 1) % 60 /\ clean \in 0 .. 2
        /\ decoded
    BY DEF NextSecond, Basics, Numbers
  <1> SUFFICES ASSUME clean' >= 1 PROVE CleanOK'
    BY <1>1 DEF CleanOK
  <1>2. /\ pulse' = Sent(minute', second')
        /\ clean' = IF second' = 59 /\ clean < 2 THEN clean + 1 ELSE clean
    BY NextPulse
  <1>3. Sent(minute, second)' = Sent(minute', second')
    BY DEF NextSecond, Sent, Civil
  <1> SUFFICES ASSUME Clear' PROVE CleanOK'
    BY <1>2, <1>3 DEF CleanOK
  <1>4. Clear /\ ~decoded'
    BY TimerNext
  <1>5. ~PastMark' /\ (AtMark' <=> second' = 59) /\ ~AtMark
    BY <1>1, <1>4 DEF PastMark, AtMark
  <1>6. CASE second = 59
    <2>1. second' = 0 /\ clean' = clean /\ PastMark
      BY <1>1, <1>2, <1>6 DEF PastMark
    <2>2. Len(signal) = 1
      BY <1>4, <2>1 DEF CleanOK
    <2>3. Whole' /\ Errors' = {}
      BY <1>4, <1>6, <2>2, AfterSecond
    <2> QED BY <1>2, <1>3, <1>5, <2>3 DEF CleanOK
  <1>7. CASE second # 59 /\ second' # 59
    <2>1. clean' = clean /\ ~PastMark
      BY <1>2, <1>7 DEF PastMark
    <2>2. Whole /\ Errors = {}
      BY <1>4, <1>5, <2>1 DEF CleanOK
    <2>3. Whole' /\ Errors' = {}
      BY <1>4, <1>7, <2>2, AfterSecond
    <2> QED BY <1>2, <1>3, <1>5, <2>3 DEF CleanOK
  <1>8. CASE second # 59 /\ second' = 59
    <2>1. ~PastMark /\ (clean' = 2 => clean >= 1)
      BY <1>1, <1>2, <1>8 DEF PastMark
    <2>2. clean' = 2 => Whole /\ Errors = {}
      BY <1>4, <1>5, <2>1 DEF CleanOK
    <2>3. clean' = 2 => Whole' /\ Errors' = {}
      BY <1>4, <1>8, <2>2, AfterSecond
    <2> QED BY <1>2, <1>3, <1>5, <1>8, <2>3 DEF CleanOK
  <1> QED BY <1>6, <1>7, <1>8

\* Nothing else concerns the minute that is being received.
LEMMA CleanSame ==
    ASSUME Basics, CleanOK, time_inc_timer_cb \/ UNCHANGED vars
    PROVE  CleanOK'
  <1>1. UNCHANGED <<base, minute, second, pulse, phase, signal, decoded, clean>>
    BY DEF time_inc_timer_cb, vars
  <1>2. Errors' = Errors /\ Done' = Done /\ (PastMark' <=> PastMark) /\ (Whole' <=> Whole)
        /\ (AtMark' <=> AtMark) /\ Sent(minute, second)' = Sent(minute, second)
    BY <1>1 DEF Errors, Done, PastMark, AtMark, Whole, Wrong, Bit, Announced, Civil, Sent
  <1> QED BY <1>1, <1>2 DEF CleanOK, Clear

\* Every step preserves it.
LEMMA CleanNext ==
    ASSUME Basics, CleanOK, [Next]_vars
    PROVE  CleanOK'
  BY CleanMark, CleanBit, CleanSecond, CleanSame DEF Next

\* In the last second of a clean minute a clear timer finds sixty good bits.
LEMMA CleanTaken ==
    ASSUME Basics, CleanOK, MinuteMark \/ BitDecoded, second = 59, clean = 2, Clear
    PROVE  time_valid' /\ ~bad'
  <1>1. ~decoded
    BY BitStep, MarkStep
  <1>2. AtMark /\ Done = 59
    BY <1>1 DEF AtMark, Done
  <1>3. pulse = 0
    BY <1>1 DEF CleanOK, Sent
  <1>4. MinuteMark
    BY <1>3, BitOfPulse
  <1>5. Whole /\ Errors = {}
    BY <1>2 DEF CleanOK
  <1>6. Complete
    BY <1>2, <1>5 DEF Complete, Whole
  <1>7. \A s \in 0 .. 58 : ~Wrong(Announced, s)
    BY <1>2, <1>5 DEF Errors
  <1>8. ParitiesGood
    BY <1>7, ParitiesOfTelegram
  <1> QED BY <1>4, <1>6, <1>8 DEF MinuteMark, dcf2time

\* After a whole minute of undisturbed signal with the timer clear of the pulses the
\* clock is set, whatever was received before and wherever the timer was then.
THEOREM CleanSets == Spec => CleanMinuteSets
  <1>1. Init => Basics /\ CleanOK
    BY BasicsInit, CleanInit
  <1>2. Basics /\ CleanOK /\ [Next]_vars => (Basics /\ CleanOK)'
    BY BasicsNext, CleanNext
  <1>3. Basics /\ CleanOK
        => [(MinuteMark \/ BitDecoded) /\ second = 59 /\ clean = 2 /\ Clear
            => time_valid' /\ ~bad']_vars
    BY CleanTaken
  <1> QED BY <1>1, <1>2, <1>3, PTL DEF Spec, CleanMinuteSets

-----------------------------------------------------------------------------
(* The time that is taken over *)

\* A complete buffer at a mark: the sixty bits of the minute that ends.
LEMMA CompleteIsWhole ==
    ASSUME Basics, Received, MinuteMark, Complete, Noticeable, Clear
    PROVE  /\ second = 59 /\ Binary
           /\ \A r, s \in 0 .. 58 : Wrong(Announced, r) /\ Wrong(Announced, s) => r = s
  <1>1. second \in 0 .. 59 /\ ~decoded /\ Done = second /\ ~PastMark
    BY MarkStep DEF Basics, Numbers, Done, PastMark
  <1>2. Len(signal) = 60 /\ Len(signal) <= second + 1
    BY <1>1 DEF Received, Complete
  <1>3. second = 59 /\ Whole
    BY <1>1, <1>2 DEF Whole
  <1>4. Binary
    <2>1. \A j \in 1 .. Len(signal) : signal[j] \in {0, 1}
      BY DEF Basics, Buffer, BIT
    <2>2. \A s \in 0 .. 58 : s + 2 \in 1 .. 60
      OBVIOUS
    <2> QED BY <1>2, <2>1, <2>2 DEF Binary, Bit
  <1>5. \A r, s \in Errors : r = s
    BY <1>3 DEF Received
  <1>6. Errors = {s \in 0 .. 58 : Wrong(Announced, s)}
    BY <1>1, <1>3 DEF Errors
  <1> QED BY <1>3, <1>4, <1>5, <1>6

\* If its parities are good it is the time that begins.
LEMMA MarkTakes ==
    ASSUME Basics, Received, MinuteMark, Complete, ParitiesGood, Noticeable, Clear
    PROVE  /\ second = 59
           /\ time' = Decoded
           /\ \A f \in DOMAIN Fields : Decoded[f] = Announced[f]
  <1>1. Announced \in CivilTime
    BY AnnouncedCivil
  <1> QED BY <1>1, CompleteIsWhole, GoodIsSent DEF MinuteMark, dcf2time

\* A time that a clear timer takes over is the present one, with a pulse of the wrong
\* length and any number of lost ones, wherever the timer was started.
THEOREM TakenCorrect == Spec => TakenIsPresent
  <1>1. Init => Basics /\ Received
    BY BasicsInit, ReceivedInit
  <1>2. Basics /\ Received /\ [Next]_vars => (Basics /\ Received)'
    BY BasicsNext, ReceivedNext
  <1>3. Basics /\ Received
        => (MinuteMark /\ Complete /\ ParitiesGood /\ Noticeable /\ Clear
            => second = 59 /\ Shows(time', Present))
    <2> SUFFICES ASSUME Basics, Received, MinuteMark, Complete, ParitiesGood, Noticeable,
                        Clear
                 PROVE  second = 59 /\ Shows(time', Present)
      OBVIOUS
    <2>1. second = 59 /\ time' = Decoded /\ \A f \in DOMAIN Fields : Decoded[f] = Announced[f]
      BY MarkTakes
    <2>2. Present = Announced
      BY <2>1 DEF Present, Announced
    <2>3. DOMAIN Present = DOMAIN Fields
      BY DEF Present, Civil, Fields
    <2> QED BY <2>1, <2>2, <2>3 DEF Shows
  <1>4. Basics /\ Received
        => [MinuteMark /\ Complete /\ ParitiesGood /\ Noticeable /\ Clear
            => second = 59 /\ Shows(time', Present)]_vars
    BY <1>3
  <1> QED BY <1>1, <1>2, <1>4, PTL DEF Spec, TakenIsPresent

-----------------------------------------------------------------------------
(* The clock *)

TimeFields == DOMAIN Fields \cup {"seconds"}

DayTime(t) == t.seconds \in 0 .. 59 /\ t.minutes \in 0 .. 59 /\ t.hours \in 0 .. 23

DaySeconds(t) == ((t.hours * 60 + t.minutes) * 60) + t.seconds

Wrapped(x) == IF x >= 86400 THEN x - 86400 ELSE x

\* Seconds the clock was counted on but not yet the real time.
Ahead == IF counted THEN 1 ELSE 0

\* The clock is as far as the real time or a second further.
Close == \E k \in {0, 1} : DaySeconds(time) = Wrapped(Real + Ahead + k)

Follows ==
    /\ DOMAIN time = TimeFields
    /\ time_valid /\ ~bad /\ Noticeable => DayTime(time) /\ Close

\* time_inc_timer_cb() counts a second of the day.
LEMMA CountsOn ==
    ASSUME NEW t, DOMAIN t = TimeFields
    PROVE  /\ DOMAIN CountedOn(t) = TimeFields
           /\ DayTime(t) => /\ DayTime(CountedOn(t))
                            /\ DaySeconds(CountedOn(t)) = Wrapped(DaySeconds(t) + 1)
                            /\ CountedOn(t).dow = IF DaySeconds(t) = 86399
                                                  THEN (t.dow + 1) % 256 ELSE t.dow
  <1>1. {"seconds", "minutes", "hours", "date", "dow"} \subseteq DOMAIN t
    BY DEF TimeFields, Fields
  <1>2. DOMAIN CountedOn(t) = DOMAIN t
    BY DEF CountedOn
  <1>3. ASSUME DayTime(t)
        PROVE  /\ DayTime(CountedOn(t))
               /\ DaySeconds(CountedOn(t)) = Wrapped(DaySeconds(t) + 1)
               /\ CountedOn(t).dow = IF DaySeconds(t) = 86399
                                     THEN (t.dow + 1) % 256 ELSE t.dow
    <2> DEFINE s == t.seconds
               m == t.minutes
               h == t.hours
               c == CountedOn(t)
    <2>1. s \in 0 .. 59 /\ m \in 0 .. 59 /\ h \in 0 .. 23
      BY <1>3 DEF DayTime
    <2>2. DaySeconds(t) = ((h * 60 + m) * 60) + s
      BY DEF DaySeconds
    <2>3. DaySeconds(c) = ((c.hours * 60 + c.minutes) * 60) + c.seconds
      BY DEF DaySeconds
    <2>4. CASE s # 59
      <3>1. c = [t EXCEPT !.seconds = (s + 1) % 256]
        BY <2>1, <2>4 DEF CountedOn
      <3>2. c.seconds = s + 1 /\ c.minutes = m /\ c.hours = h /\ c.dow = t.dow
        BY <1>1, <2>1, <3>1
      <3> HIDE DEF s, m, h, c
      <3>3. DaySeconds(c) = DaySeconds(t) + 1 /\ DaySeconds(t) # 86399
            /\ DaySeconds(t) \in Nat /\ DaySeconds(t) < 86399
        BY <2>1, <2>2, <2>3, <2>4, <3>2
      <3>4. DayTime(c)
        BY <2>1, <2>4, <3>2 DEF DayTime
      <3> QED BY <3>2, <3>3, <3>4 DEF c, Wrapped
    <2>5. CASE s = 59 /\ m # 59
      <3>1. c = [t EXCEPT !.seconds = 0, !.minutes = (m + 1) % 256]
        BY <2>1, <2>5 DEF CountedOn
      <3>2. c.seconds = 0 /\ c.minutes = m + 1 /\ c.hours = h /\ c.dow = t.dow
        BY <1>1, <2>1, <3>1
      <3> HIDE DEF s, m, h, c
      <3>3. DaySeconds(c) = DaySeconds(t) + 1 /\ DaySeconds(t) # 86399
            /\ DaySeconds(t) \in Nat /\ DaySeconds(t) < 86399
        BY <2>1, <2>2, <2>3, <2>5, <3>2
      <3>4. DayTime(c)
        BY <2>1, <2>5, <3>2 DEF DayTime
      <3> QED BY <3>2, <3>3, <3>4 DEF c, Wrapped
    <2>6. CASE s = 59 /\ m = 59 /\ h # 23
      <3>1. c = [t EXCEPT !.seconds = 0, !.minutes = 0, !.hours = (h + 1) % 256]
        BY <2>1, <2>6 DEF CountedOn
      <3>2. c.seconds = 0 /\ c.minutes = 0 /\ c.hours = h + 1 /\ c.dow = t.dow
        BY <1>1, <2>1, <3>1
      <3> HIDE DEF s, m, h, c
      <3>3. DaySeconds(c) = DaySeconds(t) + 1 /\ DaySeconds(t) # 86399
            /\ DaySeconds(t) \in Nat /\ DaySeconds(t) < 86399
        BY <2>1, <2>2, <2>3, <2>6, <3>2
      <3>4. DayTime(c)
        BY <2>1, <2>6, <3>2 DEF DayTime
      <3> QED BY <3>2, <3>3, <3>4 DEF c, Wrapped
    <2>7. CASE s = 59 /\ m = 59 /\ h = 23
      <3>1. c = [t EXCEPT !.seconds = 0, !.minutes = 0, !.hours = 0,
                          !.date = (t.date + 1) % 256, !.dow = (t.dow + 1) % 256]
        BY <2>7 DEF CountedOn
      <3>2. c.seconds = 0 /\ c.minutes = 0 /\ c.hours = 0 /\ c.dow = (t.dow + 1) % 256
        BY <1>1, <3>1
      <3> HIDE DEF s, m, h, c
      <3>3. DaySeconds(c) = 0 /\ DaySeconds(t) = 86399
        BY <2>2, <2>3, <2>7, <3>2
      <3>4. DayTime(c)
        BY <3>2 DEF DayTime
      <3> QED BY <3>2, <3>3, <3>4 DEF c, Wrapped
    <2> QED BY <2>4, <2>5, <2>6, <2>7
  <1> QED BY <1>2, <1>3

\* The real time of day.
LEMMA RealTime ==
    ASSUME Basics
    PROVE  /\ TimeOfDay(Civil(minute)) \in Nat /\ TimeOfDay(Civil(minute)) < 1440
           /\ Real = (TimeOfDay(Civil(minute)) * 60) + second
           /\ second \in 0 .. 59
           /\ Real \in Nat /\ Real < 86400
  <1>1. minute \in 0 .. MaxMinutes + 1 /\ second \in 0 .. 59
    BY DcfAssumption DEF Basics, Numbers
  <1>2. Civil(minute) \in CivilTime
    BY <1>1, CivilRange DEF Basics
  <1>3. TimeOfDay(Civil(minute)) \in Nat /\ TimeOfDay(Civil(minute)) < 1440
    BY <1>2 DEF CivilTime, TimeOfDay
  <1>4. Real = (TimeOfDay(Civil(minute)) * 60) + second
    BY DEF Real, TimeOfDay
  <1> HIDE DEF TimeOfDay
  <1>5. Real \in Nat /\ Real < 86400
    <2> DEFINE x == TimeOfDay(Civil(minute))
    <2> HIDE DEF x
    <2>1. x \in Nat /\ x < 1440 /\ Real = (x * 60) + second
      BY <1>3, <1>4 DEF x
    <2> QED BY <1>1, <2>1
  <1> QED BY <1>1, <1>3, <1>4, <1>5

\* It goes on by a second a second.
LEMMA RealNext ==
    ASSUME Basics, Basics', NextSecond
    PROVE  Real' = Wrapped(Real + 1)
  <1> DEFINE x == TimeOfDay(Civil(minute))
             y == TimeOfDay(Civil(minute'))
  <1>1. /\ x \in Nat /\ x < 1440 /\ Real = (x * 60) + second /\ second \in 0 .. 59
    BY RealTime
  <1>2. base' = base /\ second' = (second + 1) % 60
        /\ minute' = IF second = 59 THEN minute + 1 ELSE minute
    BY DEF NextSecond
  <1>3. Real' = (y * 60) + second'
    BY <1>2 DEF Real, TimeOfDay, Civil
  <1>4. y = IF second = 59 THEN NextMinute(x) ELSE x
    <2>1. minute \in 0 .. MaxMinutes
      BY DEF Basics, Numbers
    <2> QED BY <1>2, <2>1, CivilNext DEF Basics
  <1> HIDE DEF x, y
  <1>5. CASE second = 59
    <2>1. second' = 0 /\ y = IF x = 1439 THEN 0 ELSE x + 1
      BY <1>2, <1>4, <1>5 DEF NextMinute
    <2> QED BY <1>1, <1>3, <1>5, <2>1 DEF Wrapped
  <1>6. CASE second # 59
    <2>1. second' = second + 1 /\ y = x
      BY <1>1, <1>2, <1>4, <1>6
    <2> QED BY <1>1, <1>3, <1>6, <2>1 DEF Wrapped
  <1> QED BY <1>5, <1>6

\* A minute with good parities sets the clock to the time that begins.
LEMMA MarkSets ==
    ASSUME Basics, Received, MinuteMark, Complete, ParitiesGood, Noticeable, Clear
    PROVE  /\ DOMAIN time' = TimeFields
           /\ DayTime(time') /\ time'.dow \in 1 .. 7
           /\ DaySeconds(time') = Wrapped(Real + 1)
  <1> DEFINE x == TimeOfDay(Civil(minute))
  <1>1. /\ x \in Nat /\ x < 1440 /\ Real = (x * 60) + second
    BY RealTime
  <1>2. second = 59 /\ time' = Decoded /\ \A f \in DOMAIN Fields : Decoded[f] = Announced[f]
    BY MarkTakes
  <1>3. time'.seconds = 0 /\ DOMAIN time' = TimeFields
    BY <1>2 DEF Decoded, Fields, TimeFields
  <1>4. time'.minutes = Announced.minutes /\ time'.hours = Announced.hours
        /\ time'.dow = Announced.dow
    BY <1>2 DEF Fields
  <1>5. Announced \in CivilTime
    BY AnnouncedCivil
  <1>6. DayTime(time') /\ time'.dow \in 1 .. 7
    BY <1>3, <1>4, <1>5 DEF DayTime, CivilTime
  <1>7. TimeOfDay(Announced) = NextMinute(x)
    <2>1. minute \in 0 .. MaxMinutes
      BY DEF Basics, Numbers
    <2> QED BY <2>1, CivilNext DEF Basics, Announced
  <1>8. DaySeconds(time') = TimeOfDay(Announced) * 60
    <2>1. Announced.minutes \in 0 .. 59 /\ Announced.hours \in 0 .. 23
      BY <1>5 DEF CivilTime
    <2> QED BY <1>3, <1>4, <2>1 DEF DaySeconds, TimeOfDay
  <1> HIDE DEF x
  <1>9. DaySeconds(time') = IF x = 1439 THEN 0 ELSE (x + 1) * 60
    BY <1>1, <1>7, <1>8 DEF NextMinute
  <1>10. DaySeconds(time') = Wrapped(Real + 1)
    BY <1>1, <1>2, <1>9 DEF Wrapped
  <1> QED BY <1>3, <1>6, <1>10
LEMMA FollowsInit == Init => Follows
  BY DEF Init, Follows, TimeFields, Fields

LEMMA FollowsMark ==
    ASSUME Basics, Received, Follows, MinuteMark
    PROVE  Follows'
  <1>1. /\ UNCHANGED <<base, minute, second, counted, extra, flips>>
        /\ counted \in BOOLEAN
    BY MarkStep DEF noise, Basics, Flags
  <1>2. Real' = Real /\ Ahead' = Ahead /\ Ahead \in {0, 1}
    BY <1>1 DEF Real, Civil, Ahead
  <1>3. CASE ~Complete
    <2>1. UNCHANGED <<time, time_valid, bad>>
      BY <1>3, MarkStep DEF dcf2time, clock
    <2> QED BY <1>1, <1>2, <2>1 DEF Follows, Close, Noticeable
  <1>4. CASE Complete /\ ~ParitiesGood
    <2>1. time' = [time EXCEPT !.seconds = 0] /\ bad' = TRUE
      BY <1>4, MarkStep DEF dcf2time
    <2>2. DOMAIN time' = TimeFields
      BY <2>1 DEF Follows
    <2> QED BY <2>1, <2>2 DEF Follows
  <1>5. CASE Complete /\ ParitiesGood
    <2>1. (~bad' => Clear) /\ DOMAIN time' = TimeFields
      <3>1. DOMAIN Decoded = TimeFields
        BY DEF Decoded, TimeFields
      <3> QED BY <1>5, <3>1, MarkStep DEF dcf2time
    <2>2. ASSUME ~bad', Noticeable'
          PROVE  DayTime(time') /\ DaySeconds(time') = Wrapped(Real + 1)
      <3>1. Noticeable
        BY <1>1, <2>2 DEF Noticeable
      <3> QED BY <1>5, <2>1, <2>2, <3>1, MarkSets
    <2>3. ASSUME ~bad', Noticeable'
          PROVE  Close'
      <3>1. DaySeconds(time)' = Wrapped(Real + 1)
        BY <2>2, <2>3 DEF DaySeconds
      <3>2. Real \in Nat
        BY RealTime
      <3>3. \E k \in {0, 1} : Ahead + k = 1
        BY <1>2
      <3>4. PICK k \in {0, 1} : Ahead + k = 1
        BY <3>3
      <3>5. (Real + Ahead) + k = Real + 1
        BY <1>2, <3>2, <3>4
      <3>6. DaySeconds(time)' = Wrapped((Real + Ahead) + k)
        BY <3>1, <3>5
      <3> QED BY <1>2, <3>6 DEF Close, Wrapped
    <2>4. DayTime(time)' <=> DayTime(time')
      BY DEF DayTime
    <2> QED BY <2>1, <2>2, <2>3, <2>4 DEF Follows
  <1> QED BY <1>3, <1>4, <1>5

LEMMA FollowsCount ==
    ASSUME Basics, Follows, time_inc_timer_cb
    PROVE  Follows'
  <1>1. /\ UNCHANGED <<base, minute, second, noise, time_valid, bad>>
        /\ time' = CountedOn(time)
        /\ counted = FALSE /\ counted' = TRUE
    BY DEF time_inc_timer_cb, Basics, Flags
  <1>2. Real' = Real /\ Ahead = 0 /\ Ahead' = 1
    BY <1>1 DEF Real, Civil, Ahead
  <1>3. /\ DOMAIN time' = TimeFields
        /\ DayTime(time) => /\ DayTime(time')
                            /\ DaySeconds(time') = Wrapped(DaySeconds(time) + 1)
    BY <1>1, CountsOn DEF Follows
  <1>4. (DayTime(time)' <=> DayTime(time')) /\ DaySeconds(time)' = DaySeconds(time')
    BY DEF DayTime, DaySeconds
  <1>5. ASSUME time_valid, ~bad, Noticeable
        PROVE  Close'
    <2>1. DayTime(time) /\ Close
      BY <1>5 DEF Follows
    <2>2. PICK k \in {0, 1} : DaySeconds(time) = Wrapped(Real + k)
      <3>1. PICK k \in {0, 1} : DaySeconds(time) = Wrapped(Real + Ahead + k)
        BY <2>1 DEF Close
      <3>2. (Real + Ahead) + k = Real + k
        BY <1>2, RealTime
      <3> QED BY <3>1, <3>2
    <2>3. Real \in Nat /\ Real < 86400
      BY RealTime
    <2>4. Wrapped(Wrapped(Real + k) + 1) = Wrapped((Real + 1) + k)
      BY <2>3 DEF Wrapped
    <2>5. DaySeconds(time)' = Wrapped((Real + 1) + k)
      BY <1>3, <1>4, <2>1, <2>2, <2>4
    <2> QED BY <1>2, <2>5 DEF Close, Wrapped
  <1> QED BY <1>1, <1>3, <1>4, <1>5 DEF Follows, Noticeable, noise

LEMMA FollowsSecond ==
    ASSUME Basics, Basics', Follows, NextSecond
    PROVE  Follows'
  <1>1. /\ UNCHANGED <<time, time_valid, bad>>
        /\ counted = TRUE /\ counted' = FALSE
    BY DEF NextSecond, clock, Basics, Flags
  <1>2. Noticeable' => Noticeable
    <2>1. extra \in Nat /\ flips \in Nat
      BY DcfAssumption DEF Basics, Numbers
    <2> QED BY <2>1, NextPulse DEF noise, Noticeable
  <1>3. Ahead = 1 /\ Ahead' = 0
    BY <1>1 DEF Ahead
  <1>4. ASSUME Close
        PROVE  Close'
    <2>1. PICK k \in {0, 1} : DaySeconds(time) = Wrapped(Real + 1 + k)
      BY <1>3, <1>4 DEF Close
    <2>2. Real \in Nat /\ Real < 86400
      BY RealTime
    <2>3. Real' = Wrapped(Real + 1)
      BY RealNext
    <2>4. Wrapped(Wrapped(Real + 1) + 0 + k) = Wrapped((Real + 1) + k)
      BY <2>2 DEF Wrapped
    <2>5. DaySeconds(time)' = Wrapped(Real' + Ahead' + k)
      BY <1>1, <1>3, <2>1, <2>3, <2>4 DEF DaySeconds
    <2> QED BY <2>5 DEF Close, Wrapped
  <1> QED BY <1>1, <1>2, <1>4 DEF Follows, DayTime

LEMMA FollowsSame ==
    ASSUME Basics, Follows, BitDecoded \/ UNCHANGED vars
    PROVE  Follows'
  <1>1. UNCHANGED <<base, minute, second, counted, noise, time, time_valid, bad>>
    BY BitStep DEF vars, clock
  <1>2. Real' = Real /\ Ahead' = Ahead
    BY <1>1 DEF Real, Civil, Ahead
  <1> QED BY <1>1, <1>2 DEF Follows, Close, DayTime, DaySeconds, Wrapped,
                               Noticeable, noise

LEMMA FollowsNext ==
    ASSUME Basics, Basics', Received, Follows, [Next]_vars
    PROVE  Follows'
  BY FollowsMark, FollowsCount, FollowsSecond, FollowsSame DEF Next

\* The clock is a second off at most, for as many minutes as are left, until a minute
\* is decoded amiss.
THEOREM ClockCorrect == Spec => []ClockFollows
  <1> DEFINE IInv == Basics /\ Received /\ Follows
  <1>1. Init => IInv
    BY BasicsInit, ReceivedInit, FollowsInit
  <1>2. IInv /\ [Next]_vars => IInv'
    BY BasicsNext, ReceivedNext, FollowsNext
  <1>3. IInv => ClockFollows
    <2> SUFFICES ASSUME Basics, Follows, time_valid, ~bad, Noticeable, ~counted
                 PROVE  CloseTo(Reading, Real)
      BY DEF ClockFollows
    <2>1. PICK k \in {0, 1} : DaySeconds(time) = Wrapped(Real + Ahead + k)
      BY DEF Follows, Close
    <2>2. Ahead = 0 /\ Reading = DaySeconds(time)
      BY DEF Ahead, Reading, DaySeconds
    <2>3. Real \in Nat /\ Real < 86400
      BY RealTime
    <2> DEFINE d == Reading - Real
    <2>4. Reading = Wrapped(Real + k)
      BY <2>1, <2>2, <2>3
    <2>5. d \in {0, 1, -86399}
      BY <2>3, <2>4 DEF Wrapped
    <2> HIDE DEF d
    <2>6. d % 86400 \in {0, 1, 86399}
      BY <2>5
    <2> QED BY <2>6 DEF CloseTo, d
  <1> QED BY <1>1, <1>2, <1>3, PTL DEF Spec

\* The buffer holds no more than sixty bits, no pulse is counted twice, and a valid
\* clock whose last minute was a good one shows a time of day.
THEOREM TypeCorrect == Spec => []TypeOK
  <1> DEFINE IInv == Basics /\ Received /\ Follows
  <1>1. Init => IInv
    BY BasicsInit, ReceivedInit, FollowsInit
  <1>2. IInv /\ [Next]_vars => IInv'
    BY BasicsNext, ReceivedNext, FollowsNext
  <1>3. IInv => TypeOK
    <2> SUFFICES ASSUME IInv PROVE TypeOK
      OBVIOUS
    <2>1. signal \in Seq({0, 1}) /\ Len(signal) <= 60
      BY DEF Basics, Buffer, BIT
    <2>2. phase \in 0 .. 200 /\ dcf_hc \in 0 .. 40 /\ pulse \in {0, 20, 40}
      BY DEF Basics, Numbers
    <2>3. time_valid /\ ~bad /\ Noticeable => DayTime(time)
      BY DEF Follows
    <2>4. time_valid /\ ~bad /\ Noticeable =>
             time.seconds < 60 /\ time.minutes < 60 /\ time.hours < 24
      BY <2>3 DEF DayTime
    <2> QED BY <2>1, <2>2, <2>4 DEF TypeOK
  <1> QED BY <1>1, <1>2, <1>3, PTL DEF Spec
=============================================================================
