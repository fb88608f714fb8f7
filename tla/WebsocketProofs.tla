-------------------------- MODULE WebsocketProofs --------------------------
(***************************************************************************)
(* Theorems about Websocket, for every number of connections, slots and    *)
(* sockets: the linked list of sockets is whole, and the parser gives the  *)
(* application what the clients send.                                      *)
(***************************************************************************)
EXTENDS Websocket, FiniteSetTheorems, NaturalsInduction, SequenceTheorems,
        WellFoundedInduction, TLAPS

\* A set of numbers has a least one, and CHOOSE finds it.
LEMMA LeastOf ==
    ASSUME NEW S \in SUBSET Nat, S # {}
    PROVE  \E i \in S : \A j \in S : i <= j
  <1>1. \A x, y \in Nat : x < y => <<x, y>> \in OpToRel(<, Nat)
    BY DEF OpToRel
  <1>2. PICK R : R = OpToRel(<, Nat)
    OBVIOUS
  <1>3. IsWellFoundedOn(R, Nat)
    BY <1>2, NatLessThanWellFounded
  <1>4. PICK i \in S : \A j \in S : ~(<<j, i>> \in R)
    BY <1>3, WFMin
  <1>5. \A j \in S : i <= j
    <2> SUFFICES ASSUME NEW j \in S, ~(i <= j) PROVE FALSE
      OBVIOUS
    <2>1. i \in Nat /\ j \in Nat /\ j < i
      OBVIOUS
    <2> QED BY <1>1, <1>2, <1>4, <2>1
  <1> QED BY <1>5

-----------------------------------------------------------------------------
(* A list in memory *)

\* L is the list that begins at start: entries 1 to n, each allocated once and
\* linked to the next one.  Nothing else is allocated.
List(n, L, ss, start) ==
    /\ n \in 0 .. MaxSocks
    /\ L \in [1 .. n -> Socks]
    /\ \A i, j \in 1 .. n : L[i] = L[j] => i = j
    /\ \A a \in Socks : ss[a].slot # NULL <=> \E i \in 1 .. n : L[i] = a
    /\ start = IF n = 0 THEN NULL ELSE L[1]
    /\ \A i \in 1 .. n : ss[L[i]].next = IF i = n THEN NULL ELSE L[i + 1]

\* The entries one finds when following such a list.
Entries(n, L) == [i \in 0 .. MaxSocks |-> IF i < n THEN L[i + 1] ELSE NULL]

\* Following the list from llStart yields its entries, then NULL.
LEMMA ChainEntries ==
    ASSUME NEW n, NEW L, List(n, L, socks, llStart)
    PROVE  \A i \in 0 .. MaxSocks : Chain[i] = IF i < n THEN L[i + 1] ELSE NULL
  <1> DEFINE Follow(f) ==
                [i \in 0 .. MaxSocks |->
                    IF i = 0 THEN llStart
                    ELSE IF f[i - 1] \in Allocated THEN socks[f[i - 1]].next ELSE NULL]
  <1>0. MaxSocks \in Nat /\ NULL \notin Socks
    BY WebsocketAssumption DEF Socks
  <1>1. Entries(n, L) = Follow(Entries(n, L))
    <2> SUFFICES ASSUME NEW i \in 0 .. MaxSocks
                 PROVE  Entries(n, L)[i] = Follow(Entries(n, L))[i]
      BY DEF Entries
    <2>1. CASE i = 0
      BY <1>0, <2>1 DEF Entries, List
    <2>2. CASE i # 0 /\ i - 1 < n
      <3>1. /\ i \in 1 .. n
            /\ i - 1 \in 0 .. MaxSocks
            /\ Entries(n, L)[i - 1] = L[i]
        BY <1>0, <2>2 DEF Entries, List
      <3>2. L[i] \in Allocated
        BY <3>1 DEF List, Allocated
      <3>3. socks[L[i]].next = Entries(n, L)[i]
        BY <1>0, <3>1 DEF Entries, List
      <3> QED BY <2>2, <3>1, <3>2, <3>3
    <2>3. CASE i # 0 /\ ~(i - 1 < n)
      <3>1. Entries(n, L)[i - 1] = NULL /\ Entries(n, L)[i] = NULL
        BY <1>0, <2>3 DEF Entries, List
      <3> QED BY <1>0, <2>3, <3>1 DEF Allocated
    <2> QED BY <2>1, <2>2, <2>3
  <1>2. Chain = CHOOSE f : f = Follow(f)
    BY DEF Chain
  <1>3. Chain = Follow(Chain)
    BY <1>1, <1>2
  <1>4. /\ Chain[0] = llStart
        /\ \A i \in 1 .. MaxSocks :
              Chain[i] = IF Chain[i - 1] \in Allocated THEN socks[Chain[i - 1]].next ELSE NULL
    BY <1>0, <1>3
  <1>5. /\ Entries(n, L)[0] = llStart
        /\ \A i \in 1 .. MaxSocks :
              Entries(n, L)[i] = IF Entries(n, L)[i - 1] \in Allocated
                                 THEN socks[Entries(n, L)[i - 1]].next ELSE NULL
    BY <1>0, <1>1
  <1> DEFINE Wrong == {i \in 0 .. MaxSocks : Chain[i] # Entries(n, L)[i]}
  <1>6. Wrong = {}
    <2> SUFFICES ASSUME Wrong # {} PROVE FALSE
      OBVIOUS
    <2>0. Wrong \in SUBSET Nat
      BY <1>0
    <2>1. PICK m \in Wrong : \A j \in Wrong : m <= j
      <3> HIDE DEF Wrong
      <3> QED BY <2>0, LeastOf
    <2>2. m # 0
      BY <1>4, <1>5, <2>1
    <2>3. m \in 1 .. MaxSocks /\ m - 1 \in 0 .. MaxSocks /\ ~(m <= m - 1)
      BY <1>0, <2>1, <2>2
    <2>4. Chain[m - 1] = Entries(n, L)[m - 1]
      BY <2>1, <2>3
    <2> QED BY <1>4, <1>5, <2>1, <2>3, <2>4
  <1> QED BY <1>6 DEF Entries

\* So SocketList's Listed is what the list holds, and the list ends.
LEMMA ListedEntries ==
    ASSUME NEW n, NEW L, List(n, L, socks, llStart)
    PROVE  /\ Listed = {L[i] : i \in 1 .. n}
           /\ Listed = Allocated
           /\ Chain[MaxSocks] = NULL
  <1>0. MaxSocks \in Nat /\ NULL \notin Socks
    BY WebsocketAssumption DEF Socks
  <1>1. \A i \in 0 .. MaxSocks : Chain[i] = IF i < n THEN L[i + 1] ELSE NULL
    BY ChainEntries
  <1>2. Chain[MaxSocks] = NULL
    BY <1>0, <1>1 DEF List
  <1>3. ASSUME NEW a \in Listed
        PROVE  \E i \in 1 .. n : a = L[i]
    <2>1. PICK k \in 0 .. MaxSocks : a = Chain[k] /\ a # NULL
      BY DEF Listed
    <2>2. k < n /\ a = L[k + 1] /\ k + 1 \in 1 .. n
      BY <1>0, <1>1, <2>1 DEF List
    <2> QED BY <2>2
  <1>4. ASSUME NEW i \in 1 .. n
        PROVE  L[i] \in Listed
    <2>1. /\ i - 1 \in 0 .. MaxSocks
          /\ i - 1 < n
          /\ (i - 1) + 1 = i
          /\ L[i] # NULL
      BY <1>0 DEF List
    <2>2. Chain[i - 1] = L[i]
      BY <1>1, <2>1
    <2> QED BY <2>1, <2>2 DEF Listed
  <1>5. Listed = {L[i] : i \in 1 .. n}
    BY <1>3, <1>4
  <1>6. Listed = Allocated
    BY <1>5 DEF List, Allocated
  <1> QED BY <1>2, <1>5, <1>6

\* A list without a certain socket leaves room for it.
LEMMA RoomForOne ==
    ASSUME NEW n \in 0 .. MaxSocks, NEW L \in [1 .. n -> Socks], NEW a \in Socks,
           \A i, j \in 1 .. n : L[i] = L[j] => i = j,
           \A i \in 1 .. n : L[i] # a
    PROVE  n + 1 <= MaxSocks
  <1>0. MaxSocks \in Nat
    BY WebsocketAssumption
  <1>1. /\ IsFiniteSet(Socks)
        /\ Cardinality(Socks) = MaxSocks
    BY <1>0, FS_Interval DEF Socks
  <1>2. /\ IsFiniteSet(Socks \ {a})
        /\ Cardinality(Socks \ {a}) = MaxSocks - 1
    BY <1>1, FS_RemoveElement
  <1>3. /\ IsFiniteSet(1 .. n)
        /\ Cardinality(1 .. n) = n
    BY <1>0, FS_Interval
  <1>4. L \in [1 .. n -> Socks \ {a}]
    OBVIOUS
  <1>5. ~(MaxSocks - 1 < n)
    BY <1>2, <1>3, <1>4, FS_PigeonHole
  <1> QED BY <1>0, <1>5

\* A new socket at the end of the list (cgiWebsocket(), the first call).
LEMMA ListAppend ==
    ASSUME NEW n, NEW L, NEW ss, NEW start, List(n, L, ss, start),
           NEW a \in Socks, ss[a].slot = NULL,
           NEW tt, tt[a].slot # NULL, tt[a].next = NULL,
           \A b \in Socks \ {a} : /\ tt[b].slot = ss[b].slot
                                  /\ tt[b].next = IF ss[b].slot # NULL /\ ss[b].next = NULL
                                                  THEN a ELSE ss[b].next
    PROVE  List(n + 1, [i \in 1 .. n + 1 |-> IF i = n + 1 THEN a ELSE L[i]], tt,
                IF start = NULL THEN a ELSE start)
  <1> DEFINE M == [i \in 1 .. n + 1 |-> IF i = n + 1 THEN a ELSE L[i]]
  <1>0. /\ MaxSocks \in Nat
        /\ NULL \notin Socks
        /\ n \in 0 .. MaxSocks
        /\ n \in Nat
    BY WebsocketAssumption DEF Socks, List
  <1>1. \A i \in 1 .. n : L[i] \in Socks \ {a} /\ ss[L[i]].slot # NULL
    BY DEF List
  <1>2. n + 1 \in 0 .. MaxSocks
    BY <1>0, <1>1, RoomForOne DEF List
  <1>3. /\ M[n + 1] = a
        /\ \A i \in 1 .. n : M[i] = L[i]
        /\ M \in [1 .. n + 1 -> Socks]
    BY <1>0, <1>1
  <1>4. 1 .. n + 1 = (1 .. n) \cup {n + 1}
    BY <1>0
  <1> HIDE DEF M
  <1>5. \A i, j \in 1 .. n + 1 : M[i] = M[j] => i = j
    BY <1>1, <1>3, <1>4 DEF List
  <1>6. \A b \in Socks : tt[b].slot # NULL <=> \E i \in 1 .. n + 1 : M[i] = b
    <2> SUFFICES ASSUME NEW b \in Socks
                 PROVE  tt[b].slot # NULL <=> \E i \in 1 .. n + 1 : M[i] = b
      OBVIOUS
    <2>1. CASE b = a
      BY <1>3, <1>4, <2>1
    <2>2. CASE b # a
      <3>1. tt[b].slot # NULL <=> \E i \in 1 .. n : L[i] = b
        BY <2>2 DEF List
      <3> QED BY <1>3, <1>4, <2>2, <3>1
    <2> QED BY <2>1, <2>2
  <1>7. (IF start = NULL THEN a ELSE start) = IF n + 1 = 0 THEN NULL ELSE M[1]
    BY <1>0, <1>1, <1>3 DEF List
  <1>8. \A i \in 1 .. n + 1 : tt[M[i]].next = IF i = n + 1 THEN NULL ELSE M[i + 1]
    <2> SUFFICES ASSUME NEW i \in 1 .. n + 1
                 PROVE  tt[M[i]].next = IF i = n + 1 THEN NULL ELSE M[i + 1]
      OBVIOUS
    <2>1. CASE i = n + 1
      BY <1>3, <2>1
    <2>2. CASE i = n /\ i \in 1 .. n
      BY <1>0, <1>1, <1>3, <2>2 DEF List
    <2>3. CASE i \in 1 .. n /\ i # n
      <3>1. /\ i + 1 \in 1 .. n
            /\ i # n + 1
        BY <1>0, <2>3
      <3>2. ss[L[i]].next = L[i + 1]
        BY <2>3 DEF List
      <3>3. L[i + 1] # NULL
        BY <1>0, <1>1, <3>1
      <3> QED BY <1>1, <1>3, <2>3, <3>1, <3>2, <3>3
    <2> QED BY <1>4, <2>1, <2>2, <2>3
  <1> QED BY <1>2, <1>3, <1>5, <1>6, <1>7, <1>8 DEF List, M

\* A socket taken out of it, wherever it is (cgiWebsocket() for a connection that
\* has gone).
LEMMA ListRemove ==
    ASSUME NEW n, NEW L, NEW ss, NEW start, List(n, L, ss, start),
           NEW a \in Socks, ss[a].slot # NULL,
           NEW tt, tt[a].slot = NULL,
           \A b \in Socks \ {a} : /\ tt[b].slot = ss[b].slot
                                  /\ tt[b].next = IF start # a /\ ss[b].slot # NULL /\ ss[b].next = a
                                                  THEN ss[a].next ELSE ss[b].next
    PROVE  \E m, M : List(m, M, tt, IF start = a THEN ss[a].next ELSE start)
  <1>0. /\ MaxSocks \in Nat
        /\ NULL \notin Socks
        /\ n \in 0 .. MaxSocks
        /\ n \in Nat
    BY WebsocketAssumption DEF Socks, List
  <1>1. PICK k \in 1 .. n : L[k] = a
    BY DEF List
  <1> DEFINE m == n - 1
             M == [i \in 1 .. m |-> IF i < k THEN L[i] ELSE L[i + 1]]
             rest == IF start = a THEN ss[a].next ELSE start
  <1>2. /\ m \in 0 .. MaxSocks
        /\ m \in Nat
        /\ n = m + 1
        /\ k \in Nat
        /\ k >= 1
        /\ k <= m + 1
    BY <1>0
  <1>3. /\ \A i \in 1 .. m : i < k => i \in 1 .. n /\ i # k /\ M[i] = L[i]
        /\ \A i \in 1 .. m : ~(i < k) => i + 1 \in 1 .. n /\ i + 1 # k /\ M[i] = L[i + 1]
    BY <1>2
  <1>4. \A i \in 1 .. n : L[i] \in Socks /\ ss[L[i]].slot # NULL /\ (i # k => L[i] # a)
    BY <1>1 DEF List
  <1>5. M \in [1 .. m -> Socks]
    BY <1>3, <1>4
  <1> HIDE DEF M, m
  <1>6. \A i, j \in 1 .. m : M[i] = M[j] => i = j
    <2> SUFFICES ASSUME NEW i \in 1 .. m, NEW j \in 1 .. m, M[i] = M[j]
                 PROVE  i = j
      OBVIOUS
    <2>1. CASE i < k /\ j < k
      BY <1>3, <2>1 DEF List
    <2>2. CASE i < k /\ ~(j < k)
      <3>1. i = j + 1
        BY <1>3, <2>2 DEF List
      <3> QED BY <1>2, <2>2, <3>1
    <2>3. CASE ~(i < k) /\ j < k
      <3>1. i + 1 = j
        BY <1>3, <2>3 DEF List
      <3> QED BY <1>2, <2>3, <3>1
    <2>4. CASE ~(i < k) /\ ~(j < k)
      <3>1. i + 1 = j + 1
        BY <1>3, <2>4 DEF List
      <3> QED BY <3>1
    <2> QED BY <2>1, <2>2, <2>3, <2>4
  <1>7. \A b \in Socks : tt[b].slot # NULL <=> \E i \in 1 .. m : M[i] = b
    <2> SUFFICES ASSUME NEW b \in Socks
                 PROVE  tt[b].slot # NULL <=> \E i \in 1 .. m : M[i] = b
      OBVIOUS
    <2>1. CASE b = a
      BY <1>3, <1>4, <2>1
    <2>2. CASE b # a
      <3>1. tt[b].slot # NULL <=> \E i \in 1 .. n : L[i] = b
        BY <2>2 DEF List
      <3>2. ASSUME NEW i \in 1 .. n, L[i] = b
            PROVE  \E j \in 1 .. m : M[j] = b
        <4>1. i # k
          BY <1>1, <2>2, <3>2
        <4>2. CASE i < k
          BY <1>2, <1>3, <3>2, <4>2
        <4>3. CASE i > k
          <5>1. /\ i - 1 \in 1 .. m
                /\ ~(i - 1 < k)
                /\ (i - 1) + 1 = i
            BY <1>2, <4>3
          <5>2. M[i - 1] = b
            BY <1>3, <3>2, <5>1
          <5> QED BY <5>1, <5>2
        <4> QED BY <1>2, <4>1, <4>2, <4>3
      <3>3. ASSUME NEW j \in 1 .. m, M[j] = b
            PROVE  \E i \in 1 .. n : L[i] = b
        BY <1>3, <3>3
      <3> QED BY <3>1, <3>2, <3>3
    <2> QED BY <2>1, <2>2
  <1>8. ss[a].next = IF k = n THEN NULL ELSE L[k + 1]
    BY <1>1 DEF List
  <1>9. start = L[1]
    BY <1>2 DEF List
  <1>10. start = a <=> k = 1
    BY <1>1, <1>2, <1>4, <1>9
  <1>11. rest = IF m = 0 THEN NULL ELSE M[1]
    <2>1. CASE k = 1
      BY <1>2, <1>3, <1>8, <1>10, <2>1
    <2>2. CASE k # 1
      <3>1. /\ 1 \in 1 .. m
            /\ 1 < k
            /\ m # 0
        BY <1>2, <2>2
      <3> QED BY <1>3, <1>9, <1>10, <2>2, <3>1
    <2> QED BY <2>1, <2>2
  <1>12. \A i \in 1 .. n : ss[L[i]].next = a <=> i = k - 1
    <2> SUFFICES ASSUME NEW i \in 1 .. n PROVE ss[L[i]].next = a <=> i = k - 1
      OBVIOUS
    <2>1. ss[L[i]].next = IF i = n THEN NULL ELSE L[i + 1]
      BY DEF List
    <2>2. CASE i = n
      BY <1>0, <1>2, <2>1, <2>2
    <2>3. CASE i # n
      <3>1. i + 1 \in 1 .. n
        BY <1>0, <2>3
      <3>2. L[i + 1] = a <=> i + 1 = k
        BY <1>1, <1>4, <3>1
      <3> QED BY <1>2, <2>1, <2>3, <3>2
    <2> QED BY <2>2, <2>3
  <1>13. \A i \in 1 .. m : tt[M[i]].next = IF i = m THEN NULL ELSE M[i + 1]
    <2> SUFFICES ASSUME NEW i \in 1 .. m
                 PROVE  tt[M[i]].next = IF i = m THEN NULL ELSE M[i + 1]
      OBVIOUS
    <2> DEFINE Next1(j) == IF j = n THEN NULL ELSE L[j + 1]
    <2>1. \A j \in 1 .. n : ss[L[j]].next = Next1(j)
      BY DEF List
    <2>2. CASE i < k - 1
      <3>1. /\ M[i] = L[i]
            /\ i \in 1 .. n
            /\ i # k
            /\ i # k - 1
            /\ i # n
            /\ i # m
        BY <1>2, <1>3, <2>2
      <3>2. M[i + 1] = L[i + 1]
        BY <1>2, <1>3, <2>2
      <3>3. tt[L[i]].next = ss[L[i]].next
        BY <1>4, <1>12, <3>1
      <3> QED BY <2>1, <3>1, <3>2, <3>3
    <2>3. CASE i = k - 1
      <3>1. /\ M[i] = L[i]
            /\ i \in 1 .. n
            /\ i # k
            /\ k # 1
        BY <1>2, <1>3, <2>3
      <3>2. tt[L[i]].next = ss[a].next
        BY <1>4, <1>10, <1>12, <2>3, <3>1
      <3>3. k = n <=> i = m
        BY <1>2, <2>3
      <3>4. i # m => M[i + 1] = L[k + 1]
        BY <1>2, <1>3, <2>3
      <3> QED BY <1>8, <3>1, <3>2, <3>3, <3>4
    <2>4. CASE i >= k
      <3>1. /\ M[i] = L[i + 1]
            /\ i + 1 \in 1 .. n
            /\ i + 1 # k
            /\ i + 1 # k - 1
        BY <1>2, <1>3, <2>4
      <3>2. tt[L[i + 1]].next = ss[L[i + 1]].next
        BY <1>4, <1>12, <3>1
      <3>3. i + 1 = n <=> i = m
        BY <1>2
      <3>4. i # m => M[i + 1] = L[(i + 1) + 1]
        BY <1>2, <1>3, <2>4
      <3> QED BY <2>1, <3>1, <3>2, <3>3, <3>4
    <2> QED BY <1>2, <2>2, <2>3, <2>4
  <1>14. List(m, M, tt, rest)
    BY <1>2, <1>5, <1>6, <1>7, <1>11, <1>13 DEF List
  <1> QED BY <1>14

\* What happens to other fields does not matter to the list.
LEMMA ListSame ==
    ASSUME NEW n, NEW L, NEW ss, NEW start, List(n, L, ss, start),
           NEW tt, \A b \in Socks : tt[b].slot = ss[b].slot /\ tt[b].next = ss[b].next
    PROVE  List(n, L, tt, start)
  BY DEF List

-----------------------------------------------------------------------------
(* Sockets and slots *)

SlotType == [conn : Conns \cup {NULL}, cgi : BOOLEAN, priv : Socks \cup {NULL},
             recvHdl : BOOLEAN]

SockFields == {"slot", "flags", "len8", "len", "mask", "maskCtr", "frameCont",
               "mustClose", "wsStatus", "next"}

\* What the list needs of a socket; the parser's fields may hold anything but its
\* state.
SockOK(ws) ==
    /\ DOMAIN ws = SockFields
    /\ ws.slot \in Slots \cup {NULL}
    /\ ws.next \in Socks \cup {NULL}
    /\ ws.mustClose \in BOOLEAN
    /\ ws.wsStatus \in 0 .. 14

Memory(sl, ss) ==
    /\ sl \in [Slots -> SlotType]
    /\ DOMAIN ss = Socks
    /\ \A a \in Socks : SockOK(ss[a])

\* A slot and its socket know each other; a connection served by cgiWebsocket has
\* one; a socket whose connection is not served any more was told to close.
Backward(sl, ss) == \A s \in Slots : sl[s].priv # NULL => ss[sl[s].priv].slot = s

Serving(sl) == \A s \in Slots : sl[s].cgi => sl[s].priv # NULL /\ sl[s].conn # NULL

Forward(sl, ss) ==
    \A a \in Socks : ss[a].slot # NULL => sl[ss[a].slot].priv = a

ToldToClose(sl, ss) ==
    \A a \in Socks : ss[a].slot # NULL => sl[ss[a].slot].cgi \/ ss[a].mustClose

Owned(sl, ss) ==
    Backward(sl, ss) /\ Serving(sl) /\ Forward(sl, ss) /\ ToldToClose(sl, ss)

Linked(ss, start) == \E n, L : List(n, L, ss, start)

\* The inductive invariant behind SocketList.
ListInv == Memory(slots, socks) /\ Owned(slots, socks) /\ Linked(socks, llStart)

\* It says what SocketList says, and more.
LEMMA ListInvImplies == ListInv => SocketList
  <1> SUFFICES ASSUME ListInv PROVE SocketList
    OBVIOUS
  <1>1. PICK n, L : List(n, L, socks, llStart)
    BY DEF ListInv, Linked
  <1>2. Listed = Allocated /\ Chain[MaxSocks] = NULL
    BY <1>1, ListedEntries
  <1>3. NULL \notin Slots
    BY WebsocketAssumption DEF Slots
  <1>4. ASSUME NEW s \in Slots, slots[s].cgi
        PROVE  slots[s].priv \in Allocated /\ socks[slots[s].priv].slot = s
    <2>1. slots[s].priv \in Socks \cup {NULL}
      BY DEF ListInv, Memory, SlotType
    <2>2. slots[s].priv # NULL
      BY <1>4, Zenon DEF ListInv, Owned, Backward, Serving, Forward, ToldToClose
    <2>3. socks[slots[s].priv].slot = s
      BY <2>2 DEF ListInv, Owned, Backward, Serving, Forward, ToldToClose
    <2> QED BY <1>3, <2>1, <2>2, <2>3 DEF Allocated
  <1>5. ASSUME NEW a \in Allocated
        PROVE  slots[socks[a].slot].cgi \/ socks[a].mustClose
    BY DEF Allocated, ListInv, Owned, Backward, Serving, Forward, ToldToClose
  <1> QED BY <1>2, <1>4, <1>5 DEF SocketList

\* Initially nothing is allocated.
LEMMA ListInit == Init => ListInv
  <1> SUFFICES ASSUME Init PROVE ListInv
    OBVIOUS
  <1>0. /\ MaxSocks \in Nat
        /\ NULL \notin Socks
    BY WebsocketAssumption DEF Socks
  <1>1. Memory(slots, socks)
    <2>1. FreeSlot \in SlotType
      BY DEF FreeSlot, SlotType
    <2>2. slots \in [Slots -> SlotType]
      BY <2>1 DEF Init
    <2>3. SockOK(NewSock(NULL))
      BY DEF SockOK, SockFields, NewSock, ST_FLAGS
    <2> QED BY <2>2, <2>3 DEF Init, Memory
  <1>2. Owned(slots, socks)
    BY DEF Init, Owned, Backward, Serving, Forward, ToldToClose, FreeSlot, NewSock
  <1>3. List(0, [i \in 1 .. 0 |-> 0], socks, llStart)
    <2>1. /\ \A a \in Socks : socks[a].slot = NULL
          /\ llStart = NULL
      BY DEF Init, NewSock
    <2> QED BY <1>0, <2>1 DEF List
  <1> QED BY <1>1, <1>2, <1>3 DEF ListInv, Linked

\* Handling bytes of a frame leaves slot and links of its socket alone and never
\* takes back that it must close.
Parsed(ws, vs) ==
    /\ SockOK(vs)
    /\ vs.slot = ws.slot
    /\ vs.next = ws.next
    /\ ws.mustClose => vs.mustClose

\* A byte of a head keeps the rest of the socket.
LEMMA HeadParsed ==
    ASSUME NEW ws, NEW b, SockOK(ws), ws.wsStatus # ST_PAYLOAD
    PROVE  Parsed(ws, HeadByte(ws, b))
  <1> USE DEF SockOK, SockFields, Parsed
  <1>1. AfterLength(ws) \in 0 .. 14 /\ AfterLength([ws EXCEPT !.len8 = b]) \in 0 .. 14
    BY DEF AfterLength, ST_MASK1, ST_PAYLOAD
  <1> DEFINE st == ws.wsStatus
  <1>2. CASE st = ST_FLAGS
    <2>1. HeadByte(ws, b) = [ws EXCEPT !.maskCtr = 0, !.frameCont = FALSE,
                                       !.flags = b, !.wsStatus = ST_LEN0]
      BY <1>2 DEF HeadByte, ST_FLAGS, ST_LEN0, ST_LEN1, ST_LEN8, ST_MASK1, ST_MASK4
    <2> QED BY <2>1 DEF ST_LEN0
  <1>3. CASE st = ST_LEN0 /\ b % 128 >= 126
    BY <1>3 DEF HeadByte, ST_FLAGS, ST_LEN0, ST_LEN1
  <1>4. CASE st = ST_LEN0 /\ ~(b % 128 >= 126)
    BY <1>1, <1>4 DEF HeadByte, ST_FLAGS, ST_LEN0
  <1>5. CASE st \in ST_LEN1 .. ST_LEN8
    BY <1>1, <1>5 DEF HeadByte, ST_FLAGS, ST_LEN0, ST_LEN1, ST_LEN8
  <1>6. CASE st \in ST_MASK1 .. ST_MASK4
    BY <1>6 DEF HeadByte, ST_FLAGS, ST_LEN0, ST_LEN1, ST_LEN8, ST_MASK1, ST_MASK4
  <1>7. \/ st = ST_FLAGS
        \/ st = ST_LEN0
        \/ st \in ST_LEN1 .. ST_LEN8
        \/ st \in ST_MASK1 .. ST_MASK4
    BY DEF ST_FLAGS, ST_LEN0, ST_LEN1, ST_LEN8, ST_MASK1, ST_MASK4, ST_PAYLOAD
  <1> QED BY <1>2, <1>3, <1>4, <1>5, <1>6, <1>7

\* So does a payload.
LEMMA PayloadParsed ==
    ASSUME NEW ws, NEW n, SockOK(ws)
    PROVE  Parsed(ws, AfterPayload(ws, n))
  BY DEF SockOK, SockFields, Parsed, AfterPayload, ST_FLAGS

\* A step that only parses, or nothing.
LEMMA ParseStep ==
    ASSUME ListInv, UNCHANGED <<slots, llStart>>, DOMAIN socks' = Socks,
           \A a \in Socks : Parsed(socks[a], socks'[a])
    PROVE  ListInv'
  <1>1. PICK n, L : List(n, L, socks, llStart)
    BY DEF ListInv, Linked
  <1>2. List(n, L, socks', llStart)
    BY <1>1, ListSame DEF Parsed
  <1>3. Owned(slots, socks')
    <2>1. \A s \in Slots : slots[s].priv \in Socks \cup {NULL}
      BY DEF ListInv, Memory, SlotType
    <2> QED BY <2>1 DEF ListInv, Owned, Backward, Serving, Forward, ToldToClose, Parsed
  <1> QED BY <1>2, <1>3 DEF ListInv, Memory, Linked, Parsed
-----------------------------------------------------------------------------
(* The actions *)

\* A slot that serves no connection is not cgiWebsocket's.
LEMMA FreeIsDone ==
    ASSUME ListInv, NEW s \in Slots, slots[s].conn = NULL
    PROVE  slots[s].cgi = FALSE
  <1>1. slots[s].cgi \in BOOLEAN
    BY DEF ListInv, Memory, SlotType
  <1>2. ~slots[s].cgi
    BY Zenon DEF ListInv, Owned, Backward, Serving, Forward, ToldToClose
  <1> QED BY <1>1, <1>2

\* What a request makes of a slot is one.
LEMMA SlotChange ==
    ASSUME NEW sl \in [Slots -> SlotType], NEW s \in Slots, NEW c \in Conns
    PROVE  [sl EXCEPT ![s].conn = c, ![s].cgi = FALSE] \in [Slots -> SlotType]
  <1>1. [[sl[s] EXCEPT !.conn = c] EXCEPT !.cgi = FALSE] \in SlotType
    BY DEF SlotType
  <1> QED BY <1>1

\* A change to the connection of a slot that cgiWebsocket does not serve.
LEMMA SlotStep ==
    ASSUME ListInv, UNCHANGED <<socks, llStart>>,
           slots' \in [Slots -> SlotType],
           \A s \in Slots : slots'[s].priv = slots[s].priv,
           \A s \in Slots : slots'[s].cgi => slots[s].cgi /\ slots'[s].conn # NULL,
           \A s \in Slots : slots[s].cgi => slots'[s].cgi \/ socks[slots[s].priv].mustClose
    PROVE  ListInv'
  <1>1. Memory(slots', socks)
    BY DEF ListInv, Memory
  <1>2. Backward(slots', socks) /\ Serving(slots')
    BY Zenon DEF ListInv, Owned, Backward, Serving, Forward, ToldToClose
  <1>3. ASSUME NEW a \in Socks, socks[a].slot # NULL
        PROVE  /\ slots'[socks[a].slot].priv = a
               /\ slots'[socks[a].slot].cgi \/ socks[a].mustClose
    <2> DEFINE s == socks[a].slot
    <2>1. s \in Slots
      BY <1>3 DEF ListInv, Memory, SockOK
    <2>2. slots[s].priv = a
      BY <1>3 DEF ListInv, Owned, Backward, Serving, Forward, ToldToClose
    <2>3. slots[s].cgi \/ socks[a].mustClose
      BY <1>3, Zenon DEF ListInv, Owned, Backward, Serving, Forward, ToldToClose
    <2> QED BY <2>1, <2>2, <2>3, Zenon
  <1>4. Owned(slots', socks)
    BY <1>2, <1>3, Zenon DEF Owned, Backward, Serving, Forward, ToldToClose
  <1> QED BY <1>1, <1>4 DEF ListInv

\* Only the parts of the state that ListInv speaks of matter.
LEMMA ListStutter ==
    ASSUME ListInv, UNCHANGED <<slots, socks, llStart>>
    PROVE  ListInv'
  BY DEF ListInv

\* Another CGI function takes a free slot.
LEMMA RequestPlainList ==
    ASSUME ListInv, NEW c \in Conns, NEW s \in Slots, slots[s].conn = NULL,
           RequestPlain(c, s)
    PROVE  ListInv'
  <1>1. slots' = [slots EXCEPT ![s].conn = c, ![s].cgi = FALSE]
    BY DEF RequestPlain
  <1>2. slots \in [Slots -> SlotType]
    BY DEF ListInv, Memory
  <1>3. slots' \in [Slots -> SlotType]
    BY <1>1, <1>2, SlotChange
  <1>4. slots[s].cgi = FALSE
    BY FreeIsDone
  <1>5. ASSUME NEW t \in Slots
        PROVE  /\ slots'[t].priv = slots[t].priv
               /\ slots'[t].cgi => slots[t].cgi /\ slots'[t].conn # NULL
               /\ slots[t].cgi => slots'[t].cgi \/ socks[slots[t].priv].mustClose
    <2>1. CASE t = s
      BY <1>1, <1>2, <1>4, <2>1 DEF SlotType
    <2>2. CASE t # s
      <3>1. slots'[t] = slots[t]
        BY <1>1, <1>2, <2>2
      <3>2. slots[t].cgi => slots[t].conn # NULL
        BY Zenon DEF ListInv, Owned, Backward, Serving, Forward, ToldToClose
      <3> QED BY <3>1, <3>2
    <2> QED BY <2>1, <2>2
  <1> QED BY <1>3, <1>5, SlotStep DEF RequestPlain

\* A new socket is appended to the list.
LEMMA RequestSocketList ==
    ASSUME ListInv, NEW c \in Conns, NEW s \in Slots, slots[s].conn = NULL,
           RequestSocket(c, s)
    PROVE  ListInv'
  <1> DEFINE a == Lowest(Socks \ Allocated)
  <1> DEFINE ss == [Appended(socks, a) EXCEPT ![a] = NewSock(s)]
  <1> DEFINE rec == [conn |-> c, cgi |-> TRUE, priv |-> a, recvHdl |-> TRUE]
  <1>0. NULL \notin Slots /\ NULL \notin Socks /\ NULL \notin Conns
    BY WebsocketAssumption DEF Slots, Socks
  <1>1. /\ slots' = [slots EXCEPT ![s] = rec]
        /\ socks' = ss
        /\ llStart' = IF llStart = NULL THEN a ELSE llStart
        /\ slots[s].priv = NULL
    BY DEF RequestSocket
  <1>2. a \in Socks /\ socks[a].slot = NULL
    <2>1. Socks \ Allocated \in SUBSET Nat /\ Socks \ Allocated # {}
      BY WebsocketAssumption DEF RequestSocket, Allocated, Socks
    <2>2. \E i \in Socks \ Allocated : \A j \in Socks \ Allocated : i <= j
      BY <2>1, LeastOf
    <2>3. a \in Socks \ Allocated
      BY <2>2 DEF Lowest
    <2> QED BY <2>3 DEF Allocated
  <1>3. PICK n, L : List(n, L, socks, llStart)
    BY DEF ListInv, Linked
  <1>4. Listed = Allocated
    BY <1>3, ListedEntries
  <1>5. /\ slots \in [Slots -> SlotType]
        /\ DOMAIN socks = Socks
        /\ \A b \in Socks : SockOK(socks[b])
    BY DEF ListInv, Memory
  <1>6. \A b \in Socks : b \in Allocated <=> socks[b].slot # NULL
    BY DEF Allocated
  <1> HIDE DEF a
  <1>7. ss[a] = NewSock(s) /\ DOMAIN ss = Socks
    BY <1>2 DEF Appended
  <1>8. ASSUME NEW b \in Socks \ {a}
        PROVE  /\ ss[b].slot = socks[b].slot
               /\ ss[b].mustClose = socks[b].mustClose
               /\ ss[b].next = IF socks[b].slot # NULL /\ socks[b].next = NULL
                               THEN a ELSE socks[b].next
               /\ SockOK(ss[b])
    <2>1. ss[b] = IF socks[b].slot # NULL /\ socks[b].next = NULL
                  THEN [socks[b] EXCEPT !.next = a] ELSE socks[b]
      BY <1>2, <1>4, <1>6, <1>8 DEF Appended
    <2>2. SockOK(socks[b])
      BY <1>5
    <2> HIDE DEF ss
    <2>3. CASE socks[b].slot # NULL /\ socks[b].next = NULL
      <3>1. ss[b] = [socks[b] EXCEPT !.next = a]
        BY <2>1, <2>3
      <3> QED BY <1>2, <2>2, <2>3, <3>1 DEF SockOK, SockFields
    <2>4. CASE ~(socks[b].slot # NULL /\ socks[b].next = NULL)
      <3>1. ss[b] = socks[b]
        BY <2>1, <2>4
      <3> QED BY <2>2, <2>4, <3>1
    <2> QED BY <2>3, <2>4
  <1>9. /\ ss[a].slot = s
        /\ ss[a].next = NULL
        /\ SockOK(ss[a])
    <2>1. /\ SockOK(NewSock(s))
          /\ NewSock(s).slot = s
          /\ NewSock(s).next = NULL
      BY DEF NewSock, SockOK, SockFields, ST_FLAGS
    <2> QED BY <1>7, <2>1
  <1> HIDE DEF ss
  <1>10. Linked(ss, llStart')
    <2>1. List(n + 1, [i \in 1 .. n + 1 |-> IF i = n + 1 THEN a ELSE L[i]], ss,
               IF llStart = NULL THEN a ELSE llStart)
      BY <1>0, <1>2, <1>3, <1>8, <1>9, ListAppend
    <2> QED BY <1>1, <2>1 DEF Linked
  <1>11. /\ slots'[s].priv = a
         /\ slots'[s].cgi = TRUE
         /\ slots'[s].conn = c
         /\ slots' \in [Slots -> SlotType]
         /\ \A t \in Slots \ {s} : slots'[t] = slots[t]
    BY <1>1, <1>2, <1>5 DEF SlotType
  <1>12. Memory(slots', ss)
    BY <1>7, <1>8, <1>9, <1>11 DEF Memory
  <1>13. Backward(slots', ss) /\ Serving(slots')
    <2> SUFFICES ASSUME NEW t \in Slots
                 PROVE  /\ slots'[t].priv # NULL => ss[slots'[t].priv].slot = t
                        /\ slots'[t].cgi => slots'[t].priv # NULL /\ slots'[t].conn # NULL
      BY Zenon DEF Backward, Serving
    <2>1. CASE t = s
      BY <1>0, <1>2, <1>9, <1>11, <2>1
    <2>2. CASE t # s
      <3>1. slots'[t] = slots[t]
        BY <1>11, <2>2
      <3>2. slots[t].cgi => slots[t].priv # NULL /\ slots[t].conn # NULL
        BY Zenon DEF ListInv, Owned, Serving
      <3>3. slots[t].priv # NULL => socks[slots[t].priv].slot = t
        BY Zenon DEF ListInv, Owned, Backward
      <3>4. slots[t].priv \in Socks \cup {NULL}
        BY <1>5 DEF SlotType
      <3>5. slots[t].priv # NULL => slots[t].priv \in Socks \ {a}
        BY <1>0, <1>2, <3>3, <3>4
      <3> QED BY <1>8, <3>1, <3>2, <3>3, <3>5, Zenon
    <2> QED BY <2>1, <2>2
  <1>14. Forward(slots', ss) /\ ToldToClose(slots', ss)
    <2> SUFFICES ASSUME NEW b \in Socks, ss[b].slot # NULL
                 PROVE  /\ slots'[ss[b].slot].priv = b
                        /\ slots'[ss[b].slot].cgi \/ ss[b].mustClose
      BY Zenon DEF Forward, ToldToClose
    <2>1. CASE b = a
      BY <1>9, <1>11, <2>1
    <2>2. CASE b # a
      <3>1. /\ ss[b].slot = socks[b].slot
            /\ ss[b].mustClose = socks[b].mustClose
        BY <1>8, <2>2
      <3>2. socks[b].slot \in Slots
        BY <1>5, <3>1 DEF SockOK
      <3>3. slots[socks[b].slot].priv = b
        BY <3>1 DEF ListInv, Owned, Forward
      <3>4. slots[socks[b].slot].cgi \/ socks[b].mustClose
        BY <3>1, Zenon DEF ListInv, Owned, ToldToClose
      <3>5. socks[b].slot # s
        BY <1>0, <1>1, <3>3
      <3>6. slots'[socks[b].slot] = slots[socks[b].slot]
        BY <1>11, <3>2, <3>5
      <3> QED BY <3>1, <3>3, <3>4, <3>6, Zenon
    <2> QED BY <2>1, <2>2
  <1> QED BY <1>1, <1>10, <1>12, <1>13, <1>14 DEF ListInv, Owned

\* A socket is taken out of the list.
LEMMA DisconSocketList ==
    ASSUME ListInv, NEW s \in Slots, DisconSocket(s)
    PROVE  ListInv'
  <1> DEFINE a == slots[s].priv
  <1> DEFINE ss == [Unlinked(a) EXCEPT ![a] = NewSock(NULL)]
  <1> DEFINE rest == IF llStart = a THEN socks[a].next ELSE llStart
  <1>0. NULL \notin Slots /\ NULL \notin Socks
    BY WebsocketAssumption DEF Slots, Socks
  <1>1. /\ slots' = [slots EXCEPT ![s].conn = NULL, ![s].cgi = FALSE, ![s].priv = NULL]
        /\ socks' = ss
        /\ llStart' = rest
    BY DEF DisconSocket
  <1>2. a \in Socks /\ socks[a].slot = s
    <2>1. a \in Socks \cup {NULL}
      BY DEF ListInv, Memory, SlotType
    <2>2. a # NULL
      BY Zenon DEF DisconSocket, ListInv, Owned, Serving
    <2>3. socks[a].slot = s
      BY <2>2 DEF ListInv, Owned, Backward
    <2> QED BY <2>1, <2>2, <2>3
  <1>3. PICK n, L : List(n, L, socks, llStart)
    BY DEF ListInv, Linked
  <1>4. Listed = Allocated
    BY <1>3, ListedEntries
  <1>5. /\ slots \in [Slots -> SlotType]
        /\ DOMAIN socks = Socks
        /\ \A b \in Socks : SockOK(socks[b])
    BY DEF ListInv, Memory
  <1>6. \A b \in Socks : b \in Allocated <=> socks[b].slot # NULL
    BY DEF Allocated
  <1>7. \A t \in Slots : slots[t].priv = a => t = s
    BY <1>0, <1>2 DEF ListInv, Owned, Backward
  <1>8. \A b \in Socks : socks[b].slot = s => b = a
    BY <1>0 DEF ListInv, Owned, Forward
  <1>9. /\ slots'[s].priv = NULL
        /\ slots'[s].cgi = FALSE
        /\ slots' \in [Slots -> SlotType]
        /\ \A t \in Slots \ {s} : slots'[t] = slots[t]
    BY <1>1, <1>5 DEF SlotType
  <1> HIDE DEF a
  <1>10. ss[a] = NewSock(NULL) /\ DOMAIN ss = Socks
    BY <1>2 DEF Unlinked
  <1>11. ASSUME NEW b \in Socks \ {a}
         PROVE  /\ ss[b].slot = socks[b].slot
                /\ ss[b].mustClose = socks[b].mustClose
                /\ ss[b].next = IF llStart # a /\ socks[b].slot # NULL /\ socks[b].next = a
                                THEN socks[a].next ELSE socks[b].next
                /\ SockOK(ss[b])
    <2> DEFINE Before == llStart # a /\ socks[b].slot # NULL /\ socks[b].next = a
    <2>1. ss[b] = IF Before THEN [socks[b] EXCEPT !.next = socks[a].next] ELSE socks[b]
      BY <1>2, <1>4, <1>6, <1>11 DEF Unlinked
    <2>2. SockOK(socks[b]) /\ SockOK(socks[a])
      BY <1>2, <1>5
    <2> HIDE DEF ss
    <2>3. CASE Before
      <3>1. ss[b] = [socks[b] EXCEPT !.next = socks[a].next]
        BY <2>1, <2>3
      <3> QED BY <2>2, <2>3, <3>1 DEF SockOK, SockFields
    <2>4. CASE ~Before
      <3>1. ss[b] = socks[b]
        BY <2>1, <2>4
      <3> QED BY <2>2, <2>4, <3>1
    <2> QED BY <2>3, <2>4
  <1>12. /\ ss[a].slot = NULL
         /\ SockOK(ss[a])
    <2>1. /\ SockOK(NewSock(NULL))
          /\ NewSock(NULL).slot = NULL
          /\ NewSock(NULL).next = NULL
      BY DEF NewSock, SockOK, SockFields, ST_FLAGS
    <2> QED BY <1>10, <2>1
  <1> HIDE DEF ss
  <1>13. Linked(ss, rest)
    BY <1>0, <1>2, <1>3, <1>11, <1>12, ListRemove DEF Linked
  <1>14. Memory(slots', ss)
    BY <1>9, <1>10, <1>11, <1>12 DEF Memory
  <1>15. Backward(slots', ss) /\ Serving(slots')
    <2> SUFFICES ASSUME NEW t \in Slots
                 PROVE  /\ slots'[t].priv # NULL => ss[slots'[t].priv].slot = t
                        /\ slots'[t].cgi => slots'[t].priv # NULL /\ slots'[t].conn # NULL
      BY Zenon DEF Backward, Serving
    <2>1. CASE t = s
      BY <1>9, <2>1
    <2>2. CASE t # s
      <3>1. slots'[t] = slots[t]
        BY <1>9, <2>2
      <3>2. slots[t].cgi => slots[t].priv # NULL /\ slots[t].conn # NULL
        BY Zenon DEF ListInv, Owned, Serving
      <3>3. slots[t].priv # NULL => socks[slots[t].priv].slot = t
        BY Zenon DEF ListInv, Owned, Backward
      <3>4. slots[t].priv \in Socks \cup {NULL}
        BY <1>5 DEF SlotType
      <3>5. slots[t].priv # NULL => slots[t].priv \in Socks \ {a}
        BY <1>7, <2>2, <3>4
      <3> QED BY <1>11, <3>1, <3>2, <3>3, <3>5, Zenon
    <2> QED BY <2>1, <2>2
  <1>16. Forward(slots', ss) /\ ToldToClose(slots', ss)
    <2> SUFFICES ASSUME NEW b \in Socks, ss[b].slot # NULL
                 PROVE  /\ slots'[ss[b].slot].priv = b
                        /\ slots'[ss[b].slot].cgi \/ ss[b].mustClose
      BY Zenon DEF Forward, ToldToClose
    <2>1. b # a
      BY <1>12
    <2>2. /\ ss[b].slot = socks[b].slot
          /\ ss[b].mustClose = socks[b].mustClose
      BY <1>11, <2>1
    <2>3. socks[b].slot \in Slots \ {s}
      BY <1>5, <1>8, <2>1, <2>2 DEF SockOK
    <2>4. slots[socks[b].slot].priv = b
      BY <2>2 DEF ListInv, Owned, Forward
    <2>5. slots[socks[b].slot].cgi \/ socks[b].mustClose
      BY <2>2, Zenon DEF ListInv, Owned, ToldToClose
    <2>6. slots'[socks[b].slot] = slots[socks[b].slot]
      BY <1>9, <2>3
    <2> QED BY <2>2, <2>4, <2>5, <2>6, Zenon
  <1> QED BY <1>1, <1>13, <1>14, <1>15, <1>16 DEF ListInv, Owned

\* The socket that a free slot still has was told to close: the slot is not taken.
LEMMA RequestStaleList ==
    ASSUME ListInv, NEW c \in Conns, NEW s \in Slots, slots[s].conn = NULL,
           RequestStale(c, s)
    PROVE  ListInv'
  <1> DEFINE a == slots[s].priv
  <1>0. NULL \notin Slots
    BY WebsocketAssumption DEF Slots
  <1>1. slots \in [Slots -> SlotType]
    BY DEF ListInv, Memory
  <1>2. slots[s].cgi = FALSE
    BY FreeIsDone
  <1>3. a # NULL /\ slots' = [slots EXCEPT ![s].conn = c, ![s].cgi = ~socks[a].mustClose]
    BY DEF RequestStale
  <1>4. a \in Socks /\ socks[a].slot = s
    <2>1. a \in Socks \cup {NULL}
      BY <1>1 DEF SlotType
    <2> QED BY <1>3, <2>1 DEF ListInv, Owned, Backward
  <1>5. socks[a].mustClose = TRUE
    <2>1. slots[s].cgi \/ socks[a].mustClose
      BY <1>0, <1>4 DEF ListInv, Owned, ToldToClose
    <2>2. socks[a].mustClose \in BOOLEAN
      BY <1>4 DEF ListInv, Memory, SockOK
    <2> QED BY <1>2, <2>1, <2>2
  <1>6. slots' = [slots EXCEPT ![s].conn = c, ![s].cgi = FALSE]
    BY <1>3, <1>5
  <1> HIDE DEF a
  <1>7. slots' \in [Slots -> SlotType]
    BY <1>1, <1>6, SlotChange
  <1>8. ASSUME NEW t \in Slots
        PROVE  /\ slots'[t].priv = slots[t].priv
               /\ slots'[t].cgi => slots[t].cgi /\ slots'[t].conn # NULL
               /\ slots[t].cgi => slots'[t].cgi \/ socks[slots[t].priv].mustClose
    <2>1. CASE t = s
      BY <1>1, <1>2, <1>6, <2>1 DEF SlotType
    <2>2. CASE t # s
      <3>1. slots'[t] = slots[t]
        BY <1>1, <1>6, <2>2
      <3>2. slots[t].cgi => slots[t].conn # NULL
        BY Zenon DEF ListInv, Owned, Serving
      <3> QED BY <3>1, <3>2
    <2> QED BY <2>1, <2>2
  <1> QED BY <1>7, <1>8, SlotStep DEF RequestStale

\* A connection that no CGI function serves goes.
LEMMA ConnGone ==
    ASSUME ListInv, UNCHANGED <<socks, llStart>>, NEW s \in Slots, ~slots[s].cgi,
           slots' = [slots EXCEPT ![s].conn = NULL]
    PROVE  ListInv'
  <1>1. slots \in [Slots -> SlotType]
    BY DEF ListInv, Memory
  <1>2. slots' \in [Slots -> SlotType]
    BY <1>1 DEF SlotType
  <1>3. ASSUME NEW t \in Slots
        PROVE  /\ slots'[t].priv = slots[t].priv
               /\ slots'[t].cgi => slots[t].cgi /\ slots'[t].conn # NULL
               /\ slots[t].cgi => slots'[t].cgi \/ socks[slots[t].priv].mustClose
    <2>1. CASE t = s
      BY <1>1, <2>1 DEF SlotType
    <2>2. CASE t # s
      <3>1. slots'[t] = slots[t]
        BY <1>1, <2>2
      <3>2. slots[t].cgi => slots[t].conn # NULL
        BY Zenon DEF ListInv, Owned, Serving
      <3> QED BY <3>1, <3>2
    <2> QED BY <2>1, <2>2
  <1> QED BY <1>2, <1>3, SlotStep

\* cgiWebsocket is done when its socket was told to close.
LEMMA SentSocketList ==
    ASSUME ListInv, UNCHANGED <<socks, llStart>>, NEW s \in Slots, SentSocket(s)
    PROVE  ListInv'
  <1> DEFINE a == slots[s].priv
  <1>1. slots \in [Slots -> SlotType] /\ slots[s].cgi
    BY DEF ListInv, Memory, SentSocket
  <1>2. slots' = [slots EXCEPT ![s].cgi = ~socks[a].mustClose]
    BY DEF SentSocket
  <1>3. slots' \in [Slots -> SlotType]
    BY <1>1, <1>2 DEF SlotType
  <1>4. ASSUME NEW t \in Slots
        PROVE  /\ slots'[t].priv = slots[t].priv
               /\ slots'[t].cgi => slots[t].cgi /\ slots'[t].conn # NULL
               /\ slots[t].cgi => slots'[t].cgi \/ socks[slots[t].priv].mustClose
    <2>1. slots[t].cgi => slots[t].conn # NULL
      BY Zenon DEF ListInv, Owned, Serving
    <2>2. CASE t = s
      <3>1. /\ slots'[s].priv = slots[s].priv
            /\ slots'[s].conn = slots[s].conn
            /\ slots'[s].cgi = ~socks[a].mustClose
        BY <1>1, <1>2 DEF SlotType
      <3> QED BY <1>1, <2>1, <2>2, <3>1
    <2>3. CASE t # s
      <3>1. slots'[t] = slots[t]
        BY <1>1, <1>2, <2>3
      <3> QED BY <2>1, <3>1
    <2> QED BY <2>2, <2>3
  <1> QED BY <1>3, <1>4, SlotStep

\* The bytes of a packet touch one socket, or none of the memory.
LEMMA RecvList ==
    ASSUME ListInv, UNCHANGED <<slots, llStart>>, NEW a, NEW vs,
           a \in Socks => Parsed(socks[a], vs), socks' = [socks EXCEPT ![a] = vs]
    PROVE  ListInv'
  <1>1. DOMAIN socks = Socks /\ \A b \in Socks : SockOK(socks[b])
    BY DEF ListInv, Memory
  <1>2. DOMAIN socks' = Socks
    BY <1>1
  <1>3. ASSUME NEW b \in Socks PROVE Parsed(socks[b], socks'[b])
    <2>1. CASE b = a
      BY <1>1, <2>1
    <2>2. CASE b # a
      <3>1. socks'[b] = socks[b]
        BY <1>1, <2>2
      <3> QED BY <1>1, <3>1 DEF Parsed
    <2> QED BY <2>1, <2>2
  <1> QED BY <1>2, <1>3, ParseStep

\* The list after the HTTP server calls the websocket code.
LEMMA StackList ==
    ASSUME ListInv, NEW c \in Conns, Stack(c)
    PROVE  ListInv'
  <1>1. CASE Request(c)
    <2> DEFINE s == Lowest(FreeSlots)
    <2>1. FreeSlots \in SUBSET Nat /\ FreeSlots # {}
      BY <1>1, WebsocketAssumption DEF Request, FreeSlots, Slots
    <2>2. \E i \in FreeSlots : \A j \in FreeSlots : i <= j
      BY <2>1, LeastOf
    <2>3. s \in FreeSlots
      BY <2>2 DEF Lowest
    <2>4. s \in Slots /\ slots[s].conn = NULL
      BY <2>3 DEF FreeSlots
    <2>5. RequestPlain(c, s) \/ RequestSocket(c, s) \/ RequestStale(c, s)
      BY <1>1 DEF Request
    <2> HIDE DEF s
    <2> QED BY <2>4, <2>5, RequestPlainList, RequestSocketList, RequestStaleList
  <1>2. CASE Sent(c)
    <2>1. PICK s \in Slots : SentClose(s) \/ SentSocket(s)
      BY <1>2 DEF Sent, SlotsOf
    <2>2. UNCHANGED <<socks, llStart>>
      BY <1>2 DEF Sent
    <2>3. CASE SentClose(s)
      BY <2>2, <2>3, ConnGone DEF SentClose
    <2> QED BY <2>1, <2>2, <2>3, SentSocketList
  <1>3. CASE Disconnect(c)
    <2>1. PICK s \in Slots : DisconSocket(s) \/ DisconDone(s)
      BY <1>3 DEF Disconnect, SlotsOf
    <2>2. CASE DisconDone(s)
      BY <2>2, ConnGone DEF DisconDone
    <2> QED BY <2>1, <2>2, DisconSocketList
  <1>4. CASE \E n \in 1 .. MaxPacket : Receive(c, n)
    BY <1>4, ListStutter DEF Receive
  <1> QED BY <1>1, <1>2, <1>3, <1>4 DEF Stack

\* Every step keeps the invariant.
LEMMA ListNext == ListInv /\ [Next]_vars => ListInv'
  <1> SUFFICES ASSUME ListInv, [Next]_vars PROVE ListInv'
    OBVIOUS
  <1>0. \A b \in Socks : SockOK(socks[b])
    BY DEF ListInv, Memory
  <1>1. CASE RecvHead
    <2> DEFINE vs == HeadByte(socks[Sock], Head(packet.bytes))
    <2>1. /\ socks' = [socks EXCEPT ![Sock] = vs]
          /\ socks[Sock].wsStatus # ST_PAYLOAD
          /\ UNCHANGED <<slots, llStart>>
      BY <1>1 DEF RecvHead
    <2>2. Sock \in Socks => Parsed(socks[Sock], vs)
      BY <1>0, <2>1, HeadParsed
    <2> HIDE DEF vs
    <2> QED BY <2>1, <2>2, RecvList
  <1>2. CASE RecvPayload
    <2> DEFINE vs == AfterPayload(socks[Sock], Len(packet.bytes))
    <2>1. /\ socks' = [socks EXCEPT ![Sock] = vs]
          /\ UNCHANGED <<slots, llStart>>
      BY <1>2 DEF RecvPayload
    <2>2. Sock \in Socks => Parsed(socks[Sock], vs)
      BY <1>0, PayloadParsed
    <2> HIDE DEF vs
    <2> QED BY <2>1, <2>2, RecvList
  <1>3. CASE RecvEnd
    BY <1>3, ListStutter DEF RecvEnd
  <1>4. CASE cgiWebsockBroadcast
    BY <1>4, ListStutter DEF cgiWebsockBroadcast
  <1>5. CASE \E c \in Conns : Stack(c)
    BY <1>5, StackList
  <1>6. CASE UNCHANGED vars
    BY <1>6, ListStutter DEF vars
  <1> QED BY <1>1, <1>2, <1>3, <1>4, <1>5, <1>6 DEF Next

\* Induction up to n over the members of a set.
LEMMA UpTo ==
    ASSUME NEW n \in Nat, NEW G, 0 \in G, \A i \in 1 .. n : i - 1 \in G => i \in G
    PROVE  \A i \in 0 .. n : i \in G
  <1> DEFINE Bad == (0 .. n) \ G
  <1>1. SUFFICES ASSUME Bad # {} PROVE FALSE
    OBVIOUS
  <1>2. Bad \in SUBSET Nat
    OBVIOUS
  <1>3. PICK m \in Bad : \A j \in Bad : m <= j
    <2> HIDE DEF Bad
    <2> QED BY <1>1, <1>2, LeastOf
  <1>4. m \in 1 .. n /\ m - 1 \in 0 .. n /\ ~(m <= m - 1)
    BY <1>3
  <1>5. m - 1 \in G
    BY <1>3, <1>4
  <1> QED BY <1>3, <1>4, <1>5

-----------------------------------------------------------------------------
(* Sequences put together *)

\* F[i] is what the first i members of g make together.
Concats(S, g, n, F) ==
    /\ F \in [0 .. n -> Seq(S)]
    /\ F[0] = <<>>
    /\ \A i \in 1 .. n : F[i] = F[i - 1] \o g[i]

\* There is such a function.
LEMMA ConcatsExist ==
    ASSUME NEW S, NEW n \in Nat, NEW g, \A i \in 1 .. n : g[i] \in Seq(S)
    PROVE  \E F : Concats(S, g, n, F)
  <1> DEFINE G == {m \in 0 .. n : \E F : Concats(S, g, m, F)}
  <1>1. 0 \in G
    <2>1. Concats(S, g, 0, [i \in 0 .. 0 |-> <<>>])
      BY DEF Concats
    <2> QED BY <2>1
  <1>2. ASSUME NEW m \in 1 .. n, m - 1 \in G
        PROVE  m \in G
    <2>1. PICK F : Concats(S, g, m - 1, F)
      BY <1>2
    <2> DEFINE H == [i \in 0 .. m |-> IF i = m THEN F[m - 1] \o g[m] ELSE F[i]]
    <2>2. /\ m - 1 \in 0 .. m - 1 /\ m # 0 /\ 0 \in 0 .. m - 1
          /\ \A i \in 0 .. m : i # m => i \in 0 .. m - 1
          /\ \A i \in 1 .. m : i - 1 \in 0 .. m - 1 /\ i - 1 # m /\ i - 1 \in 0 .. m
      OBVIOUS
    <2>3. F[m - 1] \o g[m] \in Seq(S)
      <3>1. F[m - 1] \in Seq(S) /\ g[m] \in Seq(S)
        BY <2>1, <2>2 DEF Concats
      <3> QED BY <3>1
    <2>4. H \in [0 .. m -> Seq(S)]
      BY <2>1, <2>2, <2>3 DEF Concats
    <2>5. H[0] = <<>>
      BY <2>1, <2>2 DEF Concats
    <2>6. ASSUME NEW i \in 1 .. m PROVE H[i] = H[i - 1] \o g[i]
      <3>1. H[i - 1] = F[i - 1]
        BY <2>2
      <3>2. CASE i = m
        <4>1. H[m] = F[m - 1] \o g[m]
          <5>1. m \in 0 .. m
            OBVIOUS
          <5> QED BY <5>1, Zenon
        <4>2. H[i] = F[i - 1] \o g[i]
          BY <3>2, <4>1, Zenon
        <4> QED BY <3>1, <4>2
      <3>3. CASE i # m
        <4>1. i \in 1 .. m - 1 /\ H[i] = F[i]
          BY <2>2, <3>3
        <4>2. F[i] = F[i - 1] \o g[i]
          BY <2>1, <4>1 DEF Concats
        <4> QED BY <3>1, <4>1, <4>2
      <3> QED BY <3>2, <3>3
    <2>7. Concats(S, g, m, H)
      BY <2>4, <2>5, <2>6 DEF Concats
    <2> QED BY <2>7
  <1> HIDE DEF G
  <1>3. \A i \in 0 .. n : i \in G
    BY <1>1, <1>2, UpTo
  <1>4. n \in G
    BY <1>3
  <1> QED BY <1>4 DEF G

\* FlattenSeq puts them together.
LEMMA FlattenConcats ==
    ASSUME NEW S, NEW g \in Seq(Seq(S)), NEW F, Concats(S, g, Len(g), F)
    PROVE  FlattenSeq(g) = F[Len(g)]
  <1> DEFINE n == Len(g)
  <1>0. n \in Nat
    OBVIOUS
  <1>1. CASE n = 0
    <2>1. g = <<>>
      BY <1>1, EmptySeq
    <2>2. FlattenSeq(g) = g
      BY <1>1 DEF FlattenSeq
    <2> QED BY <1>1, <2>1, <2>2 DEF Concats
  <1>2. CASE n # 0
    <2> DEFINE Step(f) == [i \in 1 .. n |-> IF i = 1 THEN g[i] ELSE f[i - 1] \o g[i]]
    <2> DEFINE H == [i \in 1 .. n |-> F[i]]
    <2>1. H = Step(H)
      <3> SUFFICES ASSUME NEW i \in 1 .. n
                   PROVE  F[i] = IF i = 1 THEN g[i] ELSE H[i - 1] \o g[i]
        OBVIOUS
      <3>1. F[i] = F[i - 1] \o g[i]
        BY DEF Concats
      <3>2. CASE i = 1
        <4>1. g[1] \in Seq(S)
          BY <1>0, <1>2
        <4>2. F[0] = <<>> /\ F[1] = F[0] \o g[1]
          <5>1. F[0] = <<>>
            BY DEF Concats
          <5>2. F[1] = F[1 - 1] \o g[1]
            BY <3>1, <3>2, Zenon
          <5>3. 1 - 1 = 0
            OBVIOUS
          <5> QED BY <5>1, <5>2, <5>3, Zenon
        <4> QED BY <3>2, <4>1, <4>2, ConcatEmptySeq
      <3>3. CASE i # 1
        <4>1. i - 1 \in 1 .. n
          BY <3>3
        <4> QED BY <3>1, <3>3, <4>1
      <3> QED BY <3>2, <3>3
    <2> DEFINE C == CHOOSE f : f = Step(f)
    <2>2. FlattenSeq(g) = C[n]
      BY <1>0, <1>2 DEF FlattenSeq
    <2>3. C = Step(C)
      BY <2>1
    <2> HIDE DEF C
    <2> DEFINE G == {0} \cup {i \in 1 .. n : C[i] = F[i]}
    <2>4. 0 \in G
      OBVIOUS
    <2>5. ASSUME NEW i \in 1 .. n, i - 1 \in G PROVE i \in G
      <3>1. C[i] = IF i = 1 THEN g[i] ELSE C[i - 1] \o g[i]
        BY <2>3
      <3>2. F[i] = IF i = 1 THEN g[i] ELSE F[i - 1] \o g[i]
        <4>1. H[i] = IF i = 1 THEN g[i] ELSE H[i - 1] \o g[i]
          BY <2>1
        <4>2. i # 1 => i - 1 \in 1 .. n
          OBVIOUS
        <4> QED BY <4>1, <4>2
      <3>3. i # 1 => C[i - 1] = F[i - 1]
        BY <2>5
      <3> QED BY <3>1, <3>2, <3>3
    <2> HIDE DEF G
    <2>6. \A i \in 0 .. n : i \in G
      BY <1>0, <2>4, <2>5, UpTo
    <2>7. n \in G
      BY <1>0, <2>6
    <2> QED BY <1>2, <2>2, <2>7 DEF G
  <1> QED BY <1>1, <1>2

-----------------------------------------------------------------------------
(* How far the parser has come in a stream *)

\* The length of the head of a frame, of the whole of it, and its first byte.
HeadLen(f) == 2 + f.ext + (IF f.masked THEN 4 ELSE 0)
Total(f) == HeadLen(f) + Len(f.data)
Flags(f) == (IF f.fin THEN 128 ELSE 0) + f.op

\* The parser has read p bytes of frame f.  It is in the length: what it has of it
\* is the length without the bytes that are still to come.
InLength(ws, f, p) ==
    /\ p <= 1 + f.ext
    /\ ws.wsStatus = p
    /\ p >= 2 => ws.len = Shifted(Len(f.data), 2 + f.ext - p)

\* It is in the mask: it has as much of it as it has read.
InMask(ws, f, p) ==
    /\ 2 + f.ext <= p /\ p < HeadLen(f)
    /\ ws.wsStatus = ST_MASK1 + (p - (2 + f.ext)) /\ ws.len = Len(f.data)
    /\ \A i \in 1 .. 4 : i <= p - (2 + f.ext) => ws.mask[i] = f.mask[i]
InHead(ws, f, p) == (InLength(ws, f, p) \/ InMask(ws, f, p)) /\ ws.maskCtr = 0 /\ ~ws.frameCont

\* It is in the data: fr.len counts what is to come, maskCtr what has been, in one
\* byte.
InData(ws, f, p) ==
    /\ HeadLen(f) <= p
    /\ ws.wsStatus = ST_PAYLOAD /\ ws.len = Total(f) - p
    /\ f.masked => \A i \in 1 .. 4 : ws.mask[i] = f.mask[i]
    /\ ws.maskCtr = (p - HeadLen(f)) % 256 /\ (ws.frameCont <=> HeadLen(f) < p)
Inside(ws, f, p) ==
    /\ ws.flags = Flags(f)
    /\ p >= 2 => ws.len8 = LengthBytes(f)[1]
    /\ InHead(ws, f, p) \/ InData(ws, f, p)

\* n bytes of stream q have been read: the parser is between two frames or in one.
Between(ws, q, n) == ws.wsStatus = ST_FLAGS /\ \E k \in 0 .. Len(q) : n = Ends[q][k]
Within(ws, q, n) ==
    \E k \in DOMAIN q :
        /\ Ends[q][k - 1] < n /\ n < Ends[q][k] /\ q[k].data # <<>>
        /\ Inside(ws, q[k], n - Ends[q][k - 1])
Agrees(ws, q, n) == Between(ws, q, n) \/ Within(ws, q, n)

\* What has been handled of what a client has sent, and what came of it.
Left(c) == IF packet.conn = c THEN Len(packet.bytes) ELSE 0
Handled(c) == sent[c] - Left(c)
GivenSoFar(c) ==
    /\ got[c] = Expected(stream[c], Handled(c))
    /\ pongs[c] = Cardinality(Pinged(stream[c], Handled(c)))

\* A connection has one slot, and one that asked for a websocket has a socket.
OneSlot ==
    /\ \A s, t \in Slots : slots[s].conn # NULL /\ slots[s].conn = slots[t].conn => s = t
    /\ \A s \in Slots : slots[s].conn # NULL => state[slots[s].conn] \in {"open", "socket"}
    /\ \A s \in Slots :
          slots[s].conn # NULL /\ state[slots[s].conn] = "socket" => slots[s].priv # NULL
    /\ \A c \in Conns :
          state[c] = "socket" => stream[c] # NULL /\ \E s \in Slots : slots[s].conn = c
    /\ \A c \in Conns : state[c] = "none" => sent[c] = 0

\* The parser of a clean connection is where its stream is.
Following ==
    \A c \in Conns : clean[c] =>
        /\ GivenSoFar(c)
        /\ \A s \in Slots : slots[s].conn = c /\ state[c] = "socket" =>
              Agrees(socks[slots[s].priv], stream[c], Handled(c))

\* The packet that is handled holds the last bytes its client has sent.
PacketOK ==
    /\ packet.conn \in Conns \cup {NULL}
    /\ packet.conn = NULL => packet = NoPacket
    /\ \A c \in Conns : packet.conn = c =>
          /\ state[c] = "socket"
          /\ clean[c] =>
                /\ Left(c) \in 0 .. sent[c] /\ sent[c] <= Len(Bytes[stream[c]])
                /\ packet.bytes = SubSeq(Bytes[stream[c]], Handled(c) + 1, sent[c])
                /\ packet.bytes # <<>> => InOneFrame(stream[c], Handled(c), sent[c])

\* As much of the types as the proof needs.
Shapes ==
    /\ stream \in Streams
    /\ DOMAIN sent = Conns /\ \A c \in Conns : sent[c] \in Nat
    /\ DOMAIN got = Conns /\ DOMAIN pongs = Conns /\ DOMAIN clean = Conns /\ DOMAIN state = Conns
    /\ DOMAIN packet = {"conn", "bytes", "out"}
    /\ \A a \in Socks : DOMAIN socks[a].mask = 1 .. 4

\* The inductive invariant behind Delivered, next to ListInv.
FrameInv == OneSlot /\ Following /\ PacketOK /\ Shapes

-----------------------------------------------------------------------------
(* Bytes *)

\* The bit of value v.
Bit(a, v) == (a \div v) % 2

\* A byte is made of its bits.
LEMMA BitsOfByte ==
    ASSUME NEW a \in Byte
    PROVE  /\ \A v \in {1, 2, 4, 8, 16, 32, 64, 128} : Bit(a, v) \in {0, 1}
           /\ a = Bit(a, 1) + Bit(a, 2) * 2 + Bit(a, 4) * 4 + Bit(a, 8) * 8 + Bit(a, 16) * 16
                + Bit(a, 32) * 32 + Bit(a, 64) * 64 + Bit(a, 128) * 128
  BY DEF Byte, Bit

\* Eight bits make a byte, and are its bits.
LEMMA ByteOfBits ==
    ASSUME NEW b0 \in {0, 1}, NEW b1 \in {0, 1}, NEW b2 \in {0, 1}, NEW b3 \in {0, 1},
           NEW b4 \in {0, 1}, NEW b5 \in {0, 1}, NEW b6 \in {0, 1}, NEW b7 \in {0, 1},
           NEW a, a = b0 * 1 + b1 * 2 + b2 * 4 + b3 * 8 + b4 * 16 + b5 * 32 + b6 * 64 + b7 * 128
    PROVE  /\ a \in Byte
           /\ Bit(a, 1) = b0 /\ Bit(a, 2) = b1 /\ Bit(a, 4) = b2 /\ Bit(a, 8) = b3
           /\ Bit(a, 16) = b4 /\ Bit(a, 32) = b5 /\ Bit(a, 64) = b6 /\ Bit(a, 128) = b7
  BY DEF Byte, Bit

\* The operator ^ on one bit; twice, it does nothing.
LEMMA XorBits ==
    ASSUME NEW a \in Byte, NEW b \in Byte, NEW v \in {1, 2, 4, 8, 16, 32, 64, 128}
    PROVE  /\ ((a \div v) + (b \div v)) % 2 = (Bit(a, v) + Bit(b, v)) % 2
           /\ (Bit(a, v) + Bit(b, v)) % 2 \in {0, 1}
           /\ (((Bit(a, v) + Bit(b, v)) % 2) + Bit(b, v)) % 2 = Bit(a, v)
  BY DEF Byte, Bit

\* What is masked twice is what it was.
LEMMA XorTwice ==
    ASSUME NEW a \in Byte, NEW b \in Byte
    PROVE  Xor(a, b) \in Byte /\ Xor(Xor(a, b), b) = a
  <1> DEFINE V == {1, 2, 4, 8, 16, 32, 64, 128}
             X(v) == (Bit(a, v) + Bit(b, v)) % 2
             x == Xor(a, b)
  <1>1. x = X(1) * 1 + X(2) * 2 + X(4) * 4 + X(8) * 8 + X(16) * 16 + X(32) * 32
          + X(64) * 64 + X(128) * 128
    BY XorBits DEF Xor, XorBit
  <1>2. \A v \in V : X(v) \in {0, 1}
    BY XorBits
  <1> HIDE DEF X, x
  <1>3. x \in Byte /\ \A v \in V : Bit(x, v) = X(v)
    BY <1>1, <1>2, ByteOfBits
  <1>4. \A v \in V : (Bit(x, v) + Bit(b, v)) % 2 = Bit(a, v)
    BY <1>3, XorBits DEF X
  <1>5. \A v \in V : ((x \div v) + (b \div v)) % 2 = Bit(a, v)
    BY <1>3, <1>4, XorBits
  <1>6. Xor(x, b) = Bit(a, 1) * 1 + Bit(a, 2) * 2 + Bit(a, 4) * 4 + Bit(a, 8) * 8
                  + Bit(a, 16) * 16 + Bit(a, 32) * 32 + Bit(a, 64) * 64 + Bit(a, 128) * 128
    BY <1>5 DEF Xor, XorBit
  <1>7. \A v \in V : Bit(a, v) \in {0, 1}
    BY BitsOfByte
  <1>8. Xor(x, b) = a
    BY <1>6, <1>7, BitsOfByte
  <1> QED BY <1>3, <1>8 DEF x

-----------------------------------------------------------------------------
(* Frames on the line *)

\* The fields of a frame, and how long it is.
LEMMA FrameFields ==
    ASSUME NEW f \in FrameType
    PROVE  /\ f.op \in 0 .. 15 /\ f.fin \in BOOLEAN /\ f.masked \in BOOLEAN
           /\ f.mask \in [1 .. 4 -> Byte] /\ f.mask \in Seq(Byte) /\ Len(f.mask) = 4
           /\ f.ext \in {0, 2, 8} /\ f.data \in Seq(Byte) /\ Len(f.data) \in Nat
           /\ Len(f.data) < LenMod
           /\ HeadLen(f) \in Nat /\ HeadLen(f) >= 2 + f.ext /\ Total(f) = HeadLen(f) + Len(f.data)
           /\ Total(f) \in Nat
  <1>1. f \in [op : 0 .. 15, fin : BOOLEAN, masked : BOOLEAN, mask : [1 .. 4 -> Byte],
               ext : {0, 2, 8}, data : Seq(Byte)]
    BY Zenon DEF FrameType
  <1>2. f.mask \in [1 .. 4 -> Byte] /\ f.ext \in {0, 2, 8} /\ f.data \in Seq(Byte)
    BY <1>1
  <1>3. f.op \in 0 .. 15 /\ f.fin \in BOOLEAN /\ f.masked \in BOOLEAN
    BY <1>1
  <1>4. f.mask \in Seq(Byte) /\ Len(f.mask) = 4
    <2>1. PICK m \in Nat : m = 4
      OBVIOUS
    <2>2. f.mask \in [1 .. m -> Byte]
      BY <1>2, <2>1
    <2>3. f.mask \in Seq(Byte)
      BY <2>2, SeqDef
    <2>4. DOMAIN f.mask = 1 .. m
      BY <2>2
    <2>5. Len(f.mask) = m
      <3> DEFINE l == Len(f.mask)
      <3>1. l \in Nat /\ 1 .. l = 1 .. m
        BY <2>3, <2>4, LenProperties
      <3> HIDE DEF l
      <3>2. l = m
        BY <3>1
      <3> QED BY <3>2 DEF l
    <2> QED BY <2>1, <2>3, <2>5
  <1>5. Len(f.data) \in Nat
    BY <1>2
  <1>6. Len(f.data) < LenMod
    BY Zenon DEF FrameType
  <1>7. HeadLen(f) \in Nat /\ HeadLen(f) >= 2 + f.ext
    BY <1>2, <1>3 DEF HeadLen
  <1>8. Total(f) = HeadLen(f) + Len(f.data)
    BY DEF Total
  <1>9. Total(f) \in Nat
    <2> HIDE DEF HeadLen, Total
    <2> QED BY <1>5, <1>7, <1>8
  <1> QED BY <1>2, <1>3, <1>4, <1>5, <1>6, <1>7, <1>8, <1>9, Zenon

\* The length field: its first byte, and what has been read of the length after
\* each of the others.
LEMMA LengthField ==
    ASSUME NEW f \in FrameType
    PROVE  /\ LengthBytes(f) \in Seq(Byte) /\ Len(LengthBytes(f)) = 1 + f.ext
           /\ LengthBytes(f)[1] >= 128 <=> f.masked
           /\ f.ext = 0 => LengthBytes(f)[1] % 128 = Len(f.data) /\ Len(f.data) < 126
           /\ f.ext = 2 => LengthBytes(f)[1] % 128 = 126
           /\ f.ext = 8 => LengthBytes(f)[1] % 128 = 127
           /\ f.ext > 0 => Shifted(Len(f.data), f.ext) = 0
           /\ \A i \in 1 .. f.ext :
                 /\ Shifted(Len(f.data), f.ext - i) =
                        Shifted(Len(f.data), f.ext + 1 - i) * 256 + LengthBytes(f)[1 + i]
                 /\ Shifted(Len(f.data), f.ext - i) \in 0 .. Len(f.data)
  <1> DEFINE n == Len(f.data)
             B == LengthBytes(f)
  <1>1. f.ext \in {0, 2, 8} /\ n \in Nat /\ f.masked \in BOOLEAN
    BY FrameFields
  <1>2. /\ f.ext = 0 => n <= 125
        /\ f.ext = 2 => Shifted(n, 1) \in Byte
        /\ f.ext = 8 => Shifted(n, 3) \in Byte
    BY Zenon DEF FrameType
  <1> HIDE DEF n
  <1>3. ASSUME NEW r \in Nat
        PROVE  /\ Shifted(n, r) \in 0 .. n
               /\ r \in 0 .. 2 => Shifted(n, r) = Shifted(n, r + 1) * 256 + (Shifted(n, r) % 256)
               /\ r >= 4 => Shifted(n, r) = 0
    BY <1>1 DEF Shifted
  <1>4. /\ f.ext = 0 => LengthCode(f) = n
        /\ f.ext = 2 => LengthCode(f) = 126
        /\ f.ext = 8 => LengthCode(f) = 127
        /\ LengthCode(f) \in 0 .. 127
    <2>1. CASE f.ext = 0
      <3>1. LengthCode(f) = n
        BY <2>1 DEF LengthCode, n
      <3> QED BY <1>1, <1>2, <2>1, <3>1
    <2>2. CASE f.ext = 2
      <3>1. LengthCode(f) = 126
        BY <2>2 DEF LengthCode
      <3> QED BY <2>2, <3>1
    <2>3. CASE f.ext = 8
      <3>1. LengthCode(f) = 127
        BY <2>3 DEF LengthCode
      <3> QED BY <2>3, <3>1
    <2> QED BY <1>1, <2>1, <2>2, <2>3
  <1>5. /\ DOMAIN B = 1 .. 1 + f.ext
        /\ f.masked => B[1] = 128 + LengthCode(f)
        /\ ~f.masked => B[1] = LengthCode(f)
        /\ \A i \in 1 .. f.ext : B[1 + i] = Shifted(n, f.ext - i) % 256
    <2>1. DOMAIN B = 1 .. 1 + f.ext
      BY DEF LengthBytes
    <2>2. 1 \in 1 .. 1 + f.ext /\ \A i \in 1 .. f.ext : 1 + i \in 1 .. 1 + f.ext /\ 1 + i # 1
      BY <1>1
    <2>3. B[1] = (IF f.masked THEN 128 ELSE 0) + LengthCode(f)
      BY <2>2 DEF LengthBytes
    <2>4. f.masked => B[1] = 128 + LengthCode(f)
      BY <2>3
    <2>5. ~f.masked => B[1] = LengthCode(f)
      BY <1>4, <2>3
    <2>6. ASSUME NEW i \in 1 .. f.ext PROVE B[1 + i] = Shifted(n, f.ext - i) % 256
      <3>1. B[1 + i] = Shifted(n, 1 + f.ext - (1 + i)) % 256
        BY <2>2 DEF LengthBytes, n
      <3>2. 1 + f.ext - (1 + i) = f.ext - i
        BY <1>1
      <3> QED BY <3>1, <3>2
    <2> QED BY <2>1, <2>4, <2>5, <2>6
  <1>14. (B[1] \in Byte) /\ (B[1] >= 128 <=> f.masked) /\ B[1] % 128 = LengthCode(f)
    <2> DEFINE x == LengthCode(f)
               b == B[1]
    <2>1. x \in 0 .. 127
      BY <1>4
    <2>2. CASE f.masked
      <3>1. b = 128 + x
        BY <1>5, <2>2
      <3> HIDE DEF x, b
      <3>2. b \in 0 .. 255 /\ b >= 128 /\ b % 128 = x
        BY <2>1, <3>1
      <3> QED BY <2>2, <3>2 DEF x, b, Byte
    <2>3. CASE ~f.masked
      <3>1. b = x
        BY <1>5, <2>3
      <3> HIDE DEF x, b
      <3>2. b \in 0 .. 255 /\ ~(b >= 128) /\ b % 128 = x
        BY <2>1, <3>1
      <3> QED BY <2>3, <3>2 DEF x, b, Byte
    <2> QED BY <2>2, <2>3
  <1>6. \A i \in 1 .. 1 + f.ext : B[i] \in Byte
    <2>1. B[1] \in Byte
      BY <1>14
    <2>2. ASSUME NEW i \in 1 .. 1 + f.ext, i # 1 PROVE B[i] \in Byte
      <3>1. i - 1 \in 1 .. f.ext /\ 1 + (i - 1) = i /\ f.ext - (i - 1) \in Nat
        BY <1>1, <2>2
      <3>2. B[i] = Shifted(n, f.ext - (i - 1)) % 256
        BY <1>5, <3>1
      <3>3. Shifted(n, f.ext - (i - 1)) \in 0 .. n
        BY <1>3, <3>1
      <3> QED BY <1>1, <3>2, <3>3 DEF Byte
    <2> QED BY <2>1, <2>2
  <1>7. B \in Seq(Byte) /\ Len(B) = 1 + f.ext
    <2>1. B \in [1 .. 1 + f.ext -> Byte]
      BY <1>5, <1>6 DEF LengthBytes
    <2>2. 1 + f.ext \in Nat
      BY <1>1
    <2>3. B \in Seq(Byte)
      BY <2>1, <2>2, SeqDef
    <2> QED BY <1>5, <2>2, <2>3, LenProperties
  <1>8. B[1] >= 128 <=> f.masked
    BY <1>14, Zenon
  <1>9. B[1] % 128 = LengthCode(f)
    BY <1>14
  <1>10. /\ f.ext = 2 => Shifted(n, 1) < 256 /\ Shifted(n, 2) = 0
         /\ f.ext = 8 => Shifted(n, 3) < 256
    BY <1>1, <1>2 DEF Byte, Shifted
  <1>11. ASSUME NEW i \in 1 .. f.ext
         PROVE  /\ Shifted(n, f.ext - i) = Shifted(n, f.ext + 1 - i) * 256 + B[1 + i]
                /\ Shifted(n, f.ext - i) \in 0 .. n
    <2> DEFINE r == f.ext - i
    <2>1. r \in Nat /\ f.ext + 1 - i = r + 1 /\ r + 1 \in Nat
      BY <1>1
    <2>2. B[1 + i] = Shifted(n, r) % 256
      BY <1>5
    <2>3. (Shifted(n, r) \in 0 .. n) /\ Shifted(n, r + 1) \in 0 .. n
      BY <1>3, <2>1
    <2> HIDE DEF r
    <2>4. r \in 0 .. 2 => Shifted(n, r) = Shifted(n, r + 1) * 256 + B[1 + i]
      BY <1>3, <2>1, <2>2
    <2>5. ASSUME r = 3 PROVE Shifted(n, r) = Shifted(n, r + 1) * 256 + B[1 + i]
      <3>1. f.ext = 8
        BY <1>1, <2>5 DEF r
      <3>2. Shifted(n, 3) < 256 /\ Shifted(n, 4) = 0 /\ r + 1 = 4
        BY <1>3, <1>10, <2>5, <3>1
      <3>3. Shifted(n, r) < 256 /\ Shifted(n, r + 1) = 0
        BY <2>5, <3>2
      <3> DEFINE x == Shifted(n, r)
                 y == Shifted(n, r + 1)
                 b == B[1 + i]
      <3>4. b = x % 256 /\ x \in Nat /\ x < 256 /\ y = 0
        BY <1>1, <2>2, <2>3, <3>3
      <3> HIDE DEF x, y, b
      <3>5. x = y * 256 + b
        BY <3>4
      <3> QED BY <3>5 DEF x, y, b
    <2>6. r >= 4 => Shifted(n, r) = Shifted(n, r + 1) * 256 + B[1 + i]
      <3>1. r >= 4 => Shifted(n, r) = 0 /\ Shifted(n, r + 1) = 0
        BY <1>3, <2>1
      <3> QED BY <2>2, <3>1
    <2>7. Shifted(n, r) = Shifted(n, r + 1) * 256 + B[1 + i]
      BY <2>1, <2>4, <2>5, <2>6
    <2>8. Shifted(n, f.ext - i) = Shifted(n, r + 1) * 256 + B[1 + i]
      BY <2>7 DEF r
    <2>9. Shifted(n, f.ext - i) \in 0 .. n
      BY <2>3 DEF r
    <2> QED BY <2>1, <2>8, <2>9
  <1>12. f.ext > 0 => Shifted(n, f.ext) = 0
    BY <1>1, <1>3, <1>10
  <1>13. /\ f.ext = 0 => B[1] % 128 = n /\ n < 126
         /\ f.ext = 2 => B[1] % 128 = 126
         /\ f.ext = 8 => B[1] % 128 = 127
    BY <1>2, <1>4, <1>9
  <1> QED BY <1>7, <1>8, <1>11, <1>12, <1>13 DEF n

\* The first byte of a frame.
LEMMA FlagsByte ==
    ASSUME NEW f \in FrameType
    PROVE  /\ Flags(f) \in Byte /\ Flags(f) % 16 = f.op
           /\ Flags(f) < 128 <=> ~f.fin
  <1>1. f.op \in 0 .. 15 /\ f.fin \in BOOLEAN
    BY FrameFields
  <1>2. PICK x : x = f.op
    OBVIOUS
  <1>3. CASE f.fin
    <2>1. Flags(f) = 128 + x
      BY <1>2, <1>3 DEF Flags
    <2>2. 128 + x \in Byte /\ (128 + x) % 16 = x /\ ~(128 + x < 128)
      BY <1>1, <1>2 DEF Byte
    <2> QED BY <1>2, <1>3, <2>1, <2>2
  <1>4. CASE ~f.fin
    <2>1. Flags(f) = x
      BY <1>1, <1>2, <1>4 DEF Flags
    <2>2. x \in Byte /\ x % 16 = x /\ x < 128
      BY <1>1, <1>2 DEF Byte
    <2> QED BY <1>2, <1>4, <2>1, <2>2
  <1> QED BY <1>3, <1>4

\* The data as the client sends it.
LEMMA PayloadBytes ==
    ASSUME NEW f \in FrameType
    PROVE  /\ Payload(f) \in Seq(Byte) /\ Len(Payload(f)) = Len(f.data)
           /\ \A i \in 1 .. Len(f.data) :
                 /\ Payload(f)[i] \in Byte
                 /\ f.masked => /\ MaskAt(f, i) \in Byte
                                /\ Xor(Payload(f)[i], MaskAt(f, i)) = f.data[i]
  <1> DEFINE n == Len(f.data)
             P == Payload(f)
  <1>1. f.data \in Seq(Byte) /\ n \in Nat /\ f.masked \in BOOLEAN /\ f.mask \in [1 .. 4 -> Byte]
    BY FrameFields
  <1>2. DOMAIN f.data = 1 .. n /\ \A i \in 1 .. n : f.data[i] \in Byte
    BY <1>1, LenProperties
  <1> HIDE DEF n
  <1>3. ASSUME NEW i \in 1 .. n
        PROVE  /\ P[i] \in Byte
               /\ MaskAt(f, i) \in Byte
               /\ f.masked => Xor(P[i], MaskAt(f, i)) = f.data[i]
    <2>1. MaskAt(f, i) \in Byte
      <3>1. ((i - 1) % 4) + 1 \in 1 .. 4
        BY <1>1
      <3> QED BY <1>1, <3>1 DEF MaskAt
    <2>2. f.data[i] \in Byte
      BY <1>2
    <2>3. CASE f.masked
      <3>1. P[i] = Xor(f.data[i], MaskAt(f, i))
        BY <1>2, <2>3 DEF Payload
      <3> QED BY <2>1, <2>2, <3>1, XorTwice
    <2>4. CASE ~f.masked
      <3>1. P[i] = f.data[i]
        BY <1>2, <2>4 DEF Payload
      <3> QED BY <2>1, <2>2, <2>4, <3>1
    <2> QED BY <2>3, <2>4
  <1>4. DOMAIN P = 1 .. n /\ P = [i \in 1 .. n |-> P[i]]
    BY <1>2 DEF Payload
  <1> HIDE DEF P
  <1>5. P \in [1 .. n -> Byte]
    BY <1>3, <1>4
  <1>6. P \in Seq(Byte)
    BY <1>1, <1>5, SeqDef
  <1>7. Len(P) = n
    <2> DEFINE l == Len(P)
    <2>1. l \in Nat /\ 1 .. l = 1 .. n
      BY <1>4, <1>6, LenProperties
    <2> HIDE DEF l
    <2>2. l = n
      BY <1>1, <2>1
    <2> QED BY <2>2 DEF l
  <1> QED BY <1>3, <1>6, <1>7 DEF n, P

\* What is in two sequences put together.
LEMMA ConcatOf ==
    ASSUME NEW S, NEW x \in Seq(S), NEW y \in Seq(S), NEW m, m = Len(x), NEW n, n = Len(y)
    PROVE  /\ x \o y \in Seq(S) /\ Len(x \o y) = m + n
           /\ \A i \in 1 .. m + n : (x \o y)[i] = IF i <= m THEN x[i] ELSE y[i - m]
  BY ConcatProperties

\* What a concatenation holds determines it.
LEMMA ConcatIs ==
    ASSUME NEW S, NEW x \in Seq(S), NEW y \in Seq(S), NEW z, z = x \o y
    PROVE  /\ z \in Seq(S) /\ Len(z) = Len(x) + Len(y) /\ Len(x) \in Nat /\ Len(y) \in Nat
           /\ \A i \in 1 .. Len(x) + Len(y) :
                 z[i] = IF i <= Len(x) THEN x[i] ELSE y[i - Len(x)]
  BY ConcatProperties

\* The bytes of a frame, one after the other.
LEMMA EncodedBytes ==
    ASSUME NEW f \in FrameType
    PROVE  /\ Encoded(f) \in Seq(Byte) /\ Len(Encoded(f)) = Total(f)
           /\ Encoded(f)[1] = Flags(f)
           /\ \A i \in 1 .. 1 + f.ext : Encoded(f)[1 + i] = LengthBytes(f)[i]
           /\ f.masked => \A i \in 1 .. 4 : Encoded(f)[2 + f.ext + i] = f.mask[i]
           /\ \A i \in 1 .. Len(f.data) : Encoded(f)[HeadLen(f) + i] = Payload(f)[i]
  <1> DEFINE A == << Flags(f) >>
             B == LengthBytes(f)
             C == IF f.masked THEN f.mask ELSE <<>>
             D == Payload(f)
             H == (A \o B) \o C
             m == IF f.masked THEN 4 ELSE 0
  <1>1. /\ A \in Seq(Byte) /\ Len(A) = 1 /\ A[1] = Flags(f)
        /\ B \in Seq(Byte) /\ Len(B) = 1 + f.ext
        /\ D \in Seq(Byte) /\ Len(D) = Len(f.data)
    BY FlagsByte, LengthField, PayloadBytes
  <1>2. f.ext \in {0, 2, 8} /\ Len(f.data) \in Nat
    BY FrameFields
  <1>3. C \in Seq(Byte) /\ Len(C) = m /\ m \in {0, 4} /\ (f.masked => C = f.mask /\ m = 4)
    <2>1. CASE f.masked
      BY <2>1, FrameFields
    <2>2. CASE ~f.masked
      BY <2>2, EmptySeq
    <2> QED BY <2>1, <2>2
  <1>4. HeadLen(f) = 2 + f.ext + m /\ Total(f) = 2 + f.ext + m + Len(f.data)
    BY DEF HeadLen, Total
  <1>5. Encoded(f) = H \o D
    BY DEF Encoded, FrameHead, Flags
  <1> HIDE DEF A, B, C, D, m
  <1>6. /\ A \o B \in Seq(Byte) /\ Len(A \o B) = 2 + f.ext
        /\ (A \o B)[1] = Flags(f)
        /\ \A i \in 1 .. 1 + f.ext : (A \o B)[1 + i] = B[i]
    <2>1. /\ A \o B \in Seq(Byte) /\ Len(A \o B) = 1 + (1 + f.ext)
          /\ \A i \in 1 .. 1 + (1 + f.ext) :
                (A \o B)[i] = IF i <= 1 THEN A[i] ELSE B[i - 1]
      <3>1. PICK u, v : u = 1 /\ v = 1 + f.ext
        OBVIOUS
      <3>2. A \in Seq(Byte) /\ B \in Seq(Byte) /\ u = Len(A) /\ v = Len(B)
        BY <1>1, <3>1
      <3> HIDE DEF H
      <3>3. /\ A \o B \in Seq(Byte) /\ Len(A \o B) = u + v
            /\ \A i \in 1 .. u + v : (A \o B)[i] = IF i <= u THEN A[i] ELSE B[i - u]
        BY <3>2, ConcatOf
      <3> QED BY <3>1, <3>3
    <2>2. (A \o B)[1] = Flags(f)
      BY <1>1, <1>2, <2>1
    <2>3. ASSUME NEW i \in 1 .. 1 + f.ext PROVE (A \o B)[1 + i] = B[i]
      <3>1. 1 + i \in 1 .. 1 + (1 + f.ext) /\ ~(1 + i <= 1) /\ (1 + i) - 1 = i
        BY <1>2
      <3> QED BY <2>1, <3>1
    <2> QED BY <1>2, <2>1, <2>2, <2>3
  <1> DEFINE AB == A \o B
  <1> HIDE DEF AB
  <1>7. /\ H \in Seq(Byte) /\ Len(H) = 2 + f.ext + m
        /\ \A i \in 1 .. 2 + f.ext : H[i] = AB[i]
        /\ \A i \in 1 .. m : H[2 + f.ext + i] = C[i]
    <2>0. H = AB \o C /\ AB \in Seq(Byte) /\ Len(AB) = 2 + f.ext
      BY <1>6 DEF AB
    <2> HIDE DEF H
    <2>1. /\ AB \o C \in Seq(Byte) /\ Len(AB \o C) = (2 + f.ext) + m
          /\ \A i \in 1 .. (2 + f.ext) + m :
                (AB \o C)[i] = IF i <= 2 + f.ext THEN AB[i] ELSE C[i - (2 + f.ext)]
      BY <1>3, <2>0, ConcatProperties
    <2>2. ASSUME NEW i \in 1 .. 2 + f.ext PROVE H[i] = AB[i]
      <3>1. i \in 1 .. (2 + f.ext) + m /\ i <= 2 + f.ext
        BY <1>2, <1>3
      <3> QED BY <2>0, <2>1, <3>1
    <2>3. ASSUME NEW i \in 1 .. m PROVE H[2 + f.ext + i] = C[i]
      <3>1. /\ 2 + f.ext + i \in 1 .. (2 + f.ext) + m /\ ~(2 + f.ext + i <= 2 + f.ext)
            /\ (2 + f.ext + i) - (2 + f.ext) = i
        BY <1>2, <1>3
      <3> QED BY <2>0, <2>1, <3>1
    <2> QED BY <2>0, <2>1, <2>2, <2>3
  <1> HIDE DEF H
  <1> DEFINE h == HeadLen(f)
             n == Len(f.data)
  <1>8. h \in Nat /\ n \in Nat /\ h >= 2 + f.ext /\ Len(H) = h /\ Len(D) = n
    BY <1>1, <1>2, <1>3, <1>4, <1>7
  <1>9. Total(f) = h + n
    BY <1>4
  <1> HIDE DEF h, n
  <1>10. /\ Encoded(f) \in Seq(Byte) /\ Len(Encoded(f)) = h + n
         /\ \A i \in 1 .. h : Encoded(f)[i] = H[i]
         /\ \A i \in 1 .. n : Encoded(f)[h + i] = D[i]
    <2>1. /\ H \o D \in Seq(Byte) /\ Len(H \o D) = h + n
          /\ \A i \in 1 .. h + n : (H \o D)[i] = IF i <= h THEN H[i] ELSE D[i - h]
      <3>1. H \in Seq(Byte) /\ D \in Seq(Byte) /\ Len(H) = h /\ Len(D) = n
        BY <1>1, <1>7, <1>8
      <3> QED BY <3>1, ConcatOf
    <2>2. ASSUME NEW i \in 1 .. h PROVE (H \o D)[i] = H[i]
      <3>1. i \in 1 .. h + n /\ i <= h
        BY <1>8
      <3> QED BY <2>1, <3>1
    <2>3. ASSUME NEW i \in 1 .. n PROVE (H \o D)[h + i] = D[i]
      <3>1. h + i \in 1 .. h + n /\ ~(h + i <= h) /\ (h + i) - h = i
        BY <1>8
      <3> QED BY <2>1, <3>1
    <2> QED BY <1>5, <2>1, <2>2, <2>3
  <1>11. Encoded(f)[1] = Flags(f)
    <2>1. 1 \in 1 .. h /\ 1 \in 1 .. 2 + f.ext
      BY <1>2, <1>8
    <2> QED BY <1>6, <1>7, <1>10, <2>1 DEF AB
  <1>12. ASSUME NEW i \in 1 .. 1 + f.ext PROVE Encoded(f)[1 + i] = B[i]
    <2>1. 1 + i \in 1 .. h /\ 1 + i \in 1 .. 2 + f.ext
      BY <1>2, <1>8
    <2> QED BY <1>6, <1>7, <1>10, <2>1 DEF AB
  <1>13. ASSUME f.masked, NEW i \in 1 .. 4 PROVE Encoded(f)[2 + f.ext + i] = f.mask[i]
    <2>1. 2 + f.ext + i \in 1 .. h /\ i \in 1 .. m /\ C = f.mask
      BY <1>2, <1>3, <1>4, <1>8, <1>13 DEF h
    <2> QED BY <1>7, <1>10, <2>1
  <1> QED BY <1>9, <1>10, <1>11, <1>12, <1>13 DEF h, n, B, D

-----------------------------------------------------------------------------
(* Streams *)

\* The first k of what is put together.
LEMMA FlattenPrefix ==
    ASSUME NEW S, NEW n \in Nat, NEW g, NEW F, Concats(S, g, n, F),
           NEW k \in 0 .. n, NEW h \in Seq(Seq(S)), Len(h) = k, \A i \in 1 .. k : h[i] = g[i]
    PROVE  FlattenSeq(h) = F[k]
  <1> DEFINE H == [i \in 0 .. k |-> F[i]]
  <1>0. k \in Nat /\ k <= n /\ k \in 0 .. k /\ 0 \in 0 .. k
    OBVIOUS
  <1>1. H \in [0 .. k -> Seq(S)] /\ H[0] = <<>>
    <2>1. \A i \in 0 .. k : i \in 0 .. n
      OBVIOUS
    <2> QED BY <1>0, <2>1 DEF Concats
  <1>2. ASSUME NEW i \in 1 .. k PROVE H[i] = H[i - 1] \o h[i]
    <2>1. i \in 1 .. n /\ i \in 0 .. k /\ i - 1 \in 0 .. k
      OBVIOUS
    <2>2. F[i] = F[i - 1] \o g[i]
      BY <2>1 DEF Concats
    <2> QED BY <2>1, <2>2
  <1> HIDE DEF H
  <1>3. Concats(S, h, Len(h), H)
    BY <1>1, <1>2 DEF Concats
  <1>4. FlattenSeq(h) = H[k]
    BY <1>3, FlattenConcats
  <1> QED BY <1>0, <1>4 DEF H

\* Where the members of g are in what they make together.
LEMMA ConcatsParts ==
    ASSUME NEW S, NEW n \in Nat, NEW g, \A i \in 1 .. n : g[i] \in Seq(S),
           NEW F, Concats(S, g, n, F)
    PROVE  /\ \A k \in 0 .. n : F[k] \in Seq(S) /\ Len(F[k]) \in Nat
           /\ \A k \in 1 .. n : Len(F[k]) = Len(F[k - 1]) + Len(g[k])
           /\ \A j \in 0 .. n : \A k \in 1 .. j : \A p \in 1 .. Len(g[k]) :
                 F[j][Len(F[k - 1]) + p] = g[k][p]
           /\ \A j \in 0 .. n : \A k \in 0 .. j : Len(F[k]) <= Len(F[j])
  <1>1. \A k \in 0 .. n : F[k] \in Seq(S) /\ Len(F[k]) \in Nat
    BY LenProperties DEF Concats
  <1>2. ASSUME NEW k \in 1 .. n
        PROVE  /\ Len(F[k]) = Len(F[k - 1]) + Len(g[k])
               /\ Len(g[k]) \in Nat
               /\ \A i \in 1 .. Len(F[k - 1]) + Len(g[k]) :
                     F[k][i] = IF i <= Len(F[k - 1]) THEN F[k - 1][i] ELSE g[k][i - Len(F[k - 1])]
    <2>1. F[k] = F[k - 1] \o g[k] /\ g[k] \in Seq(S)
      BY DEF Concats
    <2>2. F[k - 1] \in Seq(S)
      <3>1. k - 1 \in 0 .. n
        OBVIOUS
      <3> QED BY <1>1, <3>1
    <2>3. PICK x, y, z : x = F[k - 1] /\ y = g[k] /\ z = F[k]
      OBVIOUS
    <2>4. x \in Seq(S) /\ y \in Seq(S) /\ z = x \o y
      BY <2>1, <2>2, <2>3
    <2>5. /\ Len(z) = Len(x) + Len(y) /\ Len(y) \in Nat
          /\ \A i \in 1 .. Len(x) + Len(y) :
                z[i] = IF i <= Len(x) THEN x[i] ELSE y[i - Len(x)]
      BY <2>4, ConcatIs
    <2> QED BY <2>3, <2>5
  <1> DEFINE G == {j \in 0 .. n :
                     /\ \A k \in 0 .. j : Len(F[k]) <= Len(F[j])
                     /\ \A k \in 1 .. j : \A p \in 1 .. Len(g[k]) :
                           F[j][Len(F[k - 1]) + p] = g[k][p]}
  <1>3. 0 \in G
    BY <1>1
  <1>4. ASSUME NEW j \in 1 .. n, j - 1 \in G PROVE j \in G
    <2> DEFINE a == Len(F[j - 1])
               b == Len(g[j])
    <2>0. j - 1 \in 0 .. n /\ j \in 0 .. n
      OBVIOUS
    <2>1. a \in Nat /\ b \in Nat /\ Len(F[j]) = a + b
      BY <1>1, <1>2, <2>0
    <2>2. /\ \A k \in 0 .. j - 1 : Len(F[k]) <= a
          /\ \A k \in 1 .. j - 1 : \A p \in 1 .. Len(g[k]) :
                F[j - 1][Len(F[k - 1]) + p] = g[k][p]
      BY <1>4
    <2>3. \A i \in 1 .. a + b : F[j][i] = IF i <= a THEN F[j - 1][i] ELSE g[j][i - a]
      BY <1>2
    <2>4. ASSUME NEW k \in 0 .. j PROVE Len(F[k]) <= Len(F[j])
      <3> DEFINE x == Len(F[k])
                 z == Len(F[j])
      <3>0. x \in Nat /\ z = a + b
        BY <1>1, <2>0, <2>1
      <3>1. CASE k = j
        <4>1. x = z
          BY <3>1
        <4> HIDE DEF x, z
        <4>2. x <= z
          BY <3>0, <4>1
        <4> QED BY <4>2 DEF x, z
      <3>2. CASE k # j
        <4>1. k \in 0 .. j - 1
          BY <3>2
        <4>2. x <= a
          BY <2>2, <4>1
        <4> HIDE DEF x, z, a, b
        <4>3. x <= z
          BY <2>1, <3>0, <4>2
        <4> QED BY <4>3 DEF x, z
      <3> QED BY <3>1, <3>2
    <2>5. ASSUME NEW k \in 1 .. j, NEW p \in 1 .. Len(g[k])
          PROVE  F[j][Len(F[k - 1]) + p] = g[k][p]
      <3>1. CASE k = j
        <4>1. p \in 1 .. b
          BY <3>1
        <4> HIDE DEF a, b
        <4>2. a + p \in 1 .. a + b /\ ~(a + p <= a) /\ (a + p) - a = p
          BY <2>1, <4>1
        <4>3. F[j][a + p] = g[j][p]
          BY <2>3, <4>2
        <4> QED BY <3>1, <4>3 DEF a
      <3>2. CASE k # j
        <4>1. k \in 1 .. j - 1 /\ k \in 1 .. n /\ k \in 0 .. j - 1 /\ k - 1 \in 0 .. n
          BY <3>2
        <4> DEFINE x == Len(F[k - 1])
                   y == Len(g[k])
        <4>2. x \in Nat /\ y \in Nat /\ Len(F[k]) = x + y /\ x + y <= a
          BY <1>1, <1>2, <2>2, <4>1
        <4> HIDE DEF x, y, a, b
        <4>3. p \in 1 .. y
          BY DEF y
        <4>4. x + p \in 1 .. a + b /\ x + p <= a
          BY <2>1, <4>2, <4>3
        <4>5. F[j][x + p] = F[j - 1][x + p]
          BY <2>3, <4>4
        <4>6. F[j - 1][x + p] = g[k][p]
          BY <2>2, <4>1 DEF x
        <4> QED BY <4>5, <4>6 DEF x
      <3> QED BY <3>1, <3>2
    <2> QED BY <2>0, <2>4, <2>5
  <1> HIDE DEF G
  <1>5. \A j \in 0 .. n : j \in G
    BY <1>3, <1>4, UpTo
  <1>6. ASSUME NEW j \in 0 .. n
        PROVE  /\ \A k \in 0 .. j : Len(F[k]) <= Len(F[j])
               /\ \A k \in 1 .. j : \A p \in 1 .. Len(g[k]) : F[j][Len(F[k - 1]) + p] = g[k][p]
    BY <1>5 DEF G
  <1> QED BY <1>1, <1>2, <1>6

\* A stream is a sequence of frames, NULL an empty one.
LEMMA StreamFrames ==
    ASSUME NEW q \in AllStreams
    PROVE  /\ Frames(q) \in Seq(FrameType)
           /\ q # NULL => q \in Seq(FrameType) /\ Frames(q) = q
  <1>1. PICK t \in Streams, c \in Conns : q = t[c]
    BY DEF AllStreams
  <1>2. q = NULL \/ q \in Seq(FrameType)
    BY <1>1, StreamAssumption
  <1> QED BY <1>2, EmptySeq DEF Frames

\* The bytes of a stream are those of its frames, and Ends is where they end.
LEMMA StreamBytes ==
    ASSUME NEW q \in AllStreams, q # NULL
    PROVE  \E F : /\ Concats(Byte, [k \in 1 .. Len(q) |-> Encoded(q[k])], Len(q), F)
                  /\ Bytes[q] = F[Len(q)]
                  /\ \A k \in 0 .. Len(q) : Ends[q][k] = Len(F[k])
  <1> DEFINE n == Len(q)
             g == [k \in 1 .. n |-> Encoded(q[k])]
  <1>1. q \in Seq(FrameType) /\ Frames(q) = q
    BY StreamFrames
  <1>2. n \in Nat /\ DOMAIN q = 1 .. n /\ n \in 0 .. n
    BY <1>1, LenProperties
  <1>3. \A k \in 1 .. n : Encoded(q[k]) \in Seq(Byte)
    BY <1>1, EncodedBytes
  <1>4. Bytes[q] = FlattenSeq(g)
    BY <1>1, <1>2 DEF Bytes
  <1>5. \A k \in 0 .. n : Ends[q][k] = Len(FlattenSeq([j \in 1 .. k |-> Encoded(q[j])]))
    BY <1>1 DEF Ends
  <1> HIDE DEF n
  <1>6. \A k \in 1 .. n : g[k] = Encoded(q[k])
    OBVIOUS
  <1>7. PICK F : Concats(Byte, g, n, F)
    <2>1. \A k \in 1 .. n : g[k] \in Seq(Byte)
      BY <1>3, <1>6
    <2> HIDE DEF g
    <2> QED BY <1>2, <2>1, ConcatsExist
  <1>8. ASSUME NEW k \in 0 .. n
        PROVE  FlattenSeq([j \in 1 .. k |-> Encoded(q[j])]) = F[k]
    <2> DEFINE h == [j \in 1 .. k |-> Encoded(q[j])]
    <2>1. k \in Nat /\ \A j \in 1 .. k : j \in 1 .. n
      BY <1>2
    <2>2. \A j \in 1 .. k : h[j] = g[j]
      BY <2>1
    <2>3. h \in [1 .. k -> Seq(Byte)]
      BY <1>3, <2>1
    <2>4. DOMAIN h = 1 .. k
      OBVIOUS
    <2> HIDE DEF h, g
    <2>5. h \in Seq(Seq(Byte))
      BY <2>1, <2>3, SeqDef
    <2>6. Len(h) = k
      <3>1. PICK l : l = Len(h)
        OBVIOUS
      <3>2. l \in Nat /\ 1 .. l = 1 .. k
        BY <2>4, <2>5, <3>1, LenProperties
      <3>3. l = k
        BY <2>1, <3>2
      <3> QED BY <3>1, <3>3
    <2>7. FlattenSeq(h) = F[k]
      BY <1>2, <1>7, <2>2, <2>5, <2>6, FlattenPrefix
    <2> QED BY <2>7 DEF h
  <1>9. Bytes[q] = F[n] /\ \A k \in 0 .. n : Ends[q][k] = Len(F[k])
    BY <1>2, <1>4, <1>5, <1>8
  <1> QED BY <1>7, <1>9 DEF n

\* Where the frames of a stream begin and end, and which bytes they have.
LEMMA StreamFacts ==
    ASSUME NEW q \in AllStreams, q # NULL
    PROVE  /\ Len(q) \in Nat /\ DOMAIN q = 1 .. Len(q) /\ \A k \in 1 .. Len(q) : q[k] \in FrameType
           /\ Bytes[q] \in Seq(Byte) /\ Len(Bytes[q]) \in Nat
           /\ \A k \in 0 .. Len(q) : Ends[q][k] \in Nat /\ Ends[q][k] <= Len(Bytes[q])
           /\ Ends[q][0] = 0
           /\ \A k \in 1 .. Len(q) : /\ Ends[q][k - 1] \in Nat
                                     /\ Ends[q][k] = Ends[q][k - 1] + Total(q[k])
           /\ \A j \in 0 .. Len(q) : \A k \in 0 .. j : Ends[q][k] <= Ends[q][j]
           /\ \A k \in 1 .. Len(q) : \A p \in 1 .. Total(q[k]) :
                 Bytes[q][Ends[q][k - 1] + p] = Encoded(q[k])[p]
  <1> DEFINE n == Len(q)
             g == [k \in 1 .. n |-> Encoded(q[k])]
  <1>1. q \in Seq(FrameType)
    BY StreamFrames
  <1>2. n \in Nat /\ DOMAIN q = 1 .. n /\ \A k \in 1 .. n : q[k] \in FrameType
    BY <1>1, LenProperties
  <1>3. PICK F : /\ Concats(Byte, g, n, F)
                 /\ Bytes[q] = F[n]
                 /\ \A k \in 0 .. n : Ends[q][k] = Len(F[k])
    BY StreamBytes
  <1> HIDE DEF n
  <1>4. \A k \in 1 .. n : /\ g[k] = Encoded(q[k]) /\ g[k] \in Seq(Byte)
                          /\ Len(g[k]) = Total(q[k])
    BY <1>2, EncodedBytes
  <1> HIDE DEF g
  <1>5. /\ \A k \in 0 .. n : F[k] \in Seq(Byte) /\ Len(F[k]) \in Nat
        /\ \A k \in 1 .. n : Len(F[k]) = Len(F[k - 1]) + Len(g[k])
        /\ \A j \in 0 .. n : \A k \in 1 .. j : \A p \in 1 .. Len(g[k]) :
              F[j][Len(F[k - 1]) + p] = g[k][p]
        /\ \A j \in 0 .. n : \A k \in 0 .. j : Len(F[k]) <= Len(F[j])
    BY <1>2, <1>3, <1>4, ConcatsParts
  <1>6. /\ n \in 0 .. n /\ 0 \in 0 .. n
        /\ \A k \in 1 .. n : k - 1 \in 0 .. n /\ k \in 0 .. n
        /\ \A j \in 0 .. n : \A k \in 0 .. j : k \in 0 .. n
    BY <1>2
  <1>7. Bytes[q] \in Seq(Byte) /\ Len(Bytes[q]) \in Nat
    BY <1>3, <1>5, <1>6
  <1>8. \A k \in 0 .. n : Ends[q][k] \in Nat /\ Ends[q][k] <= Len(Bytes[q])
    BY <1>3, <1>5, <1>6
  <1>9. Ends[q][0] = 0
    <2>1. F[0] = <<>>
      BY <1>3 DEF Concats
    <2> QED BY <1>3, <1>6, <2>1, EmptySeq
  <1>10. ASSUME NEW k \in 1 .. n
         PROVE  Ends[q][k - 1] \in Nat /\ Ends[q][k] = Ends[q][k - 1] + Total(q[k])
    <2>1. Ends[q][k] = Len(F[k]) /\ Ends[q][k - 1] = Len(F[k - 1])
      BY <1>3, <1>6
    <2>2. Len(F[k]) = Len(F[k - 1]) + Len(g[k]) /\ Len(g[k]) = Total(q[k])
      BY <1>4, <1>5
    <2> QED BY <1>6, <1>8, <2>1, <2>2
  <1>11. \A j \in 0 .. n : \A k \in 0 .. j : Ends[q][k] <= Ends[q][j]
    BY <1>3, <1>5, <1>6
  <1>12. ASSUME NEW k \in 1 .. n, NEW p \in 1 .. Total(q[k])
         PROVE  Bytes[q][Ends[q][k - 1] + p] = Encoded(q[k])[p]
    <2>1. p \in 1 .. Len(g[k]) /\ g[k] = Encoded(q[k])
      BY <1>4
    <2>2. F[n][Len(F[k - 1]) + p] = g[k][p]
      BY <1>5, <1>6, <2>1
    <2>3. Ends[q][k - 1] = Len(F[k - 1])
      BY <1>3, <1>6
    <2> QED BY <1>3, <2>1, <2>2, <2>3
  <1> QED BY <1>2, <1>7, <1>8, <1>9, <1>10, <1>11, <1>12 DEF n

-----------------------------------------------------------------------------
(* The parser and a frame *)

\* A socket of the parser: its mask has four bytes.
ParserOK(ws) == SockOK(ws) /\ DOMAIN ws.mask = 1 .. 4

\* What a byte of a head does to the fields of the parser, state by state.
LEMMA FlagsByteFields ==
    ASSUME NEW ws, ParserOK(ws), NEW b, ws.wsStatus = ST_FLAGS, NEW vs, vs = HeadByte(ws, b)
    PROVE  /\ vs.wsStatus = ST_LEN0
           /\ vs.flags = b
           /\ vs.maskCtr = 0
           /\ ~vs.frameCont
           /\ DOMAIN vs.mask = 1 .. 4
  <1>1. vs = [ws EXCEPT !.maskCtr = 0, !.frameCont = FALSE, !.flags = b, !.wsStatus = ST_LEN0]
    BY DEF HeadByte, ST_FLAGS, ST_LEN0, ST_LEN1, ST_LEN8, ST_MASK1, ST_MASK4
  <1> QED BY <1>1 DEF SockOK, SockFields, ParserOK

\* The first byte of a length.
LEMMA FirstLengthFields ==
    ASSUME NEW ws, ParserOK(ws), NEW b \in Byte, ws.wsStatus = ST_LEN0,
           NEW vs, vs = HeadByte(ws, b)
    PROVE  /\ vs.len8 = b /\ vs.flags = ws.flags /\ DOMAIN vs.mask = 1 .. 4
           /\ vs.maskCtr = ws.maskCtr /\ vs.frameCont = ws.frameCont
           /\ b % 128 >= 126 => vs.len = 0 /\ vs.wsStatus = ST_LEN1
           /\ ~(b % 128 >= 126) => /\ vs.len = b % 128
                                   /\ vs.wsStatus = IF b >= 128 THEN ST_MASK1 ELSE ST_PAYLOAD
  <1> USE DEF SockOK, SockFields, ParserOK
  <1>1. PICK read : read = [ws EXCEPT !.len8 = b]
    OBVIOUS
  <1>2. DOMAIN read = SockFields /\ read.len8 = b
    BY <1>1
  <1>3. AfterLength(read) = IF b >= 128 THEN ST_MASK1 ELSE ST_PAYLOAD
    BY <1>2 DEF AfterLength, IsMasked
  <1>4. CASE b % 128 >= 126
    <2>1. vs = [read EXCEPT !.len = 0, !.wsStatus = ST_LEN1]
      BY <1>1, <1>4 DEF HeadByte, ST_FLAGS, ST_LEN0, ST_LEN1, ST_LEN8, ST_MASK1, ST_MASK4
    <2> QED BY <1>1, <1>4, <2>1
  <1>5. CASE ~(b % 128 >= 126)
    <2>1. vs = [read EXCEPT !.len = b % 128, !.wsStatus = AfterLength(read)]
      BY <1>1, <1>5 DEF HeadByte, ST_FLAGS, ST_LEN0, ST_LEN1, ST_LEN8, ST_MASK1, ST_MASK4
    <2> QED BY <1>1, <1>3, <1>5, <2>1
  <1> QED BY <1>4, <1>5

\* A further byte of a length.
LEMMA NextLengthFields ==
    ASSUME NEW ws, ParserOK(ws), NEW b, ws.wsStatus \in ST_LEN1 .. ST_LEN8,
           NEW vs, vs = HeadByte(ws, b)
    PROVE  /\ vs.len8 = ws.len8 /\ vs.flags = ws.flags /\ DOMAIN vs.mask = 1 .. 4
           /\ vs.maskCtr = ws.maskCtr /\ vs.frameCont = ws.frameCont
           /\ vs.len = ((ws.len * 256) + b) % LenMod
           /\ vs.wsStatus = IF ws.wsStatus = LastLength(ws) \/ ws.wsStatus = ST_LEN8
                            THEN AfterLength(ws) ELSE ws.wsStatus + 1
  <1>1. vs = [ws EXCEPT !.len = ((@ * 256) + b) % LenMod,
                        !.wsStatus = IF ws.wsStatus = LastLength(ws) \/ ws.wsStatus = ST_LEN8
                                     THEN AfterLength(ws) ELSE @ + 1]
    BY DEF HeadByte, ST_FLAGS, ST_LEN0, ST_LEN1, ST_LEN8, ST_MASK1, ST_MASK4
  <1> QED BY <1>1 DEF SockOK, SockFields, ParserOK

\* A byte of a mask.
LEMMA MaskFields ==
    ASSUME NEW ws, ParserOK(ws), NEW b, ws.wsStatus \in ST_MASK1 .. ST_MASK4,
           NEW vs, vs = HeadByte(ws, b)
    PROVE  /\ vs.len8 = ws.len8 /\ vs.flags = ws.flags /\ DOMAIN vs.mask = 1 .. 4
           /\ vs.maskCtr = ws.maskCtr /\ vs.frameCont = ws.frameCont
           /\ vs.len = ws.len /\ vs.wsStatus = ws.wsStatus + 1
           /\ \A i \in 1 .. 4 :
                 vs.mask[i] = IF i = ws.wsStatus - ST_MASK1 + 1 THEN b ELSE ws.mask[i]
  <1> DEFINE i0 == ws.wsStatus - ST_MASK1 + 1
  <1>1. vs = [ws EXCEPT !.mask[i0] = b, !.wsStatus = @ + 1]
    BY DEF HeadByte, ST_FLAGS, ST_LEN0, ST_LEN1, ST_LEN8, ST_MASK1, ST_MASK4
  <1> HIDE DEF i0
  <1>2. /\ vs.len8 = ws.len8 /\ vs.flags = ws.flags
        /\ vs.maskCtr = ws.maskCtr /\ vs.frameCont = ws.frameCont
        /\ vs.len = ws.len /\ vs.wsStatus = ws.wsStatus + 1
        /\ vs.mask = [ws.mask EXCEPT ![i0] = b]
    BY <1>1 DEF SockOK, SockFields, ParserOK
  <1>3. DOMAIN ws.mask = 1 .. 4
    BY DEF ParserOK
  <1>4. DOMAIN vs.mask = 1 .. 4 /\ \A i \in 1 .. 4 : vs.mask[i] = IF i = i0 THEN b ELSE ws.mask[i]
    BY <1>2, <1>3
  <1> QED BY <1>2, <1>4 DEF i0

\* The next byte of the head of frame f.
LEMMA FlagsStep ==
    ASSUME NEW f \in FrameType, NEW ws, ParserOK(ws), ws.wsStatus = ST_FLAGS
    PROVE  /\ Inside(HeadByte(ws, Encoded(f)[1]), f, 1)
           /\ DOMAIN HeadByte(ws, Encoded(f)[1]).mask = 1 .. 4
  <1>0. PICK b, vs : b = Encoded(f)[1] /\ vs = HeadByte(ws, b)
    OBVIOUS
  <1>1. b = Flags(f) /\ f.ext \in {0, 2, 8}
    BY <1>0, EncodedBytes, FrameFields
  <1>2. /\ vs.wsStatus = ST_LEN0
        /\ vs.flags = b
        /\ vs.maskCtr = 0
        /\ ~vs.frameCont
        /\ DOMAIN vs.mask = 1 .. 4
    <2>1. vs = HeadByte(ws, b)
      BY <1>0
    <2> QED BY <2>1, FlagsByteFields
  <1>3. InLength(vs, f, 1)
    BY <1>1, <1>2 DEF InLength, ST_LEN0
  <1>4. Inside(vs, f, 1)
    BY <1>1, <1>2, <1>3 DEF Inside, InHead
  <1> QED BY <1>0, <1>2, <1>4

\* A byte of the length of f.
LEMMA LengthStep ==
    ASSUME NEW f \in FrameType, NEW ws, ParserOK(ws), NEW p \in 1 .. 1 + f.ext,
           Inside(ws, f, p), InHead(ws, f, p)
    PROVE  /\ Inside(HeadByte(ws, Encoded(f)[p + 1]), f, p + 1)
           /\ DOMAIN HeadByte(ws, Encoded(f)[p + 1]).mask = 1 .. 4
  <1> DEFINE b == Encoded(f)[p + 1]
             vs == HeadByte(ws, b)
             B == LengthBytes(f)
             n == Len(f.data)
  <1>1. /\ f.ext \in {0, 2, 8} /\ n \in Nat /\ n < LenMod /\ LenMod \in Nat
        /\ f.masked \in BOOLEAN
    BY FrameFields, WebsocketAssumption
  <1>2. b = B[p]
    <2>1. Encoded(f)[1 + p] = B[p] /\ 1 + p = p + 1
      BY <1>1, EncodedBytes
    <2> QED BY <2>1
  <1>3. /\ B[p] \in Byte
        /\ B[1] >= 128 <=> f.masked
        /\ f.ext = 0 => B[1] % 128 = n /\ n < 126
        /\ f.ext = 2 => B[1] % 128 = 126
        /\ f.ext = 8 => B[1] % 128 = 127
        /\ f.ext > 0 => Shifted(n, f.ext) = 0
    BY LengthField
  <1>4. /\ ws.flags = Flags(f) /\ (p >= 2 => ws.len8 = B[1])
        /\ ws.maskCtr = 0 /\ ~ws.frameCont /\ InLength(ws, f, p)
    <2>1. ~InMask(ws, f, p)
      BY <1>1 DEF InMask
    <2> QED BY <2>1 DEF Inside, InHead
  <1>5. ws.wsStatus = p /\ (p >= 2 => ws.len = Shifted(n, 2 + f.ext - p))
    BY <1>4 DEF InLength
  <1> HIDE DEF n
  <1>6. HeadLen(f) = 2 + f.ext + (IF f.masked THEN 4 ELSE 0) /\ Total(f) = HeadLen(f) + n
    BY DEF HeadLen, Total, n
  \* After the length: the mask, or the data.
  <1>7. ASSUME p = 1 + f.ext, vs.len = n, ~vs.frameCont, vs.maskCtr = 0,
               vs.wsStatus = IF f.masked THEN ST_MASK1 ELSE ST_PAYLOAD
        PROVE  InHead(vs, f, p + 1) \/ InData(vs, f, p + 1)
    <2> HIDE DEF vs
    <2>0. p + 1 = 2 + f.ext
      BY <1>1, <1>7
    <2>1. CASE f.masked
      <3>1. HeadLen(f) = 2 + f.ext + 4 /\ vs.wsStatus = ST_MASK1
        BY <1>6, <1>7, <2>1
      <3>2. InMask(vs, f, p + 1)
        BY <1>1, <1>7, <2>0, <3>1 DEF InMask, ST_MASK1, n
      <3> QED BY <1>7, <3>2 DEF InHead
    <2>2. CASE ~f.masked
      <3>1. HeadLen(f) = p + 1 /\ vs.wsStatus = ST_PAYLOAD
        BY <1>1, <1>6, <1>7, <2>0, <2>2
      <3>2. vs.len = Total(f) - (p + 1)
        BY <1>1, <1>6, <1>7, <3>1
      <3>3. (p + 1 - HeadLen(f)) % 256 = 0 /\ ~(HeadLen(f) < p + 1) /\ HeadLen(f) <= p + 1
        BY <3>1
      <3>4. vs.frameCont <=> HeadLen(f) < p + 1
        BY <1>7, <3>3
      <3>5. InData(vs, f, p + 1)
        BY <1>7, <2>2, <3>1, <3>2, <3>3, <3>4 DEF InData
      <3> QED BY <3>5
    <2> QED BY <2>1, <2>2
  <1>8. CASE p = 1
    <2>1. /\ vs.len8 = b /\ vs.flags = ws.flags /\ DOMAIN vs.mask = 1 .. 4
          /\ vs.maskCtr = ws.maskCtr /\ vs.frameCont = ws.frameCont
          /\ b % 128 >= 126 => vs.len = 0 /\ vs.wsStatus = ST_LEN1
          /\ ~(b % 128 >= 126) => /\ vs.len = b % 128
                                  /\ vs.wsStatus = IF b >= 128 THEN ST_MASK1 ELSE ST_PAYLOAD
      <3>1. ws.wsStatus = ST_LEN0
        BY <1>5, <1>8 DEF ST_LEN0
      <3>2. b \in Byte
        BY <1>2, <1>3
      <3> HIDE DEF b
      <3> QED BY <3>1, <3>2, FirstLengthFields
    <2> HIDE DEF vs
    <2>2. b = B[1]
      BY <1>2, <1>8
    <2> HIDE DEF b
    <2>3. InHead(vs, f, p + 1) \/ InData(vs, f, p + 1)
      <3>1. CASE f.ext = 0
        <4>1. ~(b % 128 >= 126) /\ b % 128 = n
          BY <1>1, <1>3, <2>2, <3>1
        <4>2. vs.wsStatus = IF f.masked THEN ST_MASK1 ELSE ST_PAYLOAD
          BY <1>3, <2>1, <2>2, <4>1
        <4>3. ~vs.frameCont /\ vs.maskCtr = 0
          BY <1>4, <2>1
        <4>4. p = 1 + f.ext /\ vs.len = n
          BY <1>8, <2>1, <3>1, <4>1
        <4> QED BY <1>7, <4>2, <4>3, <4>4
      <3>2. CASE f.ext # 0
        <4>1. b % 128 >= 126
          BY <1>1, <1>3, <2>2, <3>2
        <4>2. vs.len = 0 /\ vs.wsStatus = ST_LEN1
          BY <2>1, <4>1
        <4>3. p + 1 = 2 /\ 2 <= 1 + f.ext /\ 2 + f.ext - 2 = f.ext /\ Shifted(n, f.ext) = 0
          BY <1>1, <1>3, <1>8, <3>2
        <4>4. InLength(vs, f, p + 1)
          BY <4>2, <4>3 DEF InLength, ST_LEN1, n
        <4> QED BY <1>4, <2>1, <4>4 DEF InHead
      <3> QED BY <3>1, <3>2
    <2>4. Inside(vs, f, p + 1)
      BY <1>4, <2>1, <2>2, <2>3 DEF Inside
    <2> QED BY <2>1, <2>4 DEF vs, b
  <1>9. CASE p # 1
    <2>0. f.ext \in {2, 8} /\ p \in 2 .. 1 + f.ext
      BY <1>1, <1>9
    <2>1. /\ vs.len8 = ws.len8 /\ vs.flags = ws.flags /\ DOMAIN vs.mask = 1 .. 4
          /\ vs.maskCtr = ws.maskCtr /\ vs.frameCont = ws.frameCont
          /\ vs.len = ((ws.len * 256) + b) % LenMod
          /\ vs.wsStatus = IF p = LastLength(ws) \/ p = ST_LEN8
                           THEN AfterLength(ws) ELSE p + 1
      <3>1. ws.wsStatus \in ST_LEN1 .. ST_LEN8
        BY <1>5, <2>0 DEF ST_LEN1, ST_LEN8
      <3> HIDE DEF b
      <3>2. /\ vs.len8 = ws.len8 /\ vs.flags = ws.flags /\ DOMAIN vs.mask = 1 .. 4
            /\ vs.maskCtr = ws.maskCtr /\ vs.frameCont = ws.frameCont
            /\ vs.len = ((ws.len * 256) + b) % LenMod
            /\ vs.wsStatus = IF ws.wsStatus = LastLength(ws) \/ ws.wsStatus = ST_LEN8
                             THEN AfterLength(ws) ELSE ws.wsStatus + 1
        BY <3>1, NextLengthFields
      <3> QED BY <1>5, <3>2, Zenon
    <2> HIDE DEF vs
    <2>2. vs.len = Shifted(n, 1 + f.ext - p)
      <3> DEFINE i == p - 1
                 x == Shifted(n, f.ext - i)
      <3>1. i \in 1 .. f.ext /\ f.ext + 1 - i = 2 + f.ext - p /\ f.ext - i = 1 + f.ext - p /\ 1 + i = p
        BY <2>0
      <3>2. x = Shifted(n, f.ext + 1 - i) * 256 + B[1 + i] /\ x \in 0 .. n
        BY <3>1, LengthField DEF n
      <3>3. x = ws.len * 256 + b
        BY <1>2, <1>5, <2>0, <3>1, <3>2
      <3>4. x % LenMod = x
        <4> HIDE DEF x
        <4>1. x \in Nat /\ x < LenMod
          BY <1>1, <3>2
        <4> QED BY <1>1, <4>1
      <3> QED BY <2>1, <3>1, <3>3, <3>4
    <2>3. LastLength(ws) = (IF f.ext = 2 THEN ST_LEN2 ELSE ST_LEN8)
      BY <1>3, <1>4, <2>0 DEF LastLength
    <2>4. AfterLength(ws) = IF f.masked THEN ST_MASK1 ELSE ST_PAYLOAD
      BY <1>3, <1>4, <2>0 DEF AfterLength, IsMasked
    <2>5. InHead(vs, f, p + 1) \/ InData(vs, f, p + 1)
      <3>1. CASE p = 1 + f.ext
        <4>1. vs.wsStatus = AfterLength(ws)
          BY <2>0, <2>1, <2>3, <3>1 DEF ST_LEN2, ST_LEN8
        <4>2. vs.len = n
          BY <1>1, <2>2, <3>1 DEF Shifted
        <4> QED BY <1>4, <1>7, <2>1, <2>4, <3>1, <4>1, <4>2
      <3>2. CASE p # 1 + f.ext
        <4>1. p # LastLength(ws) /\ p # ST_LEN8
          BY <2>0, <2>3, <3>2 DEF ST_LEN2, ST_LEN8
        <4>2. vs.wsStatus = p + 1
          BY <2>1, <4>1
        <4>3. p + 1 <= 1 + f.ext /\ 2 + f.ext - (p + 1) = 1 + f.ext - p
          BY <2>0, <3>2
        <4>4. InLength(vs, f, p + 1)
          BY <2>2, <4>2, <4>3 DEF InLength, n
        <4> QED BY <1>4, <2>1, <4>4 DEF InHead
      <3> QED BY <3>1, <3>2
    <2>6. Inside(vs, f, p + 1)
      <3>1. vs.len8 = B[1]
        BY <1>4, <2>0, <2>1
      <3> QED BY <1>4, <2>1, <2>5, <3>1 DEF Inside
    <2> QED BY <2>1, <2>6 DEF vs
  <1> QED BY <1>8, <1>9

\* A byte of the mask of f.
LEMMA MaskStep ==
    ASSUME NEW f \in FrameType, NEW ws, ParserOK(ws), NEW p \in Nat,
           Inside(ws, f, p), InHead(ws, f, p), InMask(ws, f, p)
    PROVE  /\ p + 1 <= HeadLen(f)
           /\ Inside(HeadByte(ws, Encoded(f)[p + 1]), f, p + 1)
           /\ DOMAIN HeadByte(ws, Encoded(f)[p + 1]).mask = 1 .. 4
  <1>0. PICK b, vs : b = Encoded(f)[p + 1] /\ vs = HeadByte(ws, b)
    OBVIOUS
  <1> DEFINE i0 == p - (2 + f.ext) + 1
             n == Len(f.data)
  <1>1. f.ext \in {0, 2, 8} /\ n \in Nat /\ f.masked \in BOOLEAN
    BY FrameFields
  <1>2. /\ 2 + f.ext <= p /\ p < HeadLen(f)
        /\ ws.wsStatus = ST_MASK1 + (p - (2 + f.ext)) /\ ws.len = n
        /\ \A i \in 1 .. 4 : i <= p - (2 + f.ext) => ws.mask[i] = f.mask[i]
    BY DEF InMask
  <1>3. /\ f.masked /\ HeadLen(f) = 2 + f.ext + 4 /\ i0 \in 1 .. 4
        /\ ws.wsStatus = ST_MASK1 + i0 - 1 /\ p + 1 = 2 + f.ext + i0
    <2>1. f.masked
      <3> SUFFICES ASSUME ~f.masked PROVE FALSE
        OBVIOUS
      <3>1. HeadLen(f) = 2 + f.ext
        BY <1>1 DEF HeadLen
      <3> QED BY <1>1, <1>2, <3>1
    <2>2. HeadLen(f) = 2 + f.ext + 4
      BY <2>1 DEF HeadLen
    <2> QED BY <1>1, <1>2, <2>1, <2>2 DEF ST_MASK1
  <1>4. b = f.mask[i0]
    BY <1>0, <1>3, EncodedBytes
  <1>5. Total(f) = HeadLen(f) + n
    BY DEF Total
  <1> HIDE DEF i0, n
  <1>6. /\ vs.len8 = ws.len8 /\ vs.flags = ws.flags /\ DOMAIN vs.mask = 1 .. 4
        /\ vs.maskCtr = ws.maskCtr /\ vs.frameCont = ws.frameCont
        /\ vs.len = ws.len /\ vs.wsStatus = ws.wsStatus + 1
        /\ \A i \in 1 .. 4 :
              vs.mask[i] = IF i = ws.wsStatus - ST_MASK1 + 1 THEN b ELSE ws.mask[i]
    <2>1. ws.wsStatus \in ST_MASK1 .. ST_MASK4 /\ vs = HeadByte(ws, b)
      BY <1>0, <1>3 DEF ST_MASK1, ST_MASK4
    <2> QED BY <2>1, MaskFields
  <1>7. /\ ws.flags = Flags(f) /\ ws.len8 = LengthBytes(f)[1]
        /\ ws.maskCtr = 0 /\ ~ws.frameCont
    BY <1>1, <1>2 DEF Inside, InHead
  <1>8. \A i \in 1 .. 4 : i <= i0 => vs.mask[i] = f.mask[i]
    <2> SUFFICES ASSUME NEW i \in 1 .. 4, i <= i0 PROVE vs.mask[i] = f.mask[i]
      OBVIOUS
    <2>1. ws.wsStatus - ST_MASK1 + 1 = i0
      BY <1>3 DEF ST_MASK1
    <2>2. CASE i = i0
      BY <1>4, <1>6, <2>1, <2>2
    <2>3. CASE i # i0
      <3>1. i <= p - (2 + f.ext)
        BY <1>1, <1>3, <2>3
      <3>2. vs.mask[i] = ws.mask[i]
        BY <1>6, <2>1, <2>3
      <3> QED BY <1>2, <3>1, <3>2
    <2> QED BY <2>2, <2>3
  <1>9. InHead(vs, f, p + 1) \/ InData(vs, f, p + 1)
    <2>1. CASE i0 < 4
      <3>1. /\ 2 + f.ext <= p + 1 /\ p + 1 < HeadLen(f) /\ (p + 1) - (2 + f.ext) = i0
            /\ vs.wsStatus = ST_MASK1 + ((p + 1) - (2 + f.ext))
        BY <1>1, <1>3, <1>6, <2>1 DEF ST_MASK1
      <3>2. InMask(vs, f, p + 1)
        BY <1>2, <1>6, <1>8, <3>1 DEF InMask, n
      <3> QED BY <1>6, <1>7, <3>2 DEF InHead
    <2>2. CASE i0 = 4
      <3>1. p + 1 = HeadLen(f) /\ vs.wsStatus = ST_PAYLOAD
        BY <1>1, <1>3, <1>6, <2>2 DEF ST_MASK1, ST_PAYLOAD
      <3>2. /\ HeadLen(f) <= p + 1 /\ ~(HeadLen(f) < p + 1) /\ ((p + 1) - HeadLen(f)) % 256 = 0
        BY <3>1
      <3>3. vs.len = Total(f) - (p + 1)
        BY <1>1, <1>2, <1>5, <1>6, <3>1
      <3>4. \A i \in 1 .. 4 : vs.mask[i] = f.mask[i]
        BY <1>8, <2>2
      <3>5. InData(vs, f, p + 1)
        BY <1>6, <1>7, <3>1, <3>2, <3>3, <3>4 DEF InData
      <3> QED BY <3>5
    <2> QED BY <1>3, <2>1, <2>2
  <1>10. Inside(vs, f, p + 1)
    BY <1>6, <1>7, <1>9 DEF Inside
  <1>11. p + 1 <= HeadLen(f)
    BY <1>1, <1>2, <1>3
  <1> QED BY <1>0, <1>6, <1>10, <1>11

\* A byte of the head of f: the parser stays with the frame.
LEMMA HeadStep ==
    ASSUME NEW f \in FrameType, NEW ws, ParserOK(ws), ws.wsStatus # ST_PAYLOAD, NEW p \in Nat,
           IF p = 0 THEN ws.wsStatus = ST_FLAGS ELSE Inside(ws, f, p)
    PROVE  /\ p + 1 <= HeadLen(f)
           /\ Inside(HeadByte(ws, Encoded(f)[p + 1]), f, p + 1)
           /\ DOMAIN HeadByte(ws, Encoded(f)[p + 1]).mask = 1 .. 4
  <1>1. HeadLen(f) \in Nat /\ HeadLen(f) >= 2 + f.ext /\ f.ext \in {0, 2, 8}
    BY FrameFields
  <1>2. CASE p = 0
    <2>1. ws.wsStatus = ST_FLAGS /\ p + 1 = 1 /\ p + 1 <= HeadLen(f)
      BY <1>1, <1>2
    <2> QED BY <2>1, FlagsStep
  <1>3. CASE p # 0
    <2>1. Inside(ws, f, p)
      BY <1>3
    <2>2. InHead(ws, f, p)
      BY <2>1 DEF Inside, InData
    <2>3. CASE InMask(ws, f, p)
      BY <2>1, <2>2, <2>3, MaskStep
    <2>4. CASE InLength(ws, f, p)
      <3>1. p \in 1 .. 1 + f.ext
        BY <1>1, <1>3, <2>4 DEF InLength
      <3>2. p + 1 <= HeadLen(f)
        BY <1>1, <3>1
      <3> QED BY <2>1, <2>2, <3>1, <3>2, LengthStep
    <2> QED BY <2>2, <2>3, <2>4 DEF InHead
  <1> QED BY <1>2, <1>3

\* A length below LenMod does not wrap.
LEMMA SmallMod ==
    ASSUME NEW x \in Nat, NEW m \in Nat, x < m
    PROVE  x % m = x
  OBVIOUS

\* The data of f, or a part of it: the whole of it is taken.
LEMMA DataStep ==
    ASSUME NEW f \in FrameType, NEW ws, ParserOK(ws), ws.wsStatus = ST_PAYLOAD,
           NEW p \in Nat, Inside(ws, f, p), NEW m \in Nat, p + m <= Total(f), m > 0
    PROVE  /\ HeadLen(f) <= p /\ Taken(ws, m) = m
           /\ DOMAIN AfterPayload(ws, m).mask = 1 .. 4
           /\ IF p + m = Total(f) THEN AfterPayload(ws, m).wsStatus = ST_FLAGS
              ELSE Inside(AfterPayload(ws, m), f, p + m)
  <1> DEFINE h == HeadLen(f)
             n == Len(f.data)
             vs == AfterPayload(ws, m)
             len == (ws.len - Taken(ws, m)) % LenMod
  <1>1. h \in Nat /\ n \in Nat /\ Total(f) = h + n /\ n < LenMod /\ LenMod \in Nat
    BY FrameFields, WebsocketAssumption
  <1>2. f.ext \in {0, 2, 8} /\ h >= 2 + f.ext /\ h \in 0 .. 14
    BY FrameFields DEF HeadLen
  <1>3. InData(ws, f, p)
    <2>1. ~InMask(ws, f, p) /\ ~InLength(ws, f, p)
      <3>1. ~InLength(ws, f, p)
        BY <1>2 DEF InLength, ST_PAYLOAD
      <3>2. ~InMask(ws, f, p)
        BY <1>2 DEF InMask, ST_PAYLOAD, ST_MASK1, HeadLen
      <3> QED BY <3>1, <3>2
    <2> QED BY <2>1 DEF Inside, InHead
  <1>4. /\ h <= p /\ ws.len = Total(f) - p
        /\ ws.maskCtr = (p - h) % 256 /\ (ws.frameCont <=> h < p)
        /\ f.masked => \A i \in 1 .. 4 : ws.mask[i] = f.mask[i]
    BY <1>3 DEF InData
  <1>5. ws.flags = Flags(f) /\ ws.len8 = LengthBytes(f)[1]
    BY <1>2, <1>4 DEF Inside
  <1>6. m <= ws.len /\ ws.len \in Nat
    BY <1>1, <1>4
  <1>7. Taken(ws, m) = m
    BY <1>6 DEF Taken
  <1>8. len = Total(f) - (p + m)
    <2> DEFINE x == ws.len - m
    <2>1. x \in Nat /\ x < LenMod /\ x = Total(f) - (p + m)
      <3>1. PICK l, t : l = ws.len /\ t = Total(f)
        OBVIOUS
      <3>2. h <= p /\ l = t - p
        BY <1>4, <3>1
      <3>3. h \in Nat /\ n \in Nat /\ t = h + n /\ n < LenMod /\ LenMod \in Nat
        BY <1>1, <3>1
      <3>4. m <= l
        BY <1>6, <3>1
      <3> HIDE DEF h, n
      <3>5. l - m \in Nat /\ l - m < LenMod /\ l - m = t - (p + m)
        BY <3>2, <3>3, <3>4
      <3> QED BY <3>1, <3>5, Zenon
    <2> HIDE DEF x
    <2>2. x % LenMod = x
      BY <1>1, <2>1, SmallMod
    <2> QED BY <1>7, <2>1, <2>2 DEF x
  <1>9. /\ vs.maskCtr = (ws.maskCtr + m) % 256 /\ vs.frameCont /\ vs.len = len
        /\ vs.wsStatus = (IF len = 0 THEN ST_FLAGS ELSE ws.wsStatus)
        /\ vs.mask = ws.mask /\ vs.flags = ws.flags /\ vs.len8 = ws.len8
    BY DEF AfterPayload, ParserOK, SockOK, SockFields
  <1> HIDE DEF vs, len, h, n
  <1>10. CASE p + m = Total(f)
    <2>1. len = 0
      BY <1>1, <1>8, <1>10
    <2> QED BY <1>4, <1>7, <1>9, <1>10, <2>1 DEF vs, h, ParserOK
  <1>11. CASE p + m # Total(f)
    <2>1. len # 0
      BY <1>1, <1>8, <1>11
    <2>2. vs.wsStatus = ST_PAYLOAD
      BY <1>9, <2>1
    <2>3. vs.maskCtr = ((p + m) - h) % 256 /\ h <= p + m /\ h < p + m
      BY <1>1, <1>4, <1>9
    <2>4. InData(vs, f, p + m)
      <3>1. vs.len = Total(f) - (p + m)
        BY <1>8, <1>9
      <3>2. f.masked => \A i \in 1 .. 4 : vs.mask[i] = f.mask[i]
        <4>1. vs.mask = ws.mask
          BY <1>9
        <4> QED BY <1>4, <4>1
      <3>3. vs.frameCont <=> h < p + m
        BY <1>9, <2>3
      <3>4. /\ HeadLen(f) <= p + m
            /\ vs.maskCtr = ((p + m) - HeadLen(f)) % 256
        BY <2>3 DEF h
      <3>5. vs.frameCont <=> HeadLen(f) < p + m
        BY <3>3 DEF h
      <3> QED BY <2>2, <3>1, <3>2, <3>4, <3>5, Zenon DEF InData
    <2>5. Inside(vs, f, p + m)
      BY <1>5, <1>9, <2>4 DEF Inside
    <2> QED BY <1>4, <1>7, <1>9, <1>11, <2>5 DEF vs, h, ParserOK
  <1> QED BY <1>10, <1>11

-----------------------------------------------------------------------------
(* What the application is given *)

\* A byte of the data of f, with the flags of its frame.
Item(f, i) == [byte |-> f.data[i], bin |-> f.op = OPCODE_BINARY, cont |-> ~f.fin]
Text(f) == f.op \in DataOpcodes /\ f.masked

\* m bytes of the data of f, from byte d on, as the application gets them.
Items(f, d, m) == [j \in 1 .. m |-> Item(f, d + j)]

\* A packet with m bytes of frame f, from its byte p on.
Holds(f, p, m, bytes) ==
    bytes \in Seq(Byte) /\ Len(bytes) = m /\ \A j \in 1 .. m : bytes[j] = Encoded(f)[p + j]

\* What is unmasked of a packet with data of f is what the client masked.
LEMMA UnmaskedData ==
    ASSUME NEW f \in FrameType, NEW ws, NEW p \in Nat, InData(ws, f, p), f.masked,
           NEW m, NEW bytes, Holds(f, p, m, bytes), p + m <= Total(f)
    PROVE  /\ DOMAIN Unmasked(ws, bytes) = 1 .. m
           /\ \A j \in 1 .. m : /\ (p - HeadLen(f)) + j \in 1 .. Len(f.data)
                                /\ Unmasked(ws, bytes)[j] = f.data[(p - HeadLen(f)) + j]
  <1> DEFINE h == HeadLen(f)
             n == Len(f.data)
             d == p - h
  <1>1. h \in Nat /\ n \in Nat /\ Total(f) = h + n /\ m \in Nat
    BY FrameFields, LenProperties DEF Holds
  <1>2. DOMAIN bytes = 1 .. m
    BY LenProperties DEF Holds
  <1>3. h <= p /\ ws.maskCtr = d % 256 /\ \A i \in 1 .. 4 : ws.mask[i] = f.mask[i]
    BY DEF InData
  <1>4. p + m <= h + n
    BY <1>1
  <1> HIDE DEF h, n
  <1>5. d \in Nat
    BY <1>1, <1>3
  <1>6. DOMAIN Unmasked(ws, bytes) = 1 .. m
    BY <1>2 DEF Unmasked
  <1>7. ASSUME NEW j \in 1 .. m
        PROVE  d + j \in 1 .. n /\ Unmasked(ws, bytes)[j] = f.data[d + j]
    <2> DEFINE i == d + j
               r == ((i - 1) % 4) + 1
    <2>1. i \in 1 .. n /\ h + i = p + j
      BY <1>1, <1>3, <1>4
    <2>2. r \in 1 .. 4 /\ ((ws.maskCtr + j - 1) % 4) + 1 = r
      <3> HIDE DEF d
      <3>1. r \in 1 .. 4 /\ (((d % 256) + j - 1) % 4) + 1 = r
        BY <1>1, <1>5
      <3> QED BY <1>3, <3>1
    <2>3. bytes[j] = Payload(f)[i]
      <3>1. bytes[j] = Encoded(f)[p + j]
        BY DEF Holds
      <3>2. Encoded(f)[h + i] = Payload(f)[i]
        BY <2>1, EncodedBytes DEF h, n
      <3> QED BY <2>1, <3>1, <3>2
    <2>4. Unmasked(ws, bytes)[j] = Xor(bytes[j], ws.mask[((ws.maskCtr + j - 1) % 4) + 1])
      BY <1>2 DEF Unmasked
    <2>5. ws.mask[((ws.maskCtr + j - 1) % 4) + 1] = MaskAt(f, i)
      BY <1>3, <2>2 DEF MaskAt
    <2>6. Xor(Payload(f)[i], MaskAt(f, i)) = f.data[i]
      BY <2>1, PayloadBytes DEF n
    <2>7. Unmasked(ws, bytes)[j] = f.data[i]
      BY <2>3, <2>4, <2>5, <2>6
    <2> QED BY <2>1, <2>7
  <1> QED BY <1>6, <1>7 DEF h, n

\* So recvCb is given those bytes of the frame.
LEMMA GivenData ==
    ASSUME NEW f \in FrameType, NEW ws, NEW p \in Nat, InData(ws, f, p), f.masked,
           ws.flags = Flags(f),
           NEW m, NEW bytes, Holds(f, p, m, bytes), p + m <= Total(f)
    PROVE  Given(ws, SubSeq(Unmasked(ws, bytes), 1, m)) = Items(f, p - HeadLen(f), m)
  <1> DEFINE U == Unmasked(ws, bytes)
             V == SubSeq(U, 1, m)
             d == p - HeadLen(f)
  <1>1. m \in Nat /\ DOMAIN U = 1 .. m
    BY UnmaskedData, LenProperties DEF Holds
  <1>2. \A j \in 1 .. m : d + j \in 1 .. Len(f.data) /\ U[j] = f.data[d + j]
    BY UnmaskedData
  <1>3. f.data \in Seq(Byte)
    BY FrameFields
  <1> HIDE DEF U
  <1>4. \A j \in 1 .. m : U[j] \in Byte
    BY <1>2, <1>3, LenProperties
  <1>5. V \in Seq(Byte) /\ Len(V) = m /\ \A j \in 1 .. m : V[j] = U[j]
    <2>1. /\ V \in Seq(Byte) /\ Len(V) = IF 1 <= m THEN m - 1 + 1 ELSE 0
          /\ \A j \in 1 .. m - 1 + 1 : V[j] = U[1 + j - 1]
      BY <1>1, <1>4, SubSeqProperties
    <2>2. Len(V) = m
      BY <1>1, <2>1
    <2>3. m - 1 + 1 = m /\ \A j \in 1 .. m : 1 + j - 1 = j
      BY <1>1
    <2> QED BY <2>1, <2>2, <2>3
  <1> HIDE DEF V
  <1>6. DOMAIN V = 1 .. m
    BY <1>5, LenProperties
  <1>7. Opcode(ws) = f.op /\ (ws.flags < 128 <=> ~f.fin)
    BY FlagsByte DEF Opcode
  <1>8. (ws.flags < 128) = (~f.fin)
    BY <1>7
  <1>9. \A j \in 1 .. m : [byte |-> V[j], bin |-> Opcode(ws) = OPCODE_BINARY, cont |-> ws.flags < 128]
                             = Item(f, d + j)
    BY <1>2, <1>5, <1>7, <1>8 DEF Item
  <1>10. Given(ws, V) = [j \in 1 .. m |-> Item(f, d + j)]
    BY <1>6, <1>9, Zenon DEF Given
  <1> QED BY <1>10, Zenon DEF U, V, Items

\* How much of the data of each frame has arrived when n is in frame k.
LEMMA Arrivals ==
    ASSUME NEW q \in AllStreams, q # NULL, NEW k \in 1 .. Len(q), NEW n \in Nat,
           Ends[q][k - 1] <= n, n <= Ends[q][k], NEW j \in 1 .. Len(q)
    PROVE  Arrived(q, j, n) =
               IF j < k THEN Len(q[j].data)
               ELSE IF j > k \/ n <= Ends[q][k - 1] + HeadLen(q[k]) THEN 0
               ELSE n - (Ends[q][k - 1] + HeadLen(q[k]))
  <1> DEFINE l == Len(q[j].data)
             h == HeadLen(q[j])
             e == Ends[q][j]
             e0 == Ends[q][j - 1]
             d0 == Ends[q][k - 1]
             d == Ends[q][k]
  <1>1. q[j] \in FrameType /\ Len(q) \in Nat
    BY StreamFacts
  <1>2. l \in Nat /\ h \in Nat /\ Total(q[j]) = h + l
    BY <1>1, FrameFields
  <1>3. e0 \in Nat /\ e = e0 + (h + l) /\ d0 \in Nat /\ d \in Nat
    <2>1. e0 \in Nat /\ e = e0 + Total(q[j]) /\ d0 \in Nat
      BY StreamFacts
    <2>2. d \in Nat
      <3>1. k \in 0 .. Len(q)
        BY <1>1
      <3> QED BY <3>1, StreamFacts
    <2> QED BY <1>2, <2>1, <2>2
  <1>4. j < k => e <= d0
    <2> SUFFICES ASSUME j < k PROVE e <= d0
      OBVIOUS
    <2>1. j \in 0 .. k - 1 /\ k - 1 \in 0 .. Len(q)
      BY <1>1
    <2> QED BY <2>1, StreamFacts
  <1>5. j > k => d <= e0
    <2> SUFFICES ASSUME j > k PROVE d <= e0
      OBVIOUS
    <2>1. k \in 0 .. j - 1 /\ j - 1 \in 0 .. Len(q)
      BY <1>1
    <2> QED BY <2>1, StreamFacts
  <1>6. Arrived(q, j, n) = IF n <= e - l THEN 0 ELSE IF n >= e THEN l ELSE n - (e - l)
    BY DEF Arrived
  <1>7. d0 <= n /\ n <= d
    OBVIOUS
  <1>8. j = k => e = d /\ e0 = d0 /\ HeadLen(q[k]) = h
    OBVIOUS
  <1> HIDE DEF l, h, e, e0, d0, d
  <1>9. e - l = e0 + h
    BY <1>2, <1>3
  <1>10. CASE j < k
    BY <1>2, <1>3, <1>4, <1>6, <1>7, <1>9, <1>10 DEF l
  <1>11. CASE j > k
    BY <1>1, <1>2, <1>3, <1>5, <1>6, <1>7, <1>9, <1>11
  <1>12. CASE j = k
    <2>1. Arrived(q, j, n) = IF n <= d0 + h THEN 0 ELSE n - (d0 + h)
      BY <1>2, <1>3, <1>6, <1>7, <1>8, <1>9, <1>12
    <2>2. ~(j < k) /\ ~(j > k)
      BY <1>12
    <2> QED BY <1>8, <1>12, <2>1, <2>2 DEF d0
  <1> QED BY <1>10, <1>11, <1>12

\* Appending is associative.
LEMMA Associative ==
    ASSUME NEW S, NEW x \in Seq(S), NEW y \in Seq(S), NEW z \in Seq(S)
    PROVE  (x \o y) \o z = x \o (y \o z)
  BY ConcatAssociative

\* One member of what is put together grows, and nothing follows it yet.
Grows(S, n, g, h, k, d) ==
    /\ \A i \in 1 .. n : g[i] \in Seq(S) /\ h[i] \in Seq(S)
    /\ k \in 1 .. n /\ h[k] = g[k] \o d
    /\ \A i \in 1 .. n : i < k => h[i] = g[i]
    /\ \A i \in 1 .. n : i > k => g[i] = <<>> /\ h[i] = <<>>

\* Then the whole grows by the same.
LEMMA ConcatsGrow ==
    ASSUME NEW S, NEW n \in Nat, NEW g, NEW h, NEW k, NEW d \in Seq(S), Grows(S, n, g, h, k, d),
           NEW F, Concats(S, g, n, F), NEW H, Concats(S, h, n, H)
    PROVE  H[n] = F[n] \o d
  <1>1. \A i \in 1 .. n : g[i] \in Seq(S) /\ h[i] \in Seq(S)
    BY DEF Grows
  <1>2. k \in 1 .. n /\ h[k] = g[k] \o d
    BY DEF Grows
  <1>3. /\ \A i \in 1 .. n : i < k => h[i] = g[i]
        /\ \A i \in 1 .. n : i > k => g[i] = <<>> /\ h[i] = <<>>
    BY DEF Grows
  <1>5. \A i \in 0 .. n : F[i] \in Seq(S) /\ H[i] \in Seq(S)
    BY DEF Concats
  <1>6. ASSUME NEW i \in 1 .. n
        PROVE  /\ F[i] = F[i - 1] \o g[i] /\ H[i] = H[i - 1] \o h[i]
               /\ i - 1 \in 0 .. n /\ F[i - 1] \in Seq(S) /\ H[i - 1] \in Seq(S)
    <2>1. i - 1 \in 0 .. n
      OBVIOUS
    <2> QED BY <1>2, <1>3, <1>5, <2>1 DEF Concats
  <1> DEFINE G == {i \in 0 .. n : /\ i < k => H[i] = F[i]
                                  /\ ~(i < k) => H[i] = F[i] \o d}
  <1>7. 0 \in G
    <2>1. F[0] = <<>> /\ H[0] = <<>> /\ 0 < k /\ 0 \in 0 .. n
      BY <1>2 DEF Concats
    <2> QED BY <2>1
  <1>8. ASSUME NEW i \in 1 .. n, i - 1 \in G PROVE i \in G
    <2>0. /\ i - 1 < k => H[i - 1] = F[i - 1]
          /\ ~(i - 1 < k) => H[i - 1] = F[i - 1] \o d
          /\ i \in 0 .. n
      BY <1>8
    <2>1. CASE i < k
      <3>1. i - 1 < k /\ h[i] = g[i]
        BY <1>2, <1>3, <2>1
      <3>2. H[i] = F[i]
        BY <1>6, <2>0, <3>1
      <3> QED BY <2>0, <2>1, <3>2
    <2>2. CASE i = k
      <3>1. i - 1 < k /\ ~(i < k)
        BY <1>2, <2>2
      <3>2. PICK x, y, u, v, w : /\ x = F[i - 1] /\ y = g[i] /\ u = F[i]
                                 /\ v = h[i] /\ w = H[i]
        OBVIOUS
      <3>3. x \in Seq(S) /\ y \in Seq(S) /\ d \in Seq(S)
        BY <1>1, <1>6, <3>2
      <3>4. u = x \o y /\ v = y \o d /\ w = x \o v
        <4>1. F[i] = F[i - 1] \o g[i] /\ H[i] = H[i - 1] \o h[i] /\ H[i - 1] = F[i - 1]
          BY <1>6, <2>0, <3>1
        <4>2. h[i] = g[i] \o d
          BY <1>2, <2>2
        <4> QED BY <3>2, <4>1, <4>2, Zenon
      <3>5. (x \o y) \o d = x \o (y \o d)
        BY <3>3, Associative
      <3>6. H[i] = F[i] \o d
        BY <3>2, <3>4, <3>5, Zenon
      <3> QED BY <2>0, <3>1, <3>6
    <2>3. CASE i > k
      <3>1. ~(i - 1 < k) /\ ~(i < k) /\ g[i] = <<>> /\ h[i] = <<>>
        BY <1>2, <1>3, <2>3
      <3>2. PICK x, y : x = F[i - 1] /\ y = H[i - 1]
        OBVIOUS
      <3>3. x \in Seq(S) /\ y \in Seq(S) /\ y = x \o d
        BY <1>6, <2>0, <3>1, <3>2
      <3>4. x \o <<>> = x /\ y \o <<>> = y
        BY <3>3, ConcatEmptySeq
      <3>5. F[i] = x /\ H[i] = y
        BY <1>6, <3>1, <3>2, <3>4
      <3> QED BY <2>0, <3>1, <3>3, <3>5
    <2> QED BY <1>2, <2>1, <2>2, <2>3
  <1> HIDE DEF G
  <1>9. \A i \in 0 .. n : i \in G
    BY <1>7, <1>8, UpTo
  <1>10. n \in G /\ ~(n < k)
    BY <1>2, <1>9
  <1> QED BY <1>10 DEF G

\* The same for FlattenSeq.
LEMMA FlattenGrows ==
    ASSUME NEW S, NEW n \in Nat, NEW g \in Seq(Seq(S)), Len(g) = n,
           NEW h \in Seq(Seq(S)), Len(h) = n, NEW k, NEW d \in Seq(S), Grows(S, n, g, h, k, d)
    PROVE  FlattenSeq(h) = FlattenSeq(g) \o d
  <1>1. \A i \in 1 .. n : g[i] \in Seq(S) /\ h[i] \in Seq(S)
    BY DEF Grows
  <1>2. PICK F : Concats(S, g, n, F)
    BY <1>1, ConcatsExist
  <1>3. PICK H : Concats(S, h, n, H)
    BY <1>1, ConcatsExist
  <1>4. FlattenSeq(g) = F[n] /\ FlattenSeq(h) = H[n]
    BY <1>2, <1>3, FlattenConcats
  <1>5. H[n] = F[n] \o d
    BY <1>2, <1>3, ConcatsGrow
  <1> QED BY <1>4, <1>5

\* Nothing put together is nothing.
LEMMA FlattenNothing ==
    ASSUME NEW S, NEW g \in Seq(Seq(S)), \A i \in 1 .. Len(g) : g[i] = <<>>
    PROVE  FlattenSeq(g) = <<>>
  <1> DEFINE n == Len(g)
             F == [i \in 0 .. n |-> <<>>]
  <1>1. n \in Nat /\ n \in 0 .. n
    BY LenProperties
  <1>2. <<>> \in Seq(S) /\ <<>> \o <<>> = <<>>
    BY EmptySeq, ConcatEmptySeq
  <1>3. Concats(S, g, n, F)
    <2>1. F \in [0 .. n -> Seq(S)] /\ F[0] = <<>>
      BY <1>1, <1>2
    <2>2. ASSUME NEW i \in 1 .. n PROVE F[i] = F[i - 1] \o g[i]
      <3>1. i \in 0 .. n /\ i - 1 \in 0 .. n /\ g[i] = <<>>
        BY <1>1
      <3>2. F[i] = <<>> /\ F[i - 1] = <<>>
        BY <3>1
      <3> QED BY <1>2, <3>1, <3>2
    <2> HIDE DEF F, n
    <2> QED BY <2>1, <2>2 DEF Concats
  <1>4. F[n] = <<>>
    BY <1>1
  <1> HIDE DEF F
  <1>5. FlattenSeq(g) = F[n]
    BY <1>3, FlattenConcats
  <1> QED BY <1>4, <1>5

\* The first m bytes of the data of f, as the application is given them.
Part(f, m) == [i \in 1 .. m |-> Item(f, i)]
Wanted(q, n) == [k \in 1 .. Len(q) |-> Part(q[k], IF Text(q[k]) THEN Arrived(q, k, n) ELSE 0)]
ItemType == [byte : Byte, bin : BOOLEAN, cont : BOOLEAN]

\* A part of the data of f is a sequence of items.
LEMMA PartType ==
    ASSUME NEW f \in FrameType, NEW m \in 0 .. Len(f.data)
    PROVE  /\ Part(f, m) \in Seq(ItemType) /\ Len(Part(f, m)) = m
           /\ \A i \in 1 .. m : Item(f, i) \in ItemType
  <1>1. f.data \in Seq(Byte) /\ Len(f.data) \in Nat /\ f.fin \in BOOLEAN
    BY FrameFields
  <1>2. \A i \in 1 .. m : f.data[i] \in Byte
    <2>1. \A i \in 1 .. m : i \in 1 .. Len(f.data)
      BY <1>1
    <2> QED BY <1>1, <2>1, LenProperties
  <1>3. \A i \in 1 .. m : Item(f, i) \in ItemType
    <2> SUFFICES ASSUME NEW i \in 1 .. m PROVE Item(f, i) \in ItemType
      OBVIOUS
    <2>1. (f.op = OPCODE_BINARY) \in BOOLEAN /\ (~f.fin) \in BOOLEAN
      OBVIOUS
    <2> QED BY <1>2, <2>1, Zenon DEF Item, ItemType
  <1>4. m \in Nat
    BY <1>1
  <1> DEFINE P == Part(f, m)
  <1>5. P \in [1 .. m -> ItemType] /\ DOMAIN P = 1 .. m
    BY <1>3 DEF Part
  <1> HIDE DEF P
  <1>6. P \in Seq(ItemType)
    BY <1>4, <1>5, SeqDef
  <1>7. PICK l : l = Len(P)
    OBVIOUS
  <1>8. l \in Nat /\ 1 .. l = 1 .. m
    BY <1>5, <1>6, <1>7, LenProperties
  <1>9. l = m
    BY <1>4, <1>8
  <1> QED BY <1>3, <1>6, <1>7, <1>9 DEF P

\* A part grows by what follows it.
LEMMA PartGrows ==
    ASSUME NEW f \in FrameType, NEW d \in Nat, NEW m \in Nat, d + m <= Len(f.data)
    PROVE  /\ [j \in 1 .. m |-> Item(f, d + j)] \in Seq(ItemType)
           /\ Part(f, d + m) = Part(f, d) \o [j \in 1 .. m |-> Item(f, d + j)]
  <1> DEFINE D == [j \in 1 .. m |-> Item(f, d + j)]
             a == Part(f, d)
             b == Part(f, d + m)
  <1>0. Len(f.data) \in Nat
    BY FrameFields
  <1>1. d \in 0 .. Len(f.data) /\ d + m \in 0 .. Len(f.data) /\ d + m \in Nat
    BY <1>0
  <1>2. a \in Seq(ItemType) /\ Len(a) = d /\ b \in Seq(ItemType) /\ Len(b) = d + m
    BY <1>1, PartType
  <1>3. \A i \in 1 .. d + m : Item(f, i) \in ItemType
    BY <1>1, PartType
  <1>4. /\ \A i \in 1 .. d : a[i] = Item(f, i)
        /\ \A i \in 1 .. d + m : b[i] = Item(f, i)
        /\ \A i \in 1 .. m : D[i] = Item(f, d + i)
        /\ DOMAIN D = 1 .. m
    BY DEF Part
  <1>5. D \in [1 .. m -> ItemType]
    <2>1. \A i \in 1 .. m : d + i \in 1 .. d + m
      OBVIOUS
    <2> QED BY <1>3, <2>1
  <1> HIDE DEF D, a, b
  <1>6. D \in Seq(ItemType) /\ Len(D) = m
    <2>1. D \in Seq(ItemType)
      BY <1>5, SeqDef
    <2>2. PICK l : l = Len(D)
      OBVIOUS
    <2>3. l \in Nat /\ 1 .. l = 1 .. m
      BY <1>4, <2>1, <2>2, LenProperties
    <2>4. l = m
      BY <2>3
    <2> QED BY <2>1, <2>2, <2>4
  <1>9. PICK e : e = a \o D
    OBVIOUS
  <1>7. /\ e \in Seq(ItemType) /\ Len(e) = d + m
        /\ \A i \in 1 .. d + m : e[i] = IF i <= d THEN a[i] ELSE D[i - d]
    <2>1. /\ e \in Seq(ItemType) /\ Len(e) = Len(a) + Len(D)
          /\ \A i \in 1 .. Len(a) + Len(D) :
                e[i] = IF i <= Len(a) THEN a[i] ELSE D[i - Len(a)]
      <3>1. a \in Seq(ItemType) /\ D \in Seq(ItemType) /\ e = a \o D
        BY <1>2, <1>6, <1>9
      <3> QED BY <3>1, ConcatIs
    <2> QED BY <1>2, <1>6, <2>1, Zenon
  <1>8. ASSUME NEW i \in 1 .. d + m PROVE b[i] = e[i]
    <2>1. CASE i <= d
      <3>1. i \in 1 .. d
        BY <2>1
      <3> QED BY <1>4, <1>7, <2>1, <3>1
    <2>2. CASE ~(i <= d)
      <3>1. i - d \in 1 .. m /\ d + (i - d) = i
        BY <2>2
      <3> QED BY <1>4, <1>7, <2>2, <3>1
    <2> QED BY <2>1, <2>2
  <1>10. /\ b \in Seq(ItemType) /\ e \in Seq(ItemType) /\ Len(b) = Len(e)
         /\ \A i \in 1 .. Len(b) : b[i] = e[i]
    BY <1>2, <1>7, <1>8
  <1>11. b = e
    BY <1>10, SeqEqual
  <1> QED BY <1>6, <1>9, <1>11 DEF a, b, D

\* What the application should have got is made of the parts that have arrived.
LEMMA ExpectedWanted ==
    ASSUME NEW q \in AllStreams, q # NULL, NEW n
    PROVE  Expected(q, n) = FlattenSeq(Wanted(q, n))
  <1>1. Frames(q) = q /\ DOMAIN q = 1 .. Len(q)
    BY StreamFrames, StreamFacts
  <1> QED BY <1>1, Zenon DEF Expected, Wanted, Part, Item, Text

\* No more of a frame arrives than its data.
LEMMA ArrivedRange ==
    ASSUME NEW q \in AllStreams, q # NULL, NEW n \in Nat, NEW k \in 1 .. Len(q)
    PROVE  Arrived(q, k, n) \in 0 .. Len(q[k].data)
  <1> DEFINE l == Len(q[k].data)
             e == Ends[q][k]
  <1>1. q[k] \in FrameType /\ k \in 0 .. Len(q)
    BY StreamFacts
  <1>2. l \in Nat /\ e \in Nat
    BY <1>1, StreamFacts, FrameFields
  <1>3. Arrived(q, k, n) = IF n <= e - l THEN 0 ELSE IF n >= e THEN l ELSE n - (e - l)
    BY DEF Arrived
  <1> HIDE DEF l, e
  <1>4. Arrived(q, k, n) \in 0 .. l
    BY <1>2, <1>3
  <1> QED BY <1>4 DEF l

\* Those parts are sequences of items.
LEMMA WantedType ==
    ASSUME NEW q \in AllStreams, q # NULL, NEW n \in Nat
    PROVE  /\ Wanted(q, n) \in Seq(Seq(ItemType)) /\ Len(Wanted(q, n)) = Len(q)
           /\ \A k \in 1 .. Len(q) : Wanted(q, n)[k] \in Seq(ItemType)
  <1> DEFINE N == Len(q)
             W == Wanted(q, n)
  <1>1. N \in Nat /\ \A k \in 1 .. N : q[k] \in FrameType
    BY StreamFacts
  <1>2. ASSUME NEW k \in 1 .. N PROVE W[k] \in Seq(ItemType)
    <2>1. PICK m : m = IF Text(q[k]) THEN Arrived(q, k, n) ELSE 0
      OBVIOUS
    <2>2. q[k] \in FrameType /\ Len(q[k].data) \in Nat
      BY <1>1, FrameFields
    <2>3. m \in 0 .. Len(q[k].data)
      BY <2>1, <2>2, ArrivedRange
    <2>4. W[k] = Part(q[k], m)
      BY <2>1 DEF Wanted
    <2> QED BY <2>2, <2>3, <2>4, PartType
  <1>3. W = [k \in 1 .. N |-> W[k]] /\ DOMAIN W = 1 .. N
    BY DEF Wanted
  <1> HIDE DEF W, N
  <1>4. W \in [1 .. N -> Seq(ItemType)]
    BY <1>2, <1>3
  <1>5. W \in Seq(Seq(ItemType))
    BY <1>1, <1>4, SeqDef
  <1>6. PICK l : l = Len(W)
    OBVIOUS
  <1>7. l \in Nat /\ 1 .. l = 1 .. N
    BY <1>3, <1>5, <1>6, LenProperties
  <1>8. l = N
    BY <1>1, <1>7
  <1> QED BY <1>2, <1>5, <1>6, <1>8 DEF W, N

\* Nothing is expected of an empty stream, nor at the start of one.
LEMMA ExpectedStart ==
    ASSUME NEW q \in AllStreams
    PROVE  Expected(q, 0) = <<>> /\ Pinged(q, 0) = {}
  <1>1. CASE q = NULL
    <2>1. Frames(q) = <<>> /\ DOMAIN Frames(q) = {}
      BY <1>1 DEF Frames
    <2>2. Pinged(q, 0) = {}
      BY <2>1 DEF Pinged
    <2>3. Expected(q, 0) = FlattenSeq(<<>>)
      BY <2>1 DEF Expected
    <2>4. FlattenSeq(<<>>) = <<>>
      <3>1. <<>> \in Seq(Seq(Int)) /\ Len(<<>>) = 0
        BY EmptySeq
      <3>2. PICK g : g = <<>>
        OBVIOUS
      <3>3. g \in Seq(Seq(Int)) /\ \A i \in 1 .. Len(g) : g[i] = <<>>
        BY <3>1, <3>2
      <3> QED BY <3>2, <3>3, FlattenNothing
    <2> QED BY <2>2, <2>3, <2>4
  <1>2. CASE q # NULL
    <2>1. ASSUME NEW k \in 1 .. Len(q) PROVE Arrived(q, k, 0) = 0
      <3> DEFINE l == Len(q[k].data)
                 h == HeadLen(q[k])
                 e == Ends[q][k]
                 e0 == Ends[q][k - 1]
      <3>1. q[k] \in FrameType /\ e0 \in Nat /\ e = e0 + Total(q[k])
        BY <1>2, StreamFacts
      <3>2. l \in Nat /\ h \in Nat /\ Total(q[k]) = h + l
        BY <3>1, FrameFields
      <3>3. Arrived(q, k, 0) = IF 0 <= e - l THEN 0 ELSE IF 0 >= e THEN l ELSE 0 - (e - l)
        BY DEF Arrived
      <3> HIDE DEF l, h, e, e0
      <3>4. 0 <= e - l
        BY <3>1, <3>2
      <3> QED BY <3>3, <3>4
    <2>2. Frames(q) = q /\ DOMAIN q = 1 .. Len(q)
      BY <1>2, StreamFrames, StreamFacts
    <2>3. Pinged(q, 0) = {}
      BY <2>1, <2>2 DEF Pinged
    <2>4. \A k \in 1 .. Len(q) : Wanted(q, 0)[k] = <<>>
      <3> SUFFICES ASSUME NEW k \in 1 .. Len(q) PROVE Wanted(q, 0)[k] = <<>>
        OBVIOUS
      <3>1. Wanted(q, 0)[k] = Part(q[k], 0)
        BY <2>1 DEF Wanted
      <3>2. Part(q[k], 0) = <<>>
        BY DEF Part
      <3> QED BY <3>1, <3>2
    <2>5. Wanted(q, 0) \in Seq(Seq(ItemType)) /\ Len(Wanted(q, 0)) = Len(q)
      BY <1>2, WantedType
    <2>6. FlattenSeq(Wanted(q, 0)) = <<>>
      BY <2>4, <2>5, FlattenNothing
    <2> QED BY <1>2, <2>3, <2>6, ExpectedWanted
  <1> QED BY <1>1, <1>2

\* What arrives of frames that have no text changes nothing.
LEMMA ExpectedSame ==
    ASSUME NEW q \in AllStreams, q # NULL, NEW n, NEW m,
           \A j \in 1 .. Len(q) : Text(q[j]) => Arrived(q, j, n) = Arrived(q, j, m)
    PROVE  Expected(q, n) = Expected(q, m)
  <1>1. \A j \in 1 .. Len(q) : (IF Text(q[j]) THEN Arrived(q, j, n) ELSE 0) =
                               (IF Text(q[j]) THEN Arrived(q, j, m) ELSE 0)
    OBVIOUS
  <1>2. Wanted(q, n) = Wanted(q, m)
    BY <1>1, Zenon DEF Wanted
  <1> QED BY <1>2, ExpectedWanted

\* The same for the PING frames.
LEMMA PingedSame ==
    ASSUME NEW q \in AllStreams, q # NULL, NEW n, NEW m,
           \A j \in 1 .. Len(q) : q[j].op = OPCODE_PING => Arrived(q, j, n) = Arrived(q, j, m)
    PROVE  Pinged(q, n) = Pinged(q, m)
  <1>1. Frames(q) = q /\ DOMAIN q = 1 .. Len(q)
    BY StreamFrames, StreamFacts
  <1> QED BY <1>1 DEF Pinged

\* The head of a frame brings no data.
LEMMA HeadKeeps ==
    ASSUME NEW q \in AllStreams, q # NULL, NEW k \in 1 .. Len(q), NEW n \in Nat,
           Ends[q][k - 1] <= n, n + 1 <= Ends[q][k - 1] + HeadLen(q[k])
    PROVE  Expected(q, n + 1) = Expected(q, n) /\ Pinged(q, n + 1) = Pinged(q, n)
  <1> DEFINE d0 == Ends[q][k - 1]
             d == Ends[q][k]
             h == HeadLen(q[k])
             l == Len(q[k].data)
  <1>1. q[k] \in FrameType /\ d0 \in Nat /\ d = d0 + Total(q[k])
    BY StreamFacts
  <1>2. h \in Nat /\ l \in Nat /\ Total(q[k]) = h + l
    BY <1>1, FrameFields
  <1>3. d0 <= n /\ n + 1 <= d0 + h
    OBVIOUS
  <1> HIDE DEF d0, d, h, l
  <1>4. n <= d /\ d0 <= n + 1 /\ n + 1 <= d /\ n <= d0 + h /\ n + 1 \in Nat
    BY <1>1, <1>2, <1>3
  <1>5. ASSUME NEW j \in 1 .. Len(q) PROVE Arrived(q, j, n + 1) = Arrived(q, j, n)
    <2>1. Arrived(q, j, n) = IF j < k THEN Len(q[j].data)
                             ELSE IF j > k \/ n <= d0 + h THEN 0 ELSE n - (d0 + h)
      BY <1>3, <1>4, Arrivals DEF d0, d, h
    <2>2. PICK m \in Nat : m = n + 1
      BY <1>4
    <2>3. Arrived(q, j, m) = IF j < k THEN Len(q[j].data)
                             ELSE IF j > k \/ m <= d0 + h THEN 0 ELSE m - (d0 + h)
      BY <1>4, <2>2, Arrivals DEF d0, d, h
    <2> QED BY <1>3, <1>4, <2>1, <2>2, <2>3, Zenon
  <1> QED BY <1>5, ExpectedSame, PingedSame

\* Data does, in its order.
LEMMA DataArrives ==
    ASSUME NEW q \in AllStreams, q # NULL, NEW k \in 1 .. Len(q), NEW n \in Nat, NEW m \in Nat,
           Ends[q][k - 1] + HeadLen(q[k]) <= n, n + m <= Ends[q][k]
    PROVE  LET d == n - (Ends[q][k - 1] + HeadLen(q[k]))
           IN  /\ d \in Nat /\ d + m <= Len(q[k].data) /\ q[k] \in FrameType
               /\ Arrived(q, k, n) = d /\ Arrived(q, k, n + m) = d + m
               /\ \A j \in 1 .. Len(q) : j # k => Arrived(q, j, n + m) = Arrived(q, j, n)
               /\ \A j \in 1 .. Len(q) : j > k => Arrived(q, j, n) = 0
  <1> DEFINE d0 == Ends[q][k - 1]
             e == Ends[q][k]
             h == HeadLen(q[k])
             l == Len(q[k].data)
             d == n - (d0 + h)
  <1>1. q[k] \in FrameType /\ d0 \in Nat /\ e = d0 + Total(q[k]) /\ Len(q) \in Nat
    BY StreamFacts
  <1>2. h \in Nat /\ l \in Nat /\ Total(q[k]) = h + l
    BY <1>1, FrameFields
  <1>3. d0 + h <= n /\ n + m <= e
    OBVIOUS
  <1> HIDE DEF d0, e, h, l
  <1>4. /\ d0 <= n /\ n <= e /\ d0 <= n + m /\ n + m \in Nat /\ k \in Nat
        /\ d \in Nat /\ d + m <= l
    BY <1>1, <1>2, <1>3
  <1>5. ASSUME NEW j \in 1 .. Len(q), NEW x \in Nat, d0 <= x, x <= e
        PROVE  Arrived(q, j, x) = IF j < k THEN Len(q[j].data)
                                  ELSE IF j > k \/ x <= d0 + h THEN 0 ELSE x - (d0 + h)
    BY <1>5, Arrivals DEF d0, e, h
  <1>6. /\ Arrived(q, k, n) = IF n <= d0 + h THEN 0 ELSE n - (d0 + h)
        /\ Arrived(q, k, n + m) = IF n + m <= d0 + h THEN 0 ELSE (n + m) - (d0 + h)
    <2>1. ~(k < k) /\ ~(k > k)
      BY <1>4
    <2>2. Arrived(q, k, n) = IF n <= d0 + h THEN 0 ELSE n - (d0 + h)
      BY <1>4, <1>5, <2>1
    <2>3. Arrived(q, k, n + m) = IF n + m <= d0 + h THEN 0 ELSE (n + m) - (d0 + h)
      <3>1. PICK x \in Nat : x = n + m
        BY <1>4
      <3>2. d0 <= x /\ x <= e
        BY <1>3, <1>4, <3>1
      <3>3. Arrived(q, k, x) = IF x <= d0 + h THEN 0 ELSE x - (d0 + h)
        BY <1>5, <2>1, <3>2
      <3> QED BY <3>1, <3>3
    <2> QED BY <2>2, <2>3
  <1>7. Arrived(q, k, n) = d /\ Arrived(q, k, n + m) = d + m
    BY <1>1, <1>2, <1>3, <1>6
  <1>8. ASSUME NEW j \in 1 .. Len(q), j # k
        PROVE  /\ Arrived(q, j, n + m) = Arrived(q, j, n)
               /\ j > k => Arrived(q, j, n) = 0
    <2>1. PICK x \in Nat : x = n + m
      BY <1>4
    <2>2. d0 <= x /\ x <= e
      BY <1>3, <1>4, <2>1
    <2>3. j < k \/ j > k
      BY <1>4, <1>8
    <2>4. Arrived(q, j, n) = IF j < k THEN Len(q[j].data) ELSE 0
      BY <1>4, <1>5, <2>3
    <2>5. Arrived(q, j, x) = IF j < k THEN Len(q[j].data) ELSE 0
      BY <1>5, <2>2, <2>3
    <2>6. j > k => ~(j < k)
      BY <1>4
    <2> QED BY <2>1, <2>4, <2>5, <2>6
  <1> QED BY <1>1, <1>4, <1>7, <1>8 DEF d0, h, l

\* Data of a frame that arrives is appended to what the application should have.
LEMMA ExpectedGrows ==
    ASSUME NEW q \in AllStreams, q # NULL, NEW k \in 1 .. Len(q), NEW n \in Nat, NEW m \in Nat,
           Ends[q][k - 1] + HeadLen(q[k]) <= n, n + m <= Ends[q][k],
           NEW d, d = n - (Ends[q][k - 1] + HeadLen(q[k]))
    PROVE  /\ Text(q[k]) => Expected(q, n + m) =
                                Expected(q, n) \o [j \in 1 .. m |-> Item(q[k], d + j)]
           /\ ~Text(q[k]) => Expected(q, n + m) = Expected(q, n)
  <1>1. /\ d \in Nat /\ d + m <= Len(q[k].data) /\ q[k] \in FrameType
        /\ Arrived(q, k, n) = d /\ Arrived(q, k, n + m) = d + m
        /\ \A j \in 1 .. Len(q) : j # k => Arrived(q, j, n + m) = Arrived(q, j, n)
        /\ \A j \in 1 .. Len(q) : j > k => Arrived(q, j, n) = 0
    BY DataArrives
  <1>2. ASSUME ~Text(q[k]) PROVE Expected(q, n + m) = Expected(q, n)
    <2>1. \A j \in 1 .. Len(q) : Text(q[j]) => Arrived(q, j, n + m) = Arrived(q, j, n)
      BY <1>1, <1>2
    <2> QED BY <2>1, ExpectedSame
  <1>3. ASSUME Text(q[k])
        PROVE  Expected(q, n + m) = Expected(q, n) \o [j \in 1 .. m |-> Item(q[k], d + j)]
    <2> DEFINE g == Wanted(q, n)
               h == Wanted(q, n + m)
               D == [j \in 1 .. m |-> Item(q[k], d + j)]
    <2>1. /\ g \in Seq(Seq(ItemType)) /\ Len(g) = Len(q)
          /\ \A i \in 1 .. Len(q) : g[i] \in Seq(ItemType)
      BY WantedType
    <2>2. /\ h \in Seq(Seq(ItemType)) /\ Len(h) = Len(q)
          /\ \A i \in 1 .. Len(q) : h[i] \in Seq(ItemType)
      <3>1. n + m \in Nat
        OBVIOUS
      <3> QED BY <3>1, WantedType
    <2>3. D \in Seq(ItemType) /\ Part(q[k], d + m) = Part(q[k], d) \o D
      BY <1>1, PartGrows
    <2>4. h[k] = g[k] \o D
      <3>1. g[k] = Part(q[k], d) /\ h[k] = Part(q[k], d + m)
        BY <1>1, <1>3 DEF Wanted
      <3> QED BY <2>3, <3>1, Zenon
    <2>5. ASSUME NEW i \in 1 .. Len(q), i # k
          PROVE  /\ h[i] = g[i]
                 /\ i > k => g[i] = <<>>
      <3>1. /\ g[i] = Part(q[i], IF Text(q[i]) THEN Arrived(q, i, n) ELSE 0)
            /\ h[i] = Part(q[i], IF Text(q[i]) THEN Arrived(q, i, n + m) ELSE 0)
        BY Zenon DEF Wanted
      <3>2. h[i] = g[i]
        <4>1. Arrived(q, i, n + m) = Arrived(q, i, n)
          BY <1>1, <2>5
        <4>2. PICK x, y : x = g[i] /\ y = h[i]
          OBVIOUS
        <4>3. /\ Text(q[i]) => x = Part(q[i], Arrived(q, i, n))
              /\ Text(q[i]) => y = Part(q[i], Arrived(q, i, n + m))
              /\ ~Text(q[i]) => x = Part(q[i], 0) /\ y = Part(q[i], 0)
          BY <3>1, <4>2
        <4>4. x = y
          BY <4>1, <4>3
        <4> QED BY <4>2, <4>4
      <3>3. ASSUME i > k PROVE g[i] = <<>>
        <4>1. Arrived(q, i, n) = 0
          BY <1>1, <3>3
        <4>2. g[i] = Part(q[i], 0)
          BY <3>1, <4>1
        <4>3. Part(q[i], 0) = <<>>
          BY DEF Part
        <4> QED BY <4>2, <4>3
      <3> QED BY <3>2, <3>3
    <2>6. Len(q) \in Nat
      BY StreamFacts
    <2> HIDE DEF g, h, D
    <2>7. Grows(ItemType, Len(q), g, h, k, D)
      <3>1. \A i \in 1 .. Len(q) : i < k => h[i] = g[i]
        <4>1. \A i \in 1 .. Len(q) : i < k => i # k
          BY <2>6
        <4> QED BY <2>5, <4>1
      <3>2. \A i \in 1 .. Len(q) : i > k => g[i] = <<>> /\ h[i] = <<>>
        <4>1. \A i \in 1 .. Len(q) : i > k => i # k
          BY <2>6
        <4> QED BY <2>5, <4>1
      <3> QED BY <2>1, <2>2, <2>4, <3>1, <3>2 DEF Grows
    <2>8. FlattenSeq(h) = FlattenSeq(g) \o D
      BY <2>1, <2>2, <2>3, <2>6, <2>7, FlattenGrows
    <2>9. Expected(q, n) = FlattenSeq(g) /\ Expected(q, n + m) = FlattenSeq(h)
      BY ExpectedWanted DEF g, h
    <2> QED BY <2>8, <2>9, Zenon DEF D
  <1> QED BY <1>2, <1>3

\* There are finitely many PING frames in a stream.
LEMMA PingedFinite ==
    ASSUME NEW q \in AllStreams, q # NULL, NEW n
    PROVE  IsFiniteSet(Pinged(q, n)) /\ Cardinality(Pinged(q, n)) \in Nat
  <1>1. Frames(q) = q /\ DOMAIN q = 1 .. Len(q) /\ Len(q) \in Nat
    BY StreamFrames, StreamFacts
  <1>2. Pinged(q, n) \subseteq 1 .. Len(q)
    BY <1>1 DEF Pinged
  <1>3. IsFiniteSet(1 .. Len(q))
    BY <1>1, FS_Interval
  <1>4. IsFiniteSet(Pinged(q, n))
    BY <1>2, <1>3, FS_Subset
  <1> QED BY <1>4, FS_CardinalityType

\* A PING counts from its first byte of data on.
LEMMA PingedGrows ==
    ASSUME NEW q \in AllStreams, q # NULL, NEW k \in 1 .. Len(q), NEW n \in Nat, NEW m \in Nat,
           m > 0, Ends[q][k - 1] + HeadLen(q[k]) <= n, n + m <= Ends[q][k]
    PROVE  Cardinality(Pinged(q, n + m)) = Cardinality(Pinged(q, n)) +
               IF q[k].op = OPCODE_PING /\ n = Ends[q][k - 1] + HeadLen(q[k]) THEN 1 ELSE 0
  <1> DEFINE b == Ends[q][k - 1] + HeadLen(q[k])
  <1>0. PICK d : d = n - b
    OBVIOUS
  <1>1. /\ d \in Nat
        /\ Arrived(q, k, n) = d /\ Arrived(q, k, n + m) = d + m
        /\ \A j \in 1 .. Len(q) : j # k => Arrived(q, j, n + m) = Arrived(q, j, n)
    BY <1>0, DataArrives
  <1>2. Frames(q) = q /\ DOMAIN q = 1 .. Len(q) /\ Len(q) \in Nat
    BY StreamFrames, StreamFacts
  <1>3. /\ IsFiniteSet(Pinged(q, n)) /\ Cardinality(Pinged(q, n)) \in Nat
    BY PingedFinite
  <1>4. b \in Nat
    <2>1. q[k] \in FrameType /\ Ends[q][k - 1] \in Nat
      BY StreamFacts
    <2>2. HeadLen(q[k]) \in Nat
      BY <2>1, FrameFields
    <2> QED BY <2>1, <2>2
  <1> HIDE DEF b
  <1>5. n = b <=> d = 0
    BY <1>0, <1>4
  <1>6. CASE q[k].op = OPCODE_PING
    <2>1. k \in Pinged(q, n + m)
      BY <1>1, <1>2, <1>6 DEF Pinged
    <2>2. k \in Pinged(q, n) <=> d > 0
      BY <1>1, <1>2, <1>6 DEF Pinged
    <2>3. \A j \in 1 .. Len(q) : j # k => (j \in Pinged(q, n + m) <=> j \in Pinged(q, n))
      BY <1>1, <1>2 DEF Pinged
    <2>4. Pinged(q, n + m) = Pinged(q, n) \cup {k}
      <3>1. Pinged(q, n) \subseteq 1 .. Len(q) /\ Pinged(q, n + m) \subseteq 1 .. Len(q)
        BY <1>2 DEF Pinged
      <3> QED BY <2>1, <2>3, <3>1
    <2>5. CASE d = 0
      <3>1. k \notin Pinged(q, n)
        BY <2>2, <2>5
      <3>2. Cardinality(Pinged(q, n) \cup {k}) = Cardinality(Pinged(q, n)) + 1
        BY <1>3, <3>1, FS_AddElement
      <3> QED BY <1>5, <1>6, <2>4, <2>5, <3>2 DEF b
    <2>6. CASE d # 0
      <3>1. k \in Pinged(q, n)
        BY <1>1, <2>2, <2>6
      <3>2. Pinged(q, n + m) = Pinged(q, n)
        BY <2>4, <3>1
      <3>3. Cardinality(Pinged(q, n + m)) = Cardinality(Pinged(q, n)) + 0
        BY <1>3, <3>2
      <3>4. n # b
        BY <1>5, <2>6
      <3> QED BY <3>3, <3>4 DEF b
    <2> QED BY <2>5, <2>6
  <1>7. CASE q[k].op # OPCODE_PING
    <2>1. Pinged(q, n + m) = Pinged(q, n)
      <3>1. \A j \in 1 .. Len(q) : q[j].op = OPCODE_PING => Arrived(q, j, n + m) = Arrived(q, j, n)
        BY <1>1, <1>7
      <3> QED BY <3>1, PingedSame
    <2>2. Cardinality(Pinged(q, n + m)) = Cardinality(Pinged(q, n)) + 0
      BY <1>3, <2>1
    <2> QED BY <1>7, <2>2
  <1> QED BY <1>6, <1>7

\* A packet with a part of one frame: the parser is in that frame, or before it.
InFrame(ws, q, k, from, to) ==
    /\ Ends[q][k - 1] <= from /\ to <= Ends[q][k] /\ q[k].data # <<>>
    /\ IF from = Ends[q][k - 1] THEN ws.wsStatus = ST_FLAGS
       ELSE Inside(ws, q[k], from - Ends[q][k - 1])

\* There is one for every packet that is a part of one frame.
LEMMA FrameOfPacket ==
    ASSUME NEW q \in AllStreams, q # NULL, NEW from \in Nat, NEW to \in Nat, from < to,
           InOneFrame(q, from, to), NEW ws, Agrees(ws, q, from)
    PROVE  \E k \in 1 .. Len(q) : InFrame(ws, q, k, from, to)
  <1>1. DOMAIN q = 1 .. Len(q) /\ Len(q) \in Nat
    BY StreamFacts
  <1>2. PICK k \in 1 .. Len(q) : Ends[q][k - 1] <= from /\ to <= Ends[q][k] /\ q[k].data # <<>>
    BY <1>1 DEF InOneFrame
  <1> DEFINE e == Ends[q]
  <1>3. \A j \in 0 .. Len(q) : e[j] \in Nat /\ \A i \in 0 .. j : e[i] <= e[j]
    BY StreamFacts
  <1>4. e[k - 1] <= from /\ to <= e[k]
    BY <1>2
  <1>5. k \in Nat /\ k >= 1 /\ k <= Len(q) /\ k \in 0 .. Len(q) /\ k - 1 \in 0 .. Len(q)
    BY <1>1
  <1> HIDE DEF e
  <1>6. CASE Between(ws, q, from)
    <2>1. PICK j \in 0 .. Len(q) : from = e[j]
      BY <1>6 DEF Between, e
    <2>2. j <= k - 1
      <3> SUFFICES ASSUME ~(j <= k - 1) PROVE FALSE
        OBVIOUS
      <3>1. k \in 0 .. j
        BY <1>5
      <3>2. e[k] <= e[j] /\ e[k] \in Nat /\ e[j] \in Nat
        BY <1>3, <1>5, <3>1
      <3> QED BY <1>4, <2>1, <3>2
    <2>3. e[j] <= e[k - 1] /\ e[k - 1] \in Nat
      <3>1. j \in 0 .. k - 1
        BY <1>5, <2>2
      <3> QED BY <1>3, <1>5, <3>1
    <2>4. from = e[k - 1]
      BY <1>4, <2>1, <2>3
    <2>5. ws.wsStatus = ST_FLAGS
      BY <1>6 DEF Between
    <2> QED BY <1>2, <2>4, <2>5 DEF InFrame, e
  <1>7. CASE Within(ws, q, from)
    <2>1. PICK j \in 1 .. Len(q) : /\ e[j - 1] < from /\ from < e[j]
                                   /\ Inside(ws, q[j], from - e[j - 1])
      BY <1>1, <1>7 DEF Within, e
    <2>2. j \in 0 .. Len(q) /\ j - 1 \in 0 .. Len(q)
      BY <1>1
    <2>3. e[j] \in Nat /\ e[j - 1] \in Nat /\ e[k] \in Nat /\ e[k - 1] \in Nat
      BY <1>3, <1>5, <2>2
    <2>4. ~(j < k)
      <3> SUFFICES ASSUME j < k PROVE FALSE
        OBVIOUS
      <3>1. j \in 0 .. k - 1
        BY <1>5
      <3>2. e[j] <= e[k - 1]
        BY <1>3, <1>5, <3>1
      <3> QED BY <1>4, <2>1, <2>3, <3>2
    <2>5. ~(j > k)
      <3> SUFFICES ASSUME j > k PROVE FALSE
        OBVIOUS
      <3>1. k \in 0 .. j - 1
        BY <1>5
      <3>2. e[k] <= e[j - 1]
        BY <1>3, <2>2, <3>1
      <3> QED BY <1>4, <2>1, <2>3, <3>2
    <2>6. j = k
      BY <1>5, <2>4, <2>5
    <2>7. from # e[k - 1] /\ Inside(ws, q[k], from - e[k - 1])
      BY <2>1, <2>3, <2>6
    <2> QED BY <1>2, <2>7 DEF InFrame, e
  <1> QED BY <1>6, <1>7 DEF Agrees

\* A byte of a head leads on in the frame, and brings nothing.
LEMMA ReadHead ==
    ASSUME NEW q \in AllStreams, q # NULL, NEW from \in Nat, NEW to \in Nat, from < to,
           to <= Len(Bytes[q]), InOneFrame(q, from, to), NEW ws, ParserOK(ws),
           ws.wsStatus # ST_PAYLOAD, Agrees(ws, q, from)
    PROVE  /\ Agrees(HeadByte(ws, Bytes[q][from + 1]), q, from + 1)
           /\ Expected(q, from + 1) = Expected(q, from)
           /\ Pinged(q, from + 1) = Pinged(q, from)
           /\ from + 1 < to => InOneFrame(q, from + 1, to)
  <1>1. PICK k \in 1 .. Len(q) : InFrame(ws, q, k, from, to)
    BY FrameOfPacket
  <1> DEFINE f == q[k]
             e0 == Ends[q][k - 1]
             e == Ends[q][k]
             h == HeadLen(f)
             l == Len(f.data)
  <1>2. PICK p : p = from - e0
    OBVIOUS
  <1>3. f \in FrameType /\ e0 \in Nat /\ e = e0 + Total(f) /\ DOMAIN q = 1 .. Len(q)
    BY StreamFacts
  <1>4. h \in Nat /\ l \in Nat /\ Total(f) = h + l /\ f.data \in Seq(Byte)
    BY <1>3, FrameFields
  <1>5. e0 <= from /\ to <= e /\ f.data # <<>>
    BY <1>1 DEF InFrame
  <1>6. l > 0
    <2>1. l # 0
      BY <1>4, <1>5, EmptySeq
    <2> QED BY <1>4, <2>1
  <1>7. p \in Nat /\ from = e0 + p
    BY <1>2, <1>3, <1>5
  <1>8. IF p = 0 THEN ws.wsStatus = ST_FLAGS ELSE Inside(ws, f, p)
    <2>1. CASE from = e0
      <3>1. p = 0 /\ ws.wsStatus = ST_FLAGS
        BY <1>1, <1>2, <1>3, <2>1 DEF InFrame
      <3> QED BY <3>1
    <2>2. CASE from # e0
      <3>1. p # 0
        BY <1>2, <1>3, <2>2
      <3>2. Inside(ws, f, p)
        BY <1>1, <1>2, <2>2 DEF InFrame
      <3> QED BY <3>1, <3>2
    <2> QED BY <2>1, <2>2
  <1>9. p + 1 <= h /\ Inside(HeadByte(ws, Encoded(f)[p + 1]), f, p + 1)
    BY <1>3, <1>7, <1>8, HeadStep
  <1>10. Bytes[q][from + 1] = Encoded(f)[p + 1]
    <2>1. p + 1 \in 1 .. Total(f)
      BY <1>4, <1>7, <1>9
    <2>2. Bytes[q][e0 + (p + 1)] = Encoded(f)[p + 1]
      BY <2>1, StreamFacts
    <2>3. from + 1 = e0 + (p + 1)
      BY <1>3, <1>7
    <2> QED BY <2>2, <2>3
  <1>11. e0 < from + 1 /\ from + 1 < e /\ (from + 1) - e0 = p + 1 /\ from + 1 <= e0 + h /\ e0 <= from
    <2> HIDE DEF e0, e, h, l, f
    <2> QED BY <1>3, <1>4, <1>6, <1>7, <1>9
  <1>12. Agrees(HeadByte(ws, Bytes[q][from + 1]), q, from + 1)
    BY <1>3, <1>5, <1>9, <1>10, <1>11 DEF Agrees, Within
  <1>13. Expected(q, from + 1) = Expected(q, from) /\ Pinged(q, from + 1) = Pinged(q, from)
    BY <1>11, HeadKeeps
  <1>14. from + 1 < to => InOneFrame(q, from + 1, to)
    <2>1. e0 <= from + 1 /\ to <= e
      BY <1>3, <1>5, <1>11
    <2> QED BY <1>3, <1>5, <2>1 DEF InOneFrame
  <1> QED BY <1>12, <1>13, <1>14

\* The bytes from one of a stream to another, as they lie in a frame that begins at s
\* and has t bytes: m of them, from its byte p on.
Lies(s, t, from, to, p, m) ==
    /\ s \in Nat /\ t \in Nat /\ p \in Nat /\ m \in Nat /\ m > 0 /\ p + m <= t
    /\ from = s + p /\ to = from + m /\ to = s + (p + m)

\* The numbers of such a packet.
LEMMA Offsets ==
    ASSUME NEW s \in Nat, NEW t \in Nat, NEW from \in Nat, NEW to \in Nat, from < to,
           s <= from, to <= s + t
    PROVE  Lies(s, t, from, to, from - s, to - from)
  BY DEF Lies

\* Its bytes lie within the frame.
LEMMA LiesWithin ==
    ASSUME NEW s, NEW t, NEW from, NEW to, NEW p, NEW m, Lies(s, t, from, to, p, m), NEW j \in 1 .. m
    PROVE  /\ j \in 1 .. to - (from + 1) + 1
           /\ from + 1 + j - 1 = s + (p + j)
           /\ p + j \in 1 .. t
  BY DEF Lies

\* A part of a sequence of bytes.
LEMMA PartOfBytes ==
    ASSUME NEW B \in Seq(Byte), NEW from \in Nat, NEW to \in Nat, from < to, to <= Len(B)
    PROVE  /\ SubSeq(B, from + 1, to) \in Seq(Byte) /\ Len(SubSeq(B, from + 1, to)) = to - from
           /\ \A j \in 1 .. to - (from + 1) + 1 : SubSeq(B, from + 1, to)[j] = B[from + 1 + j - 1]
  <1>1. \A i \in from + 1 .. to : B[i] \in Byte
    <2>1. \A i \in from + 1 .. to : i \in 1 .. Len(B)
      BY LenProperties
    <2> QED BY <2>1, LenProperties
  <1>2. from + 1 \in Int /\ to \in Int
    OBVIOUS
  <1>3. PICK b : b = SubSeq(B, from + 1, to)
    OBVIOUS
  <1>4. /\ b \in Seq(Byte) /\ Len(b) = IF from + 1 <= to THEN to - (from + 1) + 1 ELSE 0
        /\ \A j \in 1 .. to - (from + 1) + 1 : b[j] = B[from + 1 + j - 1]
    BY <1>1, <1>2, <1>3, SubSeqProperties
  <1>5. (IF from + 1 <= to THEN to - (from + 1) + 1 ELSE 0) = to - from
    OBVIOUS
  <1> QED BY <1>3, <1>4, <1>5

\* The bytes of a packet are those of the frame.
LEMMA PacketBytes ==
    ASSUME NEW q \in AllStreams, q # NULL, NEW k \in 1 .. Len(q), NEW from \in Nat, NEW to \in Nat,
           from < to, Ends[q][k - 1] <= from, to <= Ends[q][k]
    PROVE  /\ Lies(Ends[q][k - 1], Total(q[k]), from, to, from - Ends[q][k - 1], to - from)
           /\ Holds(q[k], from - Ends[q][k - 1], to - from, SubSeq(Bytes[q], from + 1, to))
           /\ Ends[q][k] = Ends[q][k - 1] + Total(q[k])
  <1>1. PICK B, s, t : B = Bytes[q] /\ s = Ends[q][k - 1] /\ t = Total(q[k])
    OBVIOUS
  <1>2. s \in Nat /\ Ends[q][k] = s + t /\ q[k] \in FrameType /\ B \in Seq(Byte) /\ Len(B) \in Nat
    BY <1>1, StreamFacts
  <1>3. t \in Nat
    BY <1>1, <1>2, FrameFields
  <1>4. s + t <= Len(B)
    <2>1. k \in 0 .. Len(q)
      BY StreamFacts
    <2> QED BY <1>1, <1>2, <2>1, StreamFacts
  <1>5. \A j \in 1 .. t : B[s + j] = Encoded(q[k])[j]
    BY <1>1, StreamFacts
  <1>6. s <= from /\ to <= s + t
    BY <1>1, <1>2
  <1>7. Lies(s, t, from, to, from - s, to - from)
    BY <1>2, <1>3, <1>6, Offsets
  <1>8. to <= Len(B)
    <2>1. s + t \in Nat
      BY <1>2, <1>3
    <2> QED BY <1>2, <1>4, <1>6, <2>1
  <1>9. PICK b, p, m : b = SubSeq(B, from + 1, to) /\ p = from - s /\ m = to - from
    OBVIOUS
  <1>10. /\ b \in Seq(Byte) /\ Len(b) = m
         /\ \A j \in 1 .. to - (from + 1) + 1 : b[j] = B[from + 1 + j - 1]
    BY <1>2, <1>8, <1>9, PartOfBytes
  <1>11. Lies(s, t, from, to, p, m)
    BY <1>7, <1>9
  <1>12. ASSUME NEW j \in 1 .. m PROVE b[j] = Encoded(q[k])[p + j]
    <2>1. /\ j \in 1 .. to - (from + 1) + 1 /\ from + 1 + j - 1 = s + (p + j)
          /\ p + j \in 1 .. t
      BY <1>11, LiesWithin
    <2>2. b[j] = B[s + (p + j)]
      BY <1>10, <2>1
    <2> QED BY <1>5, <2>1, <2>2
  <1>13. Holds(q[k], p, m, b)
    BY <1>10, <1>12 DEF Holds
  <1> QED BY <1>1, <1>2, <1>9, <1>11, <1>13

\* A parser in a payload is in the data of its frame.
LEMMA PayloadState ==
    ASSUME NEW f \in FrameType, NEW ws, ws.wsStatus = ST_PAYLOAD, NEW p \in Nat, Inside(ws, f, p)
    PROVE  /\ InData(ws, f, p) /\ ws.flags = Flags(f) /\ Opcode(ws) = f.op
           /\ IsMasked(ws) <=> f.masked
           /\ ws.frameCont <=> HeadLen(f) < p
  <1>1. f.ext \in {0, 2, 8} /\ HeadLen(f) >= 2 + f.ext /\ HeadLen(f) \in 0 .. 14
    BY FrameFields DEF HeadLen
  <1>2. ~InLength(ws, f, p)
    BY <1>1 DEF InLength, ST_PAYLOAD
  <1>3. ~InMask(ws, f, p)
    BY <1>1 DEF InMask, ST_PAYLOAD, ST_MASK1, HeadLen
  <1>4. InData(ws, f, p)
    BY <1>2, <1>3 DEF Inside, InHead
  <1>5. HeadLen(f) <= p /\ (ws.frameCont <=> HeadLen(f) < p)
    BY <1>4 DEF InData
  <1>6. ws.flags = Flags(f) /\ ws.len8 = LengthBytes(f)[1]
    BY <1>1, <1>5 DEF Inside
  <1>7. Opcode(ws) = f.op
    BY <1>6, FlagsByte DEF Opcode
  <1>8. IsMasked(ws) <=> f.masked
    BY <1>6, LengthField DEF IsMasked
  <1> QED BY <1>4, <1>5, <1>6, <1>7, <1>8

\* What is appended to what the application should have, as items.
LEMMA ExpectedItems ==
    ASSUME NEW q \in AllStreams, q # NULL, NEW k \in 1 .. Len(q), NEW n \in Nat, NEW m \in Nat,
           Ends[q][k - 1] + HeadLen(q[k]) <= n, n + m <= Ends[q][k]
    PROVE  LET d == n - (Ends[q][k - 1] + HeadLen(q[k]))
           IN  /\ Text(q[k]) => Expected(q, n + m) = Expected(q, n) \o Items(q[k], d, m)
               /\ ~Text(q[k]) => Expected(q, n + m) = Expected(q, n)
  BY ExpectedGrows, Zenon DEF Items

\* What is known of a parser in the data of frame f, from its byte p on, when the next
\* m bytes of it arrive.
LEMMA DataOfFrame ==
    ASSUME NEW f \in FrameType, NEW ws, ParserOK(ws), ws.wsStatus = ST_PAYLOAD,
           NEW p \in Nat, Inside(ws, f, p), NEW m \in Nat, p + m <= Total(f), m > 0,
           NEW bytes, Holds(f, p, m, bytes)
    PROVE  /\ HeadLen(f) <= p /\ Taken(ws, m) = m
           /\ IF p + m = Total(f) THEN AfterPayload(ws, m).wsStatus = ST_FLAGS
              ELSE Inside(AfterPayload(ws, m), f, p + m)
           /\ Opcode(ws) = f.op
           /\ IsMasked(ws) <=> f.masked
           /\ ws.frameCont <=> HeadLen(f) < p
           /\ f.masked => Given(ws, SubSeq(Unmasked(ws, bytes), 1, m)) =
                              Items(f, p - HeadLen(f), m)
  <1>1. /\ HeadLen(f) <= p /\ Taken(ws, m) = m
        /\ IF p + m = Total(f) THEN AfterPayload(ws, m).wsStatus = ST_FLAGS
           ELSE Inside(AfterPayload(ws, m), f, p + m)
    BY DataStep
  <1>2. /\ InData(ws, f, p) /\ ws.flags = Flags(f) /\ Opcode(ws) = f.op
        /\ IsMasked(ws) <=> f.masked
        /\ ws.frameCont <=> HeadLen(f) < p
    BY PayloadState
  <1>3. f.masked => Given(ws, SubSeq(Unmasked(ws, bytes), 1, m)) = Items(f, p - HeadLen(f), m)
    BY <1>2, GivenData
  <1> QED BY <1>1, <1>2, <1>3

\* What is left of a packet.
Holding(q, from, to, bytes) ==
    /\ from \in Nat /\ to \in Nat /\ from < to /\ to <= Len(Bytes[q])
    /\ bytes = SubSeq(Bytes[q], from + 1, to) /\ Len(bytes) = to - from
    /\ InOneFrame(q, from, to)

\* The rest of a packet in the data of a frame is taken as a whole; the application
\* gets what the client masked, and a PING is answered at its first byte of data.
LEMMA ReadData ==
    ASSUME NEW q \in AllStreams, q # NULL, NEW from, NEW to, NEW bytes,
           Holding(q, from, to, bytes), NEW ws, ParserOK(ws),
           ws.wsStatus = ST_PAYLOAD, Agrees(ws, q, from), NEW m, m = Len(bytes)
    PROVE  /\ Taken(ws, m) = m
           /\ Agrees(AfterPayload(ws, m), q, to)
           /\ Opcode(ws) \in DataOpcodes /\ IsMasked(ws) =>
                Expected(q, to) = Expected(q, from) \o Given(ws, SubSeq(Unmasked(ws, bytes), 1, m))
           /\ ~(Opcode(ws) \in DataOpcodes /\ IsMasked(ws)) => Expected(q, to) = Expected(q, from)
           /\ Cardinality(Pinged(q, to)) = Cardinality(Pinged(q, from)) +
                IF Opcode(ws) = OPCODE_PING /\ ~ws.frameCont THEN 1 ELSE 0
  <1>0. /\ from \in Nat /\ to \in Nat /\ from < to /\ m = to - from
        /\ bytes = SubSeq(Bytes[q], from + 1, to) /\ InOneFrame(q, from, to)
    BY DEF Holding
  <1> USE <1>0
  <1>1. PICK k \in 1 .. Len(q) : InFrame(ws, q, k, from, to)
    BY FrameOfPacket
  <1>2. PICK f, s, t, h : f = q[k] /\ s = Ends[q][k - 1] /\ t = Total(f) /\ h = HeadLen(f)
    OBVIOUS
  <1>3. PICK p : p = from - s
    OBVIOUS
  <1>4. f \in FrameType /\ DOMAIN q = 1 .. Len(q) /\ k \in 0 .. Len(q)
    BY <1>2, StreamFacts
  <1>5. h \in Nat
    BY <1>2, <1>4, FrameFields
  <1>6. Ends[q][k - 1] <= from /\ to <= Ends[q][k] /\ f.data # <<>>
    BY <1>1, <1>2 DEF InFrame
  <1>7. Lies(s, t, from, to, p, m) /\ Holds(f, p, m, bytes) /\ Ends[q][k] = s + t
    <2>1. /\ Lies(Ends[q][k - 1], Total(q[k]), from, to, from - Ends[q][k - 1], to - from)
          /\ Holds(q[k], from - Ends[q][k - 1], to - from, SubSeq(Bytes[q], from + 1, to))
          /\ Ends[q][k] = Ends[q][k - 1] + Total(q[k])
      BY <1>6, PacketBytes
    <2> QED BY <1>2, <1>3, <2>1, Zenon
  <1>8. Inside(ws, f, p)
    <2>1. from # s
      BY <1>1, <1>2 DEF InFrame, ST_FLAGS, ST_PAYLOAD
    <2> QED BY <1>1, <1>2, <1>3, <2>1 DEF InFrame
  <1>9. /\ s \in Nat /\ t \in Nat /\ p \in Nat /\ m \in Nat /\ m > 0 /\ p + m <= t
        /\ from = s + p /\ to = from + m /\ to = s + (p + m)
    BY <1>7 DEF Lies
  <1>10. /\ h <= p /\ Taken(ws, m) = m
         /\ IF p + m = t THEN AfterPayload(ws, m).wsStatus = ST_FLAGS
            ELSE Inside(AfterPayload(ws, m), f, p + m)
         /\ Opcode(ws) = f.op
         /\ IsMasked(ws) <=> f.masked
         /\ ws.frameCont <=> h < p
         /\ f.masked => Given(ws, SubSeq(Unmasked(ws, bytes), 1, m)) =
                            Items(f, p - h, m)
    <2>1. p \in Nat /\ m \in Nat /\ p + m <= Total(f) /\ m > 0
      BY <1>2, <1>9
    <2>2. /\ HeadLen(f) <= p /\ Taken(ws, m) = m
          /\ IF p + m = Total(f) THEN AfterPayload(ws, m).wsStatus = ST_FLAGS
             ELSE Inside(AfterPayload(ws, m), f, p + m)
          /\ Opcode(ws) = f.op
          /\ IsMasked(ws) <=> f.masked
          /\ ws.frameCont <=> HeadLen(f) < p
          /\ f.masked => Given(ws, SubSeq(Unmasked(ws, bytes), 1, m)) =
                             Items(f, p - HeadLen(f), m)
      BY <1>4, <1>7, <1>8, <2>1, DataOfFrame
    <2> QED BY <1>2, <2>2, Zenon
  <1>11. Agrees(AfterPayload(ws, m), q, to)
    <2>1. CASE p + m = t
      <3>1. to = Ends[q][k]
        BY <1>7, <1>9, <2>1
      <3> QED BY <1>4, <1>10, <2>1, <3>1 DEF Agrees, Between
    <2>2. CASE p + m # t
      <3>1. s < to /\ to < s + t /\ to - s = p + m
        BY <1>9, <2>2
      <3>2. k \in DOMAIN q /\ Ends[q][k - 1] < to /\ to < Ends[q][k] /\ q[k].data # <<>>
        BY <1>2, <1>4, <1>6, <1>7, <3>1
      <3>3. Inside(AfterPayload(ws, m), q[k], to - Ends[q][k - 1])
        BY <1>2, <1>10, <2>2, <3>1
      <3> QED BY <3>2, <3>3 DEF Agrees, Within
    <2> QED BY <2>1, <2>2
  <1>12. PICK d : d = p - h
    OBVIOUS
  <1>13. s + h <= from /\ from + m <= s + t /\ d = from - (s + h) /\ (from = s + h <=> ~(h < p))
    <2>1. h <= p
      BY <1>10
    <2>2. s + h <= s + p /\ from + m <= s + t /\ p - h = (s + p) - (s + h) /\ (s + p = s + h <=> ~(h < p))
      BY <1>5, <1>9, <2>1
    <2> QED BY <1>9, <1>12, <2>2
  <1>14. /\ Ends[q][k - 1] + HeadLen(q[k]) <= from /\ d = from - (Ends[q][k - 1] + HeadLen(q[k]))
         /\ from + m <= Ends[q][k] /\ to = from + m
    BY <1>2, <1>7, <1>9, <1>13
  <1>15. /\ Text(f) => Expected(q, to) = Expected(q, from) \o Items(f, d, m)
         /\ ~Text(f) => Expected(q, to) = Expected(q, from)
    <2>1. /\ Text(q[k]) => Expected(q, from + m) =
                               Expected(q, from) \o Items(q[k], d, m)
          /\ ~Text(q[k]) => Expected(q, from + m) = Expected(q, from)
      <3>1. m \in Nat
        BY <1>9
      <3> QED BY <1>14, <3>1, ExpectedItems
    <2> QED BY <1>2, <1>14, <2>1, Zenon
  <1>16. Text(f) <=> Opcode(ws) \in DataOpcodes /\ IsMasked(ws)
    BY <1>10 DEF Text
  <1>17. f.masked => Given(ws, SubSeq(Unmasked(ws, bytes), 1, m)) = Items(f, d, m)
    BY <1>10, <1>12, Zenon
  <1>18. /\ Opcode(ws) \in DataOpcodes /\ IsMasked(ws) =>
                Expected(q, to) = Expected(q, from) \o Given(ws, SubSeq(Unmasked(ws, bytes), 1, m))
         /\ ~(Opcode(ws) \in DataOpcodes /\ IsMasked(ws)) => Expected(q, to) = Expected(q, from)
    BY <1>15, <1>16, <1>17, Zenon DEF Text
  <1>19. Cardinality(Pinged(q, to)) = Cardinality(Pinged(q, from)) +
                IF Opcode(ws) = OPCODE_PING /\ ~ws.frameCont THEN 1 ELSE 0
    <2>1. Cardinality(Pinged(q, from + m)) = Cardinality(Pinged(q, from)) +
               IF q[k].op = OPCODE_PING /\ from = Ends[q][k - 1] + HeadLen(q[k]) THEN 1 ELSE 0
      <3>1. m \in Nat /\ m > 0
        BY <1>9
      <3> QED BY <1>14, <3>1, PingedGrows, Zenon
    <2>2. from = Ends[q][k - 1] + HeadLen(q[k]) <=> ~ws.frameCont
      BY <1>2, <1>10, <1>13
    <2>3. q[k].op = OPCODE_PING <=> Opcode(ws) = OPCODE_PING
      BY <1>2, <1>10
    <2> QED BY <1>14, <2>1, <2>2, <2>3
  <1> QED BY <1>10, <1>11, <1>18, <1>19

\* The mask stays a mask, whatever the bytes are.
LEMMA MaskKept ==
    ASSUME NEW ws, ParserOK(ws)
    PROVE  /\ ws.wsStatus # ST_PAYLOAD => \A b : DOMAIN HeadByte(ws, b).mask = 1 .. 4
           /\ \A n : DOMAIN AfterPayload(ws, n).mask = 1 .. 4
  <1> USE DEF ParserOK, SockOK, SockFields
  <1>1. \A n : DOMAIN AfterPayload(ws, n).mask = 1 .. 4
    BY DEF AfterPayload
  <1>2. ASSUME ws.wsStatus # ST_PAYLOAD, NEW b PROVE DOMAIN HeadByte(ws, b).mask = 1 .. 4
    <2> DEFINE st == ws.wsStatus
    <2>1. CASE st = ST_FLAGS
      BY <2>1, FlagsByteFields
    <2>2. CASE st = ST_LEN0 /\ b % 128 >= 126
      <3>1. HeadByte(ws, b) = [[ws EXCEPT !.len8 = b] EXCEPT !.len = 0, !.wsStatus = ST_LEN1]
        BY <2>2 DEF HeadByte, ST_FLAGS, ST_LEN0, ST_LEN1, ST_LEN8, ST_MASK1, ST_MASK4
      <3> QED BY <3>1
    <2>3. CASE st = ST_LEN0 /\ ~(b % 128 >= 126)
      <3>1. HeadByte(ws, b) = [[ws EXCEPT !.len8 = b] EXCEPT
                  !.len = b % 128, !.wsStatus = AfterLength([ws EXCEPT !.len8 = b])]
        BY <2>3 DEF HeadByte, ST_FLAGS, ST_LEN0, ST_LEN1, ST_LEN8, ST_MASK1, ST_MASK4
      <3> QED BY <3>1
    <2>4. CASE st \in ST_LEN1 .. ST_LEN8
      BY <2>4, NextLengthFields
    <2>5. CASE st \in ST_MASK1 .. ST_MASK4
      BY <2>5, MaskFields
    <2>6. st \in 0 .. 14 /\ st # 14
      BY <1>2 DEF ST_PAYLOAD
    <2> QED BY <2>1, <2>2, <2>3, <2>4, <2>5, <2>6
          DEF ST_FLAGS, ST_LEN0, ST_LEN1, ST_LEN8, ST_MASK1, ST_MASK4
  <1> QED BY <1>1, <1>2

\* What a step that does not parse leaves alone.
SameParser(ws, vs) ==
    /\ vs.flags = ws.flags /\ vs.len8 = ws.len8 /\ vs.len = ws.len /\ vs.mask = ws.mask
    /\ vs.maskCtr = ws.maskCtr /\ vs.frameCont = ws.frameCont /\ vs.wsStatus = ws.wsStatus

\* Then the parser stays where it was.
LEMMA SameAgrees ==
    ASSUME NEW ws, NEW vs, SameParser(ws, vs), NEW q, NEW n, Agrees(ws, q, n)
    PROVE  Agrees(vs, q, n)
  <1>1. ASSUME NEW f, NEW p, Inside(ws, f, p) PROVE Inside(vs, f, p)
    <2>1. InHead(ws, f, p) => InHead(vs, f, p)
      BY DEF SameParser, InHead, InLength, InMask
    <2>2. InData(ws, f, p) => InData(vs, f, p)
      BY DEF SameParser, InData
    <2> QED BY <1>1, <2>1, <2>2 DEF Inside, SameParser
  <1>2. Between(ws, q, n) => Between(vs, q, n)
    BY DEF SameParser, Between
  <1>3. Within(ws, q, n) => Within(vs, q, n)
    BY <1>1 DEF Within
  <1> QED BY <1>2, <1>3 DEF Agrees

-----------------------------------------------------------------------------
(* Connections and their slots *)

\* What a connection sends is one of the streams.
LEMMA StreamOf ==
    ASSUME Shapes, NEW c \in Conns
    PROVE  stream[c] \in AllStreams
  BY DEF Shapes, AllStreams

\* Each socket has one slot.
LEMMA OtherSocket ==
    ASSUME ListInv, NEW s \in Slots, NEW t \in Slots, s # t,
           slots[s].priv # NULL
    PROVE  slots[s].priv # slots[t].priv
  <1>1. socks[slots[s].priv].slot = s
    BY DEF ListInv, Owned, Backward
  <1>2. slots[t].priv # NULL => socks[slots[t].priv].slot = t
    BY DEF ListInv, Owned, Backward
  <1> QED BY <1>1, <1>2

\* A request takes a free slot.
LEMMA SlotTaken ==
    ASSUME ListInv, OneSlot, NEW s \in Slots, slots[s].conn = NULL, NEW c \in Conns, state[c] = "none",
           DOMAIN state = Conns, slots'[s].conn = c,
           \A t \in Slots : t # s => slots'[t].conn = slots[t].conn /\ slots'[t].priv = slots[t].priv,
           \/ state' = [state EXCEPT ![c] = "open"]
           \/ state' = [state EXCEPT ![c] = "socket"] /\ slots'[s].priv # NULL /\ stream[c] # NULL,
           UNCHANGED <<stream, sent>>
    PROVE  OneSlot'
  <1>0. c # NULL
    BY WebsocketAssumption
  <1>1. \A t \in Slots : slots[t].conn # c
    BY <1>0 DEF OneSlot
  <1>8. \A t \in Slots : slots[t].conn # NULL => slots[t].conn \in Conns
    BY DEF ListInv, Memory, SlotType
  <1>2. state'[c] \in {"open", "socket"} /\ \A d \in Conns : d # c => state'[d] = state[d]
    OBVIOUS
  <1>3. state'[c] = "socket" => slots'[s].priv # NULL /\ stream[c] # NULL
    OBVIOUS
  <1>4. \A t, u \in Slots : slots'[t].conn # NULL /\ slots'[t].conn = slots'[u].conn => t = u
    BY <1>1 DEF OneSlot
  <1>5. ASSUME NEW t \in Slots, slots'[t].conn # NULL
        PROVE  /\ state'[slots'[t].conn] \in {"open", "socket"}
               /\ state'[slots'[t].conn] = "socket" => slots'[t].priv # NULL
    <2>1. CASE t = s
      BY <1>2, <1>3, <2>1
    <2>2. CASE t # s
      <3>1. slots'[t].conn = slots[t].conn /\ slots'[t].priv = slots[t].priv
        BY <2>2
      <3>2. state[slots[t].conn] \in {"open", "socket"} /\ slots[t].conn # c
        BY <1>1, <1>5, <3>1 DEF OneSlot
      <3>3. state'[slots[t].conn] = state[slots[t].conn]
        BY <1>2, <1>5, <1>8, <3>1, <3>2
      <3> QED BY <1>5, <3>1, <3>2, <3>3 DEF OneSlot
    <2> QED BY <2>1, <2>2
  <1>6. ASSUME NEW d \in Conns, state'[d] = "socket"
        PROVE  stream'[d] # NULL /\ \E t \in Slots : slots'[t].conn = d
    <2>1. CASE d = c
      BY <1>3, <1>6, <2>1
    <2>2. CASE d # c
      <3>1. state[d] = "socket"
        BY <1>2, <1>6, <2>2
      <3>2. PICK t \in Slots : slots[t].conn = d /\ stream[d] # NULL
        BY <3>1 DEF OneSlot
      <3>3. t # s
        BY <3>2, WebsocketAssumption
      <3> QED BY <3>2, <3>3
    <2> QED BY <2>1, <2>2
  <1>7. \A d \in Conns : state'[d] = "none" => sent'[d] = 0
    BY <1>2 DEF OneSlot
  <1> QED BY <1>4, <1>5, <1>6, <1>7 DEF OneSlot

\* A connection that is gone leaves its slot.
LEMMA SlotLeft ==
    ASSUME ListInv, OneSlot, NEW s \in Slots, NEW c \in Conns, slots[s].conn = c, DOMAIN state = Conns,
           slots'[s].conn = NULL,
           \A t \in Slots : t # s => slots'[t].conn = slots[t].conn /\ slots'[t].priv = slots[t].priv,
           state' = [state EXCEPT ![c] = "gone"], UNCHANGED <<stream, sent>>
    PROVE  OneSlot'
  <1>0. c # NULL
    BY WebsocketAssumption
  <1>1. \A t \in Slots : t # s => slots[t].conn # c
    BY <1>0 DEF OneSlot
  <1>8. \A t \in Slots : slots[t].conn # NULL => slots[t].conn \in Conns
    BY DEF ListInv, Memory, SlotType
  <1>2. state'[c] = "gone" /\ \A d \in Conns : d # c => state'[d] = state[d]
    BY <1>1
  <1>3. \A t, u \in Slots : slots'[t].conn # NULL /\ slots'[t].conn = slots'[u].conn => t = u
    BY DEF OneSlot
  <1>4. ASSUME NEW t \in Slots, slots'[t].conn # NULL
        PROVE  /\ state'[slots'[t].conn] \in {"open", "socket"}
               /\ state'[slots'[t].conn] = "socket" => slots'[t].priv # NULL
    <2>1. t # s
      BY <1>4
    <2>2. slots'[t].conn = slots[t].conn /\ slots'[t].priv = slots[t].priv /\ slots[t].conn # c
      BY <1>1, <2>1
    <2>3. state'[slots[t].conn] = state[slots[t].conn]
      BY <1>2, <1>4, <1>8, <2>2
    <2> QED BY <1>4, <2>2, <2>3 DEF OneSlot
  <1>5. ASSUME NEW d \in Conns, state'[d] = "socket"
        PROVE  stream'[d] # NULL /\ \E t \in Slots : slots'[t].conn = d
    <2>1. d # c /\ state[d] = "socket"
      BY <1>2, <1>5
    <2>2. PICK t \in Slots : slots[t].conn = d /\ stream[d] # NULL
      BY <2>1 DEF OneSlot
    <2> QED BY <2>1, <2>2
  <1>6. \A d \in Conns : state'[d] = "none" => sent'[d] = 0
    BY <1>2 DEF OneSlot
  <1> QED BY <1>3, <1>4, <1>5, <1>6 DEF OneSlot

\* Nobody comes or goes.
LEMMA SlotsKept ==
    ASSUME OneSlot,
           \A t \in Slots : slots'[t].conn = slots[t].conn /\ slots'[t].priv = slots[t].priv,
           UNCHANGED <<state, stream>>,
           \A d \in Conns : state[d] = "none" => sent'[d] = sent[d]
    PROVE  OneSlot'
  BY DEF OneSlot

\* What a step that handles nothing keeps of an idle connection.
LEMMA Followed ==
    ASSUME FrameInv, Idle, UNCHANGED <<packet, stream, sent, got, pongs, clean>>, OneSlot', Shapes',
           \A c \in Conns, s \in Slots : slots'[s].conn = c /\ state'[c] = "socket" =>
              \/ /\ slots[s].conn = c /\ state[c] = "socket"
                 /\ SameParser(socks[slots[s].priv], socks'[slots'[s].priv])
              \/ /\ state[c] = "none" /\ stream[c] # NULL
                 /\ socks'[slots'[s].priv].wsStatus = ST_FLAGS
    PROVE  FrameInv'
  <1>1. /\ packet' = NoPacket /\ packet = NoPacket
        /\ stream' = stream /\ sent' = sent /\ got' = got /\ pongs' = pongs /\ clean' = clean
    BY DEF Idle
  <1>2. PacketOK'
    <2>1. \A c \in Conns : packet'.conn # c
      BY <1>1, WebsocketAssumption DEF NoPacket
    <2>2. packet'.conn = NULL
      BY <1>1 DEF NoPacket
    <2> QED BY <1>1, <2>1, <2>2 DEF PacketOK
  <1>3. \A c \in Conns : Handled(c)' = Handled(c) /\ GivenSoFar(c)' = GivenSoFar(c)
    BY <1>1, Zenon DEF Handled, Left, GivenSoFar
  <1>4. ASSUME NEW c \in Conns, clean[c], NEW s \in Slots, slots'[s].conn = c, state'[c] = "socket"
        PROVE  Agrees(socks'[slots'[s].priv], stream[c], Handled(c))
    <2>1. CASE /\ slots[s].conn = c /\ state[c] = "socket"
               /\ SameParser(socks[slots[s].priv], socks'[slots'[s].priv])
      <3>1. Agrees(socks[slots[s].priv], stream[c], Handled(c))
        BY <1>4, <2>1 DEF FrameInv, Following
      <3> QED BY <2>1, <3>1, SameAgrees
    <2>2. CASE /\ state[c] = "none" /\ stream[c] # NULL
               /\ socks'[slots'[s].priv].wsStatus = ST_FLAGS
      <3>1. Handled(c) = 0
        <4>1. sent[c] = 0
          BY <2>2 DEF FrameInv, OneSlot
        <4>2. packet.conn # c
          BY <1>1, WebsocketAssumption DEF NoPacket
        <4>3. Left(c) = 0
          BY <4>2 DEF Left
        <4>4. Handled(c) = 0 - 0
          BY <4>1, <4>3, Zenon DEF Handled
        <4> QED BY <4>4
      <3>2. stream[c] \in AllStreams
        BY StreamOf DEF FrameInv
      <3>3. Ends[stream[c]][0] = 0 /\ 0 \in 0 .. Len(stream[c])
        BY <2>2, <3>2, StreamFacts
      <3> QED BY <2>2, <3>1, <3>3 DEF Agrees, Between
    <2> QED BY <1>4, <2>1, <2>2
  <1>5. ASSUME NEW c \in Conns, clean[c] PROVE GivenSoFar(c)
    BY <1>5 DEF FrameInv, Following
  <1>6. Following'
    BY <1>1, <1>3, <1>4, <1>5 DEF Following
  <1> QED BY <1>2, <1>6 DEF FrameInv

\* What the steps of the HTTP server leave of the sockets.
LEMMA ShapesKept ==
    ASSUME Shapes, UNCHANGED <<packet, stream, sent, got, pongs, clean>>, DOMAIN state' = Conns,
           \A a \in Socks : DOMAIN socks'[a].mask = 1 .. 4
    PROVE  Shapes'
  BY DEF Shapes

\* Another CGI function takes a slot.
LEMMA RequestPlainFrames ==
    ASSUME ListInv, FrameInv, Idle, NEW c \in Conns, state[c] = "none",
           NEW s \in Slots, slots[s].conn = NULL, RequestPlain(c, s),
           UNCHANGED <<packet, stream, sent, got, pongs, clean>>
    PROVE  FrameInv'
  <1>1. /\ slots' = [slots EXCEPT ![s].conn = c, ![s].cgi = FALSE]
        /\ state' = [state EXCEPT ![c] = "open"] /\ UNCHANGED <<socks, llStart>>
    BY DEF RequestPlain
  <1>2. slots \in [Slots -> SlotType] /\ OneSlot /\ Shapes /\ DOMAIN state = Conns
    BY DEF ListInv, Memory, FrameInv, Shapes
  <1>3. /\ slots'[s].conn = c
        /\ \A t \in Slots : t # s =>
              slots'[t].conn = slots[t].conn /\ slots'[t].priv = slots[t].priv
    BY <1>1, <1>2 DEF SlotType
  <1>4. state'[c] = "open" /\ \A d \in Conns : d # c => state'[d] = state[d]
    BY <1>1, <1>2
  <1>5. OneSlot'
    BY <1>1, <1>2, <1>3, SlotTaken
  <1>6. Shapes'
    <2>1. DOMAIN state' = Conns
      BY <1>1, <1>2
    <2> QED BY <1>1, <1>2, <2>1, ShapesKept DEF Shapes
  <1>7. ASSUME NEW d \in Conns, NEW t \in Slots, slots'[t].conn = d, state'[d] = "socket"
        PROVE  /\ slots[t].conn = d /\ state[d] = "socket"
               /\ SameParser(socks[slots[t].priv], socks'[slots'[t].priv])
    <2>1. t # s /\ d # c
      BY <1>3, <1>4, <1>7
    <2> QED BY <1>1, <1>3, <1>4, <1>7, <2>1 DEF SameParser
  <1> QED BY <1>5, <1>6, <1>7, Followed

\* A slot that has the socket of an earlier connection is taken.
LEMMA RequestStaleFrames ==
    ASSUME ListInv, FrameInv, Idle, NEW c \in Conns, state[c] = "none",
           NEW s \in Slots, slots[s].conn = NULL, RequestStale(c, s),
           UNCHANGED <<packet, stream, sent, got, pongs, clean>>
    PROVE  FrameInv'
  <1>1. /\ slots' = [slots EXCEPT ![s].conn = c, ![s].cgi = ~socks[slots[s].priv].mustClose]
        /\ state' = [state EXCEPT ![c] = "open"] /\ UNCHANGED <<socks, llStart>>
    BY DEF RequestStale
  <1>2. slots \in [Slots -> SlotType] /\ OneSlot /\ Shapes /\ DOMAIN state = Conns
    BY DEF ListInv, Memory, FrameInv, Shapes
  <1>3. /\ slots'[s].conn = c
        /\ \A t \in Slots : t # s =>
              slots'[t].conn = slots[t].conn /\ slots'[t].priv = slots[t].priv
    BY <1>1, <1>2 DEF SlotType
  <1>4. state'[c] = "open" /\ \A d \in Conns : d # c => state'[d] = state[d]
    BY <1>1, <1>2
  <1>5. OneSlot'
    BY <1>1, <1>2, <1>3, SlotTaken
  <1>6. Shapes'
    <2>1. DOMAIN state' = Conns
      BY <1>1, <1>2
    <2> QED BY <1>1, <1>2, <2>1, ShapesKept DEF Shapes
  <1>7. ASSUME NEW d \in Conns, NEW t \in Slots, slots'[t].conn = d, state'[d] = "socket"
        PROVE  /\ slots[t].conn = d /\ state[d] = "socket"
               /\ SameParser(socks[slots[t].priv], socks'[slots'[t].priv])
    <2>1. t # s /\ d # c
      BY <1>3, <1>4, <1>7
    <2> QED BY <1>1, <1>3, <1>4, <1>7, <2>1 DEF SameParser
  <1> QED BY <1>5, <1>6, <1>7, Followed

\* A connection that is closed, and its socket with it or not.
LEMMA GoneFrames ==
    ASSUME ListInv, FrameInv, Idle, NEW c \in Conns, NEW s \in Slots, slots[s].conn = c,
           state' = [state EXCEPT ![c] = "gone"], slots'[s].conn = NULL,
           \A t \in Slots : t # s => slots'[t].conn = slots[t].conn /\ slots'[t].priv = slots[t].priv,
           \A t \in Slots : t # s /\ slots[t].priv # NULL =>
              SameParser(socks[slots[t].priv], socks'[slots[t].priv]),
           \A a \in Socks : DOMAIN socks'[a].mask = 1 .. 4,
           UNCHANGED <<packet, stream, sent, got, pongs, clean>>
    PROVE  FrameInv'
  <1>1. OneSlot /\ Shapes /\ DOMAIN state = Conns
    BY DEF FrameInv, Shapes
  <1>2. state'[c] = "gone" /\ \A d \in Conns : d # c => state'[d] = state[d]
    BY <1>1
  <1>3. OneSlot'
    BY <1>1, SlotLeft
  <1>4. Shapes'
    <2>1. DOMAIN state' = Conns
      BY <1>1
    <2> QED BY <1>1, <2>1, ShapesKept
  <1>5. ASSUME NEW d \in Conns, NEW t \in Slots, slots'[t].conn = d, state'[d] = "socket"
        PROVE  /\ slots[t].conn = d /\ state[d] = "socket"
               /\ SameParser(socks[slots[t].priv], socks'[slots'[t].priv])
    <2>1. t # s /\ d # c /\ d # NULL
      BY <1>2, <1>5, WebsocketAssumption
    <2>2. slots[t].conn = d /\ state[d] = "socket" /\ slots'[t].priv = slots[t].priv
      BY <1>2, <1>5, <2>1
    <2>3. slots[t].priv # NULL
      BY <1>1, <2>1, <2>2 DEF OneSlot
    <2> QED BY <2>1, <2>2, <2>3
  <1> QED BY <1>3, <1>4, <1>5, Followed

\* Only the list pointer of a socket is written when another comes or goes.
LEMMA NextOnly ==
    ASSUME NEW ws, ParserOK(ws), NEW x, NEW vs, vs = ws \/ vs = [ws EXCEPT !.next = x]
    PROVE  SameParser(ws, vs) /\ DOMAIN vs.mask = 1 .. 4
  BY DEF ParserOK, SockOK, SockFields, SameParser

\* A new socket waits for a frame.
LEMMA NewParser ==
    ASSUME NEW s
    PROVE  NewSock(s).wsStatus = ST_FLAGS /\ DOMAIN NewSock(s).mask = 1 .. 4
  BY DEF NewSock

\* Appending a socket leaves the parsers of the others alone.
LEMMA AppendedParsers ==
    ASSUME ListInv, Shapes, NEW a \in Socks, NEW s
    PROVE  LET ss == [Appended(socks, a) EXCEPT ![a] = NewSock(s)]
           IN  /\ ss[a] = NewSock(s)
               /\ \A b \in Socks : /\ b # a => SameParser(socks[b], ss[b])
                                   /\ DOMAIN ss[b].mask = 1 .. 4
  <1> DEFINE ss == [Appended(socks, a) EXCEPT ![a] = NewSock(s)]
  <1>1. ss[a] = NewSock(s)
    BY DEF Appended
  <1>2. ASSUME NEW b \in Socks, b # a PROVE SameParser(socks[b], ss[b]) /\ DOMAIN ss[b].mask = 1 .. 4
    <2>1. ss[b] = socks[b] \/ ss[b] = [socks[b] EXCEPT !.next = a]
      BY <1>2 DEF Appended
    <2>2. ParserOK(socks[b])
      BY DEF ParserOK, ListInv, Memory, Shapes
    <2> HIDE DEF ss
    <2> QED BY <2>1, <2>2, NextOnly
  <1> HIDE DEF ss
  <1>3. \A b \in Socks : /\ b # a => SameParser(socks[b], ss[b])
                         /\ DOMAIN ss[b].mask = 1 .. 4
    BY <1>1, <1>2, NewParser
  <1> QED BY <1>1, <1>3 DEF ss

\* So does taking one out.
LEMMA UnlinkedParsers ==
    ASSUME ListInv, Shapes, NEW a \in Socks
    PROVE  LET ss == [Unlinked(a) EXCEPT ![a] = NewSock(NULL)]
           IN  \A b \in Socks : /\ b # a => SameParser(socks[b], ss[b])
                                /\ DOMAIN ss[b].mask = 1 .. 4
  <1> DEFINE ss == [Unlinked(a) EXCEPT ![a] = NewSock(NULL)]
  <1>1. ss[a] = NewSock(NULL)
    BY DEF Unlinked
  <1>2. ASSUME NEW b \in Socks, b # a PROVE SameParser(socks[b], ss[b]) /\ DOMAIN ss[b].mask = 1 .. 4
    <2>1. ss[b] = socks[b] \/ ss[b] = [socks[b] EXCEPT !.next = socks[a].next]
      BY <1>2 DEF Unlinked
    <2>2. ParserOK(socks[b])
      BY DEF ParserOK, ListInv, Memory, Shapes
    <2> HIDE DEF ss
    <2> QED BY <2>1, <2>2, NextOnly
  <1> HIDE DEF ss
  <1>3. \A b \in Socks : /\ b # a => SameParser(socks[b], ss[b])
                         /\ DOMAIN ss[b].mask = 1 .. 4
    BY <1>1, <1>2, NewParser
  <1> QED BY <1>3 DEF ss

\* A new socket starts with the first byte its client sends.
LEMMA RequestSocketFrames ==
    ASSUME ListInv, FrameInv, Idle, NEW c \in Conns, state[c] = "none",
           NEW s \in Slots, slots[s].conn = NULL, RequestSocket(c, s),
           UNCHANGED <<packet, stream, sent, got, pongs, clean>>
    PROVE  FrameInv'
  <1> DEFINE l == Lowest(Socks \ Allocated)
  <1>1. l \in Socks /\ l \notin Allocated
    <2>1. Socks \ Allocated \in SUBSET Nat /\ Socks \ Allocated # {}
      BY WebsocketAssumption DEF RequestSocket, Allocated, Socks
    <2>2. \E i \in Socks \ Allocated : \A j \in Socks \ Allocated : i <= j
      BY <2>1, LeastOf
    <2>3. l \in Socks \ Allocated
      BY <2>2 DEF Lowest
    <2> QED BY <2>3
  <1>2. PICK a \in Socks : a = l /\ a \notin Allocated
    BY <1>1
  <1>3. /\ slots' = [slots EXCEPT ![s] = [conn |-> c, cgi |-> TRUE, priv |-> a, recvHdl |-> TRUE]]
        /\ socks' = [Appended(socks, a) EXCEPT ![a] = NewSock(s)]
        /\ state' = [state EXCEPT ![c] = "socket"] /\ stream[c] # NULL
    BY <1>2 DEF RequestSocket
  <1>4. slots \in [Slots -> SlotType] /\ OneSlot /\ Shapes /\ DOMAIN state = Conns
    BY DEF ListInv, Memory, FrameInv, Shapes
  <1>5. /\ slots'[s].conn = c /\ slots'[s].priv = a
        /\ \A t \in Slots : t # s =>
              slots'[t].conn = slots[t].conn /\ slots'[t].priv = slots[t].priv
    BY <1>3, <1>4
  <1>6. a # NULL
    BY WebsocketAssumption DEF Socks
  <1>7. \A d \in Conns : d # c => state'[d] = state[d]
    BY <1>3, <1>4
  <1>8. OneSlot'
    BY <1>3, <1>4, <1>5, <1>6, SlotTaken
  <1>9. /\ socks'[a] = NewSock(s)
        /\ \A b \in Socks : /\ b # a => SameParser(socks[b], socks'[b])
                            /\ DOMAIN socks'[b].mask = 1 .. 4
    BY <1>3, <1>4, AppendedParsers, Zenon
  <1>10. Shapes'
    <2>1. DOMAIN state' = Conns
      BY <1>3, <1>4
    <2> QED BY <1>4, <1>9, <2>1, ShapesKept
  <1>11. ASSUME NEW d \in Conns, NEW t \in Slots, slots'[t].conn = d, state'[d] = "socket"
         PROVE  \/ /\ slots[t].conn = d /\ state[d] = "socket"
                   /\ SameParser(socks[slots[t].priv], socks'[slots'[t].priv])
                \/ /\ state[d] = "none" /\ stream[d] # NULL
                   /\ socks'[slots'[t].priv].wsStatus = ST_FLAGS
    <2>1. CASE t = s
      <3>1. d = c /\ slots'[t].priv = a
        BY <1>5, <1>11, <2>1
      <3> QED BY <1>3, <1>9, <3>1, NewParser
    <2>2. CASE t # s
      <3>1. slots[t].conn = d /\ slots'[t].priv = slots[t].priv
        BY <1>5, <1>11, <2>2
      <3>2. d # c
        BY <3>1, WebsocketAssumption DEF FrameInv, OneSlot
      <3>3. state[d] = "socket"
        BY <1>7, <1>11, <3>2
      <3>4. slots[t].priv # NULL /\ slots[t].priv \in Socks \cup {NULL}
        BY <1>4, <3>1, <3>3, WebsocketAssumption DEF OneSlot, SlotType
      <3>5. socks[slots[t].priv].slot = t /\ t # NULL
        BY <3>4, WebsocketAssumption DEF ListInv, Owned, Backward, Slots
      <3>6. slots[t].priv \in Allocated
        BY <3>4, <3>5 DEF Allocated
      <3>7. SameParser(socks[slots[t].priv], socks'[slots[t].priv])
        BY <1>2, <1>9, <3>4, <3>6
      <3> QED BY <3>1, <3>3, <3>7
    <2> QED BY <2>1, <2>2
  <1> QED BY <1>8, <1>10, <1>11, Followed

\* Request keeps the invariant.
LEMMA RequestFrames ==
    ASSUME ListInv, FrameInv, NEW c \in Conns, Request(c)
    PROVE  FrameInv'
  <1> DEFINE l == Lowest(FreeSlots)
  <1>1. FreeSlots \in SUBSET Nat /\ FreeSlots # {}
    BY WebsocketAssumption DEF Request, FreeSlots, Slots
  <1>2. \E i \in FreeSlots : \A j \in FreeSlots : i <= j
    BY <1>1, LeastOf
  <1>3. l \in FreeSlots
    BY <1>2 DEF Lowest
  <1>4. PICK s : s = l
    OBVIOUS
  <1>5. s \in Slots /\ slots[s].conn = NULL
    BY <1>3, <1>4 DEF FreeSlots
  <1>6. /\ RequestPlain(c, s) \/ RequestSocket(c, s) \/ RequestStale(c, s)
        /\ Idle /\ state[c] = "none" /\ UNCHANGED <<packet, stream, sent, got, pongs, clean>>
    BY <1>4 DEF Request
  <1> QED BY <1>5, <1>6, RequestPlainFrames, RequestSocketFrames, RequestStaleFrames

\* httpdSentCb keeps the invariant.
LEMMA SentFrames ==
    ASSUME ListInv, FrameInv, NEW c \in Conns, Sent(c)
    PROVE  FrameInv'
  <1>1. PICK s \in Slots : slots[s].conn = c /\ (SentClose(s) \/ SentSocket(s))
    BY DEF Sent, SlotsOf
  <1>2. Idle /\ UNCHANGED <<socks, packet, stream, sent, got, pongs, clean>>
    BY DEF Sent
  <1>3. slots \in [Slots -> SlotType] /\ OneSlot /\ Shapes
    BY DEF ListInv, Memory, FrameInv
  <1>4. \A a \in Socks : DOMAIN socks'[a].mask = 1 .. 4
    BY <1>2, <1>3 DEF Shapes
  <1>5. CASE SentClose(s)
    <2>1. slots' = [slots EXCEPT ![s].conn = NULL] /\ state' = [state EXCEPT ![c] = "gone"]
      BY <1>1, <1>5 DEF SentClose
    <2>2. /\ slots'[s].conn = NULL
          /\ \A t \in Slots : t # s =>
                slots'[t].conn = slots[t].conn /\ slots'[t].priv = slots[t].priv
      BY <1>3, <2>1 DEF SlotType
    <2>3. \A t \in Slots : t # s /\ slots[t].priv # NULL =>
              SameParser(socks[slots[t].priv], socks'[slots[t].priv])
      BY <1>2 DEF SameParser
    <2> QED BY <1>1, <1>2, <1>4, <2>1, <2>2, <2>3, GoneFrames
  <1>6. CASE SentSocket(s)
    <2>1. slots' = [slots EXCEPT ![s].cgi = ~socks[slots[s].priv].mustClose] /\ UNCHANGED state
      BY <1>6 DEF SentSocket
    <2>2. \A t \in Slots : slots'[t].conn = slots[t].conn /\ slots'[t].priv = slots[t].priv
      BY <1>3, <2>1 DEF SlotType
    <2>3. OneSlot'
      BY <1>2, <1>3, <2>1, <2>2, SlotsKept
    <2>4. Shapes'
      BY <1>2, <1>3, <1>4, <2>1, ShapesKept DEF Shapes
    <2>5. \A d \in Conns, t \in Slots : slots'[t].conn = d /\ state'[d] = "socket" =>
             /\ slots[t].conn = d /\ state[d] = "socket"
             /\ SameParser(socks[slots[t].priv], socks'[slots'[t].priv])
      BY <1>2, <2>1, <2>2 DEF SameParser
    <2> QED BY <1>2, <2>3, <2>4, <2>5, Followed
  <1> QED BY <1>1, <1>5, <1>6

\* httpdDisconCb keeps the invariant.
LEMMA DisconnectFrames ==
    ASSUME ListInv, FrameInv, NEW c \in Conns, Disconnect(c)
    PROVE  FrameInv'
  <1>1. PICK s \in Slots : slots[s].conn = c /\ (DisconSocket(s) \/ DisconDone(s))
    BY DEF Disconnect, SlotsOf
  <1>2. /\ Idle /\ UNCHANGED <<packet, stream, sent, got, pongs, clean>>
        /\ state' = [state EXCEPT ![c] = "gone"]
    BY DEF Disconnect
  <1>3. slots \in [Slots -> SlotType] /\ OneSlot /\ Shapes
    BY DEF ListInv, Memory, FrameInv
  <1>4. CASE DisconDone(s)
    <2>1. slots' = [slots EXCEPT ![s].conn = NULL] /\ UNCHANGED socks
      BY <1>4 DEF DisconDone
    <2>2. /\ slots'[s].conn = NULL
          /\ \A t \in Slots : t # s =>
                slots'[t].conn = slots[t].conn /\ slots'[t].priv = slots[t].priv
      BY <1>3, <2>1 DEF SlotType
    <2>3. \A t \in Slots : t # s /\ slots[t].priv # NULL =>
              SameParser(socks[slots[t].priv], socks'[slots[t].priv])
      BY <2>1 DEF SameParser
    <2>4. \A a \in Socks : DOMAIN socks'[a].mask = 1 .. 4
      BY <1>3, <2>1 DEF Shapes
    <2> QED BY <1>1, <1>2, <2>2, <2>3, <2>4, GoneFrames
  <1>5. CASE DisconSocket(s)
    <2>1. PICK a : a = slots[s].priv
      OBVIOUS
    <2>2. /\ slots' = [slots EXCEPT ![s].conn = NULL, ![s].cgi = FALSE, ![s].priv = NULL]
          /\ socks' = [Unlinked(a) EXCEPT ![a] = NewSock(NULL)]
      BY <1>5, <2>1 DEF DisconSocket
    <2>3. a \in Socks /\ a # NULL
      <3>1. a \in Socks \cup {NULL}
        BY <1>3, <2>1 DEF SlotType
      <3>2. a # NULL
        BY <1>5, <2>1, Zenon DEF DisconSocket, ListInv, Owned, Serving
      <3> QED BY <3>1, <3>2
    <2>4. /\ slots'[s].conn = NULL
          /\ \A t \in Slots : t # s =>
                slots'[t].conn = slots[t].conn /\ slots'[t].priv = slots[t].priv
      BY <1>3, <2>2 DEF SlotType
    <2>5. \A b \in Socks : /\ b # a => SameParser(socks[b], socks'[b])
                           /\ DOMAIN socks'[b].mask = 1 .. 4
      BY <1>3, <2>2, <2>3, UnlinkedParsers, Zenon
    <2>6. ASSUME NEW t \in Slots, t # s, slots[t].priv # NULL
          PROVE  SameParser(socks[slots[t].priv], socks'[slots[t].priv])
      <3>1. slots[t].priv # a
        BY <2>1, <2>6, OtherSocket
      <3>2. slots[t].priv \in Socks
        BY <1>3, <2>6 DEF SlotType
      <3> QED BY <2>5, <3>1, <3>2
    <2> QED BY <1>1, <1>2, <2>4, <2>5, <2>6, GoneFrames
  <1> QED BY <1>1, <1>4, <1>5

\* A broadcast keeps the invariant.
LEMMA BroadcastFrames ==
    ASSUME ListInv, FrameInv, cgiWebsockBroadcast
    PROVE  FrameInv'
  <1>1. Idle /\ UNCHANGED <<slots, socks, packet, stream, state, sent, got, pongs, clean>>
    BY DEF cgiWebsockBroadcast
  <1>2. OneSlot /\ Shapes
    BY DEF FrameInv
  <1>3. OneSlot'
    BY <1>1, <1>2, SlotsKept
  <1>4. Shapes'
    BY <1>1, <1>2, ShapesKept DEF Shapes
  <1>5. \A d \in Conns, t \in Slots : slots'[t].conn = d /\ state'[d] = "socket" =>
           /\ slots[t].conn = d /\ state[d] = "socket"
           /\ SameParser(socks[slots[t].priv], socks'[slots'[t].priv])
    BY <1>1 DEF SameParser
  <1> QED BY <1>1, <1>3, <1>4, <1>5, Followed

\* So does a step of something else.
LEMMA StutterFrames ==
    ASSUME FrameInv, UNCHANGED vars
    PROVE  FrameInv'
  BY DEF FrameInv, OneSlot, Following, PacketOK, Shapes, GivenSoFar, Handled, Left, vars, clients

-----------------------------------------------------------------------------
(* Packets *)

\* A packet arrives: nothing of it has been handled yet.
LEMMA ReceiveFrames ==
    ASSUME ListInv, FrameInv, NEW c \in Conns, NEW n \in 1 .. MaxPacket, Receive(c, n)
    PROVE  FrameInv'
  <1>1. /\ Idle /\ state[c] = "socket" /\ UNCHANGED <<slots, socks, stream, state, got, pongs>>
        /\ sent[c] + n <= Len(Bytes[stream[c]])
        /\ sent' = [sent EXCEPT ![c] = @ + n]
        /\ clean' = [clean EXCEPT ![c] = @ /\ InOneFrame(stream[c], sent[c], sent[c] + n)]
    BY DEF Receive
  <1>2. PICK B, b : B = Bytes[stream[c]] /\ b = SubSeq(B, sent[c] + 1, sent[c] + n)
    OBVIOUS
  <1>3. packet' = [conn |-> c, bytes |-> b, out |-> FALSE]
    BY <1>2 DEF Receive
  <1>4. OneSlot /\ Shapes /\ Following
    BY DEF FrameInv
  <1>5. DOMAIN sent = Conns /\ (\A d \in Conns : sent[d] \in Nat) /\ DOMAIN clean = Conns
    BY <1>4 DEF Shapes
  <1>6. n \in Nat /\ n > 0
    BY WebsocketAssumption
  <1>7. /\ sent'[c] = sent[c] + n /\ sent[c] \in Nat
        /\ \A d \in Conns : d # c => sent'[d] = sent[d] /\ clean'[d] = clean[d]
    BY <1>1, <1>5
  <1>8. clean'[c] => clean[c] /\ InOneFrame(stream[c], sent[c], sent[c] + n)
    BY <1>1, <1>5, Zenon
  <1>9. Len(b) = n
    <2>1. stream[c] \in AllStreams /\ stream[c] # NULL
      BY <1>1, <1>4, StreamOf DEF OneSlot
    <2>2. B \in Seq(Byte) /\ Len(B) \in Nat
      BY <1>2, <2>1, StreamFacts
    <2>3. sent[c] + n <= Len(B)
      BY <1>1, <1>2
    <2>4. PICK from, to : from = sent[c] /\ to = sent[c] + n
      OBVIOUS
    <2>5. from \in Nat /\ to \in Nat /\ from < to /\ to <= Len(B) /\ to - from = n
      BY <1>6, <1>7, <2>3, <2>4
    <2>6. Len(SubSeq(B, from + 1, to)) = to - from
      BY <2>2, <2>5, PartOfBytes
    <2> QED BY <1>2, <2>4, <2>5, <2>6
  <1>10. packet.conn = NULL /\ c # NULL /\ \A d \in Conns : d # NULL
    BY <1>1, WebsocketAssumption DEF Idle, NoPacket
  <1>11. \A d \in Conns : Handled(d) = sent[d]
    <2> SUFFICES ASSUME NEW d \in Conns PROVE Handled(d) = sent[d]
      OBVIOUS
    <2>1. Left(d) = 0
      BY <1>10 DEF Left
    <2>2. Handled(d) = sent[d] - 0 /\ sent[d] \in Nat
      BY <1>5, <2>1, Zenon DEF Handled
    <2> QED BY <2>2
  <1>12. \A d \in Conns : Handled(d)' = sent[d]
    <2> SUFFICES ASSUME NEW d \in Conns PROVE Handled(d)' = sent[d]
      OBVIOUS
    <2>1. CASE d = c
      <3>1. Left(c)' = n
        BY <1>3, <1>9 DEF Left
      <3>2. Handled(c)' = (sent[c] + n) - n
        BY <1>7, <3>1, Zenon DEF Handled
      <3>3. (sent[c] + n) - n = sent[c]
        BY <1>6, <1>7
      <3> QED BY <2>1, <3>2, <3>3
    <2>2. CASE d # c
      <3>1. Left(d)' = 0
        BY <1>3, <2>2 DEF Left
      <3>2. Handled(d)' = sent[d] - 0 /\ sent[d] \in Nat
        BY <1>5, <1>7, <2>2, <3>1, Zenon DEF Handled
      <3> QED BY <3>2
    <2> QED BY <2>1, <2>2
  <1>13. Following'
    <2>1. ASSUME NEW d \in Conns, clean'[d]
          PROVE  /\ GivenSoFar(d)'
                 /\ \A s \in Slots : slots'[s].conn = d /\ state'[d] = "socket" =>
                      Agrees(socks'[slots'[s].priv], stream'[d], Handled(d)')
      <3>1. clean[d]
        BY <1>7, <1>8, <2>1
      <3>2. /\ GivenSoFar(d)
            /\ \A s \in Slots : slots[s].conn = d /\ state[d] = "socket" =>
                 Agrees(socks[slots[s].priv], stream[d], Handled(d))
        BY <1>4, <3>1 DEF Following
      <3>3. Handled(d)' = Handled(d)
        BY <1>11, <1>12
      <3>4. GivenSoFar(d)'
        BY <1>1, <3>2, <3>3, Zenon DEF GivenSoFar
      <3> QED BY <1>1, <3>2, <3>3, <3>4
    <2> QED BY <2>1 DEF Following
  <1>14. PacketOK'
    <2>1. packet'.conn = c /\ packet'.bytes = b
      BY <1>3
    <2>2. Left(c)' = n
      BY <1>3, <1>9 DEF Left
    <2>3. ASSUME clean'[c]
          PROVE  /\ Left(c)' \in 0 .. sent'[c] /\ sent'[c] <= Len(Bytes[stream'[c]])
                 /\ packet'.bytes = SubSeq(Bytes[stream'[c]], Handled(c)' + 1, sent'[c])
                 /\ packet'.bytes # <<>> => InOneFrame(stream'[c], Handled(c)', sent'[c])
      <3>1. n \in 0 .. sent[c] + n
        BY <1>6, <1>7
      <3>2. Handled(c)' = sent[c] /\ stream' = stream
        BY <1>1, <1>12
      <3>3. InOneFrame(stream[c], sent[c], sent[c] + n)
        BY <1>8, <2>3
      <3> QED BY <1>1, <1>2, <1>7, <2>1, <2>2, <3>1, <3>2, <3>3
    <2>4. state'[c] = "socket"
      BY <1>1
    <2> QED BY <1>10, <2>1, <2>3, <2>4 DEF PacketOK
  <1>15. OneSlot'
    <2>1. \A d \in Conns : state[d] = "none" => sent'[d] = sent[d]
      BY <1>1, <1>7
    <2> QED BY <1>1, <1>4, <2>1, SlotsKept
  <1>16. Shapes'
    <2>1. DOMAIN packet' = {"conn", "bytes", "out"}
      BY <1>3
    <2>2. DOMAIN sent' = Conns /\ DOMAIN clean' = Conns
      BY <1>1, <1>5
    <2>3. \A d \in Conns : sent'[d] \in Nat
      BY <1>5, <1>6, <1>7
    <2> QED BY <1>1, <1>4, <2>1, <2>2, <2>3 DEF Shapes
  <1> QED BY <1>13, <1>14, <1>15, <1>16 DEF FrameInv

\* The end of a packet: nothing of it was left.
LEMMA RecvEndFrames ==
    ASSUME ListInv, FrameInv, RecvEnd
    PROVE  FrameInv'
  <1>1. /\ packet # NoPacket /\ packet.bytes = <<>> /\ packet' = NoPacket
        /\ UNCHANGED <<slots, socks, stream, state, sent, got, pongs, clean>>
    BY DEF RecvEnd
  <1>2. OneSlot /\ Shapes /\ Following
    BY DEF FrameInv
  <1>3. packet'.conn = NULL /\ \A d \in Conns : d # NULL
    BY <1>1, WebsocketAssumption DEF NoPacket
  <1>4. \A d \in Conns : Handled(d)' = Handled(d)
    <2> SUFFICES ASSUME NEW d \in Conns PROVE Handled(d)' = Handled(d)
      OBVIOUS
    <2>1. Left(d)' = 0
      BY <1>3 DEF Left
    <2>2. Left(d) = 0
      <3>1. Len(packet.bytes) = 0
        BY <1>1
      <3> QED BY <3>1 DEF Left
    <2> QED BY <1>1, <2>1, <2>2, Zenon DEF Handled
  <1>5. Following'
    <2>1. \A d \in Conns : GivenSoFar(d)' = GivenSoFar(d)
      BY <1>1, <1>4, Zenon DEF GivenSoFar
    <2> QED BY <1>1, <1>2, <1>4, <2>1 DEF Following
  <1>6. PacketOK'
    BY <1>1, <1>3 DEF PacketOK
  <1>7. OneSlot'
    BY <1>1, <1>2, SlotsKept
  <1>8. Shapes'
    BY <1>1, <1>2 DEF Shapes, NoPacket
  <1> QED BY <1>5, <1>6, <1>7, <1>8 DEF FrameInv

\* The connection whose packet is handled: its slot, its socket and nobody else's.
Receives(c, s) ==
    /\ packet.conn = c /\ state[c] = "socket" /\ slots[s].conn = c
    /\ slots[s].priv = Sock /\ Sock \in Socks /\ ParserOK(socks[Sock])
    /\ stream[c] \in AllStreams /\ stream[c] # NULL
    /\ \A t \in Slots : t # s => slots[t].priv # Sock

\* There is one while a packet is handled.
LEMMA Receiver ==
    ASSUME ListInv, FrameInv, InPacket
    PROVE  \E c \in Conns, s \in Slots : Receives(c, s)
  <1>0. OneSlot /\ Shapes /\ PacketOK
    BY DEF FrameInv
  <1>1. PICK c : c = packet.conn
    OBVIOUS
  <1>2. c \in Conns
    BY <1>0, <1>1 DEF PacketOK, InPacket, NoPacket
  <1>3. state[c] = "socket"
    BY <1>0, <1>1, <1>2 DEF PacketOK
  <1>4. stream[c] # NULL /\ \E s \in Slots : slots[s].conn = c
    BY <1>0, <1>2, <1>3 DEF OneSlot
  <1>5. PICK s \in Slots : slots[s].conn = c
    BY <1>4
  <1>6. slots[s].priv # NULL /\ slots[s].priv \in Socks
    <2>1. slots[s].priv # NULL
      BY <1>0, <1>2, <1>3, <1>5, WebsocketAssumption DEF OneSlot
    <2>2. slots[s].priv \in Socks \cup {NULL}
      BY DEF ListInv, Memory, SlotType
    <2> QED BY <2>1, <2>2
  <1>7. \A t \in Slots : slots[t].conn = c => t = s
    BY <1>0, <1>2, <1>5, WebsocketAssumption DEF OneSlot
  <1>8. \A a \in Socks : (\E t \in SlotsOf(packet.conn) : slots[t].priv = a) <=> a = slots[s].priv
    BY <1>1, <1>5, <1>7 DEF SlotsOf
  <1>9. Sock = slots[s].priv
    BY <1>6, <1>8 DEF Sock
  <1>10. ParserOK(socks[slots[s].priv])
    BY <1>0, <1>6 DEF ParserOK, ListInv, Memory, Shapes
  <1>11. stream[c] \in AllStreams
    BY <1>0, <1>2, StreamOf
  <1>12. \A t \in Slots : t # s => slots[t].priv # slots[s].priv
    BY <1>6, OtherSocket
  <1> QED BY <1>1, <1>2, <1>3, <1>4, <1>5, <1>6, <1>9, <1>10, <1>11, <1>12 DEF Receives

\* What the invariant says of the packet that is handled.
LEMMA PacketLeft ==
    ASSUME FrameInv, InPacket, NEW c \in Conns, NEW s \in Slots, Receives(c, s), clean[c]
    PROVE  /\ Holding(stream[c], Handled(c), sent[c], packet.bytes)
           /\ Agrees(socks[Sock], stream[c], Handled(c))
           /\ GivenSoFar(c)
  <1>1. PICK q, from, to, n, b :
            q = stream[c] /\ from = Handled(c) /\ to = sent[c] /\ n = Left(c) /\ b = packet.bytes
    OBVIOUS
  <1>2. n \in 0 .. to /\ to <= Len(Bytes[q]) /\ b = SubSeq(Bytes[q], from + 1, to) /\ InOneFrame(q, from, to)
    BY <1>1 DEF FrameInv, PacketOK, Receives, InPacket
  <1>3. to \in Nat
    BY <1>1 DEF FrameInv, Shapes
  <1>4. n = Len(b) /\ b # <<>>
    BY <1>1 DEF Left, Receives, InPacket
  <1>5. from = to - n
    BY <1>1 DEF Handled
  <1>6. n # 0
    <2> SUFFICES ASSUME n = 0 PROVE FALSE
      OBVIOUS
    <2>1. from = to /\ from + 1 \in Int /\ to \in Int /\ to < from + 1
      BY <1>3, <1>5
    <2>2. SubSeq(Bytes[q], from + 1, to) = <<>>
      BY <2>1, SubSeqEmpty
    <2> QED BY <1>2, <1>4, <2>2
  <1>7. from \in Nat /\ from < to /\ to - from = n
    BY <1>2, <1>3, <1>5, <1>6
  <1>8. Holding(q, from, to, b)
    BY <1>2, <1>3, <1>4, <1>7 DEF Holding
  <1>9. Agrees(socks[Sock], q, from) /\ GivenSoFar(c)
    <2>1. slots[s].conn = c /\ state[c] = "socket" /\ slots[s].priv = Sock
      BY DEF Receives
    <2> QED BY <1>1, <2>1 DEF FrameInv, Following
  <1> QED BY <1>1, <1>8, <1>9

\* What a step of the parser must do to keep the invariant.
LEMMA RecvFollows ==
    ASSUME ListInv, FrameInv, InPacket, NEW c \in Conns, NEW s \in Slots, Receives(c, s), NEW vs,
           socks' = [socks EXCEPT ![Sock] = vs], DOMAIN vs.mask = 1 .. 4,
           packet'.conn = c, DOMAIN packet' = DOMAIN packet,
           UNCHANGED <<slots, stream, state, sent, clean>>,
           DOMAIN got' = Conns, DOMAIN pongs' = Conns,
           \A d \in Conns : d # c => got'[d] = got[d] /\ pongs'[d] = pongs[d],
           clean[c] =>
              /\ GivenSoFar(c)' /\ Agrees(vs, stream[c], Handled(c)')
              /\ Left(c)' \in 0 .. sent[c] /\ sent[c] <= Len(Bytes[stream[c]])
              /\ packet'.bytes = SubSeq(Bytes[stream[c]], Handled(c)' + 1, sent[c])
              /\ packet'.bytes # <<>> => InOneFrame(stream[c], Handled(c)', sent[c])
    PROVE  FrameInv'
  <1>0. OneSlot /\ Shapes /\ Following
    BY DEF FrameInv
  <1>1. /\ packet.conn = c /\ state[c] = "socket" /\ slots[s].conn = c /\ slots[s].priv = Sock
        /\ Sock \in Socks /\ \A t \in Slots : t # s => slots[t].priv # Sock
    BY DEF Receives
  <1>2. DOMAIN socks = Socks
    BY DEF ListInv, Memory
  <1>3. socks'[Sock] = vs /\ \A a \in Socks : a # Sock => socks'[a] = socks[a]
    BY <1>1, <1>2
  <1>4. \A d \in Conns : d # c => Handled(d)' = Handled(d)
    <2> SUFFICES ASSUME NEW d \in Conns, d # c PROVE Handled(d)' = Handled(d)
      OBVIOUS
    <2>1. Left(d)' = 0 /\ Left(d) = 0
      BY <1>1 DEF Left
    <2> QED BY <2>1, Zenon DEF Handled
  <1>5. Following'
    <2>1. ASSUME NEW d \in Conns, clean[d]
          PROVE  /\ GivenSoFar(d)'
                 /\ \A t \in Slots : slots[t].conn = d /\ state[d] = "socket" =>
                      Agrees(socks'[slots[t].priv], stream[d], Handled(d)')
      <3>1. CASE d = c
        <4>1. \A t \in Slots : slots[t].conn = d => t = s
          BY <1>0, <1>1, <3>1, WebsocketAssumption DEF OneSlot
        <4> QED BY <1>1, <1>3, <2>1, <3>1, <4>1
      <3>2. CASE d # c
        <4>1. /\ GivenSoFar(d)
              /\ \A t \in Slots : slots[t].conn = d /\ state[d] = "socket" =>
                   Agrees(socks[slots[t].priv], stream[d], Handled(d))
          BY <1>0, <2>1 DEF Following
        <4>2. GivenSoFar(d)'
          BY <1>4, <3>2, <4>1 DEF GivenSoFar
        <4>3. ASSUME NEW t \in Slots, slots[t].conn = d, state[d] = "socket"
              PROVE  socks'[slots[t].priv] = socks[slots[t].priv]
          <5>1. t # s
            BY <1>1, <3>2, <4>3
          <5>2. slots[t].priv # Sock /\ slots[t].priv \in Socks
            <6>1. slots[t].priv # NULL
              BY <1>0, <4>3, WebsocketAssumption DEF OneSlot
            <6>2. slots[t].priv \in Socks \cup {NULL}
              BY DEF ListInv, Memory, SlotType
            <6> QED BY <1>1, <5>1, <6>1, <6>2
          <5> QED BY <1>3, <5>2
        <4> QED BY <1>4, <3>2, <4>1, <4>2, <4>3
      <3> QED BY <3>1, <3>2
    <2> QED BY <2>1 DEF Following
  <1>6. PacketOK'
    <2>1. c # NULL
      BY WebsocketAssumption
    <2> QED BY <1>1, <2>1 DEF PacketOK
  <1>7. OneSlot'
    BY <1>0, SlotsKept
  <1>8. Shapes'
    <2>1. \A a \in Socks : DOMAIN socks'[a].mask = 1 .. 4
      BY <1>0, <1>1, <1>3 DEF Shapes
    <2> QED BY <1>0, <2>1 DEF Shapes
  <1> QED BY <1>5, <1>6, <1>7, <1>8 DEF FrameInv

\* One byte of a head is handled.
LEMMA RecvHeadFrames ==
    ASSUME ListInv, FrameInv, RecvHead
    PROVE  FrameInv'
  <1>1. PICK c \in Conns, s \in Slots : Receives(c, s)
    BY Receiver DEF RecvHead
  <1>2. PICK ws, b, vs : ws = socks[Sock] /\ b = packet.bytes /\ vs = HeadByte(ws, Head(b))
    OBVIOUS
  <1>3. /\ InPacket /\ ws.wsStatus # ST_PAYLOAD
        /\ socks' = [socks EXCEPT ![Sock] = vs] /\ packet' = [packet EXCEPT !.bytes = Tail(@)]
        /\ UNCHANGED <<slots, stream, state, sent, got, pongs, clean>>
    BY <1>2 DEF RecvHead, clients
  <1>4. ParserOK(ws)
    BY <1>1, <1>2 DEF Receives
  <1>5. DOMAIN vs.mask = 1 .. 4
    BY <1>2, <1>3, <1>4, MaskKept
  <1>6. Shapes /\ DOMAIN packet = {"conn", "bytes", "out"}
    BY DEF FrameInv, Shapes
  <1>7. packet'.conn = c /\ packet'.bytes = Tail(b) /\ DOMAIN packet' = DOMAIN packet
    BY <1>1, <1>2, <1>3, <1>6 DEF Receives
  <1>8. ASSUME clean[c]
        PROVE  /\ GivenSoFar(c)' /\ Agrees(vs, stream[c], Handled(c)')
               /\ Left(c)' \in 0 .. sent[c] /\ sent[c] <= Len(Bytes[stream[c]])
               /\ packet'.bytes = SubSeq(Bytes[stream[c]], Handled(c)' + 1, sent[c])
               /\ packet'.bytes # <<>> => InOneFrame(stream[c], Handled(c)', sent[c])
    <2>1. PICK q, from, to : q = stream[c] /\ from = Handled(c) /\ to = sent[c]
      OBVIOUS
    <2>2. Holding(q, from, to, b) /\ Agrees(ws, q, from) /\ GivenSoFar(c)
      BY <1>1, <1>2, <1>3, <1>8, <2>1, PacketLeft
    <2>3. q \in AllStreams /\ q # NULL
      BY <1>1, <2>1 DEF Receives
    <2>4. /\ from \in Nat /\ to \in Nat /\ from < to /\ to <= Len(Bytes[q])
          /\ b = SubSeq(Bytes[q], from + 1, to) /\ Len(b) = to - from
          /\ InOneFrame(q, from, to)
      BY <2>2 DEF Holding
    <2>5. Bytes[q] \in Seq(Byte) /\ Len(Bytes[q]) \in Nat
      BY <2>3, StreamFacts
    <2>6. PICK B, l : B = Bytes[q] /\ l = Len(B)
      OBVIOUS
    <2>7. Head(b) = B[from + 1] /\ Tail(b) = SubSeq(B, from + 1 + 1, to)
      <3>1. from + 1 \in 1 .. Len(B) /\ to \in from + 1 .. Len(B)
        BY <2>4, <2>5, <2>6
      <3> QED BY <2>4, <2>5, <2>6, <3>1, HeadTailOfSubSeq
    <2>8. Len(Tail(b)) = to - from - 1
      <3>1. CASE from + 1 = to
        <4>1. Tail(b) = <<>>
          <5>1. from + 1 + 1 \in Int /\ to \in Int /\ to < from + 1 + 1
            BY <2>4, <3>1
          <5> QED BY <2>7, <5>1, SubSeqEmpty
        <4>2. Len(Tail(b)) = 0
          BY <4>1, EmptySeq
        <4> QED BY <2>4, <3>1, <4>2
      <3>2. CASE from + 1 # to
        <4>1. PICK f : f = from + 1
          OBVIOUS
        <4>2. f \in Nat /\ f < to /\ to <= Len(B)
          BY <2>4, <2>6, <3>2, <4>1
        <4>3. Len(SubSeq(B, f + 1, to)) = to - f
          BY <2>4, <2>5, <2>6, <4>2, PartOfBytes
        <4> QED BY <2>4, <2>7, <4>1, <4>3
      <3> QED BY <3>1, <3>2
    <2>9. Left(c)' = to - from - 1
      BY <1>7, <2>8 DEF Left
    <2>10. Handled(c)' = from + 1
      <3>1. Handled(c)' = to - (to - from - 1)
        BY <1>3, <2>1, <2>9, Zenon DEF Handled
      <3>2. to - (to - from - 1) = from + 1
        BY <2>4
      <3> QED BY <3>1, <3>2
    <2>11. /\ Agrees(HeadByte(ws, Bytes[q][from + 1]), q, from + 1)
           /\ Expected(q, from + 1) = Expected(q, from)
           /\ Pinged(q, from + 1) = Pinged(q, from)
           /\ from + 1 < to => InOneFrame(q, from + 1, to)
      BY <1>3, <1>4, <2>2, <2>3, <2>4, ReadHead
    <2>12. GivenSoFar(c)'
      <3>1. got[c] = Expected(q, from) /\ pongs[c] = Cardinality(Pinged(q, from))
        BY <2>1, <2>2, Zenon DEF GivenSoFar
      <3>2. got'[c] = Expected(q, from + 1) /\ pongs'[c] = Cardinality(Pinged(q, from + 1))
        BY <1>3, <2>11, <3>1
      <3> QED BY <1>3, <2>1, <2>10, <3>2, Zenon DEF GivenSoFar
    <2>13. Agrees(vs, q, from + 1)
      BY <1>2, <2>6, <2>7, <2>11
    <2>14. to - from - 1 \in 0 .. to
      BY <2>4
    <2>15. Tail(b) # <<>> => InOneFrame(q, from + 1, to)
      <3> SUFFICES ASSUME ~(from + 1 < to) PROVE Tail(b) = <<>>
        BY <2>11
      <3>1. from + 1 + 1 \in Int /\ to \in Int /\ to < from + 1 + 1
        BY <2>4
      <3> QED BY <2>7, <3>1, SubSeqEmpty
    <2> QED BY <1>7, <2>1, <2>4, <2>6, <2>7, <2>9, <2>10, <2>12, <2>13, <2>14, <2>15
  <1>9. DOMAIN got' = Conns /\ DOMAIN pongs' = Conns
    BY <1>3, <1>6 DEF Shapes
  <1> QED BY <1>1, <1>3, <1>5, <1>7, <1>8, <1>9, RecvFollows

\* The rest of a packet in a payload is handled.
LEMMA RecvPayloadFrames ==
    ASSUME ListInv, FrameInv, RecvPayload
    PROVE  FrameInv'
  <1>1. PICK c \in Conns, s \in Slots : Receives(c, s)
    BY Receiver DEF RecvPayload
  <1>2. PICK ws, b, n, vs : ws = socks[Sock] /\ b = packet.bytes /\ n = Len(b) /\ vs = AfterPayload(ws, n)
    OBVIOUS
  <1>3. PICK text, ping : /\ text \in BOOLEAN /\ ping \in BOOLEAN
                          /\ text <=> Opcode(ws) \in DataOpcodes /\ IsMasked(ws)
                          /\ ping <=> Opcode(ws) = OPCODE_PING /\ ~ws.frameCont
    OBVIOUS
  <1>4. PICK data : data = SubSeq(Unmasked(ws, b), 1, Taken(ws, n))
    OBVIOUS
  <1>5. packet.conn = c
    BY <1>1 DEF Receives
  <1>6. /\ InPacket /\ ws.wsStatus = ST_PAYLOAD
        /\ socks' = [socks EXCEPT ![Sock] = vs]
        /\ got' = [got EXCEPT ![c] = IF text THEN @ \o Given(ws, data) ELSE @]
        /\ pongs' = [pongs EXCEPT ![c] = IF ping THEN @ + 1 ELSE @]
        /\ UNCHANGED <<slots, stream, state, sent, clean>>
    BY <1>2, <1>3, <1>4, <1>5 DEF RecvPayload
  <1>7. Shapes /\ DOMAIN packet = {"conn", "bytes", "out"}
    BY DEF FrameInv, Shapes
  <1>8. /\ packet'.conn = c /\ packet'.bytes = SubSeq(b, Taken(ws, n) + 2, n)
        /\ DOMAIN packet' = DOMAIN packet
    BY <1>2, <1>5, <1>7 DEF RecvPayload
  <1>9. ParserOK(ws)
    BY <1>1, <1>2 DEF Receives
  <1>10. DOMAIN vs.mask = 1 .. 4
    BY <1>2, <1>9, MaskKept
  <1>11. DOMAIN got = Conns /\ DOMAIN pongs = Conns
    BY <1>7 DEF Shapes
  <1>12. /\ DOMAIN got' = Conns /\ DOMAIN pongs' = Conns
         /\ got'[c] = IF text THEN got[c] \o Given(ws, data) ELSE got[c]
         /\ pongs'[c] = IF ping THEN pongs[c] + 1 ELSE pongs[c]
         /\ \A d \in Conns : d # c => got'[d] = got[d] /\ pongs'[d] = pongs[d]
    BY <1>6, <1>11
  <1>13. ASSUME clean[c]
         PROVE  /\ GivenSoFar(c)' /\ Agrees(vs, stream[c], Handled(c)')
                /\ Left(c)' \in 0 .. sent[c] /\ sent[c] <= Len(Bytes[stream[c]])
                /\ packet'.bytes = SubSeq(Bytes[stream[c]], Handled(c)' + 1, sent[c])
                /\ packet'.bytes # <<>> => InOneFrame(stream[c], Handled(c)', sent[c])
    <2>1. PICK q, from, to : q = stream[c] /\ from = Handled(c) /\ to = sent[c]
      OBVIOUS
    <2>2. Holding(q, from, to, b) /\ Agrees(ws, q, from) /\ GivenSoFar(c)
      BY <1>1, <1>2, <1>6, <1>13, <2>1, PacketLeft
    <2>3. q \in AllStreams /\ q # NULL
      BY <1>1, <2>1 DEF Receives
    <2>4. /\ from \in Nat /\ to \in Nat /\ from < to /\ to <= Len(Bytes[q])
          /\ b = SubSeq(Bytes[q], from + 1, to) /\ n = to - from
          /\ InOneFrame(q, from, to)
      BY <1>2, <2>2 DEF Holding
    <2>5. /\ Taken(ws, n) = n
          /\ Agrees(AfterPayload(ws, n), q, to)
          /\ Opcode(ws) \in DataOpcodes /\ IsMasked(ws) =>
                Expected(q, to) = Expected(q, from) \o Given(ws, SubSeq(Unmasked(ws, b), 1, n))
          /\ ~(Opcode(ws) \in DataOpcodes /\ IsMasked(ws)) => Expected(q, to) = Expected(q, from)
          /\ Cardinality(Pinged(q, to)) = Cardinality(Pinged(q, from)) +
                IF Opcode(ws) = OPCODE_PING /\ ~ws.frameCont THEN 1 ELSE 0
      BY <1>2, <1>6, <1>9, <2>2, <2>3, ReadData
    <2>6. packet'.bytes = <<>>
      <3>1. n + 2 \in Int /\ n \in Int /\ n < n + 2
        BY <2>4
      <3>2. SubSeq(b, n + 2, n) = <<>>
        BY <3>1, SubSeqEmpty
      <3> QED BY <1>8, <2>5, <3>2
    <2>7. Left(c)' = 0
      <3>1. Len(packet'.bytes) = 0
        BY <2>6
      <3> QED BY <1>8, <3>1 DEF Left
    <2>8. Handled(c)' = to
      <3>1. Handled(c)' = to - 0
        BY <1>6, <2>1, <2>7, Zenon DEF Handled
      <3> QED BY <2>4, <3>1
    <2>9. GivenSoFar(c)'
      <3>1. got[c] = Expected(q, from) /\ pongs[c] = Cardinality(Pinged(q, from))
        BY <2>1, <2>2, Zenon DEF GivenSoFar
      <3>2. got'[c] = Expected(q, to)
        <4>1. CASE text
          BY <1>3, <1>4, <1>12, <2>5, <3>1, <4>1
        <4>2. CASE ~text
          BY <1>3, <1>12, <2>5, <3>1, <4>2
        <4> QED BY <4>1, <4>2
      <3>3. pongs'[c] = Cardinality(Pinged(q, to))
        <4>1. CASE ping
          BY <1>3, <1>12, <2>5, <3>1, <4>1
        <4>2. CASE ~ping
          <5>1. Cardinality(Pinged(q, to)) = Cardinality(Pinged(q, from)) + 0
            BY <1>3, <2>5, <4>2
          <5>2. Cardinality(Pinged(q, from)) \in Nat
            BY <2>3, PingedFinite
          <5> QED BY <1>12, <3>1, <4>2, <5>1, <5>2
        <4> QED BY <4>1, <4>2
      <3> QED BY <1>6, <2>1, <2>8, <3>2, <3>3, Zenon DEF GivenSoFar
    <2>10. SubSeq(Bytes[q], to + 1, to) = <<>>
      <3>1. to + 1 \in Int /\ to \in Int /\ to < to + 1
        BY <2>4
      <3> QED BY <3>1, SubSeqEmpty
    <2> QED BY <1>2, <2>1, <2>4, <2>5, <2>6, <2>7, <2>8, <2>9, <2>10
  <1> QED BY <1>1, <1>6, <1>8, <1>10, <1>12, <1>13, RecvFollows

\* The invariant holds in the beginning.
LEMMA FrameInit == Init => FrameInv
  <1> SUFFICES ASSUME Init PROVE FrameInv
    OBVIOUS
  <1>0. \A c \in Conns : c # NULL
    BY WebsocketAssumption
  <1>1. /\ packet = NoPacket /\ stream \in Streams /\ state = [c \in Conns |-> "none"]
        /\ sent = [c \in Conns |-> 0] /\ got = [c \in Conns |-> <<>>]
        /\ pongs = [c \in Conns |-> 0] /\ clean = [c \in Conns |-> TRUE]
        /\ socks = [a \in Socks |-> NewSock(NULL)]
        /\ \A s \in Slots : slots[s].conn = NULL
    BY DEF Init, FreeSlot
  <1>2. packet.conn = NULL /\ DOMAIN packet = {"conn", "bytes", "out"}
    BY <1>1 DEF NoPacket
  <1>3. OneSlot
    BY <1>1 DEF OneSlot
  <1>4. Shapes
    <2>1. \A a \in Socks : DOMAIN socks[a].mask = 1 .. 4
      BY <1>1, NewParser
    <2> QED BY <1>1, <1>2, <2>1 DEF Shapes
  <1>5. PacketOK
    BY <1>0, <1>1, <1>2 DEF PacketOK
  <1>6. ASSUME NEW c \in Conns PROVE GivenSoFar(c)
    <2>1. Left(c) = 0
      BY <1>0, <1>2 DEF Left
    <2>2. Handled(c) = 0 - 0
      BY <1>1, <2>1, Zenon DEF Handled
    <2>3. stream[c] \in AllStreams
      BY <1>4, StreamOf
    <2>4. Handled(c) = 0
      BY <2>2
    <2>5. Expected(stream[c], 0) = <<>> /\ Pinged(stream[c], 0) = {}
      BY <2>3, ExpectedStart
    <2>6. Cardinality({}) = 0
      BY FS_EmptySet
    <2>7. got[c] = <<>> /\ pongs[c] = 0
      BY <1>1
    <2> QED BY <2>4, <2>5, <2>6, <2>7, Zenon DEF GivenSoFar
  <1>7. Following
    BY <1>0, <1>1, <1>6 DEF Following
  <1> QED BY <1>3, <1>4, <1>5, <1>7 DEF FrameInv

\* Every step keeps it.
LEMMA FrameNext == ListInv /\ FrameInv /\ [Next]_vars => FrameInv'
  <1> SUFFICES ASSUME ListInv, FrameInv, [Next]_vars PROVE FrameInv'
    OBVIOUS
  <1>1. CASE RecvHead
    BY <1>1, RecvHeadFrames
  <1>2. CASE RecvPayload
    BY <1>2, RecvPayloadFrames
  <1>3. CASE RecvEnd
    BY <1>3, RecvEndFrames
  <1>4. CASE cgiWebsockBroadcast
    BY <1>4, BroadcastFrames
  <1>5. ASSUME NEW c \in Conns, Stack(c) PROVE FrameInv'
    <2>1. CASE Request(c)
      BY <2>1, RequestFrames
    <2>2. CASE Sent(c)
      BY <2>2, SentFrames
    <2>3. CASE Disconnect(c)
      BY <2>3, DisconnectFrames
    <2>4. CASE \E n \in 1 .. MaxPacket : Receive(c, n)
      BY <2>4, ReceiveFrames
    <2> QED BY <1>5, <2>1, <2>2, <2>3, <2>4 DEF Stack
  <1>6. CASE UNCHANGED vars
    BY <1>6, StutterFrames
  <1> QED BY <1>1, <1>2, <1>3, <1>4, <1>5, <1>6 DEF Next

\* Between two packets it says what Delivered says.
LEMMA FrameInvImplies == FrameInv => Delivered
  <1> SUFFICES ASSUME FrameInv, Idle, NEW c \in Conns, clean[c]
               PROVE  /\ got[c] = Expected(stream[c], sent[c])
                      /\ pongs[c] = Cardinality(Pinged(stream[c], sent[c]))
    BY DEF Delivered
  <1>1. packet.conn # c
    BY WebsocketAssumption DEF Idle, NoPacket
  <1>2. Left(c) = 0
    BY <1>1 DEF Left
  <1>3. sent[c] \in Nat
    BY DEF FrameInv, Shapes
  <1>4. Handled(c) = sent[c] - 0
    BY <1>2, Zenon DEF Handled
  <1>5. Handled(c) = sent[c]
    BY <1>3, <1>4
  <1>6. GivenSoFar(c)
    BY DEF FrameInv, Following
  <1> QED BY <1>5, <1>6, Zenon DEF GivenSoFar

-----------------------------------------------------------------------------
(* The theorems *)

\* The list of sockets is whole, whichever of them is closed and wherever it is in
\* the list (util/cgiwebsocket.c:216-230, 267-275), for every number of
\* connections, slots and sockets.
THEOREM ListCorrect == Spec => []SocketList
  <1>1. Spec => []ListInv
    BY ListInit, ListNext, PTL DEF Spec
  <1> QED BY <1>1, ListInvImplies, PTL

\* The application is given the data of every masked frame as it was before the
\* client masked it, and each PING is answered once, wherever the packets cut the
\* frames (util/cgiwebsocket.c:142-202): for all frames with a length that fits,
\* whatever their data, masks and length fields, and any number of connections.
THEOREM DeliveredCorrect == Spec => []Delivered
  <1>1. Init => ListInv /\ FrameInv
    BY ListInit, FrameInit
  <1>2. ListInv /\ FrameInv /\ [Next]_vars => (ListInv /\ FrameInv)'
    BY ListNext, FrameNext
  <1>3. ListInv /\ FrameInv => Delivered
    BY FrameInvImplies
  <1> QED BY <1>1, <1>2, <1>3, PTL DEF Spec
=============================================================================
