--------------------------- MODULE PeerListProofs ---------------------------
(***************************************************************************)
(* Proofs about PeerList, for any number of addresses, peers and replies:  *)
(* the pointers always form the lists the code takes them for, whatever is *)
(* removed from where and however memory is given out again, and what they *)
(* amount to implements PeerSeq.                                           *)
(***************************************************************************)
EXTENDS PeerList, Integers, SequenceTheorems, FiniteSetTheorems, TLAPS,
        NaturalsInduction, WellFoundedInduction

(* What RemoveAt leaves of a sequence, and where.                          *)
LEMMA RemoveAtProperties ==
  ASSUME NEW S, NEW s \in Seq(S), NEW i \in 1..Len(s)
  PROVE  /\ RemoveAt(s, i) \in Seq(S)
         /\ Len(RemoveAt(s, i)) = Len(s) - 1
         /\ \A j \in 1..(Len(s) - 1) :
                RemoveAt(s, i)[j] = IF j < i THEN s[j] ELSE s[j + 1]
<1> DEFINE a == SubSeq(s, 1, i - 1)
           b == SubSeq(s, i + 1, Len(s))
<1>0. Len(s) \in Nat /\ i \in Int /\ i >= 1 /\ i <= Len(s)
  BY LenProperties
<1>1. /\ a \in Seq(S)
      /\ Len(a) = i - 1
      /\ \A j \in 1..(i - 1) : a[j] = s[j]
  <2>1. \A j \in 1..(i - 1) : s[j] \in S
    BY <1>0, ElementOfSeq
  <2>2. /\ a \in Seq(S)
        /\ Len(a) = IF 1 <= i - 1 THEN (i - 1) - 1 + 1 ELSE 0
        /\ \A j \in 1..((i - 1) - 1 + 1) : a[j] = s[1 + j - 1]
    BY <1>0, <2>1, SubSeqProperties
  <2> QED BY <1>0, <2>2
<1>2. /\ b \in Seq(S)
      /\ Len(b) = Len(s) - i
      /\ \A j \in 1..(Len(s) - i) : b[j] = s[i + j]
  <2>1. \A j \in (i + 1)..Len(s) : s[j] \in S
    BY <1>0, ElementOfSeq
  <2>2. /\ b \in Seq(S)
        /\ Len(b) = IF i + 1 <= Len(s) THEN Len(s) - (i + 1) + 1 ELSE 0
        /\ \A j \in 1..(Len(s) - (i + 1) + 1) : b[j] = s[(i + 1) + j - 1]
    BY <1>0, <2>1, SubSeqProperties
  <2> QED BY <1>0, <2>2
<1>3. /\ a \o b \in Seq(S)
      /\ Len(a \o b) = Len(s) - 1
      /\ \A j \in 1..(Len(s) - 1) :
            (a \o b)[j] = IF j <= i - 1 THEN a[j] ELSE b[j - (i - 1)]
  <2> HIDE DEF a, b
  <2>1. /\ a \o b \in Seq(S)
        /\ Len(a \o b) = Len(a) + Len(b)
        /\ \A j \in 1..(Len(a) + Len(b)) :
             (a \o b)[j] = IF j <= Len(a) THEN a[j] ELSE b[j - Len(a)]
    BY <1>1, <1>2, ConcatProperties
  <2> QED BY <1>0, <1>1, <1>2, <2>1
<1>4. RemoveAt(s, i) = a \o b
  BY DEF RemoveAt
<1> HIDE DEF a, b
<1>5. ASSUME NEW j \in 1..(Len(s) - 1)
      PROVE  (a \o b)[j] = IF j < i THEN s[j] ELSE s[j + 1]
  <2>1. CASE j < i
    BY <1>0, <1>1, <1>3, <2>1
  <2>2. CASE ~(j < i)
    <3>1. j - (i - 1) \in 1..(Len(s) - i)
      BY <1>0, <2>2
    <3>2. b[j - (i - 1)] = s[i + (j - (i - 1))]
      BY <1>2, <3>1
    <3>3. i + (j - (i - 1)) = j + 1
      BY <1>0
    <3>4. (a \o b)[j] = b[j - (i - 1)]
      BY <1>0, <1>3, <2>2
    <3> QED BY <2>2, <3>2, <3>3, <3>4
  <2> QED BY <2>1, <2>2
<1> QED BY <1>3, <1>4, <1>5

(* A function on 1..n is a sequence of length n.                           *)
LEMMA FunctionIsSeq ==
  ASSUME NEW S, NEW n \in Nat, NEW f \in [1..n -> S]
  PROVE  f \in Seq(S) /\ Len(f) = n /\ DOMAIN f = 1..n
<1>1. f \in Seq(S)
  BY SeqDef
<1>2. Len(f) \in Nat /\ DOMAIN f = 1..Len(f)
  BY <1>1, LenProperties
<1>3. DOMAIN f = 1..n
  OBVIOUS
<1> QED BY <1>1, <1>2, <1>3

(* Induction, by the least number that would break it.                     *)
LEMMA NatInduct ==
  ASSUME NEW S \in SUBSET Nat, 0 \in S, \A n \in S : n + 1 \in S
  PROVE  Nat \subseteq S
<1> DEFINE T == Nat \ S
<1> SUFFICES ASSUME T # {} PROVE FALSE
  OBVIOUS
<1>1. PICK m \in T : \A n \in T : ~(<<n, m>> \in OpToRel(<, Nat))
  BY NatLessThanWellFounded, WFMin
<1>2. m \in Nat /\ m - 1 \in Nat /\ m - 1 < m /\ (m - 1) + 1 = m
  <2>1. m \in Nat /\ m # 0
    BY ONLY 0 \in S, m \in T
  <2> QED BY ONLY <2>1
<1>3. m - 1 \notin T
  BY <1>1, <1>2 DEF OpToRel
<1>4. (m - 1) + 1 \in S
  BY <1>2, <1>3
<1> QED BY <1>1, <1>2, <1>4

(* A list in memory mem that begins at h: its cells are s, each once, and  *)
(* each leads to the one after it.                                         *)
Link(s, i) == IF i < Len(s) THEN s[i + 1] ELSE NULL
End(s) == IF s = <<>> THEN NULL ELSE s[Len(s)]
IsList(mem, h, s) ==
    /\ s \in Seq(DOMAIN mem)
    /\ \A i, j \in DOMAIN s : s[i] = s[j] => i = j
    /\ h = Link(s, 0)
    /\ \A i \in DOMAIN s : mem[s[i]].next = Link(s, i)

(* The shape of memory, wherever its pointers lead.                        *)
Pointers == Addrs \cup {NULL}
PeerCells == [id : Nat, outHead : Pointers, outTail : Pointers, next : Pointers]
StreamCells == [id : Nat, next : Pointers]
ShapeInv ==
    /\ peers \in [DOMAIN peers -> PeerCells] /\ streams \in [DOMAIN streams -> StreamCells]
    /\ DOMAIN peers \subseteq Addrs /\ DOMAIN streams \subseteq Addrs
    /\ DOMAIN peers \cap DOMAIN streams = {}
    /\ {head, tail, peer, last} \subseteq Pointers
    /\ pc \in {"idle", "walk", "cleanup", "done"}
    /\ unique_id \in 0..MaxIds /\ replies \in 0..MaxReplies

Start == IF pc \in {"cleanup", "done"} THEN peer ELSE head
Cells == Chain(peers, Start)
Out(p) == Chain(streams, peers[p].outHead)

(* The peers from the head on are all there are, and the tail is the last. *)
PeersInv ==
    /\ IsList(peers, Start, Cells) /\ Range(Cells) = DOMAIN peers
    /\ pc \in {"idle", "walk"} => tail = End(Cells)

(* The replies of each peer are a list of their own, and all there are.    *)
OutInv ==
    /\ \A p \in DOMAIN peers :
        /\ IsList(streams, peers[p].outHead, Out(p))
        /\ peers[p].outTail = End(Out(p))
    /\ \A p, q \in DOMAIN peers : p # q => Range(Out(p)) \cap Range(Out(q)) = {}
    /\ DOMAIN streams = UNION {Range(Out(p)) : p \in DOMAIN peers}

IdsInv ==
    /\ \A p \in DOMAIN peers : peers[p].id \in 1..unique_id
    /\ \A p, q \in DOMAIN peers : peers[p].id = peers[q].id => p = q
    /\ \A s \in DOMAIN streams : streams[s].id \in 1..replies
    /\ \A s, t \in DOMAIN streams : streams[s].id = streams[t].id => s = t

(* The walk is between the k-th and the next peer of the list: those after *)
(* it are the ones of the peers due that were not visited yet.             *)
Ahead(vis, d, s, mem, k) ==
    /\ Len(d) = Len(vis) + (Len(s) - k)
    /\ \A i \in DOMAIN vis : vis[i] = d[i]
    /\ \A j \in 1..(Len(s) - k) : d[Len(vis) + j] = mem[s[k + j]].id
At(k) ==
    /\ last = (IF k = 0 THEN NULL ELSE Cells[k])
    /\ peer = Link(Cells, k)
    /\ Ahead(visited, due, Cells, peers, k)
WalkInv ==
    /\ due \in Seq(Nat) /\ visited \in Seq(Nat)
    /\ pc \in {"idle", "done"} => peer = NULL
    /\ pc # "walk" => last = NULL
    /\ pc = "walk" => \E k \in 0..Len(Cells) : At(k)

IInv == ShapeInv /\ PeersInv /\ OutInv /\ IdsInv /\ WalkInv

-----------------------------------------------------------------------------
(* Chain follows the pointers: on a list it finds the cells of the list.   *)

Step(mem, n, h) ==
    [x \in Addrs \cup {NULL} |->
        IF n = 0 \/ x \notin DOMAIN mem THEN <<>> ELSE <<x>> \o h[mem[x].next]]
Follows(mem, f, k) == f = [n \in 0..k |-> Step(mem, n, f[n - 1])]

LEMMA FirstStep ==
  ASSUME NEW mem, NEW g, NEW h
  PROVE  Step(mem, 0, g) = Step(mem, 0, h)
<1>1. \A x \in Addrs \cup {NULL} : Step(mem, 0, g)[x] = <<>> /\ Step(mem, 0, h)[x] = <<>>
  BY DEF Step
<1>2. /\ Step(mem, 0, g) = [x \in Addrs \cup {NULL} |-> Step(mem, 0, g)[x]]
      /\ Step(mem, 0, h) = [x \in Addrs \cup {NULL} |-> Step(mem, 0, h)[x]]
  BY DEF Step
<1> QED BY <1>1, <1>2

LEMMA FollowsExists ==
  ASSUME NEW mem, NEW len \in Nat
  PROVE  \E f : Follows(mem, f, len)
<1> DEFINE G == {k \in Nat : \E f : Follows(mem, f, k)}
<1>1. 0 \in G
  <2> DEFINE h == Step(mem, 0, <<>>)
             f == [n \in 0..0 |-> h]
  <2>1. h = Step(mem, 0, f[0 - 1])
    BY FirstStep
  <2> HIDE DEF h
  <2>2. \A n \in 0..0 : n = 0 /\ f[n] = h
    OBVIOUS
  <2>3. \A n \in 0..0 : f[n] = Step(mem, n, f[n - 1])
    BY <2>1, <2>2
  <2>4. f = [n \in 0..0 |-> f[n]]
    OBVIOUS
  <2> HIDE DEF f
  <2>5. f = [n \in 0..0 |-> Step(mem, n, f[n - 1])]
    BY <2>3, <2>4
  <2> QED BY <2>5 DEF Follows
<1>2. ASSUME NEW k \in G
      PROVE  k + 1 \in G
  <2>1. k \in Nat
    OBVIOUS
  <2>2. PICK f : f = [n \in 0..k |-> Step(mem, n, f[n - 1])]
    BY DEF Follows
  <2> DEFINE g == [n \in 0..(k + 1) |-> IF n = k + 1 THEN Step(mem, n, f[n - 1]) ELSE f[n]]
  <2>3. ASSUME NEW n \in 0..(k + 1)
        PROVE  g[n] = Step(mem, n, g[n - 1])
    <3>1. g[n] = Step(mem, n, f[n - 1])
      BY <2>1, <2>2
    <3>2. CASE n = 0
      BY <3>1, <3>2, FirstStep
    <3>3. CASE n # 0
      <4>1. n - 1 \in 0..(k + 1) /\ n - 1 # k + 1
        BY <2>1, <3>3
      <4>2. g[n - 1] = f[n - 1]
        BY <4>1
      <4> QED BY <3>1, <4>2
    <3> QED BY <3>2, <3>3
  <2>4. g = [n \in 0..(k + 1) |-> g[n]]
    OBVIOUS
  <2> HIDE DEF g
  <2>5. Follows(mem, g, k + 1)
    BY <2>3, <2>4 DEF Follows
  <2> QED BY <2>1, <2>5
<1>3. Nat \subseteq G
  <2> HIDE DEF G
  <2> QED BY <1>1, <1>2, NatInduct DEF G
<1> QED BY <1>3

(* A list is no longer than memory.                                        *)
LEMMA ListFits ==
  ASSUME NEW mem, DOMAIN mem \subseteq Addrs, NEW s, NEW h, IsList(mem, h, s)
  PROVE  Len(s) <= Cardinality(Addrs) /\ Cardinality(Addrs) \in Nat
<1>1. IsFiniteSet(Addrs) /\ Cardinality(Addrs) \in Nat
  BY PeerListAssumption, FS_CardinalityType
<1>2. Len(s) \in Nat /\ DOMAIN s = 1..Len(s) /\ s \in [1..Len(s) -> Addrs]
  BY LenProperties DEF IsList
<1>3. IsFiniteSet(1..Len(s)) /\ Cardinality(1..Len(s)) = Len(s)
  BY <1>2, FS_Interval
<1>4. ASSUME Cardinality(Addrs) < Cardinality(1..Len(s))
      PROVE  FALSE
  BY <1>1, <1>2, <1>3, <1>4, FS_PigeonHole DEF IsList
<1> QED BY <1>1, <1>2, <1>3, <1>4

LEMMA ChainIs ==
  ASSUME NEW mem, DOMAIN mem \subseteq Addrs, NEW s, NEW h, IsList(mem, h, s)
  PROVE  Chain(mem, h) = s
<1> DEFINE N == Cardinality(Addrs)
<1>1. Len(s) <= N /\ N \in Nat
  BY ListFits
<1>2. \E f : Follows(mem, f, N)
  BY <1>1, FollowsExists
<1> DEFINE f == CHOOSE g : Follows(mem, g, N)
<1>3. Follows(mem, f, N)
  BY <1>2, Zenon
<1>4. Chain(mem, h) = f[N][h]
  BY Zenon DEF Chain, Follows, Step
<1> HIDE DEF f, N
<1>5. /\ s \in Seq(DOMAIN mem) /\ Len(s) \in Nat /\ DOMAIN s = 1..Len(s)
      /\ NULL \notin DOMAIN mem
      /\ \A i \in 1..Len(s) : s[i] \in DOMAIN mem /\ s[i] \in Addrs
  BY LenProperties, ElementOfSeq, PeerListAssumption DEF IsList
<1>6. \A j \in 0..Len(s) : Link(s, j) \in Addrs \cup {NULL}
  BY <1>5 DEF Link
<1> DEFINE Rest(j) == SubSeq(s, j + 1, Len(s))
           G == {n \in Nat : n <= N => \A j \in 0..Len(s) :
                                Len(s) - j <= n => f[n][Link(s, j)] = Rest(j)}
<1>7. \A j \in 0..Len(s) : j = Len(s) => Link(s, j) = NULL /\ Rest(j) = <<>>
  BY <1>5, SubSeqEmpty DEF Link
<1>8. \A n \in 0..N : \A j \in 0..Len(s) :
        j = Len(s) => f[n][Link(s, j)] = Rest(j)
  <2> TAKE n \in 0..N
  <2>1. f[n] = Step(mem, n, f[n - 1])
    BY <1>3 DEF Follows
  <2>2. f[n][NULL] = <<>>
    BY <1>5, <2>1 DEF Step
  <2> HIDE DEF Rest
  <2> QED BY <1>7, <2>2
<1>9. 0 \in G
  <2>1. \A j \in 0..Len(s) : Len(s) - j <= 0 => j = Len(s)
    <3>1. Len(s) \in Nat
      BY <1>5
    <3> QED BY ONLY <3>1
  <2> HIDE DEF Rest
  <2> QED BY <1>1, <1>8, <2>1
<1>10. ASSUME NEW n \in G
       PROVE  n + 1 \in G
  <2> SUFFICES ASSUME n \in Nat, n + 1 <= N, NEW j \in 0..Len(s), Len(s) - j <= n + 1
               PROVE  f[n + 1][Link(s, j)] = Rest(j)
    OBVIOUS
  <2>1. n + 1 \in 0..N /\ n <= N /\ (n + 1) - 1 = n /\ n + 1 # 0
    BY <1>1
  <2>2. CASE j = Len(s)
    BY <1>8, <2>1, <2>2
  <2>3. CASE j # Len(s)
    <3>1. j + 1 \in 0..Len(s) /\ j + 1 \in 1..Len(s) /\ Len(s) - (j + 1) <= n /\ j < Len(s)
      BY <1>5, <2>3
    <3>2. Link(s, j) = s[j + 1] /\ s[j + 1] \in DOMAIN mem /\ s[j + 1] \in Addrs
      BY <1>5, <3>1 DEF Link
    <3>3. mem[s[j + 1]].next = Link(s, j + 1)
      BY <1>5, <3>1 DEF IsList
    <3>4. f[n][Link(s, j + 1)] = Rest(j + 1)
      BY <2>1, <3>1
    <3>5. f[n + 1] = Step(mem, n + 1, f[n])
      BY <1>3, <2>1 DEF Follows
    <3>6. f[n + 1][s[j + 1]] = <<s[j + 1]>> \o f[n][mem[s[j + 1]].next]
      BY <2>1, <3>2, <3>5 DEF Step
    <3>7. SubSeq(s, j + 1, Len(s)) = <<s[j + 1]>> \o SubSeq(s, (j + 1) + 1, Len(s))
      <4>1. Len(s) \in (j + 1)..Len(s)
        BY <1>5, <3>1
      <4> QED BY <1>5, <3>1, <4>1, SubSeqRecursiveFirst
    <3> QED BY <3>2, <3>3, <3>4, <3>6, <3>7
  <2> QED BY <2>2, <2>3
<1>11. Nat \subseteq G
  <2> HIDE DEF G
  <2> QED BY <1>9, <1>10, NatInduct DEF G
<1>12. 0 \in 0..Len(s) /\ Len(s) - 0 <= N
  BY <1>1, <1>5
<1>13. f[N][Link(s, 0)] = SubSeq(s, 0 + 1, Len(s))
  BY <1>1, <1>11, <1>12
<1>14. SubSeq(s, 0 + 1, Len(s)) = s
  BY <1>5, SubSeqFull
<1> QED BY <1>4, <1>13, <1>14 DEF IsList

-----------------------------------------------------------------------------
(* What the code does to a list: a cell hung on its end, a cell taken out, *)
(* cells that are not in it changed.                                       *)

LEMMA ListShape ==
  ASSUME NEW mem, NEW h, NEW s, IsList(mem, h, s)
  PROVE  /\ s \in Seq(DOMAIN mem) /\ Len(s) \in Nat /\ DOMAIN s = 1..Len(s)
         /\ \A i \in 1..Len(s) : s[i] \in DOMAIN mem /\ mem[s[i]].next = Link(s, i)
         /\ \A i, j \in 1..Len(s) : s[i] = s[j] => i = j
         /\ h = Link(s, 0)
         /\ Range(s) = {s[i] : i \in 1..Len(s)}
         /\ s = <<>> <=> Len(s) = 0
<1>1. s \in Seq(DOMAIN mem) /\ Len(s) \in Nat /\ DOMAIN s = 1..Len(s)
  BY LenProperties DEF IsList
<1>2. s = <<>> <=> Len(s) = 0
  BY <1>1, EmptySeq
<1> QED BY <1>1, <1>2, ElementOfSeq DEF IsList, Range

LEMMA ListKept ==
  ASSUME NEW mem, NEW h, NEW s, IsList(mem, h, s), NEW mem2,
         \A a \in Range(s) : a \in DOMAIN mem2 /\ mem2[a].next = mem[a].next
  PROVE  IsList(mem2, h, s)
<1>1. /\ s \in Seq(DOMAIN mem) /\ Len(s) \in Nat /\ DOMAIN s = 1..Len(s)
      /\ \A i \in 1..Len(s) : s[i] \in Range(s) /\ mem[s[i]].next = Link(s, i)
  BY ListShape
<1>2. s \in [1..Len(s) -> DOMAIN mem2]
  <2>1. s \in [1..Len(s) -> DOMAIN mem]
    BY <1>1, LenProperties
  <2> QED BY <1>1, <2>1
<1>3. s \in Seq(DOMAIN mem2)
  BY <1>1, <1>2, FunctionIsSeq
<1> QED BY <1>1, <1>3 DEF IsList

LEMMA ListAppend ==
  ASSUME NEW mem, NEW h, NEW s, IsList(mem, h, s), NEW a, a \notin DOMAIN mem,
         NEW mem2, DOMAIN mem2 = DOMAIN mem \cup {a}, mem2[a].next = NULL,
         \A b \in DOMAIN mem :
            mem2[b].next = IF s # <<>> /\ b = s[Len(s)] THEN a ELSE mem[b].next
  PROVE  /\ IsList(mem2, IF s = <<>> THEN a ELSE h, Append(s, a))
         /\ Range(Append(s, a)) = Range(s) \cup {a}
         /\ End(Append(s, a)) = a
<1> DEFINE t == Append(s, a)
           g == IF s = <<>> THEN a ELSE h
<1>1. /\ s \in Seq(DOMAIN mem) /\ Len(s) \in Nat /\ DOMAIN s = 1..Len(s)
      /\ \A i \in 1..Len(s) : s[i] \in DOMAIN mem /\ mem[s[i]].next = Link(s, i)
      /\ \A i, j \in 1..Len(s) : s[i] = s[j] => i = j
      /\ h = Link(s, 0)
      /\ s = <<>> <=> Len(s) = 0
  BY ListShape
<1>2. s \in Seq(DOMAIN mem2) /\ a \in DOMAIN mem2
  BY <1>1, SeqMonotonic
<1>3. /\ t \in Seq(DOMAIN mem2) /\ Len(t) = Len(s) + 1 /\ DOMAIN t = 1..(Len(s) + 1)
      /\ t[Len(s) + 1] = a /\ \A i \in 1..Len(s) : t[i] = s[i]
  BY <1>2, AppendProperties, LenProperties
<1> HIDE DEF t
<1>4. \A i \in 1..(Len(s) + 1) : i = Len(s) + 1 \/ i \in 1..Len(s)
  BY <1>1
<1>5. ASSUME NEW i \in 1..(Len(s) + 1), NEW j \in 1..(Len(s) + 1), t[i] = t[j]
      PROVE  i = j
  BY <1>1, <1>3, <1>4, <1>5
<1>6. g = Link(t, 0)
  BY <1>1, <1>3 DEF Link
<1>7. ASSUME NEW i \in 1..(Len(s) + 1)
      PROVE  mem2[t[i]].next = Link(t, i)
  <2>1. CASE i = Len(s) + 1
    BY <1>1, <1>3, <2>1 DEF Link
  <2>2. CASE i = Len(s)
    <3>1. i \in 1..Len(s) /\ i + 1 = Len(s) + 1 /\ i < Len(t)
      BY <1>1, <1>3, <2>2
    <3>2. t[i] = s[Len(s)] /\ s # <<>> /\ s[Len(s)] \in DOMAIN mem
      BY <1>1, <1>3, <2>2, <3>1
    <3>3. mem2[t[i]].next = a
      BY <3>2
    <3>4. Link(t, i) = a
      BY <1>3, <3>1 DEF Link
    <3> QED BY <3>3, <3>4
  <2>3. CASE i # Len(s) + 1 /\ i # Len(s)
    <3>1. i \in 1..Len(s) /\ i + 1 \in 1..Len(s) /\ i < Len(t) /\ i < Len(s) /\ Len(s) \in 1..Len(s)
      <4>1. Len(s) \in Nat /\ Len(t) = Len(s) + 1
        BY <1>1, <1>3
      <4> QED BY ONLY <4>1, <2>3, i \in 1..(Len(s) + 1)
    <3>2. t[i] = s[i] /\ t[i + 1] = s[i + 1] /\ s[i] # s[Len(s)] /\ s[i] \in DOMAIN mem
      BY <1>1, <1>3, <2>3, <3>1
    <3>3. mem2[s[i]].next = mem[s[i]].next /\ mem[s[i]].next = Link(s, i)
      BY <1>1, <3>1, <3>2
    <3>4. Link(t, i) = t[i + 1] /\ Link(s, i) = s[i + 1]
      BY <3>1 DEF Link
    <3> QED BY <3>2, <3>3, <3>4
  <2> QED BY <2>1, <2>2, <2>3
<1>8. IsList(mem2, g, t)
  BY <1>3, <1>5, <1>6, <1>7 DEF IsList
<1>9. Range(t) = Range(s) \cup {a}
  <2>1. Range(t) = {t[i] : i \in 1..(Len(s) + 1)} /\ Range(s) = {s[i] : i \in 1..Len(s)}
    BY <1>1, <1>3 DEF Range
  <2>2. Len(s) + 1 \in 1..(Len(s) + 1) /\ \A i \in 1..Len(s) : i \in 1..(Len(s) + 1)
    BY <1>1
  <2> QED BY <1>3, <1>4, <2>1, <2>2
<1>10. End(t) = a
  BY <1>1, <1>3, EmptySeq DEF End
<1> QED BY <1>8, <1>9, <1>10 DEF t

(* The k-th cell is gone, and the one before it leads past it.             *)
Unlinked(mem, s, k, mem2) ==
    /\ DOMAIN mem2 = DOMAIN mem \ {s[k]}
    /\ \A b \in DOMAIN mem2 :
        mem2[b].next = IF 1 < k /\ b = s[k - 1] THEN mem[s[k]].next ELSE mem[b].next

LEMMA ListRemove ==
  ASSUME NEW mem, NEW h, NEW s, IsList(mem, h, s), NEW k \in 1..Len(s),
         NEW mem2, Unlinked(mem, s, k, mem2), NEW g, g = IF k = 1 THEN mem[s[k]].next ELSE h
  PROVE  /\ IsList(mem2, g, RemoveAt(s, k))
         /\ Range(RemoveAt(s, k)) = Range(s) \ {s[k]}
         /\ Len(RemoveAt(s, k)) = Len(s) - 1
         /\ \A i \in 1..(Len(s) - 1) : RemoveAt(s, k)[i] = IF i < k THEN s[i] ELSE s[i + 1]
<1> DEFINE t == RemoveAt(s, k)
<1>0. /\ DOMAIN mem2 = DOMAIN mem \ {s[k]}
      /\ \A b \in DOMAIN mem2 :
            mem2[b].next = IF 1 < k /\ b = s[k - 1] THEN mem[s[k]].next ELSE mem[b].next
  BY DEF Unlinked
<1>1. /\ s \in Seq(DOMAIN mem) /\ Len(s) \in Nat /\ DOMAIN s = 1..Len(s)
      /\ \A i \in 1..Len(s) : s[i] \in DOMAIN mem /\ mem[s[i]].next = Link(s, i)
      /\ \A i, j \in 1..Len(s) : s[i] = s[j] => i = j
      /\ h = Link(s, 0)
      /\ Range(s) = {s[i] : i \in 1..Len(s)}
  BY ListShape
<1>2. /\ t \in Seq(DOMAIN mem) /\ Len(t) = Len(s) - 1
      /\ \A i \in 1..(Len(s) - 1) : t[i] = IF i < k THEN s[i] ELSE s[i + 1]
  BY <1>1, RemoveAtProperties
<1>3. DOMAIN t = 1..(Len(s) - 1) /\ Len(t) \in Nat /\ t \in [1..Len(t) -> DOMAIN mem]
  BY <1>2, LenProperties
<1> HIDE DEF t
<1> DEFINE at(i) == IF i < k THEN i ELSE i + 1
<1>4. \A i \in 1..(Len(s) - 1) : at(i) \in 1..Len(s) /\ at(i) # k
  BY <1>1
<1>5. \A i, j \in 1..(Len(s) - 1) : at(i) = at(j) => i = j
  BY <1>1
<1>6. \A i \in 1..(Len(s) - 1) : t[i] = s[at(i)]
  BY <1>2
<1>7. \A i \in 1..Len(s) : i # k => \E j \in 1..(Len(s) - 1) : at(j) = i
  <2> TAKE i \in 1..Len(s)
  <2> HAVE i # k
  <2>1. CASE i < k
    <3>1. i \in 1..(Len(s) - 1) /\ at(i) = i
      <4>1. Len(s) \in Nat
        BY <1>1
      <4> QED BY ONLY <4>1, <2>1, i \in 1..Len(s), k \in 1..Len(s)
    <3> QED BY <3>1
  <2>2. CASE k < i
    <3>1. i - 1 \in 1..(Len(s) - 1) /\ at(i - 1) = i
      BY <1>1, <2>2
    <3> QED BY <3>1
  <2> QED BY <1>1, <2>1, <2>2
<1>8. \A i \in 1..(Len(s) - 1) : t[i] \in DOMAIN mem2 /\ t[i] # s[k]
  <2> HIDE DEF at
  <2> QED BY <1>0, <1>1, <1>4, <1>6
<1>9. t \in Seq(DOMAIN mem2)
  <2>1. t \in [1..Len(t) -> DOMAIN mem2]
    BY <1>2, <1>3, <1>8
  <2> QED BY <1>3, <2>1, FunctionIsSeq
<1>10. ASSUME NEW i \in 1..(Len(s) - 1), NEW j \in 1..(Len(s) - 1), t[i] = t[j]
       PROVE  i = j
  <2> HIDE DEF at
  <2>1. at(i) = at(j)
    BY <1>1, <1>4, <1>6, <1>10
  <2> QED BY <1>5, <2>1
<1>11. g = Link(t, 0)
  <2>1. CASE k = 1 /\ Len(s) = 1
    BY <1>1, <1>2, <2>1 DEF Link
  <2>2. CASE k = 1 /\ Len(s) # 1
    <3>1. 1 \in 1..(Len(s) - 1) /\ 1 < Len(s) /\ 0 < Len(t) /\ 1 \in 1..Len(s)
      BY <1>1, <1>2, <2>2
    <3>2. t[1] = s[2]
      BY <1>2, <2>2, <3>1
    <3> QED BY <1>1, <2>2, <3>1, <3>2 DEF Link
  <2>3. CASE k # 1
    <3>1. 1 \in 1..(Len(s) - 1) /\ 1 < k /\ 0 < Len(t) /\ 0 < Len(s)
      BY <1>1, <1>2, <2>3
    <3>2. t[1] = s[1]
      BY <1>2, <3>1
    <3> QED BY <1>1, <2>3, <3>1, <3>2 DEF Link
  <2> QED BY <2>1, <2>2, <2>3
<1>12. ASSUME NEW i \in 1..(Len(s) - 1)
       PROVE  mem2[t[i]].next = Link(t, i)
  <2>1. CASE i = k - 1
    <3>1. 1 < k /\ i \in 1..Len(s) /\ t[i] = s[k - 1]
      BY <1>1, <1>2, <2>1
    <3>2. mem2[t[i]].next = mem[s[k]].next
      BY <1>0, <1>8, <3>1
    <3>3. mem[s[k]].next = Link(s, k)
      BY <1>1
    <3>4. Link(s, k) = Link(t, i)
      <4>1. CASE k = Len(s)
        BY <1>1, <1>2, <2>1, <4>1 DEF Link
      <4>2. CASE k # Len(s)
        <5>1. i + 1 = k /\ k < Len(s) /\ i < Len(t) /\ k \in 1..(Len(s) - 1)
          <6>1. Len(s) \in Nat /\ Len(t) = Len(s) - 1
            BY <1>1, <1>2
          <6> QED BY ONLY <6>1, <2>1, <4>2, i \in 1..(Len(s) - 1), k \in 1..Len(s)
        <5>2. t[k] = s[k + 1]
          BY <1>2, <5>1
        <5> QED BY <5>1, <5>2 DEF Link
      <4> QED BY <4>1, <4>2
    <3> QED BY <3>2, <3>3, <3>4
  <2>2. CASE i < k - 1
    <3>1. /\ i \in 1..Len(s) /\ i + 1 \in 1..(Len(s) - 1) /\ i + 1 < k /\ i < k
          /\ i < Len(s) /\ i < Len(t) /\ k - 1 \in 1..Len(s) /\ i # k - 1
      BY <1>1, <1>2, <2>2
    <3>2. t[i] = s[i] /\ t[i + 1] = s[i + 1] /\ s[i] # s[k - 1]
      BY <1>1, <1>2, <3>1
    <3>3. mem2[t[i]].next = mem[s[i]].next
      BY <1>0, <1>8, <3>2
    <3> QED BY <1>1, <3>1, <3>2, <3>3 DEF Link
  <2>3. CASE k <= i
    <3>1. /\ i + 1 \in 1..Len(s) /\ ~(i < k)
          /\ 1 < k => k - 1 \in 1..Len(s) /\ i + 1 # k - 1
      BY <1>1, <1>2, <2>3
    <3>2. t[i] = s[i + 1] /\ (1 < k => s[i + 1] # s[k - 1])
      BY <1>1, <1>2, <3>1
    <3>3. mem2[t[i]].next = mem[s[i + 1]].next
      BY <1>0, <1>8, <3>2
    <3>4. mem[s[i + 1]].next = Link(s, i + 1)
      BY <1>1, <3>1
    <3>5. Link(s, i + 1) = Link(t, i)
      <4>1. CASE i = Len(s) - 1
        BY <1>1, <1>2, <4>1 DEF Link
      <4>2. CASE i # Len(s) - 1
        <5>1. i + 1 \in 1..(Len(s) - 1) /\ ~(i + 1 < k) /\ i + 1 < Len(s) /\ i < Len(t)
          <6>1. Len(s) \in Nat /\ Len(t) = Len(s) - 1
            BY <1>1, <1>2
          <6> QED BY ONLY <6>1, <2>3, <4>2, i \in 1..(Len(s) - 1), k \in 1..Len(s)
        <5>2. t[i + 1] = s[(i + 1) + 1]
          BY <1>2, <5>1
        <5> QED BY <5>1, <5>2 DEF Link
      <4> QED BY <4>1, <4>2
    <3> QED BY <3>3, <3>4, <3>5
  <2> QED BY <1>1, <2>1, <2>2, <2>3
<1>13. IsList(mem2, g, t)
  BY <1>3, <1>9, <1>10, <1>11, <1>12 DEF IsList
<1>14. Range(t) = Range(s) \ {s[k]}
  <2>1. Range(t) = {t[i] : i \in 1..(Len(s) - 1)}
    BY <1>3 DEF Range
  <2> HIDE DEF at
  <2>2. \A i \in 1..(Len(s) - 1) : t[i] \in Range(s)
    BY <1>1, <1>4, <1>6
  <2>3. \A i \in 1..Len(s) : s[i] # s[k] => \E j \in 1..(Len(s) - 1) : t[j] = s[i]
    BY <1>6, <1>7
  <2>4. \A x \in Range(t) : x \in Range(s) /\ x # s[k]
    BY <1>8, <2>1, <2>2
  <2>5. ASSUME NEW x \in Range(s), x # s[k]
        PROVE  x \in Range(t)
    <3>1. PICK i \in 1..Len(s) : x = s[i]
      BY <1>1
    <3>2. PICK j \in 1..(Len(s) - 1) : t[j] = s[i]
      BY <2>3, <2>5, <3>1
    <3> QED BY <2>1, <3>1, <3>2
  <2> HIDE DEF t
  <2> QED BY <2>4, <2>5
<1> QED BY <1>2, <1>13, <1>14 DEF t

-----------------------------------------------------------------------------
(* What the invariant says of a state, and what has to be shown of the     *)
(* next one: lists that have the cells, and that they have them all.       *)

LEMMA Shape ==
  ASSUME ShapeInv
  PROVE  /\ NULL \notin Addrs /\ NULL \notin DOMAIN peers /\ NULL \notin DOMAIN streams
         /\ DOMAIN peers \subseteq Addrs /\ DOMAIN streams \subseteq Addrs
         /\ \A p \in DOMAIN peers : peers[p] \in PeerCells
         /\ \A s \in DOMAIN streams : streams[s] \in StreamCells
         /\ unique_id \in Nat /\ replies \in Nat /\ MaxIds \in Nat /\ MaxReplies \in Nat
BY PeerListAssumption DEF ShapeInv

LEMMA Pointing ==
  ASSUME NEW mem, NEW h, NEW s, IsList(mem, h, s)
  PROVE  /\ h \in DOMAIN mem \cup {NULL} /\ End(s) \in DOMAIN mem \cup {NULL}
         /\ \A i \in 0..Len(s) : Link(s, i) \in DOMAIN mem \cup {NULL}
         /\ \A a \in Range(s) : mem[a].next \in DOMAIN mem \cup {NULL}
         /\ Range(s) \subseteq DOMAIN mem
<1>1. /\ Len(s) \in Nat /\ h = Link(s, 0) /\ (s = <<>> <=> Len(s) = 0)
      /\ Range(s) = {s[i] : i \in 1..Len(s)}
      /\ \A i \in 1..Len(s) : s[i] \in DOMAIN mem /\ mem[s[i]].next = Link(s, i)
  BY ListShape
<1>2. \A i \in 0..Len(s) : Link(s, i) \in DOMAIN mem \cup {NULL}
  <2> TAKE i \in 0..Len(s)
  <2>1. i < Len(s) => i + 1 \in 1..Len(s)
    BY <1>1
  <2> QED BY <1>1, <2>1 DEF Link
<1>3. 0 \in 0..Len(s) /\ \A i \in 1..Len(s) : i \in 0..Len(s)
  BY <1>1
<1>4. End(s) \in DOMAIN mem \cup {NULL}
  <2>1. s # <<>> => Len(s) \in 1..Len(s)
    BY <1>1
  <2> QED BY <1>1, <2>1 DEF End
<1> QED BY <1>1, <1>2, <1>3, <1>4

LEMMA NoCells ==
  ASSUME NEW mem
  PROVE  IsList(mem, NULL, <<>>) /\ Range(<<>>) = {} /\ End(<<>>) = NULL
<1>1. <<>> \in Seq(DOMAIN mem) /\ Len(<<>>) = 0
  BY EmptySeq
<1>2. DOMAIN <<>> = 1..0
  BY <1>1, LenProperties
<1>3. \A i \in DOMAIN <<>> : FALSE
  BY <1>2
<1> QED BY <1>1, <1>3 DEF IsList, Link, End, Range

(* An empty list is one that begins nowhere.                               *)
LEMMA Emptiness ==
  ASSUME NEW mem, NULL \notin DOMAIN mem, NEW h, NEW s, IsList(mem, h, s)
  PROVE  /\ h = NULL <=> s = <<>>
         /\ End(s) = NULL <=> s = <<>>
         /\ s # <<>> => 1 \in 1..Len(s) /\ h = s[1]
                          /\ Len(s) \in 1..Len(s) /\ End(s) = s[Len(s)]
<1>1. /\ Len(s) \in Nat /\ h = Link(s, 0) /\ (s = <<>> <=> Len(s) = 0)
      /\ \A i \in 1..Len(s) : s[i] \in DOMAIN mem
  BY ListShape
<1>2. CASE s = <<>>
  BY <1>1, <1>2 DEF Link, End
<1>3. CASE s # <<>>
  <2>1. 1 \in 1..Len(s) /\ Len(s) \in 1..Len(s) /\ 0 < Len(s) /\ 0 + 1 = 1
    BY <1>1, <1>3
  <2>2. h = s[1] /\ End(s) = s[Len(s)]
    BY <1>1, <1>3, <2>1 DEF Link, End
  <2> QED BY <1>1, <1>3, <2>1, <2>2
<1> QED BY <1>2, <1>3

LEMMA PeersAre ==
  ASSUME DOMAIN peers' \subseteq Addrs, NEW t, IsList(peers', Start', t),
         Range(t) = DOMAIN peers', pc' \in {"idle", "walk"} => tail' = End(t)
  PROVE  PeersInv' /\ Cells' = t
<1>1. Chain(peers', Start') = t
  BY ChainIs
<1> QED BY <1>1 DEF PeersInv, Cells

LEMMA OutsAre ==
  ASSUME DOMAIN streams' \subseteq Addrs, NEW o,
         \A p \in DOMAIN peers' :
            /\ IsList(streams', peers'[p].outHead, o[p])
            /\ peers'[p].outTail = End(o[p]),
         \A p, q \in DOMAIN peers' : p # q => Range(o[p]) \cap Range(o[q]) = {},
         \A s : s \in DOMAIN streams' <=> \E p \in DOMAIN peers' : s \in Range(o[p])
  PROVE  OutInv' /\ \A p \in DOMAIN peers' : Out(p)' = o[p]
<1>1. \A p \in DOMAIN peers' : Chain(streams', peers'[p].outHead) = o[p]
  BY ChainIs
<1>2. \A p \in DOMAIN peers' : Out(p)' = o[p]
  BY <1>1 DEF Out
<1>3. DOMAIN streams' = UNION {Range(Out(p)') : p \in DOMAIN peers'}
  <2> DEFINE all == UNION {Range(Out(p)') : p \in DOMAIN peers'}
  <2>1. \A s : s \in all <=> \E p \in DOMAIN peers' : s \in Range(Out(p)')
    OBVIOUS
  <2> HIDE DEF all
  <2>2. \A s : s \in all <=> s \in DOMAIN streams'
    BY <1>2, <2>1
  <2> QED BY <2>2 DEF all
<1> QED BY <1>2, <1>3 DEF OutInv

(* The pointers of such a state have their types.                          *)
LEMMA TypesFollow == IInv => TypeOK
<1> SUFFICES ASSUME IInv PROVE TypeOK
  OBVIOUS
<1> DEFINE Peer == DOMAIN peers \cup {NULL}
           Stream == DOMAIN streams \cup {NULL}
<1>1. /\ ShapeInv /\ PeersInv /\ OutInv /\ WalkInv
  BY DEF IInv
<1>2. /\ IsList(peers, Start, Cells) /\ Range(Cells) = DOMAIN peers
      /\ pc \in {"idle", "walk"} => tail = End(Cells)
  BY <1>1 DEF PeersInv
<1>3. /\ Start \in Peer /\ End(Cells) \in Peer
      /\ \A i \in 0..Len(Cells) : Link(Cells, i) \in Peer
      /\ \A a \in DOMAIN peers : peers[a].next \in Peer
  BY <1>2, Pointing
<1>4. \A p \in DOMAIN peers : peers[p].outHead \in Stream /\ peers[p].outTail \in Stream
  BY <1>1, Pointing DEF OutInv
<1>5. \A s \in DOMAIN streams : streams[s].next \in Stream
  <2> TAKE s \in DOMAIN streams
  <2>1. PICK p \in DOMAIN peers : s \in Range(Out(p))
    BY <1>1 DEF OutInv
  <2>2. IsList(streams, peers[p].outHead, Out(p))
    BY <1>1 DEF OutInv
  <2> QED BY <2>1, <2>2, Pointing
<1>6. \A p \in DOMAIN peers :
        peers[p] \in [id : Nat, outHead : Stream, outTail : Stream, next : Peer]
  BY <1>1, <1>3, <1>4, Shape DEF PeerCells
<1>7. \A s \in DOMAIN streams : streams[s] \in [id : Nat, next : Stream]
  BY <1>1, <1>5, Shape DEF StreamCells
<1>8. peer \in Peer /\ last \in Peer
  <2>1. CASE pc = "walk"
    <3>1. PICK k \in 0..Len(Cells) : At(k)
      BY <1>1, <2>1 DEF WalkInv
    <3>2. peer \in Peer
      BY <1>3, <3>1 DEF At
    <3>3. k # 0 => Cells[k] \in Peer
      <4>1. Len(Cells) \in Nat /\ \A i \in 1..Len(Cells) : Cells[i] \in DOMAIN peers
        BY <1>2, ListShape
      <4>2. k # 0 => k \in 1..Len(Cells)
        BY <4>1
      <4> QED BY <4>1, <4>2
    <3> QED BY <3>1, <3>2, <3>3 DEF At
  <2>2. CASE pc # "walk"
    BY <1>1, <1>3, <2>2 DEF WalkInv, Start, ShapeInv
  <2> QED BY <2>1, <2>2
<1>9. pc \in {"idle", "walk"} => head \in Peer /\ tail \in Peer
  BY <1>2, <1>3 DEF Start
<1> QED BY <1>1, <1>6, <1>7, <1>8, <1>9 DEF TypeOK, ShapeInv

-----------------------------------------------------------------------------
(* A connection accepted.                                                  *)

LEMMA InitIInv == Init => IInv
<1> SUFFICES ASSUME Init PROVE IInv
  OBVIOUS
<1>1. /\ peers = <<>> /\ streams = <<>> /\ DOMAIN <<>> = {} /\ <<>> \in Seq(Nat)
      /\ <<>> = [a \in DOMAIN <<>> |-> <<>>[a]]
  <2>1. DOMAIN <<>> = 1..0 /\ <<>> \in Seq(Nat)
    BY EmptySeq, LenProperties
  <2>2. <<>> \in [1..Len(<<>>) -> Nat]
    BY <2>1, LenProperties
  <2> QED BY <2>1, <2>2 DEF Init
<1>2. IsList(peers, NULL, <<>>)
  BY NoCells
<1>3. Start = NULL /\ Cells = <<>>
  <2>1. Start = NULL
    BY DEF Init, Start
  <2> QED BY <1>1, <1>2, <2>1, ChainIs DEF Cells
<1>4. PeersInv
  BY <1>1, <1>2, <1>3, NoCells DEF PeersInv, Init
<1>5. OutInv
  BY <1>1 DEF OutInv
<1>6. ShapeInv
  <2>1. peers \in [DOMAIN peers -> PeerCells] /\ streams \in [DOMAIN streams -> StreamCells]
    BY <1>1
  <2> QED BY <1>1, <2>1, PeerListAssumption DEF ShapeInv, Init, Pointers
<1>7. IdsInv
  BY <1>1 DEF IdsInv
<1>8. WalkInv
  BY <1>1 DEF WalkInv, Init
<1> QED BY <1>4, <1>5, <1>6, <1>7, <1>8 DEF IInv

LEMMA AddFdDoes ==
  ASSUME IInv, AddFd
  PROVE  /\ IInv'
         /\ \E a \in Addrs :
                /\ a \notin DOMAIN peers /\ DOMAIN peers' = DOMAIN peers \cup {a}
                /\ Cells' = Append(Cells, a)
                /\ peers'[a].id = unique_id + 1 /\ Out(a)' = <<>>
                /\ \A p \in DOMAIN peers : peers'[p].id = peers[p].id /\ Out(p)' = Out(p)
<1> DEFINE s == Cells
           Added(a) == [id |-> unique_id + 1, outHead |-> NULL, outTail |-> NULL, next |-> NULL]
<1>1. PICK a \in Free :
        /\ tail' = a
        /\ IF head = NULL
           THEN peers' = Put(peers, a, Added(a)) /\ head' = a
           ELSE /\ peers' = [Put(peers, a, Added(a)) EXCEPT ![tail].next = a]
                /\ UNCHANGED head
  BY DEF AddFd
<1> DEFINE new == Added(a)
<1>2. /\ pc = "idle" /\ unique_id < MaxIds /\ unique_id' = unique_id + 1
      /\ UNCHANGED <<streams, pc, peer, last, replies, due, visited>>
  BY DEF AddFd, walk
<1>3. /\ ShapeInv /\ PeersInv /\ OutInv /\ IdsInv /\ WalkInv
  BY DEF IInv
<1>4. a \in Addrs /\ a \notin DOMAIN peers /\ a \notin DOMAIN streams /\ a # NULL
  BY <1>3, Shape DEF Free
<1>5. IsList(peers, head, s) /\ Range(s) = DOMAIN peers /\ tail = End(s)
  BY <1>2, <1>3 DEF PeersInv, Start
<1> HIDE DEF s
<1>6. /\ head = NULL <=> s = <<>>
      /\ s # <<>> => tail = s[Len(s)] /\ tail \in DOMAIN peers
  <2>1. NULL \notin DOMAIN peers
    BY <1>3, Shape
  <2>2. \A i \in 1..Len(s) : s[i] \in DOMAIN peers
    BY <1>5, ListShape
  <2> QED BY <1>5, <2>1, <2>2, Emptiness
<1>7. /\ DOMAIN peers' = DOMAIN peers \cup {a}
      /\ peers' = [b \in DOMAIN peers' |-> peers'[b]]
      /\ peers'[a] = new
      /\ \A b \in DOMAIN peers :
            peers'[b] = IF s # <<>> /\ b = s[Len(s)] THEN [peers[b] EXCEPT !.next = a]
                        ELSE peers[b]
  <2>1. CASE head = NULL
    BY <1>1, <1>4, <1>6, <2>1 DEF Put
  <2>2. CASE head # NULL
    <3>1. peers' = [Put(peers, a, new) EXCEPT ![tail].next = a]
      BY <1>1, <2>2
    <3> HIDE DEF new
    <3> QED BY <1>4, <1>6, <2>2, <3>1 DEF Put
  <2> QED BY <2>1, <2>2
<1>8. \A b \in DOMAIN peers :
        /\ peers[b] \in PeerCells /\ peers'[b] \in PeerCells
        /\ peers'[b].id = peers[b].id
        /\ peers'[b].outHead = peers[b].outHead /\ peers'[b].outTail = peers[b].outTail
        /\ peers'[b].next = IF s # <<>> /\ b = s[Len(s)] THEN a ELSE peers[b].next
  <2> TAKE b \in DOMAIN peers
  <2>1. peers[b] \in PeerCells /\ a \in Pointers
    BY <1>3, <1>4, Shape DEF Pointers
  <2>2. peers'[b] = IF s # <<>> /\ b = s[Len(s)] THEN [peers[b] EXCEPT !.next = a]
                    ELSE peers[b]
    BY <1>7
  <2> QED BY <2>1, <2>2 DEF PeerCells
<1>9. new \in PeerCells
  BY <1>3, Shape DEF PeerCells, Pointers
<1>10. ShapeInv'
  <2>1. \A b \in DOMAIN peers' : peers'[b] \in PeerCells
    BY <1>7, <1>8, <1>9
  <2>2. peers' \in [DOMAIN peers' -> PeerCells]
    BY <1>7, <2>1
  <2>3. a \in Pointers
    BY <1>4 DEF Pointers
  <2>4. head' \in Pointers
    BY <1>1, <1>3, <2>3 DEF ShapeInv
  <2>5. DOMAIN peers' \subseteq Addrs /\ DOMAIN peers' \cap DOMAIN streams = {}
    BY <1>3, <1>4, <1>7 DEF ShapeInv
  <2>6. unique_id + 1 \in 0..MaxIds
    BY <1>2, <1>3, Shape DEF ShapeInv
  <2> QED BY <1>1, <1>2, <1>3, <2>2, <2>3, <2>4, <2>5, <2>6 DEF ShapeInv
<1>11. PeersInv' /\ Cells' = Append(s, a)
  <2>1. DOMAIN peers' = DOMAIN peers \cup {a} /\ peers'[a].next = NULL
    BY <1>7
  <2>0. \A b \in DOMAIN peers :
            peers'[b].next = IF s # <<>> /\ b = s[Len(s)] THEN a ELSE peers[b].next
    BY <1>8
  <2>a. IsList(peers, head, s) /\ a \notin DOMAIN peers
    BY <1>4, <1>5
  <2>2. /\ IsList(peers', IF s = <<>> THEN a ELSE head, Append(s, a))
        /\ Range(Append(s, a)) = Range(s) \cup {a}
        /\ End(Append(s, a)) = a
    BY ONLY <2>0, <2>1, <2>a, ListAppend
  <2>3. Start' = IF s = <<>> THEN a ELSE head
    BY <1>1, <1>2, <1>6 DEF Start
  <2> QED BY <1>1, <1>5, <1>7, <1>10, <2>2, <2>3, PeersAre DEF ShapeInv
<1>12. OutInv' /\ Out(a)' = <<>> /\ \A p \in DOMAIN peers : Out(p)' = Out(p)
  <2> DEFINE o == [p \in DOMAIN peers' |-> IF p = a THEN <<>> ELSE Out(p)]
  <2>1. \A p \in DOMAIN peers : p \in DOMAIN peers' /\ p # a /\ o[p] = Out(p)
    BY <1>4, <1>7
  <2>2. a \in DOMAIN peers' /\ o[a] = <<>> /\ \A p \in DOMAIN peers' : p = a \/ p \in DOMAIN peers
    BY <1>7
  <2> HIDE DEF o
  <2>3. peers'[a].outHead = NULL /\ peers'[a].outTail = NULL
    BY <1>7
  <2>4. IsList(streams, NULL, o[a]) /\ Range(o[a]) = {} /\ End(o[a]) = NULL
    BY <2>2, NoCells
  <2>5. \A p \in DOMAIN peers : /\ IsList(streams, peers[p].outHead, o[p])
                                /\ peers[p].outTail = End(o[p])
    BY <1>3, <2>1 DEF OutInv
  <2>6. \A p \in DOMAIN peers' : /\ IsList(streams', peers'[p].outHead, o[p])
                                 /\ peers'[p].outTail = End(o[p])
    BY <1>2, <1>8, <2>2, <2>3, <2>4, <2>5
  <2>7. \A p, q \in DOMAIN peers' : p # q => Range(o[p]) \cap Range(o[q]) = {}
    <3>1. \A p, q \in DOMAIN peers : p # q => Range(o[p]) \cap Range(o[q]) = {}
      BY <1>3, <2>1 DEF OutInv
    <3> QED BY <2>2, <2>4, <3>1
  <2>8. \A x : x \in DOMAIN streams' <=> \E p \in DOMAIN peers' : x \in Range(o[p])
    <3>1. \A x : x \in DOMAIN streams <=> \E p \in DOMAIN peers : x \in Range(Out(p))
      BY <1>3 DEF OutInv
    <3> QED BY <1>2, <2>1, <2>2, <2>4, <3>1
  <2>9. DOMAIN streams' \subseteq Addrs
    BY <1>10 DEF ShapeInv
  <2>10. OutInv' /\ \A p \in DOMAIN peers' : Out(p)' = o[p]
    BY <2>6, <2>7, <2>8, <2>9, OutsAre
  <2> QED BY <2>1, <2>2, <2>10
<1>13. IdsInv'
  <2>1. unique_id \in Nat /\ \A p \in DOMAIN peers : peers[p].id \in 1..unique_id
    BY <1>3, Shape DEF IdsInv
  <2>2. peers'[a].id = unique_id + 1
    BY <1>7
  <2>3. \A p \in DOMAIN peers' : p = a \/ p \in DOMAIN peers
    BY <1>7
  <2>4. \A p \in DOMAIN peers' : peers'[p].id \in 1..unique_id'
    BY <1>2, <1>8, <2>1, <2>2, <2>3
  <2>5. \A p \in DOMAIN peers : peers'[p].id # peers'[a].id
    BY <1>8, <2>1, <2>2
  <2>6. \A p, q \in DOMAIN peers' : peers'[p].id = peers'[q].id => p = q
    BY <1>3, <1>8, <2>3, <2>5 DEF IdsInv
  <2> QED BY <1>2, <1>3, <2>4, <2>6 DEF IdsInv
<1>14. WalkInv'
  BY <1>2, <1>3 DEF WalkInv
<1> QED BY <1>4, <1>7, <1>8, <1>10, <1>11, <1>12, <1>13, <1>14 DEF IInv, s

-----------------------------------------------------------------------------
(* A reply queued.                                                         *)

LEMMA PeersStay ==
  ASSUME ShapeInv, PeersInv, DOMAIN peers' = DOMAIN peers,
         \A p \in DOMAIN peers : peers'[p].next = peers[p].next,
         Start' = Start, tail' = tail,
         pc' \in {"idle", "walk"} => pc \in {"idle", "walk"}
  PROVE  PeersInv' /\ Cells' = Cells
<1>1. /\ IsList(peers, Start, Cells) /\ Range(Cells) = DOMAIN peers
      /\ pc \in {"idle", "walk"} => tail = End(Cells)
      /\ DOMAIN peers' \subseteq Addrs
  BY DEF PeersInv, ShapeInv
<1>2. PICK t : t = Cells
  OBVIOUS
<1>3. IsList(peers', Start, t)
  BY <1>1, <1>2, ListKept
<1>4. IsList(peers', Start', t) /\ Range(t) = DOMAIN peers'
  BY <1>1, <1>2, <1>3
<1>5. pc' \in {"idle", "walk"} => tail' = End(t)
  BY <1>1, <1>2
<1> QED BY <1>1, <1>2, <1>4, <1>5, PeersAre

LEMMA PeerQueueDoes ==
  ASSUME ShapeInv, OutInv, NEW p \in DOMAIN peers, NEW s \in Free, PeerQueue(p, s)
  PROVE  /\ DOMAIN peers' = DOMAIN peers /\ DOMAIN streams' = DOMAIN streams \cup {s}
         /\ peers' \in [DOMAIN peers' -> PeerCells]
         /\ streams' \in [DOMAIN streams' -> StreamCells]
         /\ s \in Addrs /\ s \notin DOMAIN peers /\ s \notin DOMAIN streams
         /\ \A q \in DOMAIN peers :
                /\ peers'[q].id = peers[q].id /\ peers'[q].next = peers[q].next
                /\ q # p => peers'[q] = peers[q]
         /\ peers'[p].outTail = s
         /\ peers'[p].outHead = IF Out(p) = <<>> THEN s ELSE peers[p].outHead
         /\ streams'[s].id = replies + 1 /\ streams'[s].next = NULL
         /\ \A t \in DOMAIN streams :
                /\ streams'[t].id = streams[t].id
                /\ streams'[t].next = IF Out(p) # <<>> /\ t = Out(p)[Len(Out(p))] THEN s
                                      ELSE streams[t].next
<1> DEFINE o == Out(p)
           new == [id |-> replies + 1, next |-> NULL]
<1>1. IsList(streams, peers[p].outHead, o) /\ peers[p].outTail = End(o)
  BY DEF OutInv
<1>2. s \in Addrs /\ s \notin DOMAIN peers /\ s \notin DOMAIN streams /\ s # NULL
  BY Shape DEF Free
<1> HIDE DEF o
<1>3. /\ peers[p].outTail = NULL <=> o = <<>>
      /\ o # <<>> => peers[p].outTail = o[Len(o)] /\ o[Len(o)] \in DOMAIN streams
  <2>1. NULL \notin DOMAIN streams
    BY Shape
  <2>2. \A i \in 1..Len(o) : o[i] \in DOMAIN streams
    BY <1>1, ListShape
  <2> QED BY <1>1, <2>1, <2>2, Emptiness
<1>4. new \in StreamCells /\ s \in Pointers
  BY <1>2, Shape DEF StreamCells, Pointers
<1>5. /\ peers \in [DOMAIN peers -> PeerCells] /\ streams \in [DOMAIN streams -> StreamCells]
      /\ peers[p] \in PeerCells /\ new.id = replies + 1 /\ new.next = NULL
  BY DEF ShapeInv
<1> HIDE DEF new
<1>6. CASE o = <<>>
  <2>1. /\ streams' = Put(streams, s, new)
        /\ peers' = [peers EXCEPT ![p].outHead = s, ![p].outTail = s]
    BY <1>3, <1>6 DEF PeerQueue, new
  <2>2. /\ DOMAIN streams' = DOMAIN streams \cup {s} /\ streams'[s] = new
        /\ \A t \in DOMAIN streams : streams'[t] = streams[t]
        /\ streams' \in [DOMAIN streams' -> StreamCells]
    BY <1>2, <1>4, <1>5, <2>1 DEF Put
  <2>3. /\ DOMAIN peers' = DOMAIN peers /\ peers' \in [DOMAIN peers' -> PeerCells]
        /\ \A q \in DOMAIN peers : q # p => peers'[q] = peers[q]
        /\ peers'[p].id = peers[p].id /\ peers'[p].next = peers[p].next
        /\ peers'[p].outHead = s /\ peers'[p].outTail = s
    BY <1>4, <1>5, <2>1 DEF PeerCells
  <2> QED BY <1>2, <1>5, <1>6, <2>2, <2>3 DEF o
<1>7. CASE o # <<>>
  <2> DEFINE tail0 == peers[p].outTail
  <2>1. /\ streams' = [Put(streams, s, new) EXCEPT ![tail0].next = s]
        /\ peers' = [peers EXCEPT ![p].outTail = s]
    BY <1>3, <1>7 DEF PeerQueue, new
  <2>2. tail0 = o[Len(o)] /\ tail0 \in DOMAIN streams
    BY <1>3, <1>7
  <2> HIDE DEF tail0
  <2>3. /\ DOMAIN streams' = DOMAIN streams \cup {s} /\ streams'[s] = new
        /\ \A t \in DOMAIN streams :
            streams'[t] = IF t = tail0 THEN [streams[t] EXCEPT !.next = s] ELSE streams[t]
        /\ streams' = [t \in DOMAIN streams' |-> streams'[t]]
    BY <1>2, <2>1, <2>2 DEF Put
  <2>4. \A t \in DOMAIN streams :
            /\ streams'[t] \in StreamCells /\ streams'[t].id = streams[t].id
            /\ streams'[t].next = IF t = tail0 THEN s ELSE streams[t].next
    <3> TAKE t \in DOMAIN streams
    <3>1. streams[t] \in StreamCells
      BY <1>5
    <3> QED BY <1>4, <2>3, <3>1 DEF StreamCells
  <2>5. streams' \in [DOMAIN streams' -> StreamCells]
    BY <1>4, <2>3, <2>4
  <2>6. /\ DOMAIN peers' = DOMAIN peers /\ peers' \in [DOMAIN peers' -> PeerCells]
        /\ \A q \in DOMAIN peers : q # p => peers'[q] = peers[q]
        /\ peers'[p].id = peers[p].id /\ peers'[p].next = peers[p].next
        /\ peers'[p].outHead = peers[p].outHead /\ peers'[p].outTail = s
    BY <1>4, <1>5, <2>1 DEF PeerCells
  <2> QED BY <1>2, <1>5, <1>7, <2>2, <2>3, <2>4, <2>5, <2>6 DEF o
<1> QED BY <1>6, <1>7

LEMMA QueueReplyDoes ==
  ASSUME IInv, QueueReply
  PROVE  /\ IInv' /\ Cells' = Cells
         /\ \/ UNCHANGED <<peers, streams>>
            \/ \E p \in DOMAIN peers, s \in Addrs :
                /\ s \notin DOMAIN streams /\ DOMAIN streams' = DOMAIN streams \cup {s}
                /\ DOMAIN peers' = DOMAIN peers
                /\ Out(p)' = Append(Out(p), s) /\ streams'[s].id = replies + 1
                /\ \A q \in DOMAIN peers : /\ peers'[q].id = peers[q].id
                                           /\ q # p => Out(q)' = Out(q)
                /\ \A t \in DOMAIN streams : streams'[t].id = streams[t].id
<1>1. /\ ShapeInv /\ PeersInv /\ OutInv /\ IdsInv /\ WalkInv
  BY DEF IInv
<1>2. /\ pc = "idle" /\ replies < MaxReplies /\ replies' = replies + 1
      /\ UNCHANGED <<head, tail, pc, peer, last, unique_id, due, visited>>
  BY DEF QueueReply, walk
<1>3. Start' = Start
  BY <1>2 DEF Start
<1>4. replies' \in 0..MaxReplies
  BY <1>1, <1>2, Shape DEF ShapeInv
<1>5. WalkInv'
  BY <1>1, <1>2 DEF WalkInv
<1>6. CASE UNCHANGED <<peers, streams>>
  <2>1. Cells' = Cells
    BY <1>3, <1>6 DEF Cells
  <2>2. PeersInv'
    BY <1>1, <1>2, <1>3, <1>6, <2>1 DEF PeersInv
  <2>3. OutInv'
    BY <1>1, <1>6 DEF OutInv, Out
  <2>4. ShapeInv'
    BY <1>1, <1>2, <1>4, <1>6 DEF ShapeInv
  <2>5. IdsInv'
    <3>1. \A s \in DOMAIN streams : streams[s].id \in 1..(replies + 1)
      <4>1. replies \in Nat /\ \A s \in DOMAIN streams : streams[s].id \in 1..replies
        BY <1>1, Shape DEF IdsInv
      <4> QED BY <4>1
    <3> QED BY <1>1, <1>2, <1>6, <3>1 DEF IdsInv
  <2> QED BY <1>5, <1>6, <2>1, <2>2, <2>3, <2>4, <2>5 DEF IInv
<1>7. CASE \E id \in 1..unique_id : \E p \in Found(id), s \in Free : PeerQueue(p, s)
  <2>1. PICK id \in 1..unique_id : \E p \in Found(id), s \in Free : PeerQueue(p, s)
    BY <1>7
  <2>2. PICK p \in Found(id) : \E s \in Free : PeerQueue(p, s)
    BY <2>1
  <2>3. PICK s \in Free : PeerQueue(p, s)
    BY <2>2
  <2>4. p \in DOMAIN peers
    BY <1>1, <1>2 DEF Found, PeersInv, Cells, Start
  <2>5. /\ DOMAIN peers' = DOMAIN peers /\ DOMAIN streams' = DOMAIN streams \cup {s}
        /\ peers' \in [DOMAIN peers' -> PeerCells]
        /\ streams' \in [DOMAIN streams' -> StreamCells]
        /\ s \in Addrs /\ s \notin DOMAIN peers /\ s \notin DOMAIN streams
    BY <1>1, <2>3, <2>4, PeerQueueDoes
  <2>6. \A q \in DOMAIN peers :
            /\ peers'[q].id = peers[q].id /\ peers'[q].next = peers[q].next
            /\ q # p => peers'[q] = peers[q]
    BY <1>1, <2>3, <2>4, PeerQueueDoes
  <2>7. /\ peers'[p].outTail = s
        /\ peers'[p].outHead = IF Out(p) = <<>> THEN s ELSE peers[p].outHead
        /\ streams'[s].id = replies + 1 /\ streams'[s].next = NULL
    BY <1>1, <2>3, <2>4, PeerQueueDoes
  <2>8. \A t \in DOMAIN streams :
            /\ streams'[t].id = streams[t].id
            /\ streams'[t].next = IF Out(p) # <<>> /\ t = Out(p)[Len(Out(p))] THEN s
                                  ELSE streams[t].next
    BY <1>1, <2>3, <2>4, PeerQueueDoes
  <2>9. PeersInv' /\ Cells' = Cells
    BY <1>1, <1>2, <1>3, <2>5, <2>6, PeersStay
  <2>10. ShapeInv'
    BY <1>1, <1>2, <1>4, <2>5 DEF ShapeInv
  <2>11. IdsInv'
    <3>1. replies \in Nat /\ \A t \in DOMAIN streams : streams[t].id \in 1..replies
      BY <1>1, Shape DEF IdsInv
    <3>2. \A t \in DOMAIN streams' : t = s \/ t \in DOMAIN streams
      BY <2>5
    <3>3. \A t \in DOMAIN streams' : streams'[t].id \in 1..replies'
      BY <1>2, <2>7, <2>8, <3>1, <3>2
    <3>4. \A t \in DOMAIN streams : streams'[t].id # streams'[s].id
      BY <2>7, <2>8, <3>1
    <3>5. \A t, u \in DOMAIN streams' : streams'[t].id = streams'[u].id => t = u
      BY <1>1, <2>8, <3>2, <3>4 DEF IdsInv
    <3>6. /\ \A q \in DOMAIN peers' : peers'[q].id \in 1..unique_id'
          /\ \A q, r \in DOMAIN peers' : peers'[q].id = peers'[r].id => q = r
      BY <1>1, <1>2, <2>5, <2>6 DEF IdsInv
    <3> QED BY <3>3, <3>5, <3>6 DEF IdsInv
  <2>12. PICK w : w = Out(p)
    OBVIOUS
  <2>13. IsList(streams, peers[p].outHead, w)
    BY <1>1, <2>4, <2>12 DEF OutInv
  <2>14. /\ IsList(streams', IF w = <<>> THEN s ELSE peers[p].outHead, Append(w, s))
         /\ Range(Append(w, s)) = Range(w) \cup {s}
         /\ End(Append(w, s)) = s
    <3>1. \A t \in DOMAIN streams :
            streams'[t].next = IF w # <<>> /\ t = w[Len(w)] THEN s ELSE streams[t].next
      BY <2>8, <2>12
    <3>2. /\ DOMAIN streams' = DOMAIN streams \cup {s} /\ s \notin DOMAIN streams
          /\ streams'[s].next = NULL
      BY <2>5, <2>7
    <3> QED BY ONLY <2>13, <3>1, <3>2, ListAppend
  <2> DEFINE o == [q \in DOMAIN peers |-> IF q = p THEN Append(w, s) ELSE Out(q)]
  <2>15. o[p] = Append(w, s) /\ \A q \in DOMAIN peers : q # p => o[q] = Out(q)
    BY <2>4
  <2> HIDE DEF o
  <2>16. ASSUME NEW q \in DOMAIN peers, q # p
         PROVE  /\ IsList(streams', peers'[q].outHead, o[q])
                /\ peers'[q].outTail = End(o[q])
    <3>1. PICK v : v = Out(q)
      OBVIOUS
    <3>2. IsList(streams, peers[q].outHead, v) /\ peers[q].outTail = End(v)
      BY <1>1, <3>1 DEF OutInv
    <3>3. Range(v) \cap Range(w) = {} /\ Range(v) \subseteq DOMAIN streams
      BY <1>1, <2>4, <2>12, <2>16, <3>1 DEF OutInv
    <3>4. w # <<>> => w[Len(w)] \in Range(w)
      <4>1. Range(w) = {w[i] : i \in 1..Len(w)} /\ (w # <<>> => Len(w) \in 1..Len(w))
        BY <1>1, <2>13, ListShape, Emptiness, Shape
      <4> QED BY <4>1
    <3>5. \A t \in Range(v) : t \in DOMAIN streams' /\ streams'[t].next = streams[t].next
      BY <2>5, <2>8, <2>12, <3>3, <3>4
    <3>6. IsList(streams', peers[q].outHead, v)
      BY <3>2, <3>5, ListKept
    <3> QED BY <2>6, <2>15, <2>16, <3>1, <3>2, <3>6
  <2>17. \A q \in DOMAIN peers' : /\ IsList(streams', peers'[q].outHead, o[q])
                                  /\ peers'[q].outTail = End(o[q])
    <3>1. /\ IsList(streams', peers'[p].outHead, o[p])
          /\ peers'[p].outTail = End(o[p])
      BY <2>7, <2>12, <2>14, <2>15
    <3> QED BY <2>5, <2>16, <3>1
  <2>18. \A q \in DOMAIN peers : Range(o[q]) = IF q = p THEN Range(Out(q)) \cup {s} ELSE Range(Out(q))
    BY <2>12, <2>14, <2>15
  <2>19. \A q \in DOMAIN peers : s \notin Range(Out(q))
    BY <1>1, <2>5 DEF OutInv
  <2>20. \A q, r \in DOMAIN peers' : q # r => Range(o[q]) \cap Range(o[r]) = {}
    <3>1. \A q, r \in DOMAIN peers : q # r => Range(Out(q)) \cap Range(Out(r)) = {}
      BY <1>1 DEF OutInv
    <3>2. ASSUME NEW q \in DOMAIN peers, NEW r \in DOMAIN peers, q # r
          PROVE  Range(o[q]) \cap Range(o[r]) = {}
      <4>1. Range(Out(q)) \cap Range(Out(r)) = {}
        BY <3>1, <3>2
      <4>2. s \notin Range(Out(q)) /\ s \notin Range(Out(r))
        BY <2>19
      <4>3. CASE q = p
        <5>1. Range(o[q]) = Range(Out(q)) \cup {s} /\ Range(o[r]) = Range(Out(r))
          BY <2>18, <3>2, <4>3
        <5> QED BY <4>1, <4>2, <5>1
      <4>4. CASE r = p
        <5>1. Range(o[r]) = Range(Out(r)) \cup {s} /\ Range(o[q]) = Range(Out(q))
          BY <2>18, <3>2, <4>4
        <5> QED BY <4>1, <4>2, <5>1
      <4>5. CASE q # p /\ r # p
        <5>1. Range(o[r]) = Range(Out(r)) /\ Range(o[q]) = Range(Out(q))
          BY <2>18, <4>5
        <5> QED BY <4>1, <5>1
      <4> QED BY <4>3, <4>4, <4>5
    <3> QED BY <2>5, <3>2
  <2>21. \A x : x \in DOMAIN streams' <=> \E q \in DOMAIN peers' : x \in Range(o[q])
    <3>1. \A x : x \in DOMAIN streams <=> \E q \in DOMAIN peers : x \in Range(Out(q))
      BY <1>1 DEF OutInv
    <3> QED BY <2>4, <2>5, <2>18, <3>1
  <2>22. DOMAIN streams' \subseteq Addrs
    BY <2>10 DEF ShapeInv
  <2>23. OutInv' /\ \A q \in DOMAIN peers' : Out(q)' = o[q]
    BY <2>17, <2>20, <2>21, <2>22, OutsAre
  <2>24. IInv'
    BY <1>5, <2>9, <2>10, <2>11, <2>23 DEF IInv
  <2>25. Out(p)' = Append(Out(p), s) /\ \A q \in DOMAIN peers : q # p => Out(q)' = Out(q)
    BY <2>4, <2>5, <2>12, <2>15, <2>23
  <2>26. \A q \in DOMAIN peers : /\ peers'[q].id = peers[q].id
                                 /\ q # p => Out(q)' = Out(q)
    BY <2>6, <2>25
  <2>27. \A t \in DOMAIN streams : streams'[t].id = streams[t].id
    BY <2>8
  <2> QED BY <2>4, <2>5, <2>7, <2>9, <2>24, <2>25, <2>26, <2>27
<1>8. \/ UNCHANGED <<peers, streams>>
      \/ \E id \in 1..unique_id : \E p \in Found(id), s \in Free : PeerQueue(p, s)
  BY DEF QueueReply
<1> QED BY <1>6, <1>7, <1>8

-----------------------------------------------------------------------------
(* A reply sent, and the replies of a peer that goes.                      *)

LEMMA EndRemoved ==
  ASSUME NEW mem, NEW h, NEW s, IsList(mem, h, s), NEW k \in 1..Len(s)
  PROVE  /\ RemoveAt(s, k) = <<>> <=> Len(s) = 1
         /\ End(RemoveAt(s, k)) =
                IF k # Len(s) THEN s[Len(s)] ELSE IF k = 1 THEN NULL ELSE s[k - 1]
<1> DEFINE t == RemoveAt(s, k)
<1>1. s \in Seq(DOMAIN mem) /\ Len(s) \in Nat
  BY ListShape
<1>2. /\ t \in Seq(DOMAIN mem) /\ Len(t) = Len(s) - 1
      /\ \A j \in 1..(Len(s) - 1) : t[j] = IF j < k THEN s[j] ELSE s[j + 1]
  BY <1>1, RemoveAtProperties
<1> HIDE DEF t
<1>3. t = <<>> <=> Len(s) = 1
  <2>1. t = <<>> <=> Len(t) = 0
    BY <1>2, EmptySeq
  <2> QED BY <1>1, <1>2, <2>1
<1>4. CASE Len(s) = 1
  BY <1>1, <1>3, <1>4 DEF End, t
<1>5. CASE Len(s) # 1
  <2>1. Len(s) - 1 \in 1..(Len(s) - 1) /\ (Len(s) - 1) + 1 = Len(s)
    <3>1. Len(s) \in Nat /\ 1 <= Len(s)
      BY <1>1
    <3> QED BY ONLY <3>1, <1>5
  <2>2. End(t) = t[Len(s) - 1]
    BY <1>2, <1>3, <1>5 DEF End
  <2>3. t[Len(s) - 1] = IF Len(s) - 1 < k THEN s[Len(s) - 1] ELSE s[Len(s)]
    BY <1>2, <2>1
  <2>4. Len(s) - 1 < k <=> k = Len(s)
    BY ONLY <1>1, k \in 1..Len(s)
  <2>5. k = Len(s) => k # 1
    BY <1>5
  <2> QED BY <1>3, <1>5, <2>2, <2>3, <2>4, <2>5 DEF t
<1> QED BY <1>4, <1>5

(* The first cell let go of.                                               *)
Beheaded(mem, a, mem2) ==
    /\ DOMAIN mem2 = DOMAIN mem \ {a}
    /\ \A b \in DOMAIN mem2 : mem2[b].next = mem[b].next

LEMMA ListBehead ==
  ASSUME NEW mem, NEW h, NEW s, IsList(mem, h, s), 1 \in 1..Len(s),
         NEW mem2, Beheaded(mem, s[1], mem2)
  PROVE  /\ IsList(mem2, mem[s[1]].next, RemoveAt(s, 1))
         /\ Range(RemoveAt(s, 1)) = Range(s) \ {s[1]}
         /\ Len(RemoveAt(s, 1)) = Len(s) - 1
         /\ \A i \in 1..(Len(s) - 1) : RemoveAt(s, 1)[i] = s[i + 1]
<1>1. PICK k \in 1..Len(s) : k = 1
  OBVIOUS
<1>2. Unlinked(mem, s, k, mem2)
  BY <1>1 DEF Unlinked, Beheaded
<1>3. /\ IsList(mem2, mem[s[1]].next, RemoveAt(s, k))
      /\ Range(RemoveAt(s, k)) = Range(s) \ {s[k]}
      /\ Len(RemoveAt(s, k)) = Len(s) - 1
      /\ \A i \in 1..(Len(s) - 1) : RemoveAt(s, k)[i] = IF i < k THEN s[i] ELSE s[i + 1]
  BY <1>1, <1>2, ListRemove
<1>4. \A i \in 1..(Len(s) - 1) : ~(i < 1)
  OBVIOUS
<1> QED BY <1>1, <1>3, <1>4

LEMMA SentAllDoes ==
  ASSUME ShapeInv, OutInv, NEW p \in DOMAIN peers, peers[p].outHead # NULL, SentAll(p)
  PROVE  /\ DOMAIN peers' = DOMAIN peers /\ peers' \in [DOMAIN peers' -> PeerCells]
         /\ DOMAIN streams' \subseteq DOMAIN streams
         /\ streams' \in [DOMAIN streams' -> StreamCells]
         /\ \A q \in DOMAIN peers :
                peers'[q].id = peers[q].id /\ peers'[q].next = peers[q].next
         /\ \A t \in DOMAIN streams' : streams'[t].id = streams[t].id
         /\ OutInv' /\ Out(p) # <<>> /\ Out(p)' = RemoveAt(Out(p), 1)
         /\ \A q \in DOMAIN peers : q # p => Out(q)' = Out(q)
<1>1. PICK w : w = Out(p)
  OBVIOUS
<1>2. /\ IsList(streams, peers[p].outHead, w) /\ peers[p].outTail = End(w)
      /\ NULL \notin DOMAIN streams
      /\ peers \in [DOMAIN peers -> PeerCells] /\ streams \in [DOMAIN streams -> StreamCells]
      /\ DOMAIN streams \subseteq Addrs
  BY <1>1, Shape DEF OutInv, ShapeInv
<1>3. /\ w # <<>> /\ 1 \in 1..Len(w) /\ peers[p].outHead = w[1] /\ End(w) = w[Len(w)]
  BY <1>2, Emptiness
<1>4. /\ Len(w) \in Nat /\ w[1] \in DOMAIN streams /\ streams[w[1]].next = Link(w, 1)
      /\ \A i \in 1..Len(w) : w[i] \in DOMAIN streams
  BY <1>2, <1>3, ListShape
<1>5. PICK s : s = w[1]
  OBVIOUS
<1>6. PICK x : x = streams[s].next
  OBVIOUS
<1>7. /\ streams' = Drop(streams, {s})
      /\ peers' = IF x = NULL
                  THEN [peers EXCEPT ![p].outHead = NULL, ![p].outTail = NULL]
                  ELSE [peers EXCEPT ![p].outHead = x]
  BY <1>3, <1>5, <1>6 DEF SentAll
<1>8. /\ DOMAIN streams' = DOMAIN streams \ {s}
      /\ \A t \in DOMAIN streams' : streams'[t] = streams[t]
      /\ streams' \in [DOMAIN streams' -> StreamCells]
  BY <1>2, <1>7 DEF Drop
<1>9. x \in Pointers
  BY <1>2, <1>4, <1>5, <1>6 DEF StreamCells
<1>10. /\ DOMAIN peers' = DOMAIN peers /\ peers' \in [DOMAIN peers' -> PeerCells]
       /\ \A q \in DOMAIN peers : q # p => peers'[q] = peers[q]
       /\ peers'[p].id = peers[p].id /\ peers'[p].next = peers[p].next
       /\ peers'[p].outHead = x
       /\ peers'[p].outTail = IF x = NULL THEN NULL ELSE peers[p].outTail
  <2>1. peers[p] \in PeerCells /\ NULL \in Pointers
    BY <1>2 DEF Pointers
  <2> QED BY <1>2, <1>7, <1>9, <2>1 DEF PeerCells
<1>11. x = NULL <=> Len(w) = 1
  <2>1. CASE Len(w) = 1
    BY <1>4, <1>5, <1>6, <2>1 DEF Link
  <2>2. CASE Len(w) # 1
    <3>1. 1 < Len(w) /\ 1 + 1 \in 1..Len(w)
      <4>1. Len(w) \in Nat /\ 1 \in 1..Len(w)
        BY <1>3, <1>4
      <4> QED BY ONLY <4>1, <2>2
    <3> QED BY <1>2, <1>4, <1>5, <1>6, <2>2, <3>1 DEF Link
  <2> QED BY <2>1, <2>2
<1>12. /\ IsList(streams', x, RemoveAt(w, 1))
       /\ Range(RemoveAt(w, 1)) = Range(w) \ {s}
  <2>1. Beheaded(streams, w[1], streams')
    BY <1>5, <1>8 DEF Beheaded
  <2>2. /\ IsList(streams', streams[w[1]].next, RemoveAt(w, 1))
        /\ Range(RemoveAt(w, 1)) = Range(w) \ {w[1]}
    BY ONLY <1>2, <1>3, <2>1, ListBehead
  <2> QED BY <1>5, <1>6, <2>2
<1>13. peers'[p].outTail = End(RemoveAt(w, 1))
  <2>1. End(RemoveAt(w, 1)) = IF 1 # Len(w) THEN w[Len(w)] ELSE NULL
    BY <1>2, <1>3, EndRemoved
  <2> QED BY <1>2, <1>3, <1>10, <1>11, <2>1
<1> DEFINE o == [q \in DOMAIN peers |-> IF q = p THEN RemoveAt(w, 1) ELSE Out(q)]
<1>14. o[p] = RemoveAt(w, 1) /\ \A q \in DOMAIN peers : q # p => o[q] = Out(q)
  OBVIOUS
<1> HIDE DEF o
<1>15. /\ \A q, r \in DOMAIN peers : q # r => Range(Out(q)) \cap Range(Out(r)) = {}
       /\ \A t : t \in DOMAIN streams <=> \E q \in DOMAIN peers : t \in Range(Out(q))
       /\ s \in Range(Out(p))
  <2>1. s \in Range(w)
    BY <1>2, <1>3, <1>5, ListShape
  <2> QED BY <1>1, <2>1 DEF OutInv
<1>16. ASSUME NEW q \in DOMAIN peers, q # p
       PROVE  /\ IsList(streams', peers'[q].outHead, o[q])
              /\ peers'[q].outTail = End(o[q])
  <2>1. PICK v : v = Out(q)
    OBVIOUS
  <2>2. IsList(streams, peers[q].outHead, v) /\ peers[q].outTail = End(v)
    BY <2>1 DEF OutInv
  <2>3. s \notin Range(v) /\ Range(v) \subseteq DOMAIN streams
    BY <1>15, <1>16, <2>1
  <2>4. \A t \in Range(v) : t \in DOMAIN streams' /\ streams'[t].next = streams[t].next
    BY <1>8, <2>3
  <2>5. IsList(streams', peers[q].outHead, v)
    BY <2>2, <2>4, ListKept
  <2> QED BY <1>10, <1>14, <1>16, <2>1, <2>2, <2>5
<1>17. \A q \in DOMAIN peers' : /\ IsList(streams', peers'[q].outHead, o[q])
                                /\ peers'[q].outTail = End(o[q])
  <2>1. /\ IsList(streams', peers'[p].outHead, o[p])
        /\ peers'[p].outTail = End(o[p])
    BY <1>10, <1>12, <1>13, <1>14
  <2> QED BY <1>10, <1>16, <2>1
<1>18. \A q \in DOMAIN peers : Range(o[q]) = Range(Out(q)) \ {s}
  <2> TAKE q \in DOMAIN peers
  <2>1. CASE q = p
    BY <1>1, <1>12, <1>14, <2>1
  <2>2. CASE q # p
    BY <1>14, <1>15, <2>2
  <2> QED BY <2>1, <2>2
<1>19. \A q, r \in DOMAIN peers' : q # r => Range(o[q]) \cap Range(o[r]) = {}
  BY <1>10, <1>15, <1>18
<1>20. \A t : t \in DOMAIN streams' <=> \E q \in DOMAIN peers' : t \in Range(o[q])
  BY <1>8, <1>10, <1>15, <1>18
<1>21. DOMAIN streams' \subseteq Addrs
  BY <1>2, <1>8
<1>22. OutInv' /\ \A q \in DOMAIN peers' : Out(q)' = o[q]
  BY <1>17, <1>19, <1>20, <1>21, OutsAre
<1>23. Out(p)' = RemoveAt(Out(p), 1) /\ Out(p) # <<>>
  BY <1>1, <1>3, <1>10, <1>14, <1>22
<1>24. \A q \in DOMAIN peers : q # p => Out(q)' = Out(q)
  BY <1>10, <1>14, <1>22
<1>25. \A q \in DOMAIN peers : peers'[q].id = peers[q].id /\ peers'[q].next = peers[q].next
  BY <1>10
<1> QED BY <1>8, <1>10, <1>22, <1>23, <1>24, <1>25

LEMMA OutsDeleted ==
  ASSUME ShapeInv, OutInv, NEW p \in DOMAIN peers, DOMAIN peers' = DOMAIN peers \ {p},
         \A q \in DOMAIN peers' : /\ peers'[q].outHead = peers[q].outHead
                                  /\ peers'[q].outTail = peers[q].outTail,
         streams' = Drop(streams, Range(Chain(streams, peers[p].outHead)))
  PROVE  /\ OutInv' /\ \A q \in DOMAIN peers' : Out(q)' = Out(q)
         /\ DOMAIN streams' \subseteq DOMAIN streams
         /\ \A t \in DOMAIN streams' : streams'[t] = streams[t]
         /\ streams' \in [DOMAIN streams' -> StreamCells]
<1>1. /\ DOMAIN streams' = DOMAIN streams \ Range(Out(p))
      /\ \A t \in DOMAIN streams' : streams'[t] = streams[t]
      /\ streams' \in [DOMAIN streams' -> StreamCells]
      /\ DOMAIN streams' \subseteq Addrs
  BY DEF ShapeInv, Drop, Out
<1> DEFINE o == [q \in DOMAIN peers |-> Out(q)]
<1>2. \A q \in DOMAIN peers : o[q] = Out(q)
  OBVIOUS
<1> HIDE DEF o
<1>3. /\ \A q, r \in DOMAIN peers : q # r => Range(o[q]) \cap Range(o[r]) = {}
      /\ \A t : t \in DOMAIN streams <=> \E q \in DOMAIN peers : t \in Range(o[q])
  BY <1>2 DEF OutInv
<1>4. ASSUME NEW q \in DOMAIN peers'
      PROVE  /\ IsList(streams', peers'[q].outHead, o[q])
             /\ peers'[q].outTail = End(o[q])
  <2>1. IsList(streams, peers[q].outHead, o[q]) /\ peers[q].outTail = End(o[q])
    BY <1>2 DEF OutInv
  <2>2. Range(o[q]) \cap Range(o[p]) = {} /\ Range(o[q]) \subseteq DOMAIN streams
    BY <1>3
  <2>3. \A t \in Range(o[q]) : t \in DOMAIN streams' /\ streams'[t].next = streams[t].next
    BY <1>1, <1>2, <2>2
  <2>4. IsList(streams', peers[q].outHead, o[q])
    BY <2>1, <2>3, ListKept
  <2> QED BY <2>1, <2>4
<1>5. \A q, r \in DOMAIN peers' : q # r => Range(o[q]) \cap Range(o[r]) = {}
  BY <1>3
<1>6. \A t : t \in DOMAIN streams' <=> \E q \in DOMAIN peers' : t \in Range(o[q])
  BY <1>1, <1>2, <1>3
<1>7. OutInv' /\ \A q \in DOMAIN peers' : Out(q)' = o[q]
  BY <1>1, <1>4, <1>5, <1>6, OutsAre
<1> QED BY <1>1, <1>2, <1>7

-----------------------------------------------------------------------------
(* The walk.                                                               *)

LEMMA VisitKept ==
  ASSUME NEW vis \in Seq(Nat), NEW d, NEW s, Len(s) \in Nat, NEW k \in 0..Len(s), k < Len(s),
         NEW mem, Ahead(vis, d, s, mem, k), NEW x \in Nat, x = mem[s[k + 1]].id,
         NEW mem2, \A i \in 1..Len(s) : mem2[s[i]].id = mem[s[i]].id
  PROVE  Ahead(Append(vis, x), d, s, mem2, k + 1)
<1> DEFINE v == Append(vis, x)
<1>1. /\ Len(vis) \in Nat /\ DOMAIN vis = 1..Len(vis)
      /\ Len(v) = Len(vis) + 1 /\ DOMAIN v = 1..(Len(vis) + 1)
      /\ v[Len(vis) + 1] = x /\ \A i \in 1..Len(vis) : v[i] = vis[i]
  BY AppendProperties, LenProperties
<1> HIDE DEF v
<1>2. /\ Len(d) = Len(vis) + (Len(s) - k)
      /\ \A i \in 1..Len(vis) : vis[i] = d[i]
      /\ \A j \in 1..(Len(s) - k) : d[Len(vis) + j] = mem[s[k + j]].id
  BY <1>1 DEF Ahead
<1>3. Len(d) = Len(v) + (Len(s) - (k + 1))
  BY <1>1, <1>2
<1>4. ASSUME NEW i \in 1..(Len(vis) + 1)
      PROVE  v[i] = d[i]
  <2>1. 1 \in 1..(Len(s) - k)
    BY ONLY Len(s) \in Nat, k \in 0..Len(s), k < Len(s)
  <2>2. d[Len(vis) + 1] = x
    BY <1>2, <2>1
  <2>3. i = Len(vis) + 1 \/ i \in 1..Len(vis)
    BY <1>1
  <2> QED BY <1>1, <1>2, <2>2, <2>3
<1>5. ASSUME NEW j \in 1..(Len(s) - (k + 1))
      PROVE  d[Len(v) + j] = mem2[s[(k + 1) + j]].id
  <2>1. /\ j + 1 \in 1..(Len(s) - k) /\ k + (j + 1) = (k + 1) + j
        /\ (k + 1) + j \in 1..Len(s)
    BY ONLY Len(s) \in Nat, k \in 0..Len(s), j \in 1..(Len(s) - (k + 1))
  <2>2. Len(v) + j = Len(vis) + (j + 1)
    BY <1>1
  <2> QED BY <1>2, <2>1, <2>2
<1> QED BY <1>1, <1>3, <1>4, <1>5 DEF Ahead, v

(* A sequence without its n-th element; cells that keep their ids.         *)
Without(s, n, t) ==
    /\ Len(t) = Len(s) - 1
    /\ \A i \in 1..(Len(s) - 1) : t[i] = IF i < n THEN s[i] ELSE s[i + 1]
SameIds(mem, mem2, t) == \A i \in 1..Len(t) : mem2[t[i]].id = mem[t[i]].id

LEMMA VisitRemoved ==
  ASSUME NEW vis \in Seq(Nat), NEW d, NEW s, Len(s) \in Nat, NEW k \in 0..Len(s), k < Len(s),
         NEW mem, Ahead(vis, d, s, mem, k), NEW x \in Nat, x = mem[s[k + 1]].id,
         NEW t, Without(s, k + 1, t), NEW mem2, SameIds(mem, mem2, t)
  PROVE  Ahead(Append(vis, x), d, t, mem2, k)
<1> DEFINE v == Append(vis, x)
<1>1. /\ Len(vis) \in Nat /\ DOMAIN vis = 1..Len(vis)
      /\ Len(v) = Len(vis) + 1 /\ DOMAIN v = 1..(Len(vis) + 1)
      /\ v[Len(vis) + 1] = x /\ \A i \in 1..Len(vis) : v[i] = vis[i]
  BY AppendProperties, LenProperties
<1> HIDE DEF v
<1>2. /\ Len(d) = Len(vis) + (Len(s) - k)
      /\ \A i \in 1..Len(vis) : vis[i] = d[i]
      /\ \A j \in 1..(Len(s) - k) : d[Len(vis) + j] = mem[s[k + j]].id
  BY <1>1 DEF Ahead
<1>0. /\ Len(t) = Len(s) - 1
      /\ \A i \in 1..(Len(s) - 1) : t[i] = IF i < k + 1 THEN s[i] ELSE s[i + 1]
      /\ \A i \in 1..(Len(s) - 1) : mem2[t[i]].id = mem[t[i]].id
  BY DEF Without, SameIds
<1>3. Len(d) = Len(v) + (Len(t) - k)
  BY <1>0, <1>1, <1>2
<1>4. ASSUME NEW i \in 1..(Len(vis) + 1)
      PROVE  v[i] = d[i]
  <2>1. 1 \in 1..(Len(s) - k)
    BY ONLY Len(s) \in Nat, k \in 0..Len(s), k < Len(s)
  <2>2. d[Len(vis) + 1] = x
    BY <1>2, <2>1
  <2>3. i = Len(vis) + 1 \/ i \in 1..Len(vis)
    BY <1>1
  <2> QED BY <1>1, <1>2, <2>2, <2>3
<1>5. ASSUME NEW j \in 1..(Len(t) - k)
      PROVE  d[Len(v) + j] = mem2[t[k + j]].id
  <2>0. j \in 1..((Len(s) - 1) - k)
    BY <1>0
  <2>1. /\ j + 1 \in 1..(Len(s) - k) /\ k + (j + 1) = (k + j) + 1
        /\ k + j \in 1..(Len(s) - 1) /\ ~(k + j < k + 1)
    BY ONLY Len(s) \in Nat, k \in 0..Len(s), <2>0
  <2>2. Len(v) + j = Len(vis) + (j + 1)
    BY <1>1, <2>0
  <2>3. t[k + j] = s[(k + j) + 1] /\ mem2[t[k + j]].id = mem[t[k + j]].id
    BY <1>0, <2>1
  <2>4. d[Len(vis) + (j + 1)] = mem[s[k + (j + 1)]].id
    BY <1>2, <2>1
  <2> QED BY <2>1, <2>2, <2>3, <2>4
<1> QED BY <1>1, <1>3, <1>4, <1>5 DEF Ahead, v

(* Where the walk is, and that it can go on from there.                    *)
LEMMA Walking ==
  ASSUME IInv, pc = "walk", peer # NULL
  PROVE  \E k \in 0..Len(Cells) :
            /\ At(k) /\ k < Len(Cells) /\ k + 1 \in 1..Len(Cells)
            /\ peer = Cells[k + 1] /\ peer \in DOMAIN peers
            /\ peers[peer].next = Link(Cells, k + 1)
<1>1. PICK s : s = Cells
  OBVIOUS
<1>2. IsList(peers, Start, s)
  BY <1>1 DEF IInv, PeersInv
<1>3. /\ Len(s) \in Nat
      /\ \A i \in 1..Len(s) : s[i] \in DOMAIN peers /\ peers[s[i]].next = Link(s, i)
  BY <1>2, ListShape
<1>4. PICK k \in 0..Len(s) : At(k)
  BY <1>1 DEF IInv, WalkInv
<1>5. peer = Link(s, k)
  BY <1>1, <1>4 DEF At
<1>6. k < Len(s) /\ peer = s[k + 1]
  BY <1>5 DEF Link
<1>7. k + 1 \in 1..Len(s)
  BY ONLY <1>3, <1>6, k \in 0..Len(s)
<1>8. peer \in DOMAIN peers /\ peers[peer].next = Link(s, k + 1)
  BY <1>3, <1>6, <1>7
<1> QED BY <1>1, <1>4, <1>6, <1>7, <1>8

LEMMA WalkBeginsDoes ==
  ASSUME IInv, WalkBegins
  PROVE  IInv'
<1>1. /\ ShapeInv /\ PeersInv /\ OutInv /\ IdsInv /\ WalkInv
  BY DEF IInv
<1>2. /\ pc = "idle" /\ pc' = "walk" /\ peer' = head /\ last' = NULL /\ visited' = <<>>
      /\ UNCHANGED <<peers, streams, head, tail, unique_id, replies>>
  BY DEF WalkBegins, memory
<1>3. Start = head /\ Start' = head /\ Cells' = Cells /\ Cells = Chain(peers, head)
  BY <1>2 DEF Start, Cells
<1>4. PICK s : s = Cells
  OBVIOUS
<1>5. /\ s = Chain(peers, head) /\ IsList(peers, head, s)
      /\ due' = [i \in DOMAIN s |-> peers[s[i]].id]
  BY <1>1, <1>3, <1>4 DEF PeersInv, WalkBegins
<1>6. /\ Len(s) \in Nat /\ DOMAIN s = 1..Len(s) /\ head = Link(s, 0)
      /\ \A i \in 1..Len(s) : s[i] \in DOMAIN peers
  BY <1>5, ListShape
<1>7. due' \in Seq(Nat) /\ Len(due') = Len(s) /\ \A i \in 1..Len(s) : due'[i] = peers[s[i]].id
  <2>1. \A a \in DOMAIN peers : peers[a].id \in Nat
    BY <1>1, Shape DEF PeerCells
  <2>2. due' \in [1..Len(s) -> Nat]
    BY <1>5, <1>6, <2>1
  <2> QED BY <1>5, <1>6, <2>2, FunctionIsSeq
<1>8. Ahead(<<>>, due', s, peers, 0)
  <2>1. Len(<<>>) = 0 /\ \A i \in DOMAIN <<>> : FALSE
    <3>1. <<>> \in Seq(Nat) /\ Len(<<>>) = 0
      BY EmptySeq
    <3>2. DOMAIN <<>> = 1..0
      BY <3>1, LenProperties
    <3> QED BY <3>1, <3>2
  <2>2. Len(due') = 0 + (Len(s) - 0) /\ Len(s) - 0 = Len(s)
    BY <1>6, <1>7
  <2>3. \A j \in 1..Len(s) : 0 + j = j
    OBVIOUS
  <2> QED BY <1>7, <2>1, <2>2, <2>3 DEF Ahead
<1>9. At(0)'
  BY <1>2, <1>3, <1>4, <1>6, <1>8 DEF At
<1>10. WalkInv'
  <2>1. 0 \in 0..Len(Cells)'
    BY <1>3, <1>4, <1>6
  <2>2. \E k \in 0..Len(Cells)' : At(k)'
    BY <1>9, <2>1
  <2>3. visited' \in Seq(Nat)
    BY <1>2, EmptySeq
  <2> QED BY <1>2, <1>7, <2>2, <2>3 DEF WalkInv
<1>11. ShapeInv' /\ OutInv' /\ IdsInv'
  <2>1. NULL \in Pointers
    BY DEF Pointers
  <2>2. ShapeInv'
    BY <1>1, <1>2, <2>1 DEF ShapeInv
  <2>3. OutInv'
    BY <1>1, <1>2 DEF OutInv, Out
  <2>4. IdsInv'
    BY <1>1, <1>2 DEF IdsInv
  <2> QED BY <2>2, <2>3, <2>4
<1>12. PeersInv'
  BY <1>1, <1>2, <1>3 DEF PeersInv
<1> QED BY <1>10, <1>11, <1>12 DEF IInv

LEMMA KeepDoes ==
  ASSUME IInv, Keep
  PROVE  /\ IInv' /\ Cells' = Cells
         /\ \/ UNCHANGED <<peers, streams>>
            \/ /\ peer \in DOMAIN peers /\ DOMAIN peers' = DOMAIN peers
               /\ Out(peer) # <<>> /\ (\A p \in {peer} : Out(p)' = RemoveAt(Out(p), 1))
               /\ \A q \in DOMAIN peers : /\ peers'[q].id = peers[q].id
                                          /\ q # peer => Out(q)' = Out(q)
               /\ DOMAIN streams' \subseteq DOMAIN streams
               /\ \A t \in DOMAIN streams' : streams'[t].id = streams[t].id
<1>1. /\ ShapeInv /\ PeersInv /\ OutInv /\ IdsInv /\ WalkInv
  BY DEF IInv
<1>2. /\ pc = "walk" /\ peer # NULL /\ visited' = Append(visited, peers[peer].id)
      /\ last' = peer /\ peer' = peers[peer].next
      /\ UNCHANGED <<head, tail, pc, unique_id, replies, due>>
  BY DEF Keep, Visit
<1>3. PICK k \in 0..Len(Cells) :
        /\ At(k) /\ k < Len(Cells) /\ k + 1 \in 1..Len(Cells)
        /\ peer = Cells[k + 1] /\ peer \in DOMAIN peers
        /\ peers[peer].next = Link(Cells, k + 1)
  BY <1>2, Walking
<1>4. PICK p : p = peer
  OBVIOUS
<1>5. /\ DOMAIN peers' = DOMAIN peers /\ peers' \in [DOMAIN peers' -> PeerCells]
      /\ DOMAIN streams' \subseteq DOMAIN streams
      /\ streams' \in [DOMAIN streams' -> StreamCells]
      /\ \A q \in DOMAIN peers : peers'[q].id = peers[q].id /\ peers'[q].next = peers[q].next
      /\ \A t \in DOMAIN streams' : streams'[t].id = streams[t].id
      /\ OutInv'
      /\ \/ UNCHANGED <<peers, streams>>
         \/ /\ Out(p) # <<>> /\ Out(p)' = RemoveAt(Out(p), 1)
            /\ \A q \in DOMAIN peers : q # p => Out(q)' = Out(q)
  <2>1. CASE UNCHANGED <<peers, streams>>
    BY <1>1, <2>1 DEF ShapeInv, OutInv, Out
  <2>2. CASE peers[peer].outHead # NULL /\ SentAll(peer)
    BY <1>1, <1>3, <1>4, <2>2, SentAllDoes
  <2> QED BY <2>1, <2>2 DEF Keep
<1>6. Start' = Start
  BY <1>2 DEF Start
<1>7. PeersInv' /\ Cells' = Cells
  BY <1>1, <1>2, <1>5, <1>6, PeersStay
<1>8. ShapeInv'
  <2>1. peers[peer].next \in Pointers
    BY <1>1, <1>3, Shape DEF PeerCells
  <2> QED BY <1>1, <1>2, <1>5, <2>1 DEF ShapeInv
<1>9. IdsInv'
  <2>1. /\ \A q, r \in DOMAIN peers : peers[q].id = peers[r].id => q = r
        /\ \A q, r \in DOMAIN streams : streams[q].id = streams[r].id => q = r
        /\ \A q \in DOMAIN peers : peers[q].id \in 1..unique_id
        /\ \A q \in DOMAIN streams : streams[q].id \in 1..replies
    BY <1>1 DEF IdsInv
  <2>2. \A q, r \in DOMAIN peers' : peers'[q].id = peers'[r].id => q = r
    BY <1>5, <2>1
  <2>3. \A q, r \in DOMAIN streams' : streams'[q].id = streams'[r].id => q = r
    BY <1>5, <2>1
  <2>4. /\ \A q \in DOMAIN peers' : peers'[q].id \in 1..unique_id'
        /\ \A q \in DOMAIN streams' : streams'[q].id \in 1..replies'
    BY <1>2, <1>5, <2>1
  <2> QED BY <2>2, <2>3, <2>4 DEF IdsInv
<1>10. WalkInv'
  <2>1. PICK s : s = Cells
    OBVIOUS
  <2>2. PICK x : x = peers[peer].id
    OBVIOUS
  <2>3. /\ Len(s) \in Nat /\ \A i \in 1..Len(s) : s[i] \in DOMAIN peers
        /\ visited \in Seq(Nat) /\ x \in Nat /\ k \in 0..Len(s)
    <3>1. IsList(peers, Start, s)
      BY <1>1, <2>1 DEF PeersInv
    <3>2. peers[peer].id \in Nat
      BY <1>1, <1>3, Shape DEF PeerCells
    <3> QED BY <1>1, <2>1, <2>2, <3>1, <3>2, ListShape DEF WalkInv
  <2>4. /\ Ahead(visited, due, s, peers, k) /\ k < Len(s) /\ x = peers[s[k + 1]].id
        /\ \A i \in 1..Len(s) : peers'[s[i]].id = peers[s[i]].id
    BY <1>3, <1>5, <2>1, <2>2, <2>3 DEF At
  <2>5. Ahead(Append(visited, x), due, s, peers', k + 1)
    BY <2>3, <2>4, VisitKept
  <2>6. k + 1 # 0 /\ k + 1 \in 0..Len(s)
    BY <2>3, <2>4
  <2>7. At(k + 1)'
    BY <1>2, <1>3, <1>7, <2>1, <2>2, <2>5, <2>6 DEF At
  <2>8. \E j \in 0..Len(Cells)' : At(j)'
    BY <1>7, <2>1, <2>6, <2>7
  <2>9. visited' \in Seq(Nat) /\ due' \in Seq(Nat)
    BY <1>1, <1>2, <2>2, <2>3, AppendProperties DEF WalkInv
  <2> QED BY <1>2, <2>8, <2>9 DEF WalkInv
<1> QED BY <1>3, <1>4, <1>5, <1>7, <1>8, <1>9, <1>10 DEF IInv

-----------------------------------------------------------------------------
(* A peer removed, by the walk or at the end.                              *)

(* The four cases of remove_one are one: the cell is taken out, the one    *)
(* before it leads past it, and head and tail are what they should be.     *)
LEMMA RemoveOneDoes ==
  ASSUME ShapeInv, PeersInv, pc = "walk", RemoveOne, NEW k \in 1..Len(Cells), peer = Cells[k],
         last = IF k = 1 THEN NULL ELSE Cells[k - 1]
  PROVE  /\ peer \in DOMAIN peers /\ DOMAIN peers' = DOMAIN peers \ {peer}
         /\ peers' \in [DOMAIN peers' -> PeerCells]
         /\ \A q \in DOMAIN peers' : /\ peers'[q].id = peers[q].id
                                     /\ peers'[q].outHead = peers[q].outHead
                                     /\ peers'[q].outTail = peers[q].outTail
         /\ Unlinked(peers, Cells, k, peers')
         /\ streams' = Drop(streams, Range(Chain(streams, peers[peer].outHead)))
         /\ peer' = peers[peer].next
         /\ head' = IF k = 1 THEN peers[peer].next ELSE head
         /\ tail' = End(RemoveAt(Cells, k))
<1>1. PICK s : s = Cells
  OBVIOUS
<1>2. /\ IsList(peers, head, s) /\ tail = End(s) /\ k \in 1..Len(s) /\ peer = s[k]
      /\ last = IF k = 1 THEN NULL ELSE s[k - 1]
  BY <1>1 DEF PeersInv, Start
<1>3. /\ Len(s) \in Nat /\ head = Link(s, 0)
      /\ \A i \in 1..Len(s) : s[i] \in DOMAIN peers /\ peers[s[i]].next = Link(s, i)
      /\ \A i, j \in 1..Len(s) : s[i] = s[j] => i = j
      /\ s = <<>> <=> Len(s) = 0
  BY <1>2, ListShape
<1>4. 0 < Len(s) /\ 0 + 1 = 1 /\ 1 \in 1..Len(s) /\ Len(s) \in 1..Len(s)
  BY ONLY <1>3, <1>2
<1>5. head = s[1] /\ tail = s[Len(s)]
  BY <1>2, <1>3, <1>4 DEF Link, End
<1>6. (head = peer <=> k = 1) /\ (tail = peer <=> k = Len(s))
  BY <1>2, <1>3, <1>4, <1>5
<1>7. PICK x : x = peers[peer].next
  OBVIOUS
<1>8. /\ peer \in DOMAIN peers /\ peer # NULL /\ x = Link(s, k) /\ x \in Pointers
      /\ k = Len(s) => x = NULL
      /\ peers \in [DOMAIN peers -> PeerCells]
  <2>1. peer \in DOMAIN peers /\ x = Link(s, k)
    BY <1>2, <1>3, <1>7
  <2>2. k = Len(s) => ~(k < Len(s))
    BY <1>3
  <2> QED BY <1>7, <2>1, <2>2, Shape DEF Link, PeerCells, ShapeInv
<1>9. k # 1 => last = s[k - 1] /\ last \in DOMAIN peers /\ last # peer
  <2> SUFFICES ASSUME k # 1 PROVE last = s[k - 1] /\ last \in DOMAIN peers /\ last # peer
    OBVIOUS
  <2>1. k - 1 \in 1..Len(s) /\ k - 1 # k
    BY ONLY <1>3, <1>2, k # 1
  <2> QED BY <1>2, <1>3, <2>1
<1> DEFINE mem == IF k = 1 THEN peers ELSE [peers EXCEPT ![last].next = x]
<1>10. /\ peers' = Drop(mem, {peer})
       /\ streams' = Drop(streams, Range(Chain(streams, peers[peer].outHead)))
       /\ peer' = x
       /\ head' = IF k = 1 THEN x ELSE head
       /\ tail' = IF k # Len(s) THEN s[Len(s)] ELSE IF k = 1 THEN NULL ELSE s[k - 1]
  <2>1. CASE /\ head = peer /\ tail = peer
             /\ head' = NULL /\ tail' = NULL /\ peer' = NULL
             /\ DeleteOne(peers, peer)
    BY <1>6, <1>8, <2>1 DEF DeleteOne
  <2>2. CASE /\ head = peer /\ tail # peer
             /\ head' = peers[peer].next /\ peer' = peers[peer].next
             /\ DeleteOne(peers, peer)
             /\ UNCHANGED tail
    BY <1>5, <1>6, <1>7, <2>2 DEF DeleteOne
  <2>3. CASE /\ head # peer /\ tail = peer
             /\ tail' = last /\ peer' = NULL
             /\ DeleteOne([peers EXCEPT ![last].next = NULL], peer)
             /\ UNCHANGED head
    BY <1>6, <1>8, <1>9, <2>3 DEF DeleteOne
  <2>4. CASE /\ head # peer /\ tail # peer
             /\ peer' = peers[peer].next
             /\ DeleteOne([peers EXCEPT ![last].next = peers[peer].next], peer)
             /\ UNCHANGED <<head, tail>>
    BY <1>5, <1>6, <1>7, <1>9, <2>4 DEF DeleteOne
  <2> QED BY <2>1, <2>2, <2>3, <2>4 DEF RemoveOne
<1>11. /\ DOMAIN mem = DOMAIN peers
       /\ \A q \in DOMAIN peers :
            /\ mem[q] \in PeerCells /\ mem[q].id = peers[q].id
            /\ mem[q].outHead = peers[q].outHead /\ mem[q].outTail = peers[q].outTail
            /\ mem[q].next = IF k # 1 /\ q = last THEN x ELSE peers[q].next
  <2>1. CASE k = 1
    BY <1>8, <2>1
  <2>2. CASE k # 1
    <3>1. mem = [peers EXCEPT ![last].next = x]
      BY <2>2
    <3>2. \A q \in DOMAIN peers : peers[q] \in PeerCells
      BY <1>8
    <3> HIDE DEF mem
    <3>3. DOMAIN mem = DOMAIN peers /\ \A q \in DOMAIN peers :
            mem[q] = IF q = last THEN [peers[q] EXCEPT !.next = x] ELSE peers[q]
      BY <1>8, <1>9, <2>2, <3>1
    <3> QED BY <1>8, <2>2, <3>2, <3>3 DEF PeerCells
  <2> QED BY <2>1, <2>2
<1> HIDE DEF mem
<1>12. /\ DOMAIN peers' = DOMAIN peers \ {peer}
       /\ \A q \in DOMAIN peers' : q \in DOMAIN peers /\ peers'[q] = mem[q]
       /\ peers' \in [DOMAIN peers' -> PeerCells]
  BY <1>10, <1>11 DEF Drop
<1>13. Unlinked(peers, s, k, peers')
  <2>1. 1 < k <=> k # 1
    BY <1>2, <1>3
  <2>2. \A q \in DOMAIN peers' :
            peers'[q].next = IF 1 < k /\ q = s[k - 1] THEN peers[s[k]].next ELSE peers[q].next
    BY <1>2, <1>7, <1>9, <1>11, <1>12, <2>1
  <2> QED BY <1>2, <1>12, <2>2 DEF Unlinked
<1>14. tail' = End(RemoveAt(s, k))
  BY <1>2, <1>10, EndRemoved
<1>15. \A q \in DOMAIN peers' : /\ peers'[q].id = peers[q].id
                                  /\ peers'[q].outHead = peers[q].outHead
                                  /\ peers'[q].outTail = peers[q].outTail
  BY <1>11, <1>12
<1>16. /\ peer' = peers[peer].next /\ head' = IF k = 1 THEN peers[peer].next ELSE head
       /\ Unlinked(peers, Cells, k, peers') /\ tail' = End(RemoveAt(Cells, k))
  BY <1>1, <1>7, <1>10, <1>13, <1>14
<1>17. /\ peer \in DOMAIN peers
       /\ streams' = Drop(streams, Range(Chain(streams, peers[peer].outHead)))
       /\ DOMAIN peers' = DOMAIN peers \ {peer} /\ peers' \in [DOMAIN peers' -> PeerCells]
  BY <1>8, <1>10, <1>12
<1> QED BY <1>15, <1>16, <1>17

(* Fewer peers and replies keep their ids apart.                           *)
LEMMA FewerIds ==
  ASSUME IdsInv, DOMAIN peers' \subseteq DOMAIN peers, DOMAIN streams' \subseteq DOMAIN streams,
         \A q \in DOMAIN peers' : peers'[q].id = peers[q].id,
         \A t \in DOMAIN streams' : streams'[t] = streams[t],
         UNCHANGED <<unique_id, replies>>
  PROVE  IdsInv'
<1>1. /\ \A q, r \in DOMAIN peers : peers[q].id = peers[r].id => q = r
      /\ \A q, r \in DOMAIN streams : streams[q].id = streams[r].id => q = r
      /\ \A q \in DOMAIN peers : peers[q].id \in 1..unique_id
      /\ \A q \in DOMAIN streams : streams[q].id \in 1..replies
  BY DEF IdsInv
<1>2. \A q, r \in DOMAIN peers' : peers'[q].id = peers'[r].id => q = r
  BY <1>1
<1>3. \A q, r \in DOMAIN streams' : streams'[q].id = streams'[r].id => q = r
  BY <1>1
<1>4. /\ \A q \in DOMAIN peers' : peers'[q].id \in 1..unique_id'
      /\ \A q \in DOMAIN streams' : streams'[q].id \in 1..replies'
  BY <1>1
<1> QED BY <1>2, <1>3, <1>4 DEF IdsInv

(* What the removal of the k-th peer amounts to.                           *)
Removes(k) ==
    /\ k \in 1..Len(Cells) /\ Cells' = RemoveAt(Cells, k)
    /\ \A q \in DOMAIN peers' : /\ q \in DOMAIN peers
                                /\ peers'[q].id = peers[q].id /\ Out(q)' = Out(q)
    /\ \A t \in DOMAIN streams' : streams'[t].id = streams[t].id

LEMMA RemovePeerDoes ==
  ASSUME IInv, RemovePeer
  PROVE  IInv' /\ \E k \in 1..Len(Cells) : Removes(k)
<1>1. /\ ShapeInv /\ PeersInv /\ OutInv /\ IdsInv /\ WalkInv
  BY DEF IInv
<1>2. /\ pc = "walk" /\ peer # NULL /\ visited' = Append(visited, peers[peer].id)
      /\ RemoveOne
      /\ UNCHANGED <<pc, last, unique_id, replies, due>>
  BY DEF RemovePeer, Visit
<1>3. PICK k \in 0..Len(Cells) :
        /\ At(k) /\ k < Len(Cells) /\ k + 1 \in 1..Len(Cells)
        /\ peer = Cells[k + 1] /\ peer \in DOMAIN peers
        /\ peers[peer].next = Link(Cells, k + 1)
  BY <1>2, Walking
<1>4. PICK s : s = Cells
  OBVIOUS
<1>5. PICK n \in 1..Len(s) : n = k + 1
  BY <1>3, <1>4
<1>6. /\ IsList(peers, head, s) /\ Range(s) = DOMAIN peers /\ Len(s) \in Nat
      /\ peer = s[n]
      /\ \A i \in 1..Len(s) : s[i] \in DOMAIN peers
  <2>1. IsList(peers, head, s) /\ Range(s) = DOMAIN peers
    BY <1>1, <1>2, <1>4 DEF PeersInv, Start
  <2> QED BY <1>3, <1>4, <1>5, <2>1, ListShape
<1>7. last = IF n = 1 THEN NULL ELSE s[n - 1]
  <2>1. (n = 1 <=> k = 0) /\ n - 1 = k
    BY <1>5, <1>6, <1>4, <1>3
  <2> QED BY <1>3, <1>4, <2>1 DEF At
<1>8. /\ DOMAIN peers' = DOMAIN peers \ {peer}
      /\ peers' \in [DOMAIN peers' -> PeerCells]
      /\ \A q \in DOMAIN peers' : /\ peers'[q].id = peers[q].id
                                  /\ peers'[q].outHead = peers[q].outHead
                                  /\ peers'[q].outTail = peers[q].outTail
      /\ Unlinked(peers, s, n, peers')
      /\ streams' = Drop(streams, Range(Chain(streams, peers[peer].outHead)))
      /\ peer' = peers[peer].next
      /\ head' = IF n = 1 THEN peers[peer].next ELSE head
      /\ tail' = End(RemoveAt(s, n))
  BY <1>1, <1>2, <1>4, <1>5, <1>6, <1>7, RemoveOneDoes
<1>9. /\ OutInv' /\ \A q \in DOMAIN peers' : Out(q)' = Out(q)
      /\ DOMAIN streams' \subseteq DOMAIN streams
      /\ \A t \in DOMAIN streams' : streams'[t] = streams[t]
      /\ streams' \in [DOMAIN streams' -> StreamCells]
  BY <1>1, <1>3, <1>8, OutsDeleted
<1> DEFINE t == RemoveAt(s, n)
<1>10. /\ IsList(peers', head', t) /\ Range(t) = DOMAIN peers' /\ Len(t) = Len(s) - 1
       /\ \A i \in 1..(Len(s) - 1) : t[i] = IF i < n THEN s[i] ELSE s[i + 1]
  <2>1. head' = IF n = 1 THEN peers[s[n]].next ELSE head
    BY <1>6, <1>8
  <2>2. IsList(peers, head, s) /\ Unlinked(peers, s, n, peers')
    BY <1>6, <1>8
  <2>3. /\ IsList(peers', head', t) /\ Range(t) = Range(s) \ {s[n]} /\ Len(t) = Len(s) - 1
        /\ \A i \in 1..(Len(s) - 1) : t[i] = IF i < n THEN s[i] ELSE s[i + 1]
    <3>1. PICK mem, h, g : mem = peers /\ h = head /\ g = head'
      OBVIOUS
    <3>2. PICK mem2 : mem2 = peers'
      OBVIOUS
    <3>3. IsList(mem, h, s) /\ Unlinked(mem, s, n, mem2)
          /\ g = IF n = 1 THEN mem[s[n]].next ELSE h
      BY ONLY <2>1, <2>2, <3>1, <3>2
    <3>4. /\ IsList(mem2, g, t) /\ Range(t) = Range(s) \ {s[n]} /\ Len(t) = Len(s) - 1
          /\ \A i \in 1..(Len(s) - 1) : t[i] = IF i < n THEN s[i] ELSE s[i + 1]
      BY ONLY <3>3, n \in 1..Len(s), ListRemove
    <3> QED BY ONLY <3>1, <3>2, <3>4
  <2>4. Range(s) \ {s[n]} = DOMAIN peers'
    BY <1>6, <1>8
  <2> HIDE DEF t
  <2> QED BY ONLY <2>3, <2>4
<1>11. tail' = End(t) /\ t = RemoveAt(s, n)
  BY <1>8
<1> HIDE DEF t
<1>12. head' \in Pointers /\ tail' \in Pointers /\ peer' \in Pointers
  <2>1. DOMAIN peers' \cup {NULL} \subseteq Pointers
    BY <1>1, <1>8 DEF ShapeInv, Pointers
  <2>2. head' \in Pointers /\ tail' \in Pointers
    BY <1>10, <1>11, <2>1, Pointing
  <2>3. peers[peer].next \in Pointers
    BY <1>1, <1>3, Shape DEF PeerCells
  <2> QED BY <1>8, <2>2, <2>3
<1>13. ShapeInv'
  BY <1>1, <1>2, <1>8, <1>9, <1>12 DEF ShapeInv
<1>14. PeersInv' /\ Cells' = t
  <2>1. Start' = head' /\ DOMAIN peers' \subseteq Addrs
    BY <1>2, <1>13 DEF Start, ShapeInv
  <2> QED BY <1>10, <1>11, <2>1, PeersAre
<1>15. IdsInv'
  BY <1>1, <1>2, <1>8, <1>9, FewerIds
<1>16. WalkInv'
  <2>1. PICK x : x = peers[peer].id
    OBVIOUS
  <2>2. x \in Nat /\ visited \in Seq(Nat) /\ k \in 0..Len(s) /\ k < Len(s)
    BY <1>1, <1>3, <1>4, <2>1, Shape DEF PeerCells, WalkInv
  <2>3. Ahead(visited, due, s, peers, k) /\ x = peers[s[k + 1]].id
    BY <1>3, <1>4, <2>1 DEF At
  <2>4. \A i \in 1..(Len(s) - 1) : peers'[t[i]].id = peers[t[i]].id
    <3>1. \A i \in 1..(Len(s) - 1) : t[i] \in DOMAIN peers'
      BY <1>10, ListShape
    <3> QED BY <1>8, <3>1
  <2>5. \A i \in 1..(Len(s) - 1) : t[i] = IF i < k + 1 THEN s[i] ELSE s[i + 1]
    BY <1>5, <1>10
  <2>6. Len(t) = Len(s) - 1
    BY <1>10
  <2>7. Ahead(Append(visited, x), due, t, peers', k)
    <3>1. Len(s) \in Nat
      BY <1>6
    <3>2. Without(s, k + 1, t) /\ SameIds(peers, peers', t)
      BY <2>4, <2>5, <2>6 DEF Without, SameIds
    <3> QED BY <2>2, <2>3, <3>1, <3>2, VisitRemoved
  <2>8. last' = IF k = 0 THEN NULL ELSE t[k]
    <3>1. k # 0 => k \in 1..(Len(s) - 1) /\ k < k + 1
      BY <1>6, <2>2
    <3>2. k # 0 => t[k] = s[k]
      BY <2>5, <3>1
    <3>3. last = IF k = 0 THEN NULL ELSE s[k]
      BY <1>3, <1>4 DEF At
    <3> QED BY <1>2, <3>2, <3>3
  <2>9. peer' = Link(t, k)
    <3>1. peer' = Link(s, k + 1)
      BY <1>3, <1>4, <1>8
    <3>2. CASE k + 1 < Len(s)
      <4>1. k + 1 \in 1..(Len(s) - 1) /\ ~(k + 1 < k + 1) /\ k < Len(t)
        BY <1>6, <1>10, <2>2, <3>2
      <4> QED BY <2>5, <3>1, <3>2, <4>1 DEF Link
    <3>3. CASE ~(k + 1 < Len(s))
      <4>1. ~(k < Len(t))
        BY <1>6, <1>10, <2>2, <3>3
      <4> QED BY <3>1, <3>3, <4>1 DEF Link
    <3> QED BY <3>2, <3>3
  <2>10. At(k)'
    BY <1>2, <1>14, <2>1, <2>7, <2>8, <2>9 DEF At
  <2>11. \E j \in 0..Len(Cells)' : At(j)'
    <3>1. k \in 0..Len(t)
      BY <1>6, <1>10, <2>2
    <3> QED BY <1>14, <2>10, <3>1
  <2>12. visited' \in Seq(Nat) /\ due' \in Seq(Nat)
    BY <1>1, <1>2, <2>1, <2>2, AppendProperties DEF WalkInv
  <2> QED BY <1>2, <2>11, <2>12 DEF WalkInv
<1>17. Removes(n)
  BY <1>4, <1>5, <1>8, <1>9, <1>11, <1>14 DEF Removes
<1> QED BY <1>4, <1>9, <1>13, <1>14, <1>15, <1>16, <1>17 DEF IInv

LEMMA CleanupBeginsDoes ==
  ASSUME IInv, CleanupBegins
  PROVE  IInv' /\ Cells' = Cells
<1>1. /\ ShapeInv /\ PeersInv /\ OutInv /\ IdsInv /\ WalkInv
  BY DEF IInv
<1>2. /\ pc = "idle" /\ pc' = "cleanup" /\ peer' = head
      /\ UNCHANGED <<peers, streams, head, tail, last, unique_id, replies, due, visited>>
  BY DEF CleanupBegins, memory
<1>3. Start' = Start /\ Cells' = Cells
  BY <1>2 DEF Start, Cells
<1>4. ShapeInv'
  BY <1>1, <1>2 DEF ShapeInv
<1>5. PeersInv' /\ OutInv' /\ IdsInv'
  BY <1>1, <1>2, <1>3 DEF PeersInv, OutInv, Out, IdsInv
<1>6. WalkInv'
  BY <1>1, <1>2 DEF WalkInv
<1> QED BY <1>3, <1>4, <1>5, <1>6 DEF IInv

LEMMA WalkEndsDoes ==
  ASSUME IInv, WalkEnds \/ WalkBreaksOff
  PROVE  IInv' /\ Cells' = Cells
<1>1. /\ ShapeInv /\ PeersInv /\ OutInv /\ IdsInv /\ WalkInv
  BY DEF IInv
<1>2. /\ pc = "walk" /\ pc' = "idle" /\ peer' = NULL /\ last' = NULL
      /\ UNCHANGED <<peers, streams, head, tail, unique_id, replies, due, visited>>
  BY DEF WalkEnds, WalkBreaksOff, memory
<1>3. Start' = Start /\ Cells' = Cells
  BY <1>2 DEF Start, Cells
<1>4. ShapeInv'
  <2>1. NULL \in Pointers
    BY DEF Pointers
  <2> QED BY <1>1, <1>2, <2>1 DEF ShapeInv
<1>5. PeersInv' /\ OutInv' /\ IdsInv'
  BY <1>1, <1>2, <1>3 DEF PeersInv, OutInv, Out, IdsInv
<1>6. WalkInv'
  BY <1>1, <1>2 DEF WalkInv
<1> QED BY <1>3, <1>4, <1>5, <1>6 DEF IInv

LEMMA CleanupEndsDoes ==
  ASSUME IInv, CleanupEnds
  PROVE  IInv' /\ Cells' = Cells
<1>1. /\ ShapeInv /\ PeersInv /\ OutInv /\ IdsInv /\ WalkInv
  BY DEF IInv
<1>2. /\ pc = "cleanup" /\ peer = NULL /\ pc' = "done"
      /\ UNCHANGED <<peers, streams, head, tail, peer, last, unique_id, replies, due, visited>>
  BY DEF CleanupEnds, memory
<1>3. Start' = Start /\ Cells' = Cells
  BY <1>2 DEF Start, Cells
<1>4. ShapeInv'
  BY <1>1, <1>2 DEF ShapeInv
<1>5. PeersInv' /\ OutInv' /\ IdsInv'
  BY <1>1, <1>2, <1>3 DEF PeersInv, OutInv, Out, IdsInv
<1>6. WalkInv'
  BY <1>1, <1>2 DEF WalkInv
<1> QED BY <1>3, <1>4, <1>5, <1>6 DEF IInv

LEMMA CleanupOneDoes ==
  ASSUME IInv, CleanupOne
  PROVE  IInv' /\ \E k \in 1..Len(Cells) : Removes(k)
<1>1. /\ ShapeInv /\ PeersInv /\ OutInv /\ IdsInv /\ WalkInv
  BY DEF IInv
<1>2. /\ pc = "cleanup" /\ peer # NULL /\ peer' = peers[peer].next
      /\ peers' = Drop(peers, {peer})
      /\ streams' = Drop(streams, Range(Chain(streams, peers[peer].outHead)))
      /\ UNCHANGED <<head, tail, pc, last, unique_id, replies, due, visited>>
  BY DEF CleanupOne, DeleteOne
<1>3. PICK s : s = Cells
  OBVIOUS
<1>4. IsList(peers, peer, s) /\ Range(s) = DOMAIN peers
  BY <1>1, <1>2, <1>3 DEF PeersInv, Start
<1>5. 1 \in 1..Len(s) /\ peer = s[1] /\ peer \in DOMAIN peers
  <2>1. s # <<>> /\ 1 \in 1..Len(s) /\ peer = s[1]
    BY <1>1, <1>2, <1>4, Shape, Emptiness
  <2> QED BY <1>4, <2>1, ListShape
<1>6. /\ DOMAIN peers' = DOMAIN peers \ {peer}
      /\ \A q \in DOMAIN peers' : q \in DOMAIN peers /\ peers'[q] = peers[q]
      /\ peers' \in [DOMAIN peers' -> PeerCells]
  BY <1>1, <1>2 DEF Drop, ShapeInv
<1>7. /\ OutInv' /\ \A q \in DOMAIN peers' : Out(q)' = Out(q)
      /\ DOMAIN streams' \subseteq DOMAIN streams
      /\ \A t \in DOMAIN streams' : streams'[t] = streams[t]
      /\ streams' \in [DOMAIN streams' -> StreamCells]
  BY <1>1, <1>2, <1>5, <1>6, OutsDeleted
<1> DEFINE t == RemoveAt(s, 1)
<1>8. IsList(peers', peer', t) /\ Range(t) = DOMAIN peers'
  <2>1. Beheaded(peers, s[1], peers')
    BY <1>5, <1>6 DEF Beheaded
  <2>2. IsList(peers', peers[s[1]].next, t) /\ Range(t) = Range(s) \ {s[1]}
    BY ONLY <1>4, <1>5, <2>1, ListBehead
  <2>3. s[1] = peer /\ peers[s[1]].next = peer' /\ Range(s) \ {s[1]} = DOMAIN peers'
    BY <1>2, <1>4, <1>5, <1>6
  <2> HIDE DEF t
  <2> QED BY <2>2, <2>3
<1>9. t = RemoveAt(s, 1)
  OBVIOUS
<1> HIDE DEF t
<1>10. ShapeInv'
  <2>1. peers[peer].next \in Pointers
    BY <1>1, <1>5, Shape DEF PeerCells
  <2> QED BY <1>1, <1>2, <1>6, <1>7, <2>1 DEF ShapeInv
<1>11. PeersInv' /\ Cells' = t
  <2>1. Start' = peer' /\ DOMAIN peers' \subseteq Addrs
    BY <1>2, <1>10 DEF Start, ShapeInv
  <2>2. pc' \notin {"idle", "walk"}
    BY <1>2
  <2> QED BY <1>8, <2>1, <2>2, PeersAre
<1>12. IdsInv'
  BY <1>1, <1>2, <1>6, <1>7, FewerIds
<1>13. WalkInv'
  BY <1>1, <1>2 DEF WalkInv
<1>14. \E k \in 1..Len(Cells) : Removes(k)
  <2>1. Removes(1)
    BY <1>3, <1>5, <1>6, <1>7, <1>9, <1>11 DEF Removes
  <2> QED BY <1>3, <1>5, <2>1
<1> QED BY <1>7, <1>10, <1>11, <1>12, <1>13, <1>14 DEF IInv

LEMMA NextIInv == IInv /\ [Next]_vars => IInv'
<1> SUFFICES ASSUME IInv, [Next]_vars PROVE IInv'
  OBVIOUS
<1>1. CASE Next
  BY <1>1, AddFdDoes, QueueReplyDoes, WalkBeginsDoes, KeepDoes, RemovePeerDoes,
     WalkEndsDoes, CleanupBeginsDoes, CleanupOneDoes, CleanupEndsDoes DEF Next
<1>2. CASE UNCHANGED vars
  <2>1. Start' = Start /\ Cells' = Cells
    BY <1>2 DEF vars, memory, walk, Start, Cells
  <2>2. /\ ShapeInv /\ PeersInv /\ OutInv /\ IdsInv /\ WalkInv
        /\ UNCHANGED <<peers, streams, head, tail, pc, peer, last, unique_id, replies,
                       due, visited>>
    BY <1>2 DEF IInv, vars, memory, walk
  <2>3. ShapeInv'
    BY <2>2 DEF ShapeInv
  <2>4. PeersInv' /\ OutInv'
    BY <2>1, <2>2 DEF PeersInv, OutInv, Out
  <2>5. IdsInv'
    BY <2>2 DEF IdsInv
  <2>6. WalkInv'
    BY <2>1, <2>2 DEF WalkInv, At
  <2> QED BY <2>3, <2>4, <2>5, <2>6 DEF IInv
<1> QED BY <1>1, <1>2

LEMMA SpecIInv == Spec => []IInv
BY InitIInv, NextIInv, PTL DEF Spec

-----------------------------------------------------------------------------
(* What the run checks follows from the invariant.                         *)

LEMMA ListHasAll ==
  ASSUME NEW mem, NULL \notin DOMAIN mem, NEW h, NEW s, IsList(mem, h, s),
         Chain(mem, h) = s
  PROVE  ListOf(mem, h, End(s), Range(s))
<1>1. /\ Len(s) \in Nat /\ DOMAIN s = 1..Len(s)
      /\ \A i \in 1..Len(s) : s[i] \in DOMAIN mem /\ mem[s[i]].next = Link(s, i)
      /\ \A i, j \in 1..Len(s) : s[i] = s[j] => i = j
      /\ Range(s) = {s[i] : i \in 1..Len(s)}
      /\ s \in Seq(DOMAIN mem)
  BY ListShape
<1>2. s \in [1..Len(s) -> Range(s)]
  <2>1. s \in [1..Len(s) -> DOMAIN mem]
    BY <1>1, LenProperties
  <2> QED BY <1>1, <2>1
<1>3. s \in Bijection(1..Len(s), Range(s))
  BY <1>1, <1>2 DEF Bijection, Injection, Surjection, IsInjective
<1>4. Cardinality(Range(s)) = Len(s)
  <2>1. IsFiniteSet(1..Len(s)) /\ Cardinality(1..Len(s)) = Len(s)
    BY <1>1, FS_Interval
  <2>2. ExistsBijection(1..Len(s), Range(s))
    BY <1>3 DEF ExistsBijection
  <2> QED BY <2>1, <2>2, FS_Bijection
<1>5. CASE s = <<>>
  <2>1. h = NULL /\ End(s) = NULL
    BY <1>5, Emptiness
  <2> QED BY <1>4, <1>5, <2>1 DEF ListOf
<1>6. CASE s # <<>>
  <2>1. Len(s) \in 1..Len(s) /\ End(s) = s[Len(s)]
    BY <1>6, Emptiness
  <2>2. mem[End(s)].next = NULL
    BY <1>1, <2>1 DEF Link
  <2> QED BY <1>4, <1>6, <2>1, <2>2 DEF ListOf, Last
<1> QED BY <1>5, <1>6

LEMMA SoundFollows == IInv => ListsSound
<1> SUFFICES ASSUME IInv, pc \in {"idle", "walk"}
             PROVE  /\ ListOf(peers, head, tail, DOMAIN peers)
                    /\ \A p \in DOMAIN peers :
                        ListOf(streams, peers[p].outHead, peers[p].outTail, Range(Out(p)))
                    /\ DOMAIN streams = UNION {Range(Out(p)) : p \in DOMAIN peers}
  BY DEF ListsSound, Out
<1>1. /\ ShapeInv /\ PeersInv /\ OutInv
  BY DEF IInv
<1>2. NULL \notin DOMAIN peers /\ NULL \notin DOMAIN streams
  BY <1>1, Shape
<1>3. ListOf(peers, head, tail, DOMAIN peers)
  <2>1. PICK s : s = Cells
    OBVIOUS
  <2>2. Chain(peers, head) = s
    BY <2>1 DEF Cells, Start
  <2>3. IsList(peers, head, s) /\ Range(s) = DOMAIN peers /\ tail = End(s)
    BY <1>1, <2>1 DEF PeersInv, Start
  <2> QED BY <1>2, <2>2, <2>3, ListHasAll
<1>4. ASSUME NEW p \in DOMAIN peers
      PROVE  ListOf(streams, peers[p].outHead, peers[p].outTail, Range(Out(p)))
  <2>1. PICK s : s = Out(p)
    OBVIOUS
  <2>2. Chain(streams, peers[p].outHead) = s
    BY <2>1 DEF Out
  <2>3. IsList(streams, peers[p].outHead, s) /\ peers[p].outTail = End(s)
    BY <1>1, <2>1 DEF OutInv
  <2> QED BY <1>2, <2>1, <2>2, <2>3, ListHasAll
<1> QED BY <1>1, <1>3, <1>4 DEF OutInv

LEMMA WalkFollows == IInv => WalksOnLivePeers /\ VisitsAll
<1> SUFFICES ASSUME IInv PROVE WalksOnLivePeers /\ VisitsAll
  OBVIOUS
<1>1. /\ ShapeInv /\ PeersInv /\ WalkInv
  BY DEF IInv
<1>2. PICK s : s = Cells
  OBVIOUS
<1>3. IsList(peers, Start, s)
  BY <1>1, <1>2 DEF PeersInv
<1>4. /\ Len(s) \in Nat /\ Start = Link(s, 0)
      /\ \A i \in 1..Len(s) : s[i] \in DOMAIN peers /\ peers[s[i]].next = Link(s, i)
      /\ NULL \notin DOMAIN peers
      /\ Start \in DOMAIN peers \cup {NULL}
      /\ \A i \in 0..Len(s) : Link(s, i) \in DOMAIN peers \cup {NULL}
  BY <1>1, <1>3, ListShape, Shape, Pointing
<1>5. CASE pc # "walk"
  BY <1>4, <1>5 DEF WalksOnLivePeers, VisitsAll, Start
<1>6. CASE pc = "walk"
  <2>1. PICK k \in 0..Len(s) : At(k)
    BY <1>1, <1>2, <1>6 DEF WalkInv
  <2>2. /\ last = (IF k = 0 THEN NULL ELSE s[k]) /\ peer = Link(s, k)
        /\ Ahead(visited, due, s, peers, k)
    BY <1>2, <2>1 DEF At
  <2>3. peer \in DOMAIN peers \cup {NULL}
    BY <1>4, <2>2
  <2>4. WalksOnLivePeers
    <3>1. CASE k = 0
      <4>1. last = NULL /\ head = peer
        BY <1>4, <1>6, <2>2, <3>1 DEF Start
      <4> QED BY <1>6, <2>3, <4>1 DEF WalksOnLivePeers
    <3>2. CASE k # 0
      <4>1. k \in 1..Len(s)
        BY <1>4, <3>2
      <4>2. last \in DOMAIN peers /\ last # NULL /\ peers[last].next = peer
        BY <1>4, <2>2, <3>2, <4>1
      <4> QED BY <1>6, <2>3, <4>2 DEF WalksOnLivePeers
    <3> QED BY <3>1, <3>2
  <2>6. ASSUME peer = NULL
        PROVE  visited = due
    <3>1. k = Len(s)
      <4>1. k < Len(s) => k + 1 \in 1..Len(s)
        BY <1>4
      <4>2. ~(k < Len(s))
        BY <1>4, <2>2, <2>6, <4>1 DEF Link
      <4> QED BY <1>4, <4>2
    <3>2. visited \in Seq(Nat) /\ due \in Seq(Nat)
      BY <1>1 DEF WalkInv
    <3>3. Len(visited) \in Nat /\ DOMAIN visited = 1..Len(visited)
      BY <3>2, LenProperties
    <3>4. Len(due) = Len(visited) /\ \A i \in 1..Len(visited) : visited[i] = due[i]
      BY <1>4, <2>2, <3>1, <3>3 DEF Ahead
    <3> QED BY <3>2, <3>4, SeqEqual
  <2> QED BY <2>4, <2>6 DEF VisitsAll
<1> QED BY <1>5, <1>6

LEMMA FreedFollows == IInv => FreesAll
<1> SUFFICES ASSUME IInv, pc = "done" PROVE peers = <<>> /\ streams = <<>>
  BY DEF FreesAll
<1>1. /\ ShapeInv /\ PeersInv /\ OutInv /\ WalkInv
  BY DEF IInv
<1>2. Start = NULL
  BY <1>1 DEF Start, WalkInv
<1>3. PICK s : s = Cells
  OBVIOUS
<1>4. IsList(peers, NULL, s) /\ Range(s) = DOMAIN peers
  BY <1>1, <1>2, <1>3 DEF PeersInv
<1>5. s = <<>>
  BY <1>1, <1>4, Shape, Emptiness
<1>6. DOMAIN peers = {}
  BY <1>4, <1>5, NoCells
<1>7. DOMAIN streams = {}
  BY <1>1, <1>6 DEF OutInv
<1>8. \A f : f = [x \in {} |-> f[x]] => f = <<>>
  <2> TAKE f
  <2> HAVE f = [x \in {} |-> f[x]]
  <2>1. f \in [1..0 -> {}]
    OBVIOUS
  <2>2. f \in Seq({}) /\ Len(f) = 0
    BY <2>1, FunctionIsSeq
  <2> QED BY <2>2, EmptySeq
<1>9. peers = [x \in {} |-> peers[x]] /\ streams = [x \in {} |-> streams[x]]
  BY <1>1, <1>6, <1>7 DEF ShapeInv
<1> QED BY <1>8, <1>9

(* Whatever comes, goes and is answered in whatever order, and wherever    *)
(* malloc puts it: the lists hold exactly the peers there are and their    *)
(* replies, end where the tails say, and are walked without standing on    *)
(* freed memory or passing over anyone; at the end everything is free.     *)
THEOREM ListsAreRight == Spec => []ListsRight
<1>1. IInv => ListsRight
  BY TypesFollow, SoundFollows, WalkFollows, FreedFollows DEF ListsRight
<1> QED BY <1>1, SpecIInv, PTL

-----------------------------------------------------------------------------
(* What the pointers amount to: the peers and replies of the lists.        *)

Conns == [id : Nat, out : Seq(Nat)]
IdsOf(mem, o) == [j \in DOMAIN o |-> mem[o[j]].id]
Sight(p) == [id |-> peers[p].id, out |-> IdsOf(streams, Out(p))]

LEMMA IdsOfShape ==
  ASSUME NEW mem, NEW o \in Seq(DOMAIN mem), \A t \in DOMAIN mem : mem[t].id \in Nat
  PROVE  /\ IdsOf(mem, o) \in Seq(Nat) /\ Len(IdsOf(mem, o)) = Len(o)
         /\ Len(o) \in Nat /\ DOMAIN o = 1..Len(o)
         /\ \A j \in 1..Len(o) : o[j] \in DOMAIN mem /\ IdsOf(mem, o)[j] = mem[o[j]].id
<1>1. Len(o) \in Nat /\ DOMAIN o = 1..Len(o) /\ \A j \in 1..Len(o) : o[j] \in DOMAIN mem
  BY LenProperties, ElementOfSeq
<1> DEFINE w == IdsOf(mem, o)
<1>2. w = [j \in 1..Len(o) |-> mem[o[j]].id]
  BY <1>1 DEF IdsOf
<1> HIDE DEF w
<1>3. w \in [1..Len(o) -> Nat]
  BY <1>1, <1>2
<1>4. w \in Seq(Nat) /\ Len(w) = Len(o)
  BY <1>1, <1>3, FunctionIsSeq
<1> QED BY <1>1, <1>2, <1>4 DEF w

(* A reply queued, a reply sent, as the ids of the list show them.         *)
LEMMA IdsAppended ==
  ASSUME NEW mem, NEW o \in Seq(DOMAIN mem), \A t \in DOMAIN mem : mem[t].id \in Nat,
         NEW mem2, NEW s, DOMAIN mem2 = DOMAIN mem \cup {s}, NEW r \in Nat, mem2[s].id = r,
         \A t \in DOMAIN mem : mem2[t].id = mem[t].id
  PROVE  IdsOf(mem2, Append(o, s)) = Append(IdsOf(mem, o), r)
<1> DEFINE a == Append(o, s)
           v == IdsOf(mem, o)
           w == IdsOf(mem2, a)
           z == Append(v, r)
<1>1. /\ v \in Seq(Nat) /\ Len(v) = Len(o) /\ Len(o) \in Nat
      /\ \A j \in 1..Len(o) : o[j] \in DOMAIN mem /\ v[j] = mem[o[j]].id
  BY IdsOfShape
<1>2. \A t \in DOMAIN mem2 : mem2[t].id \in Nat
  OBVIOUS
<1>3. o \in Seq(DOMAIN mem2) /\ s \in DOMAIN mem2
  <2>1. o \in [1..Len(o) -> DOMAIN mem2]
    BY <1>1, LenProperties
  <2> QED BY <1>1, <2>1, FunctionIsSeq
<1>4. /\ a \in Seq(DOMAIN mem2) /\ Len(a) = Len(o) + 1
      /\ (\A j \in 1..Len(o) : a[j] = o[j]) /\ a[Len(o) + 1] = s
  BY <1>3, AppendProperties
<1> HIDE DEF a
<1>5. /\ w \in Seq(Nat) /\ Len(w) = Len(a)
      /\ \A j \in 1..Len(a) : w[j] = mem2[a[j]].id
  BY <1>2, <1>4, IdsOfShape
<1> HIDE DEF w, v
<1>6. /\ z \in Seq(Nat) /\ Len(z) = Len(v) + 1
      /\ (\A j \in 1..Len(v) : z[j] = v[j]) /\ z[Len(v) + 1] = r
  BY <1>1, AppendProperties
<1> HIDE DEF z
<1>7. ASSUME NEW j \in 1..Len(w) PROVE w[j] = z[j]
  <2>1. CASE j = Len(o) + 1
    BY <1>1, <1>4, <1>5, <1>6, <2>1
  <2>2. CASE j # Len(o) + 1
    <3>1. Len(w) = Len(o) + 1 /\ Len(o) \in Nat
      BY <1>1, <1>4, <1>5
    <3>2. j \in 1..Len(o)
      BY <2>2, <3>1
    <3>3. a[j] = o[j] /\ z[j] = v[j] /\ v[j] = mem[o[j]].id /\ o[j] \in DOMAIN mem
      BY <1>1, <1>4, <1>6, <3>2
    <3>4. w[j] = mem2[a[j]].id
      BY <1>5
    <3> QED BY <3>3, <3>4
  <2> QED BY <2>1, <2>2
<1>8. Len(w) = Len(z)
  BY <1>1, <1>4, <1>5, <1>6
<1>9. w = z
  BY <1>5, <1>6, <1>7, <1>8, SeqEqual
<1> QED BY <1>9 DEF w, z, v, a

LEMMA IdsBeheaded ==
  ASSUME NEW mem, NEW o \in Seq(DOMAIN mem), \A t \in DOMAIN mem : mem[t].id \in Nat,
         o # <<>>, NEW mem2, RemoveAt(o, 1) \in Seq(DOMAIN mem2),
         DOMAIN mem2 \subseteq DOMAIN mem, \A t \in DOMAIN mem2 : mem2[t].id = mem[t].id
  PROVE  /\ IdsOf(mem2, RemoveAt(o, 1)) = Tail(IdsOf(mem, o))
         /\ IdsOf(mem, o) # <<>>
<1> DEFINE a == RemoveAt(o, 1)
           v == IdsOf(mem, o)
           w == IdsOf(mem2, a)
           z == Tail(v)
<1>1. /\ v \in Seq(Nat) /\ Len(v) = Len(o) /\ Len(o) \in Nat
      /\ \A j \in 1..Len(o) : o[j] \in DOMAIN mem /\ v[j] = mem[o[j]].id
  BY IdsOfShape
<1>2. Len(o) \in Nat \ {0}
  BY EmptySeq
<1>3. Len(a) = Len(o) - 1 /\ \A j \in 1..(Len(o) - 1) : a[j] = o[j + 1]
  <2>1. 1 \in 1..Len(o)
    BY <1>2
  <2>2. /\ Len(a) = Len(o) - 1
        /\ \A j \in 1..(Len(o) - 1) : a[j] = IF j < 1 THEN o[j] ELSE o[j + 1]
    BY <2>1, RemoveAtProperties
  <2> HIDE DEF a
  <2> QED BY <2>2
<1>4. a \in Seq(DOMAIN mem2) /\ \A t \in DOMAIN mem2 : mem2[t].id \in Nat
  OBVIOUS
<1> HIDE DEF a
<1>5. /\ w \in Seq(Nat) /\ Len(w) = Len(a)
      /\ \A j \in 1..Len(a) : a[j] \in DOMAIN mem2 /\ w[j] = mem2[a[j]].id
  BY <1>4, IdsOfShape
<1> HIDE DEF w, v
<1>6. v # <<>>
  <2>1. Len(v) # 0
    BY <1>1, <1>2
  <2> QED BY <2>1, EmptySeq
<1>7. /\ z \in Seq(Nat) /\ Len(z) = Len(v) - 1
      /\ \A j \in 1..Len(z) : z[j] = v[j + 1]
  BY <1>1, <1>6, HeadTailProperties
<1> HIDE DEF z
<1>8. ASSUME NEW j \in 1..Len(w) PROVE w[j] = z[j]
  <2>1. /\ j \in 1..(Len(o) - 1) /\ j \in 1..Len(z) /\ j \in 1..Len(a)
        /\ j + 1 \in 1..Len(o)
    BY <1>1, <1>2, <1>3, <1>5, <1>7
  <2>2. a[j] = o[j + 1] /\ z[j] = v[j + 1] /\ v[j + 1] = mem[o[j + 1]].id
    BY <1>1, <1>3, <1>7, <2>1
  <2>3. w[j] = mem2[a[j]].id /\ a[j] \in DOMAIN mem2
    BY <1>5, <2>1
  <2> QED BY <2>2, <2>3
<1>9. Len(w) = Len(z)
  BY <1>1, <1>3, <1>5, <1>7
<1>10. w = z
  BY <1>5, <1>7, <1>8, <1>9, SeqEqual
<1> QED BY <1>6, <1>10 DEF w, z, v, a

(* One peer of a sequence with other replies.                              *)
LEMMA OutChanged ==
  ASSUME NEW v \in Seq(Conns), NEW w \in Seq(Conns), Len(w) = Len(v), NEW i \in 1..Len(v),
         NEW o \in Seq(Nat), w[i].id = v[i].id, w[i].out = o,
         \A j \in 1..Len(v) : j # i => w[j] = v[j]
  PROVE  w = [v EXCEPT ![i].out = o]
<1>1. /\ DOMAIN v = 1..Len(v) /\ DOMAIN w = 1..Len(v)
      /\ v \in [1..Len(v) -> Conns] /\ w \in [1..Len(v) -> Conns]
  BY LenProperties
<1>2. v[i] \in Conns /\ w[i] \in Conns
  BY <1>1
<1>3. w[i] = [v[i] EXCEPT !.out = o]
  BY <1>2 DEF Conns
<1> QED BY <1>1, <1>3

(* The view is a sequence of what each cell shows.                         *)
Shown ==
    /\ View \in Seq(Conns) /\ Len(View) = Len(Cells)
    /\ Len(Cells) \in Nat /\ DOMAIN View = 1..Len(Cells) /\ DOMAIN Cells = 1..Len(Cells)
    /\ \A i \in 1..Len(Cells) : Cells[i] \in DOMAIN peers /\ View[i] = Sight(Cells[i])
    /\ Cells \in Seq(DOMAIN peers)
    /\ \A i, j \in 1..Len(Cells) : Cells[i] = Cells[j] => i = j
    /\ \A p \in DOMAIN peers : /\ Sight(p) \in Conns /\ Out(p) \in Seq(DOMAIN streams)
                               /\ \E i \in 1..Len(Cells) : Cells[i] = p
    /\ \A t \in DOMAIN streams : streams[t].id \in Nat

LEMMA ViewShown == IInv => Shown
<1> SUFFICES ASSUME IInv PROVE Shown
  OBVIOUS
<1>1. ShapeInv /\ PeersInv /\ OutInv
  BY DEF IInv
<1>2. PICK s : s = Cells
  OBVIOUS
<1>3. IsList(peers, Start, s) /\ Range(s) = DOMAIN peers
  BY <1>1, <1>2 DEF PeersInv
<1>4. /\ s \in Seq(DOMAIN peers) /\ Len(s) \in Nat /\ DOMAIN s = 1..Len(s)
      /\ \A i \in 1..Len(s) : s[i] \in DOMAIN peers
      /\ \A i, j \in 1..Len(s) : s[i] = s[j] => i = j
      /\ Range(s) = {s[i] : i \in 1..Len(s)}
  <2>1. PICK h : h = Start
    OBVIOUS
  <2>2. IsList(peers, h, s)
    BY <1>3, <2>1
  <2> QED BY <2>2, ListShape
<1>5. \A t \in DOMAIN streams : streams[t].id \in Nat
  BY <1>1, Shape DEF StreamCells
<1>6. ASSUME NEW p \in DOMAIN peers
      PROVE  Sight(p) \in Conns /\ Out(p) \in Seq(DOMAIN streams)
  <2>1. Out(p) \in Seq(DOMAIN streams)
    BY <1>1 DEF OutInv, IsList
  <2>2. PICK o : o = Out(p)
    OBVIOUS
  <2>3. IdsOf(streams, o) \in Seq(Nat)
    BY <1>5, <2>1, <2>2, IdsOfShape
  <2>4. peers[p].id \in Nat
    BY <1>1, Shape DEF PeerCells
  <2> QED BY <2>1, <2>2, <2>3, <2>4 DEF Sight, Conns
<1>7. View = [i \in DOMAIN Cells |-> Sight(Cells[i])]
  BY DEF View, Sight, IdsOf, Out, Cells, Start
<1>8. View = [i \in 1..Len(s) |-> Sight(s[i])]
  BY <1>2, <1>4, <1>7
<1>9. View \in [1..Len(s) -> Conns]
  BY <1>4, <1>6, <1>8
<1>10. View \in Seq(Conns) /\ Len(View) = Len(s) /\ DOMAIN View = 1..Len(s)
  BY <1>4, <1>9, FunctionIsSeq
<1>11. \A p \in DOMAIN peers : \E i \in 1..Len(s) : s[i] = p
  BY <1>3, <1>4
<1> QED BY <1>2, <1>4, <1>5, <1>6, <1>8, <1>10, <1>11 DEF Shown

(* A step that leaves the pointers alone leaves what they amount to.       *)
LEMMA ViewKept ==
  ASSUME Cells' = Cells, UNCHANGED <<peers, streams>>
  PROVE  View' = View
<1> DEFINE Of(mem, str, c) == [i \in DOMAIN c |->
                [id |-> mem[c[i]].id,
                 out |-> [j \in DOMAIN Chain(str, mem[c[i]].outHead) |->
                             str[Chain(str, mem[c[i]].outHead)[j]].id]]]
<1>1. View = Of(peers, streams, Cells)
  BY DEF View, Cells, Start
<1>2. View' = Of(peers', streams', Cells')
  BY DEF View, Cells, Start
<1> HIDE DEF Of
<1> QED BY <1>1, <1>2

(* What a peer shows when its id and its replies are what they were.       *)
LEMMA SightKept ==
  ASSUME Shown, NEW p \in DOMAIN peers, p \in DOMAIN peers', peers'[p].id = peers[p].id,
         Out(p)' = Out(p), \A j \in DOMAIN Out(p) : Out(p)[j] \in DOMAIN streams',
         \A t \in DOMAIN streams' : t \in DOMAIN streams => streams'[t].id = streams[t].id
  PROVE  Sight(p)' = Sight(p)
<1>1. PICK o : o = Out(p)
  OBVIOUS
<1>2. o \in Seq(DOMAIN streams) /\ \A j \in DOMAIN o : o[j] \in DOMAIN streams'
  BY <1>1 DEF Shown
<1>3. \A j \in DOMAIN o : o[j] \in DOMAIN streams
  BY <1>2, LenProperties, ElementOfSeq
<1>4. \A j \in DOMAIN o : streams'[o[j]].id = streams[o[j]].id
  BY <1>2, <1>3
<1>5. IdsOf(streams', o) = IdsOf(streams, o)
  BY <1>4 DEF IdsOf
<1> QED BY <1>1, <1>5 DEF Sight

(* The ids in the view are those given so far.                             *)
LEMMA Given ==
  ASSUME Shown, IdsInv, ShapeInv
  PROVE  /\ \A i \in DOMAIN View : View[i].id \in 1..unique_id
         /\ \A i \in DOMAIN View : (replies + 1) \notin Abstract!Range(View[i].out)
<1>1. ASSUME NEW i \in DOMAIN View
      PROVE  /\ View[i].id \in 1..unique_id
             /\ (replies + 1) \notin Abstract!Range(View[i].out)
  <2>1. PICK p : p = Cells[i]
    OBVIOUS
  <2>2. p \in DOMAIN peers /\ View[i] = Sight(p)
    BY <1>1, <2>1 DEF Shown
  <2>3. View[i].id = peers[p].id /\ peers[p].id \in 1..unique_id
    BY <2>2 DEF Sight, IdsInv
  <2>4. PICK o : o = Out(p)
    OBVIOUS
  <2>5. View[i].out = IdsOf(streams, o)
    BY <2>2, <2>4 DEF Sight
  <2>6. o \in Seq(DOMAIN streams) /\ \A t \in DOMAIN streams : streams[t].id \in Nat
    BY <2>2, <2>4 DEF Shown
  <2>7. \A j \in 1..Len(o) : o[j] \in DOMAIN streams /\ IdsOf(streams, o)[j] = streams[o[j]].id
    BY <2>6, IdsOfShape
  <2>8. DOMAIN IdsOf(streams, o) = 1..Len(o)
    BY <2>6, IdsOfShape DEF IdsOf
  <2>9. \A t \in DOMAIN streams : streams[t].id \in 1..replies
    BY DEF IdsInv
  <2>10. replies \in Nat /\ ~(replies + 1 \in 1..replies)
    BY Shape
  <2>11. \A j \in DOMAIN IdsOf(streams, o) : IdsOf(streams, o)[j] # replies + 1
    BY <2>7, <2>8, <2>9, <2>10
  <2>12. PICK v : v = View[i].out
    OBVIOUS
  <2>13. \A j \in DOMAIN v : v[j] # replies + 1
    BY <2>5, <2>11, <2>12
  <2>14. (replies + 1) \notin Abstract!Range(v)
    BY <2>13 DEF Abstract!Range
  <2> QED BY <2>3, <2>12, <2>14
<1> QED BY <1>1

-----------------------------------------------------------------------------
(* Every step is one of PeerSeq or leaves what it speaks of as it was.     *)

LEMMA Accepts ==
  ASSUME IInv, IInv', Shown, Shown', AddFd
  PROVE  Abstract!Next
<1>1. IdsInv /\ ShapeInv /\ ShapeInv'
  BY DEF IInv
<1>2. PICK a \in Addrs :
        /\ a \notin DOMAIN peers /\ DOMAIN peers' = DOMAIN peers \cup {a}
        /\ Cells' = Append(Cells, a)
        /\ peers'[a].id = unique_id + 1 /\ Out(a)' = <<>>
        /\ \A p \in DOMAIN peers : peers'[p].id = peers[p].id /\ Out(p)' = Out(p)
  BY AddFdDoes
<1>3. unique_id' = unique_id + 1 /\ streams' = streams
  BY DEF AddFd
<1>4. unique_id \in Nat /\ unique_id + 1 \in Nat /\ unique_id + 1 \in 1..MaxIds
  <2>1. unique_id \in Nat /\ MaxIds \in Nat
    BY <1>1, Shape
  <2>2. unique_id + 1 \in 0..MaxIds
    BY <1>1, <1>3 DEF ShapeInv
  <2> QED BY <2>1, <2>2
<1> DEFINE new == [id |-> unique_id + 1, out |-> <<>>]
<1>5. new \in Conns
  BY <1>4, EmptySeq DEF Conns
<1>6. Sight(a)' = new
  <2>1. IdsOf(streams', <<>>) = <<>>
    <3>1. \A t \in DOMAIN streams' : streams'[t].id \in Nat
      BY DEF Shown
    <3>2. <<>> \in Seq(DOMAIN streams') /\ Len(<<>>) = 0
      BY EmptySeq
    <3>3. IdsOf(streams', <<>>) \in Seq(Nat) /\ Len(IdsOf(streams', <<>>)) = 0
      BY <3>1, <3>2, IdsOfShape
    <3> QED BY <3>3, EmptySeq
  <2> QED BY <1>2, <2>1 DEF Sight
<1> HIDE DEF new
<1>7. \A p \in DOMAIN peers : Sight(p)' = Sight(p)
  BY <1>2, <1>3 DEF Sight
<1>8. PICK v, w, s, t : v = View /\ w = View' /\ s = Cells /\ t = Cells'
  OBVIOUS
<1>9. /\ v \in Seq(Conns) /\ Len(v) = Len(s) /\ Len(s) \in Nat /\ DOMAIN s = 1..Len(s)
      /\ \A i \in 1..Len(s) : s[i] \in DOMAIN peers /\ v[i] = Sight(s[i])
  BY <1>8 DEF Shown
<1>10. /\ w \in Seq(Conns) /\ Len(w) = Len(t)
       /\ \A i \in 1..Len(t) : t[i] \in DOMAIN peers' /\ w[i] = Sight(t[i])'
  BY <1>8 DEF Shown
<1>11. /\ t = Append(s, a) /\ Len(t) = Len(s) + 1
       /\ (\A i \in 1..Len(s) : t[i] = s[i]) /\ t[Len(s) + 1] = a
  <2>1. s \in [1..Len(s) -> DOMAIN peers \cup {a}] \/ s \in Seq(DOMAIN peers \cup {a})
    <3>1. Cells \in Seq(DOMAIN peers)
      BY DEF IInv, PeersInv, IsList
    <3>2. s \in [1..Len(s) -> DOMAIN peers]
      BY <1>8, <3>1, LenProperties
    <3> QED BY <3>2
  <2>2. s \in Seq(DOMAIN peers \cup {a})
    BY <1>9, <2>1, FunctionIsSeq
  <2>3. t = Append(s, a)
    BY <1>2, <1>8
  <2> QED BY <2>2, <2>3, AppendProperties
<1> DEFINE z == Append(v, new)
<1>12. /\ z \in Seq(Conns) /\ Len(z) = Len(v) + 1
       /\ (\A i \in 1..Len(v) : z[i] = v[i]) /\ z[Len(v) + 1] = new
  BY <1>5, <1>9, AppendProperties
<1>13. z = Append(v, new)
  OBVIOUS
<1> HIDE DEF z
<1>14. w = z
  <2>1. Len(w) = Len(z)
    BY <1>9, <1>10, <1>11, <1>12
  <2>2. ASSUME NEW i \in 1..Len(w) PROVE w[i] = z[i]
    <3>1. CASE i = Len(s) + 1
      <4>1. t[i] = a /\ w[i] = Sight(t[i])' /\ z[i] = new
        BY <1>9, <1>10, <1>11, <1>12, <3>1
      <4>2. w[i] = Sight(a)'
        BY <4>1
      <4> QED BY <1>6, <4>1, <4>2
    <3>2. CASE i # Len(s) + 1
      <4>1. Len(w) = Len(s) + 1 /\ Len(s) \in Nat
        BY <1>9, <1>10, <1>11
      <4>2. i \in 1..Len(s) /\ i \in 1..Len(t)
        BY <1>10, <3>2, <4>1
      <4>3. t[i] = s[i] /\ s[i] \in DOMAIN peers /\ v[i] = Sight(s[i]) /\ z[i] = v[i]
        BY <1>9, <1>11, <1>12, <4>2
      <4>4. w[i] = Sight(t[i])'
        BY <1>10, <4>2
      <4>5. PICK p : p = s[i]
        OBVIOUS
      <4>6. w[i] = Sight(p)' /\ p \in DOMAIN peers /\ z[i] = Sight(p)
        BY <4>3, <4>4, <4>5
      <4> QED BY <1>7, <4>6
    <3> QED BY <3>1, <3>2
  <2> QED BY <1>10, <1>12, <2>1, <2>2, SeqEqual
<1>15. \A i \in DOMAIN View : View[i].id # unique_id + 1
  <2>1. \A i \in DOMAIN View : View[i].id \in 1..unique_id
    BY <1>1, Given
  <2>2. ~(unique_id + 1 \in 1..unique_id)
    BY <1>4
  <2> QED BY <2>1, <2>2
<1>16. Abstract!Accept(unique_id + 1)
  BY <1>8, <1>13, <1>14, <1>15 DEF Abstract!Accept, new
<1> QED BY <1>4, <1>16 DEF Abstract!Next

(* The list is the same but for one peer's replies.                        *)
LEMMA OutStep ==
  ASSUME Shown, Shown', Cells' = Cells, DOMAIN peers' = DOMAIN peers,
         NEW p \in DOMAIN peers, NEW o \in Seq(Nat),
         Sight(p)' = [id |-> peers[p].id, out |-> o],
         \A q \in DOMAIN peers : q # p => Sight(q)' = Sight(q)
  PROVE  \E i \in DOMAIN View : /\ View[i].out = IdsOf(streams, Out(p))
                                /\ View' = [View EXCEPT ![i].out = o]
<1>1. PICK v, w, s : v = View /\ w = View' /\ s = Cells /\ s = Cells'
  OBVIOUS
<1>2. /\ v \in Seq(Conns) /\ Len(v) = Len(s) /\ Len(s) \in Nat /\ DOMAIN v = 1..Len(s)
      /\ \A i \in 1..Len(s) : s[i] \in DOMAIN peers /\ v[i] = Sight(s[i])
      /\ \A i, j \in 1..Len(s) : s[i] = s[j] => i = j
  BY <1>1 DEF Shown
<1>3. /\ w \in Seq(Conns) /\ Len(w) = Len(s)
      /\ \A i \in 1..Len(s) : w[i] = Sight(s[i])'
  BY <1>1 DEF Shown
<1>4. PICK i \in 1..Len(s) : s[i] = p
  BY <1>1 DEF Shown
<1>5. v[i] = Sight(p) /\ w[i] = Sight(p)'
  BY <1>2, <1>3, <1>4
<1>6. w[i].id = v[i].id /\ w[i].out = o
  BY <1>5 DEF Sight
<1>7. ASSUME NEW j \in 1..Len(v), j # i PROVE w[j] = v[j]
  <2>1. j \in 1..Len(s) /\ s[j] # p
    BY <1>2, <1>4, <1>7
  <2>2. PICK q : q = s[j]
    OBVIOUS
  <2>3. w[j] = Sight(q)' /\ v[j] = Sight(q) /\ q \in DOMAIN peers
    BY <1>2, <1>3, <2>1, <2>2
  <2> QED BY <2>1, <2>2, <2>3
<1>8. w = [v EXCEPT ![i].out = o]
  <2>1. Len(w) = Len(v) /\ i \in 1..Len(v) /\ v \in Seq(Conns) /\ w \in Seq(Conns)
    BY <1>2, <1>3
  <2>2. \A j \in 1..Len(v) : j # i => w[j] = v[j]
    BY <1>7
  <2> QED BY ONLY <1>6, <2>1, <2>2, o \in Seq(Nat), OutChanged
<1>9. v[i].out = IdsOf(streams, Out(p))
  BY <1>5 DEF Sight
<1> QED BY <1>1, <1>2, <1>8, <1>9

LEMMA Queues ==
  ASSUME IInv, IInv', Shown, Shown', QueueReply
  PROVE  Abstract!Next \/ View' = View
<1>1. IdsInv /\ ShapeInv /\ ShapeInv'
  BY DEF IInv
<1>2. Cells' = Cells
  BY QueueReplyDoes
<1>3. CASE UNCHANGED <<peers, streams>>
  BY <1>2, <1>3, ViewKept
<1>4. CASE ~UNCHANGED <<peers, streams>>
  <2>1. PICK p \in DOMAIN peers, s \in Addrs :
            /\ s \notin DOMAIN streams /\ DOMAIN streams' = DOMAIN streams \cup {s}
            /\ DOMAIN peers' = DOMAIN peers
            /\ Out(p)' = Append(Out(p), s) /\ streams'[s].id = replies + 1
            /\ \A q \in DOMAIN peers : /\ peers'[q].id = peers[q].id
                                       /\ q # p => Out(q)' = Out(q)
            /\ \A t \in DOMAIN streams : streams'[t].id = streams[t].id
    BY <1>4, QueueReplyDoes
  <2>2. DOMAIN streams' = DOMAIN streams \cup {s}
    BY <2>1
  <2>3. replies \in Nat /\ replies + 1 \in Nat /\ replies + 1 \in 1..MaxReplies
    <3>1. replies \in Nat /\ MaxReplies \in Nat /\ replies < MaxReplies
      BY <1>1, Shape DEF QueueReply
    <3> QED BY <3>1
  <2>4. PICK o : o = Out(p)
    OBVIOUS
  <2>5. o \in Seq(DOMAIN streams) /\ \A t \in DOMAIN streams : streams[t].id \in Nat
    BY <2>4 DEF Shown
  <2>6. IdsOf(streams', Append(o, s)) = Append(IdsOf(streams, o), replies + 1)
    <3>1. PICK r : r = replies + 1
      OBVIOUS
    <3>2. r \in Nat /\ streams'[s].id = r
      BY <2>1, <2>3, <3>1
    <3>3. \A t \in DOMAIN streams : streams'[t].id = streams[t].id
      BY <2>1
    <3>4. IdsOf(streams', Append(o, s)) = Append(IdsOf(streams, o), r)
      BY ONLY <2>2, <2>5, <3>2, <3>3, IdsAppended
    <3> QED BY <3>1, <3>4
  <2>7. Append(IdsOf(streams, o), replies + 1) \in Seq(Nat)
    <3>1. IdsOf(streams, o) \in Seq(Nat)
      BY <2>5, IdsOfShape
    <3> QED BY <2>3, <3>1, AppendProperties
  <2>8. Sight(p)' = [id |-> peers[p].id, out |-> Append(IdsOf(streams, o), replies + 1)]
    <3>1. Out(p)' = Append(o, s)
      BY <2>1, <2>4
    <3> QED BY <2>1, <2>6, <3>1 DEF Sight
  <2>9. ASSUME NEW q \in DOMAIN peers, q # p PROVE Sight(q)' = Sight(q)
    <3>1. q \in DOMAIN peers' /\ peers'[q].id = peers[q].id /\ Out(q)' = Out(q)
      BY <2>1, <2>9
    <3>2. \A j \in DOMAIN Out(q) : Out(q)[j] \in DOMAIN streams'
      <4>1. PICK u : u = Out(q)
        OBVIOUS
      <4>2. u \in Seq(DOMAIN streams)
        BY <4>1 DEF Shown
      <4>3. \A j \in DOMAIN u : u[j] \in DOMAIN streams
        BY <4>2, LenProperties, ElementOfSeq
      <4> QED BY <2>2, <4>1, <4>3
    <3> QED BY <2>1, <3>1, <3>2, SightKept
  <2>10. PICK i \in DOMAIN View :
            /\ View[i].out = IdsOf(streams, o)
            /\ View' = [View EXCEPT ![i].out = Append(IdsOf(streams, o), replies + 1)]
    <3> DEFINE z == Append(IdsOf(streams, o), replies + 1)
    <3>1. z \in Seq(Nat) /\ Sight(p)' = [id |-> peers[p].id, out |-> z]
      BY <2>7, <2>8
    <3> HIDE DEF z
    <3>2. \E i \in DOMAIN View : /\ View[i].out = IdsOf(streams, Out(p))
                                 /\ View' = [View EXCEPT ![i].out = z]
      BY <1>2, <2>1, <2>9, <3>1, OutStep
    <3> QED BY <2>4, <3>2 DEF z
  <2>11. \A j \in DOMAIN View : (replies + 1) \notin Abstract!Range(View[j].out)
    BY <1>1, Given
  <2>12. Abstract!Queue(i, replies + 1)
    BY <2>10, <2>11 DEF Abstract!Queue
  <2> QED BY <2>3, <2>10, <2>12 DEF Abstract!Next
<1> QED BY <1>3, <1>4

LEMMA Keeps ==
  ASSUME IInv, IInv', Shown, Shown', Keep
  PROVE  Abstract!Next \/ View' = View
<1>1. Cells' = Cells
  BY KeepDoes
<1>2. CASE UNCHANGED <<peers, streams>>
  BY <1>1, <1>2, ViewKept
<1>3. CASE ~UNCHANGED <<peers, streams>>
  <2>1. /\ peer \in DOMAIN peers /\ DOMAIN peers' = DOMAIN peers
        /\ Out(peer) # <<>> /\ (\A p \in {peer} : Out(p)' = RemoveAt(Out(p), 1))
        /\ \A q \in DOMAIN peers : /\ peers'[q].id = peers[q].id
                                   /\ q # peer => Out(q)' = Out(q)
        /\ \A t \in DOMAIN streams' : streams'[t].id = streams[t].id
        /\ DOMAIN streams' \subseteq DOMAIN streams
    BY <1>3, KeepDoes
  <2>2. PICK p, o : p = peer /\ o = Out(p)
    OBVIOUS
  <2>3. o \in Seq(DOMAIN streams) /\ \A t \in DOMAIN streams : streams[t].id \in Nat
    BY <2>1, <2>2 DEF Shown
  <2>4. o # <<>> /\ Out(p)' = RemoveAt(o, 1)
    BY <2>1, <2>2
  <2>5. RemoveAt(o, 1) \in Seq(DOMAIN streams')
    <3>1. p \in DOMAIN peers' /\ \A q \in DOMAIN peers' : Out(q)' \in Seq(DOMAIN streams')
      BY <2>1, <2>2 DEF Shown
    <3> QED BY <2>4, <3>1
  <2>6. /\ IdsOf(streams', RemoveAt(o, 1)) = Tail(IdsOf(streams, o))
        /\ IdsOf(streams, o) # <<>>
    BY <2>1, <2>3, <2>4, <2>5, IdsBeheaded
  <2>7. Tail(IdsOf(streams, o)) \in Seq(Nat)
    <3>1. IdsOf(streams, o) \in Seq(Nat)
      BY <2>3, IdsOfShape
    <3> QED BY <2>6, <3>1, HeadTailProperties
  <2>8. Sight(p)' = [id |-> peers[p].id, out |-> Tail(IdsOf(streams, o))]
    BY <2>1, <2>2, <2>4, <2>6 DEF Sight
  <2>9. ASSUME NEW q \in DOMAIN peers, q # p PROVE Sight(q)' = Sight(q)
    <3>1. q \in DOMAIN peers' /\ peers'[q].id = peers[q].id /\ Out(q)' = Out(q)
      BY <2>1, <2>2, <2>9
    <3>2. \A j \in DOMAIN Out(q) : Out(q)[j] \in DOMAIN streams'
      <4>1. PICK u : u = Out(q)
        OBVIOUS
      <4>2. u \in Seq(DOMAIN streams')
        <5>1. \A x \in DOMAIN peers' : Out(x)' \in Seq(DOMAIN streams')
          BY DEF Shown
        <5> QED BY <3>1, <4>1, <5>1
      <4>3. \A j \in DOMAIN u : u[j] \in DOMAIN streams'
        BY <4>2, LenProperties, ElementOfSeq
      <4> QED BY <4>1, <4>3
    <3> QED BY <2>1, <3>1, <3>2, SightKept
  <2>10. PICK i \in DOMAIN View :
            /\ View[i].out = IdsOf(streams, o)
            /\ View' = [View EXCEPT ![i].out = Tail(IdsOf(streams, o))]
    <3> DEFINE z == Tail(IdsOf(streams, o))
    <3>1. z \in Seq(Nat) /\ Sight(p)' = [id |-> peers[p].id, out |-> z] /\ p \in DOMAIN peers
      BY <2>1, <2>2, <2>7, <2>8
    <3> HIDE DEF z
    <3>2. \E i \in DOMAIN View : /\ View[i].out = IdsOf(streams, Out(p))
                                 /\ View' = [View EXCEPT ![i].out = z]
      BY <1>1, <2>1, <2>9, <3>1, OutStep
    <3> QED BY <2>2, <3>2 DEF z
  <2>11. Abstract!Sent(i)
    BY <2>6, <2>10 DEF Abstract!Sent
  <2> QED BY <2>10, <2>11 DEF Abstract!Next
<1> QED BY <1>2, <1>3

LEMMA Removals ==
  ASSUME Shown, Shown', NEW k \in 1..Len(Cells), Removes(k)
  PROVE  Abstract!Next
<1>1. PICK v, w, s, t : v = View /\ w = View' /\ s = Cells /\ t = Cells'
  OBVIOUS
<1>2. /\ v \in Seq(Conns) /\ Len(v) = Len(s) /\ Len(s) \in Nat /\ DOMAIN v = 1..Len(s)
      /\ \A i \in 1..Len(s) : s[i] \in DOMAIN peers /\ v[i] = Sight(s[i])
  BY <1>1 DEF Shown
<1>3. /\ w \in Seq(Conns) /\ Len(w) = Len(t) /\ Len(t) \in Nat
      /\ \A i \in 1..Len(t) : t[i] \in DOMAIN peers' /\ w[i] = Sight(t[i])'
  BY <1>1 DEF Shown
<1>4. t = RemoveAt(s, k) /\ k \in 1..Len(s)
  BY <1>1 DEF Removes
<1>5. /\ Len(t) = Len(s) - 1
      /\ \A i \in 1..(Len(s) - 1) : t[i] = IF i < k THEN s[i] ELSE s[i + 1]
  <2>1. s \in Seq(DOMAIN peers)
    BY <1>1 DEF Shown
  <2> QED BY <1>4, <2>1, RemoveAtProperties
<1> DEFINE z == RemoveAt(v, k)
<1>6. /\ z \in Seq(Conns) /\ Len(z) = Len(v) - 1
      /\ \A i \in 1..(Len(v) - 1) : z[i] = IF i < k THEN v[i] ELSE v[i + 1]
  BY <1>2, <1>4, RemoveAtProperties
<1>7. z = RemoveAt(v, k)
  OBVIOUS
<1> HIDE DEF z
<1>8. ASSUME NEW p \in DOMAIN peers' PROVE p \in DOMAIN peers /\ Sight(p)' = Sight(p)
  <2>1. /\ p \in DOMAIN peers /\ peers'[p].id = peers[p].id /\ Out(p)' = Out(p)
        /\ \A u \in DOMAIN streams' : streams'[u].id = streams[u].id
    BY DEF Removes
  <2>2. \A j \in DOMAIN Out(p) : Out(p)[j] \in DOMAIN streams'
    <3>1. PICK o : o = Out(p)
      OBVIOUS
    <3>2. o \in Seq(DOMAIN streams')
      <4>1. \A x \in DOMAIN peers' : Out(x)' \in Seq(DOMAIN streams')
        BY DEF Shown
      <4> QED BY <2>1, <3>1, <4>1
    <3>3. \A j \in DOMAIN o : o[j] \in DOMAIN streams'
      BY <3>2, LenProperties, ElementOfSeq
    <3> QED BY <3>1, <3>3
  <2> QED BY <2>1, <2>2, SightKept
<1>9. w = z
  <2>1. Len(w) = Len(z)
    BY <1>2, <1>3, <1>5, <1>6
  <2>2. ASSUME NEW i \in 1..Len(w) PROVE w[i] = z[i]
    <3>1. i \in 1..(Len(s) - 1) /\ i \in 1..(Len(v) - 1) /\ i \in 1..Len(t)
      BY <1>2, <1>3, <1>5
    <3>2. i \in 1..Len(s) /\ i + 1 \in 1..Len(s)
      BY <1>2, <3>1
    <3>3. PICK p : p = t[i]
      OBVIOUS
    <3>4. w[i] = Sight(p)' /\ p \in DOMAIN peers'
      BY <1>3, <3>1, <3>3
    <3>5. w[i] = Sight(p)
      BY <1>8, <3>4
    <3>6. CASE i < k
      <4>1. p = s[i] /\ z[i] = v[i] /\ v[i] = Sight(s[i])
        BY <1>2, <1>5, <1>6, <3>1, <3>2, <3>3, <3>6
      <4> QED BY <3>5, <4>1
    <3>7. CASE ~(i < k)
      <4>1. p = s[i + 1] /\ z[i] = v[i + 1] /\ v[i + 1] = Sight(s[i + 1])
        BY <1>2, <1>5, <1>6, <3>1, <3>2, <3>3, <3>7
      <4> QED BY <3>5, <4>1
    <3> QED BY <3>6, <3>7
  <2> QED BY <1>3, <1>6, <2>1, <2>2, SeqEqual
<1>10. v = View /\ RemoveAt(v, k) = View' /\ k \in DOMAIN View
  BY <1>1, <1>2, <1>4, <1>7, <1>9
<1>11. Abstract!RemoveAt(v, k) = RemoveAt(v, k)
  BY DEF Abstract!RemoveAt, RemoveAt
<1>12. Abstract!Removed(k)
  BY <1>10, <1>11 DEF Abstract!Removed
<1> QED BY <1>10, <1>12 DEF Abstract!Next

LEMMA Begins == ASSUME Init PROVE Abstract!Init
<1>1. IsList(peers, Start, <<>>) /\ DOMAIN peers \subseteq Addrs
  <2>1. Start = NULL /\ peers = <<>>
    BY DEF Init, Start
  <2>2. DOMAIN peers = {}
    <3>1. <<>> \in Seq({}) /\ Len(<<>>) = 0
      BY EmptySeq
    <3>2. DOMAIN <<>> = 1..0
      BY <3>1, LenProperties
    <3> QED BY <2>1, <3>2
  <2> QED BY <2>1, <2>2, NoCells
<1>2. Cells = <<>>
  BY <1>1, ChainIs DEF Cells
<1>3. IInv
  BY InitIInv
<1>4. Shown
  BY <1>3, ViewShown
<1>5. View \in Seq(Conns) /\ Len(View) = 0
  BY <1>2, <1>4, EmptySeq DEF Shown
<1> QED BY <1>5, EmptySeq DEF Abstract!Init

LEMMA NextImplements == IInv /\ IInv' /\ [Next]_vars => [Abstract!Next]_View
<1> SUFFICES ASSUME IInv, IInv', [Next]_vars PROVE Abstract!Next \/ View' = View
  OBVIOUS
<1>1. Shown
  BY ViewShown
<1>2. Shown'
  BY ViewShown, PTL
<1>3. CASE AddFd
  BY <1>1, <1>2, <1>3, Accepts
<1>4. CASE QueueReply
  BY <1>1, <1>2, <1>4, Queues
<1>5. CASE Keep
  BY <1>1, <1>2, <1>5, Keeps
<1>6. CASE RemovePeer
  BY <1>1, <1>2, <1>6, RemovePeerDoes, Removals
<1>7. CASE CleanupOne
  BY <1>1, <1>2, <1>7, CleanupOneDoes, Removals
<1>8. CASE WalkBegins
  <2>1. Cells' = Cells /\ UNCHANGED <<peers, streams>>
    BY <1>8 DEF WalkBegins, memory, Cells, Start
  <2> QED BY <2>1, ViewKept
<1>9. CASE WalkEnds \/ WalkBreaksOff \/ CleanupBegins \/ CleanupEnds
  <2>1. Cells' = Cells
    BY <1>9, WalkEndsDoes, CleanupBeginsDoes, CleanupEndsDoes
  <2>2. UNCHANGED <<peers, streams>>
    BY <1>9 DEF WalkEnds, WalkBreaksOff, CleanupBegins, CleanupEnds, memory
  <2> QED BY <2>1, <2>2, ViewKept
<1>10. CASE UNCHANGED vars
  <2>1. Cells' = Cells /\ UNCHANGED <<peers, streams>>
    BY <1>10 DEF vars, memory, walk, Cells, Start
  <2> QED BY <2>1, ViewKept
<1> QED BY <1>3, <1>4, <1>5, <1>6, <1>7, <1>8, <1>9, <1>10 DEF Next

(* The pointers amount to what PeerSeq promises: peers in the order they   *)
(* were accepted, each with its own replies in the order they were queued, *)
(* none lost, repeated or moved to another peer by a removal.              *)
THEOREM RefinesPeerSeq == Spec => ImplementsPeerSeq
<1>1. Init => Abstract!Init
  BY Begins
<1>2. IInv /\ IInv' /\ [Next]_vars => [Abstract!Next]_View
  BY NextImplements
<1> QED BY <1>1, <1>2, SpecIInv, PTL DEF Spec, ImplementsPeerSeq, Abstract!Spec
=============================================================================
