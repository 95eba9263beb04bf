---------------------------- MODULE HostLoopsProofs ----------------------------
(***************************************************************************)
(* Proofs about the two streams of HostLoops.  First the WebUSB packets,   *)
(* for every number of packets, of connections and of players, every       *)
(* length of the packets and every size of the buffers and of the          *)
(* transfers; then the serial commands, whatever is typed, for every size  *)
(* of the buffer of the parser and of what is read at once.                *)
(***************************************************************************)
EXTENDS HostLoops, FiniteSetTheorems, SequenceTheorems, NaturalsInduction,
        WellFoundedInduction, TLAPS

LEMMA CoresType == Core0 \in Cores /\ Core1 \in Cores /\ Core0 # Core1
BY DEF Cores, Core0, Core1

LEMMA LeastNumber ==
  ASSUME NEW T \in SUBSET Nat, T # {}
  PROVE  \E m \in T : \A k \in T : m <= k
<1>1. IsWellFoundedOn(OpToRel(<, Nat), Nat)
  BY NatLessThanWellFounded
<1>2. PICK m \in T : \A k \in T : ~ (<<k, m>> \in OpToRel(<, Nat))
  BY <1>1, WFMin
<1>3. ASSUME NEW k \in T PROVE m <= k
  <2>1. k \in Nat /\ m \in Nat /\ ~ (k < m)
    BY <1>2 DEF OpToRel
  <2> QED BY <2>1
<1> QED BY <1>3

LEMMA MinIs ==
  ASSUME NEW x \in Int, NEW y \in Int
  PROVE  Min({x, y}) \in {x, y} /\ Min({x, y}) <= x /\ Min({x, y}) <= y
<1>1. \E m \in {x, y} : \A z \in {x, y} : m <= z
  BY x <= y \/ y <= x
<1> QED BY <1>1 DEF Min

-----------------------------------------------------------------------------
(* Sequences of units *)

LEMMA RangeIs ==
  ASSUME NEW S, NEW s \in Seq(S)
  PROVE  /\ Range(s) \subseteq S
         /\ \A x : x \in Range(s) <=> \E i \in 1 .. Len(s) : s[i] = x
BY DEF Range

LEMMA RangeAppend ==
  ASSUME NEW S, NEW s \in Seq(S), NEW e \in S
  PROVE  Append(s, e) \in Seq(S) /\ Range(Append(s, e)) = Range(s) \cup {e}
<1>1. Append(s, e) \in Seq(S)
  OBVIOUS
<1>2. Len(Append(s, e)) = Len(s) + 1 /\ Len(s) \in Nat
  OBVIOUS
<1>3. /\ \A i \in 1 .. Len(s) : Append(s, e)[i] = s[i]
      /\ Append(s, e)[Len(s) + 1] = e
  BY AppendProperties
<1>4. ASSUME NEW x \in Range(Append(s, e)) PROVE x \in Range(s) \cup {e}
  <2>1. PICK i \in 1 .. Len(s) + 1 : Append(s, e)[i] = x
    BY <1>1, <1>2, RangeIs
  <2>2. CASE i \in 1 .. Len(s)
    BY <1>3, <2>1, <2>2, RangeIs
  <2>3. CASE i = Len(s) + 1
    BY <1>3, <2>1, <2>3
  <2> QED BY <1>2, <2>2, <2>3
<1>5. e \in Range(Append(s, e))
  <2>1. Len(s) + 1 \in 1 .. Len(Append(s, e))
    BY <1>2
  <2> QED BY <1>1, <1>3, <2>1, RangeIs
<1>6. ASSUME NEW x \in Range(s) PROVE x \in Range(Append(s, e))
  <2>1. PICK i \in 1 .. Len(s) : s[i] = x
    BY RangeIs
  <2>2. i \in 1 .. Len(Append(s, e)) /\ Append(s, e)[i] = x
    BY <1>2, <1>3, <2>1
  <2> QED BY <1>1, <2>2, RangeIs
<1> QED BY <1>1, <1>4, <1>5, <1>6

LEMMA ConcatIs ==
  ASSUME NEW S, NEW s \in Seq(S), NEW t \in Seq(S)
  PROVE  /\ s \o t \in Seq(S) /\ Len(s \o t) = Len(s) + Len(t)
         /\ Len(s) \in Nat /\ Len(t) \in Nat
         /\ \A i \in 1 .. Len(s) : (s \o t)[i] = s[i]
         /\ \A i \in 1 .. Len(t) : (s \o t)[Len(s) + i] = t[i]
<1>1. Len(s) \in Nat /\ Len(t) \in Nat
  BY LenProperties
<1>2. /\ s \o t \in Seq(S) /\ Len(s \o t) = Len(s) + Len(t)
      /\ \A i \in 1 .. Len(s) + Len(t) :
           (s \o t)[i] = IF i <= Len(s) THEN s[i] ELSE t[i - Len(s)]
  BY ConcatProperties
<1>3. ASSUME NEW i \in 1 .. Len(s) PROVE (s \o t)[i] = s[i]
  <2>1. i \in 1 .. Len(s) + Len(t) /\ i <= Len(s)
    BY <1>1
  <2> QED BY ONLY <1>2, <2>1
<1>4. ASSUME NEW i \in 1 .. Len(t) PROVE (s \o t)[Len(s) + i] = t[i]
  <2>1. /\ Len(s) + i \in 1 .. Len(s) + Len(t) /\ ~(Len(s) + i <= Len(s))
        /\ (Len(s) + i) - Len(s) = i
    BY <1>1
  <2> QED BY ONLY <1>2, <2>1
<1> QED BY <1>1, <1>2, <1>3, <1>4

LEMMA RangeTail ==
  ASSUME NEW S, NEW s \in Seq(S), s # <<>>
  PROVE  /\ Tail(s) \in Seq(S) /\ Head(s) \in S /\ Head(s) = s[1]
         /\ Len(s) \in Nat \ {0} /\ Len(Tail(s)) = Len(s) - 1
         /\ \A i \in 1 .. Len(s) - 1 : Tail(s)[i] = s[i + 1]
         /\ Range(s) = {Head(s)} \cup Range(Tail(s))
<1>1. /\ Tail(s) \in Seq(S) /\ Head(s) \in S /\ Head(s) = s[1]
      /\ Len(s) \in Nat \ {0} /\ Len(Tail(s)) = Len(s) - 1
      /\ \A i \in 1 .. Len(s) - 1 : Tail(s)[i] = s[i + 1]
  BY HeadTailProperties, EmptySeq
<1>0. DOMAIN Tail(s) = 1 .. Len(Tail(s))
  BY <1>1, LenProperties
<1>2. ASSUME NEW x \in Range(s) PROVE x \in {Head(s)} \cup Range(Tail(s))
  <2>1. PICK i \in 1 .. Len(s) : s[i] = x
    BY RangeIs
  <2>2. CASE i = 1
    BY <1>1, <2>1, <2>2
  <2>3. CASE i # 1
    <3>1. i - 1 \in 1 .. Len(s) - 1 /\ (i - 1) + 1 = i
      BY <1>1, <2>3
    <3>2. i - 1 \in DOMAIN Tail(s) /\ Tail(s)[i - 1] = x
      BY <1>0, <1>1, <2>1, <3>1
    <3> QED BY ONLY <3>2 DEF Range
  <2> QED BY <2>2, <2>3
<1>3. ASSUME NEW x \in Range(Tail(s)) PROVE x \in Range(s)
  <2>1. PICK i \in 1 .. Len(Tail(s)) : Tail(s)[i] = x
    BY ONLY <1>0, <1>3 DEF Range
  <2>2. i + 1 \in 1 .. Len(s) /\ s[i + 1] = x
    BY <1>1, <2>1
  <2> QED BY <2>2, RangeIs
<1>4. Head(s) \in Range(s)
  <2>1. 1 \in 1 .. Len(s)
    BY <1>1
  <2> QED BY <1>1, <2>1, RangeIs
<1> QED BY <1>1, <1>2, <1>3, <1>4

LEMMA RangeConcat ==
  ASSUME NEW S, NEW s \in Seq(S), NEW t \in Seq(S)
  PROVE  Range(s \o t) = Range(s) \cup Range(t)
<1>1. /\ s \o t \in Seq(S) /\ Len(s \o t) = Len(s) + Len(t)
      /\ Len(s) \in Nat /\ Len(t) \in Nat
      /\ \A i \in 1 .. Len(s) : (s \o t)[i] = s[i]
      /\ \A i \in 1 .. Len(t) : (s \o t)[Len(s) + i] = t[i]
  BY ConcatIs
<1>2. ASSUME NEW x \in Range(s \o t) PROVE x \in Range(s) \cup Range(t)
  <2>0. \E i \in 1 .. Len(s \o t) : (s \o t)[i] = x
    <3> DEFINE c == s \o t
    <3>1. c \in Seq(S) /\ x \in Range(c)
      BY <1>1, <1>2
    <3> HIDE DEF c
    <3>2. \E i \in 1 .. Len(c) : c[i] = x
      BY <3>1, RangeIs
    <3> QED BY <3>2 DEF c
  <2>1. PICK i \in 1 .. Len(s) + Len(t) : (s \o t)[i] = x
    BY <1>1, <2>0
  <2>2. CASE i \in 1 .. Len(s)
    BY <1>1, <2>1, <2>2, RangeIs
  <2>3. CASE i \notin 1 .. Len(s)
    <3>1. i - Len(s) \in 1 .. Len(t) /\ Len(s) + (i - Len(s)) = i
      BY <1>1, <2>3
    <3>2. t[i - Len(s)] = x
      BY <1>1, <2>1, <3>1
    <3> QED BY <3>1, <3>2, RangeIs
  <2> QED BY <2>2, <2>3
<1>3. ASSUME NEW x \in Range(s) PROVE x \in Range(s \o t)
  <2>1. PICK i \in 1 .. Len(s) : s[i] = x
    BY RangeIs
  <2>2. i \in 1 .. Len(s \o t) /\ (s \o t)[i] = x
    BY <1>1, <2>1
  <2> QED BY <1>1, <2>2, RangeIs
<1>4. ASSUME NEW x \in Range(t) PROVE x \in Range(s \o t)
  <2>1. PICK i \in 1 .. Len(t) : t[i] = x
    BY RangeIs
  <2>2. Len(s) + i \in 1 .. Len(s \o t) /\ (s \o t)[Len(s) + i] = x
    BY <1>1, <2>1
  <2> QED BY <1>1, <2>2, RangeIs
<1> QED BY <1>2, <1>3, <1>4

-----------------------------------------------------------------------------
(* The stream *)

LEMMA PacketsType ==
  ASSUME environment \in Environments
  PROVE  /\ Packets \subseteq Nat \ {0}
         /\ \A p \in Packets :
              /\ environment.packets[p].units \in Nat \ {0}
              /\ environment.packets[p].command.family
                   \in {"flycast", "maple", "system", "settings"}
         /\ environment.nodes \subseteq Players /\ environment.available \subseteq environment.nodes
BY PacketsAssumption DEF Packets

LEMMA StreamIs ==
  ASSUME environment \in Environments, NEW p \in Packets
  PROVE  /\ Stream(p) \in Seq(Units)
         /\ Len(Stream(p)) = 3 + environment.packets[p].units
         /\ Stream(p)[1] = Unit("magic1", p, 0) /\ Stream(p)[2] = Unit("magic2", p, 0)
         /\ Stream(p)[3] = Unit("size", p, 0)
         /\ \A n \in 1 .. environment.packets[p].units : Stream(p)[3 + n] = Unit("body", p, n)
         /\ Body(p) \in Seq(Units) /\ Len(Body(p)) = environment.packets[p].units
         /\ \A n \in 1 .. environment.packets[p].units : Body(p)[n] = Unit("body", p, n)
<1> DEFINE units == environment.packets[p].units
           head == <<Unit("magic1", p, 0), Unit("magic2", p, 0), Unit("size", p, 0)>>
<1>1. units \in Nat \ {0}
  BY PacketsType
<1>2. \A n \in Nat : Unit("body", p, n) \in Units
  BY DEF Unit, Units
<1>3. Body(p) \in [1 .. units -> Units] /\ \A n \in 1 .. units : Body(p)[n] = Unit("body", p, n)
  <2>1. Body(p) = [at \in 1 .. units |-> Unit("body", p, at)]
    BY DEF Body
  <2>2. \A at \in 1 .. units : at \in Nat
    BY <1>1
  <2> HIDE DEF units
  <2> QED BY <1>2, <2>1, <2>2
<1>4. Body(p) \in Seq(Units) /\ Len(Body(p)) = units
  BY <1>1, <1>3
<1>5. head \in Seq(Units) /\ Len(head) = 3
  BY DEF Unit, Units
<1>6. /\ head[1] = Unit("magic1", p, 0) /\ head[2] = Unit("magic2", p, 0)
      /\ head[3] = Unit("size", p, 0)
  OBVIOUS
<1>7. Stream(p) = head \o Body(p)
  BY DEF Stream
<1> HIDE DEF head, units
<1>8. /\ head \o Body(p) \in Seq(Units) /\ Len(head \o Body(p)) = 3 + units
      /\ \A n \in 1 .. 3 : (head \o Body(p))[n] = head[n]
      /\ \A n \in 1 .. units : (head \o Body(p))[3 + n] = Body(p)[n]
  <2>1. Body(p) \in Seq(Units) /\ head \in Seq(Units)
    BY <1>4, <1>5
  <2>2. /\ head \o Body(p) \in Seq(Units) /\ Len(head \o Body(p)) = Len(head) + Len(Body(p))
        /\ \A n \in 1 .. Len(head) : (head \o Body(p))[n] = head[n]
        /\ \A n \in 1 .. Len(Body(p)) : (head \o Body(p))[Len(head) + n] = Body(p)[n]
    BY ONLY <2>1, ConcatIs
  <2> QED BY ONLY <1>4, <1>5, <2>2
<1>9. \A n \in 1 .. 3 : Stream(p)[n] = head[n]
  BY <1>7, <1>8
<1>10. /\ Stream(p)[1] = head[1] /\ Stream(p)[2] = head[2] /\ Stream(p)[3] = head[3]
       /\ \A n \in 1 .. units : Stream(p)[3 + n] = Body(p)[n]
  <2>1. 1 \in 1 .. 3 /\ 2 \in 1 .. 3 /\ 3 \in 1 .. 3
    OBVIOUS
  <2>2. Stream(p)[1] = head[1] /\ Stream(p)[2] = head[2] /\ Stream(p)[3] = head[3]
    BY ONLY <1>9, <2>1
  <2>3. \A n \in 1 .. units : Stream(p)[3 + n] = Body(p)[n]
    BY ONLY <1>7, <1>8
  <2> QED BY ONLY <2>2, <2>3
<1>11. /\ Stream(p) \in Seq(Units) /\ Len(Stream(p)) = 3 + units
       /\ \A n \in 1 .. units : Stream(p)[3 + n] = Unit("body", p, n)
  BY ONLY <1>3, <1>7, <1>8, <1>10
<1> QED BY ONLY <1>3, <1>4, <1>6, <1>10, <1>11 DEF units

\* The n-th unit of a stream has rank n, and ranks tell the units of a packet apart.
LEMMA StreamRanks ==
  ASSUME environment \in Environments, NEW p \in Packets, NEW n \in 1 .. Len(Stream(p))
  PROVE  /\ Stream(p)[n].packet = p /\ Rank(Stream(p)[n]) = n
         /\ IsUnit(Stream(p)[n]) /\ Stream(p)[n] \in Units
<1>0. environment.packets[p].units \in Nat \ {0} /\ Len(Stream(p)) = 3 + environment.packets[p].units
  BY PacketsType, StreamIs
<1>1. CASE n \in 1 .. 3
  <2>1. /\ Stream(p)[1] = Unit("magic1", p, 0) /\ Stream(p)[2] = Unit("magic2", p, 0)
        /\ Stream(p)[3] = Unit("size", p, 0)
    BY StreamIs
  <2>2. n = 1 \/ n = 2 \/ n = 3
    BY <1>1
  <2> QED BY <2>1, <2>2 DEF Unit, Rank, IsUnit, Units
<1>2. CASE n > 3
  <2>1. n - 3 \in 1 .. environment.packets[p].units /\ 3 + (n - 3) = n /\ n - 3 \in Nat
    BY <1>0, <1>2
  <2>2. Stream(p)[n] = Unit("body", p, n - 3)
    BY <2>1, StreamIs
  <2>3. Stream(p)[n].packet = p /\ Stream(p)[n] \in Units
    BY <2>1, <2>2 DEF Unit, Units
  <2>4. Rank(Stream(p)[n]) = 3 + (n - 3)
    BY <2>2 DEF Unit, Rank
  <2> QED BY <2>1, <2>3, <2>4 DEF IsUnit
<1> QED BY <1>0, <1>1, <1>2

LEMMA UnitIs ==
  ASSUME environment \in Environments, NEW u, IsUnit(u)
  PROVE  /\ u.packet \in Packets /\ u.packet \in Nat \ {0} /\ u \in Units
         /\ Rank(u) \in 1 .. Len(Stream(u.packet)) /\ Rank(u) \in Nat
         /\ u = Stream(u.packet)[Rank(u)]
<1>0. PICK p \in Packets : \E n \in 1 .. Len(Stream(p)) : u = Stream(p)[n]
  BY DEF IsUnit
<1>1. PICK n \in 1 .. Len(Stream(p)) : u = Stream(p)[n]
  BY <1>0
<1>2. u.packet = p /\ Rank(u) = n /\ u \in Units
  BY <1>1, StreamRanks
<1> QED BY <1>1, <1>2, PacketsType

LEMMA SortedConcat ==
  ASSUME NEW s \in Seq(Units), NEW t \in Seq(Units), Sorted(s), Sorted(t),
         \A u \in Range(s), v \in Range(t) : Before(u, v)
  PROVE  Sorted(s \o t)
<1>1. /\ s \o t \in Seq(Units) /\ Len(s \o t) = Len(s) + Len(t)
      /\ Len(s) \in Nat /\ Len(t) \in Nat
      /\ \A i \in 1 .. Len(s) : (s \o t)[i] = s[i]
      /\ \A i \in 1 .. Len(t) : (s \o t)[Len(s) + i] = t[i]
  BY ConcatIs
<1>2. DOMAIN s = 1 .. Len(s) /\ DOMAIN t = 1 .. Len(t) /\ DOMAIN (s \o t) = 1 .. Len(s) + Len(t)
  BY <1>1, LenProperties
<1>3. SUFFICES ASSUME NEW i \in 1 .. Len(s) + Len(t), NEW j \in 1 .. Len(s) + Len(t), i < j
               PROVE  Before((s \o t)[i], (s \o t)[j])
  BY <1>2 DEF Sorted
<1>4. ASSUME NEW k \in 1 .. Len(s) + Len(t), k \notin 1 .. Len(s)
      PROVE  k - Len(s) \in 1 .. Len(t) /\ (s \o t)[k] = t[k - Len(s)]
  <2>1. k - Len(s) \in 1 .. Len(t) /\ Len(s) + (k - Len(s)) = k
    BY <1>1, <1>4
  <2> QED BY <1>1, <2>1
<1>5. CASE j \in 1 .. Len(s)
  <2>1. i \in 1 .. Len(s)
    BY <1>1, <1>3, <1>5
  <2> QED BY <1>1, <1>2, <1>3, <1>5, <2>1 DEF Sorted
<1>6. CASE i \in 1 .. Len(s) /\ j \notin 1 .. Len(s)
  BY <1>1, <1>4, <1>6, RangeIs
<1>7. CASE i \notin 1 .. Len(s) /\ j \notin 1 .. Len(s)
  <2>1. i - Len(s) < j - Len(s)
    BY <1>1, <1>3
  <2> QED BY <1>2, <1>4, <1>7, <2>1 DEF Sorted
<1> QED BY <1>5, <1>6, <1>7

\* A piece of the stream of a packet.
LEMMA PieceIs ==
  ASSUME environment \in Environments, NEW p \in Packets, NEW sent \in Nat, NEW kept \in Nat,
         sent + kept <= Len(Stream(p))
  PROVE  LET piece == SubSeq(Stream(p), sent + 1, sent + kept) IN
         /\ piece \in Seq(Units) /\ Len(piece) = kept
         /\ Sorted(piece)
         /\ \A u \in Range(piece) :
              IsUnit(u) /\ u.packet = p /\ sent < Rank(u) /\ Rank(u) <= sent + kept
         /\ \A k \in sent + 1 .. sent + kept : Stream(p)[k] \in Range(piece)
<1> DEFINE piece == SubSeq(Stream(p), sent + 1, sent + kept)
<1>1. Len(Stream(p)) \in Nat
  BY StreamIs, PacketsType
<1>2. \A i \in 1 .. Len(Stream(p)) :
        /\ Stream(p)[i].packet = p /\ Rank(Stream(p)[i]) = i
        /\ IsUnit(Stream(p)[i]) /\ Stream(p)[i] \in Units
  BY StreamRanks
<1>3. /\ piece \in Seq(Units) /\ Len(piece) = kept
      /\ \A i \in 1 .. kept : piece[i] = Stream(p)[sent + i]
  <2>1. \A i \in sent + 1 .. sent + kept : Stream(p)[i] \in Units
    BY <1>1, <1>2
  <2>2. /\ piece \in Seq(Units)
        /\ Len(piece) = IF sent + 1 <= sent + kept THEN (sent + kept) - (sent + 1) + 1 ELSE 0
        /\ \A i \in 1 .. (sent + kept) - (sent + 1) + 1 : piece[i] = Stream(p)[(sent + 1) + i - 1]
    BY <2>1, SubSeqProperties
  <2>3. (sent + kept) - (sent + 1) + 1 = kept
    OBVIOUS
  <2>4. \A i \in 1 .. kept : (sent + 1) + i - 1 = sent + i
    OBVIOUS
  <2> HIDE DEF piece
  <2> QED BY <2>2, <2>3, <2>4
<1> HIDE DEF piece
<1>4. ASSUME NEW i \in 1 .. kept
      PROVE  /\ piece[i].packet = p /\ Rank(piece[i]) = sent + i /\ IsUnit(piece[i])
  <2>1. sent + i \in 1 .. Len(Stream(p))
    BY <1>1
  <2> QED BY <1>2, <1>3, <2>1
<1>5. DOMAIN piece = 1 .. kept
  BY <1>3, LenProperties
<1>6. Sorted(piece)
  BY <1>4, <1>5 DEF Sorted, Before
<1>7. ASSUME NEW u \in Range(piece)
      PROVE  IsUnit(u) /\ u.packet = p /\ sent < Rank(u) /\ Rank(u) <= sent + kept
  <2>1. PICK i \in 1 .. kept : piece[i] = u
    BY <1>3, RangeIs
  <2> QED BY <1>4, <2>1
<1>8. ASSUME NEW k \in sent + 1 .. sent + kept PROVE Stream(p)[k] \in Range(piece)
  <2>1. k - sent \in 1 .. kept /\ sent + (k - sent) = k
    OBVIOUS
  <2>2. k - sent \in DOMAIN piece /\ piece[k - sent] = Stream(p)[k]
    BY <1>3, <1>5, <2>1
  <2> QED BY <2>2 DEF Range
<1> QED BY <1>3, <1>6, <1>7, <1>8 DEF piece

-----------------------------------------------------------------------------
(* What commands send *)

LEMMA FiniteBounded ==
  ASSUME NEW S \in SUBSET Nat, IsFiniteSet(S)
  PROVE  \E bound \in Nat : \A i \in S : i < bound
<1>1. PICK n \in Nat : ExistsBijection(1 .. n, S)
  BY FS_NatBijection
<1>2. PICK f : f \in [1 .. n -> S] /\ \A i \in S : \E x \in 1 .. n : f[x] = i
  BY <1>1 DEF ExistsBijection, Bijection, Surjection
<1> DEFINE Bounded(m) == \E bound \in Nat : \A x \in 1 .. m : f[x] < bound
           T == {m \in 0 .. n : ~Bounded(m)}
<1>3. T = {}
  <2> SUFFICES ASSUME T # {} PROVE FALSE
    OBVIOUS
  <2>1. PICK m \in T : \A k \in T : m <= k
    <3>1. T \in SUBSET Nat
      OBVIOUS
    <3> HIDE DEF T
    <3> QED BY <3>1, LeastNumber
  <2>2. m # 0
    <3>1. \A x \in 1 .. 0 : f[x] < 0
      OBVIOUS
    <3>2. Bounded(0)
      BY <3>1
    <3>3. ~Bounded(m)
      BY <2>1
    <3> HIDE DEF Bounded
    <3> QED BY <3>2, <3>3
  <2>3. m \in 1 .. n /\ m - 1 \in 0 .. n /\ m - 1 \notin T
    <3>1. m \in 0 .. n /\ n \in Nat /\ \A k \in T : m <= k
      BY <2>1
    <3> HIDE DEF T
    <3>2. m \in 1 .. n /\ m - 1 \in 0 .. n /\ ~ (m <= m - 1)
      BY <2>2, <3>1
    <3> QED BY <3>1, <3>2
  <2>4. PICK b \in Nat : \A x \in 1 .. m - 1 : f[x] < b
    <3>1. Bounded(m - 1)
      BY <2>3
    <3> QED BY <3>1
  <2>5. f[m] \in Nat /\ \A x \in 1 .. m - 1 : f[x] \in Nat
    <3>1. S \subseteq Nat /\ m \in 1 .. n /\ f \in [1 .. n -> S] /\ n \in Nat
      BY <1>2, <2>3
    <3>2. \A x \in 1 .. m - 1 : x \in 1 .. n
      BY ONLY <3>1
    <3>3. \A x \in 1 .. n : f[x] \in Nat
      BY ONLY <3>1
    <3> QED BY ONLY <3>1, <3>2, <3>3
  <2>6. \A x \in 1 .. m : f[x] < b + f[m] + 1
    <3> TAKE x \in 1 .. m
    <3>1. CASE x = m
      BY <2>4, <2>5, <3>1
    <3>2. CASE x \in 1 .. m - 1
      BY <2>4, <2>5, <3>2
    <3> QED BY <2>3, <3>1, <3>2
  <2>7. b + f[m] + 1 \in Nat
    BY <2>4, <2>5
  <2>8. Bounded(m)
    BY <2>6, <2>7
  <2> QED BY <2>8
<1>4. Bounded(n)
  <2>1. n \in 0 .. n
    BY <1>1
  <2> HIDE DEF Bounded
  <2> QED BY <1>3, <2>1
<1>5. PICK bound \in Nat : \A x \in 1 .. n : f[x] < bound
  BY <1>4
<1> QED BY <1>2, <1>5

LEMMA MaxIs ==
  ASSUME NEW S \in SUBSET Nat, IsFiniteSet(S), S # {}
  PROVE  Max(S) \in S
<1> DEFINE T == {b \in Nat : \A i \in S : i <= b}
<1>1. T # {}
  <2>1. PICK bound \in Nat : \A i \in S : i < bound
    BY FiniteBounded
  <2>2. \A i \in S : i <= bound
    BY <2>1
  <2> QED BY <2>1, <2>2
<1>2. PICK m \in T : \A k \in T : m <= k
  <2>1. T \in SUBSET Nat
    OBVIOUS
  <2> HIDE DEF T
  <2> QED BY <1>1, <2>1, LeastNumber
<1>3. m \in Nat /\ \A i \in S : i <= m
  BY <1>2
<1>4. m \in S
  <2> SUFFICES ASSUME m \notin S PROVE FALSE
    OBVIOUS
  <2>1. \A i \in S : i < m /\ i \in Nat
    BY <1>3
  <2>2. m - 1 \in Nat
    <3>1. PICK i : i \in S
      OBVIOUS
    <3>2. m \in Nat /\ i \in Nat /\ i < m
      BY <1>3, <2>1, <3>1
    <3> QED BY ONLY <3>2
  <2>3. \A i \in S : i <= m - 1
    BY <1>3, <2>1
  <2>4. m - 1 \in T
    BY <2>2, <2>3
  <2>5. m <= m - 1
    BY <1>2, <2>4
  <2> QED BY <1>3, <2>5
<1>5. \A i \in S : m >= i
  BY <1>3
<1> QED BY <1>4, <1>5 DEF Max

\* Nobody is asked, and the answer comes at once.
AtOnce(done) == done.sends = {} /\ done.answer \in Answers \ {"later"}

\* One of these at most is asked, and answers later; or nobody is.
Asks(done, nodes) ==
  /\ done.sends \subseteq nodes /\ done.answer \in Answers
  /\ done.answer # "later" => done.sends = {}
  /\ \A x, y \in done.sends : x = y

LEMMA PlayersOfHost ==
  ASSUME environment \in Environments
  PROVE  /\ IsFiniteSet(environment.available) /\ environment.available \in SUBSET Nat
         /\ Cardinality(environment.available) \in Nat
<1>1. environment.available \subseteq Players
  BY PacketsType
<1> QED BY <1>1, PlayersAssumption, FS_Subset, FS_CardinalityType

LEMMA Addressed ==
  ASSUME environment \in Environments, NEW sender
  PROVE  LET to == ByAddress(sender, environment.available)
         IN  to \subseteq environment.available /\ \A x, y \in to : x = y
<1>1. CASE Cardinality(environment.available) = 1
  <2>1. \E x : environment.available = {x}
    BY <1>1, PlayersOfHost, FS_Singleton
  <2> QED BY <1>1, <2>1 DEF ByAddress
<1>2. CASE Cardinality(environment.available) # 1
  BY <1>2 DEF ByAddress
<1> QED BY <1>1, <1>2

LEMMA AddressedOrLast ==
  ASSUME environment \in Environments, NEW sender
  PROVE  LET to == ByAddressOrLast(sender, environment.nodes, environment.available)
         IN  to \subseteq environment.available /\ \A x, y \in to : x = y
<1>1. CASE Cardinality(environment.available) > 1 /\ sender \notin environment.nodes
  <2>1. environment.available # {}
    BY <1>1, FS_EmptySet
  <2>2. Max(environment.available) \in environment.available
    BY <2>1, PlayersOfHost, MaxIs
  <2>3. ByAddressOrLast(sender, environment.nodes, environment.available)
          = {Max(environment.available)}
    BY <1>1 DEF ByAddressOrLast
  <2> QED BY ONLY <2>2, <2>3
<1>2. CASE ~(Cardinality(environment.available) > 1 /\ sender \notin environment.nodes)
  BY <1>2, Addressed DEF ByAddressOrLast
<1> QED BY <1>1, <1>2

LEMMA NothingIs ==
  /\ AtOnce(Nothing)
  /\ \A a \in Answers : Answer(a).sends = {} /\ Answer(a).answer = a
  /\ \A b : AtOnce(AnswerIf(b))
BY DEF AtOnce, Nothing, Answer, AnswerIf, Answers

LEMMA PassedOn ==
  ASSUME NEW command, NEW to, NEW nodes, to \subseteq nodes, \A x, y \in to : x = y
  PROVE  Asks(PassOn(command, to), nodes) /\ Asks(SendsPacket(command, to), nodes)
<1>1. Asks(PassOn(command, to), nodes)
  BY DEF Asks, PassOn, Answer, Nothing, Answers
<1>2. /\ SendsPacket(command, to).sends = PassOn(command, to).sends
      /\ SendsPacket(command, to).answer = PassOn(command, to).answer
  BY DEF SendsPacket, PassOn, Answer, Nothing
<1> QED BY <1>1, <1>2 DEF Asks

LEMMA PicturesAtOnce ==
  ASSUME NEW command, NEW one, NEW nodes
  PROVE  /\ AtOnce(DefaultPictures(command, one, nodes)) /\ AtOnce(OtherPicture(command, one))
         /\ AtOnce(FlycastTtyRefresh(command, one)) /\ AtOnce(FlycastWebRefresh(command, one))
BY DEF AtOnce, DefaultPictures, OtherPicture, FlycastTtyRefresh, FlycastWebRefresh, AnswerIf, Answer,
       Nothing, Answers

LEMMA OutcomeWebIs ==
  ASSUME environment \in Environments, NEW command, NEW valid \in BOOLEAN,
         command.family \in {"flycast", "maple", "system", "settings"}
  PROVE  Asks(OutcomeWeb(command, environment.nodes, environment.available, valid),
              environment.available)
<1> DEFINE nodes == environment.nodes
           available == environment.available
<1>1. \A done : AtOnce(done) => Asks(done, available)
  BY DEF AtOnce, Asks
<1>2. AtOnce(Answer("invalid")) /\ AtOnce(Answer("success")) /\ AtOnce(Answer("attention"))
  BY NothingIs DEF AtOnce, Answers
<1>3. AtOnce(Settings(command, valid))
  BY <1>2, NothingIs DEF Settings
<1>4. AtOnce(SystemWeb(command, nodes))
  BY <1>2, NothingIs DEF SystemWeb
<1>5. Asks(MapleWeb(command, nodes, available), available)
  BY AddressedOrLast, PassedOn DEF MapleWeb
<1>6. Asks(FlycastWeb(command, nodes, available), available)
  <2> DEFINE one == Node(command.player, nodes)
  <2>1. Asks(SendsPacket(command, ByAddressOrLast(command.player, nodes, available)), available)
    BY AddressedOrLast, PassedOn
  <2>2. CASE command.kind \in {"S", "V", "O", "?", "R"}
    <3>1. AtOnce(FlycastWebQuery(command, one))
      BY <1>2, <2>2, NothingIs DEF FlycastWebQuery
    <3> HIDE DEF one
    <3> QED BY <1>1, <2>2, <3>1 DEF FlycastWeb, one
  <2>3. CASE command.kind \notin {"S", "V", "O", "?", "R"}
    BY <1>1, <1>2, <2>1, <2>3, PicturesAtOnce DEF FlycastWeb
  <2> QED BY <2>2, <2>3
<1>7. OutcomeWeb(command, nodes, available, valid)
        \in {Answer("invalid"), Settings(command, valid), SystemWeb(command, nodes),
             MapleWeb(command, nodes, available), FlycastWeb(command, nodes, available)}
  BY DEF OutcomeWeb
<1> HIDE DEF nodes, available
<1> QED BY <1>1, <1>2, <1>3, <1>4, <1>5, <1>6, <1>7 DEF nodes, available

LEMMA OutcomeTtyIs ==
  ASSUME environment \in Environments, NEW command,
         command.family \in {"flycast", "maple", "system"}
  PROVE  OutcomeTty(command, environment.nodes, environment.available).sends
           \subseteq environment.available
<1> DEFINE nodes == environment.nodes
           available == environment.available
<1>1. AtOnce(Answer("invalid")) /\ AtOnce(Answer("failure"))
  BY NothingIs DEF AtOnce, Answers
<1>2. AtOnce(SystemTty(command, nodes))
  BY <1>1, NothingIs DEF SystemTty
<1>3. Asks(MapleTty(command, nodes, available), available)
  BY AddressedOrLast, PassedOn DEF MapleTty
<1>4. FlycastTty(command, nodes, available).sends \subseteq available
  <2> DEFINE one == getNode(command.player, nodes, available)
  <2>1. Asks(SendsPacket(command, ByAddress(command.player, available)), available)
    BY Addressed, PassedOn
  <2>2. CASE command.kind \in {"S", "V", "O", "?", "H", "R"}
    <3>1. AtOnce(FlycastTtyQuery(command, one))
      BY <1>1, <2>2, NothingIs DEF FlycastTtyQuery
    <3> HIDE DEF one
    <3> QED BY <2>2, <3>1 DEF FlycastTty, one, AtOnce
  <2>3. CASE command.kind \notin {"S", "V", "O", "?", "H", "R"}
    BY <1>1, <2>1, <2>3, PicturesAtOnce DEF FlycastTty, AtOnce, Asks
  <2> QED BY <2>2, <2>3
<1>5. OutcomeTty(command, nodes, available)
        \in {SystemTty(command, nodes), MapleTty(command, nodes, available),
             FlycastTty(command, nodes, available)}
  BY DEF OutcomeTty
<1> HIDE DEF nodes, available
<1> QED BY <1>2, <1>3, <1>4, <1>5 DEF nodes, available, AtOnce, Asks

-----------------------------------------------------------------------------
(* What a step leaves alone *)

LEMMA StepIs ==
  ASSUME pc \in [Cores -> Places], NEW c \in Cores, NEW from, NEW to \in Places, Step(c, from, to)
  PROVE  /\ pc' \in [Cores -> Places] /\ pc[c] = from /\ pc'[c] = to
         /\ \A d \in Cores \ {c} : pc'[d] = pc[d]
BY DEF Step, At, Goes

LEMMA GoesIs ==
  ASSUME pc \in [Cores -> Places], NEW c \in Cores, NEW to \in Places, Goes(c, to)
  PROVE  /\ pc' \in [Cores -> Places] /\ pc'[c] = to
         /\ \A d \in Cores \ {c} : pc'[d] = pc[d]
BY DEF Goes

LEMMA EnvironmentKeeps ==
  ASSUME environment' = environment
  PROVE  /\ Packets' = Packets /\ Units' = Units
         /\ \A p : Stream(p)' = Stream(p)
         /\ \A u : IsUnit(u)' <=> IsUnit(u)
BY DEF Packets, Units, Stream, Body, IsUnit

LEMMA LinkKeeps ==
  ASSUME environment' = environment, link' = link
  PROVE  /\ LinkFits => LinkFits'
         /\ AnswersFresh => AnswersFresh'
         /\ \A p : (Current(p)' <=> Current(p)) /\ (Ours(p)' <=> Ours(p)) /\ (Executed(p)' <=> Executed(p))
         /\ \A p : Delivered(p)' <=> Delivered(p)
<1>1. Packets' = Packets /\ \A p : Stream(p)' = Stream(p)
  BY EnvironmentKeeps
<1>2. \A p : (Current(p)' <=> Current(p)) /\ (Ours(p)' <=> Ours(p))
  BY DEF Current, Ours, MayAnswer
<1>3. \A p : (Executed(p)' <=> Executed(p)) /\ (Delivered(p)' <=> Delivered(p))
  BY DEF Executed, Delivered
<1>4. LinkFits => LinkFits'
  BY <1>1, <1>2 DEF LinkFits, LinkType
<1>5. AnswersFresh => AnswersFresh'
  BY <1>3 DEF AnswersFresh, MayAnswer
<1> QED BY <1>2, <1>3, <1>4, <1>5

\* Units that were kept before, in the order they were in, and what has been executed
\* since came before them.
LEMMA UnitsKeepAlso ==
  ASSUME environment' = environment, link' = link, UnitsFit, Kept' \subseteq Kept,
         \A p \in Done', u \in Kept' : p \in Done \/ p < u.packet,
         rest' \in Seq(Units), incoming' \in Seq(Units), Sorted(rest)', Sorted(incoming)',
         \A u \in Range(parser'.body), v \in Pending' : Before(u, v),
         \A u \in Range(rest'), v \in Range(incoming') : Before(u, v)
  PROVE  UnitsFit'
<1>1. Units' = Units /\ \A u : IsUnit(u)' <=> IsUnit(u)
  BY EnvironmentKeeps
<1>2. \A p : (Current(p)' <=> Current(p)) /\ (Ours(p)' <=> Ours(p))
  BY LinkKeeps
<1>3. \A u, v : Before(u, v)' <=> Before(u, v)
  BY DEF Before, Rank
<1>4. \A u : Rank(u)' = Rank(u)
  BY DEF Rank
<1>5. ASSUME NEW u \in Kept'
      PROVE  /\ IsUnit(u)' /\ Ours(u.packet)' /\ (link'.fresh => Current(u.packet)')
             /\ u.packet <= link'.next /\ (u.packet = link'.next => Rank(u)' <= link'.sent)
             /\ \A p \in Done' : p < u.packet
  <2>1. /\ IsUnit(u) /\ Ours(u.packet) /\ (link.fresh => Current(u.packet))
        /\ u.packet <= link.next /\ (u.packet = link.next => Rank(u) <= link.sent)
        /\ \A p \in Done : p < u.packet
    BY <1>5 DEF UnitsFit
  <2> QED BY <1>1, <1>2, <1>4, <2>1
<1> QED BY <1>1, <1>3, <1>5 DEF UnitsFit

LEMMA UnitsKeep ==
  ASSUME environment' = environment, link' = link, UnitsFit, Kept' \subseteq Kept, Done' \subseteq Done,
         rest' \in Seq(Units), incoming' \in Seq(Units), Sorted(rest)', Sorted(incoming)',
         \A u \in Range(parser'.body), v \in Pending' : Before(u, v),
         \A u \in Range(rest'), v \in Range(incoming') : Before(u, v)
  PROVE  UnitsFit'
BY UnitsKeepAlso

LEMMA UnitsSame ==
  ASSUME UNCHANGED <<environment, link, parser, rest, incoming>>, UnitsFit, Done' \subseteq Done
  PROVE  UnitsFit'
<1>1. Kept' = Kept /\ Pending' = Pending
  BY DEF Kept, Pending
<1>3. \A u, v : Before(u, v)' <=> Before(u, v)
  BY DEF Before, Rank
<1>2. Sorted(rest)' /\ Sorted(incoming)'
  BY <1>3 DEF UnitsFit, Sorted
<1> QED BY <1>1, <1>2, UnitsKeep DEF UnitsFit

LEMMA AnswersKeep ==
  ASSUME UNCHANGED <<environment, link, outgoing, writing>>, AnswersFit, onBus' \subseteq onBus,
         Len(incoming') <= MaxIncoming
  PROVE  AnswersFit'
<1>1. Packets' = Packets
  BY EnvironmentKeeps
<1>2. \A p : /\ (Current(p)' <=> Current(p)) /\ (Ours(p)' <=> Ours(p)) /\ (Executed(p)' <=> Executed(p))
             /\ (Delivered(p)' <=> Delivered(p))
  BY LinkKeeps
<1>3. \A p : (Queueing(p)' <=> Queueing(p)) /\ (Writing(p)' <=> Writing(p)) /\ (OnBus(p)' => OnBus(p))
  BY DEF Queueing, Writing, OnBus
<1> QED BY <1>1, <1>2, <1>3 DEF AnswersFit

\* Core 1 goes on outside of what it does with packets.
Parsing == {"parse", "execute", "executed"}

LEMMA ElsewhereKeeps ==
  ASSUME WebInv, UNCHANGED <<environment, webVars>>, pc' \in [Cores -> Places],
         pc'[Core1] = pc[Core1] \/ (pc[Core1] \notin Parsing /\ pc'[Core1] \notin Parsing)
  PROVE  WebInv'
<1>1. LinkFits' /\ AnswersFresh'
  BY LinkKeeps DEF WebInv, webVars
<1>2. ParserFits'
  BY EnvironmentKeeps DEF WebInv, ParserFits, webVars
<1>3. Done' = Done
  BY DEF Done, webVars
<1>4. UnitsFit'
  BY <1>3, UnitsSame DEF WebInv, webVars
<1>5. AnswersFit'
  BY AnswersKeep DEF WebInv, AnswersFit, webVars
<1>6. ExecutedFits'
  <2>1. Packets' = Packets /\ \A p : (Current(p)' <=> Current(p)) /\ (Ours(p)' <=> Ours(p)) /\ (Executed(p)' <=> Executed(p))
    BY EnvironmentKeeps, LinkKeeps DEF webVars
  <2> QED BY <1>3, <2>1 DEF WebInv, ExecutedFits, Parsing, At, webVars
<1> QED BY <1>1, <1>2, <1>4, <1>5, <1>6 DEF WebInv

-----------------------------------------------------------------------------
(* The first state, and the steps of the serial stream *)

LEMMA WebStart == ASSUME LoopsInit PROVE WebInv
<1>1. pc \in [Cores -> Places] /\ environment \in Environments
  BY DEF LoopsInit, Places
<1> USE DEF LoopsInit, WebInit, StartOver, NoPacket
<1>2. LinkFits
  BY DEF LinkFits, LinkType
<1>3. ParserFits
  BY DEF ParserFits
<1>4. Range(parser.body) = {} /\ Pending = {} /\ Kept = {} /\ Done = {}
  BY DEF Range, Pending, Kept, Done
<1>5. UnitsFit
  BY <1>4 DEF UnitsFit, Sorted, Range
<1>6. ExecutedFits
  BY <1>4, CoresType DEF ExecutedFits, At
<1>7. AnswersFit
  BY WebUsbAssumption DEF AnswersFit, Queueing, Writing, Delivered, OnBus
<1>8. AnswersFresh
  BY DEF AnswersFresh
<1> QED BY <1>1, <1>2, <1>3, <1>5, <1>6, <1>7, <1>8 DEF WebInv

\* Where a core goes when it serves the serial port.
LEMMA SerialSteps ==
  ASSUME pc \in [Cores -> Places], SerialStep
  PROVE  /\ pc' \in [Cores -> Places]
         /\ pc'[Core1] = pc[Core1] \/ (pc[Core1] \notin Parsing /\ pc'[Core1] \notin Parsing)
<1> USE CoresType
<1>1. CASE SerialCore0
  <2>1. \/ \E from : Step(Core0, from, "echoing") \/ Step(Core0, from, "add")
                       \/ Step(Core0, from, "reporting") \/ Step(Core0, from, "idle")
        \/ Goes(Core0, "report") \/ Goes(Core0, "idle")
    BY <1>1 DEF SerialCore0, EchoBegins, EchoEnds, Add, ReportBegins, ReportEnds, NestedReset
  <2> QED BY <2>1 DEF Step, Goes, Places
<1>2. CASE SerialCore1
  <2>1. pc[Core1] \notin Parsing
    BY <1>2 DEF SerialCore1, SeesCommand, Take, HandlerPrints, Step, At, Parsing
  <2>2. Goes(Core1, "take") \/ Goes(Core1, "handle") \/ Goes(Core1, "idle") \/ Goes(Core1, "printing")
    BY <1>2 DEF SerialCore1, SeesCommand, Take, HandlerPrints, Step
  <2> QED BY <2>1, <2>2 DEF Parsing, Goes, Places
<1>3. CASE Read
  <2>1. Goes(Core0, "echo") \/ Goes(Core0, "add")
    BY <1>3 DEF Read
  <2> QED BY <2>1 DEF Goes, Places
<1>4. CASE ResetRequest \/ ResetUnderHandler
  BY <1>4 DEF ResetRequest, ResetUnderHandler
<1>5. CASE NestedRequest
  <2>1. Step(Core0, "echoing", "resetting")
    BY <1>5 DEF NestedRequest
  <2> QED BY <2>1 DEF Step, Goes, Places
<1> QED BY <1>1, <1>2, <1>3, <1>4, <1>5 DEF SerialStep

LEMMA SerialKeeps ==
  ASSUME WebInv, environment' = environment, SerialStep, UNCHANGED webVars
  PROVE  WebInv'
BY SerialSteps, ElsewhereKeeps DEF WebInv

LEMMA RoundKeeps ==
  ASSUME WebInv, environment' = environment, Round
  PROVE  WebInv'
BY ElsewhereKeeps DEF WebInv, Round, loopVars

-----------------------------------------------------------------------------
(* The steps which only move what there is *)

LEMMA ParseEndsKeeps ==
  ASSUME WebInv, environment' = environment, ParseEnds
  PROVE  WebInv'
<1>1. pc' \in [Cores -> Places] /\ pc[Core1] = "parse" /\ pc'[Core1] = "idle"
  BY CoresType, StepIs DEF WebInv, ParseEnds, Places
<1>2. UNCHANGED webVars /\ rest = <<>>
  BY DEF ParseEnds
<1>3. LinkFits' /\ AnswersFresh'
  BY <1>2, LinkKeeps DEF WebInv, webVars
<1>4. ParserFits'
  BY <1>2, EnvironmentKeeps DEF WebInv, ParserFits, webVars
<1>5. Done' = Done
  BY <1>2 DEF Done, webVars
<1>6. UnitsFit'
  BY <1>2, <1>5, UnitsSame DEF WebInv, webVars
<1>7. AnswersFit'
  BY <1>2, AnswersKeep DEF WebInv, AnswersFit, webVars
<1>8. ExecutedFits'
  <2>1. Packets' = Packets /\ \A p : (Current(p)' <=> Current(p)) /\ (Ours(p)' <=> Ours(p)) /\ (Executed(p)' <=> Executed(p))
    BY <1>2, EnvironmentKeeps, LinkKeeps DEF webVars
  <2> QED BY <1>1, <1>2, <1>5, <2>1 DEF WebInv, ExecutedFits, At, webVars
<1> QED BY <1>1, <1>3, <1>4, <1>6, <1>7, <1>8 DEF WebInv

LEMMA ResumeKeeps ==
  ASSUME WebInv, environment' = environment, Resume
  PROVE  WebInv'
<1>1. pc' \in [Cores -> Places] /\ pc[Core1] = "executed" /\ pc'[Core1] = "parse"
  BY CoresType, StepIs DEF WebInv, Resume, Places
<1>2. /\ UNCHANGED <<incoming, parser, rest, outgoing, writing, onBus, screens, link>>
      /\ executing' = NoPacket
  BY DEF Resume
<1>3. LinkFits' /\ AnswersFresh'
  BY <1>2, LinkKeeps DEF WebInv
<1>4. ParserFits'
  BY <1>2, EnvironmentKeeps DEF WebInv, ParserFits
<1>5. Done' = Range(link.executed) /\ Done' \subseteq Done
  BY <1>2 DEF Done
<1>6. UnitsFit'
  BY <1>2, <1>5, UnitsSame DEF WebInv
<1>7. AnswersFit'
  BY <1>2, AnswersKeep DEF WebInv, AnswersFit
<1>8. ExecutedFits'
  <2>1. Packets' = Packets /\ \A p : (Current(p)' <=> Current(p)) /\ (Ours(p)' <=> Ours(p)) /\ (Executed(p)' <=> Executed(p))
    BY <1>2, EnvironmentKeeps, LinkKeeps
  <2> QED BY <1>1, <1>2, <1>5, <2>1 DEF WebInv, ExecutedFits, At
<1> QED BY <1>1, <1>3, <1>4, <1>6, <1>7, <1>8 DEF WebInv

LEMMA TakeDataKeeps ==
  ASSUME WebInv, environment' = environment, TakeData
  PROVE  WebInv'
<1>1. pc' \in [Cores -> Places] /\ pc[Core1] = "idle" /\ pc'[Core1] = "parse"
  BY CoresType, StepIs DEF WebInv, TakeData, Places
<1>2. /\ UNCHANGED <<parser, executing, outgoing, writing, onBus, screens, link>>
      /\ rest' = incoming /\ incoming' = <<>>
  BY DEF TakeData
<1>3. LinkFits' /\ AnswersFresh'
  BY <1>2, LinkKeeps DEF WebInv
<1>4. ParserFits'
  BY <1>2, EnvironmentKeeps DEF WebInv, ParserFits
<1>5. Done' = Done
  BY <1>2 DEF Done
<1>6. UnitsFit'
  <2>1. Range(<<>>) = {}
    BY DEF Range
  <2>2. Pending' \subseteq Pending /\ Kept' \subseteq Kept
    BY <1>2, <2>1 DEF Kept, Pending
  <2>3. \A u, v : Before(u, v)' <=> Before(u, v)
    BY DEF Before, Rank
  <2>4. Sorted(rest)' /\ Sorted(incoming)'
    BY <1>2, <2>3 DEF WebInv, UnitsFit, Sorted
  <2>5. \A u \in Range(parser'.body), v \in Pending' : Before(u, v)
    BY <1>2, <2>2 DEF WebInv, UnitsFit
  <2>6. rest' \in Seq(Units) /\ incoming' \in Seq(Units)
    BY <1>2 DEF WebInv, UnitsFit
  <2> QED BY <1>2, <1>5, <2>1, <2>2, <2>4, <2>5, <2>6, UnitsKeep DEF WebInv
<1>7. AnswersFit'
  BY <1>2, WebUsbAssumption, AnswersKeep DEF WebInv, AnswersFit
<1>8. ExecutedFits'
  <2>1. Packets' = Packets /\ \A p : (Current(p)' <=> Current(p)) /\ (Ours(p)' <=> Ours(p)) /\ (Executed(p)' <=> Executed(p))
    BY <1>2, EnvironmentKeeps, LinkKeeps
  <2> QED BY <1>1, <1>2, <1>5, <2>1 DEF WebInv, ExecutedFits, At
<1> QED BY <1>1, <1>3, <1>4, <1>6, <1>7, <1>8 DEF WebInv

\* Steps that only touch the answers.
LEMMA PacketsKeep ==
  ASSUME WebInv, UNCHANGED <<environment, incoming, parser, rest, executing, link>>,
         pc' \in [Cores -> Places],
         pc'[Core1] = pc[Core1] \/ (pc[Core1] \notin Parsing /\ pc'[Core1] \notin Parsing),
         AnswersFit'
  PROVE  WebInv'
<1>1. LinkFits' /\ AnswersFresh'
  BY LinkKeeps DEF WebInv
<1>2. ParserFits'
  BY EnvironmentKeeps DEF WebInv, ParserFits
<1>3. Done' = Done
  BY DEF Done
<1>4. UnitsFit'
  BY <1>3, UnitsSame DEF WebInv
<1>5. ExecutedFits'
  <2>1. Packets' = Packets /\ \A p : (Current(p)' <=> Current(p)) /\ (Ours(p)' <=> Ours(p)) /\ (Executed(p)' <=> Executed(p))
    BY EnvironmentKeeps, LinkKeeps
  <2> QED BY <1>3, <2>1 DEF WebInv, ExecutedFits, Parsing, At
<1> QED BY <1>1, <1>2, <1>4, <1>5 DEF WebInv

LEMMA BusCancelsKeeps ==
  ASSUME WebInv, environment' = environment, BusCancels
  PROVE  WebInv'
<1>1. /\ UNCHANGED <<pc, incoming, parser, rest, executing, outgoing, writing, screens, link>>
      /\ onBus' \subseteq onBus
  BY DEF BusCancels
<1>2. AnswersFit'
  BY <1>1, AnswersKeep DEF WebInv, AnswersFit
<1> QED BY <1>1, <1>2, PacketsKeep DEF WebInv

LEMMA FlushBeginsKeeps ==
  ASSUME WebInv, environment' = environment, FlushBegins
  PROVE  WebInv'
<1>1. pc' \in [Cores -> Places] /\ pc'[Core1] = pc[Core1]
  BY CoresType, StepIs DEF WebInv, FlushBegins, Places
<1>2. /\ UNCHANGED <<incoming, parser, rest, executing, onBus, screens, link>>
      /\ outgoing # <<>> /\ writing' = <<Head(outgoing)>> /\ outgoing' = Tail(outgoing)
  BY DEF FlushBegins
<1>3. AnswersFit'
  <2> DEFINE Entries == [packet: Packets \cup {NoPacket}, answer: Answers]
  <2>1. outgoing \in Seq(Entries) /\ Len(outgoing) <= MaxOutgoing
    BY DEF WebInv, AnswersFit
  <2>2. /\ Tail(outgoing) \in Seq(Entries) /\ Head(outgoing) \in Entries
        /\ Head(outgoing) = outgoing[1]
        /\ Len(outgoing) \in Nat \ {0} /\ Len(Tail(outgoing)) = Len(outgoing) - 1
        /\ \A i \in 1 .. Len(outgoing) - 1 : Tail(outgoing)[i] = outgoing[i + 1]
    <3> HIDE DEF Entries
    <3> QED BY <1>2, <2>1, RangeTail
  <2>3. DOMAIN outgoing = 1 .. Len(outgoing) /\ DOMAIN outgoing' = 1 .. Len(outgoing) - 1
    BY <1>2, <2>1, <2>2, LenProperties
  <2>4. /\ writing' \in Seq(Entries) /\ Len(writing') = 1
        /\ DOMAIN writing' = {1} /\ writing'[1] = outgoing[1]
    <3> HIDE DEF Entries
    <3> QED BY <1>2, <2>2
  <2>5. \A p : /\ (Writing(p)' <=> outgoing[1].packet = p)
               /\ (Queueing(p)' <=> \E i \in 2 .. Len(outgoing) : outgoing[i].packet = p)
               /\ (OnBus(p)' <=> OnBus(p))
    <3> TAKE p
    <3>1. Writing(p)' <=> outgoing[1].packet = p
      BY <2>4 DEF Writing
    <3>2. ASSUME NEW i \in 1 .. Len(outgoing) - 1
          PROVE  outgoing'[i] = outgoing[i + 1] /\ i + 1 \in 2 .. Len(outgoing)
      BY <1>2, <2>2
    <3>3. ASSUME NEW i \in 2 .. Len(outgoing)
          PROVE  i - 1 \in 1 .. Len(outgoing) - 1 /\ outgoing'[i - 1] = outgoing[i]
      <4>1. i - 1 \in 1 .. Len(outgoing) - 1 /\ (i - 1) + 1 = i
        BY <2>2
      <4> QED BY <3>2, <4>1
    <3>4. Queueing(p)' <=> \E i \in DOMAIN outgoing' : outgoing'[i].packet = p
      BY DEF Queueing
    <3>5. OnBus(p)' <=> OnBus(p)
      BY <1>2 DEF OnBus
    <3>6. ASSUME Queueing(p)' PROVE \E i \in 2 .. Len(outgoing) : outgoing[i].packet = p
      BY <2>3, <3>2, <3>4, <3>6
    <3>7. ASSUME NEW i \in 2 .. Len(outgoing), outgoing[i].packet = p PROVE Queueing(p)'
      <4>1. i - 1 \in DOMAIN outgoing' /\ outgoing'[i - 1].packet = p
        BY <2>3, <3>3, <3>7
      <4> QED BY ONLY <3>4, <4>1
    <3> QED BY <3>1, <3>5, <3>6, <3>7
  <2>6. \A p : (Queueing(p) <=> outgoing[1].packet = p \/ \E i \in 2 .. Len(outgoing) : outgoing[i].packet = p)
    BY <2>2, <2>3 DEF Queueing
  <2>7. \A i \in 2 .. Len(outgoing) :
           outgoing[i].packet # outgoing[1].packet \/ outgoing[1].packet = NoPacket
    <3> TAKE i \in 2 .. Len(outgoing)
    <3>1. i \in DOMAIN outgoing /\ 1 \in DOMAIN outgoing /\ i # 1
      BY <2>2, <2>3
    <3> QED BY <3>1 DEF WebInv, AnswersFit
  <2>8. \A i, j \in DOMAIN outgoing' :
           outgoing'[i].packet = outgoing'[j].packet /\ outgoing'[i].packet # NoPacket => i = j
    <3> TAKE i, j \in DOMAIN outgoing'
    <3>1. /\ i + 1 \in DOMAIN outgoing /\ j + 1 \in DOMAIN outgoing
          /\ outgoing'[i] = outgoing[i + 1] /\ outgoing'[j] = outgoing[j + 1]
          /\ i \in Nat /\ j \in Nat
      BY <1>2, <2>2, <2>3
    <3>2. outgoing[i + 1].packet = outgoing[j + 1].packet /\ outgoing[i + 1].packet # NoPacket
            => i + 1 = j + 1
      BY <3>1 DEF WebInv, AnswersFit
    <3> QED BY <3>1, <3>2
  <2>9. NoPacket \notin Packets
    BY PacketsType DEF WebInv, NoPacket
  <2>10. Packets' = Packets
    BY EnvironmentKeeps
  <2>11. \A p : /\ (Current(p)' <=> Current(p)) /\ (Ours(p)' <=> Ours(p)) /\ (Executed(p)' <=> Executed(p))
                /\ (Delivered(p)' <=> Delivered(p))
    BY <1>2, LinkKeeps
  <2>12. \A p \in Packets :
       /\ Queueing(p)' \/ Writing(p)' \/ OnBus(p)' => Executed(p)' /\ Ours(p)'
       /\ Delivered(p)' => Executed(p)'
       /\ Delivered(p)' => ~Writing(p)' /\ ~Queueing(p)' /\ ~OnBus(p)'
       /\ Writing(p)' => ~Queueing(p)' /\ ~OnBus(p)'
       /\ Queueing(p)' => ~OnBus(p)'
    <3> TAKE p \in Packets
    <3>1. /\ Queueing(p) \/ Writing(p) \/ OnBus(p) => Executed(p) /\ Ours(p)
          /\ Delivered(p) => Executed(p)
          /\ Delivered(p) => ~Queueing(p) /\ ~OnBus(p)
          /\ Queueing(p) => ~OnBus(p)
      BY DEF WebInv, AnswersFit
    <3>2. Writing(p)' \/ Queueing(p)' => Queueing(p)
      BY <2>5, <2>6
    <3>3. Writing(p)' => ~Queueing(p)'
      BY <2>5, <2>7, <2>9
    <3> QED BY <2>5, <2>11, <3>1, <3>2, <3>3
  <2>13. outgoing' \in Seq(Entries) /\ Len(outgoing') <= MaxOutgoing /\ Len(writing') <= 1
    BY <1>2, <2>1, <2>2, <2>4, WebUsbAssumption
  <2>14. /\ onBus' \subseteq [packet: Packets' \cup {TtyPacket}, node: environment'.available]
         /\ Len(incoming') <= MaxIncoming
         /\ \A s, t \in onBus' : s.packet = t.packet /\ s.packet # TtyPacket => s = t
    BY <1>2, <2>10 DEF WebInv, AnswersFit
  <2> QED BY <2>4, <2>8, <2>10, <2>12, <2>13, <2>14 DEF AnswersFit
<1> QED BY <1>1, <1>2, <1>3, PacketsKeep

LEMMA FlushEndsKeeps ==
  ASSUME WebInv, environment' = environment, FlushEnds
  PROVE  WebInv'
<1>1. pc' \in [Cores -> Places] /\ pc'[Core1] = pc[Core1]
  BY CoresType, StepIs DEF WebInv, FlushEnds, Places
<1>2. /\ UNCHANGED <<incoming, parser, rest, executing, outgoing, onBus, screens>>
      /\ writing' = <<>>
  BY DEF FlushEnds
<1>3. \A p : ~Writing(p)'
  BY <1>2 DEF Writing
<1>4. writing' \in Seq([packet: Packets \cup {NoPacket}, answer: Answers]) /\ Len(writing') <= 1
  BY <1>2
<1>5. CASE link' = link
  <2>1. AnswersFit'
    <3>1. Packets' = Packets
      BY EnvironmentKeeps
    <3>2. \A p : /\ (Current(p)' <=> Current(p)) /\ (Ours(p)' <=> Ours(p)) /\ (Executed(p)' <=> Executed(p))
                 /\ (Delivered(p)' <=> Delivered(p))
      BY <1>5, LinkKeeps
    <3>3. \A p : (Queueing(p)' <=> Queueing(p)) /\ (OnBus(p)' <=> OnBus(p))
      BY <1>2 DEF Queueing, OnBus
    <3>4. AnswersFit
      BY DEF WebInv
    <3> QED BY <1>2, <1>3, <1>4, <3>1, <3>2, <3>3, <3>4 DEF AnswersFit
  <2> QED BY <1>1, <1>2, <1>5, <2>1, PacketsKeep
<1>6. CASE link' # link
  <2> DEFINE w == writing[1].packet
             a == [packet |-> w, on |-> link.connection]
  <2>1. /\ writing # <<>>
        /\ link' = [link EXCEPT !.delivered = @ \cup {a},
                                !.twice = @ \/ (a.packet # NoPacket /\ Delivered(a.packet))]
    BY <1>6 DEF FlushEnds
  <2>2. Len(writing) = 1 /\ DOMAIN writing = {1} /\ w \in Packets \cup {NoPacket} /\ Writing(w)
    <3>1. writing \in Seq([packet: Packets \cup {NoPacket}, answer: Answers]) /\ Len(writing) <= 1
      BY DEF WebInv, AnswersFit
    <3> DEFINE Entries == [packet: Packets \cup {NoPacket}, answer: Answers]
    <3>2. Len(writing) \in Nat \ {0} /\ DOMAIN writing = 1 .. Len(writing) /\ writing[1] \in Entries
      <4>1. writing \in Seq(Entries)
        BY <3>1
      <4> HIDE DEF Entries
      <4> QED BY <2>1, <4>1, RangeTail, LenProperties
    <3>3. Len(writing) = 1
      BY <3>1, <3>2
    <3>4. DOMAIN writing = {1}
      BY <3>2, <3>3
    <3> QED BY <3>2, <3>3, <3>4 DEF Writing
  <2> HIDE DEF w
  <2>3. w # NoPacket => ~Delivered(w)
    BY <2>2 DEF WebInv, AnswersFit
  <2>4. /\ link'.next = link.next /\ link'.sent = link.sent /\ link'.lost = link.lost
        /\ link'.connection = link.connection /\ link'.born = link.born
        /\ link'.fresh = link.fresh
        /\ link'.executed = link.executed
        /\ link'.inHand = link.inHand /\ link'.fresh = link.fresh
        /\ link'.delivered = link.delivered \cup {a}
        /\ link'.twice = (link.twice \/ (w # NoPacket /\ Delivered(w)))
        /\ link' \in [next: Nat \ {0}, sent: Nat, lost: SUBSET Packets, connection: Nat, born: Seq(Nat),
                      inHand: Seq(SUBSET Packets), fresh: BOOLEAN,
                      executed: Seq(Packets), delivered: SUBSET [packet: Packets \cup {NoPacket}, on: Nat],
                      twice: BOOLEAN]
    <3>1. a.packet = w /\ a \in [packet: Packets \cup {NoPacket}, on: Nat]
      BY <2>2 DEF WebInv, LinkFits, LinkType
    <3> HIDE DEF a
    <3> QED BY <2>1, <3>1 DEF WebInv, LinkFits, LinkType
  <2>5. Packets' = Packets /\ \A p : Stream(p)' = Stream(p)
    BY EnvironmentKeeps
  <2>6. \A p : (Current(p)' <=> Current(p)) /\ (Ours(p)' <=> Ours(p)) /\ (Executed(p)' <=> Executed(p))
    BY <2>4 DEF Current, Ours, MayAnswer, Executed
  <2>7. LinkFits'
    <3>1. \A b \in link'.delivered : b.on <= link'.connection
      BY <2>4 DEF WebInv, LinkFits, LinkType
    <3>2. LinkType'
      BY <2>4, <2>5 DEF LinkType
    <3> QED BY <2>4, <2>5, <2>6, <3>1, <3>2 DEF WebInv, LinkFits
  <2>8. AnswersFresh'
    <3>1. link'.twice = FALSE
      BY <2>3, <2>4 DEF WebInv, AnswersFresh
    <3>2. w # NoPacket => Executed(w) /\ MayAnswer(w, link.connection)
      BY <2>2 DEF WebInv, AnswersFit, Ours
    <3>3. a.packet = w /\ a.on = link.connection
      OBVIOUS
    <3> HIDE DEF a
    <3>4. \A b \in link'.delivered :
            b.packet # NoPacket => Executed(b.packet)' /\ MayAnswer(b.packet, b.on)
      BY <2>4, <2>6, <3>2, <3>3 DEF WebInv, AnswersFresh
    <3>5. \A q, c : MayAnswer(q, c)' <=> MayAnswer(q, c)
      BY <2>4 DEF MayAnswer
    <3> QED BY <3>1, <3>4, <3>5 DEF AnswersFresh
  <2>9. Done' = Done
    BY <1>2, <2>4 DEF Done
  <2>10. UnitsFit'
    <3>1. Kept' = Kept /\ Pending' = Pending
      BY <1>2 DEF Kept, Pending
    <3>2. /\ Units' = Units /\ (\A u : IsUnit(u)' <=> IsUnit(u)) /\ \A u : Rank(u)' = Rank(u)
      BY EnvironmentKeeps DEF Rank
    <3>3. \A u, v : Before(u, v)' <=> Before(u, v)
      BY DEF Before, Rank
    <3>4. Sorted(rest)' /\ Sorted(incoming)'
      BY <1>2, <3>3 DEF WebInv, UnitsFit, Sorted
    <3>5. UnitsFit
      BY DEF WebInv
    <3> QED BY <1>2, <2>4, <2>6, <2>9, <3>1, <3>2, <3>3, <3>4, <3>5 DEF UnitsFit
  <2>11. ExecutedFits'
    BY <1>1, <1>2, <2>4, <2>5, <2>6, <2>9 DEF WebInv, ExecutedFits, At
  <2>12. AnswersFit'
    <3>1. \A p : (Queueing(p)' <=> Queueing(p)) /\ (OnBus(p)' <=> OnBus(p))
      BY <1>2 DEF Queueing, OnBus
    <3>2. \A p : Delivered(p)' => Delivered(p) \/ p = w
      BY <2>4 DEF Delivered
    <3>3. ASSUME NEW p \in Packets
          PROVE  /\ Queueing(p)' \/ Writing(p)' \/ OnBus(p)' => Executed(p)' /\ Ours(p)'
                 /\ Delivered(p)' => Executed(p)'
                 /\ Delivered(p)' => ~Queueing(p)' /\ ~OnBus(p)'
                 /\ Queueing(p)' => ~OnBus(p)'
      <4>1. /\ Queueing(p) \/ Writing(p) \/ OnBus(p) => Executed(p) /\ Ours(p)
            /\ Delivered(p) => Executed(p)
            /\ Delivered(p) => ~Writing(p) /\ ~Queueing(p) /\ ~OnBus(p)
            /\ Writing(p) => ~Queueing(p) /\ ~OnBus(p)
            /\ Queueing(p) => ~OnBus(p)
        BY DEF WebInv, AnswersFit
      <4> QED BY <1>3, <2>2, <2>6, <3>1, <3>2, <4>1
    <3>4. AnswersFit
      BY DEF WebInv
    <3> QED BY <1>2, <1>3, <1>4, <2>5, <3>3, <3>4 DEF AnswersFit
  <2>13. ParserFits'
    BY <1>2, EnvironmentKeeps DEF WebInv, ParserFits
  <2> QED BY <1>1, <2>7, <2>8, <2>10, <2>11, <2>12, <2>13 DEF WebInv
<1> QED BY <1>5, <1>6

-----------------------------------------------------------------------------
(* Answers *)

\* An answer is added for a packet none was under way for.
LEMMA OneMoreAnswer ==
  ASSUME WebInv, environment' = environment, UNCHANGED <<incoming, writing>>,
         NEW p \in Packets, NEW a \in Answers, Len(outgoing) < MaxOutgoing,
         outgoing' = Append(outgoing, AnswerTo(p, a)), onBus' \subseteq onBus,
         ~Queueing(p), ~Writing(p), ~Delivered(p), ~OnBus(p)', Executed(p)', Ours(p),
         \A q : /\ (Current(q)' <=> Current(q)) /\ (Ours(q)' <=> Ours(q)) /\ (Executed(q) => Executed(q)')
                /\ (Delivered(q)' <=> Delivered(q))
  PROVE  AnswersFit'
<1> DEFINE Entries == [packet: Packets \cup {NoPacket}, answer: Answers]
<1>1. outgoing \in Seq(Entries) /\ Len(outgoing) <= MaxOutgoing
  BY DEF WebInv, AnswersFit
<1>2. AnswerTo(p, a) \in Entries /\ AnswerTo(p, a).packet = p
  BY DEF AnswerTo
<1>3. Packets' = Packets
  BY EnvironmentKeeps
<1>4. /\ outgoing' \in Seq(Entries) /\ Len(outgoing') = Len(outgoing) + 1 /\ Len(outgoing) \in Nat
      /\ \A i \in 1 .. Len(outgoing) : outgoing'[i] = outgoing[i]
      /\ outgoing'[Len(outgoing) + 1] = AnswerTo(p, a)
  <2> HIDE DEF Entries
  <2> QED BY <1>1, <1>2, AppendProperties, LenProperties
<1>5. DOMAIN outgoing = 1 .. Len(outgoing) /\ DOMAIN outgoing' = 1 .. Len(outgoing) + 1
  BY <1>1, <1>4, LenProperties
<1>6. ASSUME NEW q, Queueing(q)' PROVE Queueing(q) \/ q = p
  <2>1. PICK i \in DOMAIN outgoing' : outgoing'[i].packet = q
    BY <1>6 DEF Queueing
  <2>2. CASE i \in 1 .. Len(outgoing)
    BY <1>4, <1>5, <2>1, <2>2 DEF Queueing
  <2>3. CASE i = Len(outgoing) + 1
    BY <1>2, <1>4, <2>1, <2>3
  <2> QED BY <1>4, <1>5, <2>2, <2>3
<1>7. \A i, j \in DOMAIN outgoing' :
        outgoing'[i].packet = outgoing'[j].packet /\ outgoing'[i].packet # NoPacket => i = j
  <2> SUFFICES ASSUME NEW i \in DOMAIN outgoing', NEW j \in DOMAIN outgoing',
                      outgoing'[i].packet = outgoing'[j].packet, outgoing'[i].packet # NoPacket
               PROVE  i = j
    OBVIOUS
  <2>1. CASE i \in 1 .. Len(outgoing) /\ j \in 1 .. Len(outgoing)
    BY <1>4, <1>5, <2>1 DEF WebInv, AnswersFit
  <2>2. ASSUME NEW k \in 1 .. Len(outgoing) PROVE outgoing'[k].packet # p
    BY <1>4, <1>5 DEF Queueing
  <2>3. outgoing'[Len(outgoing) + 1].packet = p
    BY <1>2, <1>4
  <2> QED BY <1>4, <1>5, <2>1, <2>2, <2>3
<1>8. \A q : (OnBus(q)' => OnBus(q)) /\ (Writing(q)' <=> Writing(q))
  BY DEF OnBus, Writing
<1>9. ASSUME NEW q \in Packets
      PROVE  /\ Queueing(q)' \/ Writing(q)' \/ OnBus(q)' => Executed(q)' /\ Ours(q)'
             /\ Delivered(q)' => Executed(q)'
             /\ Delivered(q)' => ~Writing(q)' /\ ~Queueing(q)' /\ ~OnBus(q)'
             /\ Writing(q)' => ~Queueing(q)' /\ ~OnBus(q)'
             /\ Queueing(q)' => ~OnBus(q)'
  <2>1. /\ Queueing(q) \/ Writing(q) \/ OnBus(q) => Executed(q) /\ Ours(q)
        /\ Delivered(q) => Executed(q)
        /\ Delivered(q) => ~Writing(q) /\ ~Queueing(q) /\ ~OnBus(q)
        /\ Writing(q) => ~Queueing(q) /\ ~OnBus(q)
        /\ Queueing(q) => ~OnBus(q)
    BY DEF WebInv, AnswersFit
  <2>2. CASE q = p
    BY <1>8, <2>2
  <2>3. CASE q # p
    BY <1>6, <1>8, <2>1, <2>3
  <2> QED BY <2>2, <2>3
<1>10. Len(outgoing') <= MaxOutgoing
  BY <1>4, WebUsbAssumption
<1>11. AnswersFit
  BY DEF WebInv
<1> QED BY <1>3, <1>4, <1>7, <1>9, <1>10, <1>11 DEF AnswersFit

LEMMA BusAnswersKeeps ==
  ASSUME WebInv, environment' = environment, BusAnswers
  PROVE  WebInv'
<1>1. UNCHANGED <<pc, incoming, parser, rest, executing, writing, screens, link>>
  BY DEF BusAnswers
<1>2. PICK t \in onBus : \E a \in {"success", "failure"} :
        /\ onBus' = onBus \ {t}
        /\ outgoing' = IF t.packet = TtyPacket THEN outgoing
                       ELSE Queued(outgoing, AnswerTo(t.packet, a))
  BY DEF BusAnswers
<1>3. PICK a \in {"success", "failure"} :
        /\ onBus' = onBus \ {t}
        /\ outgoing' = IF t.packet = TtyPacket THEN outgoing
                       ELSE Queued(outgoing, AnswerTo(t.packet, a))
  BY <1>2
<1>4. AnswersFit
  BY DEF WebInv
<1>5. ASSUME outgoing' = outgoing PROVE AnswersFit'
  <2>1. onBus' \subseteq onBus
    BY <1>3
  <2>2. Len(incoming') <= MaxIncoming
    BY <1>1, <1>4 DEF AnswersFit
  <2> QED BY <1>1, <1>4, <1>5, <2>1, <2>2, AnswersKeep
<1>6. ASSUME outgoing' # outgoing PROVE AnswersFit'
  <2>0. PICK p : p = t.packet
    OBVIOUS
  <2>1. /\ p # TtyPacket /\ ~(Len(outgoing) >= MaxOutgoing)
        /\ outgoing' = Append(outgoing, AnswerTo(p, a))
    BY <1>3, <1>6, <2>0 DEF Queued
  <2>2. Len(outgoing) < MaxOutgoing
    <3>1. Len(outgoing) \in Nat
      BY <1>4, LenProperties DEF AnswersFit
    <3> QED BY <2>1, <3>1, WebUsbAssumption
  <2>3. p \in Packets
    BY <1>4, <2>0, <2>1 DEF AnswersFit
  <2>4. OnBus(p)
    BY <2>0 DEF OnBus
  <2>5. ~OnBus(p)'
    BY <1>3, <1>4, <2>0, <2>1 DEF AnswersFit, OnBus
  <2>6. ~Queueing(p) /\ ~Writing(p) /\ ~Delivered(p) /\ Executed(p) /\ Ours(p)
    BY <1>4, <2>3, <2>4 DEF AnswersFit
  <2>7. \A q : /\ (Current(q)' <=> Current(q)) /\ (Ours(q)' <=> Ours(q)) /\ (Executed(q)' <=> Executed(q))
               /\ (Delivered(q)' <=> Delivered(q))
    BY <1>1, LinkKeeps
  <2>8. a \in Answers /\ onBus' \subseteq onBus
    BY <1>3 DEF Answers
  <2>9. Executed(p)' /\ UNCHANGED <<incoming, writing>>
    BY <1>1, <2>6, <2>7
  <2> QED BY <2>1, <2>2, <2>3, <2>5, <2>6, <2>7, <2>8, <2>9, OneMoreAnswer
<1>7. AnswersFit'
  BY <1>5, <1>6
<1> QED BY <1>1, <1>7, PacketsKeep DEF WebInv

LEMMA HandledKeeps ==
  ASSUME WebInv, environment' = environment, HandledWithEffect
  PROVE  WebInv'
<1>1. pc' \in [Cores -> Places] /\ pc[Core1] = "printing" /\ pc'[Core1] = "idle"
  BY CoresType, StepIs DEF WebInv, HandledWithEffect, Handled, Places
<1> DEFINE command == Meaning(FirstCommand(rx))
           sends == OutcomeTty(command, environment.nodes, environment.available).sends
           more == {[packet |-> TtyPacket, node |-> i] : i \in sends}
<1>2. /\ UNCHANGED <<incoming, parser, rest, executing, outgoing, writing, link>>
      /\ onBus' = onBus \cup more
  BY DEF HandledWithEffect, Effect
<1>3. command.family \in {"flycast", "maple", "system"}
  BY MeaningAssumption DEF Meaning, WebInv
<1>4. sends \subseteq environment.available
  <2> HIDE DEF command
  <2> QED BY <1>3, OutcomeTtyIs DEF WebInv
<1>5. \A t \in more : t.packet = TtyPacket /\ t \in [packet: Packets \cup {TtyPacket}, node: environment.available]
  <2> HIDE DEF sends
  <2> QED BY <1>4
<1>6. more \subseteq [packet: Packets \cup {TtyPacket}, node: environment.available]
  <2> HIDE DEF more
  <2> QED BY <1>5
<1> HIDE DEF more
<1>7. AnswersFit'
  <2>1. Packets' = Packets /\ TtyPacket \notin Packets
    BY EnvironmentKeeps, PacketsType DEF WebInv, TtyPacket
  <2>2. \A p : /\ (Current(p)' <=> Current(p)) /\ (Ours(p)' <=> Ours(p)) /\ (Executed(p)' <=> Executed(p))
               /\ (Delivered(p)' <=> Delivered(p))
    BY <1>2, LinkKeeps
  <2>3. \A p : (Queueing(p)' <=> Queueing(p)) /\ (Writing(p)' <=> Writing(p))
    BY <1>2 DEF Queueing, Writing
  <2>4. \A p \in Packets : OnBus(p)' <=> OnBus(p)
    BY <1>2, <1>5, <2>1 DEF OnBus
  <2>5. \A s, t \in onBus' : s.packet = t.packet /\ s.packet # TtyPacket => s = t
    BY <1>2, <1>5 DEF WebInv, AnswersFit
  <2>6. onBus' \subseteq [packet: Packets \cup {TtyPacket}, node: environment.available]
    BY <1>2, <1>6 DEF WebInv, AnswersFit
  <2>7. AnswersFit
    BY DEF WebInv
  <2> QED BY <1>2, <2>1, <2>2, <2>3, <2>4, <2>5, <2>6, <2>7 DEF AnswersFit
<1> QED BY <1>1, <1>2, <1>7, PacketsKeep DEF Parsing

LEMMA ExecuteKeeps ==
  ASSUME WebInv, environment' = environment, Execute
  PROVE  WebInv'
<1> DEFINE command == environment.packets[executing].command
           done == OutcomeWeb(command, environment.nodes, environment.available, TRUE)
<1>0. PICK p : p = executing
  OBVIOUS
<1> USE <1>0
<1> DEFINE more == {[packet |-> p, node |-> i] : i \in done.sends}
<1>1. pc' \in [Cores -> Places] /\ pc[Core1] = "execute" /\ pc'[Core1] = "executed"
  BY CoresType, StepIs DEF WebInv, Execute, Places
<1>2. /\ UNCHANGED <<incoming, parser, rest, executing, writing>>
      /\ link' = [link EXCEPT !.executed = Append(@, executing)]
      /\ outgoing' = IF done.answer = "later" THEN outgoing
                     ELSE Queued(outgoing, AnswerTo(p, done.answer))
      /\ onBus' = onBus \cup more
  BY DEF Execute, Effect
<1>3. /\ p \in Packets /\ p \in Nat \ {0} /\ p < link.next /\ Ours(p)
      /\ \A i \in DOMAIN link.executed : link.executed[i] < p
  <2>1. executing # NoPacket
    BY <1>1 DEF WebInv, ExecutedFits
  <2>2. executing \in Done
    BY <2>1 DEF Done
  <2> QED BY <1>1, <2>2, PacketsType DEF WebInv, ExecutedFits, At
<1>4. Asks(done, environment.available)
  <2>1. command.family \in {"flycast", "maple", "system", "settings"}
    BY <1>3, PacketsType DEF WebInv
  <2> HIDE DEF command
  <2> QED BY <2>1, OutcomeWebIs DEF WebInv
<1> HIDE DEF done, command
<1>5. ~Executed(p)
  BY <1>3 DEF WebInv, LinkFits, LinkType, Executed
<1>6. AnswersFit /\ ~Queueing(p) /\ ~Writing(p) /\ ~Delivered(p) /\ ~OnBus(p)
  BY <1>3, <1>5 DEF WebInv, AnswersFit
<1>7. /\ link.executed \in Seq(Packets) /\ Len(link.executed) \in Nat
      /\ DOMAIN link.executed = 1 .. Len(link.executed)
  BY LenProperties DEF WebInv, LinkFits, LinkType
<1>8. /\ link'.next = link.next /\ link'.sent = link.sent /\ link'.lost = link.lost
      /\ link'.connection = link.connection /\ link'.born = link.born
      /\ link'.delivered = link.delivered /\ link'.twice = link.twice
      /\ link'.inHand = link.inHand /\ link'.fresh = link.fresh
      /\ link'.executed = Append(link.executed, p)
      /\ LinkType'
  <2>1. Append(link.executed, executing) \in Seq(Packets)
    BY <1>3, <1>7
  <2>2. Packets' = Packets
    BY EnvironmentKeeps
  <2> QED BY <1>2, <2>1, <2>2 DEF WebInv, LinkFits, LinkType
<1>9. /\ link'.executed \in Seq(Packets) /\ Len(link'.executed) = Len(link.executed) + 1
      /\ DOMAIN link'.executed = 1 .. Len(link.executed) + 1
      /\ \A i \in 1 .. Len(link.executed) : link'.executed[i] = link.executed[i]
      /\ link'.executed[Len(link.executed) + 1] = p
      /\ Range(link'.executed) = Range(link.executed) \cup {p}
  BY <1>3, <1>7, <1>8, AppendProperties, LenProperties, RangeAppend
<1>10. \A q : /\ (Current(q)' <=> Current(q)) /\ (Ours(q)' <=> Ours(q)) /\ (Executed(q) => Executed(q)')
              /\ (Delivered(q)' <=> Delivered(q))
  BY <1>7, <1>8, <1>9 DEF Current, Ours, MayAnswer, Executed, Delivered
<1>11. Executed(p)'
  <2>1. Len(link.executed) + 1 \in DOMAIN link'.executed
    BY <1>7, <1>9
  <2> QED BY <1>9, <2>1 DEF Executed
<1>12. LinkFits'
  <2>1. Packets' = Packets /\ \A q : Stream(q)' = Stream(q)
    BY EnvironmentKeeps
  <2> QED BY <1>8, <1>10, <2>1 DEF WebInv, LinkFits
<1>13. AnswersFresh'
  BY <1>8, <1>10 DEF WebInv, AnswersFresh, MayAnswer
<1>14. ParserFits'
  BY <1>2, EnvironmentKeeps DEF WebInv, ParserFits
<1>15. Done' = Done
  <2>1. executing \notin {NoPacket}
    BY <1>3 DEF NoPacket
  <2> QED BY <1>2, <1>9, <2>1 DEF Done
<1>16. UnitsFit'
  <2>1. Kept' = Kept /\ Pending' = Pending
    BY <1>2 DEF Kept, Pending
  <2>2. /\ Units' = Units /\ (\A u : IsUnit(u)' <=> IsUnit(u)) /\ \A u : Rank(u)' = Rank(u)
    BY EnvironmentKeeps DEF Rank
  <2>3. \A u, v : Before(u, v)' <=> Before(u, v)
    BY DEF Before, Rank
  <2>4. Sorted(rest)' /\ Sorted(incoming)'
    BY <1>2, <2>3 DEF WebInv, UnitsFit, Sorted
  <2>5. UnitsFit
    BY DEF WebInv
  <2> QED BY <1>2, <1>8, <1>10, <1>15, <2>1, <2>2, <2>3, <2>4, <2>5 DEF UnitsFit
<1>17. ExecutedFits'
  <2>1. Packets' = Packets
    BY EnvironmentKeeps
  <2>2. \A i, j \in DOMAIN link'.executed : i < j => link'.executed[i] < link'.executed[j]
    <3> SUFFICES ASSUME NEW i \in DOMAIN link'.executed, NEW j \in DOMAIN link'.executed, i < j
                 PROVE  link'.executed[i] < link'.executed[j]
      OBVIOUS
    <3>1. i \in 1 .. Len(link.executed)
      BY <1>7, <1>9
    <3>2. CASE j \in 1 .. Len(link.executed)
      BY <1>7, <1>9, <3>1, <3>2 DEF WebInv, ExecutedFits
    <3>3. CASE j = Len(link.executed) + 1
      BY <1>3, <1>7, <1>9, <3>1, <3>3
    <3> QED BY <1>7, <1>9, <3>2, <3>3
  <2> QED BY <1>1, <1>2, <1>8, <1>10, <1>11, <1>15, <2>1, <2>2, <1>3 DEF WebInv, ExecutedFits, At
<1>18. AnswersFit'
  <2>1. Packets' = Packets
    BY EnvironmentKeeps
  <2>2. CASE outgoing' # outgoing
    <3>1. done.sends = {}
      BY <1>2, <1>4, <2>2 DEF Asks
    <3>2. onBus' \subseteq onBus /\ ~OnBus(p)'
      <4>1. more = {}
        BY <3>1
      <4>2. onBus' = onBus
        BY <1>2, <4>1
      <4> QED BY <1>6, <4>2 DEF OnBus
    <3>3. /\ ~(Len(outgoing) >= MaxOutgoing)
          /\ outgoing' = Append(outgoing, AnswerTo(p, done.answer))
      BY <1>2, <2>2 DEF Queued
    <3>4. Len(outgoing) < MaxOutgoing
      <4>1. Len(outgoing) \in Nat
        BY <1>6, LenProperties DEF AnswersFit
      <4> QED BY <3>3, <4>1, WebUsbAssumption
    <3>5. done.answer \in Answers
      BY <1>4 DEF Asks
    <3> HIDE DEF more
    <3> QED BY <1>2, <1>3, <1>6, <1>10, <1>11, <3>2, <3>3, <3>4, <3>5, OneMoreAnswer
  <2>3. CASE outgoing' = outgoing
    <3>1. \A t \in more : /\ t.packet = p
                          /\ t \in [packet: Packets \cup {TtyPacket}, node: environment.available]
      BY <1>3, <1>4 DEF Asks
    <3>2. \A s, t \in more : s = t
      BY <1>4 DEF Asks
    <3> HIDE DEF more
    <3>3. onBus' \subseteq [packet: Packets \cup {TtyPacket}, node: environment.available]
      BY <1>2, <1>6, <3>1 DEF AnswersFit
    <3>4. \A s, t \in onBus' : s.packet = t.packet /\ s.packet # TtyPacket => s = t
      BY <1>2, <1>6, <3>1, <3>2 DEF AnswersFit, OnBus
    <3>5. \A q : (Queueing(q)' <=> Queueing(q)) /\ (Writing(q)' <=> Writing(q))
      BY <1>2, <2>3 DEF Queueing, Writing
    <3>6. \A q : OnBus(q)' => OnBus(q) \/ q = p
      BY <1>2, <3>1 DEF OnBus
    <3>7. ASSUME NEW q \in Packets
          PROVE  /\ Queueing(q)' \/ Writing(q)' \/ OnBus(q)' => Executed(q)' /\ Ours(q)'
                 /\ Delivered(q)' => Executed(q)'
                 /\ Delivered(q)' => ~Writing(q)' /\ ~Queueing(q)' /\ ~OnBus(q)'
                 /\ Writing(q)' => ~Queueing(q)' /\ ~OnBus(q)'
                 /\ Queueing(q)' => ~OnBus(q)'
      <4>1. CASE q = p
        BY <1>3, <1>6, <1>10, <1>11, <3>5, <4>1
      <4>2. CASE q # p
        <5>1. /\ Queueing(q) \/ Writing(q) \/ OnBus(q) => Executed(q) /\ Ours(q)
              /\ Delivered(q) => Executed(q)
              /\ Delivered(q) => ~Writing(q) /\ ~Queueing(q) /\ ~OnBus(q)
              /\ Writing(q) => ~Queueing(q) /\ ~OnBus(q)
              /\ Queueing(q) => ~OnBus(q)
          BY <1>6 DEF AnswersFit
        <5> QED BY <1>10, <3>5, <3>6, <4>2, <5>1
      <4> QED BY <4>1, <4>2
    <3> QED BY <1>2, <1>6, <2>1, <2>3, <3>3, <3>4, <3>7 DEF AnswersFit
  <2> QED BY <2>2, <2>3
<1> QED BY <1>1, <1>12, <1>13, <1>14, <1>16, <1>17, <1>18 DEF WebInv

-----------------------------------------------------------------------------
(* The stream comes in *)

\* What is in hand when a connection is made may be answered in it.
LEMMA InHandIs ==
  ASSUME WebInv
  PROVE  /\ InHand \subseteq Packets /\ \A p \in InHand : p \in DOMAIN link.born
         /\ \A u \in Range(rest) : u.packet \in InHand
         /\ executing # NoPacket => executing \in InHand
         /\ \A p \in Packets : OnBus(p) \/ Writing(p) => p \in InHand
<1>1. LinkFits /\ LinkType /\ UnitsFit /\ ExecutedFits /\ AnswersFit /\ environment \in Environments
  BY DEF WebInv, LinkFits
<1>2. NoPacket \notin Packets /\ TtyPacket \notin Packets
  BY <1>1, PacketsType DEF NoPacket, TtyPacket
<1>3. ASSUME NEW u \in Range(rest) PROVE u.packet \in Packets /\ Ours(u.packet)
  <2>1. IsUnit(u) /\ Ours(u.packet)
    BY <1>1, <1>3 DEF UnitsFit, Kept, Pending
  <2> QED BY <1>1, <2>1, UnitIs
<1>4. executing # NoPacket => executing \in Packets /\ Ours(executing)
  BY <1>1 DEF ExecutedFits, Done, At
<1>5. ASSUME NEW t \in onBus, t.packet # TtyPacket PROVE t.packet \in Packets /\ Ours(t.packet)
  <2>1. t.packet \in Packets
    BY <1>1, <1>5 DEF AnswersFit
  <2> QED BY <1>1, <2>1 DEF AnswersFit, OnBus
<1>6. ASSUME NEW a \in Range(writing), a.packet # NoPacket PROVE a.packet \in Packets /\ Ours(a.packet)
  <2>1. PICK i \in DOMAIN writing : a = writing[i]
    BY <1>6 DEF Range
  <2> DEFINE Entries == [packet: Packets \cup {NoPacket}, answer: Answers]
  <2>2. writing \in Seq(Entries)
    BY <1>1 DEF AnswersFit
  <2>3. a \in Entries
    <3> HIDE DEF Entries
    <3>1. DOMAIN writing = 1 .. Len(writing)
      BY <2>2, LenProperties
    <3> QED BY <2>1, <2>2, <3>1, ElementOfSeq
  <2>4. a.packet \in Packets /\ Writing(a.packet)
    BY <1>6, <2>1, <2>3 DEF Writing
  <2> QED BY <1>1, <2>4 DEF AnswersFit
<1>7. ASSUME NEW p \in InHand PROVE p \in Packets /\ Ours(p)
  <2>1. CASE p \in {u.packet : u \in Range(rest)}
    BY <1>3, <2>1
  <2>2. CASE p \in {executing} \ {NoPacket}
    BY <1>4, <2>2
  <2>3. CASE p \in {t.packet : t \in onBus} \ {TtyPacket}
    BY <1>5, <2>3
  <2>4. CASE p \in {a.packet : a \in Range(writing)} \ {NoPacket}
    BY <1>6, <2>4
  <2> QED BY <2>1, <2>2, <2>3, <2>4 DEF InHand
<1>8. \A p \in Packets : OnBus(p) \/ Writing(p) => p \in InHand
  BY <1>2 DEF OnBus, Writing, Range, InHand
<1>9. /\ \A u \in Range(rest) : u.packet \in InHand
      /\ executing # NoPacket => executing \in InHand
  BY DEF InHand
<1> QED BY <1>7, <1>8, <1>9 DEF Ours

LEMMA ConnectKeeps ==
  ASSUME WebInv, environment' = environment, Connect
  PROVE  WebInv'
<1>1. /\ UNCHANGED <<pc, rest, executing, onBus, screens>>
      /\ parser' = StartOver /\ incoming' = <<>> /\ writing' \in {writing, <<>>}
      /\ outgoing' = <<NullPacket>> \/ outgoing' = <<>>
      /\ link' = [link EXCEPT !.connection = @ + 1, !.sent = 0,
                              !.next = IF link.sent > 0 THEN @ + 1 ELSE @,
                              !.lost = IF link.sent > 0 THEN @ \cup {link.next} ELSE @,
                              !.inHand = Append(@, InHand), !.fresh = (rest = <<>>)]
  BY DEF Connect, OutgoingAfterReset
<1>2. Packets' = Packets /\ (\A p : Stream(p)' = Stream(p)) /\ NoPacket \notin Packets
  BY EnvironmentKeeps, PacketsType DEF WebInv, NoPacket
<1>3. LinkFits /\ LinkType /\ AnswersFresh /\ ExecutedFits
  BY DEF WebInv, LinkFits
<1> DEFINE hand == InHand
<1>13. hand \in SUBSET Packets
  BY InHandIs
<1>4. /\ link'.next = (IF link.sent > 0 THEN link.next + 1 ELSE link.next)
      /\ link'.sent = 0
      /\ link'.connection = link.connection + 1 /\ link'.born = link.born
      /\ link'.executed = link.executed
      /\ link'.delivered = link.delivered /\ link'.twice = link.twice
      /\ link'.inHand = Append(link.inHand, hand) /\ link'.fresh = (rest = <<>>)
      /\ LinkType'
  <2>1. link.sent > 0 => link.next \in Packets
    BY <1>3 DEF LinkFits
  <2>2. (IF link.sent > 0 THEN link.lost \cup {link.next} ELSE link.lost) \in SUBSET Packets
    BY <1>3, <2>1 DEF LinkType
  <2>3. link' = [link EXCEPT !.connection = link.connection + 1, !.sent = 0,
                             !.next = IF link.sent > 0 THEN link.next + 1 ELSE link.next,
                             !.lost = IF link.sent > 0 THEN link.lost \cup {link.next} ELSE link.lost,
                             !.inHand = Append(link.inHand, hand), !.fresh = (rest = <<>>)]
    BY <1>1
  <2>4. /\ (IF link.sent > 0 THEN link.next + 1 ELSE link.next) \in Nat \ {0}
        /\ link.connection + 1 \in Nat
    BY <1>3 DEF LinkType
  <2> HIDE DEF hand
  <2>5. Append(link.inHand, hand) \in Seq(SUBSET Packets)
    <3>1. link.inHand \in Seq(SUBSET Packets)
      BY <1>3 DEF LinkType
    <3> QED BY <1>13, <3>1, AppendProperties
  <2>6. (rest = <<>>) \in BOOLEAN
    OBVIOUS
  <2> QED BY <1>2, <1>3, <2>2, <2>3, <2>4, <2>5, <2>6 DEF LinkType
<1>14. /\ Len(link.inHand) = link.connection /\ Len(link'.inHand) = link.connection + 1
       /\ link'.inHand[link.connection + 1] = hand /\ link.connection \in Nat
       /\ \A c \in 1 .. link.connection : link'.inHand[c] = link.inHand[c]
  <2> HIDE DEF hand
  <2>1. link.inHand \in Seq(SUBSET Packets) /\ Len(link.inHand) = link.connection /\ link.connection \in Nat
    BY <1>3 DEF LinkFits, LinkType
  <2> QED BY <1>4, <1>13, <2>1, AppendProperties
<1>15. \A p \in hand : Ours(p)' /\ p \in Packets
  <2>1. \A p \in hand : p \in DOMAIN link.born
    BY InHandIs
  <2> HIDE DEF hand
  <2> QED BY <1>4, <1>13, <1>14, <2>1 DEF Ours, MayAnswer
<1>16. /\ \A u \in Range(rest) : u.packet \in hand
       /\ executing # NoPacket => executing \in hand
       /\ \A p \in Packets : OnBus(p) \/ Writing(p) => p \in hand
  BY InHandIs
<1> HIDE DEF hand
<1>5. LinkFits'
  <2>1. \A a \in link'.delivered : a.on <= link'.connection
    BY <1>3, <1>4 DEF LinkFits, LinkType
  <2> QED BY <1>3, <1>4, <1>14, <2>1 DEF LinkFits, LinkType
<1>6. AnswersFresh'
  <2>1. \A p : Executed(p)' <=> Executed(p)
    BY <1>4 DEF Executed
  <2>2. ASSUME NEW a \in link.delivered, a.packet # NoPacket
        PROVE  Executed(a.packet) /\ MayAnswer(a.packet, a.on)'
    <3>1. Executed(a.packet) /\ MayAnswer(a.packet, a.on)
      BY <1>3, <2>2 DEF AnswersFresh
    <3>2. a.on \in Nat /\ a.on <= link.connection
      BY <1>3, <2>2 DEF LinkFits, LinkType
    <3>3. a.on > 0 => a.on \in 1 .. link.connection
      BY <1>14, <3>2
    <3> QED BY <1>4, <1>14, <3>1, <3>3 DEF MayAnswer
  <2> QED BY <1>3, <1>4, <2>1, <2>2 DEF AnswersFresh
<1>7. ParserFits'
  BY <1>1 DEF ParserFits, StartOver
<1>8. Kept' = Range(rest) /\ Pending' = Range(rest) /\ Range(parser'.body) = {} /\ Range(incoming') = {}
  <2>1. Range(<<>>) = {}
    BY DEF Range
  <2>2. parser'.body = <<>>
    BY <1>1 DEF StartOver
  <2> QED BY <1>1, <2>1, <2>2 DEF Kept, Pending
<1>10. Done' = Done
  BY <1>1, <1>4 DEF Done
<1>9. UnitsFit'
  <2>1. UnitsFit /\ environment \in Environments
    BY DEF WebInv
  <2>2. ASSUME NEW u \in Range(rest)
        PROVE  /\ IsUnit(u)' /\ Ours(u.packet)' /\ ~link'.fresh
               /\ u.packet <= link'.next /\ u.packet # link'.next
               /\ \A p \in Done : p < u.packet
    <3>1. /\ IsUnit(u) /\ u.packet <= link.next /\ (u.packet = link.next => Rank(u) <= link.sent)
          /\ \A p \in Done : p < u.packet
      BY <2>1, <2>2 DEF UnitsFit, Kept, Pending
    <3>2. u.packet \in Nat /\ Rank(u) \in Nat /\ Rank(u) \in 1 .. Len(Stream(u.packet))
      BY <2>1, <3>1, UnitIs
    <3>3. u.packet <= link'.next /\ u.packet # link'.next
      <4>1. link.next \in Nat /\ link.sent \in Nat
        BY <1>3 DEF LinkType
      <4>2. Rank(u) >= 1
        BY <3>2
      <4>3. CASE link.sent > 0
        BY <1>4, <3>1, <3>2, <4>1, <4>3
      <4>4. CASE ~(link.sent > 0)
        BY <1>4, <3>1, <3>2, <4>1, <4>2, <4>4
      <4> QED BY <4>3, <4>4
    <3>4. ~link'.fresh
      <4>1. rest # <<>>
        BY <2>2 DEF Range
      <4>2. link'.fresh = (rest = <<>>)
        BY <1>4
      <4> QED BY ONLY <4>1, <4>2
    <3>5. Ours(u.packet)'
      BY <1>15, <1>16, <2>2
    <3> QED BY <3>1, <3>3, <3>4, <3>5, EnvironmentKeeps
  <2>3. \A u, v : Before(u, v)' <=> Before(u, v)
    BY DEF Before, Rank
  <2>4. rest' \in Seq(Units)' /\ Sorted(rest)' /\ incoming' \in Seq(Units)' /\ Sorted(incoming)'
    <3>1. Units' = Units
      BY EnvironmentKeeps
    <3> QED BY <1>1, <2>1, <2>3, <3>1 DEF UnitsFit, Sorted
  <2> QED BY <1>1, <1>8, <1>10, <2>2, <2>4 DEF UnitsFit
<1>11. ExecutedFits'
  <2>1. link'.next >= link.next /\ link.next \in Nat
    BY <1>3, <1>4 DEF LinkType
  <2>2. \A p \in Done : p \in Packets /\ p \in Nat /\ p < link'.next
    BY <1>3, <1>4, <2>1, PacketsType DEF ExecutedFits, WebInv
  <2>3. \A i, j \in DOMAIN link'.executed : i < j => link'.executed[i] < link'.executed[j]
    BY <1>3, <1>4 DEF ExecutedFits
  <2>4. /\ executing' # NoPacket <=> pc'[Core1] \in {"execute", "executed"}
        /\ rest' # <<>> => pc'[Core1] \in {"parse", "execute", "executed"}
    BY <1>1, <1>3 DEF ExecutedFits
  <2>5. pc[Core1] \in {"execute", "executed"} => Ours(executing)'
    <3> SUFFICES ASSUME pc[Core1] \in {"execute", "executed"} PROVE Ours(executing)'
      OBVIOUS
    <3>1. executing' = executing /\ executing \in hand
      BY <1>1, <1>3, <1>16 DEF ExecutedFits
    <3> QED BY <1>15, <3>1
  <2>6. /\ At(Core1, "execute")' =>
             Ours(executing)' /\ \A i \in DOMAIN link'.executed : link'.executed[i] < executing'
        /\ At(Core1, "executed")' => Ours(executing)' /\ Executed(executing)'
    BY <1>1, <1>3, <1>4, <2>5 DEF ExecutedFits, At, Executed
  <2> QED BY <1>2, <1>10, <2>2, <2>3, <2>4, <2>6 DEF ExecutedFits
<1>12. AnswersFit'
  <2>0. AnswersFit
    BY DEF WebInv
  <2>1. \A p \in Packets : ~Queueing(p)'
    BY <1>1, <1>2 DEF Queueing, NullPacket
  <2>2. \A p : (Writing(p)' => Writing(p)) /\ (OnBus(p)' <=> OnBus(p))
    BY <1>1 DEF Writing, OnBus
  <2>3. \A p : (Delivered(p)' <=> Delivered(p)) /\ (Executed(p)' <=> Executed(p))
    BY <1>4 DEF Delivered, Executed
  <2>6. \A p \in Packets :
          /\ Writing(p)' \/ OnBus(p)' => Executed(p)' /\ Ours(p)'
          /\ Delivered(p)' => Executed(p)'
          /\ Delivered(p)' => ~Writing(p)' /\ ~OnBus(p)'
          /\ Writing(p)' => ~OnBus(p)'
    BY <1>15, <1>16, <2>0, <2>2, <2>3 DEF AnswersFit
  <2>7. /\ writing' \in Seq([packet: Packets \cup {NoPacket}, answer: Answers]) /\ Len(writing') <= 1
        /\ onBus' \subseteq [packet: Packets \cup {TtyPacket}, node: environment'.available]
        /\ \A x, y \in onBus' : x.packet = y.packet /\ x.packet # TtyPacket => x = y
    <3>1. <<>> \in Seq([packet: Packets \cup {NoPacket}, answer: Answers]) /\ Len(<<>>) = 0
      OBVIOUS
    <3>2. /\ writing \in Seq([packet: Packets \cup {NoPacket}, answer: Answers]) /\ Len(writing) <= 1
          /\ onBus \subseteq [packet: Packets \cup {TtyPacket}, node: environment.available]
          /\ \A x, y \in onBus : x.packet = y.packet /\ x.packet # TtyPacket => x = y
      BY <2>0 DEF AnswersFit
    <3>3. writing' = writing \/ writing' = <<>>
      BY <1>1
    <3>4. /\ writing' \in Seq([packet: Packets \cup {NoPacket}, answer: Answers]) /\ Len(writing') <= 1
      <4>1. CASE writing' = writing
        BY ONLY <3>2, <4>1
      <4>2. CASE writing' = <<>>
        <5>1. Len(<<>>) <= 1
          OBVIOUS
        <5> QED BY ONLY <3>1, <4>2, <5>1
      <4> QED BY <3>3, <4>1, <4>2
    <3>5. onBus' = onBus /\ environment' = environment
      BY <1>1
    <3> QED BY ONLY <3>2, <3>4, <3>5
  <2>4. /\ outgoing' \in Seq([packet: Packets \cup {NoPacket}, answer: Answers])
        /\ Len(outgoing') <= MaxOutgoing
    <3>1. NullPacket \in [packet: Packets \cup {NoPacket}, answer: Answers]
      BY DEF NullPacket, Answers
    <3> DEFINE Entries == [packet: Packets \cup {NoPacket}, answer: Answers]
    <3>2. NullPacket \in Entries
      BY <3>1
    <3> HIDE DEF Entries
    <3>3. /\ <<NullPacket>> \in Seq(Entries) /\ Len(<<NullPacket>>) = 1
          /\ <<>> \in Seq(Entries) /\ Len(<<>>) = 0
      BY <3>2
    <3>4. outgoing' \in Seq(Entries) /\ Len(outgoing') <= MaxOutgoing
      <4>1. 1 <= MaxOutgoing /\ 0 <= MaxOutgoing
        BY WebUsbAssumption
      <4>2. CASE outgoing' = <<NullPacket>>
        BY ONLY <3>3, <4>1, <4>2
      <4>3. CASE outgoing' = <<>>
        BY ONLY <3>3, <4>1, <4>3
      <4> QED BY <1>1, <4>2, <4>3
    <3> QED BY <3>4 DEF Entries
  <2>5. \A i, j \in DOMAIN outgoing' :
          outgoing'[i].packet = outgoing'[j].packet /\ outgoing'[i].packet # NoPacket => i = j
    BY <1>1
  <2>8. Len(incoming') <= MaxIncoming
    BY <1>1, WebUsbAssumption
  <2> QED BY <1>2, <2>1, <2>4, <2>5, <2>6, <2>7, <2>8 DEF AnswersFit
<1> QED BY <1>1, <1>5, <1>6, <1>7, <1>9, <1>11, <1>12 DEF WebInv

\* What a transfer of n units adds to the buffer, and how the history goes on.
Received(p, n, kept, piece) ==
  /\ UNCHANGED <<pc, parser, rest, executing, outgoing, writing, onBus, screens>> /\ p \in Packets
  /\ n <= Len(Stream(p)) - link.sent
  /\ kept <= n /\ kept <= MaxIncoming - Len(incoming)
  /\ incoming' = incoming \o piece
  /\ link'.next = (IF n = Len(Stream(p)) - link.sent THEN p + 1 ELSE p)
  /\ link'.sent = (IF n = Len(Stream(p)) - link.sent THEN 0 ELSE link.sent + n)
  /\ link'.lost = (IF kept < n THEN link.lost \cup {p} ELSE link.lost)
  /\ link'.connection = link.connection
  /\ link'.executed = link.executed
  /\ link'.delivered = link.delivered /\ link'.twice = link.twice
  /\ link'.inHand = link.inHand /\ link'.fresh = link.fresh
  /\ LinkType'
  /\ piece \in Seq(Units) /\ Len(piece) = kept /\ Sorted(piece)
  /\ \A u \in Range(piece) :
       IsUnit(u) /\ u.packet = p /\ link.sent < Rank(u) /\ Rank(u) <= link.sent + kept
  /\ \A k \in link.sent + 1 .. link.sent + kept : Stream(p)[k] \in Range(piece)
  /\ Len(link'.born) = p /\ Len(link.born) = (IF link.sent = 0 THEN p - 1 ELSE p)
  /\ DOMAIN link.born = 1 .. Len(link.born) /\ DOMAIN link'.born = 1 .. p
  /\ \A q \in DOMAIN link.born : link'.born[q] = link.born[q]
  /\ link'.born[p] = link.connection

LEMMA ReceiveIs ==
  ASSUME WebInv, environment' = environment, Receive, NEW p, p = link.next
  PROVE  \E n \in Nat \ {0} : \E kept \in Nat : \E piece : Received(p, n, kept, piece)
<1>0. p = link.next
  OBVIOUS
<1> DEFINE length == Len(Stream(p))
           left == length - link.sent
<1>1. UNCHANGED <<pc, parser, rest, executing, outgoing, writing, onBus, screens>> /\ p \in Packets
  BY <1>0 DEF Receive
<1>2. LinkFits /\ LinkType /\ AnswersFit /\ environment \in Environments
  BY DEF WebInv, LinkFits
<1>3. /\ length \in Nat /\ left \in Nat \ {0} /\ p \in Nat \ {0}
      /\ link.sent \in Nat /\ link.connection \in Nat /\ link.born \in Seq(Nat)
  <2>1. length \in Nat \ {0} /\ p \in Nat \ {0}
    <3>1. /\ Len(Stream(p)) = 3 + environment.packets[p].units
          /\ environment.packets[p].units \in Nat \ {0} /\ p \in Nat \ {0}
      BY ONLY <1>1, <1>2, PacketsType, StreamIs
    <3> QED BY ONLY <3>1
  <2>2. link.sent \in Nat /\ (link.sent > 0 => link.sent < length)
    BY <1>0, <1>2 DEF LinkFits, LinkType
  <2> HIDE DEF length
  <2>3. left \in Nat \ {0}
    BY <2>1, <2>2
  <2> QED BY <1>2, <2>1, <2>2, <2>3 DEF LinkType
<1>4. PICK n \in 1 .. Min({MaxPiece, left}) :
        LET kept == Min({n, MaxIncoming - Len(incoming)}) IN
        /\ incoming' = incoming \o SubSeq(Stream(p), link.sent + 1, link.sent + kept)
        /\ link' = [link EXCEPT
                      !.next = IF n = left THEN p + 1 ELSE p,
                      !.sent = IF n = left THEN 0 ELSE @ + n,
                      !.lost = IF kept < n THEN @ \cup {p} ELSE @,
                      !.born = IF link.sent = 0 THEN Append(@, link.connection) ELSE @]
  BY ONLY Receive, <1>0 DEF Receive
<1>5. n \in Nat \ {0} /\ n <= left
  <2>1. MaxPiece \in Int /\ left \in Int
    BY <1>3, WebUsbAssumption
  <2> HIDE DEF left
  <2>2. Min({MaxPiece, left}) \in {MaxPiece, left} /\ Min({MaxPiece, left}) <= left
    BY <2>1, MinIs
  <2> QED BY <2>1, <2>2
<1> DEFINE kept == Min({n, MaxIncoming - Len(incoming)})
<1>6. kept \in Nat /\ kept <= n /\ kept <= MaxIncoming - Len(incoming) /\ Len(incoming) \in Nat
  <2>1. Len(incoming) \in Nat /\ Len(incoming) <= MaxIncoming
    BY <1>2, LenProperties DEF AnswersFit, WebInv, UnitsFit
  <2>2. MaxIncoming - Len(incoming) \in Nat
    BY <2>1, WebUsbAssumption
  <2>3. PICK room : room = MaxIncoming - Len(incoming)
    OBVIOUS
  <2>4. Min({n, room}) \in {n, room} /\ Min({n, room}) <= n /\ Min({n, room}) <= room
    <3>1. n \in Int /\ room \in Int
      BY <1>5, <2>2, <2>3
    <3> QED BY ONLY <3>1, MinIs
  <2> QED BY <1>5, <2>1, <2>2, <2>3, <2>4
<1> DEFINE piece == SubSeq(Stream(p), link.sent + 1, link.sent + kept)
<1>7. incoming' = incoming \o piece
  BY <1>4
<1>8. /\ link'.next = (IF n = left THEN p + 1 ELSE p)
      /\ link'.sent = (IF n = left THEN 0 ELSE link.sent + n)
      /\ link'.connection = link.connection
      /\ link'.born = (IF link.sent = 0 THEN Append(link.born, link.connection) ELSE link.born)
      /\ link'.lost = (IF kept < n THEN link.lost \cup {p} ELSE link.lost)
      /\ link'.executed = link.executed
      /\ link'.delivered = link.delivered /\ link'.twice = link.twice
      /\ link'.inHand = link.inHand /\ link'.fresh = link.fresh
      /\ LinkType'
  <2> HIDE DEF kept, left
  <2>1. link' = [link EXCEPT
                      !.next = IF n = left THEN p + 1 ELSE p,
                      !.sent = IF n = left THEN 0 ELSE link.sent + n,
                      !.lost = IF kept < n THEN link.lost \cup {p} ELSE link.lost,
                      !.born = IF link.sent = 0 THEN Append(link.born, link.connection) ELSE link.born]
    BY <1>4 DEF kept
  <2>2. (IF kept < n THEN link.lost \cup {p} ELSE link.lost) \in SUBSET Packets
    BY <1>1, <1>2 DEF LinkType
  <2>3. (IF link.sent = 0 THEN Append(link.born, link.connection) ELSE link.born) \in Seq(Nat)
    BY <1>3
  <2>4. /\ (IF n = left THEN p + 1 ELSE p) \in Nat \ {0}
        /\ (IF n = left THEN 0 ELSE link.sent + n) \in Nat
    BY <1>3, <1>5
  <2>5. Packets' = Packets
    BY EnvironmentKeeps
  <2> QED BY <1>2, <2>1, <2>2, <2>3, <2>4, <2>5 DEF LinkType
<1> HIDE DEF kept
<1>9. /\ piece \in Seq(Units) /\ Len(piece) = kept /\ Sorted(piece)
      /\ \A u \in Range(piece) :
           IsUnit(u) /\ u.packet = p /\ link.sent < Rank(u) /\ Rank(u) <= link.sent + kept
      /\ \A k \in link.sent + 1 .. link.sent + kept : Stream(p)[k] \in Range(piece)
  <2>1. link.sent + kept <= Len(Stream(p))
    BY <1>3, <1>5, <1>6
  <2>2. /\ environment \in Environments /\ p \in Packets /\ link.sent \in Nat /\ kept \in Nat
        /\ link.sent + kept <= Len(Stream(p))
    BY ONLY <1>1, <1>2, <1>3, <1>6, <2>1
  <2>3. PICK sent : sent = link.sent
    OBVIOUS
  <2>4. PICK added : added = SubSeq(Stream(p), sent + 1, sent + kept)
    OBVIOUS
  <2>5. /\ added \in Seq(Units) /\ Len(added) = kept /\ Sorted(added)
        /\ \A u \in Range(added) :
             IsUnit(u) /\ u.packet = p /\ sent < Rank(u) /\ Rank(u) <= sent + kept
        /\ \A k \in sent + 1 .. sent + kept : Stream(p)[k] \in Range(added)
    BY ONLY <2>2, <2>3, <2>4, PieceIs
  <2> QED BY ONLY <2>3, <2>4, <2>5
<1> HIDE DEF piece
<1>10. /\ Len(link'.born) = Len(link.born) + (IF link.sent = 0 THEN 1 ELSE 0)
       /\ Len(link.born) \in Nat
       /\ DOMAIN link.born = 1 .. Len(link.born) /\ DOMAIN link'.born = 1 .. Len(link'.born)
       /\ \A q \in DOMAIN link.born : link'.born[q] = link.born[q]
       /\ link.sent = 0 => link'.born[Len(link.born) + 1] = link.connection
       /\ Len(link.born) = (IF link.sent = 0 THEN p - 1 ELSE p)
  <2>1. Len(link.born) = (IF link.sent = 0 THEN p - 1 ELSE p)
    BY <1>0, <1>2 DEF LinkFits
  <2>2. link'.born \in Seq(Nat)
    BY <1>8 DEF LinkType
  <2>3. /\ Len(link.born) \in Nat /\ DOMAIN link.born = 1 .. Len(link.born)
        /\ DOMAIN link'.born = 1 .. Len(link'.born)
    BY <1>3, <2>2, LenProperties
  <2>4. CASE link.sent = 0
    BY <1>3, <1>8, <2>1, <2>3, <2>4, AppendProperties
  <2>5. CASE link.sent # 0
    BY <1>8, <2>1, <2>3, <2>5
  <2> QED BY <2>4, <2>5
<1>11. link'.born[p] = link.connection /\ Len(link'.born) = p
  <2>1. CASE link.sent = 0
    BY <1>3, <1>10, <2>1
  <2>2. CASE link.sent # 0
    <3>1. Current(p)
      BY <1>0, <1>2, <1>3, <2>2 DEF LinkFits
    <3> QED BY <1>3, <1>10, <2>2, <3>1 DEF Current
  <2> QED BY <2>1, <2>2
<1>12. Received(p, n, kept, piece)
  BY <1>1, <1>5, <1>6, <1>7, <1>8, <1>9, <1>10, <1>11 DEF Received
<1> QED BY <1>5, <1>6, <1>12

LEMMA ReceiveKeeps ==
  ASSUME WebInv, environment' = environment, Receive
  PROVE  WebInv'
<1>0. PICK p : p = link.next
  OBVIOUS
<1>5. PICK n \in Nat \ {0} : \E kept \in Nat : \E piece : Received(p, n, kept, piece)
  BY <1>0, ReceiveIs
<1>6. PICK kept \in Nat : \E piece : Received(p, n, kept, piece)
  BY <1>5
<1>7. PICK piece : Received(p, n, kept, piece)
  BY <1>6
<1> DEFINE length == Len(Stream(p))
           left == length - link.sent
<1>1. UNCHANGED <<pc, parser, rest, executing, outgoing, writing, onBus, screens>> /\ p \in Packets
  BY <1>7 DEF Received
<1>2. LinkFits /\ LinkType /\ AnswersFresh /\ ExecutedFits /\ AnswersFit /\ environment \in Environments
  BY DEF WebInv, LinkFits
<1>3. /\ length \in Nat /\ p \in Nat \ {0}
      /\ link.sent \in Nat /\ link.connection \in Nat /\ link.born \in Seq(Nat)
  BY <1>1, <1>2, PacketsType, StreamIs DEF LinkType
<1>4. /\ n <= left /\ kept <= n /\ kept <= MaxIncoming - Len(incoming)
      /\ incoming' = incoming \o piece
      /\ Len(incoming) \in Nat
  BY <1>7, LenProperties DEF Received, WebInv, UnitsFit
<1>8. /\ link'.next = (IF n = left THEN p + 1 ELSE p)
      /\ link'.sent = (IF n = left THEN 0 ELSE link.sent + n)
      /\ link'.connection = link.connection
      /\ link'.executed = link.executed
      /\ link'.delivered = link.delivered /\ link'.twice = link.twice
      /\ link'.inHand = link.inHand /\ link'.fresh = link.fresh
      /\ LinkType'
  BY <1>7 DEF Received
<1>9. /\ piece \in Seq(Units) /\ Len(piece) = kept /\ Sorted(piece)
      /\ \A u \in Range(piece) :
           IsUnit(u) /\ u.packet = p /\ link.sent < Rank(u) /\ Rank(u) <= link.sent + kept
  BY <1>7 DEF Received
<1>10. /\ Len(link'.born) = p /\ Len(link.born) = (IF link.sent = 0 THEN p - 1 ELSE p)
       /\ DOMAIN link.born = 1 .. Len(link.born) /\ DOMAIN link'.born = 1 .. p
       /\ \A q \in DOMAIN link.born : link'.born[q] = link.born[q]
       /\ link'.born[p] = link.connection
  BY <1>7 DEF Received
<1>11. \A q : (Current(q) => Current(q)') /\ (Ours(q) => Ours(q)')
  BY <1>3, <1>8, <1>10 DEF Current, Ours, MayAnswer
<1>12. Current(p)' /\ Ours(p)'
  BY <1>3, <1>8, <1>10 DEF Current, Ours, MayAnswer
<1>13. \A q : (Executed(q)' <=> Executed(q)) /\ (Delivered(q)' <=> Delivered(q))
  BY <1>8 DEF Executed, Delivered
<1>14. Packets' = Packets /\ Units' = Units /\ (\A q : Stream(q)' = Stream(q)) /\ \A u : IsUnit(u)' <=> IsUnit(u)
  BY EnvironmentKeeps
<1>15. LinkFits'
  <2>1. link'.sent > 0 => /\ n # left /\ link'.next = p /\ link'.sent = link.sent + n
                          /\ link'.sent < length
    <3> SUFFICES ASSUME link'.sent > 0
                 PROVE  /\ n # left /\ link'.next = p /\ link'.sent = link.sent + n
                        /\ link'.sent < length
      OBVIOUS
    <3>1. n # left /\ link'.next = p /\ link'.sent = link.sent + n
      BY <1>8
    <3>2. /\ length \in Nat /\ link.sent \in Nat /\ n \in Nat /\ n <= length - link.sent
          /\ n # length - link.sent
      BY <1>3, <1>4, <3>1
    <3> HIDE DEF length
    <3>3. link.sent + n < length
      BY ONLY <3>2
    <3> QED BY ONLY <3>1, <3>3
  <2>3. Len(link'.born) = IF link'.sent = 0 THEN link'.next - 1 ELSE link'.next
    BY <1>3, <1>4, <1>8, <1>10
  <2>4. \A a \in link'.delivered : a.on <= link'.connection
    BY <1>2, <1>8 DEF LinkFits
  <2>5. Len(link'.inHand) = link'.connection
    BY <1>2, <1>8 DEF LinkFits
  <2> QED BY <1>1, <1>8, <1>12, <1>14, <2>1, <2>3, <2>4, <2>5 DEF LinkFits
<1>16. AnswersFresh'
  <2>1. ASSUME NEW a \in link.delivered, a.packet # NoPacket
        PROVE  Executed(a.packet) /\ MayAnswer(a.packet, a.on)'
    <3>1. Executed(a.packet) /\ MayAnswer(a.packet, a.on)
      BY <1>2, <2>1 DEF AnswersFresh
    <3>2. a.packet \in DOMAIN link.born
      <4>1. a.packet \in Done
        BY <3>1 DEF Done, Executed, Range
      <4>2. a.packet \in Nat \ {0} /\ a.packet < p
        BY <1>0, <1>2, <4>1, PacketsType DEF ExecutedFits
      <4> QED BY <1>3, <1>10, <4>2
    <3> QED BY <1>8, <1>10, <3>1, <3>2 DEF MayAnswer
  <2> QED BY <1>2, <1>8, <1>13, <2>1 DEF AnswersFresh
<1>17. ParserFits'
  BY <1>1, <1>14 DEF WebInv, ParserFits
<1>18. Done' = Done
  BY <1>1, <1>8 DEF Done
<1>19. /\ Range(incoming') = Range(incoming) \cup Range(piece)
       /\ incoming' \in Seq(Units) /\ Len(incoming') = Len(incoming) + kept
  <2>1. incoming \in Seq(Units) /\ piece \in Seq(Units)
    BY <1>9 DEF WebInv, UnitsFit
  <2>2. Range(incoming \o piece) = Range(incoming) \cup Range(piece)
    BY ONLY <2>1, RangeConcat
  <2>3. incoming \o piece \in Seq(Units) /\ Len(incoming \o piece) = Len(incoming) + Len(piece)
    BY ONLY <2>1, ConcatIs
  <2> QED BY ONLY <1>4, <1>9, <2>2, <2>3
<1>20. ASSUME NEW u \in Kept, NEW v \in Range(piece) PROVE Before(u, v)
  <2>1. u.packet <= link.next /\ (u.packet = link.next => Rank(u) <= link.sent) /\ IsUnit(u)
    BY DEF WebInv, UnitsFit
  <2>2. v.packet = p /\ link.sent < Rank(v) /\ IsUnit(v)
    BY <1>9
  <2>3. u.packet \in Nat /\ Rank(u) \in Nat /\ Rank(v) \in Nat
    BY <1>2, <2>1, <2>2, UnitIs
  <2> QED BY <1>0, <1>3, <2>1, <2>2, <2>3 DEF Before
<1>21. UnitsFit'
  <2>1. /\ Kept' = Kept \cup Range(piece) /\ Pending' = Pending \cup Range(piece)
        /\ Range(rest) \subseteq Kept /\ Range(incoming) \subseteq Kept /\ Range(parser.body) \subseteq Kept
    BY <1>1, <1>19 DEF Kept, Pending
  <2>2. /\ \A u : Rank(u)' = Rank(u)
        /\ \A u, v : Before(u, v)' <=> Before(u, v)
    BY DEF Rank, Before
  <2>3. Sorted(incoming \o piece)
    BY <1>9, <1>20, <2>1, SortedConcat DEF WebInv, UnitsFit
  <2>4. Sorted(rest)' /\ Sorted(incoming)'
    BY <1>1, <1>4, <2>2, <2>3 DEF WebInv, UnitsFit, Sorted
  <2>5. ASSUME NEW u \in Kept'
        PROVE  /\ IsUnit(u) /\ Ours(u.packet)' /\ (link'.fresh => Current(u.packet)')
               /\ u.packet <= link'.next /\ (u.packet = link'.next => Rank(u) <= link'.sent)
               /\ \A q \in Done : q < u.packet
    <3>1. CASE u \in Kept
      <4>1. /\ IsUnit(u) /\ Ours(u.packet) /\ (link.fresh => Current(u.packet))
            /\ u.packet <= link.next /\ (u.packet = link.next => Rank(u) <= link.sent)
            /\ \A q \in Done : q < u.packet
        BY <3>1 DEF WebInv, UnitsFit
      <4>2. u.packet \in Nat /\ Rank(u) \in Nat
        BY <1>2, <4>1, UnitIs
      <4>3. u.packet <= link'.next /\ (u.packet = link'.next => Rank(u) <= link'.sent)
        BY <1>0, <1>3, <1>4, <1>8, <4>1, <4>2
      <4> QED BY <1>8, <1>11, <4>1, <4>3
    <3>2. CASE u \in Range(piece)
      <4>1. IsUnit(u) /\ u.packet = p /\ Rank(u) <= link.sent + kept
        BY <1>9, <3>2
      <4>2. Rank(u) \in Nat
        BY <1>2, <4>1, UnitIs
      <4>3. u.packet <= link'.next /\ (u.packet = link'.next => Rank(u) <= link'.sent)
        BY <1>3, <1>4, <1>8, <4>1, <4>2
      <4>4. \A q \in Done : q < p
        BY <1>0, <1>2 DEF ExecutedFits
      <4> QED BY <1>12, <4>1, <4>3, <4>4
    <3> QED BY <2>1, <3>1, <3>2
  <2>6. /\ \A u \in Range(parser.body), v \in Pending' : Before(u, v)
        /\ \A u \in Range(rest), v \in Range(incoming') : Before(u, v)
    BY <1>19, <1>20, <2>1 DEF WebInv, UnitsFit
  <2>7. rest \in Seq(Units)
    BY DEF WebInv, UnitsFit
  <2> QED BY <1>1, <1>14, <1>18, <1>19, <2>2, <2>4, <2>5, <2>6, <2>7 DEF UnitsFit
<1>22. ExecutedFits'
  <2>1. \A q \in Done : q < link'.next
    BY <1>0, <1>2, <1>3, <1>8, PacketsType DEF ExecutedFits
  <2> QED BY <1>1, <1>2, <1>8, <1>11, <1>13, <1>14, <1>18, <2>1 DEF ExecutedFits, At
<1>23. AnswersFit'
  <2>1. Len(incoming') <= MaxIncoming
    BY <1>4, <1>19, WebUsbAssumption
  <2>2. \A q : (Queueing(q)' <=> Queueing(q)) /\ (Writing(q)' <=> Writing(q)) /\ (OnBus(q)' <=> OnBus(q))
    BY <1>1 DEF Queueing, Writing, OnBus
  <2> QED BY <1>1, <1>2, <1>11, <1>13, <1>14, <2>1, <2>2 DEF AnswersFit
<1> QED BY <1>1, <1>2, <1>15, <1>16, <1>17, <1>21, <1>22, <1>23 DEF WebInv

-----------------------------------------------------------------------------
(* The parser *)

\* What the parser has between two units, which ParserFits bounds further.
ParserOK(q) ==
  /\ q \in [idx: Int, size: Nat, body: Seq(Units)]
  /\ q.idx >= -2
  /\ q.idx <= 0 => q.body = <<>>
  /\ q.idx > 0 => q.idx = Len(q.body) + 1

LEMMA AcceptIs ==
  ASSUME WebInv, NEW u \in Units, u.packet \in Packets, NEW q, q = Accept(parser, u)
  PROVE  /\ ParserOK(q)
         /\ q.idx > 0 => Len(q.body) <= q.size
         /\ Range(q.body) \subseteq Range(parser.body) \cup {u}
         /\ Complete(q) => q.body = Append(parser.body, u)
<1>0. Range(<<>>) = {}
  BY DEF Range
<1>1. /\ parser \in [idx: Int, size: Nat, body: Seq(Units)] /\ parser.idx >= -2
      /\ parser.idx <= 0 => parser.body = <<>>
      /\ parser.idx > 0 => parser.idx = Len(parser.body) + 1 /\ Len(parser.body) < parser.size
      /\ Len(parser.body) \in Nat
  BY LenProperties DEF WebInv, ParserFits
<1>2. StartOver \in [idx: Int, size: Nat, body: Seq(Units)] /\ StartOver.idx = -2 /\ StartOver.body = <<>>
  BY DEF StartOver
<1>3. ASSUME NEW s \in [idx: Int, size: Nat, body: Seq(Units)], s.body = <<>>, NEW m, m = InMagic(s, u)
      PROVE  /\ m \in [idx: Int, size: Nat, body: Seq(Units)] /\ m.body = <<>>
             /\ m.idx \in {-2, -1, 0}
  <2>1. CASE s.idx = -2 /\ u.kind = "magic1"
    <3>1. m = [s EXCEPT !.idx = -1]
      BY <1>3, <2>1 DEF InMagic
    <3> QED BY <1>3, <3>1
  <2>2. CASE s.idx = -1 /\ u.kind = "magic2"
    <3>1. m = [s EXCEPT !.idx = 0]
      BY <1>3, <2>2 DEF InMagic
    <3> QED BY <1>3, <3>1
  <2>3. CASE ~(s.idx = -2 /\ u.kind = "magic1") /\ ~(s.idx = -1 /\ u.kind = "magic2")
    BY <1>2, <1>3, <2>3 DEF InMagic
  <2> QED BY <2>1, <2>2, <2>3
<1>4. ASSUME NEW m \in [idx: Int, size: Nat, body: Seq(Units)], m.body = <<>>, m.idx \in {-2, -1, 0}, q = m
      PROVE  /\ ParserOK(q) /\ ~(q.idx > 0)
             /\ Range(q.body) \subseteq Range(parser.body) \cup {u}
  BY <1>0, <1>4 DEF ParserOK
<1>5. CASE parser.idx < 0
  <2>1. q = InMagic(parser, u) /\ parser.body = <<>>
    BY <1>1, <1>5 DEF Accept
  <2> QED BY <1>1, <1>3, <1>4, <2>1 DEF Complete
<1>6. CASE parser.idx = 0
  <2>1. q = InSize(u)
    BY <1>6 DEF Accept
  <2>2. CASE u.kind = "size"
    <3>1. q = [idx |-> 1, size |-> environment.packets[u.packet].units, body |-> <<>>]
      BY <2>1, <2>2 DEF InSize
    <3>2. environment.packets[u.packet].units \in Nat \ {0}
      BY PacketsType DEF WebInv
    <3>3. q \in [idx: Int, size: Nat, body: Seq(Units)] /\ q.idx = 1 /\ Len(q.body) = 0
          /\ q.body = <<>> /\ q.size # 0
      BY <3>1, <3>2
    <3> QED BY <1>0, <3>3 DEF ParserOK, Complete
  <2>3. CASE u.kind # "size"
    <3>1. q = InMagic(StartOver, u)
      BY <2>1, <2>3 DEF InSize
    <3> QED BY <1>2, <1>3, <1>4, <3>1 DEF Complete
  <2> QED BY <2>2, <2>3
<1>7. CASE parser.idx > 0
  <2>1. q = [parser EXCEPT !.idx = @ + 1, !.body = Append(@, u)]
    BY <1>1, <1>7 DEF Accept, InBody
  <2>2. /\ Append(parser.body, u) \in Seq(Units)
        /\ Len(Append(parser.body, u)) = Len(parser.body) + 1
        /\ Range(Append(parser.body, u)) = Range(parser.body) \cup {u}
    BY <1>1, AppendProperties, RangeAppend
  <2>3. /\ q \in [idx: Int, size: Nat, body: Seq(Units)]
        /\ q.idx = parser.idx + 1 /\ q.size = parser.size /\ q.body = Append(parser.body, u)
    <3> DEFINE longer == Append(parser.body, u)
               next == parser.idx + 1
    <3>1. longer \in Seq(Units) /\ next \in Int
      BY <1>1, <2>2
    <3>2. q = [parser EXCEPT !.idx = next, !.body = longer]
      BY <2>1
    <3> HIDE DEF longer, next
    <3>3. /\ q \in [idx: Int, size: Nat, body: Seq(Units)]
          /\ q.idx = next /\ q.size = parser.size /\ q.body = longer
      BY <1>1, <3>1, <3>2
    <3> QED BY <3>3 DEF longer, next
  <2> QED BY <1>1, <1>7, <2>2, <2>3 DEF ParserOK
<1> QED BY <1>1, <1>5, <1>6, <1>7

\* A unit was taken out of the data, and what the parser made of it.
Parsed(u, q) ==
  /\ UNCHANGED <<incoming, outgoing, writing, onBus, screens, link>>
  /\ pc[Core1] = "parse" /\ rest # <<>>
  /\ parser' = (IF Complete(q) THEN StartOver ELSE q)
  /\ IF Complete(q) /\ CrcMatches(q)
       THEN executing' = q.body[1].packet /\ Goes(Core1, "execute")
       ELSE UNCHANGED <<pc, executing>>
  /\ rest' \in Seq(Units) /\ Range(rest) = {u} \cup Range(rest') /\ Sorted(rest')
  /\ u \in Units /\ u \in Kept /\ u \in Pending /\ IsUnit(u)
  /\ u.packet \in Packets /\ u.packet \in Nat \ {0} /\ Rank(u) \in Nat
  /\ \A v \in Pending' : Before(u, v) /\ v \in Pending
  /\ Pending = {u} \cup Pending'
  /\ ParserOK(q)
  /\ q.idx > 0 => Len(q.body) <= q.size
  /\ Range(q.body) \subseteq Range(parser.body) \cup {u}
  /\ Complete(q) => q.body = Append(parser.body, u)

LEMMA ParseIs ==
  ASSUME WebInv, environment' = environment, Parse,
         NEW u, u = Head(rest), NEW q, q = Accept(parser, u)
  PROVE  Parsed(u, q)
<1>0. u = Head(rest) /\ q = Accept(parser, u)
  OBVIOUS
<1>1. /\ UNCHANGED <<incoming, outgoing, writing, onBus, screens, link>>
      /\ pc[Core1] = "parse" /\ rest # <<>> /\ rest' = Tail(rest)
      /\ parser' = (IF Complete(q) THEN StartOver ELSE q)
      /\ IF Complete(q) /\ CrcMatches(q)
           THEN executing' = q.body[1].packet /\ Goes(Core1, "execute")
           ELSE UNCHANGED <<pc, executing>>
  BY <1>0 DEF Parse, At
<1>2. /\ UnitsFit /\ ParserFits /\ ExecutedFits /\ LinkFits /\ LinkType /\ environment \in Environments
      /\ executing = NoPacket
  BY <1>1 DEF WebInv, LinkFits, ExecutedFits
<1>3. /\ rest' \in Seq(Units) /\ Len(rest) \in Nat \ {0} /\ Len(rest') = Len(rest) - 1
      /\ u = rest[1] /\ u \in Units
      /\ \A i \in 1 .. Len(rest) - 1 : rest'[i] = rest[i + 1]
      /\ Range(rest) = {u} \cup Range(rest')
  BY <1>0, <1>1, <1>2, RangeTail DEF UnitsFit
<1>4. DOMAIN rest = 1 .. Len(rest) /\ DOMAIN rest' = 1 .. Len(rest) - 1
  BY <1>2, <1>3, LenProperties DEF UnitsFit
<1>5. /\ u \in Kept /\ u \in Pending /\ IsUnit(u)
      /\ u.packet \in Packets /\ u.packet \in Nat \ {0} /\ Rank(u) \in Nat
  <2>1. u \in Kept /\ u \in Pending
    BY <1>3 DEF Kept, Pending
  <2> QED BY <1>2, <2>1, UnitIs DEF UnitsFit
<1>6. Sorted(rest')
  <2> SUFFICES ASSUME NEW i \in 1 .. Len(rest) - 1, NEW j \in 1 .. Len(rest) - 1, i < j
               PROVE  Before(rest'[i], rest'[j])
    BY <1>4 DEF Sorted
  <2>1. i + 1 \in 1 .. Len(rest) /\ j + 1 \in 1 .. Len(rest) /\ i + 1 < j + 1
    BY <1>3
  <2>2. Before(rest[i + 1], rest[j + 1])
    BY <1>2, <1>4, <2>1 DEF UnitsFit, Sorted
  <2> QED BY <1>3, <2>2
<1>7. ASSUME NEW v \in Range(rest') PROVE Before(u, v)
  <2>1. PICK i \in 1 .. Len(rest') : rest'[i] = v
    BY <1>3, RangeIs
  <2>2. i + 1 \in DOMAIN rest /\ 1 \in DOMAIN rest /\ 1 < i + 1 /\ rest[i + 1] = v
    BY <1>3, <1>4, <2>1
  <2> QED BY <1>2, <1>3, <2>2 DEF UnitsFit, Sorted
<1>8. ASSUME NEW v \in Pending' PROVE Before(u, v) /\ v \in Pending
  <2>1. v \in Range(rest') \/ v \in Range(incoming)
    BY <1>1 DEF Pending
  <2>2. CASE v \in Range(rest')
    BY <1>3, <1>7, <2>2 DEF Pending
  <2>3. CASE v \in Range(incoming)
    BY <1>2, <1>3, <2>3 DEF UnitsFit, Pending
  <2> QED BY <2>1, <2>2, <2>3
<1>9. /\ ParserOK(q)
      /\ q.idx > 0 => Len(q.body) <= q.size
      /\ Range(q.body) \subseteq Range(parser.body) \cup {u}
      /\ Complete(q) => q.body = Append(parser.body, u)
  BY <1>0, <1>3, <1>5, AcceptIs
<1>10. Pending = {u} \cup Pending'
  BY <1>1, <1>3 DEF Pending
<1> QED BY <1>1, <1>3, <1>5, <1>6, <1>8, <1>9, <1>10 DEF Parsed

\* When the last unit of a packet makes it complete, it is executed.
LEMMA ParsedPacket ==
  ASSUME WebInv, NEW u, NEW q, Parsed(u, q), Complete(q), CrcMatches(q)
  PROVE  /\ executing' = u.packet /\ pc' \in [Cores -> Places] /\ pc'[Core1] = "execute"
         /\ Rank(u) = Len(Stream(u.packet)) /\ Len(Stream(u.packet)) \in Nat \ {0}
<1>1. /\ executing' = q.body[1].packet /\ Goes(Core1, "execute")
      /\ u \in Kept /\ u \in Units /\ Range(q.body) \subseteq Range(parser.body) \cup {u}
      /\ q.body = Append(parser.body, u)
  BY DEF Parsed
<1>2. UnitsFit /\ ParserFits /\ environment \in Environments
  BY DEF WebInv
<1>3. PICK x : x = q.body[1].packet
  OBVIOUS
<1>4. executing' = x /\ pc' \in [Cores -> Places] /\ pc'[Core1] = "execute"
  BY <1>1, <1>3, CoresType, GoesIs DEF WebInv, Places
<1>5. /\ parser.body \in Seq(Units) /\ Len(parser.body) \in Nat
      /\ q.body \in Seq(Units) /\ Len(q.body) = Len(parser.body) + 1
      /\ q.body[Len(q.body)] = u
  <2>1. parser.body \in Seq(Units)
    BY <1>2 DEF ParserFits
  <2>2. /\ Append(parser.body, u) \in Seq(Units) /\ Len(parser.body) \in Nat
        /\ Len(Append(parser.body, u)) = Len(parser.body) + 1
        /\ Append(parser.body, u)[Len(parser.body) + 1] = u
    BY <1>1, <2>1, AppendProperties, LenProperties
  <2> QED BY ONLY <1>1, <2>1, <2>2
<1>6. x \in Packets
  <2>1. 1 \in 1 .. Len(q.body)
    BY <1>5
  <2>2. q.body[1] \in Range(q.body)
    BY <1>5, <2>1, RangeIs
  <2>3. q.body[1] \in Kept
    BY <1>1, <2>2 DEF Kept
  <2> QED BY <1>2, <1>3, <2>3, UnitIs DEF UnitsFit
<1>7. /\ u = Unit("body", x, environment.packets[x].units)
      /\ Len(Stream(x)) = 3 + environment.packets[x].units
      /\ environment.packets[x].units \in Nat \ {0}
  <2>1. /\ Len(Body(x)) = environment.packets[x].units
        /\ environment.packets[x].units \in Nat \ {0}
        /\ \A n \in 1 .. environment.packets[x].units : Body(x)[n] = Unit("body", x, n)
        /\ Len(Stream(x)) = 3 + environment.packets[x].units
    BY <1>2, <1>6, StreamIs, PacketsType
  <2>2. q.body = Body(x)
    BY <1>3 DEF CrcMatches
  <2>3. environment.packets[x].units \in 1 .. environment.packets[x].units
    BY <2>1
  <2> QED BY <1>5, <2>1, <2>2, <2>3
<1>8. u.packet = x /\ Rank(u) = Len(Stream(x)) /\ Len(Stream(x)) \in Nat \ {0}
  BY <1>7 DEF Unit, Rank
<1> QED BY <1>4, <1>8

LEMMA ParseKeeps ==
  ASSUME WebInv, environment' = environment, Parse
  PROVE  WebInv'
<1>0. PICK u : u = Head(rest)
  OBVIOUS
<1>00. PICK q : q = Accept(parser, u)
  OBVIOUS
<1>7. Parsed(u, q)
  BY <1>0, <1>00, ParseIs
<1>1. /\ UNCHANGED <<incoming, outgoing, writing, onBus, screens, link>>
      /\ pc[Core1] = "parse" /\ rest # <<>>
      /\ parser' = (IF Complete(q) THEN StartOver ELSE q)
      /\ IF Complete(q) /\ CrcMatches(q)
           THEN executing' = q.body[1].packet /\ Goes(Core1, "execute")
           ELSE UNCHANGED <<pc, executing>>
  BY <1>7 DEF Parsed
<1>2. /\ UnitsFit /\ ParserFits /\ ExecutedFits /\ LinkFits /\ LinkType /\ environment \in Environments
      /\ executing = NoPacket
  BY <1>1 DEF WebInv, LinkFits, ExecutedFits
<1>3. /\ rest' \in Seq(Units) /\ Range(rest) = {u} \cup Range(rest') /\ Sorted(rest')
  BY <1>7 DEF Parsed
<1>5. /\ u \in Kept /\ u \in Pending /\ IsUnit(u)
      /\ u.packet \in Packets /\ u.packet \in Nat \ {0} /\ Rank(u) \in Nat
  BY <1>7 DEF Parsed
<1>8. ASSUME NEW v \in Pending' PROVE Before(u, v) /\ v \in Pending
  BY <1>7 DEF Parsed
<1>9. /\ ParserOK(q)
      /\ q.idx > 0 => Len(q.body) <= q.size
      /\ Range(q.body) \subseteq Range(parser.body) \cup {u}
      /\ Complete(q) => q.body = Append(parser.body, u)
  BY <1>7 DEF Parsed
<1>10. Range(parser'.body) \subseteq Range(parser.body) \cup {u}
  <2>1. Range(<<>>) = {}
    BY DEF Range
  <2> QED BY <1>1, <1>9, <2>1 DEF StartOver
<1>11. ParserFits'
  <2>1. Units' = Units
    BY EnvironmentKeeps
  <2>2. CASE Complete(q)
    BY <1>1, <2>2 DEF ParserFits, StartOver
  <2>3. CASE ~Complete(q)
    <3>1. q.idx > 0 => Len(q.body) < q.size
      BY <1>9, <2>3, LenProperties DEF Complete, ParserOK
    <3>2. parser' = q
      BY <1>1, <2>3
    <3> QED BY <1>9, <2>1, <3>1, <3>2 DEF ParserFits, ParserOK
  <2> QED BY <2>2, <2>3
<1>12. /\ Kept' \subseteq Kept
       /\ \A w \in Range(parser'.body), v \in Pending' : Before(w, v)
       /\ \A w \in Range(rest'), v \in Range(incoming') : Before(w, v)
       /\ Sorted(rest)' /\ Sorted(incoming)' /\ incoming' \in Seq(Units)
  <2>1. Kept' \subseteq Kept
    BY <1>1, <1>3, <1>10 DEF Kept, Pending
  <2>2. \A w \in Range(parser'.body), v \in Pending' : Before(w, v)
    BY <1>2, <1>8, <1>10 DEF UnitsFit
  <2>3. \A w \in Range(rest'), v \in Range(incoming') : Before(w, v)
    BY <1>1, <1>2, <1>3 DEF UnitsFit
  <2>4. \A v, w : Before(v, w)' <=> Before(v, w)
    BY DEF Before, Rank
  <2> QED BY <1>1, <1>2, <1>3, <2>1, <2>2, <2>3, <2>4 DEF UnitsFit, Sorted
<1>13. LinkFits' /\ AnswersFresh'
  BY <1>1, LinkKeeps DEF WebInv
<1>14. AnswersFit'
  BY <1>1, AnswersKeep DEF WebInv, AnswersFit
<1>15. /\ Packets' = Packets
       /\ \A p : (Current(p)' <=> Current(p)) /\ (Ours(p)' <=> Ours(p)) /\ (Executed(p)' <=> Executed(p))
  BY <1>1, EnvironmentKeeps, LinkKeeps
<1>16. CASE ~(Complete(q) /\ CrcMatches(q))
  <2>1. UNCHANGED <<pc, executing>>
    BY <1>1, <1>16
  <2>2. Done' = Done
    BY <1>1, <2>1 DEF Done
  <2>3. UnitsFit'
    BY <1>1, <1>2, <1>3, <1>12, <2>2, UnitsKeep
  <2>4. ExecutedFits'
    BY <1>1, <1>2, <1>15, <2>1, <2>2 DEF ExecutedFits, At
  <2> QED BY <1>11, <1>13, <1>14, <2>1, <2>3, <2>4 DEF WebInv
<1>17. CASE Complete(q) /\ CrcMatches(q)
  <2>0. PICK x : x = u.packet
    OBVIOUS
  <2>1. /\ executing' = x /\ pc' \in [Cores -> Places] /\ pc'[Core1] = "execute"
        /\ u.packet = x /\ Rank(u) = Len(Stream(x)) /\ Len(Stream(x)) \in Nat \ {0}
        /\ x \in Packets
    BY <1>5, <1>7, <1>17, <2>0, ParsedPacket
  <2>6. /\ Ours(x) /\ x < link.next /\ x \in Nat \ {0}
        /\ \A p \in Done : p < x
    <3>1. /\ Ours(x) /\ x <= link.next /\ (x = link.next => Rank(u) <= link.sent)
          /\ \A p \in Done : p < x
      BY <1>2, <1>5, <2>1 DEF UnitsFit
    <3>2. x # link.next
      <4> SUFFICES ASSUME x = link.next PROVE FALSE
        OBVIOUS
      <4>1. Len(Stream(x)) <= link.sent /\ link.sent \in Nat /\ Len(Stream(x)) > 0
        BY <1>2, <2>1, <3>1 DEF LinkType
      <4>2. link.sent < Len(Stream(x))
        BY <1>2, <2>1, <4>1 DEF LinkFits
      <4> QED BY <2>1, <4>1, <4>2
    <3> QED BY <1>2, <1>5, <2>1, <3>1, <3>2 DEF LinkType
  <2>7. Done' = Range(link.executed) \cup {x} /\ Done = Range(link.executed)
    BY <1>1, <1>2, <2>1, <2>6 DEF Done, NoPacket
  <2>8. Kept' = Pending'
    <3>1. Range(<<>>) = {} /\ parser'.body = <<>>
      BY <1>1, <1>17 DEF Range, StartOver
    <3> QED BY <3>1 DEF Kept
  <2>9. ASSUME NEW v \in Kept' PROVE x < v.packet
    <3>1. Before(u, v) /\ v \in Pending
      BY <1>8, <2>8
    <3>2. IsUnit(v)
      BY <1>2, <3>1 DEF UnitsFit, Kept
    <3>3. v.packet \in Nat /\ Rank(v) \in Nat /\ Rank(v) <= Len(Stream(v.packet))
      <4>1. v.packet \in Nat /\ Rank(v) \in Nat /\ Rank(v) \in 1 .. Len(Stream(v.packet))
        BY <1>2, <3>2, UnitIs
      <4> QED BY <4>1
    <3>4. ~(u.packet = v.packet /\ Rank(u) < Rank(v))
      BY <2>1, <3>3
    <3> QED BY <2>1, <3>1, <3>4 DEF Before
  <2>10. UnitsFit'
    <3>1. \A p \in Done', w \in Kept' : p \in Done \/ p < w.packet
      BY <2>7, <2>9
    <3> QED BY <1>1, <1>2, <1>3, <1>12, <3>1, UnitsKeepAlso
  <2>11. ExecutedFits'
    <3>1. \A p \in Done' : p \in Packets /\ p < link.next
      BY <1>2, <2>1, <2>6, <2>7 DEF ExecutedFits
    <3>2. \A i \in DOMAIN link.executed : link.executed[i] < x
      BY <2>6, <2>7 DEF Range
    <3> QED BY <1>1, <1>2, <1>15, <2>1, <2>6, <3>1, <3>2 DEF ExecutedFits, At, NoPacket
  <2> QED BY <1>11, <1>13, <1>14, <2>1, <2>10, <2>11 DEF WebInv
<1> QED BY <1>16, <1>17

-----------------------------------------------------------------------------
(* The theorems *)

LEMMA WebSteps ==
  ASSUME WebInv, LoopsNext
  PROVE  WebInv'
<1>1. environment' = environment
  BY DEF LoopsNext
<1>2. CASE SerialStep /\ UNCHANGED webVars
  BY <1>1, <1>2, SerialKeeps
<1>3. CASE HandledWithEffect
  BY <1>1, <1>3, HandledKeeps
<1>4. CASE WebNext
  BY <1>1, <1>4, FlushBeginsKeeps, FlushEndsKeeps, TakeDataKeeps, ParseKeeps, ParseEndsKeeps, ExecuteKeeps,
     ResumeKeeps, BusAnswersKeeps, BusCancelsKeeps, ReceiveKeeps, ConnectKeeps
     DEF WebNext, WebCore0, WebCore1
<1>5. CASE Round
  BY <1>1, <1>5, RoundKeeps
<1> QED BY <1>2, <1>3, <1>4, <1>5 DEF LoopsNext

LEMMA WebStutters ==
  ASSUME WebInv, UNCHANGED <<environment, loopVars>>
  PROVE  WebInv'
BY ElsewhereKeeps DEF WebInv, loopVars

\* Whatever is kept of the WebUSB stream is of the connection there is, or was in hand when
\* that was made, and comes after all that was executed; and an answer is in one place at
\* most: queued, being written, sent or still due from the bus (WebUsbProcessorBase,
\* MaplePassthroughTransmitter).  A connection may be made at any time.
THEOREM WebInvariant == LoopsSpec => []WebInv
<1>1. LoopsInit => WebInv
  BY WebStart
<1>2. WebInv /\ [LoopsNext]_<<environment, loopVars>> => WebInv'
  BY WebSteps, WebStutters
<1> QED BY <1>1, <1>2, PTL DEF LoopsSpec

\* What goes out in a connection answers packets of that connection, or such as were being
\* executed, written or at the bus when it was made; each is answered at most once and only
\* when executed: for every size of the buffers and the queue of WebUsbProcessorBase, and
\* however many answers were due when the program connected anew.
THEOREM AnswersAlwaysFresh == LoopsSpec => []AnswersFresh
<1>1. WebInv => AnswersFresh
  BY DEF WebInv
<1> QED BY <1>1, WebInvariant, PTL

-----------------------------------------------------------------------------
(* The parser finds back into the stream *)

LEMMA RankKeeps ==
  /\ \A u : Rank(u)' = Rank(u)
  /\ \A u, v : Before(u, v)' <=> Before(u, v)
BY DEF Rank, Before

LEMMA BodyKeeps ==
  ASSUME environment' = environment
  PROVE  \A p : Body(p)' = Body(p)
BY DEF Body

LEMMA ResyncStart == ASSUME LoopsInit PROVE ResyncInv
<1>0. environment \in Environments
  BY DEF LoopsInit
<1> USE DEF LoopsInit, WebInit, StartOver
<1>1. link.born = <<>> /\ link.next = 1 /\ link.sent = 0 /\ parser.idx = -2
  OBVIOUS
<1>2. ASSUME NEW p \in Packets, Unharmed(p)
      PROVE  \E n \in 0 .. Arrived(p) :
               ParsedUpTo(p, n) /\ (Starts(p) => p \in Done \/ InStep(p, n))
  <2>1. p = 1 /\ Arrived(p) = 0
    BY <1>1, <1>2, PacketsType DEF Unharmed, Arrived
  <2>2. Len(Stream(p)) > 0
    <3>1. /\ Len(Stream(p)) = 3 + environment.packets[p].units
          /\ environment.packets[p].units \in Nat \ {0}
      BY ONLY <1>0, p \in Packets, StreamIs, PacketsType
    <3> QED BY ONLY <3>1
  <2>3. ParsedUpTo(p, 0) /\ InStep(p, 0)
    BY <1>1, <2>1, <2>2 DEF ParsedUpTo, InStep
  <2> QED BY <2>1, <2>3
<1> QED BY <1>1, <1>2 DEF ResyncInv

LEMMA ResyncSame ==
  ASSUME environment' = environment, ResyncInv, parser' = parser, Pending' = Pending, Done' = Done,
         link'.next = link.next, link'.sent = link.sent, link'.lost = link.lost,
         link'.connection = link.connection, link'.born = link.born, link'.fresh = link.fresh
  PROVE  ResyncInv'
<1>1. Packets' = Packets /\ (\A p : Stream(p)' = Stream(p)) /\ \A p : Body(p)' = Body(p)
  BY EnvironmentKeeps, BodyKeeps
<1>2. \A p : /\ (Unharmed(p)' <=> Unharmed(p)) /\ (Starts(p)' <=> Starts(p))
             /\ Arrived(p)' = Arrived(p)
  BY <1>1 DEF Unharmed, Starts, Arrived, Current
<1>3. \A p, n : (ParsedUpTo(p, n)' <=> ParsedUpTo(p, n)) /\ (InStep(p, n)' <=> InStep(p, n))
  <2>1. ASSUME NEW p, NEW n PROVE ParsedUpTo(p, n)' <=> ParsedUpTo(p, n)
    BY <1>1, <1>2, RankKeeps DEF ParsedUpTo
  <2>2. ASSUME NEW p, NEW n PROVE InStep(p, n)' <=> InStep(p, n)
    BY <1>1 DEF InStep
  <2> QED BY <2>1, <2>2
<1> QED BY <1>1, <1>2, <1>3 DEF ResyncInv

\* What is kept comes no earlier than a packet nothing stands before.
LEMMA StartsFirst ==
  ASSUME WebInv, ResyncInv, NEW p \in Packets, Unharmed(p), Starts(p), NEW v \in Kept
  PROVE  p <= v.packet
<1>1. /\ IsUnit(v) /\ (link.fresh => Current(v.packet)) /\ (\A d \in Done : d < v.packet)
      /\ environment \in Environments /\ LinkFits /\ LinkType
  BY DEF WebInv, UnitsFit, LinkFits
<1>2. v.packet \in Nat \ {0} /\ p \in Nat \ {0}
  BY <1>1, UnitIs, PacketsType
<1>3. CASE p = 1
  BY <1>2, <1>3
<1>4. CASE p - 1 \in Done
  BY <1>1, <1>2, <1>4
<1>5. CASE link.born[p - 1] < link.connection /\ link.fresh
  <2> SUFFICES ASSUME v.packet < p PROVE FALSE
    BY <1>2
  <2>1. DOMAIN link.born = 1 .. Len(link.born) /\ Len(link.born) \in Nat /\ link.born \in Seq(Nat)
    BY <1>1, LenProperties DEF LinkType
  <2>2. p - 1 <= Len(link.born)
    BY <1>1, <1>2 DEF Unharmed, LinkFits, LinkType
  <2>3. /\ v.packet \in DOMAIN link.born /\ p - 1 \in DOMAIN link.born
        /\ v.packet <= p - 1 /\ link.born[v.packet] = link.connection
    BY <1>1, <1>2, <1>5, <2>1, <2>2 DEF Current
  <2>4. link.born[v.packet] <= link.born[p - 1]
    BY <2>3 DEF ResyncInv
  <2>5. link.born[p - 1] \in Nat /\ link.connection \in Nat
    BY <1>1, <2>1, <2>3 DEF LinkType
  <2> QED BY <1>5, <2>3, <2>4, <2>5
<1> QED BY <1>3, <1>4, <1>5 DEF Starts

\* A parser in step takes the next unit, and executes the packet with the last one.
LEMMA InStepNext ==
  ASSUME WebInv, NEW p \in Packets, NEW n \in Nat, InStep(p, n),
         NEW u, u = Stream(p)[n + 1], NEW q, q = Accept(parser, u)
  PROVE  /\ n + 1 < Len(Stream(p)) =>
              /\ ~Complete(q) /\ q.idx = n - 1
              /\ n >= 2 => /\ q.size = environment.packets[p].units /\ Len(q.body) = n - 2
                           /\ \A i \in 1 .. n - 2 : q.body[i] = Body(p)[i]
         /\ n + 1 >= Len(Stream(p)) => Complete(q) /\ CrcMatches(q)
<1> DEFINE units == environment.packets[p].units
<1>1. /\ units \in Nat \ {0} /\ Len(Stream(p)) = 3 + units /\ n < 3 + units
      /\ parser.idx = n - 2 /\ Len(Body(p)) = units
  BY StreamIs, PacketsType DEF WebInv, InStep
<1>2. /\ Stream(p)[1] = Unit("magic1", p, 0) /\ Stream(p)[2] = Unit("magic2", p, 0)
      /\ Stream(p)[3] = Unit("size", p, 0)
      /\ \A k \in 1 .. units : Stream(p)[3 + k] = Unit("body", p, k) /\ Body(p)[k] = Unit("body", p, k)
      /\ Body(p) \in Seq(Units)
  BY StreamIs DEF WebInv
<1>3. parser \in [idx: Int, size: Nat, body: Seq(Units)]
  BY DEF WebInv, ParserFits
<1> HIDE DEF units
<1>4. CASE n = 0
  <2>1. q = [parser EXCEPT !.idx = -1]
    BY <1>1, <1>2, <1>4 DEF Accept, InMagic, Unit
  <2>2. q.idx = -1
    BY <1>3, <2>1
  <2> QED BY <1>1, <1>4, <2>2 DEF Complete
<1>5. CASE n = 1
  <2>1. q = [parser EXCEPT !.idx = 0]
    BY <1>1, <1>2, <1>5 DEF Accept, InMagic, Unit
  <2>2. q.idx = 0
    BY <1>3, <2>1
  <2> QED BY <1>1, <1>5, <2>2 DEF Complete
<1>6. CASE n = 2
  <2>1. u.kind = "size" /\ u.packet = p
    BY <1>2, <1>6 DEF Unit
  <2>2. q = InSize(u)
    BY <1>1, <1>6 DEF Accept
  <2>3. q = [idx |-> 1, size |-> units, body |-> <<>>]
    BY <2>1, <2>2 DEF InSize, units
  <2>4. q.idx = 1 /\ q.size = units /\ q.body = <<>> /\ Len(q.body) = 0
    BY <2>3
  <2>5. ~Complete(q)
    BY <1>1, <2>4 DEF Complete
  <2> QED BY <1>1, <1>6, <2>4, <2>5 DEF units
<1>7. CASE n >= 3
  <2>1. /\ parser.size = units /\ Len(parser.body) = n - 3 /\ parser.body \in Seq(Units)
        /\ \A i \in 1 .. n - 3 : parser.body[i] = Body(p)[i]
    BY <1>3, <1>7 DEF InStep, units
  <2>2. n - 2 \in 1 .. units /\ 3 + (n - 2) = n + 1 /\ n - 3 \in Nat /\ n - 2 \in Nat
    BY <1>1, <1>7
  <2>3. u = Unit("body", p, n - 2) /\ u = Body(p)[n - 2] /\ u \in Units
    <3>1. Stream(p)[3 + (n - 2)] = Unit("body", p, n - 2) /\ Body(p)[n - 2] = Unit("body", p, n - 2)
      BY <1>2, <2>2
    <3>2. u = Unit("body", p, n - 2)
      BY <2>2, <3>1
    <3> QED BY <2>2, <3>1, <3>2 DEF Unit, Units
  <2>4. /\ Append(parser.body, u) \in Seq(Units)
        /\ Len(Append(parser.body, u)) = n - 2
        /\ \A i \in 1 .. n - 3 : Append(parser.body, u)[i] = parser.body[i]
        /\ Append(parser.body, u)[n - 2] = u
    <3>1. /\ Append(parser.body, u) \in Seq(Units)
          /\ Len(Append(parser.body, u)) = Len(parser.body) + 1
          /\ \A i \in 1 .. Len(parser.body) : Append(parser.body, u)[i] = parser.body[i]
          /\ Append(parser.body, u)[Len(parser.body) + 1] = u
      BY <2>1, <2>3, AppendProperties
    <3>2. Len(parser.body) = n - 3 /\ Len(parser.body) + 1 = n - 2
      BY <2>1, <2>2
    <3> QED BY ONLY <3>1, <3>2
  <2>5. q = [parser EXCEPT !.idx = @ + 1, !.body = Append(@, u)]
    BY <1>1, <1>7 DEF Accept, InBody
  <2>6. q.idx = n - 1 /\ q.size = units /\ q.body = Append(parser.body, u)
    BY <1>1, <1>3, <2>1, <2>5
  <2>7. /\ Len(q.body) = n - 2 /\ q.body \in Seq(Units)
        /\ \A i \in 1 .. n - 2 : q.body[i] = Body(p)[i]
    <3>1. \A i \in 1 .. n - 3 : q.body[i] = Body(p)[i]
      BY <2>1, <2>4, <2>6
    <3>2. q.body[n - 2] = Body(p)[n - 2]
      BY <2>3, <2>4, <2>6
    <3>3. \A i \in 1 .. n - 2 : i \in 1 .. n - 3 \/ i = n - 2
      BY <2>2
    <3> QED BY <2>4, <2>6, <3>1, <3>2, <3>3
  <2>8. Complete(q) <=> n - 2 = units
    BY <1>1, <1>7, <2>6, <2>7 DEF Complete
  <2>9. CASE n + 1 < Len(Stream(p))
    <3>1. ~Complete(q)
      BY <1>1, <2>8, <2>9
    <3>2. ~(n + 1 >= Len(Stream(p)))
      BY ONLY <1>1, <2>9, n \in Nat
    <3> QED BY ONLY <2>6, <2>7, <3>1, <3>2 DEF units
  <2>10. CASE n + 1 >= Len(Stream(p))
    <3>1. n - 2 = units
      BY <1>1, <2>10
    <3>2. q.body = Body(p)
      BY <1>1, <1>2, <2>7, <3>1, SeqEqual
    <3>3. q.body[1].packet = p
      <4>1. Body(p)[1] = Unit("body", p, 1)
        BY <1>1, <1>2
      <4> QED BY <3>2, <4>1 DEF Unit
    <3> QED BY <1>1, <2>8, <2>10, <3>1, <3>2, <3>3 DEF CrcMatches
  <2> QED BY <1>1, <2>9, <2>10
<1> QED BY <1>4, <1>5, <1>6, <1>7

LEMMA ResyncParse ==
  ASSUME WebInv, ResyncInv, environment' = environment, Parse
  PROVE  ResyncInv'
<1>0. PICK u : u = Head(rest)
  OBVIOUS
<1>00. PICK q : q = Accept(parser, u)
  OBVIOUS
<1>1. Parsed(u, q)
  BY <1>0, <1>00, ParseIs
<1>2. /\ link' = link /\ u \in Kept /\ IsUnit(u) /\ u.packet \in Packets /\ u.packet \in Nat \ {0}
      /\ Rank(u) \in Nat /\ Pending = {u} \cup Pending'
      /\ \A v \in Pending' : Before(u, v) /\ v \in Pending
      /\ parser' = (IF Complete(q) THEN StartOver ELSE q)
  BY <1>1 DEF Parsed
<1>3. /\ UnitsFit /\ ExecutedFits /\ LinkFits /\ LinkType /\ environment \in Environments
      /\ executing = NoPacket /\ Done = Range(link.executed)
  BY <1>1 DEF WebInv, LinkFits, ExecutedFits, Parsed, Done
<1>4. /\ Packets' = Packets /\ (\A p : Stream(p)' = Stream(p)) /\ (\A p : Body(p)' = Body(p))
      /\ \A p : /\ (Unharmed(p)' <=> Unharmed(p)) /\ Arrived(p)' = Arrived(p)
  <2>1. Packets' = Packets /\ (\A p : Stream(p)' = Stream(p)) /\ \A p : Body(p)' = Body(p)
    BY EnvironmentKeeps, BodyKeeps
  <2> QED BY <1>2, <2>1 DEF Unharmed, Arrived, Current
<1>5. \/ Done' = Done /\ ~(Complete(q) /\ CrcMatches(q))
      \/ Done' = Done \cup {u.packet} /\ Complete(q) /\ CrcMatches(q)
  <2>1. CASE Complete(q) /\ CrcMatches(q)
    <3>1. executing' = u.packet
      BY <1>1, <2>1, ParsedPacket
    <3> QED BY <1>2, <1>3, <2>1, <3>1 DEF Done, NoPacket
  <2>2. CASE ~(Complete(q) /\ CrcMatches(q))
    BY <1>1, <1>2, <2>2 DEF Done, Parsed
  <2> QED BY <2>1, <2>2
<1>6. SUFFICES ASSUME NEW p \in Packets, Unharmed(p)
               PROVE  \E n \in 0 .. Arrived(p) :
                        ParsedUpTo(p, n)' /\ (Starts(p)' => p \in Done' \/ InStep(p, n)')
  BY <1>2, <1>4 DEF ResyncInv
<1>7. PICK n \in 0 .. Arrived(p) :
        ParsedUpTo(p, n) /\ (Starts(p) => p \in Done \/ InStep(p, n))
  BY <1>6 DEF ResyncInv
<1>8. /\ p \in Nat \ {0} /\ Len(Stream(p)) \in Nat \ {0} /\ Len(Stream(p)) > 3
      /\ Arrived(p) \in Nat /\ Arrived(p) <= Len(Stream(p)) /\ n \in Nat /\ n <= Arrived(p)
  <2>1. /\ Len(Stream(p)) = 3 + environment.packets[p].units
        /\ environment.packets[p].units \in Nat \ {0} /\ p \in Nat \ {0}
    BY <1>3, StreamIs, PacketsType
  <2>2. /\ link.sent \in Nat
        /\ link.sent > 0 => link.next \in Packets /\ link.sent < Len(Stream(link.next))
    BY <1>3 DEF LinkFits, LinkType
  <2>3. Arrived(p) \in Nat /\ Arrived(p) <= Len(Stream(p))
    BY <2>1, <2>2 DEF Arrived
  <2> QED BY <2>1, <2>3
<1>9. \A k \in n + 1 .. Arrived(p) :
        /\ Stream(p)[k] \in Pending /\ Stream(p)[k].packet = p /\ Rank(Stream(p)[k]) = k
  <2> TAKE k \in n + 1 .. Arrived(p)
  <2>1. k \in 1 .. Len(Stream(p))
    BY <1>8
  <2> QED BY <1>3, <1>7, <2>1, StreamRanks DEF ParsedUpTo
<1>10. CASE u.packet = p
  <2>1. n < Rank(u)
    <3>1. CASE n > 0
      BY <1>2, <1>7, <1>8, <1>10, <3>1 DEF ParsedUpTo
    <3>2. CASE n = 0
      <4>1. Rank(u) \in 1 .. Len(Stream(u.packet))
        BY <1>2, <1>3, UnitIs
      <4> QED BY <3>2, <4>1
    <3> QED BY <1>8, <3>1, <3>2
  <2>2. Rank(u) <= Arrived(p)
    <3>1. CASE p = link.next
      BY <1>2, <1>3, <1>10, <3>1 DEF UnitsFit, Arrived
    <3>2. CASE p # link.next
      <4>1. Rank(u) \in 1 .. Len(Stream(p))
        BY <1>2, <1>3, <1>10, UnitIs
      <4> QED BY <3>2, <4>1 DEF Arrived
    <3> QED BY <3>1, <3>2
  <2>3. Rank(u) = n + 1
    <3>1. n + 1 \in n + 1 .. Arrived(p)
      BY <1>2, <1>8, <2>1, <2>2
    <3>2. PICK w : w = Stream(p)[n + 1] /\ w \in Pending /\ w.packet = p /\ Rank(w) = n + 1
      BY <1>9, <3>1
    <3>3. CASE w = u
      BY <3>2, <3>3
    <3>4. CASE w # u
      <4>1. Before(u, w)
        BY <1>2, <3>2, <3>4
      <4>2. Rank(u) < n + 1
        BY <1>8, <1>10, <3>2, <4>1 DEF Before
      <4> QED BY <1>2, <1>8, <2>1, <4>2
    <3> QED BY <3>3, <3>4
  <2>4. u = Stream(p)[n + 1]
    BY <1>2, <1>3, <1>10, <2>3, UnitIs
  <2>5. ParsedUpTo(p, n + 1)'
    <3>1. ASSUME NEW k \in (n + 1) + 1 .. Arrived(p) PROVE Stream(p)[k] \in Pending'
      <4>1. k \in n + 1 .. Arrived(p) /\ k # n + 1
        BY <1>8
      <4>2. Stream(p)[k] \in Pending /\ Rank(Stream(p)[k]) # Rank(u)
        BY <1>9, <2>3, <4>1
      <4> QED BY <1>2, <4>2
    <3>2. ASSUME NEW v \in Pending' PROVE p < v.packet \/ (p = v.packet /\ n + 1 < Rank(v))
      <4>1. Before(u, v)
        BY <1>2
      <4> QED BY <1>10, <2>3, <4>1 DEF Before
    <3> QED BY <1>4, <3>1, <3>2, RankKeeps DEF ParsedUpTo
  <2>6. Starts(p)' => p \in Done' \/ InStep(p, n + 1)'
    <3> SUFFICES ASSUME Starts(p)', p \notin Done' PROVE InStep(p, n + 1)'
      OBVIOUS
    <3>1. p \notin Done /\ Done' = Done /\ ~(Complete(q) /\ CrcMatches(q))
      BY <1>5, <1>10
    <3>2. Starts(p)
      BY <1>2, <3>1 DEF Starts
    <3>3. InStep(p, n)
      BY <1>7, <3>1, <3>2
    <3>4. n + 1 < Len(Stream(p))
      BY <1>00, <1>8, <2>4, <3>1, <3>3, InStepNext
    <3>5. /\ ~Complete(q) /\ q.idx = n - 1
          /\ n >= 2 => /\ q.size = environment.packets[p].units /\ Len(q.body) = n - 2
                       /\ \A i \in 1 .. n - 2 : q.body[i] = Body(p)[i]
      BY <1>00, <1>8, <2>4, <3>3, <3>4, InStepNext
    <3>6. parser' = q
      BY <1>2, <3>5
    <3>7. (n + 1) - 2 = n - 1 /\ (n + 1) - 3 = n - 2 /\ (n + 1 >= 3 => n >= 2)
      BY <1>8
    <3> QED BY <1>4, <3>4, <3>5, <3>6, <3>7 DEF InStep
  <2>7. n + 1 \in 0 .. Arrived(p)
    BY <1>2, <1>8, <2>2, <2>3
  <2> QED BY <2>5, <2>6, <2>7
<1>11. CASE u.packet # p
  <2>1. ParsedUpTo(p, n)'
    <3>1. ASSUME NEW k \in n + 1 .. Arrived(p) PROVE Stream(p)[k] \in Pending'
      BY <1>2, <1>9, <1>11
    <3>2. n > 0 => \A v \in Pending' : p < v.packet \/ (p = v.packet /\ n < Rank(v))
      BY <1>2, <1>7 DEF ParsedUpTo
    <3> QED BY <1>4, <3>1, <3>2, RankKeeps DEF ParsedUpTo
  <2>2. Starts(p)' => p \in Done' \/ InStep(p, n)'
    <3> SUFFICES ASSUME Starts(p)', p \notin Done' PROVE InStep(p, n)'
      OBVIOUS
    <3>1. p \notin Done
      BY <1>5
    <3>2. CASE Starts(p)
      <4>1. InStep(p, n) /\ n < Len(Stream(p))
        BY <1>7, <3>1, <3>2 DEF InStep
      <4>2. p < u.packet
        BY <1>2, <1>6, <1>8, <1>11, <3>2, StartsFirst
      <4>3. u.packet <= link.next /\ link.next \in Nat
        BY <1>2, <1>3 DEF UnitsFit, LinkType
      <4>4. Arrived(p) = Len(Stream(p))
        BY <1>2, <1>8, <4>2, <4>3 DEF Arrived
      <4>5. n + 1 \in n + 1 .. Arrived(p)
        BY <1>8, <4>1, <4>4
      <4>6. Stream(p)[n + 1] \in Pending' /\ Stream(p)[n + 1].packet = p
        BY <1>2, <1>9, <1>11, <4>5
      <4>7. Before(u, Stream(p)[n + 1])
        BY <1>2, <4>6
      <4> QED BY <1>2, <1>8, <4>2, <4>6, <4>7 DEF Before
    <3>3. CASE ~Starts(p)
      <4>1. p - 1 \in Done' /\ p - 1 \notin Done
        BY <1>2, <3>3 DEF Starts
      <4>2. u.packet = p - 1 /\ Complete(q)
        BY <1>5, <4>1
      <4>3. n = 0
        <5> SUFFICES ASSUME n > 0 PROVE FALSE
          BY <1>8
        <5>1. u \in Pending
          BY <1>2
        <5>2. p < u.packet \/ p = u.packet
          BY <1>7, <5>1 DEF ParsedUpTo
        <5> QED BY <1>8, <4>2, <5>2
      <4>4. parser' = StartOver
        BY <1>2, <4>2
      <4> QED BY <1>4, <1>8, <4>3, <4>4 DEF InStep, StartOver
    <3> QED BY <3>2, <3>3
  <2> QED BY <2>1, <2>2
<1> QED BY <1>10, <1>11

LEMMA ResyncReceive ==
  ASSUME WebInv, ResyncInv, environment' = environment, Receive
  PROVE  ResyncInv'
<1>0. PICK s : s = link.next
  OBVIOUS
<1>1. PICK m \in Nat \ {0} : \E kept \in Nat : \E piece : Received(s, m, kept, piece)
  BY <1>0, ReceiveIs
<1>2. PICK kept \in Nat : \E piece : Received(s, m, kept, piece)
  BY <1>1
<1>3. PICK piece : Received(s, m, kept, piece)
  BY <1>2
<1> DEFINE left == Len(Stream(s)) - link.sent
<1>4. /\ UNCHANGED <<parser, rest, executing>> /\ s \in Packets /\ m <= left /\ kept <= m
      /\ incoming' = incoming \o piece /\ piece \in Seq(Units)
      /\ link'.next = (IF m = left THEN s + 1 ELSE s)
      /\ link'.sent = (IF m = left THEN 0 ELSE link.sent + m)
      /\ link'.lost = (IF kept < m THEN link.lost \cup {s} ELSE link.lost)
      /\ link'.connection = link.connection /\ link'.executed = link.executed
      /\ link'.fresh = link.fresh
  BY <1>3 DEF Received
<1>5. /\ \A u \in Range(piece) :
           u.packet = s /\ link.sent < Rank(u) /\ Rank(u) <= link.sent + kept /\ IsUnit(u)
      /\ \A k \in link.sent + 1 .. link.sent + kept : Stream(s)[k] \in Range(piece)
  BY <1>3 DEF Received
<1>6. /\ Len(link.born) = (IF link.sent = 0 THEN s - 1 ELSE s)
      /\ DOMAIN link.born = 1 .. Len(link.born) /\ DOMAIN link'.born = 1 .. s
      /\ \A i \in DOMAIN link.born : link'.born[i] = link.born[i]
      /\ link'.born[s] = link.connection
  BY <1>3 DEF Received
<1>7. /\ UnitsFit /\ ExecutedFits /\ LinkFits /\ LinkType /\ environment \in Environments
      /\ link.sent \in Nat /\ s \in Nat \ {0} /\ link.connection \in Nat
      /\ Len(Stream(s)) \in Nat
  <2>1. /\ UnitsFit /\ ExecutedFits /\ LinkFits /\ LinkType /\ environment \in Environments
    BY DEF WebInv, LinkFits
  <2> QED BY <1>0, <1>4, <2>1, StreamIs, PacketsType DEF LinkType
<1>8. /\ Packets' = Packets /\ (\A p : Stream(p)' = Stream(p)) /\ (\A p : Body(p)' = Body(p))
      /\ Done' = Done
  <2>1. Done' = Done
    BY <1>4 DEF Done
  <2> QED BY <2>1, EnvironmentKeeps, BodyKeeps
<1>9. Pending' = Pending \cup Range(piece)
  <2>1. Range(incoming') = Range(incoming) \cup Range(piece)
    BY <1>4, <1>7, RangeConcat DEF UnitsFit
  <2> QED BY <1>4, <2>1 DEF Pending
<1>10. /\ \A i \in DOMAIN link.born : link.born[i] <= link.connection /\ link.born[i] \in Nat
       /\ \A i \in DOMAIN link'.born : i \in DOMAIN link.born \/ i = s
       /\ \A i, j \in DOMAIN link.born : i <= j => link.born[i] <= link.born[j]
  <2>1. \A i \in DOMAIN link'.born : i \in DOMAIN link.born \/ i = s
    BY <1>6, <1>7
  <2>2. \A i \in DOMAIN link.born : link.born[i] \in Nat
    BY <1>7 DEF LinkType
  <2> QED BY <2>1, <2>2 DEF ResyncInv
<1>11. \A i \in DOMAIN link'.born : link'.born[i] <= link'.connection
  BY <1>4, <1>6, <1>7, <1>10
<1>12. \A i, j \in DOMAIN link'.born : i <= j => link'.born[i] <= link'.born[j]
  <2> SUFFICES ASSUME NEW i \in DOMAIN link'.born, NEW j \in DOMAIN link'.born, i <= j
               PROVE  link'.born[i] <= link'.born[j]
    OBVIOUS
  <2>1. CASE j = s
    BY <1>4, <1>6, <1>11, <2>1
  <2>2. CASE j # s
    <3>1. i # s /\ j \in DOMAIN link.born
      BY <1>6, <1>10, <2>2
    <3>2. i \in DOMAIN link.born
      BY <1>10, <3>1
    <3> QED BY <1>6, <1>10, <3>1, <3>2
  <2> QED BY <2>1, <2>2
<1>13. ASSUME NEW p \in Packets, p <= s PROVE Starts(p)' <=> Starts(p)
  <2>1. p \in Nat \ {0}
    BY <1>7, PacketsType
  <2>2. p # 1 => p - 1 \in DOMAIN link.born
    BY <1>6, <1>7, <1>13, <2>1
  <2> QED BY <1>4, <1>6, <1>8, <2>2 DEF Starts
<1>14. \A p, n : InStep(p, n)' <=> InStep(p, n)
  <2> TAKE p, n
  <2> QED BY <1>4, <1>8 DEF InStep
<1>15. SUFFICES ASSUME NEW p \in Packets, Unharmed(p)'
                PROVE  \E n \in 0 .. Arrived(p)' :
                         ParsedUpTo(p, n)' /\ (Starts(p)' => p \in Done' \/ InStep(p, n)')
  BY <1>8, <1>11, <1>12 DEF ResyncInv
<1>16. p \in Nat \ {0} /\ p <= link'.next /\ p \notin link'.lost /\ Len(Stream(p)) \in Nat
  BY <1>7, <1>15, PacketsType, StreamIs DEF Unharmed
<1>17. CASE p <= s
  <2>1. Unharmed(p)
    <3>1. p \notin link.lost
      BY <1>4, <1>16
    <3>2. ASSUME p \in DOMAIN link.born PROVE Current(p)
      <4>1. p \in DOMAIN link'.born
        BY <1>6, <1>16, <1>17, <1>7
      <4> QED BY <1>4, <1>6, <1>15, <3>2, <4>1 DEF Unharmed, Current
    <3> QED BY <1>0, <1>17, <3>1, <3>2 DEF Unharmed
  <2>2. PICK n \in 0 .. Arrived(p) :
          ParsedUpTo(p, n) /\ (Starts(p) => p \in Done \/ InStep(p, n))
    BY <2>1 DEF ResyncInv
  <2>3. Starts(p)' => p \in Done' \/ InStep(p, n)'
    BY <1>8, <1>13, <1>14, <1>17, <2>2
  <2>4. CASE p < s
    <3>1. Arrived(p) = Len(Stream(p)) /\ Arrived(p)' = Len(Stream(p))
      BY <1>0, <1>4, <1>7, <1>8, <1>16, <2>4 DEF Arrived
    <3>2. ParsedUpTo(p, n)'
      <4>1. \A k \in n + 1 .. Arrived(p)' : Stream(p)[k] \in Pending'
        BY <1>9, <2>2, <3>1 DEF ParsedUpTo
      <4>2. n > 0 => \A v \in Pending' : p < v.packet \/ (p = v.packet /\ n < Rank(v))
        BY <1>5, <1>9, <2>2, <2>4 DEF ParsedUpTo
      <4> QED BY <1>8, <4>1, <4>2, RankKeeps DEF ParsedUpTo
    <3> QED BY <2>2, <2>3, <3>1, <3>2
  <2>5. CASE p = s
    <3>1. Arrived(p) = link.sent
      BY <1>0, <2>5 DEF Arrived
    <3>2. kept = m
      BY <1>1, <1>4, <1>16, <2>5
    <3>3. Arrived(p)' = link.sent + m
      <4>1. CASE m = left
        <5>1. link'.next # p
          BY <1>4, <1>7, <2>5, <4>1
        <5>2. Arrived(p)' = Len(Stream(p))
          BY <1>8, <5>1 DEF Arrived
        <5> QED BY <1>7, <2>5, <4>1, <5>2
      <4>2. CASE m # left
        BY <1>4, <2>5, <4>2 DEF Arrived
      <4> QED BY <4>1, <4>2
    <3>4. n \in Nat /\ n <= link.sent /\ m \in Nat
      BY <1>1, <1>7, <2>2, <3>1
    <3>5. ParsedUpTo(p, n)'
      <4>1. ASSUME NEW k \in n + 1 .. Arrived(p)' PROVE Stream(p)[k] \in Pending'
        <5>1. CASE k <= link.sent
          <6>1. k \in n + 1 .. Arrived(p)
            BY <1>7, <3>1, <3>4, <5>1
          <6> QED BY <1>9, <2>2, <6>1 DEF ParsedUpTo
        <5>2. CASE ~(k <= link.sent)
          <6>1. k \in link.sent + 1 .. link.sent + kept
            BY <1>7, <3>2, <3>3, <3>4, <5>2
          <6> QED BY <1>5, <1>9, <2>5, <6>1
        <5> QED BY <5>1, <5>2
      <4>2. n > 0 => \A v \in Pending' : p < v.packet \/ (p = v.packet /\ n < Rank(v))
        <5> SUFFICES ASSUME n > 0, NEW v \in Pending'
                     PROVE  p < v.packet \/ (p = v.packet /\ n < Rank(v))
          OBVIOUS
        <5>1. CASE v \in Pending
          BY <2>2, <5>1 DEF ParsedUpTo
        <5>2. CASE v \in Range(piece)
          <6>1. v.packet = s /\ link.sent < Rank(v) /\ Rank(v) \in Nat
            BY <1>5, <1>7, <5>2, UnitIs
          <6> QED BY <1>7, <2>5, <3>4, <6>1
        <5> QED BY <1>9, <5>1, <5>2
      <4> QED BY <1>8, <4>1, <4>2, RankKeeps DEF ParsedUpTo
    <3>6. n \in 0 .. Arrived(p)'
      BY <1>7, <3>3, <3>4
    <3> QED BY <2>3, <3>5, <3>6
  <2> QED BY <1>7, <1>16, <1>17, <2>4, <2>5
<1>18. CASE ~(p <= s)
  <2>1. p = s + 1 /\ link'.next = p /\ link'.sent = 0
    BY <1>4, <1>7, <1>16, <1>18
  <2>2. Arrived(p)' = 0
    BY <2>1 DEF Arrived
  <2>3. ParsedUpTo(p, 0)'
    BY <2>2 DEF ParsedUpTo
  <2>4. ~Starts(p)'
    <3>1. s \notin Done
      BY <1>0, <1>7 DEF ExecutedFits
    <3>2. p # 1 /\ p - 1 = s
      BY <1>7, <2>1
    <3>3. ~(link'.born[s] < link'.connection)
      BY <1>4, <1>6, <1>7
    <3> QED BY <1>8, <3>1, <3>2, <3>3 DEF Starts
  <2> QED BY <2>2, <2>3, <2>4
<1> QED BY <1>17, <1>18

LEMMA ResyncConnect ==
  ASSUME WebInv, ResyncInv, environment' = environment, Connect
  PROVE  ResyncInv'
<1>1. /\ parser' = StartOver
      /\ link' = [link EXCEPT !.connection = @ + 1, !.sent = 0,
                              !.next = IF link.sent > 0 THEN @ + 1 ELSE @,
                              !.lost = IF link.sent > 0 THEN @ \cup {link.next} ELSE @,
                              !.inHand = Append(@, InHand), !.fresh = (rest = <<>>)]
  BY DEF Connect
<1>2. LinkFits /\ LinkType /\ environment \in Environments
  BY DEF WebInv, LinkFits
<1>3. /\ link'.next = (IF link.sent > 0 THEN link.next + 1 ELSE link.next)
      /\ link'.sent = 0
      /\ link'.connection = link.connection + 1 /\ link'.born = link.born
  BY <1>1, <1>2 DEF LinkType
<1>4. /\ link.connection \in Nat /\ link.next \in Nat \ {0} /\ link.sent \in Nat
      /\ DOMAIN link.born = 1 .. link'.next - 1
      /\ \A i \in DOMAIN link.born : link.born[i] \in Nat /\ link.born[i] <= link.connection
  <2>1. /\ link.connection \in Nat /\ link.next \in Nat \ {0} /\ link.sent \in Nat
        /\ link.born \in Seq(Nat) /\ DOMAIN link.born = 1 .. Len(link.born)
    BY <1>2, LenProperties DEF LinkType
  <2>2. Len(link.born) = link'.next - 1
    BY <1>2, <1>3, <2>1 DEF LinkFits
  <2> QED BY <2>1, <2>2 DEF ResyncInv
<1>5. /\ \A i, j \in DOMAIN link'.born : i <= j => link'.born[i] <= link'.born[j]
      /\ \A i \in DOMAIN link'.born : link'.born[i] <= link'.connection
  BY <1>3, <1>4 DEF ResyncInv
<1>6. /\ Packets' = Packets /\ \A p : Stream(p)' = Stream(p)
  BY EnvironmentKeeps
<1>7. SUFFICES ASSUME NEW p \in Packets, Unharmed(p)'
               PROVE  \E n \in 0 .. Arrived(p)' :
                        ParsedUpTo(p, n)' /\ (Starts(p)' => p \in Done' \/ InStep(p, n)')
  BY <1>5, <1>6 DEF ResyncInv
<1>8. p = link'.next
  <2>1. p \in Nat \ {0} /\ p <= link'.next /\ link'.next \in Nat
    BY <1>2, <1>3, <1>4, <1>7, PacketsType DEF Unharmed
  <2>2. p \notin DOMAIN link.born
    <3> SUFFICES ASSUME p \in DOMAIN link.born PROVE FALSE
      OBVIOUS
    <3>1. link.born[p] = link.connection + 1
      BY <1>3, <1>7 DEF Unharmed, Current
    <3> QED BY <1>4, <3>1
  <2> QED BY <1>4, <2>1, <2>2
<1>9. Arrived(p)' = 0
  BY <1>3, <1>8 DEF Arrived
<1>10. ParsedUpTo(p, 0)'
  BY <1>9 DEF ParsedUpTo
<1>11. InStep(p, 0)'
  <2>1. Len(Stream(p)) > 0
    <3>1. /\ Len(Stream(p)) = 3 + environment.packets[p].units
          /\ environment.packets[p].units \in Nat \ {0}
      BY <1>2, StreamIs, PacketsType
    <3> QED BY <3>1
  <2> QED BY <1>1, <1>6, <2>1 DEF InStep, StartOver
<1> QED BY <1>9, <1>10, <1>11

LEMMA ResyncSteps ==
  ASSUME WebInv, ResyncInv, LoopsNext
  PROVE  ResyncInv'
<1>1. environment' = environment
  BY DEF LoopsNext
<1>2. CASE (SerialStep /\ UNCHANGED webVars) \/ Round \/ ParseEnds
  <2>1. UNCHANGED webVars
    BY <1>2 DEF Round, loopVars, ParseEnds
  <2>2. Pending' = Pending /\ Done' = Done
    BY <2>1 DEF webVars, Pending, Done
  <2> QED BY <1>1, <2>1, <2>2, ResyncSame DEF webVars
<1>3. CASE HandledWithEffect \/ FlushBegins \/ BusAnswers \/ BusCancels
  <2>1. UNCHANGED <<parser, rest, incoming, executing, link>>
    BY <1>3 DEF HandledWithEffect, FlushBegins, BusAnswers, BusCancels
  <2>2. Pending' = Pending /\ Done' = Done
    BY <2>1 DEF Pending, Done
  <2> QED BY <1>1, <2>1, <2>2, ResyncSame
<1>4. CASE FlushEnds
  <2>1. /\ UNCHANGED <<parser, rest, incoming, executing>>
        /\ link'.next = link.next /\ link'.sent = link.sent /\ link'.lost = link.lost
        /\ link'.connection = link.connection /\ link'.born = link.born
        /\ link'.fresh = link.fresh
        /\ link'.executed = link.executed
    BY <1>4 DEF FlushEnds, WebInv, LinkFits, LinkType
  <2>2. Pending' = Pending /\ Done' = Done
    BY <2>1 DEF Pending, Done
  <2> QED BY <1>1, <2>1, <2>2, ResyncSame
<1>5. CASE TakeData
  <2>1. /\ UNCHANGED <<parser, executing, link>> /\ rest' = incoming /\ incoming' = <<>>
        /\ rest = <<>>
    BY <1>5 DEF TakeData, Step, At, WebInv, ExecutedFits
  <2>2. Pending' = Pending /\ Done' = Done
    <3>1. Range(<<>>) = {}
      BY DEF Range
    <3> QED BY <2>1, <3>1 DEF Pending, Done
  <2> QED BY <1>1, <2>1, <2>2, ResyncSame
<1>6. CASE Execute
  <2>1. /\ UNCHANGED <<parser, rest, incoming, executing>>
        /\ link'.next = link.next /\ link'.sent = link.sent /\ link'.lost = link.lost
        /\ link'.connection = link.connection /\ link'.born = link.born
        /\ link'.fresh = link.fresh
        /\ link'.executed = Append(link.executed, executing)
    BY <1>6 DEF Execute, WebInv, LinkFits, LinkType
  <2>2. Pending' = Pending
    BY <2>1 DEF Pending
  <2>3. executing \in Packets /\ executing # NoPacket /\ link.executed \in Seq(Packets)
    BY <1>6 DEF Execute, Step, At, WebInv, ExecutedFits, Done, LinkFits, LinkType
  <2>4. Range(link'.executed) = Range(link.executed) \cup {executing}
    BY <2>1, <2>3, RangeAppend
  <2>5. Done' = Done
    BY <2>1, <2>3, <2>4 DEF Done
  <2> QED BY <1>1, <2>1, <2>2, <2>5, ResyncSame
<1>7. CASE Resume
  <2>1. UNCHANGED <<parser, rest, incoming, link>> /\ executing' = NoPacket
    BY <1>7 DEF Resume
  <2>2. Executed(executing)
    BY <1>7 DEF Resume, Step, At, WebInv, ExecutedFits
  <2>3. executing \in Range(link.executed)
    BY <2>2 DEF Executed, Range
  <2>4. Pending' = Pending /\ Done' = Done
    BY <2>1, <2>3 DEF Pending, Done
  <2> QED BY <1>1, <2>1, <2>4, ResyncSame
<1> QED BY <1>1, <1>2, <1>3, <1>4, <1>5, <1>6, <1>7, ResyncParse, ResyncReceive, ResyncConnect
     DEF LoopsNext, WebNext, WebCore0, WebCore1

LEMMA ResyncStutters ==
  ASSUME ResyncInv, UNCHANGED <<environment, loopVars>>
  PROVE  ResyncInv'
<1>1. UNCHANGED <<environment, webVars>>
  BY DEF loopVars
<1>2. Pending' = Pending /\ Done' = Done
  BY <1>1 DEF webVars, Pending, Done
<1> QED BY <1>1, <1>2, ResyncSame DEF webVars

\* When the buffer is empty and core 1 has no packet at hand, what was in step is executed.
LEMMA ResyncEnds ==
  ASSUME WebInv, ResyncInv
  PROVE  PacketsResync
<1>1. \A i, j \in DOMAIN link.executed : i < j => link.executed[i] < link.executed[j]
  BY DEF WebInv, ExecutedFits
<1>2. ASSUME incoming = <<>>, Idle(Core1), NEW p \in Packets, Whole(p), link.born[p] = link.connection,
             p > 1 => Executed(p - 1) \/ (link.born[p - 1] < link.connection /\ link.fresh)
      PROVE  Executed(p)
  <2>1. executing = NoPacket /\ rest = <<>>
    BY <1>2 DEF Idle, WebInv, ExecutedFits
  <2>2. Pending = {} /\ Done = Range(link.executed)
    <3>1. Range(<<>>) = {}
      BY DEF Range
    <3> QED BY <1>2, <2>1, <3>1 DEF Pending, Done
  <2>3. \A d : Executed(d) <=> d \in Done
    BY <2>2 DEF Executed, Range
  <2>4. p \in Nat \ {0} /\ Len(Stream(p)) \in Nat /\ link.next \in Nat
    BY PacketsType, StreamIs DEF WebInv, LinkFits, LinkType
  <2>5. Unharmed(p) /\ Arrived(p) = Len(Stream(p))
    BY <1>2, <2>4 DEF Whole, Unharmed, Current, Arrived
  <2>6. Starts(p)
    BY <1>2, <2>3, <2>4 DEF Starts
  <2>7. PICK n \in 0 .. Arrived(p) :
          ParsedUpTo(p, n) /\ (Starts(p) => p \in Done \/ InStep(p, n))
    BY <2>5 DEF ResyncInv
  <2>8. ~InStep(p, n)
    <3> SUFFICES ASSUME InStep(p, n) PROVE FALSE
      OBVIOUS
    <3>1. n + 1 \in n + 1 .. Arrived(p)
      BY <2>4, <2>5, <2>7 DEF InStep
    <3> QED BY <2>2, <2>7, <3>1 DEF ParsedUpTo
  <2> QED BY <2>3, <2>6, <2>7, <2>8
<1> QED BY <1>1, <1>2 DEF PacketsResync

-----------------------------------------------------------------------------
(* The theorems about whole behaviours *)

\* Packets are executed in order and once, and whatever was thrown away before, a packet that
\* came in whole after an executed one, or as the first of a connection made with nothing
\* left to parse, is executed: addData(), process() and consumePacketBytes() of
\* WebUsbProcessorBase find back into the stream.
THEOREM PacketsAlwaysResync == LoopsSpec => []PacketsResync
<1>1. LoopsInit => ResyncInv
  BY ResyncStart
<1>2. WebInv /\ ResyncInv /\ [LoopsNext]_<<environment, loopVars>> => ResyncInv'
  BY ResyncSteps, ResyncStutters
<1>3. WebInv /\ ResyncInv => PacketsResync
  BY ResyncEnds
<1> QED BY <1>1, <1>2, <1>3, WebInvariant, PTL DEF LoopsSpec

\* The buffer and the queue of WebUsbProcessorBase keep their limits, between two units no
\* complete packet is left in the parser, and only nodes there are wait for the bus.
THEOREM WebTypes == LoopsSpec => []WebTypeOK
<1>1. WebInv => WebTypeOK
  <2> SUFFICES ASSUME WebInv PROVE WebTypeOK
    OBVIOUS
  <2>1. /\ Len(incoming) <= MaxIncoming /\ Len(outgoing) <= MaxOutgoing
        /\ \A t \in onBus : t.packet \in Packets \cup {TtyPacket} /\ t.node \in environment.available
    BY DEF WebInv, AnswersFit
  <2>2. parser.idx >= -2 /\ ~Complete(parser)
    BY LenProperties DEF WebInv, ParserFits, Complete
  <2>3. executing \in Packets \cup {NoPacket}
    BY DEF WebInv, ExecutedFits, Done
  <2> QED BY <2>1, <2>2, <2>3 DEF WebTypeOK
<1> QED BY <1>1, WebInvariant, PTL

-----------------------------------------------------------------------------
(* Reading character by character *)

LEMMA MaxOfInterval ==
  ASSUME NEW m \in Nat, NEW x \in SUBSET (1 .. m), m \in x
  PROVE  Max(x) = m
<1>1. m \in x /\ \A y \in x : m >= y
  OBVIOUS
<1>2. \A z \in x : (\A y \in x : z >= y) => z = m
  OBVIOUS
<1> QED BY <1>1, <1>2 DEF Max

Reads(g, m, s) ==
  g = [x \in SUBSET (1 .. m) |-> IF x = {} THEN Typist ELSE Type(g[x \ {Max(x)}], s[Max(x)])]

LEMMA ReadsOneMore ==
  ASSUME NEW g, NEW s, NEW m \in Nat, Reads(g, m, s)
  PROVE  \E h : Reads(h, m + 1, s)
<1> DEFINE Val(x) == IF m + 1 \in x THEN Type(g[x \ {m + 1}], s[m + 1]) ELSE g[x]
           h == [x \in SUBSET (1 .. m + 1) |-> Val(x)]
<1>1. \A x \in SUBSET (1 .. m + 1) : m + 1 \notin x => x \in SUBSET (1 .. m)
  OBVIOUS
<1>2. ASSUME NEW x \in SUBSET (1 .. m + 1)
      PROVE  Val(x) = IF x = {} THEN Typist ELSE Type(h[x \ {Max(x)}], s[Max(x)])
  <2>1. CASE m + 1 \in x
    <3>1. Max(x) = m + 1
      BY <2>1, MaxOfInterval
    <3>2. x \ {m + 1} \in SUBSET (1 .. m) /\ x \ {m + 1} \in SUBSET (1 .. m + 1)
      OBVIOUS
    <3>3. h[x \ {m + 1}] = g[x \ {m + 1}]
      BY <3>2
    <3> QED BY <2>1, <3>1, <3>3
  <2>2. CASE m + 1 \notin x
    <3>1. x \in SUBSET (1 .. m) /\ x \ {Max(x)} \in SUBSET (1 .. m)
      BY <1>1, <2>2
    <3>2. g[x] = IF x = {} THEN Typist ELSE Type(g[x \ {Max(x)}], s[Max(x)])
      BY <3>1 DEF Reads
    <3>3. h[x \ {Max(x)}] = g[x \ {Max(x)}]
      BY <2>2
    <3> QED BY <2>2, <3>2, <3>3
  <2> QED BY <2>1, <2>2
<1>3. h = [x \in SUBSET (1 .. m + 1) |->
             IF x = {} THEN Typist ELSE Type(h[x \ {Max(x)}], s[Max(x)])]
  <2> HIDE DEF Val
  <2> QED BY <1>2
<1> HIDE DEF h
<1> QED BY <1>3 DEF Reads

LEMMA ReadsExists ==
  ASSUME NEW s, NEW n \in Nat
  PROVE  \E g : Reads(g, n, s)
<1> DEFINE T == {m \in Nat : ~\E g : Reads(g, m, s)}
<1> SUFFICES ASSUME T # {} PROVE FALSE
  OBVIOUS
<1>1. PICK m \in T : \A k \in T : m <= k
  <2>1. T \in SUBSET Nat
    OBVIOUS
  <2> HIDE DEF T
  <2> QED BY <2>1, LeastNumber
<1>2. m # 0
  <2>1. Reads([x \in SUBSET (1 .. 0) |-> Typist], 0, s)
    BY DEF Reads
  <2> QED BY <2>1
<1>3. m - 1 \in Nat /\ m - 1 \notin T /\ m - 1 + 1 = m
  BY <1>1, <1>2
<1>4. PICK g : Reads(g, m - 1, s)
  BY <1>3
<1> QED BY <1>1, <1>3, <1>4, ReadsOneMore

\* What Typed reads after each character.
LEMMA TypedRuns ==
  ASSUME NEW C, NEW s \in Seq(C)
  PROVE  \E f : /\ f[0] = Typist /\ Typed(s) = f[Len(s)]
                /\ \A k \in 1 .. Len(s) : f[k] = Type(f[k - 1], s[k])
<1> DEFINE iter == CHOOSE g : Reads(g, Len(s), s)
           f == [k \in 0 .. Len(s) |-> iter[1 .. k]]
<1>1. DOMAIN s = 1 .. Len(s) /\ Len(s) \in Nat
  OBVIOUS
<1>2. Reads(iter, Len(s), s)
  BY <1>1, ReadsExists
<1>3. Typed(s) = iter[1 .. Len(s)]
  BY <1>1 DEF Typed, FoldLeft, MapThenFoldSet, Reads
<1> HIDE DEF iter
<1>4. iter[1 .. 0] = Typist
  BY <1>1, <1>2 DEF Reads
<1>5. ASSUME NEW k \in 1 .. Len(s)
      PROVE  iter[1 .. k] = Type(iter[1 .. k - 1], s[k])
  <2>1. k \in Nat /\ k \in 1 .. k /\ 1 .. k \in SUBSET (1 .. k)
    BY <1>1
  <2>2. Max(1 .. k) = k
    BY <2>1, MaxOfInterval
  <2>3. (1 .. k) \ {k} = 1 .. k - 1 /\ 1 .. k # {} /\ 1 .. k \in SUBSET (1 .. Len(s))
    <3>1. \A i : i \in (1 .. k) \ {k} <=> i \in 1 .. k - 1
      BY ONLY <2>1
    <3>2. \A i \in 1 .. k : i \in 1 .. Len(s)
      BY ONLY <1>1, <2>1, k \in 1 .. Len(s)
    <3> QED BY <2>1, <3>1, <3>2
  <2>4. iter[1 .. k] = IF 1 .. k = {} THEN Typist
                       ELSE Type(iter[(1 .. k) \ {Max(1 .. k)}], s[Max(1 .. k)])
    BY <1>2, <2>3 DEF Reads
  <2> QED BY <2>2, <2>3, <2>4
<1> QED
  <2>1. f[0] = Typist /\ Typed(s) = f[Len(s)]
    BY <1>1, <1>3, <1>4
  <2>2. ASSUME NEW k \in 1 .. Len(s) PROVE f[k] = Type(f[k - 1], s[k])
    BY <1>1, <1>5
  <2> QED BY <2>1, <2>2

LEMMA TypedAppend ==
  ASSUME NEW C, NEW s \in Seq(C), NEW c \in C
  PROVE  Typed(Append(s, c)) = Type(Typed(s), c)
<1> DEFINE u == Append(s, c)
           n == Len(s)
<1>1. /\ u \in Seq(C) /\ Len(u) = n + 1 /\ n \in Nat
      /\ u[n + 1] = c /\ \A k \in 1 .. n : u[k] = s[k]
  BY AppendProperties
<1>2. PICK f : /\ f[0] = Typist /\ Typed(s) = f[n]
               /\ \A k \in 1 .. n : f[k] = Type(f[k - 1], s[k])
  BY TypedRuns
<1> HIDE DEF u
<1>3. PICK h : /\ h[0] = Typist /\ Typed(u) = h[n + 1]
               /\ \A k \in 1 .. n + 1 : h[k] = Type(h[k - 1], u[k])
  BY <1>1, TypedRuns
<1> HIDE DEF n
<1>4. h[n] = f[n]
  <2> DEFINE T == {k \in Nat : k <= n /\ h[k] # f[k]}
  <2> SUFFICES ASSUME T # {} PROVE FALSE
    BY <1>1
  <2>1. PICK k \in T : \A i \in T : k <= i
    <3>1. T \in SUBSET Nat
      OBVIOUS
    <3> HIDE DEF T
    <3> QED BY <3>1, LeastNumber
  <2>2. k # 0
    BY <1>2, <1>3, <2>1
  <2>3. k - 1 \in Nat /\ k - 1 <= n /\ k \in 1 .. n /\ k \in 1 .. n + 1 /\ h[k - 1] = f[k - 1]
    BY <1>1, <2>1, <2>2
  <2>4. h[k] = f[k]
    BY <1>1, <1>2, <1>3, <2>3
  <2> QED BY <2>1, <2>4
<1>5. h[n + 1] = Type(h[n], u[n + 1])
  <2>1. PICK k \in 1 .. n + 1 : k = n + 1 /\ k - 1 = n
    <3>1. n \in Nat
      BY <1>1
    <3> QED BY ONLY <3>1
  <2>2. h[k] = Type(h[k - 1], u[k])
    BY <1>3
  <2> QED BY <2>1, <2>2
<1> QED BY <1>1, <1>2, <1>3, <1>4, <1>5 DEF u

LEMMA TypedNothing == Typed(<<>>) = Typist
<1>1. <<>> \in Seq({}) /\ Len(<<>>) = 0
  OBVIOUS
<1> QED BY <1>1, TypedRuns

Adds(g, m, s, r) ==
  g = [x \in SUBSET (1 .. m) |-> IF x = {} THEN r ELSE AddChar(g[x \ {Max(x)}], s[Max(x)])]

LEMMA AddsOneMore ==
  ASSUME NEW r, NEW g, NEW s, NEW m \in Nat, Adds(g, m, s, r)
  PROVE  \E h : Adds(h, m + 1, s, r)
<1> DEFINE Val(x) == IF m + 1 \in x THEN AddChar(g[x \ {m + 1}], s[m + 1]) ELSE g[x]
           h == [x \in SUBSET (1 .. m + 1) |-> Val(x)]
<1>1. \A x \in SUBSET (1 .. m + 1) : m + 1 \notin x => x \in SUBSET (1 .. m)
  OBVIOUS
<1>2. ASSUME NEW x \in SUBSET (1 .. m + 1)
      PROVE  Val(x) = IF x = {} THEN r ELSE AddChar(h[x \ {Max(x)}], s[Max(x)])
  <2>1. CASE m + 1 \in x
    <3>1. Max(x) = m + 1
      BY <2>1, MaxOfInterval
    <3>2. x \ {m + 1} \in SUBSET (1 .. m) /\ x \ {m + 1} \in SUBSET (1 .. m + 1)
      OBVIOUS
    <3>3. h[x \ {m + 1}] = g[x \ {m + 1}]
      BY <3>2
    <3> QED BY <2>1, <3>1, <3>3
  <2>2. CASE m + 1 \notin x
    <3>1. x \in SUBSET (1 .. m) /\ x \ {Max(x)} \in SUBSET (1 .. m)
      BY <1>1, <2>2
    <3>2. g[x] = IF x = {} THEN r ELSE AddChar(g[x \ {Max(x)}], s[Max(x)])
      BY <3>1 DEF Adds
    <3>3. h[x \ {Max(x)}] = g[x \ {Max(x)}]
      BY <2>2
    <3> QED BY <2>2, <3>2, <3>3
  <2> QED BY <2>1, <2>2
<1>3. h = [x \in SUBSET (1 .. m + 1) |->
             IF x = {} THEN r ELSE AddChar(h[x \ {Max(x)}], s[Max(x)])]
  <2> HIDE DEF Val
  <2> QED BY <1>2
<1> HIDE DEF h
<1> QED BY <1>3 DEF Adds

LEMMA AddsExist ==
  ASSUME NEW r, NEW s, NEW n \in Nat
  PROVE  \E g : Adds(g, n, s, r)
<1> DEFINE T == {m \in Nat : ~\E g : Adds(g, m, s, r)}
<1> SUFFICES ASSUME T # {} PROVE FALSE
  OBVIOUS
<1>1. PICK m \in T : \A k \in T : m <= k
  <2>1. T \in SUBSET Nat
    OBVIOUS
  <2> HIDE DEF T
  <2> QED BY <2>1, LeastNumber
<1>2. m # 0
  <2>1. Adds([x \in SUBSET (1 .. 0) |-> r], 0, s, r)
    BY DEF Adds
  <2> QED BY <2>1
<1>3. m - 1 \in Nat /\ m - 1 \notin T /\ m - 1 + 1 = m
  BY <1>1, <1>2
<1>4. PICK g : Adds(g, m - 1, s, r)
  BY <1>3
<1> QED BY <1>1, <1>3, <1>4, AddsOneMore

\* What addChars() leaves after each character.
LEMMA AddRuns ==
  ASSUME NEW r, NEW C, NEW s \in Seq(C)
  PROVE  \E f : /\ f[0] = r /\ addChars(r, s) = f[Len(s)]
                /\ \A k \in 1 .. Len(s) : f[k] = AddChar(f[k - 1], s[k])
<1> DEFINE iter == CHOOSE g : Adds(g, Len(s), s, r)
           f == [k \in 0 .. Len(s) |-> iter[1 .. k]]
<1>1. DOMAIN s = 1 .. Len(s) /\ Len(s) \in Nat
  OBVIOUS
<1>2. Adds(iter, Len(s), s, r)
  BY <1>1, AddsExist
<1>3. addChars(r, s) = iter[1 .. Len(s)]
  BY <1>1 DEF addChars, FoldLeft, MapThenFoldSet, Adds
<1> HIDE DEF iter
<1>4. iter[1 .. 0] = r
  BY <1>1, <1>2 DEF Adds
<1>5. ASSUME NEW k \in 1 .. Len(s)
      PROVE  iter[1 .. k] = AddChar(iter[1 .. k - 1], s[k])
  <2>1. k \in Nat /\ k \in 1 .. k /\ 1 .. k \in SUBSET (1 .. k)
    BY <1>1
  <2>2. Max(1 .. k) = k
    BY <2>1, MaxOfInterval
  <2>3. (1 .. k) \ {k} = 1 .. k - 1 /\ 1 .. k # {} /\ 1 .. k \in SUBSET (1 .. Len(s))
    <3>1. \A i : i \in (1 .. k) \ {k} <=> i \in 1 .. k - 1
      BY ONLY <2>1
    <3>2. \A i \in 1 .. k : i \in 1 .. Len(s)
      BY ONLY <1>1, <2>1, k \in 1 .. Len(s)
    <3> QED BY <2>1, <3>1, <3>2
  <2>4. iter[1 .. k] = IF 1 .. k = {} THEN r
                       ELSE AddChar(iter[(1 .. k) \ {Max(1 .. k)}], s[Max(1 .. k)])
    BY <1>2, <2>3 DEF Adds
  <2> QED BY <2>2, <2>3, <2>4
<1> QED
  <2>1. f[0] = r /\ addChars(r, s) = f[Len(s)]
    BY <1>1, <1>3, <1>4
  <2>2. ASSUME NEW k \in 1 .. Len(s) PROVE f[k] = AddChar(f[k - 1], s[k])
    BY <1>1, <1>5
  <2> QED BY <2>1, <2>2

LEMMA AddAppend ==
  ASSUME NEW r, NEW C, NEW s \in Seq(C), NEW c \in C
  PROVE  addChars(r, Append(s, c)) = AddChar(addChars(r, s), c)
<1> DEFINE u == Append(s, c)
           n == Len(s)
<1>1. /\ u \in Seq(C) /\ Len(u) = n + 1 /\ n \in Nat
      /\ u[n + 1] = c /\ \A k \in 1 .. n : u[k] = s[k]
  BY AppendProperties
<1>2. PICK f : /\ f[0] = r /\ addChars(r, s) = f[n]
               /\ \A k \in 1 .. n : f[k] = AddChar(f[k - 1], s[k])
  BY AddRuns
<1> HIDE DEF u
<1>3. PICK h : /\ h[0] = r /\ addChars(r, u) = h[n + 1]
               /\ \A k \in 1 .. n + 1 : h[k] = AddChar(h[k - 1], u[k])
  BY <1>1, AddRuns
<1> HIDE DEF n
<1>4. h[n] = f[n]
  <2> DEFINE T == {k \in Nat : k <= n /\ h[k] # f[k]}
  <2> SUFFICES ASSUME T # {} PROVE FALSE
    BY <1>1
  <2>1. PICK k \in T : \A i \in T : k <= i
    <3>1. T \in SUBSET Nat
      OBVIOUS
    <3> HIDE DEF T
    <3> QED BY <3>1, LeastNumber
  <2>2. k # 0
    BY <1>2, <1>3, <2>1
  <2>3. k - 1 \in Nat /\ k - 1 <= n /\ k \in 1 .. n /\ k \in 1 .. n + 1 /\ h[k - 1] = f[k - 1]
    BY <1>1, <2>1, <2>2
  <2>4. h[k] = f[k]
    BY <1>1, <1>2, <1>3, <2>3
  <2> QED BY <2>1, <2>4
<1>5. h[n + 1] = AddChar(h[n], u[n + 1])
  <2>1. PICK k \in 1 .. n + 1 : k = n + 1 /\ k - 1 = n
    <3>1. n \in Nat
      BY <1>1
    <3> QED BY ONLY <3>1
  <2>2. h[k] = AddChar(h[k - 1], u[k])
    BY <1>3
  <2> QED BY <2>1, <2>2
<1> QED BY <1>1, <1>2, <1>3, <1>4, <1>5 DEF u

LEMMA AddNothing == ASSUME NEW r PROVE addChars(r, <<>>) = r
<1>1. <<>> \in Seq({}) /\ Len(<<>>) = 0
  OBVIOUS
<1> QED BY <1>1, AddRuns

Collects(g, m, s) ==
  g = [x \in SUBSET (1 .. m) |-> IF x = {} THEN <<>> ELSE WithCommand(g[x \ {Max(x)}], Stripped(s[Max(x)]))]

LEMMA CollectsOneMore ==
  ASSUME NEW g, NEW s, NEW m \in Nat, Collects(g, m, s)
  PROVE  \E h : Collects(h, m + 1, s)
<1> DEFINE Val(x) == IF m + 1 \in x THEN WithCommand(g[x \ {m + 1}], Stripped(s[m + 1])) ELSE g[x]
           h == [x \in SUBSET (1 .. m + 1) |-> Val(x)]
<1>1. \A x \in SUBSET (1 .. m + 1) : m + 1 \notin x => x \in SUBSET (1 .. m)
  OBVIOUS
<1>2. ASSUME NEW x \in SUBSET (1 .. m + 1)
      PROVE  Val(x) = IF x = {} THEN <<>> ELSE WithCommand(h[x \ {Max(x)}], Stripped(s[Max(x)]))
  <2>1. CASE m + 1 \in x
    <3>1. Max(x) = m + 1
      BY <2>1, MaxOfInterval
    <3>2. x \ {m + 1} \in SUBSET (1 .. m) /\ x \ {m + 1} \in SUBSET (1 .. m + 1)
      OBVIOUS
    <3>3. h[x \ {m + 1}] = g[x \ {m + 1}]
      BY <3>2
    <3> QED BY <2>1, <3>1, <3>3
  <2>2. CASE m + 1 \notin x
    <3>1. x \in SUBSET (1 .. m) /\ x \ {Max(x)} \in SUBSET (1 .. m)
      BY <1>1, <2>2
    <3>2. g[x] = IF x = {} THEN <<>> ELSE WithCommand(g[x \ {Max(x)}], Stripped(s[Max(x)]))
      BY <3>1 DEF Collects
    <3>3. h[x \ {Max(x)}] = g[x \ {Max(x)}]
      BY <2>2
    <3> QED BY <2>2, <3>2, <3>3
  <2> QED BY <2>1, <2>2
<1>3. h = [x \in SUBSET (1 .. m + 1) |->
             IF x = {} THEN <<>> ELSE WithCommand(h[x \ {Max(x)}], Stripped(s[Max(x)]))]
  <2> HIDE DEF Val
  <2> QED BY <1>2
<1> HIDE DEF h
<1> QED BY <1>3 DEF Collects

LEMMA CollectsExists ==
  ASSUME NEW s, NEW n \in Nat
  PROVE  \E g : Collects(g, n, s)
<1> DEFINE T == {m \in Nat : ~\E g : Collects(g, m, s)}
<1> SUFFICES ASSUME T # {} PROVE FALSE
  OBVIOUS
<1>1. PICK m \in T : \A k \in T : m <= k
  <2>1. T \in SUBSET Nat
    OBVIOUS
  <2> HIDE DEF T
  <2> QED BY <2>1, LeastNumber
<1>2. m # 0
  <2>1. Collects([x \in SUBSET (1 .. 0) |-> <<>>], 0, s)
    BY DEF Collects
  <2> QED BY <2>1
<1>3. m - 1 \in Nat /\ m - 1 \notin T /\ m - 1 + 1 = m
  BY <1>1, <1>2
<1>4. PICK g : Collects(g, m - 1, s)
  BY <1>3
<1> QED BY <1>1, <1>3, <1>4, CollectsOneMore

\* What Commands has after each line.
LEMMA CommandsRun ==
  ASSUME NEW C, NEW s \in Seq(C)
  PROVE  \E f : /\ f[0] = <<>> /\ Commands(s) = f[Len(s)]
                /\ \A k \in 1 .. Len(s) : f[k] = WithCommand(f[k - 1], Stripped(s[k]))
<1> DEFINE iter == CHOOSE g : Collects(g, Len(s), s)
           f == [k \in 0 .. Len(s) |-> iter[1 .. k]]
<1>1. DOMAIN s = 1 .. Len(s) /\ Len(s) \in Nat
  OBVIOUS
<1>2. Collects(iter, Len(s), s)
  BY <1>1, CollectsExists
<1>3. Commands(s) = iter[1 .. Len(s)]
  BY <1>1 DEF Commands, FoldLeft, MapThenFoldSet, Collects
<1> HIDE DEF iter
<1>4. iter[1 .. 0] = <<>>
  BY <1>1, <1>2 DEF Collects
<1>5. ASSUME NEW k \in 1 .. Len(s)
      PROVE  iter[1 .. k] = WithCommand(iter[1 .. k - 1], Stripped(s[k]))
  <2>1. k \in Nat /\ k \in 1 .. k /\ 1 .. k \in SUBSET (1 .. k)
    BY <1>1
  <2>2. Max(1 .. k) = k
    BY <2>1, MaxOfInterval
  <2>3. (1 .. k) \ {k} = 1 .. k - 1 /\ 1 .. k # {} /\ 1 .. k \in SUBSET (1 .. Len(s))
    <3>1. \A i : i \in (1 .. k) \ {k} <=> i \in 1 .. k - 1
      BY ONLY <2>1
    <3>2. \A i \in 1 .. k : i \in 1 .. Len(s)
      BY ONLY <1>1, <2>1, k \in 1 .. Len(s)
    <3> QED BY <2>1, <3>1, <3>2
  <2>4. iter[1 .. k] = IF 1 .. k = {} THEN <<>>
                       ELSE WithCommand(iter[(1 .. k) \ {Max(1 .. k)}], Stripped(s[Max(1 .. k)]))
    BY <1>2, <2>3 DEF Collects
  <2> QED BY <2>2, <2>3, <2>4
<1> QED
  <2>1. f[0] = <<>> /\ Commands(s) = f[Len(s)]
    BY <1>1, <1>3, <1>4
  <2>2. ASSUME NEW k \in 1 .. Len(s) PROVE f[k] = WithCommand(f[k - 1], Stripped(s[k]))
    BY <1>1, <1>5
  <2> QED BY <2>1, <2>2

LEMMA CommandsAppend ==
  ASSUME NEW C, NEW s \in Seq(C), NEW c \in C
  PROVE  Commands(Append(s, c)) = WithCommand(Commands(s), Stripped(c))
<1> DEFINE u == Append(s, c)
           n == Len(s)
<1>1. /\ u \in Seq(C) /\ Len(u) = n + 1 /\ n \in Nat
      /\ u[n + 1] = c /\ \A k \in 1 .. n : u[k] = s[k]
  BY AppendProperties
<1>2. PICK f : /\ f[0] = <<>> /\ Commands(s) = f[n]
               /\ \A k \in 1 .. n : f[k] = WithCommand(f[k - 1], Stripped(s[k]))
  BY CommandsRun
<1> HIDE DEF u
<1>0. \E h : /\ h[0] = <<>> /\ Commands(u) = h[Len(u)]
              /\ \A k \in 1 .. Len(u) : h[k] = WithCommand(h[k - 1], Stripped(u[k]))
  BY ONLY <1>1, CommandsRun, Zenon
<1>3. PICK h : /\ h[0] = <<>> /\ Commands(u) = h[n + 1]
               /\ \A k \in 1 .. n + 1 : h[k] = WithCommand(h[k - 1], Stripped(u[k]))
  <2>1. Len(u) = n + 1
    BY <1>1
  <2> QED BY ONLY <1>0, <2>1, Zenon
<1> HIDE DEF n
<1>4. h[n] = f[n]
  <2> DEFINE T == {k \in Nat : k <= n /\ h[k] # f[k]}
  <2> SUFFICES ASSUME T # {} PROVE FALSE
    BY <1>1
  <2>1. PICK k \in T : \A i \in T : k <= i
    <3>1. T \in SUBSET Nat
      OBVIOUS
    <3> HIDE DEF T
    <3> QED BY <3>1, LeastNumber
  <2>2. k # 0
    BY <1>2, <1>3, <2>1
  <2>3. k - 1 \in Nat /\ k - 1 <= n /\ k \in 1 .. n /\ k \in 1 .. n + 1 /\ h[k - 1] = f[k - 1]
    BY <1>1, <2>1, <2>2
  <2>4. h[k] = f[k]
    BY <1>1, <1>2, <1>3, <2>3
  <2> QED BY <2>1, <2>4
<1>5. h[n + 1] = WithCommand(h[n], Stripped(u[n + 1]))
  <2>1. PICK k \in 1 .. n + 1 : k = n + 1 /\ k - 1 = n
    <3>1. n \in Nat
      BY <1>1
    <3> QED BY ONLY <3>1
  <2>2. h[k] = WithCommand(h[k - 1], Stripped(u[k]))
    BY <1>3
  <2> QED BY <2>1, <2>2
<1> QED BY <1>1, <1>2, <1>3, <1>4, <1>5 DEF u

LEMMA CommandsOfNone == Commands(<<>>) = <<>>
<1>1. <<>> \in Seq({}) /\ Len(<<>>) = 0
  OBVIOUS
<1> QED BY <1>1, CommandsRun

-----------------------------------------------------------------------------
(* Commands and their order *)

LEMMA InOrderNothing == InOrderOf(<<>>, <<>>)
<1>1. DOMAIN <<>> = {}
  OBVIOUS
<1>2. [i \in {} |-> 0] \in [{} -> {}]
  OBVIOUS
<1> QED BY <1>1, <1>2 DEF InOrderOf

LEMMA InOrderMore ==
  ASSUME NEW S, NEW part \in Seq(S), NEW whole \in Seq(S), NEW x \in S, InOrderOf(part, whole)
  PROVE  InOrderOf(part, Append(whole, x)) /\ InOrderOf(Append(part, x), Append(whole, x))
<1> DEFINE n == Len(part)
           m == Len(whole)
<1>1. /\ n \in Nat /\ m \in Nat /\ DOMAIN part = 1 .. n /\ DOMAIN whole = 1 .. m
      /\ DOMAIN Append(part, x) = 1 .. n + 1 /\ DOMAIN Append(whole, x) = 1 .. m + 1
      /\ \A i \in 1 .. n : Append(part, x)[i] = part[i]
      /\ \A i \in 1 .. m : Append(whole, x)[i] = whole[i]
      /\ Append(part, x)[n + 1] = x /\ Append(whole, x)[m + 1] = x
  BY AppendProperties
<1>2. PICK at \in [1 .. n -> 1 .. m] :
        /\ \A i \in 1 .. n : whole[at[i]] = part[i]
        /\ \A i, j \in 1 .. n : i < j => at[i] < at[j]
  BY <1>1 DEF InOrderOf
<1> HIDE DEF n, m
<1>3. InOrderOf(part, Append(whole, x))
  <2>1. at \in [1 .. n -> 1 .. m + 1]
    BY <1>1, <1>2
  <2>2. \A i \in 1 .. n : Append(whole, x)[at[i]] = part[i]
    BY <1>1, <1>2
  <2> QED BY <1>1, <1>2, <2>1, <2>2 DEF InOrderOf
<1>4. InOrderOf(Append(part, x), Append(whole, x))
  <2> DEFINE to == [i \in 1 .. n + 1 |-> IF i = n + 1 THEN m + 1 ELSE at[i]]
  <2>1. ASSUME NEW i \in 1 .. n + 1
        PROVE  to[i] \in 1 .. m + 1 /\ Append(whole, x)[to[i]] = Append(part, x)[i]
    <3>1. CASE i = n + 1
      BY <1>1, <3>1
    <3>2. CASE i # n + 1
      <4>1. i \in 1 .. n
        BY <1>1, <3>2
      <4>2. at[i] \in 1 .. m /\ to[i] = at[i] /\ Append(whole, x)[at[i]] = whole[at[i]]
        BY <1>1, <1>2, <3>2, <4>1
      <4> QED BY <1>1, <1>2, <4>1, <4>2
    <3> QED BY <3>1, <3>2
  <2>2. ASSUME NEW i \in 1 .. n + 1, NEW j \in 1 .. n + 1, i < j PROVE to[i] < to[j]
    <3>1. i \in 1 .. n /\ to[i] = at[i] /\ at[i] \in 1 .. m
      BY <1>1, <1>2, <2>2
    <3>2. CASE j = n + 1
      BY <1>1, <3>1, <3>2
    <3>3. CASE j # n + 1
      <4>1. j \in 1 .. n /\ to[j] = at[j]
        BY <1>1, <3>3
      <4> QED BY <1>2, <2>2, <3>1, <4>1
    <3> QED BY <3>2, <3>3
  <2>3. to \in [1 .. n + 1 -> 1 .. m + 1]
    BY <2>1
  <2> HIDE DEF to
  <2> QED BY <1>1, <2>1, <2>2, <2>3 DEF InOrderOf
<1> QED BY <1>3, <1>4

LEMMA WithCommandIs ==
  ASSUME NEW S, NEW seen \in Seq(S), NEW x \in S
  PROVE  /\ WithCommand(seen, x) \in Seq(S)
         /\ Len(WithCommand(seen, x)) \in {Len(seen), Len(seen) + 1}
BY DEF WithCommand

LEMMA CommandsRunIn ==
  ASSUME NEW lines \in Seq(Seq(Chars))
  PROVE  \E f : /\ f[0] = <<>> /\ Commands(lines) = f[Len(lines)]
                /\ \A k \in 1 .. Len(lines) : f[k] = WithCommand(f[k - 1], Stripped(lines[k]))
                /\ \A k \in 0 .. Len(lines) : f[k] \in Seq(StrippedOf(Seq(Chars)))
<1> DEFINE n == Len(lines)
           S == StrippedOf(Seq(Chars))
<1>1. n \in Nat /\ \A k \in 1 .. n : Stripped(lines[k]) \in S
  <2>1. n \in Nat /\ \A k \in 1 .. n : lines[k] \in Seq(Chars)
    OBVIOUS
  <2>2. \A line \in Seq(Chars) : Stripped(line) \in S
    BY Zenon DEF StrippedOf
  <2> QED BY ONLY <2>1, <2>2, Zenon
<1>2. PICK f : /\ f[0] = <<>> /\ Commands(lines) = f[n]
               /\ \A k \in 1 .. n : f[k] = WithCommand(f[k - 1], Stripped(lines[k]))
  BY CommandsRun
<1> HIDE DEF n, S
<1>3. \A k \in 0 .. n : f[k] \in Seq(S)
  <2> DEFINE T == {k \in Nat : k <= n /\ f[k] \notin Seq(S)}
  <2> SUFFICES ASSUME T # {} PROVE FALSE
    BY <1>1
  <2>1. PICK k \in T : \A i \in T : k <= i
    <3>1. T \in SUBSET Nat
      OBVIOUS
    <3> HIDE DEF T
    <3> QED BY <3>1, LeastNumber
  <2>2. k # 0
    <3>1. <<>> \in Seq(S)
      OBVIOUS
    <3> QED BY <1>2, <2>1, <3>1
  <2>3. k - 1 \in Nat /\ k - 1 <= n /\ k \in 1 .. n /\ f[k - 1] \in Seq(S)
    BY <1>1, <2>1, <2>2
  <2>4. f[k] \in Seq(S)
    <3>1. f[k] = WithCommand(f[k - 1], Stripped(lines[k])) /\ Stripped(lines[k]) \in S
      BY <1>1, <1>2, <2>3
    <3> QED BY <2>3, <3>1, WithCommandIs
  <2> QED BY <2>1, <2>4
<1> QED BY <1>2, <1>3 DEF n, S

LEMMA CommandsIn ==
  ASSUME NEW lines \in Seq(Seq(Chars))
  PROVE  Commands(lines) \in Seq(StrippedOf(Seq(Chars)))
<1>1. Len(lines) \in 0 .. Len(lines)
  OBVIOUS
<1> QED BY <1>1, CommandsRunIn

Joined(s, t) == s \o t

LEMMA JoinedWith ==
  ASSUME NEW S, NEW s \in Seq(S), NEW t \in Seq(S), NEW x \in S
  PROVE  WithCommand(Joined(s, t), x) = Joined(s, WithCommand(t, x))
<1>1. Append(Joined(s, t), x) = Joined(s, Append(t, x))
  BY DEF Joined
<1> QED BY <1>1 DEF WithCommand

\* The first command can be taken away before the others are collected.
LEMMA CommandsTail ==
  ASSUME NEW lines \in Seq(Seq(Chars)), lines # <<>>
  PROVE  Commands(lines) = WithCommand(<<>>, Stripped(lines[1])) \o Commands(Tail(lines))
<1> DEFINE n == Len(lines) - 1
           S == StrippedOf(Seq(Chars))
           first == WithCommand(<<>>, Stripped(lines[1]))
           u == Tail(lines)
           x == [k \in 1 .. n |-> Stripped(u[k])]
<1>1. /\ n \in Nat /\ Len(lines) = n + 1 /\ u \in Seq(Seq(Chars)) /\ Len(u) = n
      /\ \A k \in 1 .. n : u[k] = lines[k + 1]
      /\ \A k \in 1 .. n + 1 : Stripped(lines[k]) \in S
  <2>1. Len(lines) \in Nat \ {0}
    OBVIOUS
  <2>2. /\ n \in Nat /\ Len(lines) = n + 1 /\ u \in Seq(Seq(Chars)) /\ Len(u) = n
        /\ \A k \in 1 .. n : u[k] = lines[k + 1]
    BY <2>1, HeadTailProperties
  <2>3. ASSUME NEW k \in 1 .. Len(lines) PROVE Stripped(lines[k]) \in S
    BY DEF StrippedOf
  <2> HIDE DEF n, u, S
  <2> QED BY <2>2, <2>3
<1> HIDE DEF n, u, S
<1>0. n \in Nat
  BY <1>1
<1>2. first \in Seq(S)
  <2>1. 1 \in 1 .. n + 1 /\ <<>> \in Seq(S)
    BY <1>0
  <2>2. Stripped(lines[1]) \in S
    BY <1>1, <2>1
  <2> QED BY <2>1, <2>2, WithCommandIs
<1>3. PICK f : /\ f[0] = <<>> /\ Commands(lines) = f[n + 1]
               /\ \A k \in 1 .. n + 1 : f[k] = WithCommand(f[k - 1], Stripped(lines[k]))
  <2>1. Len(lines) = n + 1
    BY <1>1
  <2> QED BY <2>1, CommandsRunIn
<1>4. PICK h : /\ h[0] = <<>> /\ Commands(u) = h[n]
               /\ \A k \in 1 .. n : h[k] = WithCommand(h[k - 1], Stripped(u[k]))
               /\ \A k \in 0 .. n : h[k] \in Seq(S)
  BY <1>1, CommandsRunIn DEF S
<1>5. f[1] = first
  <2>1. f[1] = WithCommand(f[1 - 1], Stripped(lines[1])) /\ 1 - 1 = 0
    BY <1>0, <1>3
  <2> QED BY <1>3, <2>1
<1> HIDE DEF first
<1>6. ASSUME NEW k \in 1 .. n
      PROVE  /\ x[k] \in S /\ h[k] = WithCommand(h[k - 1], x[k])
             /\ f[k + 1] = WithCommand(f[k], x[k])
  <2>1. PICK i \in 1 .. n + 1 : i = k + 1 /\ i - 1 = k
    BY <1>0
  <2>2. f[i] = WithCommand(f[i - 1], Stripped(lines[i])) /\ Stripped(lines[i]) \in S
    BY <1>1, <1>3
  <2>3. x[k] = Stripped(lines[i]) /\ x[k] = Stripped(u[k])
    BY <1>1, <2>1
  <2> QED BY <1>4, <2>1, <2>2, <2>3
<1> HIDE DEF x
<1> DEFINE P(k) == f[k + 1] = Joined(first, h[k])
<1>7. \A k \in 0 .. n : P(k)
  <2> DEFINE T == {k \in Nat : k <= n /\ ~P(k)}
  <2> SUFFICES ASSUME T # {} PROVE FALSE
    <3> HIDE DEF P
    <3> QED BY <1>0
  <2>1. PICK k \in T : \A i \in T : k <= i
    <3>1. T \in SUBSET Nat
      OBVIOUS
    <3> HIDE DEF T
    <3> QED BY <3>1, LeastNumber
  <2>2. P(0)
    <3>1. Joined(first, <<>>) = first
      BY <1>2 DEF Joined
    <3> QED BY <1>4, <1>5, <3>1
  <2>3. CASE k # 0
    <3>1. /\ k - 1 \in Nat /\ k - 1 \in 0 .. n /\ k \in 1 .. n /\ k - 1 + 1 = k
      BY <1>0, <2>1, <2>3
    <3>2. P(k - 1)
      <4> HIDE DEF P
      <4> QED BY <2>1, <3>1
    <3>3. f[k] = Joined(first, h[k - 1]) /\ h[k - 1] \in Seq(S)
      BY <1>4, <3>1, <3>2
    <3>4. x[k] \in S
      BY <1>6, <3>1
    <3>5. WithCommand(f[k], x[k]) = Joined(first, WithCommand(h[k - 1], x[k]))
      BY <1>2, <3>3, <3>4, JoinedWith
    <3>6. P(k)
      BY <1>6, <3>1, <3>5
    <3> QED BY <2>1, <3>6
  <2> HIDE DEF P
  <2> QED BY <2>1, <2>2, <2>3
<1>8. P(n)
  <2> HIDE DEF P
  <2> QED BY <1>0, <1>7
<1> QED BY <1>3, <1>4, <1>8 DEF first, u, Joined

-----------------------------------------------------------------------------
(* The buffer and its markers *)

LEMMA PartIs ==
  ASSUME NEW S, NEW s \in Seq(S), NEW m \in Nat \ {0}, NEW n \in Nat, n <= Len(s)
  PROVE  /\ SubSeq(s, m, n) \in Seq(S)
         /\ Len(SubSeq(s, m, n)) = IF m <= n THEN n - m + 1 ELSE 0
         /\ \A i \in 1 .. n - m + 1 : SubSeq(s, m, n)[i] = s[m + i - 1]
<1>1. m \in Int /\ n \in Int /\ \A i \in m .. n : s[i] \in S
  <2>1. \A i \in m .. n : i \in 1 .. Len(s)
    OBVIOUS
  <2> QED BY <2>1, ElementOfSeq
<1> QED BY <1>1, SubSeqProperties

LEMMA PartsEqual ==
  ASSUME NEW S, NEW s \in Seq(S), NEW t \in Seq(S), NEW m \in Nat \ {0}, NEW n \in Nat,
         n <= Len(s), n <= Len(t), \A i \in m .. n : s[i] = t[i]
  PROVE  SubSeq(s, m, n) = SubSeq(t, m, n)
<1>1. /\ SubSeq(s, m, n) \in Seq(S) /\ SubSeq(t, m, n) \in Seq(S)
      /\ Len(SubSeq(s, m, n)) = Len(SubSeq(t, m, n))
      /\ Len(SubSeq(s, m, n)) = IF m <= n THEN n - m + 1 ELSE 0
  BY PartIs
<1>2. ASSUME NEW i \in 1 .. Len(SubSeq(s, m, n)) PROVE SubSeq(s, m, n)[i] = SubSeq(t, m, n)[i]
  <2>1. i \in 1 .. n - m + 1 /\ m + i - 1 \in m .. n
    BY <1>1
  <2> QED BY <2>1, PartIs
<1> QED BY <1>1, <1>2, SeqEqual

LEMMA PartOfRest ==
  ASSUME NEW S, NEW s \in Seq(S), NEW pos \in Nat, NEW m \in Nat, NEW n \in Nat,
         pos < m, m <= n + 1, n <= Len(s)
  PROVE  SubSeq(SubSeq(s, pos + 1, Len(s)), m - pos, n - pos) = SubSeq(s, m, n)
<1> DEFINE u == SubSeq(s, pos + 1, Len(s))
<1>1. Len(s) \in Nat /\ pos <= n
  OBVIOUS
<1>2. u \in Seq(S) /\ Len(u) = Len(s) - pos /\ \A i \in 1 .. Len(s) - pos : u[i] = s[pos + i]
  <2>1. /\ u \in Seq(S)
        /\ Len(u) = IF pos + 1 <= Len(s) THEN Len(s) - (pos + 1) + 1 ELSE 0
        /\ \A i \in 1 .. Len(s) - (pos + 1) + 1 : u[i] = s[pos + 1 + i - 1]
    BY <1>1, PartIs
  <2>2. Len(s) - (pos + 1) + 1 = Len(s) - pos /\ Len(u) = Len(s) - pos
    BY <1>1, <2>1
  <2>3. ASSUME NEW i \in 1 .. Len(s) - pos PROVE u[i] = s[pos + i]
    <3>1. pos + 1 + i - 1 = pos + i
      BY <1>1
    <3> QED BY <2>1, <2>2, <3>1
  <2> QED BY <2>1, <2>2, <2>3
<1> HIDE DEF u
<1>3. /\ m - pos \in Nat \ {0} /\ n - pos \in Nat /\ n - pos <= Len(u) /\ m \in Nat \ {0}
      /\ (n - pos) - (m - pos) + 1 = n - m + 1
  BY <1>1, <1>2
<1>4. /\ SubSeq(u, m - pos, n - pos) \in Seq(S)
      /\ Len(SubSeq(u, m - pos, n - pos)) = n - m + 1
      /\ \A i \in 1 .. n - m + 1 : SubSeq(u, m - pos, n - pos)[i] = u[m - pos + i - 1]
  BY <1>1, <1>2, <1>3, PartIs
<1>5. /\ SubSeq(s, m, n) \in Seq(S) /\ Len(SubSeq(s, m, n)) = n - m + 1
      /\ \A i \in 1 .. n - m + 1 : SubSeq(s, m, n)[i] = s[m + i - 1]
  BY <1>1, <1>3, PartIs
<1>6. ASSUME NEW i \in 1 .. n - m + 1
      PROVE  SubSeq(u, m - pos, n - pos)[i] = SubSeq(s, m, n)[i]
  <2>1. m - pos + i - 1 \in 1 .. Len(s) - pos /\ pos + (m - pos + i - 1) = m + i - 1
    BY <1>1
  <2> QED BY <1>2, <1>4, <1>5, <2>1
<1> QED BY <1>4, <1>5, <1>6, SeqEqual DEF u

\* What holds of the containers whatever the user types.
Bounded(r) ==
  /\ r \in RxType /\ r.parsed >= -1
  /\ \A i \in DOMAIN r.buffer : i > MaxQueue => r.buffer[i] = BS

Straight(r) == Bounded(r) /\ MarkersFit(r)

Begin(r, i) == IF i = 1 THEN 1 ELSE r.ends[i - 1] + 1
Line(r, i) == SubSeq(r.buffer, Begin(r, i), r.ends[i] - 1)

LEMMA MarkersAre ==
  ASSUME NEW r, Straight(r)
  PROVE  /\ r.buffer \in Seq(Chars) /\ r.ends \in Seq(Nat \ {0})
         /\ Len(r.buffer) \in Nat /\ Len(r.ends) \in Nat /\ DOMAIN r.ends = 1 .. Len(r.ends)
         /\ \A i \in 1 .. Len(r.ends) :
              /\ r.ends[i] \in Nat \ {0} /\ r.ends[i] <= Len(r.buffer)
              /\ Begin(r, i) \in Nat \ {0} /\ Begin(r, i) <= r.ends[i]
              /\ r.ends[i] <= LastEnd(r)
         /\ LastEnd(r) \in Nat /\ LastEnd(r) <= Len(r.buffer)
<1>1. r.buffer \in Seq(Chars) /\ r.ends \in Seq(Nat \ {0})
  <2>1. r \in RxType
    BY DEF Straight, Bounded
  <2>2. r.buffer \in Seq(Chars)
    BY ONLY <2>1 DEF RxType
  <2>3. r.ends \in Seq(Int)
    BY ONLY <2>1 DEF RxType
  <2>4. \A i \in DOMAIN r.ends : r.ends[i] \in DOMAIN r.buffer
    BY DEF Straight, MarkersFit
  <2>5. \A i \in DOMAIN r.ends : r.ends[i] \in Nat \ {0}
    BY ONLY <2>2, <2>4
  <2>6. r.ends \in Seq(Nat \ {0})
    BY ONLY <2>3, <2>5
  <2> QED BY <2>2, <2>6
<1>2. Len(r.buffer) \in Nat /\ Len(r.ends) \in Nat /\ DOMAIN r.ends = 1 .. Len(r.ends)
  BY <1>1
<1>3. ASSUME NEW i \in 1 .. Len(r.ends)
      PROVE  r.ends[i] \in Nat \ {0} /\ r.ends[i] <= Len(r.buffer)
  BY <1>1, <1>2 DEF Straight, MarkersFit
<1>4. ASSUME NEW i \in 1 .. Len(r.ends)
      PROVE  Begin(r, i) \in Nat \ {0} /\ Begin(r, i) <= r.ends[i]
  <2>1. CASE i = 1
    BY <1>3, <2>1 DEF Begin
  <2>2. CASE i # 1
    <3>1. i - 1 \in 1 .. Len(r.ends) /\ i - 1 < i
      BY <1>2, <2>2
    <3>2. r.ends[i - 1] < r.ends[i]
      BY <1>2, <3>1 DEF Straight, MarkersFit
    <3> QED BY <1>3, <2>2, <3>1, <3>2 DEF Begin
  <2> QED BY <2>1, <2>2
<1>5. LastEnd(r) \in Nat /\ LastEnd(r) <= Len(r.buffer)
  <2>1. CASE r.ends = <<>>
    BY <1>2, <2>1 DEF LastEnd
  <2>2. CASE r.ends # <<>>
    <3>1. Len(r.ends) \in 1 .. Len(r.ends)
      BY <1>1, <2>2
    <3> QED BY <1>3, <2>2, <3>1 DEF LastEnd
  <2> QED BY <2>1, <2>2
<1>6. ASSUME NEW i \in 1 .. Len(r.ends) PROVE r.ends[i] <= LastEnd(r)
  <2>1. r.ends # <<>> /\ Len(r.ends) \in 1 .. Len(r.ends)
    BY <1>1, <1>2
  <2>2. i = Len(r.ends) \/ i < Len(r.ends)
    BY <1>2
  <2>3. r.ends[i] <= r.ends[Len(r.ends)]
    <3>1. \A a, b \in 1 .. Len(r.ends) : a < b => r.ends[a] < r.ends[b]
      BY <1>2 DEF Straight, MarkersFit
    <3>2. r.ends[i] \in Nat /\ r.ends[Len(r.ends)] \in Nat
      BY <1>3, <2>1
    <3> QED BY ONLY <2>1, <2>2, <3>1, <3>2
  <2> QED BY <2>1, <2>3 DEF LastEnd
<1> QED BY <1>1, <1>2, <1>3, <1>4, <1>5, <1>6

LEMMA WaitingIs ==
  ASSUME NEW r, Straight(r)
  PROVE  /\ Waiting(r) \in Seq(Seq(Chars)) /\ Len(Waiting(r)) = Len(r.ends)
         /\ \A i \in 1 .. Len(r.ends) : Waiting(r)[i] = Line(r, i)
<1>1. Waiting(r) = [i \in 1 .. Len(r.ends) |-> Line(r, i)]
  BY MarkersAre DEF Waiting, Line, Begin
<1>2. ASSUME NEW i \in 1 .. Len(r.ends) PROVE Line(r, i) \in Seq(Chars)
  <2>1. r.ends[i] - 1 \in Nat /\ r.ends[i] - 1 <= Len(r.buffer)
    BY MarkersAre
  <2> QED BY <2>1, MarkersAre, PartIs DEF Line
<1>3. Len(r.ends) \in Nat
  BY MarkersAre
<1> QED BY <1>1, <1>2, <1>3

\* Lines change only with the buffer up to the last marker.
LEMMA WaitingSame ==
  ASSUME NEW r, NEW v, Straight(r), Straight(v), v.ends = r.ends,
         \A i \in 1 .. LastEnd(r) : v.buffer[i] = r.buffer[i]
  PROVE  Waiting(v) = Waiting(r)
<1>1. ASSUME NEW i \in 1 .. Len(r.ends) PROVE Line(v, i) = Line(r, i)
  <2>1. Begin(v, i) = Begin(r, i)
    BY DEF Begin
  <2>2. /\ r.ends[i] \in Nat \ {0} /\ r.ends[i] <= Len(r.buffer) /\ r.ends[i] <= LastEnd(r)
        /\ Begin(r, i) \in Nat \ {0} /\ LastEnd(r) \in Nat /\ Len(r.buffer) \in Nat
        /\ r.buffer \in Seq(Chars)
    BY MarkersAre
  <2>3. v.ends[i] <= Len(v.buffer) /\ Len(v.buffer) \in Nat /\ v.buffer \in Seq(Chars)
    BY MarkersAre
  <2>4. /\ r.ends[i] - 1 \in Nat /\ r.ends[i] - 1 <= Len(r.buffer) /\ r.ends[i] - 1 <= Len(v.buffer)
        /\ \A k \in Begin(r, i) .. r.ends[i] - 1 : v.buffer[k] = r.buffer[k]
    BY <2>2, <2>3
  <2>5. SubSeq(v.buffer, Begin(r, i), r.ends[i] - 1) = SubSeq(r.buffer, Begin(r, i), r.ends[i] - 1)
    <3> DEFINE s == r.buffer
               t == v.buffer
               m == Begin(r, i)
               n == r.ends[i] - 1
    <3>1. /\ s \in Seq(Chars) /\ t \in Seq(Chars) /\ m \in Nat \ {0} /\ n \in Nat
          /\ n <= Len(s) /\ n <= Len(t) /\ \A k \in m .. n : t[k] = s[k]
      BY ONLY <2>2, <2>3, <2>4
    <3> HIDE DEF s, t, m, n
    <3>2. SubSeq(t, m, n) = SubSeq(s, m, n)
      BY <3>1, PartsEqual
    <3> QED BY <3>2 DEF s, t, m, n
  <2> QED BY <2>1, <2>5 DEF Line
<1>2. DOMAIN r.ends = 1 .. Len(r.ends)
  BY MarkersAre
<1>3. /\ Waiting(r) = [i \in 1 .. Len(r.ends) |-> Line(r, i)]
      /\ Waiting(v) = [i \in 1 .. Len(r.ends) |-> Line(v, i)]
  BY <1>2 DEF Waiting, Line, Begin
<1> QED BY <1>1, <1>3

\* The fields in which two states of the parser agree when only containers change.
SameReader(v, r) ==
  /\ v.lastIsEol = r.lastIsEol /\ v.overflow = r.overflow /\ v.parsed = r.parsed
  /\ v.stored = r.stored /\ v.left = r.left /\ v.reports = r.reports
  /\ v.slipped = r.slipped /\ v.astray = r.astray

LEMMA UnendedIs ==
  ASSUME NEW r, Straight(r)
  PROVE  /\ Unended(r) \in Seq(Chars) /\ Len(Unended(r)) = Len(r.buffer) - LastEnd(r)
         /\ \A i \in 1 .. Len(r.buffer) - LastEnd(r) : Unended(r)[i] = r.buffer[LastEnd(r) + i]
<1> DEFINE m == LastEnd(r) + 1
           n == Len(r.buffer)
<1>1. /\ r.buffer \in Seq(Chars) /\ LastEnd(r) \in Nat /\ n \in Nat /\ LastEnd(r) <= n
      /\ m \in Nat \ {0}
  BY MarkersAre
<1>2. /\ SubSeq(r.buffer, m, n) \in Seq(Chars)
      /\ Len(SubSeq(r.buffer, m, n)) = IF m <= n THEN n - m + 1 ELSE 0
      /\ \A i \in 1 .. n - m + 1 : SubSeq(r.buffer, m, n)[i] = r.buffer[m + i - 1]
  BY <1>1, PartIs
<1>3. Len(SubSeq(r.buffer, m, n)) = n - LastEnd(r) /\ n - m + 1 = n - LastEnd(r)
  BY <1>1, <1>2
<1>4. ASSUME NEW i \in 1 .. n - LastEnd(r)
      PROVE  SubSeq(r.buffer, m, n)[i] = r.buffer[LastEnd(r) + i]
  <2>1. m + i - 1 = LastEnd(r) + i
    BY <1>1
  <2> QED BY <1>2, <1>3, <2>1
<1> QED BY <1>2, <1>3, <1>4 DEF Unended

LEMMA ErasedIs ==
  ASSUME NEW r, Straight(r), r.ends # <<>>
  PROVE  /\ Straight(Erased(r)) /\ SameReader(Erased(r), r)
         /\ Waiting(Erased(r)) = Tail(Waiting(r)) /\ Unended(Erased(r)) = Unended(r)
<1> DEFINE v == Erased(r)
           pos == r.ends[1]
           n == Len(r.ends) - 1
           L == Len(r.buffer)
<1>1. /\ r.buffer \in Seq(Chars) /\ r.ends \in Seq(Nat \ {0}) /\ L \in Nat
      /\ n \in Nat /\ Len(r.ends) = n + 1 /\ DOMAIN r.ends = 1 .. n + 1 /\ Head(r.ends) = pos
  <2>1. r.ends \in Seq(Nat \ {0})
    BY MarkersAre
  <2>2. Len(r.ends) \in Nat \ {0} /\ Head(r.ends) = r.ends[1]
    BY <2>1
  <2> QED BY <2>1, <2>2, MarkersAre
<1>2. \A i \in 1 .. n + 1 :
        /\ r.ends[i] \in Nat \ {0} /\ r.ends[i] <= L
        /\ Begin(r, i) \in Nat \ {0} /\ Begin(r, i) <= r.ends[i] /\ r.ends[i] <= LastEnd(r)
  BY <1>1, MarkersAre
<1>3. \A i, j \in 1 .. n + 1 : i < j => r.ends[i] < r.ends[j]
  BY <1>1 DEF Straight, MarkersFit
<1>4. 1 \in 1 .. n + 1 /\ pos \in Nat \ {0} /\ pos <= L
  BY <1>1, <1>2
<1>5. /\ v.buffer = SubSeq(r.buffer, pos + 1, L)
      /\ v.ends = [i \in 1 .. n |-> r.ends[i + 1] - pos]
      /\ SameReader(v, r) /\ v \in [DOMAIN r -> {v[x] : x \in DOMAIN r}]
  BY <1>1 DEF Erased, SameReader, Straight, Bounded, RxType
<1>6. /\ v.buffer \in Seq(Chars) /\ Len(v.buffer) = L - pos
      /\ \A i \in 1 .. L - pos : v.buffer[i] = r.buffer[pos + i]
  <2>0. L \in Nat /\ pos \in Nat \ {0} /\ pos <= L
    BY <1>1, <1>4
  <2> HIDE DEF L, pos
  <2>1. pos + 1 \in Nat \ {0} /\ L - (pos + 1) + 1 = L - pos /\ (pos + 1 <= L \/ L - pos = 0)
    BY ONLY <2>0
  <2> USE DEF L, pos
  <2>2. /\ SubSeq(r.buffer, pos + 1, L) \in Seq(Chars)
        /\ Len(SubSeq(r.buffer, pos + 1, L)) = IF pos + 1 <= L THEN L - (pos + 1) + 1 ELSE 0
        /\ \A i \in 1 .. L - (pos + 1) + 1 :
             SubSeq(r.buffer, pos + 1, L)[i] = r.buffer[pos + 1 + i - 1]
    <3>1. r.buffer \in Seq(Chars) /\ L \in Nat /\ L <= Len(r.buffer)
      BY <1>1
    <3> HIDE DEF L, pos
    <3> QED BY ONLY <2>1, <3>1, PartIs
  <2>3. ASSUME NEW i \in 1 .. L - pos PROVE v.buffer[i] = r.buffer[pos + i]
    <3>1. pos + 1 + i - 1 = pos + i
      BY <1>4
    <3> QED BY <1>5, <2>1, <2>2, <3>1
  <2> QED BY <1>1, <1>4, <1>5, <2>1, <2>2, <2>3
<1>7. ASSUME NEW i \in 1 .. n
      PROVE  /\ i + 1 \in 1 .. n + 1 /\ v.ends[i] = r.ends[i + 1] - pos
             /\ v.ends[i] \in Nat \ {0} /\ v.ends[i] <= L - pos
  <2>1. i + 1 \in 1 .. n + 1 /\ 1 < i + 1
    BY <1>1
  <2>2. r.ends[1] < r.ends[i + 1]
    BY <1>3, <1>4, <2>1
  <2>3. r.ends[i + 1] \in Nat /\ r.ends[i + 1] <= L
    BY <1>2, <2>1
  <2>4. v.ends[i] = r.ends[i + 1] - pos
    BY <1>5
  <2>5. pos \in Nat /\ L \in Nat /\ pos < r.ends[i + 1]
    BY <1>1, <1>4, <2>2
  <2> HIDE DEF v, pos, L
  <2> QED BY ONLY <2>1, <2>3, <2>4, <2>5
<1>8. v.ends \in Seq(Nat \ {0}) /\ Len(v.ends) = n /\ DOMAIN v.ends = 1 .. n
  <2> HIDE DEF v, pos, n, L
  <2>1. [i \in 1 .. n |-> v.ends[i]] = v.ends
    BY <1>5
  <2>2. \A i \in 1 .. n : v.ends[i] \in Nat \ {0}
    BY <1>7
  <2>3. DOMAIN v.ends = 1 .. n
    BY <1>5
  <2>4. v.ends \in [1 .. n -> Nat \ {0}]
    BY ONLY <2>1, <2>2
  <2> QED BY <1>1, <2>3, <2>4
<1> HIDE DEF v, pos, n, L
<1>9. Straight(v)
  <2>0. v.ends \in Seq(Int)
    BY <1>8
  <2>1. v \in RxType /\ v.parsed >= -1
    BY <1>5, <1>6, <2>0 DEF Straight, Bounded, RxType, SameReader, v, Erased
  <2>2. \A i \in DOMAIN v.ends : v.ends[i] \in DOMAIN v.buffer
    BY <1>6, <1>7, <1>8
  <2>3. ASSUME NEW i \in 1 .. n, NEW j \in 1 .. n, i < j PROVE v.ends[i] < v.ends[j]
    <3>1. i + 1 < j + 1 /\ i + 1 \in 1 .. n + 1 /\ j + 1 \in 1 .. n + 1
      BY <1>1, <2>3
    <3>2. r.ends[i + 1] < r.ends[j + 1] /\ r.ends[i + 1] \in Nat /\ r.ends[j + 1] \in Nat
      BY <1>2, <1>3, <3>1
    <3> QED BY <1>4, <1>7, <3>2
  <2>4. ASSUME NEW i \in 1 .. L - pos, i > MaxQueue PROVE v.buffer[i] = BS
    <3>1. pos + i \in 1 .. L /\ pos + i > MaxQueue /\ DOMAIN r.buffer = 1 .. L
      BY <1>1, <1>4, <2>4, SerialAssumption DEF L
    <3> QED BY <1>6, <3>1 DEF Straight, Bounded
  <2>5. DOMAIN v.buffer = 1 .. L - pos
    BY <1>6
  <2> QED BY <1>8, <2>1, <2>2, <2>3, <2>4, <2>5 DEF Straight, Bounded, MarkersFit
<1>10. Waiting(v) = Tail(Waiting(r))
  <2>1. ASSUME NEW i \in 1 .. n PROVE Line(v, i) = Line(r, i + 1)
    <3>1. Begin(v, i) = Begin(r, i + 1) - pos /\ pos < Begin(r, i + 1)
      <4>1. i + 1 # 1 /\ i + 1 - 1 = i /\ Begin(r, i + 1) = r.ends[i] + 1
        BY <1>1 DEF Begin
      <4>2. CASE i = 1
        BY <1>4, <4>1, <4>2 DEF Begin, pos
      <4>3. CASE i # 1
        <5>1. i - 1 \in 1 .. n /\ i - 1 + 1 = i /\ i \in 1 .. n + 1 /\ 1 < i
          BY <1>1, <4>3
        <5>2. v.ends[i - 1] = r.ends[i] - pos
          BY <1>7, <5>1
        <5>3. Begin(v, i) = r.ends[i] - pos + 1
          BY <4>3, <5>2 DEF Begin
        <5>4. r.ends[1] < r.ends[i] /\ r.ends[i] \in Nat
          BY <1>2, <1>3, <1>4, <5>1
        <5> QED BY <1>4, <4>1, <5>3, <5>4 DEF pos
      <4> QED BY <4>2, <4>3
    <3> DEFINE a == Begin(r, i + 1)
               b == r.ends[i + 1] - 1
    <3>0. /\ r.ends[i + 1] \in Nat \ {0} /\ r.ends[i + 1] <= L
          /\ Begin(r, i + 1) \in Nat \ {0} /\ Begin(r, i + 1) <= r.ends[i + 1]
          /\ v.ends[i] = r.ends[i + 1] - pos /\ pos \in Nat /\ L \in Nat
      BY <1>1, <1>2, <1>4, <1>7
    <3>2. /\ a \in Nat /\ b \in Nat /\ a <= b + 1 /\ b <= L /\ v.ends[i] - 1 = b - pos
      BY ONLY <3>0
    <3>3. pos \in Nat /\ pos < a
      BY <1>4, <3>1
    <3>4. r.buffer \in Seq(Chars) /\ L = Len(r.buffer)
      BY <1>1 DEF L
    <3> HIDE DEF a, b
    <3>5. SubSeq(SubSeq(r.buffer, pos + 1, Len(r.buffer)), a - pos, b - pos) = SubSeq(r.buffer, a, b)
      BY ONLY <3>2, <3>3, <3>4, PartOfRest
    <3> QED BY <1>5, <3>1, <3>2, <3>4, <3>5 DEF Line, a, b
  <2>2. /\ Waiting(r) \in Seq(Seq(Chars)) /\ Len(Waiting(r)) = n + 1
        /\ \A i \in 1 .. n + 1 : Waiting(r)[i] = Line(r, i)
    BY <1>1, WaitingIs
  <2>3. /\ Waiting(v) \in Seq(Seq(Chars)) /\ Len(Waiting(v)) = n
        /\ \A i \in 1 .. n : Waiting(v)[i] = Line(v, i)
    BY <1>8, <1>9, WaitingIs
  <2>4. Waiting(r) # <<>>
    BY <1>1, <2>2
  <2>5. /\ Tail(Waiting(r)) \in Seq(Seq(Chars)) /\ Len(Tail(Waiting(r))) = n
        /\ \A i \in 1 .. n : Tail(Waiting(r))[i] = Waiting(r)[i + 1]
    BY <1>1, <2>2, <2>4, HeadTailProperties
  <2>6. \A i \in 1 .. n : Waiting(v)[i] = Tail(Waiting(r))[i]
    BY <1>7, <2>1, <2>2, <2>3, <2>5
  <2> QED BY <2>3, <2>5, <2>6, SeqEqual
<1>11. LastEnd(v) = LastEnd(r) - pos
  <2>1. CASE n = 0
    <3>1. v.ends = <<>> /\ LastEnd(r) = pos
      BY <1>1, <1>8, <2>1 DEF LastEnd, pos
    <3> QED BY <1>4, <3>1 DEF LastEnd
  <2>2. CASE n # 0
    <3>1. v.ends # <<>> /\ n \in 1 .. n
      BY <1>1, <1>8, <2>2
    <3> QED BY <1>1, <1>7, <1>8, <3>1 DEF LastEnd
  <2> QED BY <2>1, <2>2
<1>12. Unended(v) = Unended(r)
  <2>1. /\ Unended(v) \in Seq(Chars) /\ Len(Unended(v)) = Len(v.buffer) - LastEnd(v)
        /\ \A i \in 1 .. Len(v.buffer) - LastEnd(v) : Unended(v)[i] = v.buffer[LastEnd(v) + i]
    BY <1>9, UnendedIs
  <2>2. /\ Unended(r) \in Seq(Chars) /\ Len(Unended(r)) = L - LastEnd(r)
        /\ \A i \in 1 .. L - LastEnd(r) : Unended(r)[i] = r.buffer[LastEnd(r) + i]
    BY UnendedIs DEF L
  <2>3. /\ LastEnd(r) \in Nat /\ LastEnd(r) <= L /\ pos <= LastEnd(r) /\ L \in Nat /\ pos \in Nat
    BY <1>1, <1>2, <1>4, MarkersAre DEF L, pos
  <2>4. Len(v.buffer) - LastEnd(v) = L - LastEnd(r)
    BY <1>6, <1>11, <2>3
  <2>5. ASSUME NEW i \in 1 .. L - LastEnd(r) PROVE Unended(v)[i] = Unended(r)[i]
    <3>1. LastEnd(v) + i \in 1 .. L - pos /\ pos + (LastEnd(v) + i) = LastEnd(r) + i
      BY <1>11, <2>3
    <3> QED BY <1>6, <2>1, <2>2, <2>4, <3>1
  <2> QED BY <2>1, <2>2, <2>4, <2>5, SeqEqual
<1> QED BY <1>5, <1>9, <1>10, <1>12 DEF v

-----------------------------------------------------------------------------
(* What is done to the end of the buffer *)

\* Whatever is done to the buffer behind the last marker.
Touches(v, r) ==
  /\ v \in RxType /\ v.parsed >= -1 /\ v.ends = r.ends
  /\ LastEnd(r) <= Len(v.buffer)
  /\ \A i \in 1 .. LastEnd(r) : v.buffer[i] = r.buffer[i]
  /\ \A i \in 1 .. Len(v.buffer) : i > MaxQueue => v.buffer[i] = BS

LEMMA TouchesIs ==
  ASSUME NEW r, Straight(r), NEW v, Touches(v, r)
  PROVE  Straight(v) /\ Waiting(v) = Waiting(r) /\ LastEnd(v) = LastEnd(r)
<1>1. v.buffer \in Seq(Chars)
  BY DEF Touches, RxType
<1>2. v.ends = r.ends
  BY DEF Touches
<1>3. DOMAIN v.buffer = 1 .. Len(v.buffer) /\ Len(v.buffer) \in Nat
  BY <1>1
<1>4. ASSUME NEW i \in DOMAIN v.ends PROVE v.ends[i] \in DOMAIN v.buffer
  <2>1. r.ends[i] \in Nat \ {0} /\ r.ends[i] <= LastEnd(r) /\ LastEnd(r) \in Nat
    BY <1>2, MarkersAre
  <2>2. LastEnd(r) <= Len(v.buffer)
    BY DEF Touches
  <2> QED BY <1>2, <1>3, <2>1, <2>2
<1>5. \A i, j \in DOMAIN v.ends : i < j => v.ends[i] < v.ends[j]
  BY <1>2 DEF Straight, MarkersFit
<1>6. \A i \in DOMAIN v.buffer : i > MaxQueue => v.buffer[i] = BS
  BY <1>3 DEF Touches
<1>7. Straight(v)
  BY <1>4, <1>5, <1>6 DEF Straight, Bounded, MarkersFit, Touches
<1>8. Waiting(v) = Waiting(r)
  BY <1>2, <1>7, WaitingSame DEF Touches
<1>9. LastEnd(v) = LastEnd(r)
  BY <1>2 DEF LastEnd
<1> QED BY <1>7, <1>8, <1>9

\* A character goes to the end of the buffer, if it is not full.
Grows(v, r, c) == v.buffer = Append(r.buffer, c)

Pushes(v, r, c) == v \in RxType /\ v.parsed >= -1 /\ v.ends = r.ends /\ Grows(v, r, c)

Fits(r, c) == c = BS \/ Len(r.buffer) < MaxQueue

LEMMA BufferPushed ==
  ASSUME NEW r, Bounded(r), NEW c \in Chars, Fits(r, c), NEW v, Grows(v, r, c)
  PROVE  /\ Len(r.buffer) \in Nat /\ Len(v.buffer) = Len(r.buffer) + 1
         /\ v.buffer \in Seq(Chars)
         /\ v.buffer[Len(r.buffer) + 1] = c
         /\ \A i \in 1 .. Len(r.buffer) : v.buffer[i] = r.buffer[i]
         /\ \A i \in 1 .. Len(v.buffer) : i > MaxQueue => v.buffer[i] = BS
<1> DEFINE L == Len(r.buffer)
<1>1. r.buffer \in Seq(Chars) /\ L \in Nat /\ DOMAIN r.buffer = 1 .. L
  BY DEF Bounded, RxType
<1>2. /\ v.buffer \in Seq(Chars) /\ Len(v.buffer) = L + 1 /\ v.buffer[L + 1] = c
      /\ \A i \in 1 .. L : v.buffer[i] = r.buffer[i]
  <2>1. v.buffer = Append(r.buffer, c)
    BY DEF Grows
  <2> QED BY ONLY <1>1, <2>1, c \in Chars, AppendProperties
<1>3. ASSUME NEW i \in 1 .. Len(v.buffer), i > MaxQueue PROVE v.buffer[i] = BS
  <2> HIDE DEF L
  <2>1. CASE i = L + 1
    <3>1. ~(L < MaxQueue)
      BY <1>1, <1>3, <2>1, SerialAssumption
    <3> QED BY <1>2, <2>1, <3>1 DEF Fits, L
  <2>2. CASE i # L + 1
    <3>1. i \in 1 .. L
      BY <1>1, <1>2, <2>2
    <3>2. r.buffer[i] = BS
      BY <1>1, <1>3, <3>1 DEF Bounded
    <3> QED BY <1>2, <3>1, <3>2
  <2> QED BY <2>1, <2>2
<1> QED BY <1>1, <1>2, <1>3

LEMMA PushesIs ==
  ASSUME NEW r, Straight(r), NEW c \in Chars, Fits(r, c), NEW v, Pushes(v, r, c)
  PROVE  Straight(v) /\ Waiting(v) = Waiting(r) /\ Unended(v) = Append(Unended(r), c)
<1> DEFINE L == Len(r.buffer)
           e == LastEnd(r)
<1>1. /\ L \in Nat /\ Len(v.buffer) = L + 1 /\ v.buffer \in Seq(Chars) /\ v.buffer[L + 1] = c
      /\ \A i \in 1 .. L : v.buffer[i] = r.buffer[i]
      /\ \A i \in 1 .. Len(v.buffer) : i > MaxQueue => v.buffer[i] = BS
  <2>1. Grows(v, r, c)
    BY DEF Pushes
  <2> QED BY <2>1, BufferPushed DEF Straight
<1>2. e \in Nat /\ e <= L
  BY MarkersAre
<1> HIDE DEF L, e
<1>3. Touches(v, r)
  <2>1. \A i \in 1 .. e : v.buffer[i] = r.buffer[i]
    <3>1. \A i \in 1 .. e : i \in 1 .. L
      BY <1>1, <1>2
    <3> QED BY <1>1, <3>1
  <2>2. e <= Len(v.buffer)
    BY <1>1, <1>2
  <2>3. v \in RxType /\ v.parsed >= -1 /\ v.ends = r.ends
    BY DEF Pushes
  <2> QED BY <1>1, <2>1, <2>2, <2>3 DEF Touches, e
<1>4. Straight(v) /\ Waiting(v) = Waiting(r) /\ LastEnd(v) = e
  BY <1>3, TouchesIs DEF e
<1>5. /\ Unended(v) \in Seq(Chars) /\ Len(Unended(v)) = L + 1 - e
      /\ \A i \in 1 .. L + 1 - e : Unended(v)[i] = v.buffer[e + i]
  <2>0. Len(v.buffer) = L + 1 /\ LastEnd(v) = e /\ L \in Nat /\ e \in Nat
    BY <1>1, <1>2, <1>4
  <2>1. Len(v.buffer) - LastEnd(v) = L + 1 - e
    BY ONLY <2>0
  <2>2. /\ Unended(v) \in Seq(Chars) /\ Len(Unended(v)) = Len(v.buffer) - LastEnd(v)
        /\ \A i \in 1 .. Len(v.buffer) - LastEnd(v) : Unended(v)[i] = v.buffer[LastEnd(v) + i]
    BY <1>4, UnendedIs
  <2> QED BY <1>4, <2>1, <2>2
<1>6. /\ Unended(r) \in Seq(Chars) /\ Len(Unended(r)) = L - e
      /\ \A i \in 1 .. L - e : Unended(r)[i] = r.buffer[e + i]
  BY UnendedIs DEF L, e
<1> DEFINE s == Unended(r)
           w == Append(s, c)
<1>7. /\ w \in Seq(Chars) /\ Len(w) = L - e + 1 /\ w[L - e + 1] = c
      /\ \A i \in 1 .. L - e : w[i] = Unended(r)[i]
  <2> HIDE DEF s
  <2>1. s \in Seq(Chars) /\ Len(s) = L - e
    BY <1>6 DEF s
  <2>2. /\ Append(s, c) \in Seq(Chars) /\ Len(Append(s, c)) = Len(s) + 1
        /\ Append(s, c)[Len(s) + 1] = c
        /\ \A i \in 1 .. Len(s) : Append(s, c)[i] = s[i]
    BY ONLY <2>1, c \in Chars, AppendProperties
  <2> QED BY <2>1, <2>2 DEF s
<1> HIDE DEF w, s
<1>8. L - e + 1 = L + 1 - e /\ L + 1 - e \in Nat
  BY <1>1, <1>2
<1>9. ASSUME NEW i \in 1 .. L + 1 - e PROVE Unended(v)[i] = w[i]
  <2>1. CASE i = L - e + 1
    <3>1. e + i = L + 1
      BY <1>1, <1>2, <2>1
    <3> QED BY <1>1, <1>5, <1>7, <2>1, <3>1
  <2>2. CASE i # L - e + 1
    <3>1. i \in 1 .. L - e /\ e + i \in 1 .. L
      BY <1>1, <1>2, <2>2
    <3> QED BY <1>1, <1>5, <1>6, <1>7, <3>1
  <2> QED BY <2>1, <2>2
<1>10. Unended(v) = w
  BY <1>5, <1>7, <1>8, <1>9, SeqEqual
<1> QED BY <1>4, <1>10 DEF w, s

Pops(v, r) == v \in RxType /\ v.parsed >= -1 /\ v.ends = r.ends /\ v.buffer = Front(r.buffer)

LEMMA FrontIs ==
  ASSUME NEW S, NEW s \in Seq(S), s # <<>>
  PROVE  /\ Front(s) \in Seq(S) /\ Len(Front(s)) = Len(s) - 1
         /\ \A i \in 1 .. Len(s) - 1 : Front(s)[i] = s[i]
<1>1. Len(s) \in Nat \ {0}
  OBVIOUS
<1>2. Len(s) - 1 \in Nat /\ Len(s) - 1 <= Len(s) /\ 1 \in Nat \ {0}
  BY <1>1
<1>3. /\ SubSeq(s, 1, Len(s) - 1) \in Seq(S)
      /\ Len(SubSeq(s, 1, Len(s) - 1)) = IF 1 <= Len(s) - 1 THEN Len(s) - 1 - 1 + 1 ELSE 0
      /\ \A i \in 1 .. Len(s) - 1 - 1 + 1 : SubSeq(s, 1, Len(s) - 1)[i] = s[1 + i - 1]
  BY ONLY <1>2, s \in Seq(S), PartIs
<1>4. Front(s) = SubSeq(s, 1, Len(s) - 1)
  BY DEF Front
<1> DEFINE f == SubSeq(s, 1, Len(s) - 1)
           n == Len(s) - 1
<1> HIDE DEF f
<1>5. f \in Seq(S) /\ Len(f) = n /\ \A i \in 1 .. n : f[i] = s[i]
  <2>1. n \in Nat
    BY <1>2
  <2> HIDE DEF n
  <2>2. /\ f \in Seq(S) /\ Len(f) = IF 1 <= n THEN n - 1 + 1 ELSE 0
        /\ \A i \in 1 .. n - 1 + 1 : f[i] = s[1 + i - 1]
    BY <1>3 DEF f, n
  <2>3. Len(f) = n /\ n - 1 + 1 = n
    BY <2>1, <2>2
  <2>4. ASSUME NEW i \in 1 .. n PROVE f[i] = s[i]
    <3>1. 1 + i - 1 = i
      BY <2>1
    <3> QED BY <2>2, <2>3, <3>1
  <2> QED BY <2>2, <2>3, <2>4
<1> QED BY <1>4, <1>5 DEF f

LEMMA PopsIs ==
  ASSUME NEW r, Straight(r), Unended(r) # <<>>, NEW v, Pops(v, r)
  PROVE  Straight(v) /\ Waiting(v) = Waiting(r) /\ Unended(v) = Front(Unended(r))
<1> DEFINE L == Len(r.buffer)
           e == LastEnd(r)
           s == Unended(r)
           f == Front(s)
<1>1. s \in Seq(Chars) /\ Len(s) = L - e /\ \A i \in 1 .. L - e : s[i] = r.buffer[e + i]
  BY UnendedIs
<1>2. L \in Nat /\ e \in Nat /\ e <= L /\ r.buffer \in Seq(Chars)
  BY MarkersAre
<1>3. e < L
  <2>1. s # <<>>
    OBVIOUS
  <2> HIDE DEF s
  <2>2. Len(s) # 0
    BY <1>1, <2>1
  <2> QED BY <1>1, <1>2, <2>2
<1>4. r.buffer # <<>>
  BY <1>2, <1>3
<1>5. f \in Seq(Chars) /\ Len(f) = Len(s) - 1 /\ \A i \in 1 .. Len(s) - 1 : f[i] = s[i]
  <2>1. s # <<>>
    OBVIOUS
  <2> HIDE DEF s
  <2> QED BY <1>1, <2>1, FrontIs
<1>6. /\ v.buffer \in Seq(Chars) /\ Len(v.buffer) = L - 1
      /\ \A i \in 1 .. L - 1 : v.buffer[i] = r.buffer[i]
  <2>1. v.buffer = Front(r.buffer)
    BY DEF Pops
  <2>2. /\ Front(r.buffer) \in Seq(Chars) /\ Len(Front(r.buffer)) = L - 1
        /\ \A i \in 1 .. L - 1 : Front(r.buffer)[i] = r.buffer[i]
    BY ONLY <1>2, <1>4, FrontIs
  <2> QED BY ONLY <2>1, <2>2
<1> HIDE DEF L, e, s, f
<1>7. Touches(v, r)
  <2>1. \A i \in 1 .. e : v.buffer[i] = r.buffer[i]
    <3>1. \A i \in 1 .. e : i \in 1 .. L - 1
      BY <1>2, <1>3
    <3> QED BY <1>6, <3>1
  <2>2. e <= Len(v.buffer)
    BY <1>2, <1>3, <1>6
  <2>3. ASSUME NEW i \in 1 .. Len(v.buffer), i > MaxQueue PROVE v.buffer[i] = BS
    <3>1. i \in 1 .. L /\ i \in 1 .. L - 1 /\ DOMAIN r.buffer = 1 .. L
      BY <1>2, <1>6 DEF L
    <3>2. r.buffer[i] = BS
      BY <2>3, <3>1 DEF Straight, Bounded
    <3> QED BY <1>6, <3>1, <3>2
  <2>4. v \in RxType /\ v.parsed >= -1 /\ v.ends = r.ends
    BY DEF Pops
  <2> QED BY <2>1, <2>2, <2>3, <2>4 DEF Touches, e
<1>8. Straight(v) /\ Waiting(v) = Waiting(r) /\ LastEnd(v) = e
  BY <1>7, TouchesIs DEF e
<1>9. /\ Unended(v) \in Seq(Chars) /\ Len(Unended(v)) = L - 1 - e
      /\ \A i \in 1 .. L - 1 - e : Unended(v)[i] = v.buffer[e + i]
  <2>1. Len(v.buffer) = L - 1 /\ LastEnd(v) = e /\ L \in Nat /\ e \in Nat
    BY <1>2, <1>6, <1>8
  <2>2. Len(v.buffer) - LastEnd(v) = L - 1 - e
    BY ONLY <2>1
  <2>3. /\ Unended(v) \in Seq(Chars) /\ Len(Unended(v)) = Len(v.buffer) - LastEnd(v)
        /\ \A i \in 1 .. Len(v.buffer) - LastEnd(v) : Unended(v)[i] = v.buffer[LastEnd(v) + i]
    BY <1>8, UnendedIs
  <2> QED BY <1>8, <2>2, <2>3
<1>10. Len(s) - 1 = L - 1 - e /\ L - 1 - e \in Nat
  <2>1. Len(s) = L - e
    BY <1>1
  <2> QED BY ONLY <1>2, <1>3, <2>1
<1>11. ASSUME NEW i \in 1 .. L - 1 - e PROVE Unended(v)[i] = f[i]
  <2>1. e + i \in 1 .. L - 1 /\ i \in 1 .. L - e
    BY <1>2
  <2> QED BY <1>1, <1>5, <1>6, <1>9, <1>10, <2>1
<1>12. Unended(v) = f
  BY <1>5, <1>9, <1>10, <1>11, SeqEqual
<1> QED BY <1>8, <1>12 DEF f, s

\* Everything behind the last marker goes.
Cuts(v, r) ==
  /\ v \in RxType /\ v.parsed >= -1 /\ v.ends = r.ends
  /\ v.buffer = SubSeq(r.buffer, 1, LastEnd(r))

LEMMA CutsIs ==
  ASSUME NEW r, Straight(r), NEW v, Cuts(v, r)
  PROVE  Straight(v) /\ Waiting(v) = Waiting(r) /\ Unended(v) = <<>>
<1> DEFINE L == Len(r.buffer)
           e == LastEnd(r)
<1>1. L \in Nat /\ e \in Nat /\ e <= L /\ r.buffer \in Seq(Chars)
  BY MarkersAre
<1>2. /\ v.buffer \in Seq(Chars) /\ Len(v.buffer) = e
      /\ \A i \in 1 .. e : v.buffer[i] = r.buffer[i]
  <2>1. v.buffer = SubSeq(r.buffer, 1, e)
    BY DEF Cuts
  <2>2. 1 \in Nat \ {0}
    OBVIOUS
  <2> HIDE DEF e
  <2>3. /\ SubSeq(r.buffer, 1, e) \in Seq(Chars)
        /\ Len(SubSeq(r.buffer, 1, e)) = IF 1 <= e THEN e - 1 + 1 ELSE 0
        /\ \A i \in 1 .. e - 1 + 1 : SubSeq(r.buffer, 1, e)[i] = r.buffer[1 + i - 1]
    BY ONLY <1>1, <2>2, PartIs
  <2> DEFINE b == SubSeq(r.buffer, 1, e)
  <2> HIDE DEF b
  <2>4. b \in Seq(Chars) /\ Len(b) = IF 1 <= e THEN e - 1 + 1 ELSE 0
    BY <2>3 DEF b
  <2>5. \A i \in 1 .. e - 1 + 1 : b[i] = r.buffer[1 + i - 1]
    BY <2>3 DEF b
  <2>6. Len(b) = e /\ e - 1 + 1 = e
    BY ONLY <1>1, <2>4
  <2>7. ASSUME NEW i \in 1 .. e PROVE b[i] = r.buffer[i]
    <3>1. 1 + i - 1 = i
      BY <1>1
    <3> QED BY <2>5, <2>6, <3>1
  <2>8. v.buffer = b
    BY <2>1 DEF b
  <2> QED BY <2>4, <2>6, <2>7, <2>8
<1> HIDE DEF L, e
<1>3. Touches(v, r)
  <2>1. ASSUME NEW i \in 1 .. Len(v.buffer), i > MaxQueue PROVE v.buffer[i] = BS
    <3>1. i \in 1 .. e /\ i \in 1 .. L /\ DOMAIN r.buffer = 1 .. L
      BY <1>1, <1>2 DEF L
    <3>2. r.buffer[i] = BS
      BY <2>1, <3>1 DEF Straight, Bounded
    <3> QED BY <1>2, <3>1, <3>2
  <2>2. e <= Len(v.buffer)
    BY <1>1, <1>2
  <2>3. v \in RxType /\ v.parsed >= -1 /\ v.ends = r.ends
    BY DEF Cuts
  <2> QED BY <1>2, <2>1, <2>2, <2>3 DEF Touches, e
<1>4. Straight(v) /\ Waiting(v) = Waiting(r) /\ LastEnd(v) = e
  BY <1>3, TouchesIs DEF e
<1>5. Unended(v) \in Seq(Chars) /\ Len(Unended(v)) = 0
  <2>1. Unended(v) \in Seq(Chars) /\ Len(Unended(v)) = Len(v.buffer) - LastEnd(v)
    BY <1>4, UnendedIs
  <2>2. Len(v.buffer) = e /\ LastEnd(v) = e
    BY <1>2, <1>4
  <2> QED BY <1>1, <2>1, <2>2
<1>6. Unended(v) = <<>>
  BY ONLY <1>5
<1> QED BY <1>4, <1>6

\* The line gets its end and its marker.
Ends(v, r) ==
  /\ v \in RxType /\ v.parsed >= -1
  /\ Grows(v, r, NUL) /\ v.ends = Append(r.ends, Len(r.buffer) + 1)

LEMMA EndsIs ==
  ASSUME NEW r, Straight(r), Fits(r, NUL), NEW v, Ends(v, r)
  PROVE  Straight(v) /\ Waiting(v) = Append(Waiting(r), Unended(r)) /\ Unended(v) = <<>>
<1> DEFINE L == Len(r.buffer)
           n == Len(r.ends)
<1>1. /\ L \in Nat /\ Len(v.buffer) = L + 1 /\ v.buffer \in Seq(Chars)
      /\ \A i \in 1 .. L : v.buffer[i] = r.buffer[i]
      /\ \A i \in 1 .. Len(v.buffer) : i > MaxQueue => v.buffer[i] = BS
  <2>1. Grows(v, r, NUL)
    BY DEF Ends
  <2>2. NUL \in Chars
    BY DEF NUL, Chars
  <2> QED BY <2>1, <2>2, BufferPushed DEF Straight
<1>2. /\ r.buffer \in Seq(Chars) /\ r.ends \in Seq(Nat \ {0}) /\ n \in Nat
      /\ LastEnd(r) \in Nat /\ LastEnd(r) <= L
      /\ \A i \in 1 .. n : /\ r.ends[i] \in Nat \ {0} /\ r.ends[i] <= L
                           /\ Begin(r, i) \in Nat \ {0} /\ Begin(r, i) <= r.ends[i]
  BY MarkersAre
<1>3. /\ v.ends \in Seq(Nat \ {0}) /\ Len(v.ends) = n + 1 /\ v.ends[n + 1] = L + 1
      /\ \A i \in 1 .. n : v.ends[i] = r.ends[i]
  <2>1. v.ends = Append(r.ends, L + 1)
    BY DEF Ends
  <2>2. L + 1 \in Nat \ {0} /\ r.ends \in Seq(Nat \ {0})
    BY <1>1, <1>2
  <2> HIDE DEF L
  <2> QED BY ONLY <2>1, <2>2, AppendProperties
<1>4. DOMAIN v.ends = 1 .. n + 1 /\ DOMAIN v.buffer = 1 .. L + 1 /\ DOMAIN r.ends = 1 .. n
  BY <1>1, <1>2, <1>3
<1> HIDE DEF L, n
<1>5. ASSUME NEW i \in 1 .. n + 1, i # n + 1 PROVE i \in 1 .. n
  BY <1>2, <1>5
<1>6. Straight(v)
  <2>1. ASSUME NEW i \in 1 .. n + 1 PROVE v.ends[i] \in 1 .. L + 1
    <3>1. CASE i = n + 1
      BY <1>1, <1>3, <3>1
    <3>2. CASE i # n + 1
      <4>1. v.ends[i] = r.ends[i] /\ r.ends[i] <= L /\ r.ends[i] \in Nat \ {0}
        BY <1>2, <1>3, <1>5, <3>2
      <4> QED BY <1>1, <4>1
    <3> QED BY <3>1, <3>2
  <2>2. ASSUME NEW i \in 1 .. n + 1, NEW j \in 1 .. n + 1, i < j PROVE v.ends[i] < v.ends[j]
    <3>1. i # n + 1
      BY <1>2, <2>2
    <3>2. i \in 1 .. n /\ v.ends[i] = r.ends[i] /\ r.ends[i] <= L /\ r.ends[i] \in Nat
      BY <1>2, <1>3, <1>5, <3>1
    <3>3. CASE j = n + 1
      BY <1>1, <1>3, <3>2, <3>3
    <3>4. CASE j # n + 1
      <4>1. j \in 1 .. n /\ v.ends[j] = r.ends[j]
        BY <1>3, <1>5, <3>4
      <4>2. r.ends[i] < r.ends[j]
        BY <1>4, <2>2, <3>2, <4>1 DEF Straight, MarkersFit
      <4> QED BY <3>2, <4>1, <4>2
    <3> QED BY <3>3, <3>4
  <2>3. v \in RxType /\ v.parsed >= -1
    BY DEF Ends
  <2>4. \A i \in DOMAIN v.buffer : i > MaxQueue => v.buffer[i] = BS
    BY <1>1, <1>4
  <2>5. \A i \in DOMAIN v.ends : v.ends[i] \in DOMAIN v.buffer
    BY <1>4, <2>1
  <2>6. \A i, j \in DOMAIN v.ends : i < j => v.ends[i] < v.ends[j]
    BY <1>4, <2>2
  <2> QED BY <2>3, <2>4, <2>5, <2>6 DEF Straight, Bounded, MarkersFit
<1>7. LastEnd(v) = L + 1
  <2>1. v.ends # <<>>
    BY <1>2, <1>3
  <2> QED BY <1>3, <2>1 DEF LastEnd
<1>8. Unended(v) = <<>>
  <2>1. Unended(v) \in Seq(Chars) /\ Len(Unended(v)) = Len(v.buffer) - LastEnd(v)
    BY <1>6, UnendedIs
  <2>2. Len(v.buffer) = L + 1 /\ LastEnd(v) = L + 1 /\ L + 1 \in Nat
    BY <1>1, <1>7
  <2>3. Unended(v) \in Seq(Chars) /\ Len(Unended(v)) = 0
    BY <2>1, <2>2
  <2> QED BY ONLY <2>3
<1>9. ASSUME NEW i \in 1 .. n PROVE Line(v, i) = Line(r, i)
  <2>1. i \in 1 .. n + 1 /\ v.ends[i] = r.ends[i]
    BY <1>2, <1>3
  <2>2. Begin(v, i) = Begin(r, i)
    <3>1. CASE i = 1
      BY <3>1 DEF Begin
    <3>2. CASE i # 1
      <4>1. i - 1 \in 1 .. n
        BY <1>2, <3>2
      <4>2. v.ends[i - 1] = r.ends[i - 1]
        BY <1>3, <4>1
      <4> QED BY <3>2, <4>2 DEF Begin
    <3> QED BY <3>1, <3>2
  <2>3. /\ r.ends[i] - 1 \in Nat /\ r.ends[i] - 1 <= Len(r.buffer) /\ r.ends[i] - 1 <= Len(v.buffer)
        /\ \A k \in Begin(r, i) .. r.ends[i] - 1 : v.buffer[k] = r.buffer[k]
        /\ Begin(r, i) \in Nat \ {0}
    <3>1. L = Len(r.buffer)
      BY DEF L
    <3>2. /\ r.ends[i] \in Nat \ {0} /\ r.ends[i] <= L /\ Begin(r, i) \in Nat \ {0}
      BY <1>2
    <3>3. \A k \in Begin(r, i) .. r.ends[i] - 1 : k \in 1 .. L
      BY ONLY <1>1, <3>2
    <3> QED BY <1>1, <3>1, <3>2, <3>3
  <2>4. r.buffer \in Seq(Chars) /\ v.buffer \in Seq(Chars)
    BY <1>1, <1>2
  <2>5. SubSeq(v.buffer, Begin(r, i), r.ends[i] - 1) = SubSeq(r.buffer, Begin(r, i), r.ends[i] - 1)
    BY ONLY <2>3, <2>4, PartsEqual, Zenon
  <2> QED BY <2>1, <2>2, <2>5 DEF Line
<1>10. Line(v, n + 1) = Unended(r)
  <2>1. Begin(v, n + 1) = LastEnd(r) + 1
    <3>1. CASE n = 0
      <4>1. r.ends = <<>>
        BY <1>2, <3>1 DEF n
      <4> QED BY <3>1, <4>1 DEF Begin, LastEnd
    <3>2. CASE n # 0
      <4>1. n + 1 # 1 /\ n + 1 - 1 = n /\ n \in 1 .. n
        BY <1>2, <3>2
      <4>2. v.ends[n] = r.ends[n]
        BY <1>3, <4>1
      <4>3. Len(r.ends) # 0
        BY <3>2 DEF n
      <4>4. r.ends # <<>>
        BY ONLY <4>3
      <4> QED BY <4>1, <4>2, <4>4 DEF Begin, LastEnd, n
    <3> QED BY <3>1, <3>2
  <2>2. v.ends[n + 1] - 1 = L
    BY <1>1, <1>3
  <2>3. /\ L <= Len(r.buffer) /\ L <= Len(v.buffer) /\ L \in Nat /\ L = Len(r.buffer)
        /\ \A k \in LastEnd(r) + 1 .. L : v.buffer[k] = r.buffer[k]
        /\ LastEnd(r) + 1 \in Nat \ {0}
    <3>1. L = Len(r.buffer)
      BY DEF L
    <3>2. \A k \in LastEnd(r) + 1 .. L : k \in 1 .. L
      BY <1>1, <1>2
    <3> QED BY <1>1, <1>2, <3>1, <3>2
  <2>4. r.buffer \in Seq(Chars) /\ v.buffer \in Seq(Chars)
    BY <1>1, <1>2
  <2>5. SubSeq(v.buffer, LastEnd(r) + 1, L) = SubSeq(r.buffer, LastEnd(r) + 1, L)
    BY ONLY <2>3, <2>4, PartsEqual, Zenon
  <2> QED BY <2>1, <2>2, <2>5 DEF Line, Unended, L
<1> DEFINE s == Waiting(r)
           x == Unended(r)
           w == Append(s, x)
<1>11. s \in Seq(Seq(Chars)) /\ Len(s) = n /\ \A i \in 1 .. n : s[i] = Line(r, i)
  BY WaitingIs DEF n
<1>12. x \in Seq(Chars)
  BY UnendedIs
<1> HIDE DEF s, x
<1>13. /\ w \in Seq(Seq(Chars)) /\ Len(w) = n + 1 /\ w[n + 1] = x
       /\ \A i \in 1 .. n : w[i] = s[i]
  <2>1. /\ Append(s, x) \in Seq(Seq(Chars)) /\ Len(Append(s, x)) = Len(s) + 1
        /\ Append(s, x)[Len(s) + 1] = x
        /\ \A i \in 1 .. Len(s) : Append(s, x)[i] = s[i]
    BY ONLY <1>11, <1>12, AppendProperties
  <2> QED BY <1>11, <2>1
<1> HIDE DEF w
<1>14. /\ Waiting(v) \in Seq(Seq(Chars)) /\ Len(Waiting(v)) = n + 1
       /\ \A i \in 1 .. n + 1 : Waiting(v)[i] = Line(v, i)
  BY <1>3, <1>6, WaitingIs
<1>15. ASSUME NEW i \in 1 .. n + 1 PROVE Waiting(v)[i] = w[i]
  <2>1. CASE i = n + 1
    BY <1>10, <1>13, <1>14, <2>1 DEF x
  <2>2. CASE i # n + 1
    BY <1>5, <1>9, <1>11, <1>13, <1>14, <2>2
  <2> QED BY <2>1, <2>2
<1>16. Waiting(v) = w
  BY <1>13, <1>14, <1>15, SeqEqual
<1> QED BY <1>6, <1>8, <1>16 DEF w, s, x

LEMMA FieldsAre ==
  ASSUME NEW r \in RxType
  PROVE  /\ r.buffer \in Seq(Chars) /\ r.ends \in Seq(Int) /\ r.lastIsEol \in BOOLEAN
         /\ r.overflow \in BOOLEAN /\ r.parsed \in Int /\ r.stored \in Words
         /\ r.left \in Words /\ r.reports \in Nat
         /\ r.slipped \in BOOLEAN /\ r.astray \in BOOLEAN
<1>1. r.buffer \in Seq(Chars)
  BY DEF RxType
<1>2. r.ends \in Seq(Int)
  BY DEF RxType
<1>3. /\ r.lastIsEol \in BOOLEAN /\ r.overflow \in BOOLEAN /\ r.parsed \in Int
      /\ r.stored \in Words /\ r.left \in Words /\ r.reports \in Nat
  BY DEF RxType
<1>4. r.slipped \in BOOLEAN /\ r.astray \in BOOLEAN
  BY DEF RxType
<1> QED BY <1>1, <1>2, <1>3, <1>4

LEMMA SameContainers ==
  ASSUME NEW r, Straight(r), NEW v \in RxType, v.parsed >= -1, v.buffer = r.buffer, v.ends = r.ends
  PROVE  Straight(v) /\ Waiting(v) = Waiting(r) /\ Unended(v) = Unended(r)
<1>1. Straight(v)
  BY DEF Straight, Bounded, MarkersFit
<1>2. Waiting(v) = Waiting(r)
  BY DEF Waiting
<1>3. Unended(v) = Unended(r)
  BY DEF Unended, LastEnd
<1> QED BY <1>1, <1>2, <1>3

Room(r, c) == ~r.overflow => Fits(r, c)

LEMMA FlaggedIs ==
  ASSUME NEW r, Bounded(r), NEW c \in Chars
  PROVE  LET q == Flagged(r, c) IN
         /\ Bounded(q) /\ Room(q, c) /\ q.buffer = r.buffer /\ q.ends = r.ends
         /\ q.lastIsEol = r.lastIsEol /\ q.parsed = r.parsed /\ q.stored = r.stored
         /\ q.left = r.left /\ q.reports = r.reports /\ (r.overflow => q.overflow)
         /\ q.slipped = r.slipped /\ q.astray = r.astray
<1> DEFINE q == Flagged(r, c)
<1>1. r \in RxType /\ r.parsed >= -1 /\ r.overflow \in BOOLEAN
  BY FieldsAre DEF Bounded
<1>2. /\ q.buffer = r.buffer /\ q.ends = r.ends /\ q.lastIsEol = r.lastIsEol
      /\ q.parsed = r.parsed /\ q.stored = r.stored /\ q.left = r.left
      /\ q.reports = r.reports /\ q.slipped = r.slipped /\ q.astray = r.astray
  BY <1>1 DEF Flagged, RxType
<1>3. q.overflow <=> r.overflow \/ (Len(r.buffer) >= MaxQueue /\ c # BS)
  BY <1>1 DEF Flagged, RxType
<1>4. q \in RxType
  BY <1>1 DEF Flagged, RxType
<1>5. Len(r.buffer) \in Nat /\ MaxQueue \in Nat
  BY <1>1, FieldsAre, SerialAssumption
<1> HIDE DEF q
<1>6. Bounded(q)
  BY <1>1, <1>2, <1>4 DEF Bounded
<1>7. Room(q, c)
  <2>1. Len(r.buffer) >= MaxQueue \/ Len(r.buffer) < MaxQueue
    BY <1>5
  <2>2. ~q.overflow => ~(Len(r.buffer) >= MaxQueue /\ c # BS)
    BY <1>3
  <2>3. Len(q.buffer) = Len(r.buffer)
    BY <1>2
  <2> QED BY <2>1, <2>2, <2>3 DEF Room, Fits
<1>8. r.overflow => q.overflow
  BY <1>3
<1> QED BY <1>2, <1>6, <1>7, <1>8 DEF q

\* What is pushed keeps the bound.
LEMMA PushedBounded ==
  ASSUME NEW r, Bounded(r), NEW c \in Chars, Room(r, c)
  PROVE  Bounded(Pushed(r, c)) /\ SameReader(Pushed(r, c), r) /\ Pushed(r, c).ends = r.ends
<1> DEFINE v == Pushed(r, c)
           b == Append(r.buffer, c)
<1>1. r \in RxType /\ r.parsed >= -1
  BY DEF Bounded
<1>2. CASE r.overflow
  BY <1>2 DEF Pushed, SameReader
<1>3. CASE ~r.overflow
  <2>1. v = [r EXCEPT !.buffer = b] /\ b \in Seq(Chars)
    BY <1>1, <1>3, FieldsAre, AppendProperties DEF Pushed
  <2>2. v.buffer = b /\ v.ends = r.ends /\ SameReader(v, r)
    BY <1>1, <2>1 DEF SameReader, RxType
  <2>3. Grows(v, r, c) /\ Fits(r, c)
    BY <1>3, <2>2 DEF Grows, Room
  <2> HIDE DEF v, b
  <2>4. v \in RxType
    BY ONLY <1>1, <2>1 DEF RxType
  <2>5. /\ v.buffer \in Seq(Chars)
        /\ \A i \in 1 .. Len(v.buffer) : i > MaxQueue => v.buffer[i] = BS
    BY <2>3, BufferPushed
  <2>6. Bounded(v)
    BY <1>1, <2>2, <2>4, <2>5 DEF Bounded, SameReader
  <2> QED BY <2>2, <2>6 DEF v
<1> QED BY <1>2, <1>3

LEMMA PushedIs ==
  ASSUME NEW r, Straight(r), NEW c \in Chars, Room(r, c)
  PROVE  /\ Straight(Pushed(r, c)) /\ Waiting(Pushed(r, c)) = Waiting(r)
         /\ SameReader(Pushed(r, c), r)
         /\ ~r.overflow => Unended(Pushed(r, c)) = Append(Unended(r), c)
<1> DEFINE v == Pushed(r, c)
<1>1. r \in RxType /\ r.parsed >= -1
  BY DEF Straight, Bounded
<1>2. CASE r.overflow
  BY <1>2 DEF Pushed, SameReader
<1>3. CASE ~r.overflow
  <2>1. v = [r EXCEPT !.buffer = Append(@, c)]
    BY <1>3 DEF Pushed
  <2>2. Append(r.buffer, c) \in Seq(Chars)
    BY <1>1, FieldsAre, AppendProperties
  <2>3. v.buffer = Append(r.buffer, c) /\ v.ends = r.ends /\ SameReader(v, r)
    BY <1>1, <2>1 DEF SameReader, RxType
  <2>4. v \in RxType
    <3> DEFINE b == Append(r.buffer, c)
    <3>1. b \in Seq(Chars) /\ v = [r EXCEPT !.buffer = b]
      BY <2>1, <2>2
    <3> HIDE DEF b, v
    <3> QED BY ONLY <1>1, <3>1 DEF RxType
  <2> HIDE DEF v
  <2>5. Pushes(v, r, c) /\ Fits(r, c)
    BY <1>1, <1>3, <2>3, <2>4 DEF Pushes, Grows, Room, SameReader
  <2>6. Straight(v) /\ Waiting(v) = Waiting(r) /\ Unended(v) = Append(Unended(r), c)
    BY <2>5, PushesIs
  <2> QED BY <2>3, <2>6 DEF v
<1> QED BY <1>2, <1>3

-----------------------------------------------------------------------------
(* One character *)

\* What was handled and waits are the lines that were typed, but for those reported lost.
Tells(done, r, t) ==
  LET lines == Commands(t.lines)
      seen == done \o Commands(Waiting(r))
  IN InOrderOf(seen, lines) /\ Len(lines) - Len(seen) <= r.reports

LEMMA TypistIs ==
  ASSUME NEW t \in TypistType
  PROVE  /\ t.lines \in Seq(Seq(Chars)) /\ t.line \in Seq(Chars) /\ t.ended \in BOOLEAN
         /\ t.phase \in {"text", "high", "low", "data"} /\ t.left \in Nat
<1>1. t.lines \in Seq(Seq(Chars))
  BY DEF TypistType
<1>2. t.line \in Seq(Chars)
  BY DEF TypistType
<1>3. t.ended \in BOOLEAN /\ t.phase \in {"text", "high", "low", "data"} /\ t.left \in Nat
  BY DEF TypistType
<1> QED BY <1>1, <1>2, <1>3

LEMMA ToldSame ==
  ASSUME NEW done, NEW r, NEW v, NEW t, NEW u, Tells(done, r, t),
         Waiting(v) = Waiting(r), v.reports = r.reports, u.lines = t.lines
  PROVE  Tells(done, v, u)
BY DEF Tells

\* What is in the line of the parser is in the line of the typist, unless something was lost.
SameLine(r, t) == ~r.overflow => Unended(r) = t.line /\ r.lastIsEol = t.ended

Abreast(r, t) ==
  CASE t.phase = "text" -> r.parsed = -1
    [] t.phase = "high" -> r.parsed = 0 /\ r.left = 2
    [] t.phase = "low" -> r.parsed = 1 /\ r.left = 1 /\ r.stored = t.left /\ t.left <= 65280
    [] t.phase = "data" -> r.parsed >= 2 /\ r.left = t.left /\ t.left > 0

Begun(t) == t.ended => t.line = <<>> /\ t.phase = "text"

\* The parser is where the typist is, whatever became of the lines.
Loose(r, t) == Bounded(r) /\ t \in TypistType /\ Begun(t) /\ Abreast(r, t)

\* No key has acted on anything else than the line being typed.
Follows(done, r, t) == Straight(r) /\ Loose(r, t) /\ SameLine(r, t) /\ Tells(done, r, t)

Tracks(done, r, t) == Loose(r, t) /\ (~r.slipped => Follows(done, r, t) /\ ~r.astray)

LEMMA WordIs == ASSUME NEW n \in Int, 0 <= n, n <= 65535 PROVE n \in Words
<1>1. n \in Nat /\ n < 65536
  BY SMT
<1> QED BY <1>1, SMT DEF Words

LEMMA HighByte == ASSUME NEW c \in Chars PROVE 256 * c \in Words /\ 256 * c \in Nat /\ 256 * c <= 65280
BY SMT DEF Chars, Words

LEMMA LowByte ==
  ASSUME NEW c \in Chars, NEW high \in Nat, high <= 65280
  PROVE  high + c \in Words /\ high + c \in Nat
<1>1. c \in Int /\ 0 <= c /\ c <= 255
  BY SMT DEF Chars
<1>2. high + c \in Int /\ 0 <= high + c /\ high + c <= 65535
  BY <1>1, SMT
<1> QED BY <1>2, WordIs, SMT

LEMMA OneLess ==
  ASSUME NEW n \in Words, n > 0
  PROVE  (n + 65535) % 65536 = n - 1 /\ n - 1 \in Words /\ n - 1 \in Nat
<1>1. n \in Int /\ 0 < n /\ n <= 65535
  BY SMT DEF Words
<1>2. (n + 65535) % 65536 = n - 1
  BY <1>1, SMT
<1>3. n - 1 \in Int /\ 0 <= n - 1 /\ n - 1 <= 65535
  BY <1>1, SMT
<1> QED BY <1>2, <1>3, WordIs, SMT

LEMMA OneWord == 2 \in Words /\ 1 \in Words /\ 0 \in Words /\ (2 + 65535) % 65536 = 1
BY SMT DEF Words

\* The two counts of a byte of binary data: its length and what is left of it.
Size(r, c) ==
  IF r.parsed + 1 = 1 THEN 256 * c ELSE IF r.parsed + 1 = 2 THEN r.stored + c ELSE r.stored

Remains(r, c) == IF r.parsed + 1 = 2 THEN Size(r, c) ELSE (r.left + 65535) % 65536

BinaryStep(r, t, c) ==
  LET u == TypeBinary(t, c) IN
  /\ Size(r, c) \in Words /\ Remains(r, c) \in Words /\ u.left \in Nat
  /\ \/ /\ u.phase = "low" /\ r.parsed + 1 = 1 /\ Remains(r, c) = 1
        /\ Size(r, c) = u.left /\ u.left <= 65280
     \/ u.phase = "text" /\ Remains(r, c) = 0
     \/ u.phase = "data" /\ r.parsed + 1 >= 2 /\ Remains(r, c) = u.left /\ u.left > 0

LEMMA BinaryCounts ==
  ASSUME NEW r \in RxType, NEW t \in TypistType, NEW c \in Chars, t.phase # "text", Abreast(r, t)
  PROVE  BinaryStep(r, t, c)
<1> DEFINE u == TypeBinary(t, c)
<1>1. r.stored \in Words /\ r.left \in Words /\ r.parsed \in Int
  BY FieldsAre
<1>2. t.left \in Nat /\ t.phase \in {"high", "low", "data"}
  BY TypistIs
<1>3. /\ u.left = IF t.phase = "high" THEN 256 * c
                  ELSE IF t.phase = "low" THEN t.left + c ELSE t.left - 1
      /\ u.phase = IF t.phase = "high" THEN "low" ELSE IF u.left = 0 THEN "text" ELSE "data"
  BY SMT DEF TypeBinary, TypistType
<1> HIDE DEF u
<1>4. CASE t.phase = "high"
  <2>1. r.parsed = 0 /\ r.left = 2
    BY <1>4, SMT DEF Abreast
  <2>2. u.left = 256 * c /\ u.phase = "low"
    BY <1>3, <1>4, SMT
  <2>3. Size(r, c) = 256 * c /\ Remains(r, c) = 1
    BY <2>1, OneWord, SMT DEF Size, Remains
  <2> QED BY <2>1, <2>2, <2>3, HighByte, OneWord, SMT DEF BinaryStep, u
<1>5. CASE t.phase = "low"
  <2>1. r.parsed = 1 /\ r.stored = t.left /\ t.left <= 65280
    BY <1>5, SMT DEF Abreast
  <2>2. u.left = t.left + c /\ u.phase = IF u.left = 0 THEN "text" ELSE "data"
    BY <1>3, <1>5, SMT
  <2>3. Size(r, c) = t.left + c /\ Remains(r, c) = t.left + c
    BY <2>1, SMT DEF Size, Remains
  <2>4. t.left + c \in Words /\ t.left + c \in Nat
    BY <1>2, <2>1, LowByte, SMT
  <2> QED BY <2>1, <2>2, <2>3, <2>4, SMT DEF BinaryStep, u
<1>6. CASE t.phase = "data"
  <2>1. r.parsed >= 2 /\ r.left = t.left /\ t.left > 0
    BY <1>6, SMT DEF Abreast
  <2>2. u.left = t.left - 1 /\ u.phase = IF u.left = 0 THEN "text" ELSE "data"
    BY <1>3, <1>6, SMT
  <2>3. /\ (t.left + 65535) % 65536 = t.left - 1 /\ t.left - 1 \in Words /\ t.left - 1 \in Nat
    BY <1>1, <2>1, OneLess, SMT
  <2>4. r.parsed + 1 # 1 /\ r.parsed + 1 # 2 /\ r.parsed + 1 >= 2
    BY <1>1, <2>1, SMT
  <2>5. Size(r, c) = r.stored /\ Remains(r, c) = (r.left + 65535) % 65536
    BY <2>4, SMT DEF Size, Remains
  <2>6. Remains(r, c) = t.left - 1
    BY <2>1, <2>3, <2>5, SMT
  <2>7. Size(r, c) \in Words /\ Remains(r, c) \in Words /\ u.left \in Nat
    BY <1>1, <2>2, <2>3, <2>5, <2>6, SMT
  <2>8. \/ u.phase = "text" /\ Remains(r, c) = 0
        \/ u.phase = "data" /\ r.parsed + 1 >= 2 /\ Remains(r, c) = u.left /\ u.left > 0
    BY <1>2, <2>1, <2>2, <2>4, <2>6, SMT
  <2> QED BY <2>7, <2>8, SMT DEF BinaryStep, u
<1> QED BY <1>2, <1>4, <1>5, <1>6

\* What a character of each kind does to the typist.
AfterStart(t, c) == [t EXCEPT !.line = Append(@, c), !.phase = "high", !.ended = FALSE]
AfterBackspace(t) == IF t.ended \/ t.line = <<>> THEN t ELSE [t EXCEPT !.line = Front(@)]
AfterEnd(t) ==
  IF t.ended THEN t ELSE [t EXCEPT !.lines = Append(@, t.line), !.line = <<>>, !.ended = TRUE]
AfterPlain(t, c) == [t EXCEPT !.line = Append(@, c), !.ended = FALSE]

Plain == Chars \ ({BINARY_START_CHAR} \cup BACKSPACE_CHARS \cup INPUT_EOL_CHARS)

LEMMA TextIs ==
  ASSUME NEW t, NEW c \in Chars
  PROVE  /\ c = BINARY_START_CHAR => TypeText(t, c) = AfterStart(t, c)
         /\ c \in BACKSPACE_CHARS => TypeText(t, c) = AfterBackspace(t)
         /\ c \in INPUT_EOL_CHARS \ BACKSPACE_CHARS => TypeText(t, c) = AfterEnd(t)
         /\ c \in Plain => TypeText(t, c) = AfterPlain(t, c)
<1> DEFINE A == AfterStart(t, c)
           B == AfterBackspace(t)
           C == AfterEnd(t)
           D == AfterPlain(t, c)
<1>1. TypeText(t, c) = CASE c = BINARY_START_CHAR -> A [] c \in BACKSPACE_CHARS -> B
                         [] c \in INPUT_EOL_CHARS \ BACKSPACE_CHARS -> C [] OTHER -> D
  BY Zenon DEF TypeText, AfterStart, AfterBackspace, AfterEnd, AfterPlain
<1>2. BINARY_START_CHAR \notin BACKSPACE_CHARS /\ BINARY_START_CHAR \notin INPUT_EOL_CHARS
  BY SMT DEF BINARY_START_CHAR, BACKSPACE_CHARS, INPUT_EOL_CHARS, NUL, BS, DEL
<1> HIDE DEF A, B, C, D
<1>4. c = BINARY_START_CHAR => TypeText(t, c) = A
  BY <1>1, <1>2, SMT
<1>5. c \in BACKSPACE_CHARS => TypeText(t, c) = B
  BY <1>1, <1>2, SMT
<1>6. c \in INPUT_EOL_CHARS \ BACKSPACE_CHARS => TypeText(t, c) = C
  BY <1>1, <1>2, SMT
<1>7. c \in Plain => TypeText(t, c) = D
  BY <1>1, SMT DEF Plain
<1> QED BY <1>4, <1>5, <1>6, <1>7 DEF A, B, C, D

LEMMA TextStart ==
  ASSUME NEW t \in TypistType, NEW c \in Chars, NEW u, u = AfterStart(t, c)
  PROVE  /\ u \in TypistType
         /\ u.lines = t.lines /\ u.line = Append(t.line, c) /\ ~u.ended /\ u.phase = "high"
<1> DEFINE more == Append(t.line, c)
<1>1. more \in Seq(Chars)
  BY TypistIs, AppendProperties
<1>2. u = [t EXCEPT !.line = more, !.phase = "high", !.ended = FALSE]
  BY DEF AfterStart
<1> HIDE DEF more
<1>3. u.lines = t.lines /\ u.line = more /\ ~u.ended /\ u.phase = "high"
  BY <1>2 DEF TypistType
<1>4. u \in TypistType
  BY <1>1, <1>2 DEF TypistType
<1> QED BY <1>3, <1>4 DEF more

LEMMA TextBackspace ==
  ASSUME NEW t \in TypistType, NEW u, u = AfterBackspace(t)
  PROVE  /\ u \in TypistType /\ u.lines = t.lines /\ u.ended = t.ended /\ u.phase = t.phase
         /\ u.line = IF t.ended \/ t.line = <<>> THEN t.line ELSE Front(t.line)
<1> DEFINE less == Front(t.line)
<1>1. t.line \in Seq(Chars)
  BY TypistIs
<1>2. CASE t.ended \/ t.line = <<>>
  BY <1>2 DEF AfterBackspace
<1>3. CASE ~(t.ended \/ t.line = <<>>)
  <2>1. u = [t EXCEPT !.line = less]
    BY <1>3 DEF AfterBackspace
  <2>2. less \in Seq(Chars)
    BY <1>1, <1>3, FrontIs
  <2> HIDE DEF less
  <2>3. u \in TypistType /\ u.lines = t.lines /\ u.ended = t.ended /\ u.phase = t.phase /\ u.line = less
    BY <2>1, <2>2 DEF TypistType
  <2> QED BY <1>3, <2>3 DEF less
<1> QED BY <1>2, <1>3

LEMMA TextEnd ==
  ASSUME NEW t \in TypistType, NEW u, u = AfterEnd(t)
  PROVE  /\ u \in TypistType
         /\ t.ended => u = t
         /\ ~t.ended => /\ u.lines = Append(t.lines, t.line) /\ u.line = <<>> /\ u.ended
                        /\ u.phase = t.phase
<1> DEFINE lines == Append(t.lines, t.line)
<1>1. lines \in Seq(Seq(Chars)) /\ <<>> \in Seq(Chars)
  BY TypistIs, AppendProperties
<1>2. CASE t.ended
  BY <1>2 DEF AfterEnd
<1>3. CASE ~t.ended
  <2>1. u = [t EXCEPT !.lines = lines, !.line = <<>>, !.ended = TRUE]
    BY <1>3 DEF AfterEnd
  <2> HIDE DEF lines
  <2>2. u.lines = lines /\ u.line = <<>> /\ u.ended /\ u.phase = t.phase
    BY <2>1 DEF TypistType
  <2>3. u \in TypistType
    BY <1>1, <2>1 DEF TypistType
  <2> QED BY <1>3, <2>2, <2>3 DEF lines
<1> QED BY <1>2, <1>3

LEMMA TextPlain ==
  ASSUME NEW t \in TypistType, NEW c \in Chars, NEW u, u = AfterPlain(t, c)
  PROVE  /\ u \in TypistType
         /\ u.lines = t.lines /\ u.line = Append(t.line, c) /\ ~u.ended /\ u.phase = t.phase
<1> DEFINE more == Append(t.line, c)
<1>1. more \in Seq(Chars)
  BY TypistIs, AppendProperties
<1>2. u = [t EXCEPT !.line = more, !.ended = FALSE]
  BY DEF AfterPlain
<1> HIDE DEF more
<1>3. u.lines = t.lines /\ u.line = more /\ ~u.ended /\ u.phase = t.phase
  BY <1>2 DEF TypistType
<1>4. u \in TypistType
  BY <1>1, <1>2 DEF TypistType
<1> QED BY <1>3, <1>4 DEF more

LEMMA BinaryTyped ==
  ASSUME NEW t \in TypistType, NEW c \in Chars, NEW u, u = TypeBinary(t, c), u.left \in Nat
  PROVE  /\ u \in TypistType /\ u.lines = t.lines /\ u.line = Append(t.line, c)
         /\ u.ended = t.ended
<1> DEFINE more == Append(t.line, c)
           left == IF t.phase = "high" THEN 256 * c
                   ELSE IF t.phase = "low" THEN t.left + c ELSE t.left - 1
           after == IF t.phase = "high" THEN "low" ELSE IF left = 0 THEN "text" ELSE "data"
<1>1. more \in Seq(Chars)
  BY TypistIs, AppendProperties
<1>2. u = [t EXCEPT !.line = more, !.left = left, !.phase = after]
  BY DEF TypeBinary
<1>3. after \in {"low", "text", "data"}
  BY SMT
<1> HIDE DEF more, left, after
<1>4. u.left = left /\ u.lines = t.lines /\ u.line = more /\ u.ended = t.ended
  BY <1>2, SMT DEF TypistType
<1>5. u \in TypistType
  <2>1. u = [t EXCEPT !.line = more, !.left = left, !.phase = after] /\ left \in Nat
    BY <1>2, <1>4
  <2> QED BY ONLY <1>1, <1>3, <2>1, t \in TypistType DEF TypistType
<1> QED BY <1>4, <1>5 DEF more

Lost(r) == [r EXCEPT !.lastIsEol = FALSE]
PlainAdded(r, c) == [Pushed(r, c) EXCEPT !.lastIsEol = FALSE]

LEMMA AddCharIs ==
  ASSUME NEW r, NEW c \in Chars, NEW q, q = Flagged(r, c), q.parsed \in Int
  PROVE  /\ q.parsed >= 0 => AddChar(r, c) = BinaryByte(q, c)
         /\ q.parsed < 0 /\ c = BINARY_START_CHAR => AddChar(r, c) = BinaryStart(q)
         /\ q.parsed < 0 /\ c # BINARY_START_CHAR /\ q.overflow =>
              AddChar(r, c) = IF c \in INPUT_EOL_CHARS THEN OverflowEnds(q, c) ELSE Lost(q)
         /\ q.parsed < 0 /\ ~q.overflow /\ c \in BACKSPACE_CHARS =>
              AddChar(r, c) = Backspaced(q)
         /\ q.parsed < 0 /\ ~q.overflow /\ c \in INPUT_EOL_CHARS \ BACKSPACE_CHARS =>
              AddChar(r, c) = Ended(q)
         /\ q.parsed < 0 /\ ~q.overflow /\ c \in Plain => AddChar(r, c) = PlainAdded(q, c)
<1> DEFINE A == BinaryByte(q, c)
           B == BinaryStart(q)
           C == IF c \in INPUT_EOL_CHARS THEN OverflowEnds(q, c) ELSE Lost(q)
           D == Backspaced(q)
           E == Ended(q)
           F == PlainAdded(q, c)
<1>1. AddChar(r, c) =
        CASE q.parsed >= 0 -> A
          [] q.parsed < 0 /\ c = BINARY_START_CHAR -> B
          [] q.parsed < 0 /\ c # BINARY_START_CHAR /\ q.overflow -> C
          [] q.parsed < 0 /\ c \in BACKSPACE_CHARS /\ ~q.overflow -> D
          [] q.parsed < 0 /\ c \in INPUT_EOL_CHARS \ BACKSPACE_CHARS /\ ~q.overflow -> E
          [] OTHER -> F
  BY Zenon DEF AddChar, Lost, PlainAdded
<1>2. BINARY_START_CHAR \notin BACKSPACE_CHARS /\ BINARY_START_CHAR \notin INPUT_EOL_CHARS
  BY SMT DEF BINARY_START_CHAR, BACKSPACE_CHARS, INPUT_EOL_CHARS, NUL, BS, DEL
<1> DEFINE parsed == q.parsed
           overflow == q.overflow
<1>0. parsed \in Int
  OBVIOUS
<1> HIDE DEF A, B, C, D, E, F, parsed, overflow
<1>3. AddChar(r, c) =
        CASE parsed >= 0 -> A
          [] parsed < 0 /\ c = BINARY_START_CHAR -> B
          [] parsed < 0 /\ c # BINARY_START_CHAR /\ overflow -> C
          [] parsed < 0 /\ c \in BACKSPACE_CHARS /\ ~overflow -> D
          [] parsed < 0 /\ c \in INPUT_EOL_CHARS \ BACKSPACE_CHARS /\ ~overflow -> E
          [] OTHER -> F
  BY <1>1 DEF parsed, overflow
<1>4. parsed >= 0 => AddChar(r, c) = A
  BY ONLY <1>0, <1>3, SMT
<1>5. parsed < 0 /\ c = BINARY_START_CHAR => AddChar(r, c) = B
  BY ONLY <1>0, <1>2, <1>3, SMT
<1>6. parsed < 0 /\ c # BINARY_START_CHAR /\ overflow => AddChar(r, c) = C
  BY ONLY <1>0, <1>2, <1>3, SMT
<1>7. parsed < 0 /\ ~overflow /\ c \in BACKSPACE_CHARS => AddChar(r, c) = D
  BY ONLY <1>0, <1>2, <1>3, SMT
<1>8. parsed < 0 /\ ~overflow /\ c \in INPUT_EOL_CHARS \ BACKSPACE_CHARS => AddChar(r, c) = E
  BY ONLY <1>0, <1>2, <1>3, SMT
<1>9. parsed < 0 /\ ~overflow /\ c \in Plain => AddChar(r, c) = F
  BY ONLY <1>0, <1>2, <1>3, SMT DEF Plain
<1> QED BY <1>4, <1>5, <1>6, <1>7, <1>8, <1>9 DEF A, B, C, D, E, F, parsed, overflow

LEMMA FollowsIs ==
  ASSUME NEW done, NEW r, NEW t, Follows(done, r, t)
  PROVE  /\ Straight(r) /\ Bounded(r) /\ r \in RxType /\ r.parsed >= -1 /\ t \in TypistType
         /\ SameLine(r, t) /\ Begun(t) /\ Abreast(r, t) /\ Tells(done, r, t)
BY DEF Follows, Loose, Bounded

LEMMA FollowsFrom ==
  ASSUME NEW done, NEW r, NEW t \in TypistType, Straight(r), SameLine(r, t), Begun(t),
         Abreast(r, t), Tells(done, r, t)
  PROVE  Follows(done, r, t)
BY DEF Follows, Loose, Straight

\* Everything but the buffer, the line and the counts stays as it is.
Counts(x, r) ==
  /\ x \in RxType /\ x.parsed >= -1 /\ x.buffer = r.buffer /\ x.ends = r.ends
  /\ x.lastIsEol = r.lastIsEol /\ x.overflow = r.overflow /\ x.reports = r.reports
  /\ x.slipped = r.slipped /\ x.astray = r.astray

LEMMA CountsBounded ==
  ASSUME NEW r, Bounded(r), NEW x, Counts(x, r)
  PROVE  Bounded(x)
BY DEF Bounded, Counts

LEMMA BinaryIs ==
  ASSUME NEW r \in RxType, NEW t \in TypistType, NEW c \in Chars, t.phase # "text",
         r.parsed >= -1, Abreast(r, t)
  PROVE  \E x :
           /\ BinaryByte(r, c) = Pushed(x, c) /\ Counts(x, r)
           /\ \A a : a.parsed = x.parsed /\ a.stored = x.stored /\ a.left = x.left =>
                       Abreast(a, TypeBinary(t, c))
           /\ TypeBinary(t, c).left \in Nat
<1> DEFINE size == Size(r, c)
           left == Remains(r, c)
           next == IF left = 0 THEN -1 ELSE r.parsed + 1
           x == [r EXCEPT !.parsed = next, !.stored = size, !.left = left]
           u == TypeBinary(t, c)
<1>2. BinaryStep(r, t, c)
  BY BinaryCounts
<1>3. BinaryByte(r, c) = Pushed(x, c)
  BY DEF BinaryByte, Size, Remains
<1>4. /\ size \in Words /\ left \in Words /\ u.left \in Nat
      /\ \/ u.phase = "low" /\ r.parsed + 1 = 1 /\ left = 1 /\ size = u.left /\ u.left <= 65280
         \/ u.phase = "text" /\ left = 0
         \/ u.phase = "data" /\ r.parsed + 1 >= 2 /\ left = u.left /\ u.left > 0
  BY <1>2 DEF BinaryStep
<1>5. next = (IF left = 0 THEN -1 ELSE r.parsed + 1) /\ r.parsed \in Int
  BY FieldsAre
<1> HIDE DEF size, left, next, u
<1>6. next \in Int /\ next >= -1
  BY <1>5, SMT
<1>7. /\ x.buffer = r.buffer /\ x.ends = r.ends /\ x.lastIsEol = r.lastIsEol
      /\ x.overflow = r.overflow /\ x.reports = r.reports
      /\ x.slipped = r.slipped /\ x.astray = r.astray
      /\ x.parsed = next /\ x.stored = size /\ x.left = left
  BY SMT DEF RxType
<1>8. x \in RxType
  <2>1. r \in RxType /\ next \in Int /\ size \in Words /\ left \in Words
    BY <1>4, <1>6
  <2> QED BY ONLY <2>1 DEF RxType
<1> HIDE DEF x
<1>9. Counts(x, r)
  BY <1>6, <1>7, <1>8 DEF Counts
<1>10. ASSUME NEW a, a.parsed = x.parsed, a.stored = x.stored, a.left = x.left
       PROVE  Abreast(a, u)
  <2>1. a.parsed = next /\ a.stored = size /\ a.left = left
    BY <1>7, <1>10
  <2>2. r.parsed \in Int
    BY <1>5
  <2>3. CASE u.phase = "low" /\ r.parsed + 1 = 1 /\ left = 1 /\ size = u.left /\ u.left <= 65280
    <3>1. next = 1
      BY <1>5, <2>3, SMT
    <3> QED BY <2>1, <2>3, <3>1, SMT DEF Abreast
  <2>4. CASE u.phase = "text" /\ left = 0
    <3>1. next = -1
      BY <1>5, <2>4, SMT
    <3> QED BY <2>1, <2>4, <3>1, SMT DEF Abreast
  <2>5. CASE u.phase = "data" /\ r.parsed + 1 >= 2 /\ left = u.left /\ u.left > 0
    <3>1. next = r.parsed + 1
      BY <1>4, <1>5, <2>5, SMT
    <3> QED BY <2>1, <2>5, <3>1, SMT DEF Abreast
  <2> QED BY <1>4, <2>3, <2>4, <2>5
<1> QED BY <1>3, <1>4, <1>9, <1>10 DEF u

\* What a key leaves of the parser in text, whatever line it acted on.
Stays(a, r) ==
  /\ Bounded(a) /\ a.parsed = r.parsed /\ (r.slipped => a.slipped)
  /\ MarkersFit(r) => a.astray = r.astray

LEMMA BinaryLoose ==
  ASSUME NEW r, NEW t, NEW c \in Chars, Loose(r, t), Room(r, c), t.phase # "text"
  PROVE  /\ Loose(BinaryByte(r, c), TypeBinary(t, c))
         /\ BinaryByte(r, c).slipped = r.slipped /\ BinaryByte(r, c).astray = r.astray
<1> DEFINE a == BinaryByte(r, c)
           u == TypeBinary(t, c)
<1>1. Bounded(r) /\ r \in RxType /\ r.parsed >= -1 /\ t \in TypistType /\ Begun(t) /\ Abreast(r, t)
  BY DEF Loose, Bounded
<1>2. PICK x : /\ a = Pushed(x, c) /\ Counts(x, r)
               /\ \A v : v.parsed = x.parsed /\ v.stored = x.stored /\ v.left = x.left =>
                           Abreast(v, u)
               /\ u.left \in Nat
  BY <1>1, BinaryIs
<1> HIDE DEF a
<1>3. Bounded(x) /\ Room(x, c)
  BY <1>1, <1>2, CountsBounded DEF Counts, Room, Fits
<1>4. Bounded(a) /\ SameReader(a, x)
  BY <1>2, <1>3, PushedBounded
<1>5. u \in TypistType /\ u.line = Append(t.line, c) /\ u.ended = t.ended
  BY <1>1, <1>2, BinaryTyped
<1> HIDE DEF u
<1>6. Begun(u)
  BY <1>1, <1>5 DEF Begun
<1>7. Abreast(a, u)
  BY <1>2, <1>4 DEF SameReader
<1>8. a.slipped = r.slipped /\ a.astray = r.astray
  BY <1>2, <1>4 DEF SameReader, Counts
<1> QED BY <1>4, <1>5, <1>6, <1>7, <1>8 DEF Loose, a, u

LEMMA BinaryFollows ==
  ASSUME NEW done, NEW r, NEW t, NEW c \in Chars, Follows(done, r, t), Room(r, c),
         t.phase # "text"
  PROVE  Follows(done, BinaryByte(r, c), TypeBinary(t, c))
<1> DEFINE a == BinaryByte(r, c)
           u == TypeBinary(t, c)
<1>1. /\ Straight(r) /\ r \in RxType /\ r.parsed >= -1 /\ t \in TypistType
      /\ SameLine(r, t) /\ Begun(t) /\ Abreast(r, t) /\ Tells(done, r, t)
  BY FollowsIs
<1>2. PICK x : a = Pushed(x, c) /\ Counts(x, r) /\ u.left \in Nat
  BY <1>1, BinaryIs
<1>3. Loose(a, u)
  BY BinaryLoose DEF Follows
<1> HIDE DEF a
<1>9. Straight(x) /\ Waiting(x) = Waiting(r) /\ Unended(x) = Unended(r)
  BY <1>1, <1>2, SameContainers DEF Counts
<1>10. Room(x, c)
  BY <1>2 DEF Room, Fits, Counts
<1>11. /\ Straight(a) /\ Waiting(a) = Waiting(x) /\ SameReader(a, x)
       /\ ~x.overflow => Unended(a) = Append(Unended(x), c)
  BY <1>2, <1>9, <1>10, PushedIs
<1>12. u.lines = t.lines /\ u.line = Append(t.line, c) /\ u.ended = t.ended
  BY <1>1, <1>2, BinaryTyped
<1> HIDE DEF u
<1>13. SameLine(a, u)
  <2>1. ASSUME ~a.overflow PROVE Unended(a) = u.line /\ a.lastIsEol = u.ended
    <3>1. ~r.overflow /\ ~x.overflow
      BY <1>2, <1>11, <2>1 DEF SameReader, Counts
    <3>2. Unended(r) = t.line /\ r.lastIsEol = t.ended
      BY <1>1, <3>1 DEF SameLine
    <3>3. Unended(a) = Append(Unended(x), c) /\ Unended(x) = Unended(r)
      BY <1>9, <1>11, <3>1
    <3>4. Unended(a) = u.line
      BY ONLY <1>12, <3>2, <3>3, Zenon
    <3> QED BY <1>2, <1>11, <1>12, <3>2, <3>4 DEF SameReader, Counts
  <2> QED BY <2>1 DEF SameLine
<1>14. Tells(done, a, u)
  <2>1. Waiting(a) = Waiting(r) /\ a.reports = r.reports
    BY <1>2, <1>9, <1>11 DEF SameReader, Counts
  <2> QED BY <1>1, <1>12, <2>1, ToldSame
<1> QED BY <1>3, <1>11, <1>13, <1>14 DEF Follows, a, u

-----------------------------------------------------------------------------
(* What was handled and waits, when a line ends *)

Gone == StrippedOf(Seq(Chars))

LEMMA ToldWith ==
  ASSUME NEW done, NEW r, NEW t, Tells(done, r, t)
  PROVE  /\ InOrderOf(Joined(done, Commands(Waiting(r))), Commands(t.lines))
         /\ Len(Commands(t.lines)) - Len(Joined(done, Commands(Waiting(r)))) <= r.reports
BY DEF Tells, Joined

LEMMA WithTold ==
  ASSUME NEW done, NEW r, NEW t,
         InOrderOf(Joined(done, Commands(Waiting(r))), Commands(t.lines)),
         Len(Commands(t.lines)) - Len(Joined(done, Commands(Waiting(r)))) <= r.reports
  PROVE  Tells(done, r, t)
BY DEF Tells, Joined

LEMMA JoinedIn ==
  ASSUME NEW S, NEW s \in Seq(S), NEW t \in Seq(S)
  PROVE  Joined(s, t) \in Seq(S)
BY DEF Joined

LEMMA InOrderWith ==
  ASSUME NEW S, NEW part \in Seq(S), NEW whole \in Seq(S), NEW x \in S, InOrderOf(part, whole)
  PROVE  /\ InOrderOf(part, WithCommand(whole, x))
         /\ InOrderOf(WithCommand(part, x), WithCommand(whole, x))
<1>1. CASE x = <<>>
  BY <1>1 DEF WithCommand
<1>2. CASE x # <<>>
  <2>1. WithCommand(whole, x) = Append(whole, x) /\ WithCommand(part, x) = Append(part, x)
    BY <1>2 DEF WithCommand
  <2>2. InOrderOf(part, Append(whole, x)) /\ InOrderOf(Append(part, x), Append(whole, x))
    BY InOrderMore
  <2> QED BY ONLY <2>1, <2>2, Zenon
<1> QED BY <1>1, <1>2

LEMMA WithLonger ==
  ASSUME NEW S, NEW part \in Seq(S), NEW whole \in Seq(S), NEW x \in S
  PROVE  /\ Len(WithCommand(whole, x)) - Len(part) <= Len(whole) - Len(part) + 1
         /\ Len(WithCommand(whole, x)) - Len(WithCommand(part, x)) = Len(whole) - Len(part)
<1>1. CASE x = <<>>
  BY <1>1 DEF WithCommand
<1>2. CASE x # <<>>
  <2>1. WithCommand(whole, x) = Append(whole, x) /\ WithCommand(part, x) = Append(part, x)
    BY <1>2 DEF WithCommand
  <2>2. /\ Len(Append(whole, x)) = Len(whole) + 1 /\ Len(Append(part, x)) = Len(part) + 1
        /\ Len(whole) \in Nat /\ Len(part) \in Nat
    OBVIOUS
  <2> QED BY <2>1, <2>2
<1> QED BY <1>1, <1>2

More(v, lines, line) == v = Append(lines, line)

LEMMA CommandsMore ==
  ASSUME NEW lines \in Seq(Seq(Chars)), NEW line \in Seq(Chars), NEW v, More(v, lines, line)
  PROVE  /\ Commands(v) = WithCommand(Commands(lines), Stripped(line))
         /\ Commands(lines) \in Seq(Gone) /\ Stripped(line) \in Gone
<1>1. v = Append(lines, line)
  BY DEF More
<1>2. Commands(Append(lines, line)) = WithCommand(Commands(lines), Stripped(line))
  BY CommandsAppend
<1>3. Commands(lines) \in Seq(Gone) /\ Stripped(line) \in Gone
  BY CommandsIn DEF Gone, StrippedOf
<1> QED BY ONLY <1>1, <1>2, <1>3, Zenon

\* A line that did not fit is reported.
LEMMA ToldLost ==
  ASSUME NEW done \in Seq(Gone), NEW r, Straight(r), NEW t \in TypistType, Tells(done, r, t),
         NEW v, Waiting(v) = Waiting(r), v.reports = r.reports + 1,
         NEW u, u.lines = t.lines \/ More(u.lines, t.lines, t.line)
  PROVE  Tells(done, v, u)
<1> DEFINE seen == Joined(done, Commands(Waiting(r)))
           lines == Commands(t.lines)
<1>1. r.reports \in Nat /\ t.lines \in Seq(Seq(Chars)) /\ t.line \in Seq(Chars)
  BY FieldsAre, TypistIs DEF Straight, Bounded
<1>2. Waiting(r) \in Seq(Seq(Chars))
  BY WaitingIs
<1>3. seen \in Seq(Gone) /\ lines \in Seq(Gone)
  BY <1>1, <1>2, CommandsIn, JoinedIn DEF Gone
<1>4. InOrderOf(seen, lines) /\ Len(lines) - Len(seen) <= r.reports
  BY ToldWith
<1>5. seen = Joined(done, Commands(Waiting(v)))
  OBVIOUS
<1> HIDE DEF seen
<1>6. CASE u.lines = t.lines
  <2>1. lines = Commands(u.lines)
    BY <1>6
  <2> HIDE DEF lines
  <2>2. Len(lines) \in Nat /\ Len(seen) \in Nat
    BY <1>3
  <2>3. Len(lines) - Len(seen) <= v.reports
    BY <1>1, <1>4, <2>2
  <2> QED BY <1>4, <1>5, <2>1, <2>3, WithTold
<1>7. CASE More(u.lines, t.lines, t.line)
  <2> DEFINE x == Stripped(t.line)
             now == WithCommand(lines, x)
  <2>1. Commands(u.lines) = now /\ x \in Gone
    BY <1>1, <1>7, CommandsMore
  <2> HIDE DEF x, lines
  <2>2. InOrderOf(seen, now)
    BY <1>3, <1>4, <2>1, InOrderWith
  <2>3. Len(now) - Len(seen) <= Len(lines) - Len(seen) + 1
    BY <1>3, <2>1, WithLonger
  <2>4. now \in Seq(Gone)
    BY <1>3, <2>1, WithCommandIs
  <2> HIDE DEF now
  <2>5. Len(lines) \in Nat /\ Len(seen) \in Nat /\ Len(now) \in Nat
    BY <1>3, <2>4
  <2>6. Len(now) - Len(seen) <= v.reports
    BY <1>1, <1>4, <2>3, <2>5
  <2> QED BY <1>5, <2>1, <2>2, <2>6, WithTold
<1> QED BY <1>6, <1>7

\* A line that fits waits.
LEMMA ToldMore ==
  ASSUME NEW done \in Seq(Gone), NEW r, Straight(r), NEW t \in TypistType, Tells(done, r, t),
         NEW v, More(Waiting(v), Waiting(r), t.line), v.reports = r.reports,
         NEW u, More(u.lines, t.lines, t.line)
  PROVE  Tells(done, v, u)
<1> DEFINE seen == Joined(done, Commands(Waiting(r)))
           lines == Commands(t.lines)
           x == Stripped(t.line)
           now == WithCommand(lines, x)
           then == WithCommand(seen, x)
<1>1. r.reports \in Nat /\ t.lines \in Seq(Seq(Chars)) /\ t.line \in Seq(Chars)
  BY FieldsAre, TypistIs DEF Straight, Bounded
<1>2. Waiting(r) \in Seq(Seq(Chars))
  BY WaitingIs
<1>3. seen \in Seq(Gone) /\ lines \in Seq(Gone) /\ Commands(Waiting(r)) \in Seq(Gone)
  BY <1>1, <1>2, CommandsIn, JoinedIn DEF Gone
<1>4. InOrderOf(seen, lines) /\ Len(lines) - Len(seen) <= r.reports
  BY ToldWith
<1>5. Commands(u.lines) = now /\ x \in Gone
  BY <1>1, CommandsMore
<1>6. Commands(Waiting(v)) = WithCommand(Commands(Waiting(r)), x)
  BY <1>1, <1>2, CommandsMore
<1>7. Joined(done, Commands(Waiting(v))) = then
  BY <1>3, <1>5, <1>6, JoinedWith
<1> HIDE DEF seen, lines, x
<1>8. InOrderOf(then, now)
  BY <1>3, <1>4, <1>5, InOrderWith
<1>9. Len(now) - Len(then) = Len(lines) - Len(seen)
  BY <1>3, <1>5, WithLonger
<1> HIDE DEF now, then
<1>10. Len(now) - Len(then) <= v.reports
  BY <1>4, <1>9
<1> QED BY <1>5, <1>7, <1>8, <1>10, WithTold

-----------------------------------------------------------------------------
(* The characters of text *)

\* A character is added to the line of both.
Grown(v, s, c) == v = Append(s, c)

LEMMA LineGrows ==
  ASSUME NEW done, NEW r, NEW t, NEW c \in Chars, Follows(done, r, t),
         NEW a, Straight(a), Waiting(a) = Waiting(r), a.reports = r.reports,
         a.overflow = r.overflow, ~a.lastIsEol, a.lastIsEol \in BOOLEAN,
         ~r.overflow => Grown(Unended(a), Unended(r), c),
         NEW u \in TypistType, u.lines = t.lines, Grown(u.line, t.line, c), ~u.ended,
         Abreast(a, u)
  PROVE  Follows(done, a, u)
<1>1. SameLine(r, t) /\ Tells(done, r, t)
  BY FollowsIs
<1>2. SameLine(a, u)
  <2>1. ASSUME ~a.overflow PROVE Unended(a) = u.line /\ a.lastIsEol = u.ended
    <3>1. Unended(r) = t.line /\ Grown(Unended(a), Unended(r), c)
      BY <1>1, <2>1 DEF SameLine
    <3>2. Unended(a) = u.line
      BY ONLY <3>1, Grown(u.line, t.line, c) DEF Grown
    <3>3. u.ended \in BOOLEAN
      BY TypistIs
    <3> QED BY <3>2, <3>3
  <2> QED BY <2>1 DEF SameLine
<1>3. Begun(u)
  BY DEF Begun
<1>4. Tells(done, a, u)
  BY <1>1, ToldSame
<1> QED BY <1>2, <1>3, <1>4, FollowsFrom

LEMMA EolIs ==
  ASSUME NEW r \in RxType, NEW a, a = [r EXCEPT !.lastIsEol = FALSE]
  PROVE  /\ a \in RxType /\ a.buffer = r.buffer /\ a.ends = r.ends /\ a.parsed = r.parsed
         /\ a.left = r.left /\ a.overflow = r.overflow /\ a.reports = r.reports
         /\ ~a.lastIsEol /\ a.lastIsEol \in BOOLEAN
         /\ a.slipped = r.slipped /\ a.astray = r.astray
<1>1. a \in RxType
  BY DEF RxType
<1>2. /\ a.buffer = r.buffer /\ a.ends = r.ends /\ a.parsed = r.parsed
      /\ a.left = r.left /\ a.overflow = r.overflow /\ a.reports = r.reports
      /\ a.slipped = r.slipped /\ a.astray = r.astray
  BY DEF RxType
<1>3. a.lastIsEol = FALSE
  BY DEF RxType
<1> QED BY <1>1, <1>2, <1>3

LEMMA StartFollows ==
  ASSUME NEW done, NEW r, NEW t, Follows(done, r, t), Room(r, BINARY_START_CHAR)
  PROVE  Follows(done, BinaryStart(r), AfterStart(t, BINARY_START_CHAR))
<1> DEFINE c == BINARY_START_CHAR
           x == [r EXCEPT !.parsed = 0, !.stored = 0, !.left = 2]
           y == Pushed(x, c)
           a == [y EXCEPT !.lastIsEol = FALSE]
           u == AfterStart(t, c)
<1>1. /\ Straight(r) /\ r \in RxType /\ r.parsed >= -1 /\ t \in TypistType
  BY FollowsIs
<1>2. a = BinaryStart(r)
  BY DEF BinaryStart
<1>3. /\ x.buffer = r.buffer /\ x.ends = r.ends /\ x.overflow = r.overflow
      /\ x.reports = r.reports /\ x.parsed = 0 /\ x.left = 2
  BY <1>1, SMT DEF RxType
<1>4. x \in RxType
  <2>1. r \in RxType /\ 0 \in Words /\ 2 \in Words /\ 0 \in Int
    BY <1>1, OneWord
  <2> QED BY ONLY <2>1 DEF RxType
<1> HIDE DEF x
<1>5. x.parsed >= -1
  BY <1>3
<1>6. Straight(x) /\ Waiting(x) = Waiting(r) /\ Unended(x) = Unended(r)
  BY <1>1, <1>3, <1>4, <1>5, SameContainers
<1>7. Room(x, c) /\ c \in Chars
  BY <1>3 DEF Room, Fits, Chars, BINARY_START_CHAR
<1>8. /\ Straight(y) /\ Waiting(y) = Waiting(x) /\ SameReader(y, x)
      /\ ~x.overflow => Unended(y) = Append(Unended(x), c)
  BY <1>6, <1>7, PushedIs
<1> HIDE DEF y, c
<1>9. y \in RxType /\ y.parsed = 0 /\ y.left = 2 /\ y.overflow = r.overflow /\ y.reports = r.reports
  BY <1>3, <1>8 DEF SameReader, Straight, Bounded
<1>10. /\ a \in RxType /\ a.buffer = y.buffer /\ a.ends = y.ends /\ a.parsed = 0 /\ a.left = 2
       /\ a.overflow = r.overflow /\ a.reports = r.reports /\ ~a.lastIsEol /\ a.lastIsEol \in BOOLEAN
  BY <1>9, EolIs
<1> HIDE DEF a
<1>11. Straight(a) /\ Waiting(a) = Waiting(y) /\ Unended(a) = Unended(y)
  <2>1. a.parsed >= -1
    BY <1>10
  <2> QED BY <1>8, <1>10, <2>1, SameContainers
<1>12. u \in TypistType /\ u.lines = t.lines /\ Grown(u.line, t.line, c) /\ ~u.ended /\ u.phase = "high"
  BY <1>1, <1>7, TextStart DEF Grown
<1> HIDE DEF u
<1>13. Abreast(a, u)
  BY <1>10, <1>12, SMT DEF Abreast
<1>14. ~r.overflow => Grown(Unended(a), Unended(r), c)
  BY ONLY <1>3, <1>6, <1>8, <1>11, Zenon DEF Grown
<1>15. Waiting(a) = Waiting(r)
  BY <1>6, <1>8, <1>11
<1>16. Follows(done, a, u)
  BY <1>7, <1>10, <1>11, <1>12, <1>13, <1>14, <1>15, LineGrows
<1> QED BY <1>2, <1>16 DEF u, c

InText(r, t) == t.phase = "text" /\ r.parsed = -1

LEMMA StaysInText ==
  ASSUME NEW r, NEW t, InText(r, t), NEW a, a.parsed = r.parsed, NEW u, u.phase = t.phase
  PROVE  Abreast(a, u) /\ InText(a, u)
BY SMT DEF InText, Abreast

LEMMA PlainFollows ==
  ASSUME NEW done, NEW r, NEW t, NEW c \in Chars, Follows(done, r, t), Room(r, c), InText(r, t)
  PROVE  Follows(done, PlainAdded(r, c), AfterPlain(t, c))
<1> DEFINE y == Pushed(r, c)
           a == [y EXCEPT !.lastIsEol = FALSE]
           u == AfterPlain(t, c)
<1>1. /\ Straight(r) /\ r \in RxType /\ r.parsed >= -1 /\ t \in TypistType
  BY FollowsIs
<1>2. a = PlainAdded(r, c)
  BY DEF PlainAdded
<1>3. /\ Straight(y) /\ Waiting(y) = Waiting(r) /\ SameReader(y, r)
      /\ ~r.overflow => Unended(y) = Append(Unended(r), c)
  BY <1>1, PushedIs
<1> HIDE DEF y
<1>4. y \in RxType /\ y.parsed = r.parsed /\ y.overflow = r.overflow /\ y.reports = r.reports
  BY <1>3 DEF SameReader, Straight, Bounded
<1>5. /\ a \in RxType /\ a.buffer = y.buffer /\ a.ends = y.ends /\ a.parsed = r.parsed
      /\ a.overflow = r.overflow /\ a.reports = r.reports /\ ~a.lastIsEol /\ a.lastIsEol \in BOOLEAN
  BY <1>4, EolIs
<1> HIDE DEF a
<1>6. Straight(a) /\ Waiting(a) = Waiting(y) /\ Unended(a) = Unended(y)
  <2>1. a.parsed >= -1
    BY <1>1, <1>5
  <2> QED BY <1>3, <1>5, <2>1, SameContainers
<1>7. /\ u \in TypistType /\ u.lines = t.lines /\ Grown(u.line, t.line, c) /\ ~u.ended
      /\ u.phase = t.phase
  BY <1>1, TextPlain DEF Grown
<1> HIDE DEF u
<1>8. Abreast(a, u)
  BY <1>5, <1>7, StaysInText
<1>9. ~r.overflow => Grown(Unended(a), Unended(r), c)
  BY ONLY <1>3, <1>6, Zenon DEF Grown
<1>10. Waiting(a) = Waiting(r)
  BY <1>3, <1>6
<1>11. Follows(done, a, u)
  BY <1>5, <1>6, <1>7, <1>8, <1>9, <1>10, LineGrows
<1> QED BY <1>2, <1>11 DEF u

\* What does not fit is dropped, whatever the typist makes of it.
LEMMA LostFollows ==
  ASSUME NEW done, NEW r, NEW t, NEW u \in TypistType, Follows(done, r, t), InText(r, t),
         r.overflow, u.lines = t.lines, u.phase = t.phase, u.ended => u.line = <<>>
  PROVE  Follows(done, Lost(r), u)
<1> DEFINE a == Lost(r)
<1>1. /\ Straight(r) /\ r \in RxType /\ r.parsed >= -1 /\ Tells(done, r, t)
  BY FollowsIs
<1>2. /\ a \in RxType /\ a.buffer = r.buffer /\ a.ends = r.ends /\ a.parsed = r.parsed
      /\ a.overflow = r.overflow /\ a.reports = r.reports
  BY <1>1, EolIs DEF Lost
<1> HIDE DEF a
<1>3. Straight(a) /\ Waiting(a) = Waiting(r)
  BY <1>1, <1>2, SameContainers
<1>4. SameLine(a, u)
  BY <1>2 DEF SameLine
<1>5. Begun(u)
  BY DEF Begun, InText
<1>6. Abreast(a, u)
  BY <1>2, StaysInText
<1>7. Tells(done, a, u)
  BY <1>1, <1>2, <1>3, ToldSame
<1> QED BY <1>3, <1>4, <1>5, <1>6, <1>7, FollowsFrom DEF a

LEMMA OverflowFollows ==
  ASSUME NEW done \in Seq(Gone), NEW r, NEW t, NEW c, Follows(done, r, t), InText(r, t), r.overflow
  PROVE  Follows(done, OverflowEnds(r, c), AfterEnd(t))
<1> DEFINE inside == r.ends # <<>> /\ Last(r.ends) \in DOMAIN r.buffer
           kept == IF inside THEN SubSeq(r.buffer, 1, Last(r.ends)) ELSE <<>>
           slipped == r.slipped \/ c = NUL
           astray == r.astray \/ (r.ends # <<>> /\ ~inside)
           a == [r EXCEPT !.buffer = kept, !.overflow = FALSE, !.lastIsEol = TRUE,
                          !.reports = r.reports + 1, !.slipped = slipped, !.astray = astray]
           u == AfterEnd(t)
<1>1. /\ Straight(r) /\ r \in RxType /\ r.parsed >= -1 /\ t \in TypistType /\ Begun(t) /\ Tells(done, r, t)
  BY FollowsIs
<1>2. a = OverflowEnds(r, c)
  BY DEF OverflowEnds
<1>3. kept = SubSeq(r.buffer, 1, LastEnd(r)) /\ kept \in Seq(Chars)
  <2>1. /\ r.buffer \in Seq(Chars) /\ LastEnd(r) \in Nat /\ LastEnd(r) <= Len(r.buffer)
        /\ Len(r.ends) \in Nat
    BY <1>1, MarkersAre
  <2>2. SubSeq(r.buffer, 1, LastEnd(r)) \in Seq(Chars)
    BY <2>1, PartIs
  <2>3. CASE r.ends = <<>>
    <3>1. LastEnd(r) = 0
      BY <2>3 DEF LastEnd
    <3>2. SubSeq(r.buffer, 1, 0) = <<>>
      BY <2>1
    <3> QED BY <2>2, <2>3, <3>1, <3>2
  <2>4. CASE r.ends # <<>>
    <3>1. Last(r.ends) = LastEnd(r)
      BY <2>4 DEF LastEnd, Last
    <3>2. r.ends \in Seq(Nat \ {0})
      BY <1>1, MarkersAre
    <3>3. Len(r.ends) \in DOMAIN r.ends
      BY <2>4, <3>2
    <3>4. Last(r.ends) \in DOMAIN r.buffer
      BY <1>1, <3>3 DEF Straight, MarkersFit, Last
    <3> QED BY <2>2, <2>4, <3>1, <3>4
  <2> QED BY <2>3, <2>4
<1>4. r.reports \in Nat
  BY <1>1, FieldsAre
<1> HIDE DEF kept
<1>5. /\ a \in RxType /\ a.buffer = kept /\ a.ends = r.ends /\ a.parsed = r.parsed
      /\ a.overflow = FALSE /\ a.reports = r.reports + 1 /\ a.lastIsEol = TRUE
  <2> DEFINE reports == r.reports + 1
  <2>1. reports \in Nat
    BY <1>4
  <2>2. a = [r EXCEPT !.buffer = kept, !.overflow = FALSE, !.lastIsEol = TRUE, !.reports = reports,
                      !.slipped = slipped, !.astray = astray]
    OBVIOUS
  <2>7. slipped \in BOOLEAN /\ astray \in BOOLEAN
    BY <1>1, FieldsAre
  <2> HIDE DEF reports, a, slipped, astray
  <2>3. a \in RxType
    <3>1. r \in RxType /\ kept \in Seq(Chars)
      BY <1>1, <1>3
    <3> QED BY ONLY <2>1, <2>2, <2>7, <3>1 DEF RxType
  <2>4. a.buffer = kept /\ a.ends = r.ends /\ a.parsed = r.parsed /\ a.reports = reports
    BY <1>1, <2>2 DEF RxType
  <2>5. a.overflow = FALSE
    BY <1>1, <2>2 DEF RxType
  <2>6. a.lastIsEol = TRUE
    BY <1>1, <2>2 DEF RxType
  <2> QED BY <2>3, <2>4, <2>5, <2>6 DEF reports
<1> HIDE DEF a
<1>6. Cuts(a, r)
  BY <1>1, <1>3, <1>5 DEF Cuts
<1>7. Straight(a) /\ Waiting(a) = Waiting(r) /\ Unended(a) = <<>>
  BY <1>1, <1>6, CutsIs
<1>8. /\ u \in TypistType
      /\ t.ended => u = t
      /\ ~t.ended => /\ u.lines = Append(t.lines, t.line) /\ u.line = <<>> /\ u.ended
                     /\ u.phase = t.phase
  BY <1>1, TextEnd
<1> HIDE DEF u
<1>9. u \in TypistType /\ u.line = <<>> /\ u.ended /\ u.phase = t.phase
  <2>1. CASE t.ended
    BY <1>1, <1>8, <2>1 DEF Begun
  <2>2. CASE ~t.ended
    BY ONLY <1>8, <2>2, Zenon
  <2> QED BY <2>1, <2>2
<1>10. u.lines = t.lines \/ More(u.lines, t.lines, t.line)
  <2>1. CASE t.ended
    BY <1>8, <2>1
  <2>2. CASE ~t.ended
    BY ONLY <1>8, <2>2, Zenon DEF More
  <2> QED BY <2>1, <2>2
<1>11. SameLine(a, u)
  <2>1. u.ended \in BOOLEAN
    BY <1>9, TypistIs
  <2> QED BY <1>5, <1>7, <1>9, <2>1 DEF SameLine
<1>12. Begun(u)
  BY <1>9 DEF Begun, InText
<1>13. Abreast(a, u)
  BY <1>5, <1>9, StaysInText
<1>14. Tells(done, a, u)
  BY <1>1, <1>5, <1>7, <1>10, ToldLost
<1> QED BY <1>2, <1>7, <1>9, <1>11, <1>12, <1>13, <1>14, FollowsFrom DEF u

-----------------------------------------------------------------------------
(* Backspaces, ends of lines, and every character *)

Shortened(r, b, slipped) == [r EXCEPT !.buffer = b, !.slipped = slipped]

LEMMA BufferIs ==
  ASSUME NEW r \in RxType, NEW b \in Seq(Chars), NEW slipped \in BOOLEAN,
         NEW a, a = Shortened(r, b, slipped)
  PROVE  /\ a \in RxType /\ a.buffer = b /\ a.ends = r.ends /\ a.slipped = slipped
         /\ a.lastIsEol = r.lastIsEol /\ a.overflow = r.overflow /\ a.parsed = r.parsed
         /\ a.stored = r.stored /\ a.left = r.left /\ a.reports = r.reports /\ a.astray = r.astray
<1>0. a = [r EXCEPT !.buffer = b, !.slipped = slipped]
  BY DEF Shortened
<1>1. a \in RxType
  BY ONLY r \in RxType, b \in Seq(Chars), slipped \in BOOLEAN, <1>0 DEF RxType
<1>2. a.buffer = b /\ a.ends = r.ends
  BY <1>0 DEF RxType
<1>3. a.slipped = slipped
  BY <1>0 DEF RxType
<1>4. /\ a.lastIsEol = r.lastIsEol /\ a.overflow = r.overflow /\ a.parsed = r.parsed
      /\ a.stored = r.stored /\ a.left = r.left /\ a.reports = r.reports /\ a.astray = r.astray
  BY <1>0 DEF RxType
<1> QED BY <1>1, <1>2, <1>3, <1>4

\* Away from the start of the line, there is something in it to take back.
LEMMA LineToTakeBack ==
  ASSUME NEW r, Straight(r), r.buffer # <<>>, ~AtLineStart(r)
  PROVE  Unended(r) # <<>>
<1>1. Len(Unended(r)) = Len(r.buffer) - LastEnd(r)
  BY UnendedIs
<1>2. LastEnd(r) \in Nat /\ Len(r.buffer) \in Nat /\ r.buffer \in Seq(Chars)
  BY MarkersAre
<1>3. Len(r.buffer) # 0
  BY <1>2
<1>4. LastEnd(r) # Len(r.buffer)
  <2>1. CASE r.ends = <<>>
    BY <1>3, <2>1 DEF LastEnd
  <2>2. CASE r.ends # <<>>
    BY <2>2 DEF LastEnd, AtLineStart, Last
  <2> QED BY <2>1, <2>2
<1>5. Len(Unended(r)) # 0
  BY <1>1, <1>2, <1>4
<1> QED BY <1>5

LEMMA BackspaceFollows ==
  ASSUME NEW done, NEW r, NEW t, Follows(done, r, t), InText(r, t), ~r.overflow,
         ~Backspaced(r).slipped
  PROVE  Follows(done, Backspaced(r), AfterBackspace(t))
<1>1. /\ Straight(r) /\ r \in RxType /\ r.parsed >= -1 /\ t \in TypistType
      /\ SameLine(r, t) /\ Begun(t) /\ Tells(done, r, t)
  BY FollowsIs
<1>2. Unended(r) = t.line /\ r.lastIsEol = t.ended
  BY <1>1 DEF SameLine
<1>3. CASE t.ended
  <2>1. Backspaced(r) = r /\ AfterBackspace(t) = t
    BY <1>2, <1>3 DEF Backspaced, AfterBackspace
  <2> QED BY <2>1
<1>4. CASE ~t.ended /\ r.buffer = <<>>
  <2>1. Unended(r) = <<>>
    <3>1. /\ Len(Unended(r)) = Len(r.buffer) - LastEnd(r) /\ Unended(r) \in Seq(Chars)
          /\ LastEnd(r) \in Nat /\ LastEnd(r) <= Len(r.buffer)
      BY <1>1, UnendedIs, MarkersAre
    <3>2. Len(r.buffer) = 0
      BY <1>4
    <3>3. Len(Unended(r)) = 0
      BY <3>1, <3>2
    <3> QED BY ONLY <3>1, <3>3
  <2>2. Backspaced(r) = r /\ AfterBackspace(t) = t
    BY <1>2, <1>4, <2>1 DEF Backspaced, AfterBackspace
  <2> QED BY <2>2
<1>5. CASE ~t.ended /\ r.buffer # <<>>
  <2> DEFINE b == Front(r.buffer)
             slipped == r.slipped \/ AtLineStart(r)
             a == [r EXCEPT !.buffer = b, !.slipped = slipped]
             u == AfterBackspace(t)
  <2>1. a = Backspaced(r)
    BY <1>2, <1>5 DEF Backspaced
  <2>2. b \in Seq(Chars) /\ slipped \in BOOLEAN
    BY <1>1, <1>5, FieldsAre, FrontIs DEF AtLineStart
  <2>3. /\ a \in RxType /\ a.buffer = b /\ a.ends = r.ends /\ a.slipped = slipped
        /\ a.lastIsEol = r.lastIsEol /\ a.overflow = r.overflow /\ a.parsed = r.parsed
        /\ a.reports = r.reports
    <3> HIDE DEF b, slipped
    <3>1. r \in RxType /\ a = Shortened(r, b, slipped)
      BY <1>1 DEF Shortened
    <3> HIDE DEF a
    <3> QED BY ONLY <2>2, <3>1, BufferIs
  <2>4. ~AtLineStart(r)
    BY <2>1, <2>3
  <2> HIDE DEF a
  <2>5. t.line # <<>> /\ Unended(r) # <<>>
    BY <1>1, <1>2, <1>5, <2>4, LineToTakeBack
  <2>6. Pops(a, r)
    BY <1>1, <2>3 DEF Pops
  <2>7. Straight(a) /\ Waiting(a) = Waiting(r) /\ Unended(a) = Front(Unended(r))
    BY <1>1, <2>5, <2>6, PopsIs
  <2>8. /\ u \in TypistType /\ u.lines = t.lines /\ u.ended = t.ended /\ u.phase = t.phase
        /\ u.line = Front(t.line)
    BY <1>1, <1>5, <2>5, TextBackspace
  <2> HIDE DEF b, u
  <2>9. SameLine(a, u)
    <3>1. Unended(a) = u.line
      BY ONLY <1>2, <2>7, <2>8, Zenon
    <3> QED BY <1>2, <2>3, <2>8, <3>1 DEF SameLine
  <2>10. Begun(u)
    BY <1>5, <2>8 DEF Begun
  <2>11. Abreast(a, u)
    BY <2>3, <2>8, StaysInText
  <2>12. Tells(done, a, u)
    BY <1>1, <2>3, <2>7, <2>8, ToldSame
  <2> QED BY <2>1, <2>7, <2>8, <2>9, <2>10, <2>11, <2>12, FollowsFrom DEF u
<1> QED BY <1>3, <1>4, <1>5

LEMMA EndFollows ==
  ASSUME NEW done \in Seq(Gone), NEW r, NEW t, NEW c, Follows(done, r, t), InText(r, t),
         ~r.overflow, Room(r, c), c # BS
  PROVE  Follows(done, Ended(r), AfterEnd(t))
<1>1. /\ Straight(r) /\ r \in RxType /\ r.parsed >= -1 /\ t \in TypistType
      /\ SameLine(r, t) /\ Begun(t) /\ Tells(done, r, t)
  BY FollowsIs
<1>2. Unended(r) = t.line /\ r.lastIsEol = t.ended
  BY <1>1 DEF SameLine
<1>3. CASE t.ended
  <2>1. Ended(r) = r /\ AfterEnd(t) = t
    BY <1>2, <1>3 DEF Ended, AfterEnd
  <2> QED BY <2>1
<1>4. CASE ~t.ended
  <2> DEFINE b == Append(r.buffer, NUL)
             marker == Len(r.buffer) + 1
             e == Append(r.ends, marker)
             a == [r EXCEPT !.ends = e, !.buffer = b, !.lastIsEol = TRUE]
             u == AfterEnd(t)
  <2>1. a = Ended(r)
    BY <1>2, <1>4 DEF Ended
  <2>2. r.buffer \in Seq(Chars) /\ r.ends \in Seq(Nat \ {0}) /\ Len(r.buffer) \in Nat
    BY <1>1, MarkersAre
  <2>3. b \in Seq(Chars)
    <3>1. NUL \in Chars
      BY DEF NUL, Chars
    <3> QED BY <2>2, <3>1, AppendProperties
  <2>4. e \in Seq(Int)
    <3>1. marker \in Int /\ r.ends \in Seq(Int)
      BY <1>1, <2>2, FieldsAre
    <3> HIDE DEF marker
    <3> QED BY <3>1, AppendProperties
  <2>5. Fits(r, NUL)
    BY DEF Room, Fits
  <2>6. Grows(a, r, NUL) <=> a.buffer = b
    BY DEF Grows
  <2>7. Ends(a, r) <=> a \in RxType /\ a.parsed >= -1 /\ Grows(a, r, NUL) /\ a.ends = e
    BY Zenon DEF Ends
  <2> HIDE DEF b, e
  <2>8. a \in RxType
    BY ONLY <1>1, <2>3, <2>4 DEF RxType
  <2>9. a.buffer = b /\ a.ends = e /\ a.parsed = r.parsed /\ a.reports = r.reports
    BY <1>1 DEF RxType
  <2>10. a.lastIsEol = TRUE
    BY <1>1 DEF RxType
  <2> HIDE DEF a
  <2>11. Ends(a, r)
    BY <1>1, <2>6, <2>7, <2>8, <2>9
  <2>12. Straight(a) /\ Waiting(a) = Append(Waiting(r), Unended(r)) /\ Unended(a) = <<>>
    BY <1>1, <2>5, <2>11, EndsIs
  <2>13. More(Waiting(a), Waiting(r), t.line)
    BY ONLY <1>2, <2>12, Zenon DEF More
  <2>14. /\ u \in TypistType /\ u.line = <<>> /\ u.ended /\ u.phase = t.phase
         /\ u.lines = Append(t.lines, t.line)
    BY <1>1, <1>4, TextEnd
  <2>15. More(u.lines, t.lines, t.line)
    BY <2>14 DEF More
  <2> HIDE DEF u
  <2>16. SameLine(a, u)
    <3>1. u.ended \in BOOLEAN
      BY <2>14, TypistIs
    <3> QED BY <2>10, <2>12, <2>14, <3>1 DEF SameLine
  <2>17. Begun(u)
    BY <2>14 DEF Begun, InText
  <2>18. Abreast(a, u)
    BY <2>9, <2>14, StaysInText
  <2>19. Tells(done, a, u)
    BY <1>1, <2>9, <2>13, <2>15, ToldMore
  <2> QED BY <2>1, <2>12, <2>14, <2>16, <2>17, <2>18, <2>19, FollowsFrom DEF u
<1> QED BY <1>3, <1>4

LEMMA AbreastIs ==
  ASSUME NEW r, NEW t \in TypistType
  PROVE  Abreast(r, t) <=>
           /\ t.phase = "text" => r.parsed = -1
           /\ t.phase = "high" => r.parsed = 0 /\ r.left = 2
           /\ t.phase = "low" => /\ r.parsed = 1 /\ r.left = 1
                                 /\ r.stored = t.left /\ t.left <= 65280
           /\ t.phase = "data" => r.parsed >= 2 /\ r.left = t.left /\ t.left > 0
<1>1. t.phase \in {"text", "high", "low", "data"}
  BY TypistIs
<1>2. CASE t.phase = "text"
  BY <1>2, SMT DEF Abreast
<1>3. CASE t.phase = "high"
  BY <1>3, SMT DEF Abreast
<1>4. CASE t.phase = "low"
  BY <1>4, SMT DEF Abreast
<1>5. CASE t.phase = "data"
  BY <1>5, SMT DEF Abreast
<1> QED BY <1>1, <1>2, <1>3, <1>4, <1>5

-----------------------------------------------------------------------------
(* What every key keeps, whatever it acts on *)

LEMMA PlainStays ==
  ASSUME NEW r, Bounded(r), NEW c \in Chars, Room(r, c)
  PROVE  Stays(PlainAdded(r, c), r)
<1> DEFINE y == Pushed(r, c)
           a == [y EXCEPT !.lastIsEol = FALSE]
<1>1. Bounded(y) /\ SameReader(y, r)
  BY PushedBounded
<1>2. a = PlainAdded(r, c)
  BY DEF PlainAdded
<1> HIDE DEF y
<1>3. /\ a \in RxType /\ a.buffer = y.buffer /\ a.parsed = y.parsed
      /\ a.slipped = y.slipped /\ a.astray = y.astray
  BY <1>1, EolIs DEF Bounded
<1> HIDE DEF a
<1> QED BY <1>1, <1>2, <1>3 DEF Stays, Bounded, SameReader

LEMMA LostStays ==
  ASSUME NEW r, Bounded(r)
  PROVE  Stays(Lost(r), r)
<1> DEFINE a == Lost(r)
<1>1. /\ a \in RxType /\ a.buffer = r.buffer /\ a.parsed = r.parsed
      /\ a.slipped = r.slipped /\ a.astray = r.astray
  BY EolIs DEF Bounded, Lost
<1> HIDE DEF a
<1> QED BY <1>1 DEF Stays, Bounded, a

LEMMA OverflowStays ==
  ASSUME NEW r, Bounded(r), NEW c
  PROVE  Stays(OverflowEnds(r, c), r)
<1> DEFINE inside == r.ends # <<>> /\ Last(r.ends) \in DOMAIN r.buffer
           kept == IF inside THEN SubSeq(r.buffer, 1, Last(r.ends)) ELSE <<>>
           slipped == r.slipped \/ c = NUL
           astray == r.astray \/ (r.ends # <<>> /\ ~inside)
           reports == r.reports + 1
           a == [r EXCEPT !.buffer = kept, !.overflow = FALSE, !.lastIsEol = TRUE,
                          !.reports = reports, !.slipped = slipped, !.astray = astray]
<1>1. r \in RxType /\ r.parsed >= -1
  BY DEF Bounded
<1>2. /\ r.buffer \in Seq(Chars) /\ r.ends \in Seq(Int) /\ Len(r.buffer) \in Nat
      /\ DOMAIN r.buffer = 1 .. Len(r.buffer)
  BY <1>1, FieldsAre
<1>3. a = OverflowEnds(r, c)
  BY DEF OverflowEnds
<1>4. kept \in Seq(Chars) /\ \A i \in 1 .. Len(kept) : i > MaxQueue => kept[i] = BS
  <2>1. CASE inside
    <3> DEFINE n == Last(r.ends)
    <3>1. n \in Nat /\ n <= Len(r.buffer) /\ 1 <= n
      BY <1>2, <2>1
    <3>2. kept = SubSeq(r.buffer, 1, n)
      BY <2>1
    <3> HIDE DEF n
    <3>3. /\ SubSeq(r.buffer, 1, n) \in Seq(Chars)
          /\ Len(SubSeq(r.buffer, 1, n)) = n - 1 + 1
          /\ \A i \in 1 .. n - 1 + 1 : SubSeq(r.buffer, 1, n)[i] = r.buffer[1 + i - 1]
      BY ONLY <1>2, <3>1, PartIs
    <3> HIDE DEF kept
    <3>4. kept \in Seq(Chars) /\ Len(kept) = n
      BY <3>1, <3>2, <3>3
    <3>5. ASSUME NEW i \in 1 .. Len(kept), i > MaxQueue PROVE kept[i] = BS
      <4>1. i \in 1 .. n - 1 + 1 /\ 1 + i - 1 = i /\ i \in DOMAIN r.buffer
        BY <1>2, <3>1, <3>4
      <4>2. kept[i] = r.buffer[i]
        BY <3>2, <3>3, <4>1
      <4> QED BY <3>5, <4>1, <4>2 DEF Bounded
    <3> QED BY <3>4, <3>5
  <2>2. CASE ~inside
    <3>1. kept = <<>>
      BY <2>2
    <3> HIDE DEF kept
    <3>2. kept \in Seq(Chars) /\ Len(kept) = 0
      BY <3>1
    <3> QED BY <3>2
  <2> QED BY <2>1, <2>2
<1>5. slipped \in BOOLEAN /\ astray \in BOOLEAN /\ reports \in Nat
  BY <1>1, FieldsAre
<1>6. MarkersFit(r) => (astray = r.astray)
  <2>1. ASSUME MarkersFit(r), r.ends # <<>> PROVE inside
    <3>1. Len(r.ends) \in DOMAIN r.ends
      BY <1>2, <2>1
    <3> QED BY <2>1, <3>1 DEF MarkersFit, Last
  <2>2. r.astray \in BOOLEAN
    BY <1>1, FieldsAre
  <2> QED BY <2>1, <2>2
<1>7. r.slipped => slipped
  OBVIOUS
<1> HIDE DEF kept, slipped, astray, reports
<1>8. a \in RxType
  BY ONLY <1>1, <1>4, <1>5 DEF RxType
<1>9. a.buffer = kept /\ a.parsed = r.parsed
  BY <1>1 DEF RxType
<1>10. a.slipped = slipped
  BY <1>1 DEF RxType
<1>11. a.astray = astray
  BY <1>1 DEF RxType
<1> HIDE DEF a
<1>12. Bounded(a)
  <2>1. DOMAIN a.buffer = 1 .. Len(kept)
    BY <1>4, <1>9
  <2> QED BY <1>1, <1>4, <1>8, <1>9, <2>1 DEF Bounded
<1> QED BY <1>3, <1>6, <1>7, <1>9, <1>10, <1>11, <1>12 DEF Stays

LEMMA SelfStays ==
  ASSUME NEW r, Bounded(r)
  PROVE  Stays(r, r)
BY DEF Stays

LEMMA BackspaceStays ==
  ASSUME NEW r, Bounded(r)
  PROVE  Stays(Backspaced(r), r)
<1>1. CASE r.lastIsEol \/ r.buffer = <<>>
  <2>1. Backspaced(r) = r
    BY <1>1 DEF Backspaced
  <2> QED BY <2>1, SelfStays
<1>2. CASE ~(r.lastIsEol \/ r.buffer = <<>>)
  <2> DEFINE b == Front(r.buffer)
             slipped == r.slipped \/ AtLineStart(r)
             a == [r EXCEPT !.buffer = b, !.slipped = slipped]
  <2>1. a = Backspaced(r)
    BY <1>2 DEF Backspaced
  <2>2. r \in RxType /\ r.buffer \in Seq(Chars) /\ r.parsed >= -1
    BY FieldsAre DEF Bounded
  <2>3. /\ b \in Seq(Chars) /\ Len(b) = Len(r.buffer) - 1
        /\ \A i \in 1 .. Len(r.buffer) - 1 : b[i] = r.buffer[i]
    BY <1>2, <2>2, FrontIs
  <2>4. slipped \in BOOLEAN /\ (r.slipped => slipped)
    BY <2>2, FieldsAre DEF AtLineStart
  <2> HIDE DEF b, slipped
  <2>5. /\ a \in RxType /\ a.buffer = b /\ a.slipped = slipped
        /\ a.parsed = r.parsed /\ a.astray = r.astray
    <3>1. r \in RxType /\ a = Shortened(r, b, slipped)
      BY <2>2 DEF Shortened
    <3> HIDE DEF a
    <3>2. b \in Seq(Chars)
      BY <2>3
    <3> QED BY ONLY <2>4, <3>1, <3>2, BufferIs
  <2> HIDE DEF a
  <2>6. Len(r.buffer) \in Nat /\ DOMAIN r.buffer = 1 .. Len(r.buffer) /\ DOMAIN b = 1 .. Len(r.buffer) - 1
    BY <2>2, <2>3
  <2>7. ASSUME NEW i \in DOMAIN a.buffer, i > MaxQueue PROVE a.buffer[i] = BS
    <3>1. i \in 1 .. Len(r.buffer) - 1 /\ i \in DOMAIN r.buffer
      BY <2>5, <2>6
    <3>2. r.buffer[i] = BS
      BY <2>7, <3>1 DEF Bounded
    <3> QED BY <2>3, <2>5, <3>1, <3>2
  <2>8. Bounded(a)
    BY <2>2, <2>5, <2>7 DEF Bounded
  <2> QED BY <2>1, <2>4, <2>5, <2>8 DEF Stays
<1> QED BY <1>1, <1>2

LEMMA EndStays ==
  ASSUME NEW r, Bounded(r), NEW c, Room(r, c), ~r.overflow, c # BS
  PROVE  Stays(Ended(r), r)
<1>1. CASE r.lastIsEol
  <2>1. Ended(r) = r
    BY <1>1 DEF Ended
  <2> QED BY <2>1, SelfStays
<1>2. CASE ~r.lastIsEol
  <2> DEFINE b == Append(r.buffer, NUL)
             marker == Len(r.buffer) + 1
             e == Append(r.ends, marker)
             a == [r EXCEPT !.ends = e, !.buffer = b, !.lastIsEol = TRUE]
  <2>1. a = Ended(r)
    BY <1>2 DEF Ended
  <2>2. /\ r \in RxType /\ r.parsed >= -1 /\ r.buffer \in Seq(Chars) /\ r.ends \in Seq(Int)
        /\ Len(r.buffer) \in Nat /\ NUL \in Chars
    BY FieldsAre DEF Bounded, NUL, Chars
  <2>3. b \in Seq(Chars)
    BY <2>2, AppendProperties
  <2>4. e \in Seq(Int)
    <3>1. marker \in Int
      BY <2>2
    <3> HIDE DEF marker
    <3> QED BY <2>2, <3>1, AppendProperties
  <2>5. Fits(r, NUL)
    BY DEF Room, Fits
  <2>6. Grows(a, r, NUL) <=> a.buffer = b
    BY DEF Grows
  <2> HIDE DEF b, e
  <2>7. a \in RxType
    BY ONLY <2>2, <2>3, <2>4 DEF RxType
  <2>8. a.buffer = b /\ a.parsed = r.parsed /\ a.slipped = r.slipped /\ a.astray = r.astray
    BY <2>2 DEF RxType
  <2> HIDE DEF a
  <2>9. \A i \in 1 .. Len(a.buffer) : i > MaxQueue => a.buffer[i] = BS
    BY <2>2, <2>5, <2>6, <2>8, BufferPushed
  <2>10. DOMAIN a.buffer = 1 .. Len(a.buffer)
    BY <2>3, <2>8
  <2>11. Bounded(a)
    BY <2>2, <2>7, <2>8, <2>9, <2>10 DEF Bounded
  <2> QED BY <2>1, <2>8, <2>11 DEF Stays
<1> QED BY <1>1, <1>2

LEMMA StartLoose ==
  ASSUME NEW r, NEW t, Loose(r, t), Room(r, BINARY_START_CHAR)
  PROVE  /\ Loose(BinaryStart(r), AfterStart(t, BINARY_START_CHAR))
         /\ BinaryStart(r).slipped = r.slipped /\ BinaryStart(r).astray = r.astray
<1> DEFINE c == BINARY_START_CHAR
           x == [r EXCEPT !.parsed = 0, !.stored = 0, !.left = 2]
           y == Pushed(x, c)
           a == [y EXCEPT !.lastIsEol = FALSE]
           u == AfterStart(t, c)
<1>1. Bounded(r) /\ r \in RxType /\ t \in TypistType
  BY DEF Loose, Bounded
<1>2. a = BinaryStart(r)
  BY DEF BinaryStart
<1>3. /\ x.buffer = r.buffer /\ x.overflow = r.overflow /\ x.parsed = 0 /\ x.left = 2
      /\ x.slipped = r.slipped /\ x.astray = r.astray
  BY <1>1, SMT DEF RxType
<1>4. x \in RxType
  <2>1. r \in RxType /\ 0 \in Words /\ 2 \in Words /\ 0 \in Int
    BY <1>1, OneWord
  <2> QED BY ONLY <2>1 DEF RxType
<1> HIDE DEF x
<1>5. Bounded(x)
  <2>1. x.parsed >= -1
    BY <1>3
  <2> QED BY <1>1, <1>3, <1>4, <2>1 DEF Bounded
<1>6. Room(x, c) /\ c \in Chars
  BY <1>3 DEF Room, Fits, Chars, BINARY_START_CHAR
<1>7. Bounded(y) /\ SameReader(y, x)
  BY <1>5, <1>6, PushedBounded
<1> HIDE DEF y, c
<1>8. /\ a \in RxType /\ a.buffer = y.buffer /\ a.parsed = 0 /\ a.left = 2
      /\ a.slipped = r.slipped /\ a.astray = r.astray
  BY <1>3, <1>7, EolIs DEF SameReader, Bounded
<1> HIDE DEF a
<1>9. Bounded(a)
  <2>1. a.parsed >= -1
    BY <1>8
  <2> QED BY <1>7, <1>8, <2>1 DEF Bounded
<1>10. u \in TypistType /\ ~u.ended /\ u.phase = "high"
  BY <1>1, <1>6, TextStart
<1> HIDE DEF u
<1>11. Abreast(a, u)
  BY <1>8, <1>10, SMT DEF Abreast
<1>12. Begun(u)
  BY <1>10 DEF Begun
<1> QED BY <1>2, <1>8, <1>9, <1>10, <1>11, <1>12 DEF Loose, u, c

LEMMA StaysLoose ==
  ASSUME NEW r, NEW t, InText(r, t), NEW a, Stays(a, r),
         NEW u \in TypistType, u.phase = t.phase, Begun(u)
  PROVE  Loose(a, u)
<1>1. Abreast(a, u)
  BY StaysInText DEF Stays
<1> QED BY <1>1 DEF Loose, Stays

\* What a key of text does to the typist.
LEMMA TextBegun ==
  ASSUME NEW t \in TypistType, NEW c \in Chars, c # BINARY_START_CHAR, Begun(t),
         t.phase = "text"
  PROVE  TypeText(t, c) \in TypistType /\ TypeText(t, c).phase = t.phase /\ Begun(TypeText(t, c))
<1>1. CASE c \in BACKSPACE_CHARS
  <2> DEFINE u == AfterBackspace(t)
  <2>1. TypeText(t, c) = u
    BY <1>1, TextIs
  <2>2. /\ u \in TypistType /\ u.ended = t.ended /\ u.phase = t.phase
        /\ u.line = IF t.ended \/ t.line = <<>> THEN t.line ELSE Front(t.line)
    BY TextBackspace
  <2> HIDE DEF u
  <2>3. Begun(u)
    BY <2>2 DEF Begun
  <2> QED BY <2>1, <2>2, <2>3
<1>2. CASE c \in INPUT_EOL_CHARS \ BACKSPACE_CHARS
  <2> DEFINE u == AfterEnd(t)
  <2>1. TypeText(t, c) = u
    BY <1>2, TextIs
  <2>2. /\ u \in TypistType
        /\ t.ended => u = t
        /\ ~t.ended => u.line = <<>> /\ u.phase = t.phase /\ u.ended
    BY TextEnd
  <2> HIDE DEF u
  <2>3. CASE t.ended
    BY <2>1, <2>2, <2>3
  <2>4. CASE ~t.ended
    BY <2>1, <2>2, <2>4 DEF Begun
  <2> QED BY <2>3, <2>4
<1>3. CASE c \in Plain
  <2> DEFINE u == AfterPlain(t, c)
  <2>1. TypeText(t, c) = u
    BY <1>3, TextIs
  <2>2. u \in TypistType /\ ~u.ended /\ u.phase = t.phase
    BY TextPlain
  <2> HIDE DEF u
  <2> QED BY <2>1, <2>2 DEF Begun
<1> QED BY <1>1, <1>2, <1>3 DEF Plain

\* Every character leaves the parser where the typist is, and no slip is forgotten.
LEMMA CharLoose ==
  ASSUME NEW r, NEW t, NEW c \in Chars, Loose(r, t)
  PROVE  /\ Loose(AddChar(r, c), Type(t, c)) /\ (r.slipped => AddChar(r, c).slipped)
         /\ MarkersFit(r) => AddChar(r, c).astray = r.astray
<1> DEFINE q == Flagged(r, c)
           a == AddChar(r, c)
<1>1. Bounded(r) /\ t \in TypistType /\ Begun(t) /\ Abreast(r, t)
  BY DEF Loose
<1>2. /\ Bounded(q) /\ Room(q, c) /\ q.buffer = r.buffer /\ q.ends = r.ends
      /\ q.parsed = r.parsed /\ q.stored = r.stored /\ q.left = r.left
      /\ q.slipped = r.slipped /\ q.astray = r.astray
  BY <1>1, FlaggedIs
<1> HIDE DEF q
<1>3. Abreast(q, t)
  BY <1>1, <1>2, AbreastIs, SMT
<1>4. Loose(q, t)
  BY <1>1, <1>2, <1>3 DEF Loose
<1>5. MarkersFit(r) <=> MarkersFit(q)
  BY <1>2 DEF MarkersFit
<1>6. q.parsed \in Int
  BY <1>2, FieldsAre DEF Bounded
<1>7. CASE t.phase # "text"
  <2>1. q.parsed >= 0
    <3>1. t.phase \in {"high", "low", "data"}
      BY <1>1, <1>7, TypistIs
    <3> QED BY <1>1, <1>3, <1>6, <3>1, AbreastIs, SMT
  <2>2. a = BinaryByte(q, c)
    BY <1>6, <2>1, AddCharIs DEF q
  <2>3. Type(t, c) = TypeBinary(t, c)
    BY <1>7 DEF Type
  <2>4. Loose(a, Type(t, c)) /\ a.slipped = q.slipped /\ a.astray = q.astray
    BY <1>2, <1>4, <1>7, <2>2, <2>3, BinaryLoose
  <2> QED BY <1>2, <2>4
<1>8. CASE t.phase = "text" /\ c = BINARY_START_CHAR
  <2>1. InText(q, t) /\ q.parsed < 0
    BY <1>1, <1>3, <1>8 DEF Abreast, InText
  <2>2. a = BinaryStart(q)
    BY <1>6, <1>8, <2>1, AddCharIs DEF q
  <2>3. Type(t, c) = AfterStart(t, c)
    BY <1>8, TextIs DEF Type
  <2>4. Loose(a, Type(t, c)) /\ a.slipped = q.slipped /\ a.astray = q.astray
    BY <1>2, <1>4, <1>8, <2>2, <2>3, StartLoose
  <2> QED BY <1>2, <2>4
<1>9. CASE t.phase = "text" /\ c # BINARY_START_CHAR
  <2>1. InText(q, t) /\ q.parsed < 0
    BY <1>1, <1>3, <1>9 DEF Abreast, InText
  <2>2. Type(t, c) = TypeText(t, c)
    BY <1>9 DEF Type
  <2>3. Stays(a, q)
    <3>1. CASE q.overflow /\ c \in INPUT_EOL_CHARS
      <4>1. a = OverflowEnds(q, c)
        BY <1>6, <1>9, <2>1, <3>1, AddCharIs DEF q
      <4> QED BY <1>2, <4>1, OverflowStays
    <3>2. CASE q.overflow /\ c \notin INPUT_EOL_CHARS
      <4>1. a = Lost(q)
        BY <1>6, <1>9, <2>1, <3>2, AddCharIs DEF q
      <4> QED BY <1>2, <4>1, LostStays
    <3>3. CASE ~q.overflow /\ c \in BACKSPACE_CHARS
      <4>1. a = Backspaced(q)
        BY <1>6, <2>1, <3>3, AddCharIs DEF q
      <4> QED BY <1>2, <4>1, BackspaceStays
    <3>4. CASE ~q.overflow /\ c \in INPUT_EOL_CHARS \ BACKSPACE_CHARS
      <4>1. a = Ended(q)
        BY <1>6, <2>1, <3>4, AddCharIs DEF q
      <4>2. c # BS
        BY <3>4 DEF BACKSPACE_CHARS
      <4> QED BY <1>2, <3>4, <4>1, <4>2, EndStays
    <3>5. CASE ~q.overflow /\ c \in Plain
      <4>1. a = PlainAdded(q, c)
        BY <1>6, <2>1, <3>5, AddCharIs DEF q
      <4> QED BY <1>2, <4>1, PlainStays
    <3> QED BY <1>9, <3>1, <3>2, <3>3, <3>4, <3>5 DEF Plain
  <2> HIDE DEF a
  <2>4. Loose(a, Type(t, c))
    BY <1>1, <1>9, <2>1, <2>2, <2>3, TextBegun, StaysLoose
  <2> QED BY <1>2, <1>5, <2>3, <2>4 DEF Stays, a
<1> QED BY <1>7, <1>8, <1>9

-----------------------------------------------------------------------------
(* The parser follows the typist through every character *)

LEMMA CharFollows ==
  ASSUME NEW done \in Seq(Gone), NEW r, NEW t, NEW c \in Chars, Follows(done, r, t),
         ~AddChar(r, c).slipped
  PROVE  Follows(done, AddChar(r, c), Type(t, c))
<1> DEFINE q == Flagged(r, c)
<1>1. /\ Straight(r) /\ Bounded(r) /\ t \in TypistType
      /\ SameLine(r, t) /\ Begun(t) /\ Abreast(r, t) /\ Tells(done, r, t)
  BY FollowsIs
<1>0. /\ Bounded(q) /\ Room(q, c) /\ q.buffer = r.buffer /\ q.ends = r.ends
      /\ q.lastIsEol = r.lastIsEol /\ q.parsed = r.parsed /\ q.stored = r.stored
      /\ q.left = r.left /\ q.reports = r.reports /\ (r.overflow => q.overflow)
  BY <1>1, FlaggedIs
<1>2. /\ Straight(q) /\ Waiting(q) = Waiting(r) /\ Unended(q) = Unended(r)
  BY <1>0, <1>1, SameContainers DEF Bounded
<1> HIDE DEF q
<1>3. Follows(done, q, t)
  <2>1. SameLine(q, t)
    BY <1>0, <1>1, <1>2 DEF SameLine
  <2>2. Abreast(q, t)
    <3>1. Abreast(r, t) /\ q.parsed = r.parsed /\ q.stored = r.stored /\ q.left = r.left
      BY <1>0, <1>1
    <3> QED BY <1>1, <3>1, AbreastIs, SMT
  <2>3. Tells(done, q, t)
    BY <1>0, <1>1, <1>2, ToldSame
  <2> QED BY <1>1, <1>2, <2>1, <2>2, <2>3, FollowsFrom
<1>4. q.parsed \in Int
  BY <1>0, FieldsAre DEF Bounded
<1>5. CASE t.phase # "text"
  <2>1. q.parsed >= 0
    <3>1. t.phase \in {"high", "low", "data"}
      BY <1>1, <1>5, TypistIs
    <3>2. Abreast(r, t) /\ q.parsed = r.parsed
      BY <1>0, <1>1
    <3> QED BY <1>1, <1>4, <3>1, <3>2, AbreastIs, SMT
  <2>2. AddChar(r, c) = BinaryByte(q, c)
    BY <1>4, <2>1, AddCharIs DEF q
  <2>3. Type(t, c) = TypeBinary(t, c)
    BY <1>5 DEF Type
  <2> QED BY <1>0, <1>3, <1>5, <2>2, <2>3, BinaryFollows
<1>6. CASE t.phase = "text"
  <2>1. InText(q, t) /\ q.parsed < 0
    BY <1>0, <1>1, <1>6 DEF Abreast, InText
  <2>2. Type(t, c) = TypeText(t, c)
    BY <1>6 DEF Type
  <2>3. CASE c = BINARY_START_CHAR
    <3>1. AddChar(r, c) = BinaryStart(q)
      BY <1>4, <2>1, <2>3, AddCharIs DEF q
    <3>2. TypeText(t, c) = AfterStart(t, c)
      BY <2>3, TextIs
    <3> QED BY <1>0, <1>3, <2>2, <2>3, <3>1, <3>2, StartFollows
  <2>4. CASE c # BINARY_START_CHAR /\ q.overflow /\ c \in INPUT_EOL_CHARS
    <3>1. AddChar(r, c) = OverflowEnds(q, c)
      BY <1>4, <2>1, <2>4, AddCharIs DEF q
    <3>2. c \notin BACKSPACE_CHARS
      <4>1. OverflowEnds(q, c).slipped <=> q.slipped \/ c = NUL
        BY <1>0 DEF OverflowEnds, Bounded, RxType
      <4>2. c # NUL
        BY <3>1, <4>1
      <4> QED BY <2>4, <4>2, SMT DEF INPUT_EOL_CHARS, BACKSPACE_CHARS, NUL, BS, DEL
    <3>3. TypeText(t, c) = AfterEnd(t)
      BY <2>4, <3>2, TextIs
    <3> QED BY <1>3, <2>1, <2>2, <2>4, <3>1, <3>3, OverflowFollows
  <2>5. CASE c # BINARY_START_CHAR /\ q.overflow /\ c \notin INPUT_EOL_CHARS
    <3>1. AddChar(r, c) = Lost(q)
      BY <1>4, <2>1, <2>5, AddCharIs DEF q
    <3>2. CASE c \in BACKSPACE_CHARS
      <4> DEFINE u == AfterBackspace(t)
      <4>1. TypeText(t, c) = u
        BY <3>2, TextIs
      <4>2. /\ u \in TypistType /\ u.lines = t.lines /\ u.ended = t.ended /\ u.phase = t.phase
            /\ u.line = IF t.ended \/ t.line = <<>> THEN t.line ELSE Front(t.line)
        BY <1>1, TextBackspace
      <4> HIDE DEF u
      <4>3. u.ended => u.line = <<>>
        BY <1>1, <4>2 DEF Begun
      <4> QED BY <1>3, <2>1, <2>2, <2>5, <3>1, <4>1, <4>2, <4>3, LostFollows
    <3>3. CASE c \notin BACKSPACE_CHARS
      <4> DEFINE u == AfterPlain(t, c)
      <4>1. TypeText(t, c) = u
        BY <2>5, <3>3, TextIs DEF Plain
      <4>2. u \in TypistType /\ u.lines = t.lines /\ ~u.ended /\ u.phase = t.phase
        BY <1>1, TextPlain
      <4> HIDE DEF u
      <4> QED BY <1>3, <2>1, <2>2, <2>5, <3>1, <4>1, <4>2, LostFollows
    <3> QED BY <3>2, <3>3
  <2>6. CASE c # BINARY_START_CHAR /\ ~q.overflow /\ c \in BACKSPACE_CHARS
    <3>1. AddChar(r, c) = Backspaced(q)
      BY <1>4, <2>1, <2>6, AddCharIs DEF q
    <3>2. TypeText(t, c) = AfterBackspace(t)
      BY <2>6, TextIs
    <3> QED BY <1>3, <2>1, <2>2, <2>6, <3>1, <3>2, BackspaceFollows
  <2>7. CASE c # BINARY_START_CHAR /\ ~q.overflow /\ c \in INPUT_EOL_CHARS \ BACKSPACE_CHARS
    <3>1. AddChar(r, c) = Ended(q)
      BY <1>4, <2>1, <2>7, AddCharIs DEF q
    <3>2. TypeText(t, c) = AfterEnd(t)
      BY <2>7, TextIs
    <3>3. c # BS
      BY <2>7 DEF BACKSPACE_CHARS
    <3> QED BY <1>0, <1>3, <2>1, <2>2, <2>7, <3>1, <3>2, <3>3, EndFollows
  <2>8. CASE ~q.overflow /\ c \in Plain
    <3>1. AddChar(r, c) = PlainAdded(q, c)
      BY <1>4, <2>1, <2>8, AddCharIs DEF q
    <3>2. TypeText(t, c) = AfterPlain(t, c)
      BY <2>8, TextIs
    <3> QED BY <1>0, <1>3, <2>1, <2>2, <3>1, <3>2, PlainFollows
  <2> QED BY <2>3, <2>4, <2>5, <2>6, <2>7, <2>8 DEF Plain
<1> QED BY <1>5, <1>6

\* The parser tracks the typist, line by line as long as no key slipped.
LEMMA CharTracks ==
  ASSUME NEW done \in Seq(Gone), NEW r, NEW t, NEW c \in Chars, Tracks(done, r, t)
  PROVE  Tracks(done, AddChar(r, c), Type(t, c))
<1> DEFINE a == AddChar(r, c)
<1>1. Loose(r, t) /\ (~r.slipped => Follows(done, r, t) /\ ~r.astray)
  BY DEF Tracks
<1>2. /\ Loose(a, Type(t, c)) /\ (r.slipped => a.slipped)
      /\ MarkersFit(r) => a.astray = r.astray
  BY <1>1, CharLoose
<1>3. ASSUME ~a.slipped PROVE Follows(done, a, Type(t, c)) /\ ~a.astray
  <2>1. Follows(done, r, t) /\ ~r.astray
    BY <1>1, <1>2, <1>3
  <2>2. MarkersFit(r)
    BY <2>1 DEF Follows, Straight
  <2>3. Follows(done, a, Type(t, c))
    BY <1>3, <2>1, CharFollows
  <2> QED BY <1>2, <2>1, <2>2, <2>3
<1> QED BY <1>2, <1>3 DEF Tracks

-----------------------------------------------------------------------------
(* The characters of a chunk *)

LEMMA PartGrows ==
  ASSUME NEW C, NEW s \in Seq(C), NEW k \in 1 .. Len(s)
  PROVE  /\ SubSeq(s, 1, k - 1) \in Seq(C)
         /\ SubSeq(s, 1, k) = Append(SubSeq(s, 1, k - 1), s[k])
<1>1. Len(s) \in Nat /\ k \in Nat /\ k - 1 \in Nat /\ k <= Len(s) /\ k - 1 <= Len(s)
  OBVIOUS
<1> DEFINE p == SubSeq(s, 1, k - 1)
           q == SubSeq(s, 1, k)
           c == s[k]
           w == Append(p, c)
<1>2. p \in Seq(C) /\ Len(p) = k - 1 /\ \A i \in 1 .. k - 1 : p[i] = s[i]
  <2>1. /\ p \in Seq(C) /\ Len(p) = IF 1 <= k - 1 THEN k - 1 - 1 + 1 ELSE 0
        /\ \A i \in 1 .. k - 1 - 1 + 1 : p[i] = s[1 + i - 1]
    BY <1>1, PartIs
  <2> HIDE DEF p
  <2>2. Len(p) = k - 1 /\ k - 1 - 1 + 1 = k - 1
    BY <1>1, <2>1
  <2>3. ASSUME NEW i \in 1 .. k - 1 PROVE p[i] = s[i]
    <3>1. 1 + i - 1 = i
      BY <1>1
    <3> QED BY <2>1, <2>2, <3>1
  <2> QED BY <2>1, <2>2, <2>3
<1>3. q \in Seq(C) /\ Len(q) = k /\ \A i \in 1 .. k : q[i] = s[i]
  <2>1. /\ q \in Seq(C) /\ Len(q) = IF 1 <= k THEN k - 1 + 1 ELSE 0
        /\ \A i \in 1 .. k - 1 + 1 : q[i] = s[1 + i - 1]
    BY <1>1, PartIs
  <2> HIDE DEF q
  <2>2. Len(q) = k /\ k - 1 + 1 = k
    BY <1>1, <2>1
  <2>3. ASSUME NEW i \in 1 .. k PROVE q[i] = s[i]
    <3>1. 1 + i - 1 = i
      BY <1>1
    <3> QED BY <2>1, <2>2, <3>1
  <2> QED BY <2>1, <2>2, <2>3
<1>4. c \in C
  OBVIOUS
<1> HIDE DEF p, q, c
<1>5. w \in Seq(C) /\ Len(w) = Len(p) + 1 /\ w[Len(p) + 1] = c /\ \A i \in 1 .. Len(p) : w[i] = p[i]
  BY <1>2, <1>4, AppendProperties
<1> HIDE DEF w
<1>6. Len(w) = k /\ w[k] = c
  BY <1>1, <1>2, <1>5
<1>7. ASSUME NEW i \in 1 .. k PROVE w[i] = q[i]
  <2>1. CASE i = k
    BY <1>3, <1>6, <2>1 DEF c
  <2>2. CASE i # k
    <3>1. i \in 1 .. k - 1
      BY <1>1, <2>2
    <3> QED BY <1>2, <1>3, <1>5, <3>1
  <2> QED BY <2>1, <2>2
<1>8. w = q
  BY <1>3, <1>5, <1>6, <1>7, SeqEqual
<1> QED BY <1>2, <1>8 DEF w, p, q, c

LEMMA JoinedGrows ==
  ASSUME NEW C, NEW s \in Seq(C), NEW t \in Seq(C), NEW c \in C
  PROVE  Joined(s, Append(t, c)) = Append(Joined(s, t), c)
BY DEF Joined

LEMMA AllTracked ==
  ASSUME NEW done \in Seq(Gone), NEW before \in Seq(Chars), NEW chars \in Seq(Chars), NEW r,
         Tracks(done, r, Typed(before))
  PROVE  Tracks(done, addChars(r, chars), Typed(Joined(before, chars)))
<1> DEFINE n == Len(chars)
           part(k) == SubSeq(chars, 1, k)
           P(k) == Tracks(done, addChars(r, part(k)), Typed(Joined(before, part(k))))
<1>1. n \in Nat /\ DOMAIN chars = 1 .. n
  OBVIOUS
<1>2. part(0) = <<>> /\ part(n) = chars
  <2>1. part(0) = <<>>
    OBVIOUS
  <2>2. part(n) = chars
    OBVIOUS
  <2> QED BY <2>1, <2>2
<1>3. P(0)
  <2>1. addChars(r, <<>>) = r
    BY AddNothing
  <2>2. Joined(before, <<>>) = before
    BY DEF Joined
  <2> HIDE DEF part
  <2> QED BY <1>2, <2>1, <2>2
<1>4. ASSUME NEW k \in 1 .. n, P(k - 1) PROVE P(k)
  <2> DEFINE c == chars[k]
             p == part(k - 1)
  <2>1. p \in Seq(Chars) /\ part(k) = Append(p, c) /\ c \in Chars
    BY PartGrows
  <2>3. Tracks(done, addChars(r, p), Typed(Joined(before, p)))
    BY <1>4
  <2> HIDE DEF part, p, c
  <2>5. addChars(r, Append(p, c)) = AddChar(addChars(r, p), c)
    BY <2>1, AddAppend
  <2>6. Joined(before, p) \in Seq(Chars)
    BY <2>1, JoinedIn
  <2>7. Joined(before, Append(p, c)) = Append(Joined(before, p), c)
    BY <2>1, JoinedGrows
  <2>8. Typed(Append(Joined(before, p), c)) = Type(Typed(Joined(before, p)), c)
    BY <2>1, <2>6, TypedAppend
  <2>9. Tracks(done, AddChar(addChars(r, p), c), Type(Typed(Joined(before, p)), c))
    BY <2>1, <2>3, CharTracks
  <2>10. /\ addChars(r, part(k)) = AddChar(addChars(r, p), c)
         /\ Typed(Joined(before, part(k))) = Type(Typed(Joined(before, p)), c)
    BY ONLY <2>1, <2>5, <2>7, <2>8, Zenon
  <2> QED BY <2>9, <2>10
<1> HIDE DEF P, n
<1>5. P(n)
  <2> DEFINE T == {k \in Nat : k <= n /\ ~P(k)}
  <2> SUFFICES ASSUME T # {} PROVE FALSE
    BY <1>1
  <2>1. PICK k \in T : \A i \in T : k <= i
    <3>1. T \in SUBSET Nat
      OBVIOUS
    <3> HIDE DEF T
    <3> QED BY <3>1, LeastNumber
  <2>2. k # 0
    BY <1>3, <2>1
  <2>3. k - 1 \in Nat /\ k - 1 <= n /\ k \in 1 .. n /\ P(k - 1)
    BY <1>1, <2>1, <2>2
  <2> QED BY <1>4, <2>1, <2>3
<1>6. part(n) = chars
  BY <1>2
<1> HIDE DEF part
<1> QED BY <1>5, <1>6 DEF P

-----------------------------------------------------------------------------
(* A command is taken out *)

LEMMA OneTaken ==
  ASSUME NEW S, NEW done \in Seq(S), NEW u \in Seq(S), NEW x \in S
  PROVE  Joined(done, WithCommand(<<>>, x) \o u) = Joined(WithCommand(done, x), u)
<1>1. CASE x = <<>>
  <2>1. WithCommand(<<>>, x) = <<>> /\ WithCommand(done, x) = done
    BY <1>1 DEF WithCommand
  <2>2. <<>> \o u = u
    OBVIOUS
  <2> QED BY ONLY <2>1, <2>2, Zenon
<1>2. CASE x # <<>>
  <2>1. WithCommand(<<>>, x) = Append(<<>>, x) /\ WithCommand(done, x) = Append(done, x)
    BY <1>2 DEF WithCommand
  <2>2. Joined(done, Append(<<>>, x) \o u) = Joined(Append(done, x), u)
    BY DEF Joined
  <2> QED BY ONLY <2>1, <2>2, Zenon
<1> QED BY <1>1, <1>2

LEMMA TakenFollows ==
  ASSUME NEW done \in Seq(Gone), NEW r, NEW t, Follows(done, r, t), r.ends # <<>>
  PROVE  /\ WithCommand(done, FirstCommand(r)) \in Seq(Gone)
         /\ Follows(WithCommand(done, FirstCommand(r)), Erased(r), t)
<1> DEFINE x == FirstCommand(r)
           v == Erased(r)
           w == Waiting(r)
           u == Commands(Tail(w))
<1>1. /\ Straight(r) /\ t \in TypistType /\ SameLine(r, t) /\ Begun(t) /\ Abreast(r, t)
      /\ Tells(done, r, t)
  BY FollowsIs
<1>2. /\ Straight(v) /\ SameReader(v, r) /\ Waiting(v) = Tail(w) /\ Unended(v) = Unended(r)
  BY <1>1, ErasedIs
<1>3. /\ w \in Seq(Seq(Chars)) /\ w # <<>> /\ w[1] = SubSeq(r.buffer, 1, Head(r.ends) - 1)
  <2>1. w \in Seq(Seq(Chars)) /\ Len(w) = Len(r.ends) /\ \A i \in 1 .. Len(r.ends) : w[i] = Line(r, i)
    BY <1>1, WaitingIs
  <2>2. r.ends \in Seq(Nat \ {0})
    BY <1>1, MarkersAre
  <2>3. 1 \in 1 .. Len(r.ends) /\ Head(r.ends) = r.ends[1]
    BY <2>2
  <2>4. Line(r, 1) = SubSeq(r.buffer, 1, r.ends[1] - 1)
    BY DEF Line, Begin
  <2>5. w[1] = SubSeq(r.buffer, 1, Head(r.ends) - 1)
    BY ONLY <2>1, <2>3, <2>4, Zenon
  <2>6. w # <<>>
    <3>1. Len(w) = Len(r.ends) /\ r.ends \in Seq(Nat \ {0}) /\ r.ends # <<>>
      BY <2>1, <2>2
    <3> HIDE DEF w
    <3> QED BY ONLY <3>1
  <2> QED BY <2>1, <2>5, <2>6
<1> HIDE DEF v, w
<1>4. Commands(w) = WithCommand(<<>>, x) \o u /\ Tail(w) \in Seq(Seq(Chars))
  <2>1. Stripped(w[1]) = x
    BY <1>3 DEF FirstCommand
  <2>2. Commands(w) = WithCommand(<<>>, Stripped(w[1])) \o u
    BY <1>3, CommandsTail
  <2>3. Tail(w) \in Seq(Seq(Chars))
    BY <1>3
  <2> QED BY ONLY <2>1, <2>2, <2>3, Zenon
<1>5. x \in Gone /\ u \in Seq(Gone)
  <2>1. w[1] \in Seq(Chars)
    <3>1. w \in Seq(Seq(Chars)) /\ w # <<>>
      BY <1>3
    <3> QED BY ONLY <3>1
  <2>2. x = Stripped(w[1])
    BY <1>3 DEF FirstCommand
  <2>3. x \in Gone
    BY <2>1, <2>2 DEF Gone, StrippedOf
  <2>4. u \in Seq(Gone)
    BY <1>4, CommandsIn DEF Gone
  <2> QED BY <2>3, <2>4
<1> HIDE DEF x, u
<1>6. WithCommand(done, x) \in Seq(Gone)
  BY <1>5, WithCommandIs
<1>7. Joined(done, Commands(w)) = Joined(WithCommand(done, x), Commands(Waiting(v)))
  <2>1. Joined(done, WithCommand(<<>>, x) \o u) = Joined(WithCommand(done, x), u)
    BY <1>5, OneTaken
  <2>2. Commands(Waiting(v)) = u
    BY <1>2 DEF u
  <2> QED BY ONLY <1>4, <2>1, <2>2, Zenon
<1>8. Tells(WithCommand(done, x), v, t)
  <2>1. /\ InOrderOf(Joined(done, Commands(w)), Commands(t.lines))
        /\ Len(Commands(t.lines)) - Len(Joined(done, Commands(w))) <= r.reports
    BY <1>1, ToldWith DEF w
  <2>2. v.reports = r.reports
    BY <1>2 DEF SameReader
  <2> QED BY <1>7, <2>1, <2>2, WithTold
<1>9. SameLine(v, t)
  BY <1>1, <1>2 DEF SameLine, SameReader
<1>10. Abreast(v, t)
  <2>1. v.parsed = r.parsed /\ v.stored = r.stored /\ v.left = r.left
    BY <1>2 DEF SameReader
  <2> QED BY ONLY <1>1, <2>1, AbreastIs, SMT
<1> QED BY <1>1, <1>2, <1>6, <1>8, <1>9, <1>10, FollowsFrom DEF x, v

\* It is a command, and what is left keeps its bound, whatever its marker points to.
LEMMA TakenBounded ==
  ASSUME NEW r, Bounded(r), Sound(r)
  PROVE  /\ FirstCommand(r) \in Gone /\ Bounded(Erased(r)) /\ SameReader(Erased(r), r)
<1> DEFINE pos == Head(r.ends)
           L == Len(r.buffer)
           b == SubSeq(r.buffer, pos + 1, L)
           e == [i \in 1 .. Len(r.ends) - 1 |-> r.ends[i + 1] - pos]
           v == [r EXCEPT !.buffer = b, !.ends = e]
<1>1. /\ r \in RxType /\ r.parsed >= -1 /\ r.buffer \in Seq(Chars) /\ r.ends \in Seq(Int)
      /\ DOMAIN r.buffer = 1 .. L /\ L \in Nat
  BY FieldsAre DEF Bounded
<1>2. v = Erased(r)
  BY DEF Erased
<1>3. pos \in Nat \ {0} /\ pos <= L /\ r.ends # <<>>
  BY <1>1 DEF Sound
<1>4. FirstCommand(r) \in Gone
  <2>1. pos - 1 \in Nat /\ pos - 1 <= L /\ 1 \in Nat \ {0}
    BY <1>1, <1>3
  <2> HIDE DEF pos
  <2>2. SubSeq(r.buffer, 1, pos - 1) \in Seq(Chars)
    BY ONLY <1>1, <2>1, PartIs
  <2> QED BY <2>2 DEF FirstCommand, Gone, StrippedOf, pos
<1>5. e \in Seq(Int)
  <2>1. Len(r.ends) - 1 \in Nat /\ pos \in Int
    BY <1>1, <1>3
  <2>2. \A i \in 1 .. Len(r.ends) - 1 : r.ends[i + 1] \in Int
    BY <1>1
  <2> HIDE DEF pos
  <2>3. \A i \in 1 .. Len(r.ends) - 1 : r.ends[i + 1] - pos \in Int
    BY <2>1, <2>2
  <2>4. e \in [1 .. Len(r.ends) - 1 -> Int]
    BY ONLY <2>3, Zenon
  <2> HIDE DEF e
  <2> QED BY <2>1, <2>4
<1> HIDE DEF pos, L
<1>6. /\ b \in Seq(Chars) /\ Len(b) = L - pos /\ \A i \in 1 .. L - pos : b[i] = r.buffer[pos + i]
  <2>1. /\ pos + 1 \in Nat \ {0} /\ L - (pos + 1) + 1 = L - pos /\ (pos + 1 <= L \/ L - pos = 0)
        /\ L <= Len(r.buffer)
    BY <1>1, <1>3 DEF L
  <2>2. /\ SubSeq(r.buffer, pos + 1, L) \in Seq(Chars)
        /\ Len(SubSeq(r.buffer, pos + 1, L)) = IF pos + 1 <= L THEN L - (pos + 1) + 1 ELSE 0
        /\ \A i \in 1 .. L - (pos + 1) + 1 :
             SubSeq(r.buffer, pos + 1, L)[i] = r.buffer[pos + 1 + i - 1]
    BY ONLY <1>1, <2>1, PartIs
  <2> HIDE DEF b
  <2>3. /\ b \in Seq(Chars) /\ Len(b) = IF pos + 1 <= L THEN L - (pos + 1) + 1 ELSE 0
        /\ \A i \in 1 .. L - (pos + 1) + 1 : b[i] = r.buffer[pos + 1 + i - 1]
    BY ONLY <2>2 DEF b
  <2>4. ASSUME NEW i \in 1 .. L - pos PROVE b[i] = r.buffer[pos + i]
    <3>1. pos + 1 + i - 1 = pos + i
      BY <1>3
    <3> QED BY <2>1, <2>3, <3>1
  <2> QED BY <1>1, <1>3, <2>1, <2>3, <2>4
<1> HIDE DEF b, e
<1>7. v \in RxType
  BY ONLY <1>1, <1>5, <1>6 DEF RxType
<1>8. v.buffer = b
  BY <1>1 DEF RxType
<1>9. SameReader(v, r)
  BY <1>1 DEF RxType, SameReader
<1> HIDE DEF v
<1>10. ASSUME NEW i \in DOMAIN v.buffer, i > MaxQueue PROVE v.buffer[i] = BS
  <2>1. i \in 1 .. L - pos
    BY <1>6, <1>8
  <2>2. pos + i \in DOMAIN r.buffer /\ pos + i > MaxQueue
    BY <1>1, <1>3, <1>10, <2>1, SerialAssumption
  <2>3. r.buffer[pos + i] = BS
    BY <2>2 DEF Bounded
  <2> QED BY <1>6, <1>8, <2>1, <2>3
<1>11. Bounded(v)
  BY <1>1, <1>7, <1>9, <1>10 DEF Bounded, SameReader
<1> QED BY <1>2, <1>4, <1>9, <1>11

LEMMA TakenTracks ==
  ASSUME NEW done \in Seq(Gone), NEW r, NEW t, Tracks(done, r, t), Sound(r)
  PROVE  /\ WithCommand(done, FirstCommand(r)) \in Seq(Gone)
         /\ Tracks(WithCommand(done, FirstCommand(r)), Erased(r), t)
<1> DEFINE v == Erased(r)
<1>1. Loose(r, t) /\ (~r.slipped => Follows(done, r, t) /\ ~r.astray)
  BY DEF Tracks
<1>2. FirstCommand(r) \in Gone /\ Bounded(v) /\ SameReader(v, r)
  BY <1>1, TakenBounded DEF Loose
<1>3. WithCommand(done, FirstCommand(r)) \in Seq(Gone)
  BY <1>2, WithCommandIs
<1> HIDE DEF v
<1>4. Loose(v, t)
  <2>1. v.parsed = r.parsed /\ v.stored = r.stored /\ v.left = r.left
    BY <1>2 DEF SameReader
  <2>2. t \in TypistType /\ Begun(t) /\ Abreast(r, t)
    BY <1>1 DEF Loose
  <2>3. Abreast(v, t)
    BY ONLY <2>1, <2>2, AbreastIs, SMT
  <2> QED BY <1>2, <2>2, <2>3 DEF Loose
<1>5. ~v.slipped => Follows(WithCommand(done, FirstCommand(r)), v, t) /\ ~v.astray
  BY <1>1, <1>2, TakenFollows DEF SameReader, Sound, v
<1> QED BY <1>3, <1>4, <1>5 DEF Tracks, v

LEMMA NothingTracks == Tracks(<<>>, EmptyRx, Typed(<<>>)) /\ ~EmptyRx.astray
<1> DEFINE r == EmptyRx
<1>1. /\ r.buffer = <<>> /\ r.ends = <<>> /\ r.lastIsEol = FALSE /\ r.overflow = FALSE
      /\ r.parsed = -1 /\ r.stored = 0 /\ r.left = 0 /\ r.reports = 0
      /\ r.slipped = FALSE /\ r.astray = FALSE
  BY DEF EmptyRx
<1>2. r \in RxType
  BY OneWord DEF EmptyRx, RxType
<1>3. /\ Typist.lines = <<>> /\ Typist.line = <<>> /\ Typist.ended = FALSE
      /\ Typist.phase = "text" /\ Typist \in TypistType
  BY DEF Typist, TypistType
<1> HIDE DEF r
<1>4. Straight(r)
  BY <1>1, <1>2 DEF Straight, Bounded, MarkersFit
<1>5. Unended(r) = <<>>
  <2>1. LastEnd(r) = 0
    BY <1>1 DEF LastEnd
  <2> QED BY <1>1, <2>1 DEF Unended
<1>6. SameLine(r, Typist) /\ Begun(Typist)
  BY <1>1, <1>3, <1>5 DEF SameLine, Begun
<1>7. Abreast(r, Typist)
  BY ONLY <1>1, <1>3, AbreastIs, SMT
<1>8. Tells(<<>>, r, Typist)
  <2>1. Waiting(r) = <<>>
    BY <1>1 DEF Waiting
  <2>2. Joined(<<>>, Commands(Waiting(r))) = <<>> /\ Commands(Typist.lines) = <<>>
    BY <1>3, <2>1, CommandsOfNone DEF Joined
  <2>3. Len(<<>>) - Len(<<>>) <= r.reports
    BY <1>1
  <2> QED BY <2>2, <2>3, InOrderNothing, WithTold
<1>9. Follows(<<>>, r, Typist)
  BY <1>3, <1>4, <1>6, <1>7, <1>8, FollowsFrom
<1> QED BY <1>1, <1>9, TypedNothing DEF Tracks, Follows, r

-----------------------------------------------------------------------------
(* Steps *)

LEMMA RxFitsIs ==
  ASSUME NEW r
  PROVE  RxFits(r) <=> Bounded(r) /\ (~r.slipped => MarkersFit(r) /\ ~r.astray)
BY DEF RxFits, Bounded

LEMMA AgreesIs ==
  ASSUME NEW r, NEW t
  PROVE  Agrees(r, t) <=> (~r.slipped => SameLine(r, t)) /\ Begun(t) /\ Abreast(r, t)
<1>1. (~r.overflow /\ ~r.slipped => Unended(r) = t.line /\ r.lastIsEol = t.ended)
        <=> (~r.slipped => SameLine(r, t))
  BY DEF SameLine
<1>2. Begun(t) <=> (t.ended => t.line = <<>> /\ t.phase = "text")
  BY DEF Begun
<1>3. Agrees(r, t) <=>
        /\ ~r.overflow /\ ~r.slipped => Unended(r) = t.line /\ r.lastIsEol = t.ended
        /\ t.ended => t.line = <<>> /\ t.phase = "text"
        /\ Abreast(r, t)
  BY DEF Agrees, Abreast
<1> QED BY <1>1, <1>2, <1>3

LEMMA ToldIs ==
  ASSUME NEW done, NEW r, NEW t
  PROVE  Told(done, r, t) <=> (~r.slipped => Tells(done, r, t))
BY DEF Told, Tells

LEMMA DataIs ==
  SerialData <=>
    /\ typed \in Seq(Chars) /\ submitted \in Seq(Gone)
    /\ Tracks(submitted, rx, Typed(typed))
<1> DEFINE t == Typed(typed)
<1>1. SerialData <=>
        /\ RxFits(rx) /\ typed \in Seq(Chars) /\ submitted \in Seq(Gone)
        /\ t \in TypistType /\ Agrees(rx, t) /\ Told(submitted, rx, t)
  BY DEF SerialData, Gone
<1> HIDE DEF t
<1>2. Tracks(submitted, rx, t) <=>
        RxFits(rx) /\ t \in TypistType /\ Agrees(rx, t) /\ Told(submitted, rx, t)
  BY RxFitsIs, AgreesIs, ToldIs DEF Tracks, Follows, Loose, Straight
<1> QED BY <1>1, <1>2 DEF t

\* The same of the next state.
LEMMA DataNow ==
  ASSUME typed' \in Seq(Chars), submitted' \in Seq(Gone), Tracks(submitted', rx', Typed(typed'))
  PROVE  SerialData'
<1> DEFINE t == Typed(typed')
<1>1. RxFits(rx') /\ t \in TypistType /\ Agrees(rx', t) /\ Told(submitted', rx', t)
  <2> HIDE DEF t
  <2>1. Tracks(submitted', rx', t)
    BY DEF t
  <2> QED BY <2>1, RxFitsIs, AgreesIs, ToldIs DEF Tracks, Follows, Loose, Straight
<1> QED BY <1>1 DEF SerialData, Gone

LEMMA DataSame ==
  ASSUME SerialData, rx' = rx, typed' = typed, submitted' = submitted
  PROVE  SerialData'
<1>1. Typed(typed)' = Typed(typed)
  BY DEF Typed
<1> QED BY <1>1 DEF SerialData

LEMMA DataReset ==
  ASSUME Reset
  PROVE  SerialData' /\ ~rx'.astray
<1>1. rx' = EmptyRx /\ typed' = <<>> /\ submitted' = <<>>
  BY DEF Reset
<1>2. <<>> \in Seq(Chars) /\ <<>> \in Seq(Gone)
  OBVIOUS
<1>3. Tracks(submitted', rx', Typed(typed'))
  BY <1>1, NothingTracks
<1>4. ~rx'.astray
  BY <1>1, NothingTracks
<1> QED BY <1>1, <1>2, <1>3, <1>4, DataNow

LEMMA DataAdd ==
  ASSUME SerialInv, ~corrupt, Add
  PROVE  SerialData' /\ rx'.astray \in BOOLEAN
<1>1. rx' = addChars(rx, chunk) /\ typed' = Joined(typed, chunk) /\ submitted' = submitted
  BY DEF Add, Joined
<1>2. /\ typed \in Seq(Chars) /\ submitted \in Seq(Gone) /\ chunk \in Seq(Chars)
      /\ Tracks(submitted, rx, Typed(typed))
  BY DataIs DEF SerialInv
<1>3. Tracks(submitted, addChars(rx, chunk), Typed(Joined(typed, chunk)))
  BY ONLY <1>2, AllTracked
<1>4. Joined(typed, chunk) \in Seq(Chars)
  BY <1>2, JoinedIn
<1>5. /\ typed' \in Seq(Chars) /\ submitted' \in Seq(Gone)
      /\ Tracks(submitted', rx', Typed(typed'))
  BY ONLY <1>1, <1>2, <1>3, <1>4, Zenon
<1>6. rx'.astray \in BOOLEAN
  BY <1>5, FieldsAre DEF Tracks, Loose, Bounded
<1> QED BY <1>5, <1>6, DataNow

LEMMA DataHandled ==
  ASSUME SerialInv, Handled
  PROVE  SerialData' /\ rx'.astray = rx.astray
<1>1. /\ rx' = Erased(rx) /\ submitted' = WithCommand(submitted, FirstCommand(rx))
      /\ typed' = typed
  BY DEF Handled
<1>2. /\ typed \in Seq(Chars) /\ submitted \in Seq(Gone)
      /\ Tracks(submitted, rx, Typed(typed))
  BY DataIs DEF SerialInv
<1>3. Sound(rx)
  BY DEF Handled, Step, At, SerialInv, Holding
<1>4. /\ WithCommand(submitted, FirstCommand(rx)) \in Seq(Gone)
      /\ Tracks(WithCommand(submitted, FirstCommand(rx)), Erased(rx), Typed(typed))
  BY <1>2, <1>3, TakenTracks
<1>5. /\ typed' \in Seq(Chars) /\ submitted' \in Seq(Gone)
      /\ Tracks(submitted', rx', Typed(typed'))
  BY ONLY <1>1, <1>2, <1>4, Zenon
<1>6. rx'.astray = rx.astray
  BY <1>1, <1>2, <1>3, TakenBounded DEF Tracks, Loose, SameReader
<1> QED BY <1>5, <1>6, DataNow

-----------------------------------------------------------------------------
(* The actions *)

LEMMA PcStep ==
  ASSUME pc \in [Cores -> Places], NEW c \in Cores, NEW place, Goes(c, place)
  PROVE  pc'[c] = place /\ \A d \in Cores : d # c => pc'[d] = pc[d]
BY DEF Goes

Printing == {"handle", "printing"}
Reporting == {"report", "reporting"}
Adding == {"echo", "echoing", "resetting", "add"}

LEMMA HoldingIs ==
  Holding <=>
    /\ pc[Core1] \in Printing => parserMutex = Core1 /\ Sound(rx)
    /\ pc[Core0] \in Reporting => parserMutex = Core0
    /\ pc[Core0] \in Adding \/ chunk = <<>>
    /\ ~rx.astray
BY DEF Holding, Printing, Reporting, Adding

LEMMA HoldingNow ==
  ASSUME pc'[Core1] \in Printing => parserMutex' = Core1 /\ Sound(rx'),
         pc'[Core0] \in Reporting => parserMutex' = Core0,
         pc'[Core0] \in Adding \/ chunk' = <<>>,
         ~rx'.astray
  PROVE  Holding'
BY DEF Holding, Printing, Reporting, Adding, Sound

\* A core which goes on with what it did.
LEMMA HoldingSame ==
  ASSUME Holding, rx' = rx, parserMutex' = parserMutex, chunk' = chunk,
         pc'[Core1] \in Printing => pc[Core1] \in Printing,
         pc'[Core0] \in Reporting => pc[Core0] \in Reporting,
         pc[Core0] \in Adding => pc'[Core0] \in Adding
  PROVE  Holding'
BY HoldingIs, HoldingNow

LEMMA ChunkSame ==
  ASSUME chunk \in Seq(Chars), Len(chunk) <= ChunkSize, chunk' = chunk
  PROVE  chunk' \in Seq(Chars) /\ Len(chunk') <= ChunkSize
OBVIOUS

LEMMA ChunkGone ==
  ASSUME chunk' = <<>>
  PROVE  chunk' \in Seq(Chars) /\ Len(chunk') <= ChunkSize
BY SerialAssumption

\* What the actions of the stream leave of the mutexes.
LEMMA MutexesKeep ==
  ASSUME SerialInv, SerialStep \/ Handled
  PROVE  /\ parserMutex' \in Owners /\ stdioMutex' \in Owners /\ corrupt' \in BOOLEAN
<1>1. parserMutex \in Owners /\ stdioMutex \in Owners /\ corrupt \in BOOLEAN
  BY DEF SerialInv
<1>2. Core0 \in Owners /\ Core1 \in Owners /\ Unowned \in Owners
  BY CoresType DEF Owners
<1>3. CASE Read \/ EchoBegins \/ EchoEnds
  BY <1>1, <1>2, <1>3 DEF Read, EchoBegins, EchoEnds
<1>4. CASE Add
  <2>1. /\ parserMutex' = Core0 \/ UNCHANGED parserMutex
        /\ UNCHANGED stdioMutex /\ corrupt' = rx'.astray
    BY <1>4 DEF Add
  <2>2. ~corrupt
    BY <1>4 DEF SerialStep, Handled
  <2> QED BY <1>1, <1>2, <1>4, <2>1, <2>2, DataAdd
<1>5. CASE ReportBegins \/ ReportEnds \/ SeesCommand \/ HandlerPrints \/ Handled
  BY <1>1, <1>2, <1>5 DEF ReportBegins, ReportEnds, SeesCommand, HandlerPrints, Handled, serialVars
<1>6. CASE Take
  <2>1. /\ parserMutex' = Core1 \/ UNCHANGED parserMutex
        /\ UNCHANGED stdioMutex /\ corrupt' = Outside(rx)
    BY <1>6 DEF Take
  <2>2. corrupt' \in BOOLEAN
    BY <2>1 DEF Outside
  <2> QED BY <1>1, <1>2, <2>1, <2>2
<1>7. CASE ResetRequest \/ NestedRequest \/ NestedReset \/ ResetUnderHandler
  BY <1>1, <1>2, <1>7 DEF ResetRequest, NestedRequest, NestedReset, ResetUnderHandler, serialVars
<1> QED BY <1>3, <1>4, <1>5, <1>6, <1>7 DEF SerialStep, SerialCore0, SerialCore1

LEMMA ReadKeeps ==
  ASSUME SerialInv, WebInv, ~corrupt, Read
  PROVE  SerialInv'
<1>1. PICK n \in 1 .. ChunkSize : \E chars \in [1 .. n -> environment.alphabet] : chunk' = chars
  BY DEF Read
<1>2. PICK chars \in [1 .. n -> environment.alphabet] : chunk' = chars
  BY <1>1
<1>3. environment.alphabet \subseteq Chars
  BY AlphabetAssumption DEF WebInv
<1>4. chars \in Seq(Chars) /\ Len(chars) = n /\ n <= ChunkSize
  <2>1. n \in Nat /\ n <= ChunkSize
    BY SerialAssumption
  <2>2. chars \in [1 .. n -> Chars]
    BY <1>3
  <2> QED BY <2>1, <2>2
<1>5. /\ UNCHANGED <<rx, parserMutex, typed, submitted>>
      /\ pc[Core0] = "idle" /\ Goes(Core0, IF environment.echo THEN "echo" ELSE "add")
  BY DEF Read, Idle
<1>6. SerialData'
  BY <1>5, DataSame DEF SerialInv
<1>7. /\ pc'[Core0] \in {"echo", "add"} /\ pc'[Core1] = pc[Core1]
  BY <1>5, PcStep, CoresType DEF WebInv
<1>8. Holding'
  <2>1. pc'[Core0] \in Adding /\ pc'[Core0] \notin Reporting
    BY <1>7 DEF Adding, Reporting
  <2> QED BY <1>5, <1>7, <2>1, HoldingIs, HoldingNow DEF SerialInv
<1> QED BY <1>2, <1>4, <1>6, <1>8, MutexesKeep DEF SerialInv, SerialStep

\* Steps of the output and of core 1 before a command is handled.
LEMMA OutputKeeps ==
  ASSUME SerialInv, WebInv, ~corrupt,
         EchoBegins \/ EchoEnds \/ ReportBegins \/ SeesCommand \/ HandlerPrints \/ NestedRequest
  PROVE  SerialInv'
<1>1. /\ UNCHANGED <<rx, parserMutex, typed, submitted, chunk>>
      /\ pc \in [Cores -> Places]
  BY DEF EchoBegins, EchoEnds, ReportBegins, SeesCommand, HandlerPrints, NestedRequest, serialVars,
         WebInv
<1>2. SerialData'
  BY <1>1, DataSame DEF SerialInv
<1>3. Holding
  BY DEF SerialInv
<1>4. CASE EchoBegins \/ EchoEnds
  <2>1. pc[Core0] \in Adding /\ pc'[Core0] \in Adding /\ pc'[Core1] = pc[Core1]
    BY <1>1, <1>4, PcStep, CoresType DEF EchoBegins, EchoEnds, Step, At, Adding
  <2>2. pc'[Core0] \notin Reporting
    BY <2>1 DEF Adding, Reporting
  <2> QED BY <1>1, <1>3, <1>4, <2>1, <2>2, HoldingSame, <1>2, MutexesKeep, ChunkSame
          DEF SerialInv, SerialStep, SerialCore0
<1>5. CASE ReportBegins
  <2>1. pc[Core0] = "report" /\ pc'[Core0] = "reporting" /\ pc'[Core1] = pc[Core1]
    BY <1>1, <1>5, PcStep, CoresType DEF ReportBegins, Step, At
  <2>2. pc[Core0] \in Reporting /\ pc[Core0] \notin Adding
    BY <2>1 DEF Adding, Reporting
  <2> QED BY <1>1, <1>3, <1>5, <2>1, <2>2, HoldingSame, <1>2, MutexesKeep, ChunkSame
          DEF SerialInv, SerialStep, SerialCore0
<1>6. CASE SeesCommand
  <2>1. pc'[Core1] = "take" /\ pc'[Core0] = pc[Core0]
    BY <1>1, <1>6, PcStep, CoresType DEF SeesCommand, Step, At
  <2>2. pc'[Core1] \notin Printing
    BY <2>1 DEF Printing
  <2> QED BY <1>1, <1>3, <1>6, <2>1, <2>2, HoldingIs, HoldingSame, <1>2, MutexesKeep, ChunkSame
          DEF SerialInv, SerialStep, SerialCore1
<1>7. CASE HandlerPrints
  <2>1. pc[Core1] = "handle" /\ pc'[Core0] = pc[Core0]
    BY <1>1, <1>7, PcStep, CoresType DEF HandlerPrints, Step, At
  <2>2. pc[Core1] \in Printing
    BY <2>1 DEF Printing
  <2> QED BY <1>1, <1>3, <1>7, <2>1, <2>2, HoldingIs, HoldingSame, <1>2, MutexesKeep, ChunkSame
          DEF SerialInv, SerialStep, SerialCore1
<1>8. CASE NestedRequest
  <2>1. pc'[Core0] = "resetting" /\ pc'[Core1] = pc[Core1]
    BY <1>1, <1>8, PcStep, CoresType DEF NestedRequest, Step, At
  <2>2. pc'[Core0] \in Adding /\ pc'[Core0] \notin Reporting
    BY <2>1 DEF Adding, Reporting
  <2> QED BY <1>1, <1>3, <1>8, <2>1, <2>2, HoldingSame, <1>2, MutexesKeep, ChunkSame
          DEF SerialInv, SerialStep
<1> QED BY <1>4, <1>5, <1>6, <1>7, <1>8

LEMMA AddKeeps ==
  ASSUME SerialInv, WebInv, ~corrupt, Add
  PROVE  SerialInv'
<1>1. /\ pc[Core0] = "add" /\ MayEnter(parserMutex, Core0) /\ chunk' = <<>>
      /\ \/ parserMutex' = Core0 /\ Goes(Core0, "report")
         \/ parserMutex' = parserMutex /\ Goes(Core0, "idle")
  BY DEF Add, At
<1>2. SerialData'
  BY DataAdd
<1>3. /\ pc'[Core1] = pc[Core1]
      /\ \/ parserMutex' = Core0 /\ pc'[Core0] = "report"
         \/ pc'[Core0] = "idle"
  BY <1>1, PcStep, CoresType DEF WebInv
<1>4. pc[Core1] \notin Printing
  <2>1. parserMutex # Core1
    BY <1>1, CoresType DEF MayEnter, Other
  <2> QED BY <2>1, HoldingIs DEF SerialInv
<1>5. ASSUME ~corrupt' PROVE Holding'
  <2>1. ~rx'.astray
    BY <1>5 DEF Add
  <2>2. pc'[Core0] \in Reporting => parserMutex' = Core0
    BY <1>3 DEF Reporting
  <2> QED BY <1>1, <1>3, <1>4, <2>1, <2>2, HoldingNow
<1> QED BY <1>1, <1>2, <1>5, MutexesKeep, ChunkGone DEF SerialInv, SerialStep, SerialCore0

LEMMA ReportEndsKeeps ==
  ASSUME SerialInv, WebInv, ~corrupt, ReportEnds
  PROVE  SerialInv'
<1>1. UNCHANGED <<rx, typed, submitted, chunk>> /\ pc[Core0] = "reporting" /\ Goes(Core0, "idle")
  BY DEF ReportEnds, Step, At
<1>2. pc'[Core0] = "idle" /\ pc'[Core1] = pc[Core1]
  BY <1>1, PcStep, CoresType DEF WebInv
<1>3. SerialData'
  BY <1>1, DataSame DEF SerialInv
<1>4. /\ pc[Core0] \in Reporting /\ pc[Core0] \notin Adding
      /\ pc'[Core0] \notin Reporting
  BY <1>1, <1>2 DEF Reporting, Adding
<1>5. /\ parserMutex = Core0 /\ chunk' = <<>> /\ pc[Core1] \notin Printing /\ ~rx'.astray
  BY <1>1, <1>4, HoldingIs, CoresType DEF SerialInv
<1>6. Holding'
  BY <1>2, <1>4, <1>5, HoldingNow
<1> QED BY <1>3, <1>5, <1>6, MutexesKeep, ChunkGone DEF SerialInv, SerialStep, SerialCore0

LEMMA TakeKeeps ==
  ASSUME SerialInv, WebInv, ~corrupt, Take
  PROVE  SerialInv'
<1>1. /\ UNCHANGED <<rx, typed, submitted, chunk>>
      /\ MayEnter(parserMutex, Core1)
      /\ \/ Sound(rx) /\ parserMutex' = Core1 /\ Goes(Core1, "handle")
         \/ parserMutex' = parserMutex /\ Goes(Core1, "idle")
  BY DEF Take
<1>2. SerialData'
  BY <1>1, DataSame DEF SerialInv
<1>3. /\ pc'[Core0] = pc[Core0]
      /\ \/ parserMutex' = Core1 /\ Sound(rx)
         \/ parserMutex' = parserMutex /\ pc'[Core1] = "idle"
  BY <1>1, PcStep, CoresType DEF WebInv
<1>4. pc[Core0] \notin Reporting \/ parserMutex' = parserMutex
  <2>1. parserMutex # Core0
    BY <1>1, CoresType DEF MayEnter, Other
  <2> QED BY <2>1, HoldingIs DEF SerialInv
<1>5. Holding'
  <2>1. ~rx'.astray
    BY <1>1, HoldingIs DEF SerialInv
  <2>2. pc'[Core1] \in Printing => parserMutex' = Core1 /\ Sound(rx')
    BY <1>1, <1>3 DEF Printing
  <2>3. (pc'[Core0] \in Reporting => parserMutex' = Core0) /\ (pc'[Core0] \in Adding \/ chunk' = <<>>)
    BY <1>1, <1>3, <1>4, HoldingIs DEF SerialInv
  <2> QED BY <2>1, <2>2, <2>3, HoldingNow
<1>6. chunk' \in Seq(Chars) /\ Len(chunk') <= ChunkSize
  BY <1>1, ChunkSame DEF SerialInv
<1> QED BY <1>2, <1>5, <1>6, MutexesKeep DEF SerialInv, SerialStep, SerialCore1

LEMMA TakenKeeps ==
  ASSUME SerialInv, WebInv, Handled
  PROVE  SerialInv'
<1>1. /\ typed' = typed /\ chunk' = chunk /\ ~corrupt
      /\ pc[Core1] = "printing" /\ Goes(Core1, "idle")
  <2>1. typed' = typed /\ chunk' = chunk /\ ~corrupt
    BY DEF Handled
  <2>2. Step(Core1, "printing", "idle")
    BY Zenon DEF Handled
  <2> QED BY <2>1, <2>2, Zenon DEF Step, At
<1>2. pc'[Core1] = "idle" /\ pc'[Core0] = pc[Core0]
  BY <1>1, PcStep, CoresType DEF WebInv
<1>3. SerialData' /\ rx'.astray = rx.astray
  BY DataHandled
<1>4. pc[Core1] \in Printing /\ pc'[Core1] \notin Printing
  BY <1>1, <1>2 DEF Printing
<1>5. Holding
  BY <1>1 DEF SerialInv
<1>6. pc[Core0] \notin Reporting
  BY <1>4, <1>5, HoldingIs, CoresType
<1>7. Holding'
  <2>1. ~rx'.astray
    BY <1>3, <1>5, HoldingIs
  <2>2. pc'[Core0] \in Adding \/ chunk' = <<>>
    BY <1>1, <1>2, <1>5, HoldingIs
  <2> QED BY <1>2, <1>4, <1>6, <2>1, <2>2, HoldingNow
<1>8. chunk' \in Seq(Chars) /\ Len(chunk') <= ChunkSize
  BY <1>1, ChunkSame DEF SerialInv
<1>9. parserMutex' \in Owners /\ stdioMutex' \in Owners /\ corrupt' \in BOOLEAN
  BY MutexesKeep
<1> QED BY ONLY <1>3, <1>7, <1>8, <1>9 DEF SerialInv

LEMMA ResetKeeps ==
  ASSUME SerialInv, WebInv, ~corrupt, ResetRequest \/ NestedReset
  PROVE  SerialInv'
<1>1. /\ Reset /\ UNCHANGED <<parserMutex, chunk>> /\ MayEnter(parserMutex, Core0)
      /\ pc \in [Cores -> Places] /\ Holding
  BY DEF ResetRequest, NestedReset, SerialInv, WebInv
<1>2. SerialData' /\ ~rx'.astray
  BY <1>1, DataReset
<1>3. pc[Core1] \notin Printing
  <2>1. parserMutex # Core1
    BY <1>1, CoresType DEF MayEnter, Other
  <2> QED BY <1>1, <2>1, HoldingIs
<1>4. Holding'
  <2>1. CASE ResetRequest
    <3>1. UNCHANGED pc /\ pc[Core0] \in {"idle", "writing"}
      BY <2>1 DEF ResetRequest, Idle, At
    <3>2. pc[Core0] \notin Adding /\ pc[Core0] \notin Reporting
      BY <3>1 DEF Adding, Reporting
    <3>3. chunk' = <<>>
      BY <1>1, <3>2, HoldingIs
    <3> QED BY <1>2, <1>3, <3>1, <3>2, <3>3, HoldingNow
  <2>2. CASE NestedReset
    <3>1. /\ pc[Core0] = "resetting" /\ pc'[Core0] = "echoing" /\ pc'[Core1] = pc[Core1]
      BY <1>1, <2>2, PcStep, CoresType DEF NestedReset, Step, At
    <3>2. pc'[Core0] \in Adding /\ pc'[Core0] \notin Reporting
      BY <3>1 DEF Adding, Reporting
    <3> QED BY <1>2, <1>3, <3>1, <3>2, HoldingNow
  <2> QED BY <2>1, <2>2
<1>5. chunk' \in Seq(Chars) /\ Len(chunk') <= ChunkSize
  BY <1>1, ChunkSame DEF SerialInv
<1> QED BY <1>2, <1>4, <1>5, MutexesKeep DEF SerialInv, SerialStep, SerialCore0

LEMMA ResetUnderHandlerKeeps ==
  ASSUME SerialInv, ~corrupt, ResetUnderHandler
  PROVE  SerialInv'
<1>1. Reset /\ UNCHANGED chunk /\ corrupt' = TRUE
  BY DEF ResetUnderHandler
<1>2. SerialData'
  BY <1>1, DataReset
<1>3. chunk' \in Seq(Chars) /\ Len(chunk') <= ChunkSize
  BY <1>1, ChunkSame DEF SerialInv
<1> QED BY <1>1, <1>2, <1>3, MutexesKeep DEF SerialInv, SerialStep

\* The other stream moves the cores through places of its own.
WebPlaces == {"idle", "writing", "parse", "execute", "executed"}

LEMMA WebMoves ==
  ASSUME WebInv, WebNext, NEW c \in Cores
  PROVE  pc'[c] = pc[c] \/ (pc[c] \in WebPlaces /\ pc'[c] \in WebPlaces)
<1>0. pc \in [Cores -> Places]
  BY DEF WebInv
<1>1. ASSUME NEW d \in Cores, NEW to \in WebPlaces, Goes(d, to), pc[d] \in WebPlaces
      PROVE  pc'[c] = pc[c] \/ (pc[c] \in WebPlaces /\ pc'[c] \in WebPlaces)
  BY <1>0, <1>1, PcStep
<1>2. CASE FlushBegins \/ FlushEnds
  <2>1. \E to \in WebPlaces : Goes(Core0, to) /\ pc[Core0] \in WebPlaces
    BY <1>2 DEF FlushBegins, FlushEnds, Step, At, WebPlaces
  <2> QED BY <1>1, <2>1, CoresType
<1>3. CASE TakeData \/ ParseEnds \/ Execute \/ Resume
  <2>1. \E to \in WebPlaces : Goes(Core1, to) /\ pc[Core1] \in WebPlaces
    BY <1>3 DEF TakeData, ParseEnds, Execute, Resume, Step, At, WebPlaces
  <2> QED BY <1>1, <2>1, CoresType
<1>4. CASE Parse
  <2>1. UNCHANGED pc \/ (Goes(Core1, "execute") /\ pc[Core1] = "parse")
    BY <1>4 DEF Parse, At
  <2>2. "parse" \in WebPlaces /\ "execute" \in WebPlaces
    BY DEF WebPlaces
  <2> QED BY <1>1, <2>1, <2>2, CoresType
<1>5. CASE BusAnswers \/ BusCancels \/ Receive \/ Connect
  BY <1>5 DEF BusAnswers, BusCancels, Receive, Connect
<1> QED BY <1>2, <1>3, <1>4, <1>5 DEF WebNext, WebCore0, WebCore1

LEMMA OtherStreamKeeps ==
  ASSUME SerialInv, WebInv, UNCHANGED serialVars, WebNext \/ UNCHANGED pc
  PROVE  SerialInv'
<1>1. UNCHANGED <<rx, parserMutex, stdioMutex, chunk, corrupt, typed, submitted>>
  BY DEF serialVars
<1>2. SerialData'
  BY <1>1, DataSame DEF SerialInv
<1>3. \A c \in Cores : pc'[c] = pc[c] \/ (pc[c] \in WebPlaces /\ pc'[c] \in WebPlaces)
  BY WebMoves
<1>4. ASSUME Holding PROVE Holding'
  <2>1. \A p \in WebPlaces : p \notin Printing /\ p \notin Reporting /\ p \notin Adding
    BY DEF WebPlaces, Printing, Reporting, Adding
  <2> QED BY <1>1, <1>3, <1>4, <2>1, CoresType, HoldingIs, HoldingSame
<1>5. chunk' \in Seq(Chars) /\ Len(chunk') <= ChunkSize
  BY <1>1, ChunkSame DEF SerialInv
<1> QED BY <1>1, <1>2, <1>4, <1>5 DEF SerialInv

LEMMA StreamStarts == LoopsInit => SerialInv
<1> SUFFICES ASSUME LoopsInit PROVE SerialInv
  OBVIOUS
<1>1. /\ rx = EmptyRx /\ typed = <<>> /\ submitted = <<>> /\ chunk = <<>> /\ corrupt = FALSE
      /\ parserMutex = Unowned /\ stdioMutex = Unowned
      /\ pc[Core0] = "idle" /\ pc[Core1] = "idle"
  BY CoresType DEF LoopsInit, SerialInit
<1>2. SerialData
  <2>1. <<>> \in Seq(Chars) /\ <<>> \in Seq(Gone)
    OBVIOUS
  <2> QED BY <1>1, <2>1, NothingTracks, DataIs
<1>3. Holding
  <2>1. "idle" \notin Printing /\ "idle" \notin Reporting /\ ~rx.astray
    BY <1>1, NothingTracks DEF Printing, Reporting
  <2> QED BY <1>1, <2>1, HoldingIs
<1>4. chunk \in Seq(Chars) /\ Len(chunk) <= ChunkSize
  BY <1>1, SerialAssumption
<1> QED BY <1>1, <1>2, <1>3, <1>4 DEF SerialInv, Owners

LEMMA StreamSteps ==
  ASSUME SerialInv, WebInv, LoopsNext
  PROVE  SerialInv'
<1>1. CASE Round
  <2>1. UNCHANGED loopVars
    BY <1>1 DEF Round
  <2>2. UNCHANGED serialVars /\ UNCHANGED pc
    BY <2>1 DEF loopVars
  <2> QED BY <2>2, OtherStreamKeeps
<1>2. CASE WebNext /\ UNCHANGED serialVars
  BY <1>2, OtherStreamKeeps
<1>3. CASE HandledWithEffect
  BY <1>3, TakenKeeps DEF HandledWithEffect
<1>4. CASE SerialStep
  BY <1>4, ReadKeeps, OutputKeeps, AddKeeps, ReportEndsKeeps, TakeKeeps, ResetKeeps,
     ResetUnderHandlerKeeps DEF SerialStep, SerialCore0, SerialCore1
<1>5. SerialStep \/ HandledWithEffect \/ (WebNext /\ UNCHANGED serialVars) \/ Round
  BY DEF LoopsNext
<1> QED BY ONLY <1>1, <1>2, <1>3, <1>4, <1>5

LEMMA StreamStutters ==
  ASSUME SerialInv, WebInv, UNCHANGED <<environment, loopVars>>
  PROVE  SerialInv'
<1>1. UNCHANGED loopVars
  OBVIOUS
<1>2. UNCHANGED serialVars /\ UNCHANGED pc
  BY <1>1 DEF loopVars
<1> QED BY <1>2, OtherStreamKeeps

\* What was added to the serial stream and what the cores made of it agree, through every
\* interleaving of cdc_task(), process() and the resets.
THEOREM SerialInvariant == LoopsSpec => []SerialInv
<1>1. LoopsInit => SerialInv
  BY StreamStarts
<1>2. SerialInv /\ WebInv /\ [LoopsNext]_<<environment, loopVars>> => SerialInv'
  <2>1. LoopsNext => (SerialInv /\ WebInv => SerialInv')
    BY StreamSteps
  <2>2. UNCHANGED <<environment, loopVars>> => (SerialInv /\ WebInv => SerialInv')
    BY StreamStutters
  <2> QED BY ONLY <2>1, <2>2
<1> QED BY <1>1, <1>2, WebInvariant, PTL DEF LoopsSpec

\* What core 1 handled and is going to handle are lines as they were typed, in order and once,
\* and no more are missing than overflows were reported: addChars() and process() of
\* SerialStreamParser, for every size of its buffer and every input, as long as no key slipped
\* to another line than the one being typed (rx.slipped: a backspace that takes the end of a
\* waiting command, NUL at the end of a line that did not fit) and the containers are used
\* inside their bounds (~corrupt).
THEOREM CommandsAlwaysIntact == LoopsSpec => []CommandsIntact
<1>1. SerialInv => CommandsIntact
  BY DEF SerialInv, SerialData, Told, CommandsIntact
<1> QED BY <1>1, SerialInvariant, PTL

\* Both streams keep their types and bounds: only bytes 0x08 of binary data lie beyond
\* MAX_QUEUE_SIZE in the buffer of SerialStreamParser, which are not counted, and as long as
\* no key slipped the end markers point into that buffer.
THEOREM TypesAlwaysKept == LoopsSpec => []LoopsTypeOK
<1>1. SerialInv => SerialTypeOK
  <2> SUFFICES ASSUME SerialInv PROVE SerialTypeOK
    OBVIOUS
  <2>1. RxFits(rx)
    BY DEF SerialInv, SerialData
  <2>2. /\ rx.parsed >= -1 /\ rx.left \in Words /\ rx.stored \in Words
        /\ \A i \in DOMAIN rx.buffer : i > MaxQueue => rx.buffer[i] = BS
    BY <2>1, FieldsAre DEF RxFits
  <2>3. ~rx.slipped => \A i \in DOMAIN rx.ends : rx.ends[i] \in DOMAIN rx.buffer
    BY <2>1 DEF RxFits, MarkersFit
  <2> QED BY <2>2, <2>3 DEF SerialInv, SerialTypeOK
<1> QED BY <1>1, SerialInvariant, WebTypes, PTL DEF LoopsTypeOK
=============================================================================
