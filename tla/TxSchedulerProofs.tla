-------------------------- MODULE TxSchedulerProofs --------------------------
(***************************************************************************)
(* Proofs about TxScheduler, for every number of priorities, every set of  *)
(* requests, every clock bound and every ID width.                         *)
(***************************************************************************)
EXTENDS TxScheduler, NaturalsInduction, WellFoundedInduction, SequenceTheorems, TLAPS

Lists == Seq(ScheduledTx)

-----------------------------------------------------------------------------
(* Naturals *)

\* Every non-empty set of naturals has a least element.
LEMMA LeastElement ==
  ASSUME NEW T \in SUBSET Nat, T # {}
  PROVE  \E m \in T : \A k \in T : m <= k
<1>1. IsWellFoundedOn(OpToRel(<, Nat), Nat)
  BY NatLessThanWellFounded
<1>2. PICK m \in T : \A k \in T : ~ (<<k, m>> \in OpToRel(<, Nat))
  BY <1>1, WFMin
<1>3. T \subseteq Nat
  OBVIOUS
<1>4. ASSUME NEW k \in T PROVE m <= k
  <2>1. ~ (k < m)
    BY <1>2, <1>3 DEF OpToRel
  <2> QED
    BY <1>3, <2>1
<1> QED
  BY <1>4

-----------------------------------------------------------------------------
(* Transmissions and lists of them *)

LEMMA TransmissionTypes ==
  ASSUME NEW tx \in ScheduledTx
  PROVE  /\ tx.transmissionId \in Nat \ {0}
         /\ tx.priority \in Priorities
         /\ tx.recipientAddr \in Nat
         /\ tx.txDurationUs \in Nat
         /\ tx.autoRepeatUs \in Nat
         /\ tx.autoRepeatEndTimeUs \in Nat
         /\ tx.nextTxTimeUs \in Nat
BY IdAssumption DEF ScheduledTx

LEMMA ListTypes ==
  ASSUME NEW list \in Lists
  PROVE  /\ Len(list) \in Nat
         /\ DOMAIN list = 1 .. Len(list)
         /\ \A i \in 1 .. Len(list) : list[i] \in ScheduledTx
         /\ \A i \in 1 .. Len(list) : list[i].nextTxTimeUs \in Nat
BY LenProperties, ElementOfSeq, TransmissionTypes DEF Lists

-----------------------------------------------------------------------------
(* Inserting into a list and removing from it *)

\* The position add() finds exists: before the first item due later, or the end.
LEMMA InsertPositionExists ==
  ASSUME NEW list \in Lists, NEW t \in Nat
  PROVE  LET k == InsertPosition(list, t)
         IN  /\ k \in 1 .. Len(list) + 1
             /\ \A i \in 1 .. k - 1 : list[i].nextTxTimeUs <= t
             /\ k <= Len(list) => list[k].nextTxTimeUs > t
<1> DEFINE Later == {i \in 1 .. Len(list) : list[i].nextTxTimeUs > t}
           P(k) == /\ \A i \in 1 .. k - 1 : list[i].nextTxTimeUs <= t
                   /\ k <= Len(list) => list[k].nextTxTimeUs > t
<1>0. /\ Len(list) \in Nat
      /\ \A i \in 1 .. Len(list) : list[i].nextTxTimeUs \in Nat
  BY ListTypes
<1>1. \E k \in 1 .. Len(list) + 1 : P(k)
  <2>1. CASE Later = {}
    <3>1. P(Len(list) + 1)
      BY <1>0, <2>1
    <3> QED
      BY <1>0, <3>1
  <2>2. CASE Later # {}
    <3>0. Later \in SUBSET Nat
      BY <1>0
    <3>1. PICK m \in Later : \A k \in Later : m <= k
      <4> HIDE DEF Later
      <4> QED
        BY <3>0, <2>2, LeastElement
    <3>2. P(m)
      BY <1>0, <3>1
    <3> QED
      BY <1>0, <3>1, <3>2
  <2> QED
    BY <2>1, <2>2
<1> QED
  BY <1>1 DEF InsertPosition

\* What a list holds after InsertAt, position by position.
LEMMA InsertAtProperties ==
  ASSUME NEW list \in Lists, NEW tx \in ScheduledTx, NEW k \in 1 .. Len(list) + 1
  PROVE  /\ InsertAt(list, k, tx) \in Lists
         /\ Len(InsertAt(list, k, tx)) = Len(list) + 1
         /\ \A i \in 1 .. Len(list) + 1 :
              InsertAt(list, k, tx)[i] = IF i < k THEN list[i]
                                         ELSE IF i = k THEN tx ELSE list[i - 1]
<1> DEFINE front == SubSeq(list, 1, k - 1)
           back  == SubSeq(list, k, Len(list))
<1>1. Len(list) \in Nat /\ \A i \in 1 .. Len(list) : list[i] \in ScheduledTx
  BY ListTypes
<1>2. /\ front \in Seq(ScheduledTx)
      /\ Len(front) = k - 1
      /\ \A i \in 1 .. k - 1 : front[i] = list[i]
  BY <1>1, SubSeqProperties
<1>3. /\ back \in Seq(ScheduledTx)
      /\ Len(back) = Len(list) - k + 1
      /\ \A i \in 1 .. Len(list) - k + 1 : back[i] = list[k + i - 1]
  BY <1>1, SubSeqProperties
<1>4. <<tx>> \in Seq(ScheduledTx) /\ Len(<<tx>>) = 1 /\ <<tx>>[1] = tx
  OBVIOUS
<1> HIDE DEF front, back
<1> DEFINE both == front \o <<tx>>
<1>5. /\ both \in Seq(ScheduledTx)
      /\ Len(both) = k
      /\ \A i \in 1 .. k : both[i] = IF i < k THEN list[i] ELSE tx
  BY <1>2, <1>4, ConcatProperties
<1>6. InsertAt(list, k, tx) = both \o back
  BY DEF InsertAt, front, back
<1> HIDE DEF both
<1>7. /\ both \o back \in Seq(ScheduledTx)
      /\ Len(both \o back) = Len(list) + 1
      /\ \A i \in 1 .. Len(list) + 1 :
           (both \o back)[i] = IF i <= k THEN both[i] ELSE back[i - k]
  <2>1. k \in Nat /\ Len(both) + Len(back) = Len(list) + 1
    BY <1>1, <1>3, <1>5
  <2> QED
    BY <1>3, <1>5, <2>1, ConcatProperties
<1>8. ASSUME NEW i \in 1 .. Len(list) + 1, i > k
      PROVE  back[i - k] = list[i - 1]
  BY <1>1, <1>3, <1>8
<1> QED
  BY <1>1, <1>5, <1>6, <1>7, <1>8 DEF Lists

\* What a list holds after RemoveAt, position by position.
LEMMA RemoveAtProperties ==
  ASSUME NEW list \in Lists, NEW k \in 1 .. Len(list)
  PROVE  /\ RemoveAt(list, k) \in Lists
         /\ Len(RemoveAt(list, k)) = Len(list) - 1
         /\ \A i \in 1 .. Len(list) - 1 :
              RemoveAt(list, k)[i] = IF i < k THEN list[i] ELSE list[i + 1]
<1> DEFINE front == SubSeq(list, 1, k - 1)
           back  == SubSeq(list, k + 1, Len(list))
<1>1. Len(list) \in Nat /\ \A i \in 1 .. Len(list) : list[i] \in ScheduledTx
  BY ListTypes
<1>2. /\ front \in Seq(ScheduledTx)
      /\ Len(front) = k - 1
      /\ \A i \in 1 .. k - 1 : front[i] = list[i]
  BY <1>1, SubSeqProperties
<1>3. /\ back \in Seq(ScheduledTx)
      /\ Len(back) = Len(list) - k
      /\ \A i \in 1 .. Len(list) - k : back[i] = list[k + i]
  BY <1>1, SubSeqProperties
<1> HIDE DEF front, back
<1>4. RemoveAt(list, k) = front \o back
  BY DEF RemoveAt, front, back
<1>5. /\ front \o back \in Seq(ScheduledTx)
      /\ Len(front \o back) = Len(list) - 1
      /\ \A i \in 1 .. Len(list) - 1 :
           (front \o back)[i] = IF i < k THEN front[i] ELSE back[i - k + 1]
  <2>1. k \in Nat /\ Len(front) + Len(back) = Len(list) - 1
    BY <1>1, <1>2, <1>3
  <2>2. /\ front \o back \in Seq(ScheduledTx)
        /\ Len(front \o back) = Len(front) + Len(back)
        /\ \A i \in 1 .. Len(front) + Len(back) :
             (front \o back)[i] = IF i <= Len(front) THEN front[i]
                                 ELSE back[i - Len(front)]
    BY <1>2, <1>3, ConcatProperties
  <2>3. ASSUME NEW i \in 1 .. Len(list) - 1
        PROVE  (i <= k - 1 <=> i < k) /\ i - (k - 1) = i - k + 1
    BY <1>1, <2>1
  <2> QED
    BY <1>2, <2>1, <2>2, <2>3
<1>6. ASSUME NEW i \in 1 .. Len(list) - 1, i >= k
      PROVE  back[i - k + 1] = list[i + 1]
  BY <1>1, <1>3, <1>6
<1> QED
  BY <1>1, <1>2, <1>4, <1>5, <1>6 DEF Lists

\* add() puts tx behind everything due when it is or before, and keeps the rest
\* of the list as it was: position k - 1 and below, and k and above moved by one.
LEMMA InsertProperties ==
  ASSUME NEW list \in Lists, NEW tx \in ScheduledTx
  PROVE  /\ Insert(list, tx) \in Lists
         /\ Len(Insert(list, tx)) = Len(list) + 1
         /\ \E k \in 1 .. Len(list) + 1 :
              /\ \A i \in 1 .. Len(list) + 1 :
                   Insert(list, tx)[i] = IF i < k THEN list[i]
                                         ELSE IF i = k THEN tx ELSE list[i - 1]
              /\ \A i \in 1 .. k - 1 : list[i].nextTxTimeUs <= tx.nextTxTimeUs
              /\ k <= Len(list) => list[k].nextTxTimeUs > tx.nextTxTimeUs
<1> DEFINE k == InsertPosition(list, tx.nextTxTimeUs)
<1>1. tx.nextTxTimeUs \in Nat
  BY TransmissionTypes
<1>2. /\ k \in 1 .. Len(list) + 1
      /\ \A i \in 1 .. k - 1 : list[i].nextTxTimeUs <= tx.nextTxTimeUs
      /\ k <= Len(list) => list[k].nextTxTimeUs > tx.nextTxTimeUs
  BY <1>1, InsertPositionExists
<1>3. Insert(list, tx) = InsertAt(list, k, tx)
  BY DEF Insert
<1> HIDE DEF k
<1> QED
  BY <1>2, <1>3, InsertAtProperties

-----------------------------------------------------------------------------
(* Sub-lists: what erasing elements leaves *)

\* e finds the elements of sub, in their order, in list.
Embeds(e, sub, list) ==
  /\ e \in [1 .. Len(sub) -> 1 .. Len(list)]
  /\ \A i, j \in 1 .. Len(sub) : i < j => e[i] < e[j]
  /\ \A i \in 1 .. Len(sub) : sub[i] = list[e[i]]

IsSubList(sub, list) == sub \in Lists /\ \E e : Embeds(e, sub, list)

\* popItem() erases one element and leaves a sub-list.
LEMMA RemoveAtSubList ==
  ASSUME NEW list \in Lists, NEW k \in 1 .. Len(list)
  PROVE  IsSubList(RemoveAt(list, k), list)
<1> DEFINE sub == RemoveAt(list, k)
           e == [i \in 1 .. Len(sub) |-> IF i < k THEN i ELSE i + 1]
<1>1. /\ sub \in Lists
      /\ Len(sub) = Len(list) - 1
      /\ \A i \in 1 .. Len(list) - 1 : sub[i] = IF i < k THEN list[i] ELSE list[i + 1]
  BY RemoveAtProperties
<1>2. Len(list) \in Nat
  BY ListTypes
<1> HIDE DEF sub
<1>3. Embeds(e, sub, list)
  BY <1>1, <1>2 DEF Embeds
<1> QED
  BY <1>1, <1>3 DEF IsSubList, sub

\* Every set of naturals up to n can be enumerated in increasing order.
LEMMA EnumerationExists ==
  ASSUME NEW n \in Nat
  PROVE  \A K \in SUBSET (1 .. n) :
           \E m \in 0 .. n : \E e \in [1 .. m -> K] : Enumerates(e, K)
<1> DEFINE Good(x) == \A K \in SUBSET (1 .. x) :
                        \E m \in 0 .. x : \E e \in [1 .. m -> K] : Enumerates(e, K)
           Bad == {x \in Nat : ~ Good(x)}
<1>1. Good(0)
  <2>1. ASSUME NEW K \in SUBSET (1 .. 0)
        PROVE  \E m \in 0 .. 0 : \E e \in [1 .. m -> K] : Enumerates(e, K)
    <3> DEFINE e == [i \in 1 .. 0 |-> 0]
    <3>1. K = {}
      OBVIOUS
    <3>2. e \in [1 .. 0 -> K] /\ Enumerates(e, K)
      BY <3>1 DEF Enumerates
    <3> HIDE DEF e
    <3>3. \E g \in [1 .. 0 -> K] : Enumerates(g, K)
      BY <3>2, Zenon
    <3>4. 0 \in 0 .. 0
      OBVIOUS
    <3> QED
      BY <3>3, <3>4, Zenon
  <2> QED
    BY <2>1
<1>2. ASSUME NEW x \in Nat, Good(x) PROVE Good(x + 1)
  <2> SUFFICES ASSUME NEW K \in SUBSET (1 .. x + 1)
               PROVE  \E m \in 0 .. x + 1 : \E e \in [1 .. m -> K] : Enumerates(e, K)
    OBVIOUS
  <2> DEFINE L == K \ {x + 1}
  <2>1. L \in SUBSET (1 .. x)
    OBVIOUS
  <2>2. PICK m \in 0 .. x : \E e \in [1 .. m -> L] : Enumerates(e, L)
    BY <1>2, <2>1
  <2>3. PICK e \in [1 .. m -> L] : Enumerates(e, L)
    BY <2>2
  <2>4. CASE x + 1 \notin K
    <3>1. L = K
      BY <2>4
    <3> HIDE DEF L
    <3>2. m \in 0 .. x + 1 /\ e \in [1 .. m -> K] /\ Enumerates(e, K)
      BY <2>3, <3>1
    <3> QED
      BY <3>2
  <2>5. CASE x + 1 \in K
    <3> DEFINE f == [i \in 1 .. m + 1 |-> IF i = m + 1 THEN x + 1 ELSE e[i]]
    <3>1. f \in [1 .. m + 1 -> K]
      BY <2>3, <2>5
    <3>2. ASSUME NEW i \in 1 .. m + 1, NEW j \in 1 .. m + 1, i < j
          PROVE  f[i] < f[j]
      <4>0. i \in 1 .. m
        BY <3>2
      <4>1. i \in 1 .. m /\ e[i] \in 1 .. x /\ f[i] = e[i]
        <5>1. f[i] = e[i]
          BY <4>0
        <5>2. e[i] \in L
          BY <4>0, <2>3
        <5> QED
          BY <4>0, <5>1, <5>2, <2>1
      <4>2. CASE j = m + 1
        BY <4>1, <4>2
      <4>3. CASE j # m + 1
        BY <2>3, <3>2, <4>1, <4>3 DEF Enumerates
      <4> QED
        BY <4>2, <4>3
    <3>3. ASSUME NEW k \in K PROVE \E i \in 1 .. m + 1 : f[i] = k
      BY <2>3, <2>5 DEF Enumerates
    <3>4. Enumerates(f, K)
      BY <3>1, <3>2, <3>3 DEF Enumerates
    <3> QED
      BY <3>1, <3>4
  <2> QED
    BY <2>4, <2>5
<1> HIDE DEF Good
<1>3. Bad = {}
  <2> SUFFICES ASSUME Bad # {} PROVE FALSE
    OBVIOUS
  <2>1. Bad \in SUBSET Nat
    OBVIOUS
  <2>2. PICK b \in Bad : \A k \in Bad : b <= k
    <3> HIDE DEF Bad
    <3> QED
      BY <2>1, LeastElement
  <2>3. b \in Nat /\ ~ Good(b) /\ b # 0
    BY <1>1
  <2>4. b - 1 \in Nat /\ b - 1 \notin Bad
    BY <2>2, <2>3
  <2> QED
    BY <1>2, <2>3, <2>4
<1> QED
  BY <1>3 DEF Good

\* The cancel functions leave a sub-list: the elements at the positions kept.
LEMMA KeepPositionsProperties ==
  ASSUME NEW list \in Lists, NEW K \in SUBSET (1 .. Len(list))
  PROVE  /\ IsSubList(KeepPositions(list, K), list)
         /\ ToSet(KeepPositions(list, K)) = {list[k] : k \in K}
<1> DEFINE Enums == UNION {[1 .. n -> K] : n \in 0 .. Len(list)}
           e == CHOOSE f \in Enums : Enumerates(f, K)
<1>1. Len(list) \in Nat /\ \A i \in 1 .. Len(list) : list[i] \in ScheduledTx
  BY ListTypes
<1>2. \E f \in Enums : Enumerates(f, K)
  BY <1>1, EnumerationExists
<1>3. e \in Enums /\ Enumerates(e, K)
  BY <1>2
<1>4. PICK n \in 0 .. Len(list) : e \in [1 .. n -> K]
  BY <1>3
<1>5. KeepPositions(list, K) = [i \in DOMAIN e |-> list[e[i]]]
  BY DEF KeepPositions
<1> DEFINE sub == [i \in 1 .. n |-> list[e[i]]]
<1>6. KeepPositions(list, K) = sub
  BY <1>4, <1>5
<1> HIDE DEF e, Enums
<1>7. sub \in Lists /\ Len(sub) = n
  <2>1. n \in Nat
    BY <1>1
  <2>2. \A i \in 1 .. n : e[i] \in 1 .. Len(list)
    BY <1>4
  <2>3. \A i \in 1 .. n : list[e[i]] \in ScheduledTx
    BY <1>1, <2>2
  <2> QED
    BY <2>1, <2>3 DEF Lists
<1>8. Embeds(e, sub, list)
  BY <1>1, <1>3, <1>4, <1>7 DEF Embeds, Enumerates
<1>9. ToSet(sub) = {list[k] : k \in K}
  <2>1. DOMAIN sub = 1 .. n /\ DOMAIN e = 1 .. n
    BY <1>4
  <2>2. ASSUME NEW k \in K PROVE \E i \in 1 .. n : sub[i] = list[k]
    BY <1>3, <2>1 DEF Enumerates
  <2>3. ASSUME NEW i \in 1 .. n PROVE \E k \in K : sub[i] = list[k]
    BY <1>4
  <2>4. ToSet(sub) = {sub[i] : i \in 1 .. n}
    <3> HIDE DEF sub
    <3> QED
      BY <2>1 DEF ToSet
  <2> HIDE DEF sub
  <2>5. ASSUME NEW k \in K PROVE list[k] \in {sub[i] : i \in 1 .. n}
    BY <2>2
  <2>6. ASSUME NEW i \in 1 .. n PROVE sub[i] \in {list[k] : k \in K}
    BY <2>3
  <2>7. {sub[i] : i \in 1 .. n} = {list[k] : k \in K}
    BY <2>5, <2>6, Zenon
  <2> QED
    BY <2>4, <2>7
<1> QED
  BY <1>6, <1>7, <1>8, <1>9 DEF IsSubList

-----------------------------------------------------------------------------
(* What the two operations on lists preserve *)

DistinctList(list) ==
  \A i, j \in 1 .. Len(list) : list[i].transmissionId = list[j].transmissionId => i = j

GoodList(list) == list \in Lists /\ OrderedList(list) /\ StampedList(list) /\ DistinctList(list)

LEMMA SubListPreserves ==
  ASSUME NEW list, GoodList(list), NEW sub, IsSubList(sub, list)
  PROVE  GoodList(sub) /\ ToSet(sub) \subseteq ToSet(list)
<1>1. PICK e : Embeds(e, sub, list)
  BY DEF IsSubList
<1>2. sub \in Lists /\ list \in Lists
  BY DEF IsSubList, GoodList
<1>3. /\ Len(sub) \in Nat /\ Len(list) \in Nat
      /\ DOMAIN sub = 1 .. Len(sub) /\ DOMAIN list = 1 .. Len(list)
  BY <1>2, ListTypes
<1>4. /\ \A i \in 1 .. Len(sub) : e[i] \in 1 .. Len(list) /\ sub[i] = list[e[i]]
      /\ \A i, j \in 1 .. Len(sub) : i < j => e[i] < e[j]
  BY <1>1 DEF Embeds
<1>5. OrderedList(sub)
  BY <1>3, <1>4 DEF OrderedList, GoodList
<1>6. StampedList(sub)
  BY <1>3, <1>4 DEF StampedList, GoodList
<1>7. DistinctList(sub)
  <2> SUFFICES ASSUME NEW i \in 1 .. Len(sub), NEW j \in 1 .. Len(sub),
                      sub[i].transmissionId = sub[j].transmissionId
               PROVE  i = j
    BY DEF DistinctList
  <2>1. e[i] = e[j]
    BY <1>4 DEF DistinctList, GoodList
  <2>2. ~ (e[i] < e[j]) /\ ~ (e[j] < e[i])
    BY <1>3, <1>4, <2>1
  <2> QED
    BY <1>3, <1>4, <2>2
<1>8. ToSet(sub) \subseteq ToSet(list)
  BY <1>3, <1>4 DEF ToSet
<1> QED
  BY <1>2, <1>5, <1>6, <1>7, <1>8 DEF GoodList

\* Insertion by due time keeps a list good, if the ID is new to it and, for a
\* transmission sent once, later than all others.
LEMMA InsertPreserves ==
  ASSUME NEW list, GoodList(list), NEW tx \in ScheduledTx,
         \A i \in 1 .. Len(list) : list[i].transmissionId # tx.transmissionId,
         tx.autoRepeatUs = 0 =>
           \A i \in 1 .. Len(list) : list[i].transmissionId < tx.transmissionId
  PROVE  GoodList(Insert(list, tx)) /\ ToSet(Insert(list, tx)) = ToSet(list) \cup {tx}
<1> DEFINE new == Insert(list, tx)
<1>1. list \in Lists
  BY DEF GoodList
<1>2. /\ Len(list) \in Nat
      /\ DOMAIN list = 1 .. Len(list)
      /\ \A i \in 1 .. Len(list) : list[i] \in ScheduledTx
      /\ \A i \in 1 .. Len(list) : list[i].nextTxTimeUs \in Nat
      /\ \A i \in 1 .. Len(list) : list[i].transmissionId \in Nat
      /\ tx.nextTxTimeUs \in Nat
  BY <1>1, ListTypes, TransmissionTypes
<1>3. PICK k \in 1 .. Len(list) + 1 :
        /\ \A i \in 1 .. Len(list) + 1 :
             new[i] = IF i < k THEN list[i] ELSE IF i = k THEN tx ELSE list[i - 1]
        /\ \A i \in 1 .. k - 1 : list[i].nextTxTimeUs <= tx.nextTxTimeUs
        /\ k <= Len(list) => list[k].nextTxTimeUs > tx.nextTxTimeUs
  BY <1>1, InsertProperties
<1>4. new \in Lists /\ Len(new) = Len(list) + 1 /\ DOMAIN new = 1 .. Len(new)
  BY <1>1, InsertProperties, ListTypes
<1> HIDE DEF new
<1>5. \A i \in k .. Len(list) : list[i].nextTxTimeUs > tx.nextTxTimeUs
  <2> SUFFICES ASSUME NEW i \in k .. Len(list)
               PROVE  list[i].nextTxTimeUs > tx.nextTxTimeUs
    OBVIOUS
  <2>1. k \in 1 .. Len(list) /\ i \in 1 .. Len(list) /\ (k = i \/ k < i)
    BY <1>2
  <2>2. list[k].nextTxTimeUs <= list[i].nextTxTimeUs
    BY <1>2, <2>1 DEF GoodList, OrderedList
  <2>3. list[k].nextTxTimeUs > tx.nextTxTimeUs
    BY <1>3, <2>1
  <2>4. list[k].nextTxTimeUs \in Nat /\ list[i].nextTxTimeUs \in Nat
    BY <1>2, <2>1
  <2> QED
    BY <1>2, <2>2, <2>3, <2>4
<1> DEFINE old(i) == IF i < k THEN i ELSE i - 1
<1>6. \A i \in 1 .. Len(new) : i # k => old(i) \in 1 .. Len(list) /\ new[i] = list[old(i)]
  <2> SUFFICES ASSUME NEW i \in 1 .. Len(new), i # k
               PROVE  old(i) \in 1 .. Len(list) /\ new[i] = list[old(i)]
    OBVIOUS
  <2>1. i \in 1 .. Len(list) + 1 /\ k \in 1 .. Len(list) + 1
    BY <1>4
  <2>2. old(i) \in 1 .. Len(list)
    BY <1>2, <2>1
  <2>3. new[i] = list[old(i)]
    BY <1>3, <2>1
  <2> QED
    BY <2>2, <2>3
<1>7. new[k] = tx
  BY <1>2, <1>3
<1>8. OrderedList(new)
  <2> SUFFICES ASSUME NEW i \in 1 .. Len(new), NEW j \in 1 .. Len(new), i < j
               PROVE  new[i].nextTxTimeUs <= new[j].nextTxTimeUs
    BY <1>4 DEF OrderedList
  <2>1. CASE i = k
    <3>1. old(j) \in k .. Len(list) /\ new[j] = list[old(j)]
      BY <1>2, <1>4, <1>6, <2>1
    <3>2. new[j].nextTxTimeUs > tx.nextTxTimeUs /\ new[j].nextTxTimeUs \in Nat
      BY <1>2, <1>5, <3>1
    <3> QED
      BY <1>2, <1>7, <2>1, <3>2
  <2>2. CASE j = k
    BY <1>2, <1>3, <1>4, <1>7, <2>2
  <2>3. CASE i # k /\ j # k
    <3>1. old(i) < old(j)
      BY <1>2, <1>4, <2>3
    <3> QED
      BY <1>2, <1>6, <2>3, <3>1 DEF GoodList, OrderedList
  <2> QED
    BY <2>1, <2>2, <2>3
<1>9. StampedList(new)
  <2> SUFFICES ASSUME NEW i \in 1 .. Len(new), NEW j \in 1 .. Len(new), i < j,
                      new[i].nextTxTimeUs = new[j].nextTxTimeUs,
                      new[i].autoRepeatUs = 0, new[j].autoRepeatUs = 0
               PROVE  new[i].transmissionId < new[j].transmissionId
    BY <1>4 DEF StampedList
  <2>1. CASE i = k
    <3>1. old(j) \in k .. Len(list) /\ new[j] = list[old(j)]
      BY <1>2, <1>4, <1>6, <2>1
    <3>2. new[j].nextTxTimeUs > tx.nextTxTimeUs /\ new[j].nextTxTimeUs \in Nat
      BY <1>2, <1>5, <3>1
    <3> QED
      BY <1>2, <1>7, <2>1, <3>2
  <2>2. CASE j = k
    BY <1>2, <1>4, <1>6, <1>7, <2>2
  <2>3. CASE i # k /\ j # k
    <3>1. old(i) < old(j)
      BY <1>2, <1>4, <2>3
    <3> QED
      BY <1>2, <1>6, <2>3, <3>1 DEF GoodList, StampedList
  <2> QED
    BY <2>1, <2>2, <2>3
<1>10. DistinctList(new)
  <2> SUFFICES ASSUME NEW i \in 1 .. Len(new), NEW j \in 1 .. Len(new),
                      new[i].transmissionId = new[j].transmissionId
               PROVE  i = j
    BY DEF DistinctList
  <2>1. \A n \in 1 .. Len(new) : n # k => new[n].transmissionId # tx.transmissionId
    BY <1>6
  <2>2. CASE i = k \/ j = k
    BY <1>7, <2>1, <2>2
  <2>3. CASE i # k /\ j # k
    <3>1. old(i) = old(j)
      BY <1>6, <2>3 DEF GoodList, DistinctList
    <3> QED
      BY <1>2, <1>4, <2>3, <3>1
  <2> QED
    BY <2>2, <2>3
<1>11. ToSet(new) = ToSet(list) \cup {tx}
  <2>1. DOMAIN new = 1 .. Len(new)
    BY <1>4, ListTypes
  <2>2. ASSUME NEW i \in 1 .. Len(list) PROVE \E j \in 1 .. Len(new) : new[j] = list[i]
    <3>1. CASE i < k
      BY <1>2, <1>3, <1>4, <3>1
    <3>2. CASE i >= k
      <4>1. i + 1 \in 1 .. Len(new) /\ new[i + 1] = list[i]
        BY <1>2, <1>3, <1>4, <3>2
      <4> QED
        BY <4>1
    <3> QED
      BY <1>2, <3>1, <3>2
  <2>3. k \in 1 .. Len(new)
    BY <1>2, <1>4
  <2>4. \A i \in 1 .. Len(new) : new[i] = tx \/ \E j \in 1 .. Len(list) : new[i] = list[j]
    BY <1>6, <1>7
  <2>5. /\ ToSet(new) = {new[i] : i \in 1 .. Len(new)}
        /\ ToSet(list) = {list[i] : i \in 1 .. Len(list)}
    BY <1>2, <2>1 DEF ToSet
  <2> QED
    BY <1>7, <2>2, <2>3, <2>4, <2>5
<1> QED
  BY <1>4, <1>8, <1>9, <1>10, <1>11 DEF GoodList, new

-----------------------------------------------------------------------------
(* The invariant, list by list *)

GoodSchedule(s) ==
  /\ s \in [Priorities -> Lists]
  /\ \A p \in Priorities : GoodList(s[p])
  /\ \A p, r \in Priorities : p # r =>
       \A t \in ToSet(s[p]), u \in ToSet(s[r]) : t.transmissionId # u.transmissionId
  /\ \A p \in Priorities : \A t \in ToSet(s[p]) : t.priority = p

AllBelow(s, id) ==
  id # INVALID_TX_ID =>
    \A p \in Priorities : \A t \in ToSet(s[p]) : t.transmissionId < id

Scalars ==
  /\ mNextId \in 0 .. TxIdModulus - 1
  /\ currentTxId \in 0 .. TxIdModulus - 1
  /\ currentTimeUs \in Nat

\* The invariant of the specification says the same of the lists one by one.
LEMMA IInvByList == IInv <=> GoodSchedule(mSchedule) /\ AllBelow(mSchedule, mNextId) /\ Scalars
<1>1. ASSUME IInv
      PROVE  GoodSchedule(mSchedule) /\ AllBelow(mSchedule, mNextId) /\ Scalars
  <2>1. mSchedule \in [Priorities -> Lists] /\ Scalars
    BY <1>1 DEF IInv, SchedulerTypeOK, Lists, Scalars
  <2>2. ASSUME NEW p \in Priorities
        PROVE  mSchedule[p] \in Lists /\ DOMAIN mSchedule[p] = 1 .. Len(mSchedule[p])
    BY <2>1, ListTypes
  <2>3. \A p \in Priorities : GoodList(mSchedule[p])
    BY <1>1, <2>2 DEF IInv, Ordered, AddedInOrder, UniqueIds, GoodList, DistinctList
  <2>4. ASSUME NEW p \in Priorities, NEW r \in Priorities, p # r,
               NEW t \in ToSet(mSchedule[p]), NEW u \in ToSet(mSchedule[r])
        PROVE  t.transmissionId # u.transmissionId
    BY <1>1, <2>4 DEF IInv, UniqueIds, ToSet
  <2>5. AllBelow(mSchedule, mNextId)
    BY <1>1 DEF IInv, IdsIssued, AllBelow, ToSet
  <2>6. \A p \in Priorities : \A t \in ToSet(mSchedule[p]) : t.priority = p
    BY <1>1 DEF IInv, InOwnList, ToSet
  <2> QED
    BY <2>1, <2>3, <2>4, <2>5, <2>6 DEF GoodSchedule
<1>2. ASSUME GoodSchedule(mSchedule), AllBelow(mSchedule, mNextId), Scalars
      PROVE  IInv
  <2>1. SchedulerTypeOK
    BY <1>2 DEF GoodSchedule, Scalars, SchedulerTypeOK, Lists
  <2>2. ASSUME NEW p \in Priorities
        PROVE  GoodList(mSchedule[p]) /\ DOMAIN mSchedule[p] = 1 .. Len(mSchedule[p])
    BY <1>2, ListTypes DEF GoodSchedule
  <2>3. Ordered /\ AddedInOrder
    BY <2>2 DEF Ordered, AddedInOrder, GoodList
  <2>4. UniqueIds
    <3> SUFFICES ASSUME NEW p \in Priorities, NEW r \in Priorities,
                        NEW i \in DOMAIN mSchedule[p], NEW j \in DOMAIN mSchedule[r],
                        mSchedule[p][i].transmissionId = mSchedule[r][j].transmissionId
                 PROVE  p = r /\ i = j
      BY DEF UniqueIds
    <3>1. p = r
      BY <1>2 DEF GoodSchedule, ToSet
    <3>2. i = j
      BY <2>2, <3>1 DEF GoodList, DistinctList
    <3> QED
      BY <3>1, <3>2
  <2>5. IdsIssued
    BY <1>2 DEF IdsIssued, AllBelow, ToSet
  <2>6. InOwnList
    BY <1>2 DEF InOwnList, GoodSchedule, ToSet
  <2> QED
    BY <2>1, <2>3, <2>4, <2>5, <2>6 DEF IInv
<1> QED
  BY <1>1, <1>2

\* The same of the state after a step.
LEMMA IInvByListNext ==
  (IInv <=> GoodSchedule(mSchedule) /\ AllBelow(mSchedule, mNextId) /\ Scalars)'
BY IInvByList, PTL

\* Replacing one list by a good one keeps the schedule good, if the elements
\* that are new to it have an ID of their own.
LEMMA ReplaceList ==
  ASSUME NEW s, GoodSchedule(s), NEW p \in Priorities, NEW list, GoodList(list),
         \A r \in Priorities \ {p} : \A t \in ToSet(list), u \in ToSet(s[r]) :
           t.transmissionId # u.transmissionId,
         \A t \in ToSet(list) : t.priority = p
  PROVE  GoodSchedule([s EXCEPT ![p] = list])
BY DEF GoodSchedule, GoodList

\* A cadence time is a natural number.
LEMMA CadenceType ==
  ASSUME NEW now \in Nat, NEW period \in Nat \ {0}, NEW offset \in Nat
  PROVE  computeNextTimeCadence(now, period, offset) \in Nat
<1>1. CASE offset > now \/ offset = 0
  BY <1>1 DEF computeNextTimeCadence
<1>2. CASE offset <= now /\ offset # 0
  <2> DEFINE n == DivideCeiling(now - offset, period)
             m == IF n = 0 THEN 1 ELSE n
  <2>1. n \in Nat
    <3>1. now - offset + period - 1 \in Nat
      BY <1>2
    <3>2. \A a \in Nat, b \in Nat \ {0} : a \div b \in Nat
      OBVIOUS
    <3> QED
      BY <3>1, <3>2 DEF DivideCeiling
  <2>2. m \in Nat
    BY <2>1
  <2>3. computeNextTimeCadence(now, period, offset) = offset + period * m
    BY <1>2 DEF computeNextTimeCadence
  <2> HIDE DEF m
  <2>4. \A a, b \in Nat : a * b \in Nat
    OBVIOUS
  <2> QED
    BY <2>2, <2>3, <2>4
<1> QED
  BY <1>1, <1>2

-----------------------------------------------------------------------------
(* The steps *)

LEMMA InitIInv == SchedulerInit => IInv
<1> SUFFICES ASSUME SchedulerInit PROVE IInv
  OBVIOUS
<1>1. mSchedule \in [Priorities -> Seq(ScheduledTx)]
  BY DEF SchedulerInit
<1>2. \A p \in Priorities : DOMAIN mSchedule[p] = {}
  BY DEF SchedulerInit
<1>3. SchedulerTypeOK
  BY <1>1, IdAssumption DEF SchedulerInit, SchedulerTypeOK, INVALID_TX_ID
<1> QED
  BY <1>2, <1>3 DEF IInv, Ordered, OrderedList, UniqueIds, AddedInOrder, StampedList, IdsIssued, InOwnList

\* add(): the new transmission has an ID above all others.
LEMMA AddIInv ==
  ASSUME IInv, NEW r \in Requests, NEW txTime \in Nat, AddTx(r, txTime)
  PROVE  IInv'
<1> DEFINE p == r.priority
           tx == [transmissionId |-> mNextId,
                  priority |-> r.priority,
                  recipientAddr |-> r.recipientAddr,
                  txDurationUs |-> r.txDurationUs,
                  autoRepeatUs |-> r.autoRepeatUs,
                  autoRepeatEndTimeUs |->
                    IF r.repeatFor = 0 THEN 0 ELSE currentTimeUs + r.repeatFor,
                  nextTxTimeUs |-> txTime]
           new == Insert(mSchedule[p], tx)
<1>1. GoodSchedule(mSchedule) /\ AllBelow(mSchedule, mNextId) /\ Scalars
  BY IInvByList
<1>2. r \in RequestType
  BY RequestsAssumption
<1>3. /\ mNextId \in 1 .. TxIdModulus - 1
      /\ mNextId' = (mNextId + 1) % TxIdModulus
      /\ mSchedule' = [mSchedule EXCEPT ![p] = new]
      /\ UNCHANGED <<currentTxId, currentTimeUs>>
  BY <1>1 DEF AddTx, Scalars, INVALID_TX_ID, IdAfter
<1>4. tx \in ScheduledTx /\ p \in Priorities
  BY <1>1, <1>2, <1>3 DEF ScheduledTx, RequestType, Scalars
<1>5. tx.transmissionId = mNextId /\ tx.priority = p
  OBVIOUS
<1> HIDE DEF tx
<1>6. \A q \in Priorities : \A t \in ToSet(mSchedule[q]) : t.transmissionId < mNextId
  BY <1>1, <1>3 DEF AllBelow, INVALID_TX_ID
<1>7. GoodList(mSchedule[p])
  BY <1>1, <1>4 DEF GoodSchedule
<1>8. \A i \in 1 .. Len(mSchedule[p]) : /\ mSchedule[p][i].transmissionId < tx.transmissionId
                                       /\ mSchedule[p][i].transmissionId # tx.transmissionId
  <2> SUFFICES ASSUME NEW i \in 1 .. Len(mSchedule[p])
               PROVE  /\ mSchedule[p][i].transmissionId < tx.transmissionId
                      /\ mSchedule[p][i].transmissionId # tx.transmissionId
    OBVIOUS
  <2>1. mSchedule[p][i] \in ToSet(mSchedule[p]) /\ mSchedule[p][i] \in ScheduledTx
    BY <1>7, ListTypes DEF GoodList, ToSet
  <2> QED
    BY <1>3, <1>4, <1>5, <1>6, <2>1, TransmissionTypes
<1>9. GoodList(new) /\ ToSet(new) = ToSet(mSchedule[p]) \cup {tx}
  BY <1>4, <1>7, <1>8, InsertPreserves
<1> HIDE DEF new
<1>10. GoodSchedule(mSchedule')
  <2>1. \A q \in Priorities \ {p} : \A t \in ToSet(new), u \in ToSet(mSchedule[q]) :
          t.transmissionId # u.transmissionId
    <3> SUFFICES ASSUME NEW q \in Priorities \ {p}, NEW t \in ToSet(new),
                        NEW u \in ToSet(mSchedule[q])
                 PROVE  t.transmissionId # u.transmissionId
      OBVIOUS
    <3>1. CASE t = tx
      <4>1. u \in ScheduledTx
        BY <1>1, ListTypes DEF GoodSchedule, ToSet
      <4> QED
        BY <1>3, <1>5, <1>6, <3>1, <4>1, TransmissionTypes
    <3>2. CASE t # tx
      BY <1>1, <1>4, <1>9, <3>2 DEF GoodSchedule
    <3> QED
      BY <3>1, <3>2
  <2>2. \A t \in ToSet(new) : t.priority = p
    BY <1>1, <1>4, <1>5, <1>9 DEF GoodSchedule
  <2> QED
    BY <1>1, <1>3, <1>4, <1>9, <2>1, <2>2, ReplaceList
<1>11. AllBelow(mSchedule', mNextId')
  <2> SUFFICES ASSUME mNextId' # INVALID_TX_ID,
                      NEW q \in Priorities, NEW t \in ToSet(mSchedule'[q])
               PROVE  t.transmissionId < mNextId'
    BY DEF AllBelow
  <2>1. mNextId' = mNextId + 1
    BY <1>3, IdAssumption DEF INVALID_TX_ID
  <2>2. t = tx \/ t \in ToSet(mSchedule[q])
    BY <1>1, <1>3, <1>4, <1>9 DEF GoodSchedule
  <2>3. CASE t = tx
    BY <1>3, <1>5, <2>1, <2>3
  <2>4. CASE t \in ToSet(mSchedule[q])
    <3>1. t \in ScheduledTx /\ t.transmissionId < mNextId
      BY <1>1, <1>6, <2>4, ListTypes DEF GoodSchedule, ToSet
    <3> QED
      BY <1>3, <2>1, <3>1, TransmissionTypes
  <2> QED
    BY <2>2, <2>3, <2>4
<1>12. Scalars'
  BY <1>1, <1>3, IdAssumption DEF Scalars
<1> QED
  BY <1>10, <1>11, <1>12, IInvByListNext

\* popItem(), below writeTask(): a repeated transmission goes back into the list
\* it was taken from, with its own ID.
LEMMA PoppedProperties ==
  ASSUME IInv, NEW p \in Priorities, NEW i \in DOMAIN mSchedule[p]
  PROVE  /\ GoodList(Popped(p, i))
         /\ \A t \in ToSet(Popped(p, i)) :
              \E u \in ToSet(mSchedule[p]) : /\ t.transmissionId = u.transmissionId
                                             /\ t.priority = u.priority
<1> DEFINE list == mSchedule[p]
           tx == list[i]
           rest == RemoveAt(list, i)
           again == [tx EXCEPT !.nextTxTimeUs =
                       computeNextTimeCadence(currentTimeUs, tx.autoRepeatUs, @)]
<1>1. GoodSchedule(mSchedule) /\ currentTimeUs \in Nat
  BY IInvByList DEF Scalars
<1>2. GoodList(list) /\ list \in Lists
  BY <1>1 DEF GoodSchedule, GoodList
<1>3. /\ Len(list) \in Nat
      /\ DOMAIN list = 1 .. Len(list)
      /\ i \in 1 .. Len(list)
      /\ tx \in ScheduledTx
      /\ tx \in ToSet(list)
  BY <1>2, ListTypes DEF ToSet
<1>4. /\ rest \in Lists
      /\ Len(rest) = Len(list) - 1
      /\ \A j \in 1 .. Len(list) - 1 : rest[j] = IF j < i THEN list[j] ELSE list[j + 1]
  BY <1>2, <1>3, RemoveAtProperties
<1>5. GoodList(rest) /\ ToSet(rest) \subseteq ToSet(list)
  BY <1>2, <1>3, RemoveAtSubList, SubListPreserves
<1>6. Popped(p, i) = IF Repeats(tx) THEN Insert(rest, again) ELSE rest
  BY DEF Popped
<1>7. CASE ~ Repeats(tx)
  BY <1>5, <1>6, <1>7
<1>8. CASE Repeats(tx)
  <2>1. tx.autoRepeatUs \in Nat \ {0} /\ tx.nextTxTimeUs \in Nat
    BY <1>3, <1>8, TransmissionTypes DEF Repeats
  <2>2. computeNextTimeCadence(currentTimeUs, tx.autoRepeatUs, tx.nextTxTimeUs) \in Nat
    BY <1>1, <2>1, CadenceType
  <2>3. /\ again \in ScheduledTx
        /\ again.transmissionId = tx.transmissionId
        /\ again.autoRepeatUs = tx.autoRepeatUs
        /\ again.priority = tx.priority
    BY <1>3, <2>2 DEF ScheduledTx
  <2>4. \A j \in 1 .. Len(rest) : rest[j].transmissionId # again.transmissionId
    <3> SUFFICES ASSUME NEW j \in 1 .. Len(rest)
                 PROVE  rest[j].transmissionId # tx.transmissionId
      BY <2>3
    <3>1. PICK k \in 1 .. Len(list) : k # i /\ rest[j] = list[k]
      <4>1. CASE j < i
        BY <1>3, <1>4, <4>1
      <4>2. CASE j >= i
        <5>1. j + 1 \in 1 .. Len(list) /\ j + 1 # i /\ rest[j] = list[j + 1]
          BY <1>3, <1>4, <4>2
        <5> QED
          BY <5>1
      <4> QED
        BY <1>3, <1>4, <4>1, <4>2
    <3> QED
      BY <1>2, <1>3, <3>1 DEF GoodList, DistinctList
  <2> HIDE DEF again, rest
  <2>5. GoodList(Insert(rest, again)) /\ ToSet(Insert(rest, again)) = ToSet(rest) \cup {again}
    BY <1>5, <2>1, <2>3, <2>4, InsertPreserves
  <2> QED
    BY <1>3, <1>5, <1>6, <1>8, <2>3, <2>5
<1> QED
  BY <1>7, <1>8

LEMMA WriteTaskIInv ==
  ASSUME IInv, WriteTask
  PROVE  IInv'
<1>1. GoodSchedule(mSchedule) /\ AllBelow(mSchedule, mNextId) /\ Scalars
  BY IInvByList
<1>0. PICK p \in Priorities : \E i \in DOMAIN mSchedule[p] :
        /\ currentTxId' = mSchedule[p][i].transmissionId
        /\ mSchedule' = [mSchedule EXCEPT ![p] = Popped(p, i)]
  BY DEF WriteTask
<1>2. PICK i \in DOMAIN mSchedule[p] :
        /\ currentTxId' = mSchedule[p][i].transmissionId
        /\ mSchedule' = [mSchedule EXCEPT ![p] = Popped(p, i)]
  BY <1>0
<1>3. mNextId' = mNextId /\ currentTimeUs' = currentTimeUs
  BY DEF WriteTask
<1> DEFINE new == Popped(p, i)
<1>4. /\ GoodList(new)
      /\ \A t \in ToSet(new) :
           \E u \in ToSet(mSchedule[p]) : /\ t.transmissionId = u.transmissionId
                                          /\ t.priority = u.priority
  BY PoppedProperties
<1> HIDE DEF new
<1>5. /\ \A r \in Priorities \ {p} : \A t \in ToSet(new), u \in ToSet(mSchedule[r]) :
             t.transmissionId # u.transmissionId
      /\ \A t \in ToSet(new) : t.priority = p
  BY <1>1, <1>4 DEF GoodSchedule
<1>6. GoodSchedule(mSchedule')
  BY <1>1, <1>2, <1>4, <1>5, ReplaceList DEF new
<1>7. AllBelow(mSchedule', mNextId')
  <2> SUFFICES ASSUME mNextId # INVALID_TX_ID, NEW q \in Priorities, NEW t \in ToSet(mSchedule'[q])
               PROVE  t.transmissionId < mNextId
    BY <1>3 DEF AllBelow
  <2>1. CASE q = p
    <3>1. t \in ToSet(new)
      BY <1>1, <1>2, <2>1 DEF GoodSchedule, new
    <3> QED
      BY <1>1, <1>4, <3>1 DEF AllBelow
  <2>2. CASE q # p
    <3>1. t \in ToSet(mSchedule[q])
      BY <1>1, <1>2, <2>2 DEF GoodSchedule
    <3> QED
      BY <1>1, <3>1 DEF AllBelow
  <2> QED
    BY <2>1, <2>2
<1>8. Scalars'
  <2>1. mSchedule[p][i] \in ScheduledTx
    BY <1>1, ListTypes DEF GoodSchedule
  <2>2. currentTxId' \in 0 .. TxIdModulus - 1
    BY <1>2, <2>1, IdAssumption DEF ScheduledTx
  <2> QED
    BY <1>1, <1>3, <2>2 DEF Scalars
<1> QED
  BY <1>6, <1>7, <1>8, IInvByListNext

\* The three cancel functions only leave sub-lists.
LEMMA CancelIInv ==
  ASSUME IInv, NEW doomed, Cancel(doomed)
  PROVE  IInv'
<1>1. GoodSchedule(mSchedule) /\ AllBelow(mSchedule, mNextId) /\ Scalars
  BY IInvByList
<1>2. /\ mSchedule' = Without(doomed)
      /\ UNCHANGED <<mNextId, currentTxId, currentTimeUs>>
  BY DEF Cancel
<1>3. ASSUME NEW p \in Priorities
      PROVE  GoodList(mSchedule'[p]) /\ ToSet(mSchedule'[p]) \subseteq ToSet(mSchedule[p])
  <2> DEFINE K == {i \in DOMAIN mSchedule[p] : mSchedule[p][i] \notin doomed}
  <2>1. GoodList(mSchedule[p]) /\ mSchedule[p] \in Lists
    BY <1>1 DEF GoodSchedule, GoodList
  <2>2. K \in SUBSET (1 .. Len(mSchedule[p]))
    BY <2>1, ListTypes
  <2>3. mSchedule'[p] = KeepPositions(mSchedule[p], K)
    BY <1>2 DEF Without
  <2> HIDE DEF K
  <2>4. IsSubList(mSchedule'[p], mSchedule[p])
    BY <2>1, <2>2, <2>3, KeepPositionsProperties
  <2> QED
    BY <2>1, <2>4, SubListPreserves
<1>4. GoodSchedule(mSchedule')
  <2>1. mSchedule' \in [Priorities -> Lists]
    BY <1>2, <1>3 DEF Without, GoodList
  <2>2. \A p, r \in Priorities : p # r =>
          \A t \in ToSet(mSchedule'[p]), u \in ToSet(mSchedule'[r]) :
            t.transmissionId # u.transmissionId
    BY <1>1, <1>3 DEF GoodSchedule
  <2>3. \A p \in Priorities : \A t \in ToSet(mSchedule'[p]) : t.priority = p
    BY <1>1, <1>3 DEF GoodSchedule
  <2> QED
    BY <1>3, <2>1, <2>2, <2>3 DEF GoodSchedule
<1>5. AllBelow(mSchedule', mNextId')
  BY <1>1, <1>2, <1>3 DEF AllBelow
<1>6. Scalars'
  BY <1>1, <1>2 DEF Scalars
<1> QED
  BY <1>4, <1>5, <1>6, IInvByListNext

\* Steps which leave the schedule and the counter alone.
LEMMA OtherIInv ==
  ASSUME IInv, UNCHANGED <<mSchedule, mNextId>>, Scalars'
  PROVE  IInv'
BY IInvByList, IInvByListNext DEF AllBelow, GoodSchedule

\* Every step keeps the invariant.
LEMMA NextIInv ==
  ASSUME IInv, [SchedulerNext]_schedulerVars
  PROVE  IInv'
<1>0. Scalars
  BY IInvByList
<1>1. ASSUME NEW r \in Requests, NEW txTime \in {TX_TIME_ASAP} \cup TxTimes,
             AddTx(r, txTime)
      PROVE  IInv'
  <2>1. txTime \in Nat
    BY TxTimesAssumption DEF TX_TIME_ASAP
  <2> QED
    BY <1>1, <2>1, AddIInv
<1>2. CASE WriteTask
  BY <1>2, WriteTaskIInv
<1>3. CASE ReadTask
  <2>1. Scalars' /\ UNCHANGED <<mSchedule, mNextId>>
    BY <1>0, <1>3, IdAssumption DEF ReadTask, Scalars, INVALID_TX_ID
  <2> QED
    BY <2>1, OtherIInv
<1>4. ASSUME NEW id \in 1 .. TxIdModulus - 1, CancelById(id) PROVE IInv'
  BY <1>4, CancelIInv DEF CancelById
<1>5. ASSUME NEW r \in Requests, CancelByRecipient(r.recipientAddr) PROVE IInv'
  BY <1>5, CancelIInv DEF CancelByRecipient
<1>6. CASE CancelAll
  BY <1>6, CancelIInv DEF CancelAll
<1>7. CASE Tick
  <2>1. Scalars' /\ UNCHANGED <<mSchedule, mNextId>>
    BY <1>0, <1>7 DEF Tick, Scalars
  <2> QED
    BY <2>1, OtherIInv
<1>8. CASE UNCHANGED schedulerVars
  <2>1. Scalars' /\ UNCHANGED <<mSchedule, mNextId>>
    BY <1>0, <1>8 DEF schedulerVars, Scalars
  <2> QED
    BY <2>1, OtherIInv
<1> QED
  BY <1>1, <1>2, <1>3, <1>4, <1>5, <1>6, <1>7, <1>8 DEF SchedulerNext

-----------------------------------------------------------------------------
(* Theorems *)

\* The inductive invariant holds of every behaviour.
THEOREM Invariance == SchedulerSpec => []IInv
<1>1. IInv /\ [SchedulerNext]_schedulerVars => IInv'
  BY NextIInv
<1> QED
  BY <1>1, InitIInv, PTL DEF SchedulerSpec

\* Type correctness of the schedule.
THEOREM TypeCorrect == SchedulerSpec => []SchedulerTypeOK
<1>1. IInv => SchedulerTypeOK
  BY DEF IInv
<1> QED
  BY <1>1, Invariance, PTL

\* The lists of the schedule are always ordered by due time.
THEOREM AlwaysOrdered == SchedulerSpec => []Ordered
<1>1. IInv => Ordered
  BY DEF IInv
<1> QED
  BY <1>1, Invariance, PTL

\* No two scheduled transmissions ever have the same ID.
THEOREM AlwaysUniqueIds == SchedulerSpec => []UniqueIds
<1>1. IInv => UniqueIds
  BY DEF IInv
<1> QED
  BY <1>1, Invariance, PTL

-----------------------------------------------------------------------------
(* What is started, and when *)

\* Only writeTask() starts a transmission: the one peekNext() points at, which it
\* pops.
LEMMA StartedAndPopped ==
  ASSUME IInv, [SchedulerNext]_schedulerVars, NEW tx, StartsTx(tx)
  PROVE  \E p \in Priorities : \E i \in DOMAIN mSchedule[p] :
           /\ PeekNext(p, i)
           /\ tx = mSchedule[p][i]
           /\ mSchedule' = [mSchedule EXCEPT ![p] = Popped(p, i)]
<1>1. GoodSchedule(mSchedule)
  BY IInvByList
<1>2. PICK q \in Priorities : tx \in ToSet(mSchedule[q])
  BY DEF StartsTx, Scheduled
<1>3. PICK j \in DOMAIN mSchedule[q] : tx = mSchedule[q][j]
  BY <1>2 DEF ToSet
<1>4. currentTxId = INVALID_TX_ID /\ currentTxId' # INVALID_TX_ID
  <2>1. tx \in ScheduledTx
    BY <1>1, <1>3, ListTypes DEF GoodSchedule
  <2> QED
    BY <2>1, TransmissionTypes DEF StartsTx, INVALID_TX_ID
<1>5. WriteTask
  BY <1>4 DEF SchedulerNext, schedulerVars, AddTx, ReadTask, CancelById, CancelByRecipient, CancelAll, Cancel, Tick
<1>6. PICK p \in Priorities : \E i \in DOMAIN mSchedule[p] :
        /\ PeekNext(p, i)
        /\ currentTxId' = mSchedule[p][i].transmissionId
        /\ mSchedule' = [mSchedule EXCEPT ![p] = Popped(p, i)]
  BY <1>5 DEF WriteTask
<1>7. PICK i \in DOMAIN mSchedule[p] :
        /\ PeekNext(p, i)
        /\ currentTxId' = mSchedule[p][i].transmissionId
        /\ mSchedule' = [mSchedule EXCEPT ![p] = Popped(p, i)]
  BY <1>6
<1>8. p = q /\ i = j
  BY <1>3, <1>7 DEF IInv, UniqueIds, StartsTx
<1> QED
  BY <1>3, <1>7, <1>8

LEMMA StartedByPeek ==
  ASSUME IInv, [SchedulerNext]_schedulerVars, NEW tx, StartsTx(tx)
  PROVE  \E p \in Priorities : \E i \in DOMAIN mSchedule[p] :
           PeekNext(p, i) /\ tx = mSchedule[p][i]
BY StartedAndPopped

\* The heads stand for their lists: nothing of higher priority is due before a
\* started transmission is over.
THEOREM NeverInverted == SchedulerSpec => NoPriorityInversion
<1>1. ASSUME IInv, [SchedulerNext]_schedulerVars, NEW tx \in Scheduled, StartsTx(tx),
             NEW other \in Scheduled, other.priority < tx.priority
      PROVE  other.nextTxTimeUs >= currentTimeUs + tx.txDurationUs
  <2>1. GoodSchedule(mSchedule) /\ currentTimeUs \in Nat
    BY <1>1, IInvByList DEF Scalars
  <2>2. PICK p \in Priorities : \E i \in DOMAIN mSchedule[p] :
          PeekNext(p, i) /\ tx = mSchedule[p][i]
    BY <1>1, StartedByPeek
  <2>3. PICK i \in DOMAIN mSchedule[p] : PeekNext(p, i) /\ tx = mSchedule[p][i]
    BY <2>2
  <2>4. PICK r \in Priorities : other \in ToSet(mSchedule[r])
    BY <1>1 DEF Scheduled
  <2>5. PICK j \in DOMAIN mSchedule[r] : other = mSchedule[r][j]
    BY <2>4 DEF ToSet
  <2>6. tx.priority = p /\ other.priority = r
    BY <2>1, <2>3, <2>4 DEF GoodSchedule, ToSet
  <2>7. r \in 0 .. p - 1
    BY <1>1, <2>6, PrioritiesAssumption DEF Priorities
  <2>8. /\ mSchedule[r] \in Lists /\ mSchedule[p] \in Lists
        /\ OrderedList(mSchedule[r])
    BY <2>1 DEF GoodSchedule, GoodList
  <2>9. /\ DOMAIN mSchedule[r] = 1 .. Len(mSchedule[r])
        /\ Len(mSchedule[r]) \in Nat
        /\ tx \in ScheduledTx
        /\ other \in ScheduledTx
        /\ mSchedule[r][1] \in ScheduledTx
    BY <2>3, <2>5, <2>8, ListTypes
  <2>10. /\ tx.txDurationUs \in Nat
         /\ other.nextTxTimeUs \in Nat
         /\ mSchedule[r][1].nextTxTimeUs \in Nat
    BY <2>9, TransmissionTypes
  <2>11. mSchedule[r] # <<>>
    BY <2>5, <2>9
  <2>12. mSchedule[r][1].nextTxTimeUs >= currentTimeUs + tx.txDurationUs
    BY <2>1, <2>3, <2>7, <2>10, <2>11 DEF PeekNext, Usable, InTheWay
  <2>13. mSchedule[r][1].nextTxTimeUs <= other.nextTxTimeUs
    BY <2>5, <2>8, <2>9, <2>10 DEF OrderedList
  <2> QED
    BY <2>1, <2>10, <2>12, <2>13
<1>2. IInv /\ [SchedulerNext]_schedulerVars =>
        [\A tx \in Scheduled : StartsTx(tx) =>
           \A other \in Scheduled :
             other.priority < tx.priority
               => other.nextTxTimeUs >= currentTimeUs + tx.txDurationUs]_schedulerVars
  BY <1>1
<1> QED
  BY <1>2, Invariance, PTL DEF SchedulerSpec, NoPriorityInversion

\* Nothing for the same recipient is overtaken at its priority.
THEOREM OrderPreserved == SchedulerSpec => RecipientOrder
<1>1. ASSUME IInv, [SchedulerNext]_schedulerVars, NEW tx \in Scheduled, StartsTx(tx),
             NEW other \in Scheduled \ {tx},
             other.priority = tx.priority, other.recipientAddr = tx.recipientAddr
      PROVE  \/ tx.nextTxTimeUs < other.nextTxTimeUs
             \/ /\ tx.nextTxTimeUs = other.nextTxTimeUs
                /\ tx.autoRepeatUs = 0 /\ other.autoRepeatUs = 0
                     => tx.transmissionId < other.transmissionId
  <2>1. GoodSchedule(mSchedule)
    BY <1>1, IInvByList
  <2>2. PICK p \in Priorities : \E i \in DOMAIN mSchedule[p] :
          PeekNext(p, i) /\ tx = mSchedule[p][i]
    BY <1>1, StartedByPeek
  <2>3. PICK i \in DOMAIN mSchedule[p] : PeekNext(p, i) /\ tx = mSchedule[p][i]
    BY <2>2
  <2>4. PICK r \in Priorities : other \in ToSet(mSchedule[r])
    BY <1>1 DEF Scheduled
  <2>5. PICK j \in DOMAIN mSchedule[r] : other = mSchedule[r][j]
    BY <2>4 DEF ToSet
  <2>6. r = p
    BY <1>1, <2>1, <2>3, <2>4 DEF GoodSchedule, ToSet
  <2>7. GoodList(mSchedule[p]) /\ mSchedule[p] \in Lists
    BY <2>1 DEF GoodSchedule, GoodList
  <2>8. /\ DOMAIN mSchedule[p] = 1 .. Len(mSchedule[p])
        /\ Len(mSchedule[p]) \in Nat
        /\ tx \in ScheduledTx
        /\ other \in ScheduledTx
    BY <2>3, <2>5, <2>6, <2>7, ListTypes
  <2>9. tx.nextTxTimeUs \in Nat /\ other.nextTxTimeUs \in Nat
    BY <2>8, TransmissionTypes
  <2>10. i # j /\ ~ (j < i)
    BY <1>1, <2>3, <2>5, <2>6, <2>8 DEF PeekNext, Usable
  <2>11. i < j /\ i \in DOMAIN mSchedule[p] /\ j \in DOMAIN mSchedule[p]
    BY <2>3, <2>5, <2>6, <2>8, <2>10
  <2>12. tx.nextTxTimeUs <= other.nextTxTimeUs
    BY <2>3, <2>5, <2>6, <2>7, <2>11 DEF GoodList, OrderedList
  <2>13. /\ tx.nextTxTimeUs = other.nextTxTimeUs
         /\ tx.autoRepeatUs = 0 /\ other.autoRepeatUs = 0
         => tx.transmissionId < other.transmissionId
    BY <2>3, <2>5, <2>6, <2>7, <2>11 DEF GoodList, StampedList
  <2> QED
    BY <2>9, <2>12, <2>13
<1>2. IInv /\ [SchedulerNext]_schedulerVars =>
        [\A tx \in Scheduled : StartsTx(tx) =>
           \A other \in Scheduled \ {tx} :
             /\ other.priority = tx.priority
             /\ other.recipientAddr = tx.recipientAddr
             => \/ tx.nextTxTimeUs < other.nextTxTimeUs
                \/ /\ tx.nextTxTimeUs = other.nextTxTimeUs
                   /\ tx.autoRepeatUs = 0 /\ other.autoRepeatUs = 0
                        => tx.transmissionId < other.transmissionId]_schedulerVars
  BY <1>1
<1> QED
  BY <1>2, Invariance, PTL DEF SchedulerSpec, RecipientOrder

-----------------------------------------------------------------------------
(* Repetitions *)

LEMMA DivMod ==
  ASSUME NEW a \in Nat, NEW b \in Nat \ {0}
  PROVE  /\ a \div b \in Nat
         /\ b * (a \div b) <= a
         /\ a < b * (a \div b) + b
OBVIOUS

LEMMA MulMod ==
  ASSUME NEW p \in Nat \ {0}, NEW n \in Nat
  PROVE  (p * n) % p = 0
OBVIOUS

LEMMA ModSelf ==
  ASSUME NEW p \in Nat \ {0}
  PROVE  p % p = 0
OBVIOUS

\* For an item that is due, the next time of the cadence is on its grid, not in
\* the past and at most a period away.
LEMMA CadenceProperties ==
  ASSUME NEW now \in Nat, NEW period \in Nat \ {0}, NEW offset \in Nat, offset <= now
  PROVE  LET next == computeNextTimeCadence(now, period, offset)
         IN  /\ next \in now .. now + period
             /\ offset # 0 => (next - offset) % period = 0
             /\ next = now => offset \notin {0, now}
             /\ next = now + period => offset \in {0, now}
<1>1. CASE offset = 0
  BY <1>1 DEF computeNextTimeCadence
<1>2. CASE offset # 0
  <2> DEFINE d == now - offset
             n == DivideCeiling(d, period)
             next == computeNextTimeCadence(now, period, offset)
  <2>1. d \in Nat /\ d + period - 1 \in Nat
    OBVIOUS
  <2>2. /\ n \in Nat
        /\ period * n <= d + period - 1
        /\ d + period - 1 < period * n + period
    BY <2>1, DivMod DEF DivideCeiling
  <2>3. next = offset + period * (IF n = 0 THEN 1 ELSE n)
    BY <1>2 DEF computeNextTimeCadence
  <2>4. now = offset + d
    OBVIOUS
  <2> HIDE DEF d, n, next
  <2>5. CASE n = 0
    <3>1. d = 0 /\ next = offset + period
      BY <2>1, <2>2, <2>3, <2>5
    <3>2. /\ next - offset = period /\ next \in now .. now + period
          /\ next = now + period /\ next # now /\ offset = now
      BY <2>4, <3>1
    <3> QED
      BY <3>2, ModSelf DEF next
  <2>6. CASE n # 0
    <3> DEFINE m == period * n
    <3>1. m \in Nat /\ m <= d + period - 1 /\ d + period - 1 < m + period /\ next = offset + m
      BY <2>2, <2>3, <2>6
    <3>2. m % period = 0
      BY <2>2, MulMod
    <3> HIDE DEF m
    <3>3. next - offset = m /\ next \in now .. now + period
      BY <2>1, <2>4, <3>1
    <3>4. d # 0
      BY <2>1, <2>2, <2>6
    <3>5. offset \notin {0, now} /\ next # now + period
      BY <1>2, <2>1, <2>4, <3>1, <3>4
    <3> QED
      BY <3>2, <3>3, <3>5 DEF next
  <2> QED
    BY <2>5, <2>6
<1> QED
  BY <1>1, <1>2

\* What the transmission that was popped becomes, if it is repeated.
Again(tx) == [tx EXCEPT !.nextTxTimeUs =
                computeNextTimeCadence(currentTimeUs, tx.autoRepeatUs, @)]

\* popItem() leaves nothing with the ID of the transmission but its repetition.
LEMMA PoppedSameId ==
  ASSUME IInv, NEW p \in Priorities, NEW i \in DOMAIN mSchedule[p],
         NEW t \in ToSet(Popped(p, i)),
         t.transmissionId = mSchedule[p][i].transmissionId
  PROVE  Repeats(mSchedule[p][i]) /\ t = Again(mSchedule[p][i])
<1> DEFINE list == mSchedule[p]
           tx == list[i]
           rest == RemoveAt(list, i)
<1>1. GoodSchedule(mSchedule) /\ currentTimeUs \in Nat
  BY IInvByList DEF Scalars
<1>2. GoodList(list) /\ list \in Lists
  BY <1>1 DEF GoodSchedule, GoodList
<1>3. /\ Len(list) \in Nat
      /\ DOMAIN list = 1 .. Len(list)
      /\ i \in 1 .. Len(list)
      /\ tx \in ScheduledTx
  BY <1>2, ListTypes DEF ToSet
<1>4. /\ rest \in Lists
      /\ Len(rest) = Len(list) - 1
      /\ \A j \in 1 .. Len(list) - 1 : rest[j] = IF j < i THEN list[j] ELSE list[j + 1]
  BY <1>2, <1>3, RemoveAtProperties
<1>5. \A j \in 1 .. Len(rest) : rest[j].transmissionId # tx.transmissionId
  <2> SUFFICES ASSUME NEW j \in 1 .. Len(rest)
               PROVE  rest[j].transmissionId # tx.transmissionId
    OBVIOUS
  <2>1. PICK k \in 1 .. Len(list) : k # i /\ rest[j] = list[k]
    <3>1. CASE j < i
      BY <1>3, <1>4, <3>1
    <3>2. CASE j >= i
      <4>1. j + 1 \in 1 .. Len(list) /\ j + 1 # i /\ rest[j] = list[j + 1]
        BY <1>3, <1>4, <3>2
      <4> QED
        BY <4>1
    <3> QED
      BY <1>3, <1>4, <3>1, <3>2
  <2> QED
    BY <1>2, <1>3, <2>1 DEF GoodList, DistinctList
<1>6. t \notin ToSet(rest)
  <2>1. DOMAIN rest = 1 .. Len(rest)
    BY <1>4, ListTypes
  <2> HIDE DEF rest
  <2> QED
    BY <1>5, <2>1 DEF ToSet
<1>7. Popped(p, i) = IF Repeats(tx) THEN Insert(rest, Again(tx)) ELSE rest
  BY DEF Popped, Again
<1>8. Repeats(tx)
  BY <1>6, <1>7
<1>9. Again(tx) \in ScheduledTx /\ Again(tx).transmissionId = tx.transmissionId
  <2>1. tx.autoRepeatUs \in Nat \ {0} /\ tx.nextTxTimeUs \in Nat
    BY <1>3, <1>8, TransmissionTypes DEF Repeats
  <2>2. computeNextTimeCadence(currentTimeUs, tx.autoRepeatUs, tx.nextTxTimeUs) \in Nat
    BY <1>1, <2>1, CadenceType
  <2> QED
    BY <1>3, <2>2 DEF ScheduledTx, Again
<1>10. t \in ToSet(Insert(rest, Again(tx)))
  BY <1>7, <1>8
<1> DEFINE again == Again(tx)
<1>11. again \in ScheduledTx
  BY <1>9
<1> HIDE DEF again, rest
<1>12. ToSet(Insert(rest, again)) \subseteq ToSet(rest) \cup {again}
  <2>1. /\ Len(rest) \in Nat
        /\ DOMAIN rest = 1 .. Len(rest)
        /\ Insert(rest, again) \in Lists
        /\ Len(Insert(rest, again)) = Len(rest) + 1
    BY <1>4, <1>11, ListTypes, InsertProperties
  <2>2. PICK k \in 1 .. Len(rest) + 1 : \A j \in 1 .. Len(rest) + 1 :
          Insert(rest, again)[j] = IF j < k THEN rest[j]
                                   ELSE IF j = k THEN again ELSE rest[j - 1]
    BY <1>4, <1>11, InsertProperties
  <2>3. DOMAIN Insert(rest, again) = 1 .. Len(rest) + 1
    BY <2>1, ListTypes
  <2> DEFINE new == Insert(rest, again)
  <2> HIDE DEF new
  <2>4. ASSUME NEW j \in 1 .. Len(rest) + 1
        PROVE  new[j] = again \/ \E m \in 1 .. Len(rest) : new[j] = rest[m]
    <3>1. CASE j < k
      BY <2>1, <2>2, <3>1 DEF new
    <3>2. CASE j = k
      BY <2>2, <3>2 DEF new
    <3>3. CASE j > k
      <4>1. j - 1 \in 1 .. Len(rest) /\ new[j] = rest[j - 1]
        BY <2>1, <2>2, <3>3 DEF new
      <4> QED
        BY <4>1
    <3> QED
      BY <2>1, <3>1, <3>2, <3>3
  <2> QED
    BY <2>1, <2>3, <2>4 DEF ToSet, new
<1>13. t = again
  BY <1>6, <1>10, <1>12 DEF again
<1> QED
  BY <1>8, <1>13 DEF again

\* Repetitions stay on their grid and skip no time of it, are planned for now only
\* when popped late by whole periods, and end in time.
THEOREM CadenceAlwaysKept == SchedulerSpec => CadenceKept
<1>1. ASSUME IInv, [SchedulerNext]_schedulerVars, NEW tx \in Scheduled, NEW next \in Scheduled',
             StartsTx(tx), next.transmissionId = tx.transmissionId
      PROVE  OnCadence(tx, next)
  <2>1. GoodSchedule(mSchedule) /\ currentTimeUs \in Nat
    BY <1>1, IInvByList DEF Scalars
  <2>2. PICK p \in Priorities : \E i \in DOMAIN mSchedule[p] :
          /\ PeekNext(p, i)
          /\ tx = mSchedule[p][i]
          /\ mSchedule' = [mSchedule EXCEPT ![p] = Popped(p, i)]
    BY <1>1, StartedAndPopped
  <2>3. PICK i \in DOMAIN mSchedule[p] :
          /\ PeekNext(p, i)
          /\ tx = mSchedule[p][i]
          /\ mSchedule' = [mSchedule EXCEPT ![p] = Popped(p, i)]
    BY <2>2
  <2>4. /\ mSchedule[p] \in Lists
        /\ DOMAIN mSchedule[p] = 1 .. Len(mSchedule[p])
        /\ Len(mSchedule[p]) \in Nat
        /\ tx \in ScheduledTx
    BY <2>1, <2>3, ListTypes DEF GoodSchedule, GoodList
  <2>5. tx \in ToSet(mSchedule[p])
    BY <2>3 DEF ToSet
  <2>6. PICK q \in Priorities : next \in ToSet(mSchedule'[q])
    BY <1>1 DEF Scheduled
  <2>7. q = p
    <3> SUFFICES ASSUME q # p PROVE FALSE
      OBVIOUS
    <3>1. mSchedule'[q] = mSchedule[q]
      BY <2>1, <2>3 DEF GoodSchedule
    <3> QED
      BY <1>1, <2>1, <2>5, <2>6, <3>1 DEF GoodSchedule
  <2>8. next \in ToSet(Popped(p, i))
    BY <2>1, <2>3, <2>6, <2>7 DEF GoodSchedule
  <2>9. Repeats(tx) /\ next = Again(tx)
    BY <1>1, <2>3, <2>8, PoppedSameId
  <2>10. /\ tx.nextTxTimeUs \in Nat
         /\ tx.autoRepeatUs \in Nat \ {0}
         /\ tx.autoRepeatEndTimeUs \in Nat
    BY <2>4, <2>9, TransmissionTypes DEF Repeats
  <2>11. tx.nextTxTimeUs <= currentTimeUs
    BY <2>3, <2>4 DEF PeekNext, Usable
  <2>12. next.nextTxTimeUs =
           computeNextTimeCadence(currentTimeUs, tx.autoRepeatUs, tx.nextTxTimeUs)
    BY <2>4, <2>9 DEF Again, ScheduledTx
  <2>13. /\ next.nextTxTimeUs \in currentTimeUs .. currentTimeUs + tx.autoRepeatUs
         /\ tx.nextTxTimeUs # 0 =>
              (next.nextTxTimeUs - tx.nextTxTimeUs) % tx.autoRepeatUs = 0
         /\ next.nextTxTimeUs = currentTimeUs =>
              tx.nextTxTimeUs \notin {0, currentTimeUs}
         /\ next.nextTxTimeUs = currentTimeUs + tx.autoRepeatUs =>
              tx.nextTxTimeUs \in {0, currentTimeUs}
    <3> DEFINE now == currentTimeUs
               period == tx.autoRepeatUs
               offset == tx.nextTxTimeUs
               nextTime == next.nextTxTimeUs
    <3>1. now \in Nat /\ period \in Nat \ {0} /\ offset \in Nat /\ offset <= now
      BY <2>1, <2>10, <2>11
    <3>2. nextTime = computeNextTimeCadence(now, period, offset)
      BY <2>12
    <3> HIDE DEF now, period, offset, nextTime
    <3>3. /\ nextTime \in now .. now + period
          /\ offset # 0 => (nextTime - offset) % period = 0
          /\ nextTime = now => offset \notin {0, now}
          /\ nextTime = now + period => offset \in {0, now}
      BY <3>1, <3>2, CadenceProperties
    <3> QED
      BY <3>3 DEF now, period, offset, nextTime
  <2>14. tx.autoRepeatEndTimeUs # 0 => currentTimeUs <= tx.autoRepeatEndTimeUs
    BY <2>9 DEF Repeats
  <2>15. tx.autoRepeatEndTimeUs # 0 =>
           next.nextTxTimeUs <= tx.autoRepeatEndTimeUs + tx.autoRepeatUs
    BY <2>1, <2>10, <2>13, <2>14
  <2> QED
    BY <2>13, <2>15 DEF OnCadence, TX_TIME_ASAP
<1>2. IInv /\ [SchedulerNext]_schedulerVars =>
        [\A tx \in Scheduled, next \in Scheduled' :
           /\ StartsTx(tx)
           /\ next.transmissionId = tx.transmissionId
           => OnCadence(tx, next)]_schedulerVars
  BY <1>1
<1> QED
  BY <1>2, Invariance, PTL DEF SchedulerSpec, CadenceKept
=============================================================================
