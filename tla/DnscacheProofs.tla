--------------------------- MODULE DnscacheProofs ---------------------------
(***************************************************************************)
(* Machine-checked safety of the tables of dnscache.c and dqcache.c for    *)
(* every number of slots and connections, every set of clients and lengths *)
(* and every order of events.                                              *)
(***************************************************************************)
EXTENDS Dqcache, DqDump, TLAPS, FiniteSetTheorems, SequenceTheorems, WellFoundedInduction

One(b) == IF b THEN 1 ELSE 0

URec(n, c) == [active : 0..n, start : 0..c, client : Client \cup {None}, type : {"SOA", "AXFR", "other"}]
TRec(c) == [active : 0..MaxQueries \cup {1}, start : 0..c, state : -1..3,
            buf : Nat, len : Nat, pos : Nat, late : BOOLEAN]

\* What the tables have of each query: the slot of u, or of t, that is to
\* settle it (0 if none).
HU == [j \in USlots |-> u[j].active]
HT == [j \in TSlots |-> IF t[j].state = 0 \/ (pc = "t_query" /\ k = j) THEN t[j].active ELSE 0]

\* Every query under way has one slot, and every slot in use has one.
Settling(hu, ht, lg, n) ==
  /\ \A i \in Serials : lg[i] # "twice" /\ (lg[i] = "unused" <=> i > n)
  /\ \A j \in USlots : hu[j] # 0 => hu[j] \in Serials /\ lg[hu[j]] = "query"
  /\ \A j \in TSlots : ht[j] # 0 => ht[j] \in Serials /\ lg[ht[j]] = "query"
  /\ \A i, j \in USlots : hu[i] # 0 /\ hu[i] = hu[j] => i = j
  /\ \A i, j \in TSlots : ht[i] # 0 /\ ht[i] = ht[j] => i = j
  /\ \A i \in USlots, j \in TSlots : hu[i] # 0 => hu[i] # ht[j]
  /\ \A i \in Serials : lg[i] = "query" => (\E j \in USlots : hu[j] = i) \/ (\E j \in TSlots : ht[j] = i)

LogInv == Settling(HU, HT, log, numqueries)

\* The table u: its counters, its clients, and the slot in hand.
UInv ==
  /\ uactive = Cardinality(ActiveU)
  /\ AnswersAsker
  /\ SoaCounted
  /\ pc = "u_recv" => u[k].active = 0
  /\ pc = "u_query" => u[k].active # 0

\* The table t: its counters, its buffers, and the slot in hand.
BufT == {j \in ActiveT : t[j].buf # 0}
TInv ==
  /\ tactive = Cardinality(ActiveT)
  /\ heap = Cardinality(BufT)
  /\ \A j \in TSlots : t[j].active = 0 => t[j].buf = 0
  /\ BufMatchesState
  /\ pc = "t_accept" => t[k].active = 0
  /\ pc = "t_query" => t[k].active # 0 /\ t[k].state = 3 /\ t[k].pos = t[k].len

PollInv ==
  /\ PolledFirst
  /\ pc = "t_query" => \A j \in ActiveT : j >= k => j \in tpolled

Bounded == pc \in {"u_recv", "t_accept"} => clock < MaxArrivals

IInv == TypeOK /\ LogInv /\ UInv /\ TInv /\ PollInv /\ Bounded

----------------------------------------------------------------------------
(* Slots and counters *)

LEMMA Slots ==
  /\ IsFiniteSet(USlots) /\ IsFiniteSet(TSlots)
  /\ USlots \subseteq Nat /\ TSlots \subseteq Nat /\ 0 \in USlots /\ 0 \in TSlots
<1>1. MAXUDP \in Nat \ {0} /\ MAXTCP \in Nat \ {0}
  BY DnscacheAssumption
<1>2. IsFiniteSet(0..(MAXUDP - 1)) /\ IsFiniteSet(0..(MAXTCP - 1))
  BY <1>1, FS_Interval
<1> QED
  BY <1>1, <1>2 DEF USlots, TSlots

\* A counter follows its set through the change of one element.
LEMMA CountStep ==
  ASSUME NEW S, NEW R, NEW j, IsFiniteSet(S), IsFiniteSet(R), S \ {j} = R \ {j}
  PROVE  Cardinality(R) = Cardinality(S) - One(j \in S) + One(j \in R)
<1>2. Cardinality(S) \in Nat /\ Cardinality(R) \in Nat
  BY FS_CardinalityType
<1>3. CASE (j \in S) = (j \in R)
  <2>1. S = R
    BY <1>3
  <2> QED
    BY <2>1, <1>2 DEF One
<1>4. CASE j \in S /\ j \notin R
  <2>1. R = S \ {j}
    BY <1>4
  <2>2. Cardinality(R) = Cardinality(S) - 1
    BY <2>1, <1>4, FS_RemoveElement
  <2> QED
    BY <2>2, <1>2, <1>4 DEF One
<1>5. CASE j \notin S /\ j \in R
  <2>1. R = S \cup {j}
    BY <1>5
  <2>2. Cardinality(R) = Cardinality(S) + 1
    BY <2>1, <1>5, FS_AddElement
  <2> QED
    BY <2>2, <1>2, <1>5 DEF One
<1> QED
  BY <1>3, <1>4, <1>5

\* The same for sets of slots, with what the step keeps spelled out.
LEMMA USlotCount ==
  ASSUME NEW j \in USlots, NEW S \in SUBSET USlots, NEW R \in SUBSET USlots,
         \A i \in USlots : i # j => (i \in S <=> i \in R)
  PROVE  Cardinality(R) = Cardinality(S) - One(j \in S) + One(j \in R)
<1>1. IsFiniteSet(S) /\ IsFiniteSet(R)
  BY Slots, FS_Subset
<1>2. S \ {j} = R \ {j}
  OBVIOUS
<1> QED
  BY <1>1, <1>2, CountStep

LEMMA TSlotCount ==
  ASSUME NEW j \in TSlots, NEW S \in SUBSET TSlots, NEW R \in SUBSET TSlots,
         \A i \in TSlots : i # j => (i \in S <=> i \in R)
  PROVE  Cardinality(R) = Cardinality(S) - One(j \in S) + One(j \in R)
<1>1. IsFiniteSet(S) /\ IsFiniteSet(R)
  BY Slots, FS_Subset
<1>2. S \ {j} = R \ {j}
  OBVIOUS
<1> QED
  BY <1>1, <1>2, CountStep

LEMMA Least ==
  ASSUME NEW S \in SUBSET Nat, S # {}
  PROVE  \E x \in S : \A y \in S : x <= y
<1>1. PICK x \in S : \A y \in S : ~(<<y, x>> \in OpToRel(<, Nat))
  BY NatLessThanWellFounded, WFMin
<1>2. ASSUME NEW y \in S PROVE x <= y
  <2>1. y \in Nat /\ x \in Nat
    OBVIOUS
  <2>2. ~(y < x)
    BY <1>1, <2>1 DEF OpToRel
  <2> QED
    BY <2>1, <2>2
<1> QED
  BY <1>2

\* The slot that u_new or t_new takes is one of those it chooses from.
LEMMA FirstIn ==
  ASSUME NEW S \in SUBSET Nat, S # {}
  PROVE  First(S) \in S
<1>1. \E j \in S : \A i \in S : j <= i
  BY Least
<1> QED
  BY <1>1 DEF First

LEMMA OldestIn ==
  ASSUME NEW S, S # {}, NEW x, \A i \in S : x[i].start \in Nat
  PROVE  Oldest(S, x) \in S
<1> DEFINE T == {x[i].start : i \in S}
<1>1. T \in SUBSET Nat /\ T # {}
  OBVIOUS
<1>2. PICK y \in T : \A z \in T : y <= z
  BY <1>1, Least
<1>3. PICK j \in S : y = x[j].start
  BY <1>2
<1>4. \A i \in S : x[j].start <= x[i].start
  BY <1>2, <1>3
<1> QED
  BY <1>4 DEF Oldest

----------------------------------------------------------------------------
(* Queries and their slots *)

Settled(lg, n, how) == [lg EXCEPT ![n] = IF @ = "query" THEN how ELSE "twice"]
Statuses == {"unused", "query", "sent", "drop", "twice"}

LEMMA SettleU ==
  ASSUME NEW hu, NEW ht, NEW hu2, NEW lg \in [Serials -> Statuses], NEW n \in Nat,
         Settling(hu, ht, lg, n), NEW j \in USlots, hu[j] # 0, NEW how \in {"sent", "drop"},
         hu2[j] = 0, \A i \in USlots : i # j => hu2[i] = hu[i]
  PROVE  Settling(hu2, ht, Settled(lg, hu[j], how), n)
<1> DEFINE lg2 == Settled(lg, hu[j], how)
<1>1. hu[j] \in Serials /\ lg[hu[j]] = "query"
  BY DEF Settling
<1>2. lg2[hu[j]] = how /\ \A i \in Serials : i # hu[j] => lg2[i] = lg[i]
  BY <1>1 DEF Settled
<1>3. \A i \in Serials : lg2[i] # "twice" /\ (lg2[i] = "unused" <=> i > n)
  BY <1>1, <1>2 DEF Settling
<1>4. \A i \in USlots : hu2[i] # 0 => hu2[i] = hu[i] /\ hu2[i] # hu[j]
  BY DEF Settling
<1>5. \A i \in TSlots : ht[i] # 0 => ht[i] # hu[j]
  BY DEF Settling
<1>6. /\ \A i \in USlots : hu2[i] # 0 => hu2[i] \in Serials /\ lg2[hu2[i]] = "query"
      /\ \A i \in TSlots : ht[i] # 0 => ht[i] \in Serials /\ lg2[ht[i]] = "query"
  BY <1>2, <1>4, <1>5 DEF Settling
<1>7. /\ \A i, m \in USlots : hu2[i] # 0 /\ hu2[i] = hu2[m] => i = m
      /\ \A i \in USlots, m \in TSlots : hu2[i] # 0 => hu2[i] # ht[m]
  BY <1>4 DEF Settling
<1>8. ASSUME NEW i \in Serials, lg2[i] = "query"
      PROVE  (\E m \in USlots : hu2[m] = i) \/ (\E m \in TSlots : ht[m] = i)
  BY <1>1, <1>2, <1>8 DEF Settling
<1> HIDE DEF lg2
<1>9. Settling(hu2, ht, lg2, n)
  BY <1>3, <1>6, <1>7, <1>8 DEF Settling
<1> QED
  BY <1>9 DEF lg2

LEMMA SettleT ==
  ASSUME NEW hu, NEW ht, NEW ht2, NEW lg \in [Serials -> Statuses], NEW n \in Nat,
         Settling(hu, ht, lg, n), NEW j \in TSlots, ht[j] # 0, NEW how \in {"sent", "drop"},
         ht2[j] = 0, \A i \in TSlots : i # j => ht2[i] = ht[i]
  PROVE  Settling(hu, ht2, Settled(lg, ht[j], how), n)
<1> DEFINE lg2 == Settled(lg, ht[j], how)
<1>1. ht[j] \in Serials /\ lg[ht[j]] = "query"
  BY DEF Settling
<1>2. lg2[ht[j]] = how /\ \A i \in Serials : i # ht[j] => lg2[i] = lg[i]
  BY <1>1 DEF Settled
<1>3. \A i \in Serials : lg2[i] # "twice" /\ (lg2[i] = "unused" <=> i > n)
  BY <1>1, <1>2 DEF Settling
<1>4. \A i \in TSlots : ht2[i] # 0 => ht2[i] = ht[i] /\ ht2[i] # ht[j]
  BY DEF Settling
<1>5. \A i \in USlots : hu[i] # 0 => hu[i] # ht[j]
  BY DEF Settling
<1>6. /\ \A i \in TSlots : ht2[i] # 0 => ht2[i] \in Serials /\ lg2[ht2[i]] = "query"
      /\ \A i \in USlots : hu[i] # 0 => hu[i] \in Serials /\ lg2[hu[i]] = "query"
  BY <1>2, <1>4, <1>5 DEF Settling
<1>7. /\ \A i, m \in TSlots : ht2[i] # 0 /\ ht2[i] = ht2[m] => i = m
      /\ \A i \in USlots, m \in TSlots : hu[i] # 0 => hu[i] # ht2[m]
  BY <1>4 DEF Settling
<1>8. ASSUME NEW i \in Serials, lg2[i] = "query"
      PROVE  (\E m \in USlots : hu[m] = i) \/ (\E m \in TSlots : ht2[m] = i)
  BY <1>1, <1>2, <1>8 DEF Settling
<1> HIDE DEF lg2
<1>9. Settling(hu, ht2, lg2, n)
  BY <1>3, <1>6, <1>7, <1>8 DEF Settling
<1> QED
  BY <1>9 DEF lg2

\* A new query, in slot j of u, in slot j of t, or dropped at once.
LEMMA ArriveU ==
  ASSUME NEW hu, NEW ht, NEW hu2, NEW lg \in [Serials -> Statuses], NEW n \in Nat, n + 1 \in Serials,
         Settling(hu, ht, lg, n), NEW j \in USlots, hu[j] = 0,
         hu2[j] = n + 1, \A i \in USlots : i # j => hu2[i] = hu[i]
  PROVE  Settling(hu2, ht, [lg EXCEPT ![n + 1] = "query"], n + 1)
<1> DEFINE lg2 == [lg EXCEPT ![n + 1] = "query"]
<1>1. lg2[n + 1] = "query" /\ \A i \in Serials : i # n + 1 => lg2[i] = lg[i]
  OBVIOUS
<1>2. lg[n + 1] = "unused" /\ Serials \subseteq Nat
  BY DEF Settling, Serials
<1>3. \A i \in Serials : lg2[i] # "twice" /\ (lg2[i] = "unused" <=> i > n + 1)
  BY <1>1, <1>2 DEF Settling
<1>4. /\ \A i \in USlots : hu[i] # n + 1
      /\ \A i \in TSlots : ht[i] # n + 1
  BY <1>2 DEF Settling
<1>5. /\ \A i \in USlots : hu2[i] # 0 => hu2[i] \in Serials /\ lg2[hu2[i]] = "query"
      /\ \A i \in TSlots : ht[i] # 0 => ht[i] \in Serials /\ lg2[ht[i]] = "query"
  BY <1>1, <1>4 DEF Settling
<1>6. /\ \A i, m \in USlots : hu2[i] # 0 /\ hu2[i] = hu2[m] => i = m
      /\ \A i \in USlots, m \in TSlots : hu2[i] # 0 => hu2[i] # ht[m]
  BY <1>4 DEF Settling
<1>7. ASSUME NEW i \in Serials, lg2[i] = "query"
      PROVE  (\E m \in USlots : hu2[m] = i) \/ (\E m \in TSlots : ht[m] = i)
  <2>1. CASE i = n + 1
    BY <2>1
  <2>2. CASE i # n + 1
    <3>1. lg[i] = "query" /\ i # 0
      BY <1>1, <1>7, <2>2 DEF Serials
    <3> QED
      BY <3>1 DEF Settling
  <2> QED
    BY <2>1, <2>2
<1> HIDE DEF lg2
<1>8. Settling(hu2, ht, lg2, n + 1)
  BY <1>3, <1>5, <1>6, <1>7 DEF Settling
<1> QED
  BY <1>8 DEF lg2

LEMMA ArriveT ==
  ASSUME NEW hu, NEW ht, NEW ht2, NEW lg \in [Serials -> Statuses], NEW n \in Nat, n + 1 \in Serials,
         Settling(hu, ht, lg, n), NEW j \in TSlots, ht[j] = 0,
         ht2[j] = n + 1, \A i \in TSlots : i # j => ht2[i] = ht[i]
  PROVE  Settling(hu, ht2, [lg EXCEPT ![n + 1] = "query"], n + 1)
<1> DEFINE lg2 == [lg EXCEPT ![n + 1] = "query"]
<1>1. lg2[n + 1] = "query" /\ \A i \in Serials : i # n + 1 => lg2[i] = lg[i]
  OBVIOUS
<1>2. lg[n + 1] = "unused" /\ Serials \subseteq Nat
  BY DEF Settling, Serials
<1>3. \A i \in Serials : lg2[i] # "twice" /\ (lg2[i] = "unused" <=> i > n + 1)
  BY <1>1, <1>2 DEF Settling
<1>4. /\ \A i \in USlots : hu[i] # n + 1
      /\ \A i \in TSlots : ht[i] # n + 1
  BY <1>2 DEF Settling
<1>5. /\ \A i \in TSlots : ht2[i] # 0 => ht2[i] \in Serials /\ lg2[ht2[i]] = "query"
      /\ \A i \in USlots : hu[i] # 0 => hu[i] \in Serials /\ lg2[hu[i]] = "query"
  BY <1>1, <1>4 DEF Settling
<1>6. /\ \A i, m \in TSlots : ht2[i] # 0 /\ ht2[i] = ht2[m] => i = m
      /\ \A i \in USlots, m \in TSlots : hu[i] # 0 => hu[i] # ht2[m]
  BY <1>4 DEF Settling
<1>7. ASSUME NEW i \in Serials, lg2[i] = "query"
      PROVE  (\E m \in USlots : hu[m] = i) \/ (\E m \in TSlots : ht2[m] = i)
  <2>1. CASE i = n + 1
    BY <2>1
  <2>2. CASE i # n + 1
    <3>1. lg[i] = "query" /\ i # 0
      BY <1>1, <1>7, <2>2 DEF Serials
    <3> QED
      BY <3>1 DEF Settling
  <2> QED
    BY <2>1, <2>2
<1> HIDE DEF lg2
<1>8. Settling(hu, ht2, lg2, n + 1)
  BY <1>3, <1>5, <1>6, <1>7 DEF Settling
<1> QED
  BY <1>8 DEF lg2

LEMMA ArriveDropped ==
  ASSUME NEW hu, NEW ht, NEW lg \in [Serials -> Statuses], NEW n \in Nat, n + 1 \in Serials,
         Settling(hu, ht, lg, n)
  PROVE  Settling(hu, ht, [lg EXCEPT ![n + 1] = "drop"], n + 1)
<1> DEFINE lg2 == [lg EXCEPT ![n + 1] = "drop"]
<1>1. lg2[n + 1] = "drop" /\ \A i \in Serials : i # n + 1 => lg2[i] = lg[i]
  OBVIOUS
<1>2. lg[n + 1] = "unused" /\ Serials \subseteq Nat
  BY DEF Settling, Serials
<1>3. \A i \in Serials : lg2[i] # "twice" /\ (lg2[i] = "unused" <=> i > n + 1)
  BY <1>1, <1>2 DEF Settling
<1>4. \A i \in Serials : lg2[i] = "query" <=> lg[i] = "query"
  BY <1>1, <1>2
<1> HIDE DEF lg2
<1>5. Settling(hu, ht, lg2, n + 1)
  BY <1>3, <1>4 DEF Settling
<1> QED
  BY <1>5 DEF lg2

\* The promise about the log in its own words.
LEMMA SettlingOnce == TypeOK /\ LogInv => SettledOnce
<1> SUFFICES ASSUME TypeOK, LogInv, NEW n \in Serials
             PROVE  /\ log[n] # "twice" /\ (log[n] = "unused" <=> n > numqueries)
                    /\ IF log[n] = "query" THEN \E h \in Holders(n) : Holders(n) = {h}
                                           ELSE Holders(n) = {}
  BY DEF SettledOnce
<1> USE DEF LogInv, Settling
<1>1. /\ \A j \in USlots : HU[j] = u[j].active
      /\ \A j \in TSlots : HT[j] = IF t[j].state = 0 \/ (pc = "t_query" /\ k = j) THEN t[j].active ELSE 0
      /\ n # 0
  BY DEF HU, HT, Serials
<1> DEFINE A == {j \in USlots : HU[j] = n}
           B == {j \in TSlots : HT[j] = n}
<1>2. Holders(n) = {<<"u", j>> : j \in A} \cup {<<"t", j>> : j \in B}
  <2>1. {i \in USlots : u[i].active = n} = A
    BY <1>1
  <2>2. {i \in TSlots : t[i].active = n /\ (t[i].state = 0 \/ (pc = "t_query" /\ k = i))} = B
    BY <1>1
  <2> QED
    BY <2>1, <2>2 DEF Holders
<1>3. CASE log[n] # "query"
  <2>1. A = {} /\ B = {}
    BY <1>1, <1>3
  <2> QED
    BY <1>2, <1>3, <2>1
<1>4. CASE log[n] = "query"
  <2>1. CASE \E j \in USlots : HU[j] = n
    <3>1. PICK j \in USlots : HU[j] = n
      BY <2>1
    <3>2. A = {j} /\ B = {}
      BY <1>1, <3>1
    <3>3. Holders(n) = {<<"u", j>>}
      BY <1>2, <3>2
    <3> QED
      BY <1>4, <3>3
  <2>2. CASE \E j \in TSlots : HT[j] = n
    <3>1. PICK j \in TSlots : HT[j] = n
      BY <2>2
    <3>2. A = {} /\ B = {j}
      BY <1>1, <3>1
    <3>3. Holders(n) = {<<"t", j>>}
      BY <1>2, <3>2
    <3> QED
      BY <1>4, <3>3
  <2> QED
    BY <1>4, <2>1, <2>2
<1> QED
  BY <1>3, <1>4

----------------------------------------------------------------------------
(* Steps of one slot *)

LEMMA UStep ==
  ASSUME UInv, numqueries \in Nat,
         \A i \in USlots : u[i].active \in 0..numqueries,
         NEW j \in USlots, \A i \in USlots : i # j => u'[i] = u[i],
         \A i \in 1..numqueries : asker'[i] = asker[i],
         u'[j].active # 0 => u'[j].client = asker'[u'[j].active],
         uactive' = uactive - One(u[j].active # 0) + One(u'[j].active # 0),
         misled => misled',
         ~misled' => soaactive' = soaactive - One(j \in SoaUnderWay) + One(j \in SoaUnderWay'),
         pc = "u_query" => k = j,
         pc' = "u_query" => k' = j /\ u'[j].active # 0,
         pc' = "u_recv" => k' = j /\ u'[j].active = 0
  PROVE  UInv'
<1>1. ActiveU \in SUBSET USlots /\ ActiveU' \in SUBSET USlots
  BY DEF ActiveU
<1>2. /\ \A i \in USlots : i # j => (i \in ActiveU <=> i \in ActiveU')
      /\ (j \in ActiveU <=> u[j].active # 0) /\ (j \in ActiveU' <=> u'[j].active # 0)
  BY DEF ActiveU
<1>3. Cardinality(ActiveU') = Cardinality(ActiveU) - One(j \in ActiveU) + One(j \in ActiveU')
  BY <1>1, <1>2, USlotCount
<1>4. uactive' = Cardinality(ActiveU')
  BY <1>2, <1>3 DEF UInv, One
<1>5. AnswersAsker'
  <2>1. ASSUME NEW i \in ActiveU' PROVE u'[i].client = asker'[u'[i].active]
    <3>1. CASE i = j
      BY <3>1, <1>2
    <3>2. CASE i # j
      <4>1. i \in ActiveU /\ u'[i] = u[i] /\ i \in USlots
        BY <2>1, <3>2, <1>1, <1>2
      <4>2. u[i].active \in 1..numqueries
        BY <4>1 DEF ActiveU
      <4>3. u[i].client = asker[u[i].active]
        BY <4>1 DEF UInv, AnswersAsker
      <4> QED
        BY <4>1, <4>2, <4>3
    <3> QED
      BY <3>1, <3>2
  <2> QED
    BY <2>1 DEF AnswersAsker
<1>6. SoaCounted'
  <2>1. SoaUnderWay \in SUBSET USlots /\ SoaUnderWay' \in SUBSET USlots
    BY <1>1 DEF SoaUnderWay
  <2>2. ASSUME NEW i \in USlots, i # j PROVE i \in SoaUnderWay <=> i \in SoaUnderWay'
    <3>1. (i \in ActiveU <=> i \in ActiveU') /\ u'[i] = u[i]
      BY <2>2, <1>2
    <3>2. i \in SoaUnderWay <=> i \in ActiveU /\ u[i].type = "SOA"
      BY <2>2 DEF SoaUnderWay
    <3>3. i \in SoaUnderWay' <=> i \in ActiveU' /\ u'[i].type = "SOA"
      BY <2>2 DEF SoaUnderWay
    <3> QED
      BY <3>1, <3>2, <3>3
  <2>3. Cardinality(SoaUnderWay') = Cardinality(SoaUnderWay) - One(j \in SoaUnderWay) + One(j \in SoaUnderWay')
    BY <2>1, <2>2, USlotCount
  <2> QED
    BY <2>3 DEF UInv, SoaCounted
<1>7. /\ (pc = "u_recv" => u[k].active = 0)'
      /\ (pc = "u_query" => u[k].active # 0)'
  OBVIOUS
<1> QED
  BY <1>4, <1>5, <1>6, <1>7 DEF UInv

LEMMA UQuiet ==
  ASSUME UInv, UNCHANGED udp, pc # "u_query", pc' # "u_query", pc' = "u_recv" => u[k'].active = 0
  PROVE  UInv'
<1>1. UNCHANGED <<u, uactive, soaactive, asker, misled>>
  BY DEF udp
<1>2. ActiveU' = ActiveU
  BY <1>1 DEF ActiveU
<1>3. SoaUnderWay' = SoaUnderWay
  BY <1>1, <1>2 DEF SoaUnderWay
<1>4. AnswersAsker' /\ SoaCounted'
  BY <1>1, <1>2, <1>3 DEF UInv, AnswersAsker, SoaCounted
<1> QED
  BY <1>1, <1>2, <1>4 DEF UInv

\* What a slot of t may be; whole says that it has a whole query to start.
TFits(x, whole) ==
  /\ x.active = 0 => x.buf = 0
  /\ x.active # 0 /\ x.state \in {0, 1, 2} => x.buf = 0
  /\ x.active # 0 /\ x.state \in {3, -1} => x.buf = x.len /\ x.pos <= x.len /\ (x.pos = x.len => whole)

LEMMA TFitting ==
  ASSUME TInv, NEW j \in TSlots
  PROVE  TFits(t[j], pc = "t_query" /\ k = j)
<1>1. t[j].active # 0 => j \in ActiveT
  BY DEF ActiveT
<1> QED
  BY <1>1 DEF TInv, BufMatchesState, TFits

LEMMA TStep ==
  ASSUME TInv, NEW j \in TSlots, \A i \in TSlots : i # j => t'[i] = t[i],
         tactive' = tactive - One(t[j].active # 0) + One(t'[j].active # 0),
         heap' = heap - Blocks(t[j]) + Blocks(t'[j]),
         TFits(t'[j], pc' = "t_query" /\ k' = j),
         pc = "t_query" => k = j,
         pc' = "t_accept" => k' = j /\ t'[j].active = 0,
         pc' = "t_query" => k' = j /\ t'[j].active # 0 /\ t'[j].state = 3 /\ t'[j].pos = t'[j].len
  PROVE  TInv'
<1>1. /\ ActiveT \in SUBSET TSlots /\ ActiveT' \in SUBSET TSlots
      /\ BufT \in SUBSET TSlots /\ BufT' \in SUBSET TSlots
  BY DEF ActiveT, BufT
<1>2. /\ \A i \in TSlots : i # j => (i \in ActiveT <=> i \in ActiveT')
      /\ (j \in ActiveT <=> t[j].active # 0) /\ (j \in ActiveT' <=> t'[j].active # 0)
  BY DEF ActiveT
<1>3. Cardinality(ActiveT') = Cardinality(ActiveT) - One(j \in ActiveT) + One(j \in ActiveT')
  BY <1>1, <1>2, TSlotCount
<1>4. tactive' = Cardinality(ActiveT')
  BY <1>2, <1>3 DEF TInv, One
<1>5. /\ \A i \in TSlots : i # j => (i \in BufT <=> i \in BufT')
      /\ (j \in BufT <=> t[j].buf # 0) /\ (j \in BufT' <=> t'[j].buf # 0)
  <2>1. t[j].active = 0 => t[j].buf = 0
    BY DEF TInv
  <2>2. t'[j].active = 0 => t'[j].buf = 0
    BY DEF TFits
  <2> QED
    BY <1>2, <2>1, <2>2 DEF BufT
<1>6. Cardinality(BufT') = Cardinality(BufT) - One(j \in BufT) + One(j \in BufT')
  BY <1>1, <1>5, TSlotCount
<1>7. heap' = Cardinality(BufT')
  BY <1>5, <1>6 DEF TInv, One, Blocks
<1>8. \A i \in TSlots : TFits(t'[i], pc' = "t_query" /\ k' = i)
  <2>1. ASSUME NEW i \in TSlots, i # j PROVE TFits(t'[i], pc' = "t_query" /\ k' = i)
    <3>1. TFits(t[i], pc = "t_query" /\ k = i)
      BY TFitting
    <3>2. ~(pc = "t_query" /\ k = i) /\ t'[i] = t[i]
      BY <2>1
    <3> QED
      BY <3>1, <3>2 DEF TFits
  <2> QED
    BY <2>1
<1>9. BufMatchesState'
  <2>1. ASSUME NEW i \in ActiveT'
        PROVE  /\ t'[i].state \in {0, 1, 2} => t'[i].buf = 0
               /\ t'[i].state \in {3, -1} => t'[i].buf = t'[i].len /\ t'[i].pos <= t'[i].len
               /\ t'[i].state \in {3, -1} /\ t'[i].pos = t'[i].len => pc' = "t_query" /\ k' = i
    <3>1. i \in TSlots /\ t'[i].active # 0
      BY <2>1 DEF ActiveT
    <3> QED
      BY <3>1, <1>8 DEF TFits
  <2> QED
    BY <2>1 DEF BufMatchesState
<1>10. (\A i \in TSlots : t[i].active = 0 => t[i].buf = 0)'
  BY <1>8 DEF TFits
<1>11. /\ (pc = "t_accept" => t[k].active = 0)'
       /\ (pc = "t_query" => t[k].active # 0 /\ t[k].state = 3 /\ t[k].pos = t[k].len)'
  OBVIOUS
<1> QED
  BY <1>4, <1>7, <1>9, <1>10, <1>11 DEF TInv

LEMMA TQuiet ==
  ASSUME TInv, UNCHANGED tcp, pc # "t_query", pc' # "t_query", pc' = "t_accept" => t[k'].active = 0
  PROVE  TInv'
<1>1. UNCHANGED <<t, tactive, heap>>
  BY DEF tcp
<1>2. ActiveT' = ActiveT /\ BufT' = BufT
  BY <1>1 DEF ActiveT, BufT
<1>3. BufMatchesState'
  BY <1>1, <1>2 DEF TInv, BufMatchesState
<1> QED
  BY <1>1, <1>2, <1>3 DEF TInv

\* The holders when a table does not change.
LEMMA HolderFacts ==
  /\ \A j \in USlots : HU[j] = u[j].active
  /\ \A j \in TSlots : HT[j] = IF t[j].state = 0 \/ (pc = "t_query" /\ k = j) THEN t[j].active ELSE 0
  BY DEF HU, HT

LEMMA HUSame == ASSUME u' = u PROVE HU' = HU
  BY DEF HU

LEMMA HTSame == ASSUME t' = t, pc # "t_query", pc' # "t_query" PROVE HT' = HT
  BY DEF HT

----------------------------------------------------------------------------
(* The loop over the slots *)

LEMMA PollNextU ==
  ASSUME TypeOK, PollInv, pc = "u", NextU, UNCHANGED polled, ActiveU' \subseteq ActiveU, ActiveT' = ActiveT
  PROVE  PollInv' /\ pc' \in {"u", "t"} /\ k' \in Nat /\ (pc' = "u" => k' \in USlots) /\ (pc' = "t" => k' \in TSlots)
<1>1. k \in USlots /\ k \in Nat /\ UNCHANGED <<upolled, tpolled>> /\ USlots \subseteq Nat
  BY Slots DEF TypeOK, polled
<1>2. \/ pc' = "u" /\ k' = k + 1 /\ k + 1 < MAXUDP
      \/ pc' = "t" /\ k' = 0
  BY DEF NextU
<1>3. CASE pc' = "u" /\ k' = k + 1 /\ k + 1 < MAXUDP
  <2>1. k' \in USlots /\ ActiveU \subseteq Nat
    BY <1>1, <1>3, DnscacheAssumption DEF USlots, ActiveU
  <2>2. /\ \A j \in ActiveU' : j >= k' => j \in upolled'
        /\ \A j \in ActiveT' : j \in tpolled'
    BY <1>1, <1>3, <2>1 DEF PollInv, PolledFirst
  <2> QED
    BY <1>1, <1>3, <2>1, <2>2 DEF PollInv, PolledFirst
<1>4. CASE pc' = "t" /\ k' = 0
  <2>1. \A j \in ActiveT' : j \in tpolled'
    BY <1>1 DEF PollInv, PolledFirst
  <2> QED
    BY <1>4, <2>1, Slots DEF PollInv, PolledFirst
<1> QED
  BY <1>2, <1>3, <1>4

LEMMA PollNextT ==
  ASSUME TypeOK, PollInv, pc \in {"t", "t_query"}, NextT, UNCHANGED polled, ActiveT' \subseteq ActiveT
  PROVE  PollInv' /\ pc' \in {"t", "u_new"} /\ k' \in Nat /\ (pc' = "t" => k' \in TSlots)
<1>1. k \in TSlots /\ k \in Nat /\ UNCHANGED <<upolled, tpolled>> /\ TSlots \subseteq Nat
  BY Slots DEF TypeOK, polled
<1>2. \/ pc' = "t" /\ k' = k + 1 /\ k + 1 < MAXTCP
      \/ pc' = "u_new" /\ k' = 0
  BY DEF NextT
<1>3. CASE pc' = "t" /\ k' = k + 1 /\ k + 1 < MAXTCP
  <2>1. k' \in TSlots /\ ActiveT \subseteq Nat
    BY <1>1, <1>3, DnscacheAssumption DEF TSlots, ActiveT
  <2>2. \A j \in ActiveT' : j >= k' => j \in tpolled'
    BY <1>1, <1>3, <2>1 DEF PollInv, PolledFirst
  <2> QED
    BY <1>1, <1>3, <2>1, <2>2 DEF PollInv, PolledFirst
<1>4. CASE pc' = "u_new" /\ k' = 0
  BY <1>4 DEF PollInv, PolledFirst
<1> QED
  BY <1>2, <1>3, <1>4

LEMMA PollElsewhere ==
  ASSUME pc' \notin {"u", "t", "t_query"}
  PROVE  PollInv'
  BY DEF PollInv, PolledFirst

----------------------------------------------------------------------------
(* What the steps have in common *)

LEMMA Types ==
  ASSUME TypeOK
  PROVE  /\ k \in Nat /\ numqueries \in 0..MaxQueries /\ clock \in 0..MaxArrivals
         /\ u \in [USlots -> URec(numqueries, clock)] /\ t \in [TSlots -> TRec(clock)]
         /\ log \in [Serials -> Statuses] /\ asker \in [Serials -> Client \cup {None}]
         /\ qtype \in {"SOA", "AXFR", "other"} /\ misled \in BOOLEAN
         /\ uactive \in Nat /\ tactive \in Nat /\ soaactive \in Int /\ heap \in Int
         /\ upolled \subseteq USlots /\ tpolled \subseteq TSlots
         /\ MaxQueries \in Nat /\ MaxArrivals \in Nat
         /\ Cardinality(ActiveU) \in Nat /\ Cardinality(ActiveT) \in Nat
<1>1. IsFiniteSet(ActiveU) /\ IsFiniteSet(ActiveT)
  BY Slots, FS_Subset DEF ActiveU, ActiveT
<1>2. Cardinality(ActiveU) \in Nat /\ Cardinality(ActiveT) \in Nat
  BY <1>1, FS_CardinalityType
<1> QED
  BY <1>2, DnscacheAssumption DEF TypeOK, URec, TRec, Statuses

\* The sizes of the sets after a step are numbers too.
LEMMA Sizes ==
  /\ Cardinality(ActiveU)' \in Nat /\ Cardinality(ActiveT)' \in Nat /\ Cardinality(BufT)' \in Nat
<1>1. ActiveU' \in SUBSET USlots /\ ActiveT' \in SUBSET TSlots /\ BufT' \in SUBSET TSlots
  BY DEF ActiveU, ActiveT, BufT
<1>2. IsFiniteSet(ActiveU') /\ IsFiniteSet(ActiveT') /\ IsFiniteSet(BufT')
  BY <1>1, Slots, FS_Subset
<1> QED
  BY <1>2, FS_CardinalityType

\* What is left to show about the place in the loop.
PlaceOK ==
  /\ pc \in {"pause", "u", "t", "u_new", "u_recv", "u_query", "t_query", "t_new", "t_accept"}
  /\ k \in Nat
  /\ pc \in {"u", "u_recv", "u_query"} => k \in USlots
  /\ pc \in {"t", "t_query", "t_accept"} => k \in TSlots

\* A step that changes neither table.
LEMMA Quiet ==
  ASSUME IInv, UNCHANGED udp, UNCHANGED tcp, UNCHANGED <<numqueries, clock, log>>,
         pc \notin {"u_query", "t_query"}, pc' \notin {"u_query", "t_query"}, PlaceOK', PollInv',
         upolled' \subseteq USlots, tpolled' \subseteq TSlots,
         pc' = "u_recv" => u[k'].active = 0 /\ clock < MaxArrivals,
         pc' = "t_accept" => t[k'].active = 0 /\ clock < MaxArrivals
  PROVE  IInv'
<1>1. UInv' /\ TInv'
  BY UQuiet, TQuiet DEF IInv
<1>2. UNCHANGED <<u, uactive, soaactive, qtype, asker, misled, t, tactive, heap>>
  BY DEF udp, tcp
<1>3. LogInv'
  <2>1. HU' = HU /\ HT' = HT
    BY <1>2, HUSame, HTSame
  <2> QED
    BY <2>1 DEF IInv, LogInv, Settling
<1>4. TypeOK'
  BY <1>2 DEF IInv, TypeOK, PlaceOK
<1>5. Bounded'
  BY DEF Bounded
<1> QED
  BY <1>1, <1>3, <1>4, <1>5 DEF IInv

\* u_drop or u_respond for slot j.
LEMMA EndStep ==
  ASSUME IInv, NEW j \in USlots, u[j].active # 0,
         NEW type \in {"SOA", "AXFR", "other"}, NEW how \in {"sent", "drop"}, EndQuery(j, type, how),
         UNCHANGED tcp, UNCHANGED polled, UNCHANGED <<numqueries, clock, qtype, asker>>,
         misled' \in BOOLEAN, misled => misled',
         pc = "u_query" => k = j,
         ~misled' => type = IF pc = "u_query" THEN qtype ELSE u[j].type,
         pc # "t_query", pc' \in {"u", "t", "t_new", "u_recv"}, PlaceOK', PollInv',
         pc' = "u_recv" => k' = j /\ clock < MaxArrivals
  PROVE  IInv'
<1>1. /\ k \in Nat /\ numqueries \in 0..MaxQueries /\ clock \in 0..MaxArrivals
      /\ u \in [USlots -> URec(numqueries, clock)]
      /\ log \in [Serials -> Statuses] /\ soaactive \in Int /\ uactive \in Nat
      /\ MaxQueries \in Nat /\ Cardinality(ActiveU) \in Nat
  BY Types DEF IInv
<1> DEFINE x == [u[j] EXCEPT !.active = 0, !.type = type]
<1>2. /\ u' = [u EXCEPT ![j] = x] /\ uactive' = uactive - 1
      /\ soaactive' = soaactive - SoaShare(type) /\ log' = Settled(log, u[j].active, how)
  BY <1>1 DEF EndQuery, Settle, Settled
<1>0. x = [u[j] EXCEPT !.active = 0, !.type = type]
  OBVIOUS
<1> HIDE DEF x
<1>3. x \in URec(numqueries, clock) /\ x.active = 0
  <2>1. u[j] \in URec(numqueries, clock) /\ 0 \in 0..numqueries
    BY <1>1
  <2>2. x = [active |-> 0, start |-> u[j].start, client |-> u[j].client, type |-> type]
    BY <1>0, <2>1 DEF URec
  <2> QED
    BY <2>1, <2>2 DEF URec
<1>4. u'[j] = x /\ \A i \in USlots : i # j => u'[i] = u[i]
  BY <1>1, <1>2
<1>5. j \in ActiveU /\ j \notin ActiveU' /\ j \notin SoaUnderWay'
  BY <1>3, <1>4 DEF ActiveU, SoaUnderWay
<1>6. ~misled' => soaactive' = soaactive - One(j \in SoaUnderWay) + One(j \in SoaUnderWay')
  <2>1. CASE ~misled'
    <3>1. j \in SoaUnderWay <=> type = "SOA"
      BY <2>1, <1>5 DEF SoaUnderWay
    <3> QED
      BY <3>1, <1>1, <1>2, <1>5 DEF One, SoaShare
  <2> QED
    BY <2>1
<1>7. UInv'
  <2>1. \A i \in USlots : u[i].active \in 0..numqueries
    BY <1>1 DEF URec
  <2>2. uactive' = uactive - One(u[j].active # 0) + One(u'[j].active # 0)
    BY <1>1, <1>2, <1>3, <1>4 DEF One
  <2>3. UInv /\ numqueries \in Nat
    BY <1>1 DEF IInv
  <2> QED
    BY <2>1, <2>2, <2>3, <1>3, <1>4, <1>6, UStep
<1>8. TInv' /\ HT' = HT
  <2>1. UNCHANGED t
    BY DEF tcp
  <2> QED
    BY <2>1, TQuiet, HTSame DEF IInv
<1>9. LogInv'
  <2>1. HU[j] = u[j].active /\ HU'[j] = 0 /\ \A i \in USlots : i # j => HU'[i] = HU[i]
    BY <1>3, <1>4 DEF HU
  <2>2. Settling(HU, HT, log, numqueries) /\ numqueries \in Nat
    BY <1>1 DEF IInv, LogInv
  <2>3. Settling(HU', HT, Settled(log, HU[j], how), numqueries)
    BY <2>1, <2>2, <1>1, SettleU
  <2> QED
    BY <2>1, <2>3, <1>2, <1>8 DEF LogInv, Settling
<1>10. TypeOK'
  <2>1. u' \in [USlots -> URec(numqueries, clock)]
    BY <1>1, <1>2, <1>3
  <2>2. uactive' \in Nat
    <3>1. ActiveU' = ActiveU \ {j}
      BY <1>4, <1>5 DEF ActiveU
    <3> QED
      BY <1>7, Sizes DEF UInv
  <2>3. soaactive' \in Int
    BY <1>1, <1>2 DEF SoaShare
  <2>4. log' \in [Serials -> Statuses]
    BY <1>1, <1>2 DEF Settled, Statuses
  <2>5. UNCHANGED <<t, tactive, heap, upolled, tpolled>>
    BY DEF tcp, polled
  <2> QED
    BY <2>1, <2>2, <2>3, <2>4, <2>5 DEF IInv, TypeOK, PlaceOK, URec, Statuses
<1>11. Bounded'
  BY DEF Bounded
<1> QED
  BY <1>7, <1>8, <1>9, <1>10, <1>11 DEF IInv

LEMMA EndShrinks ==
  ASSUME TypeOK, NEW j \in USlots, NEW type, NEW how, EndQuery(j, type, how)
  PROVE  ActiveU' \subseteq ActiveU
<1>1. u \in [USlots -> URec(numqueries, clock)]
  BY Types
<1>2. \A i \in USlots : i # j => u'[i] = u[i]
  BY <1>1 DEF EndQuery
<1>3. u'[j].active = 0
  BY <1>1 DEF EndQuery, URec
<1> QED
  BY <1>2, <1>3 DEF ActiveU

----------------------------------------------------------------------------
(* UDP queries *)

LEMMA UPut ==
  ASSUME NEW n \in Nat, NEW c \in Nat, NEW n2 \in Nat, NEW c2 \in Nat, n <= n2, c <= c2,
         u \in [USlots -> URec(n, c)], NEW j \in USlots, NEW x \in URec(n2, c2), u' = [u EXCEPT ![j] = x]
  PROVE  /\ u' \in [USlots -> URec(n2, c2)] /\ u'[j] = x
         /\ \A i \in USlots : i # j => u'[i] = u[i]
<1>1. u'[j] = x /\ \A i \in USlots : i # j => u'[i] = u[i]
  OBVIOUS
<1>2. \A i \in USlots : u[i] \in URec(n2, c2)
  BY DEF URec
<1> QED
  BY <1>1, <1>2

LEMMA UEndStep == ASSUME IInv, NEW j \in USlots, u_end(j) PROVE IInv'
<1>1. PICK how \in {"sent", "drop"} :
        /\ pc = "u" /\ k = j /\ u[j].active # 0
        /\ EndQuery(j, u[j].type, how)
        /\ NextU
        /\ UNCHANGED tcp /\ UNCHANGED polled
        /\ UNCHANGED <<numqueries, clock, qtype, asker, misled>>
  BY DEF u_end
<1>2. ActiveU' \subseteq ActiveU /\ ActiveT' = ActiveT
  BY <1>1, EndShrinks DEF IInv, tcp, ActiveT
<1>3. PollInv' /\ pc' \in {"u", "t"} /\ PlaceOK'
  BY <1>1, <1>2, PollNextU DEF IInv, PlaceOK
<1>4. u[j].type \in {"SOA", "AXFR", "other"} /\ misled \in BOOLEAN
  BY Types DEF IInv, URec
<1> QED
  BY <1>1, <1>3, <1>4, EndStep

LEMMA ULook == ASSUME IInv, u_skip \/ u_wait PROVE IInv'
<1>1. /\ pc = "u" /\ NextU /\ UNCHANGED udp /\ UNCHANGED tcp /\ UNCHANGED polled
      /\ UNCHANGED <<numqueries, clock, log>>
  BY DEF u_skip, u_wait
<1>2. ActiveU' = ActiveU /\ ActiveT' = ActiveT
  BY <1>1 DEF udp, tcp, ActiveU, ActiveT
<1>3. PollInv' /\ pc' \in {"u", "t"} /\ PlaceOK'
  BY <1>1, <1>2, PollNextU DEF IInv, PlaceOK
<1>4. upolled' \subseteq USlots /\ tpolled' \subseteq TSlots
  BY <1>1, Types DEF IInv, polled
<1> QED
  BY <1>1, <1>3, <1>4, Quiet

LEMMA UNewStep == ASSUME IInv, u_new_none \/ u_new_free PROVE IInv'
<1>1. /\ pc = "u_new" /\ UNCHANGED udp /\ UNCHANGED tcp /\ UNCHANGED polled
      /\ UNCHANGED <<numqueries, clock, log>>
  BY DEF u_new_none, u_new_free
<1>2. upolled' \subseteq USlots /\ tpolled' \subseteq TSlots
  BY <1>1, Types DEF IInv, polled
<1>3. CASE u_new_none
  <2>1. pc' = "t_new" /\ k' = 0
    BY <1>3 DEF u_new_none, AfterUNew
  <2>2. PlaceOK' /\ PollInv'
    BY <2>1, PollElsewhere DEF PlaceOK
  <2> QED
    BY <1>1, <1>2, <2>1, <2>2, Quiet
<1>4. CASE u_new_free
  <2>1. pc' = "u_recv" /\ k' = First(Free(USlots, u)) /\ Free(USlots, u) # {} /\ clock < MaxArrivals
    BY <1>4 DEF u_new_free
  <2>2. Free(USlots, u) \in SUBSET Nat
    BY Slots DEF Free
  <2>3. k' \in Free(USlots, u)
    BY <2>1, <2>2, FirstIn
  <2>4. k' \in USlots /\ u[k'].active = 0
    BY <2>3 DEF Free
  <2>5. PlaceOK' /\ PollInv'
    BY <2>1, <2>4, Slots, PollElsewhere DEF PlaceOK
  <2> QED
    BY <1>1, <1>2, <2>1, <2>4, <2>5, Quiet
<1> QED
  BY <1>3, <1>4

LEMMA UEvictStep == ASSUME IInv, u_new_evict PROVE IInv'
<1> DEFINE j == Oldest(USlots, u)
<1>1. /\ pc = "u_new" /\ clock < MaxArrivals /\ Free(USlots, u) = {}
      /\ pc' = "u_recv" /\ k' = j /\ EndQuery(j, u[j].type, "drop")
      /\ UNCHANGED tcp /\ UNCHANGED polled /\ UNCHANGED <<numqueries, clock, qtype, asker, misled>>
  BY DEF u_new_evict
<1>2. u \in [USlots -> URec(numqueries, clock)] /\ clock \in Nat /\ misled \in BOOLEAN
  BY Types DEF IInv
<1>3. \A i \in USlots : u[i].start \in Nat
  BY <1>2 DEF URec
<1>4. j \in USlots
  BY <1>3, Slots, OldestIn
<1> HIDE DEF j
<1>5. u[j].active # 0 /\ u[j].type \in {"SOA", "AXFR", "other"}
  BY <1>1, <1>2, <1>4 DEF Free, URec
<1>6. PlaceOK' /\ PollInv'
  BY <1>1, <1>4, Slots, PollElsewhere DEF PlaceOK
<1> QED
  BY <1>1, <1>2, <1>4, <1>5, <1>6, EndStep

\* A packet that is not accepted, and a query for an SOA record too many.
LEMMA URejectStep == ASSUME IInv, u_recv_reject \/ u_recv_maxsoa PROVE IInv'
<1>1. /\ k \in Nat /\ numqueries \in 0..MaxQueries /\ clock \in 0..MaxArrivals /\ k \in USlots
      /\ u \in [USlots -> URec(numqueries, clock)] /\ asker \in [Serials -> Client \cup {None}]
      /\ log \in [Serials -> Statuses] /\ MaxQueries \in Nat /\ MaxArrivals \in Nat
      /\ pc = "u_recv" /\ u[k].active = 0 /\ clock < MaxArrivals /\ uactive \in Nat /\ soaactive \in Int
  BY Types DEF IInv, UInv, Bounded, TypeOK, u_recv_reject, u_recv_maxsoa
<1>2. /\ clock' = clock + 1 /\ pc' = "t_new" /\ k' = 0
      /\ UNCHANGED tcp /\ UNCHANGED polled /\ UNCHANGED <<uactive, soaactive, qtype, misled>>
  BY DEF u_recv_reject, u_recv_maxsoa, AfterUNew
<1>3. PICK c \in Client \cup {None} :
        \/ /\ u' = [u EXCEPT ![k].start = clock', ![k].client = c]
           /\ UNCHANGED <<numqueries, log, asker>>
        \/ /\ u' = [u EXCEPT ![k].start = clock', ![k].client = c, ![k].active = 0]
           /\ numqueries < MaxQueries /\ numqueries' = numqueries + 1
           /\ log' = [log EXCEPT ![numqueries + 1] = "drop"]
           /\ asker' = [asker EXCEPT ![numqueries + 1] = c] /\ c \in Client
  <2>1. u[k].client \in Client \cup {None}
    BY <1>1 DEF URec
  <2>2. CASE u_recv_reject
    BY <2>1, <2>2 DEF u_recv_reject
  <2>3. CASE u_recv_maxsoa
    BY <2>3 DEF u_recv_maxsoa
  <2> QED
    BY <2>2, <2>3
<1> DEFINE x == [u[k] EXCEPT !.start = clock + 1, !.client = c, !.active = 0]
           y == [u[k] EXCEPT !.start = clock + 1, !.client = c]
<1>4. u' = [u EXCEPT ![k] = y] \/ u' = [u EXCEPT ![k] = x]
  BY <1>1, <1>2, <1>3
<1>5. /\ x = [u[k] EXCEPT !.start = clock + 1, !.client = c, !.active = 0]
      /\ y = [u[k] EXCEPT !.start = clock + 1, !.client = c]
  OBVIOUS
<1> HIDE DEF x, y
<1>6. /\ x = [active |-> 0, start |-> clock + 1, client |-> c, type |-> u[k].type]
      /\ y = [active |-> 0, start |-> clock + 1, client |-> c, type |-> u[k].type]
  <2>1. u[k] \in URec(numqueries, clock)
    BY <1>1
  <2> QED
    BY <1>1, <1>5, <2>1 DEF URec
<1>7. numqueries' \in 0..MaxQueries /\ numqueries' >= numqueries /\ clock' \in 0..MaxArrivals /\ clock' >= clock
  BY <1>1, <1>2, <1>3
<1>8. x \in URec(numqueries', clock') /\ x.active = 0 /\ u' = [u EXCEPT ![k] = x]
  <2>1. u[k] \in URec(numqueries, clock) /\ 0 \in 0..numqueries' /\ clock' \in 0..clock'
    BY <1>1, <1>7
  <2>2. x = y
    BY <1>6
  <2>3. clock + 1 \in 0..clock' /\ u[k].type \in {"SOA", "AXFR", "other"}
    BY <1>2, <2>1 DEF URec
  <2>4. x \in URec(numqueries', clock')
    BY <1>6, <2>1, <2>3 DEF URec
  <2>5. x.active = 0
    BY <1>6
  <2>6. u' = [u EXCEPT ![k] = x]
    BY <1>4, <2>2
  <2> QED
    BY <2>4, <2>5, <2>6
<1>9. u' \in [USlots -> URec(numqueries', clock')] /\ u'[k] = x /\ \A i \in USlots : i # k => u'[i] = u[i]
  <2>1. /\ numqueries \in Nat /\ clock \in Nat /\ numqueries' \in Nat /\ clock' \in Nat
        /\ numqueries <= numqueries' /\ clock <= clock'
    BY <1>1, <1>7
  <2> QED
    BY <1>1, <1>8, <2>1, UPut
<1>10. UInv'
  <2>1. \A i \in USlots : u[i].active \in 0..numqueries
    BY <1>1 DEF URec
  <2>2. \A i \in 1..numqueries : asker'[i] = asker[i]
    BY <1>1, <1>3 DEF Serials
  <2>3. k \notin SoaUnderWay /\ k \notin SoaUnderWay'
    BY <1>1, <1>8, <1>9 DEF SoaUnderWay, ActiveU
  <2>4. ~misled' => soaactive' = soaactive - One(k \in SoaUnderWay) + One(k \in SoaUnderWay')
    BY <1>1, <1>2, <2>3 DEF One
  <2>5. uactive' = uactive - One(u[k].active # 0) + One(u'[k].active # 0)
    BY <1>1, <1>2, <1>8, <1>9 DEF One
  <2>6. UInv /\ numqueries \in Nat
    BY <1>1 DEF IInv
  <2> QED
    BY <1>1, <1>2, <1>8, <1>9, <2>1, <2>2, <2>4, <2>5, <2>6, UStep
<1>11. TInv' /\ HT' = HT
  BY <1>1, <1>2, TQuiet, HTSame DEF IInv, tcp
<1>12. LogInv'
  <2>1. HU' = HU
    <3>1. \A i \in USlots : u'[i].active = u[i].active
      BY <1>1, <1>8, <1>9
    <3> QED
      BY <3>1 DEF HU
  <2>2. CASE UNCHANGED <<numqueries, log>>
    BY <2>1, <2>2, <1>11 DEF IInv, LogInv, Settling
  <2>3. CASE /\ numqueries < MaxQueries /\ numqueries' = numqueries + 1
             /\ log' = [log EXCEPT ![numqueries + 1] = "drop"]
    <3>1. Settling(HU, HT, log, numqueries) /\ numqueries \in Nat /\ numqueries + 1 \in Serials
      BY <1>1, <2>3 DEF IInv, LogInv, Serials
    <3>2. Settling(HU, HT, [log EXCEPT ![numqueries + 1] = "drop"], numqueries + 1)
      BY <1>1, <3>1, ArriveDropped
    <3> QED
      BY <2>1, <2>3, <3>2, <1>11 DEF LogInv, Settling
  <2> QED
    BY <1>3, <2>2, <2>3
<1>13. TypeOK'
  <2>1. log' \in [Serials -> Statuses] /\ asker' \in [Serials -> Client \cup {None}]
    BY <1>1, <1>3 DEF Statuses
  <2>2. UNCHANGED <<t, tactive, heap, upolled, tpolled>>
    BY <1>2 DEF tcp, polled
  <2>3. t' \in [TSlots -> TRec(clock')]
    <3>1. \A i \in TSlots : t[i] \in TRec(clock')
      BY <1>1, <1>7, Types DEF IInv, TRec
    <3>2. t \in [TSlots -> TRec(clock)]
      BY Types DEF IInv
    <3> QED
      BY <2>2, <3>1, <3>2
  <2> QED
    BY <1>2, <1>7, <1>9, <2>1, <2>2, <2>3 DEF IInv, TypeOK, URec, TRec, Statuses
<1>14. PollInv' /\ Bounded'
  BY <1>2, PollElsewhere DEF Bounded
<1> QED
  BY <1>10, <1>11, <1>12, <1>13, <1>14 DEF IInv

\* A query that is accepted.
LEMMA URecvStep == ASSUME IInv, u_recv_query PROVE IInv'
<1>1. /\ k \in Nat /\ numqueries \in 0..MaxQueries /\ clock \in 0..MaxArrivals /\ k \in USlots
      /\ u \in [USlots -> URec(numqueries, clock)] /\ asker \in [Serials -> Client \cup {None}]
      /\ log \in [Serials -> Statuses] /\ MaxQueries \in Nat /\ MaxArrivals \in Nat
      /\ pc = "u_recv" /\ u[k].active = 0 /\ clock < MaxArrivals /\ uactive \in Nat /\ soaactive \in Int
  BY Types DEF IInv, UInv, Bounded, TypeOK, u_recv_query
<1>2. PICK c \in Client, type \in QType :
        /\ numqueries < MaxQueries
        /\ clock' = clock + 1
        /\ numqueries' = numqueries + 1
        /\ u' = [u EXCEPT ![k].start = clock', ![k].client = c, ![k].active = numqueries']
        /\ uactive' = uactive + 1
        /\ soaactive' = soaactive + SoaShare(type)
        /\ qtype' = type
        /\ log' = [log EXCEPT ![numqueries'] = "query"]
        /\ asker' = [asker EXCEPT ![numqueries'] = c]
        /\ pc' = "u_query"
        /\ UNCHANGED tcp /\ UNCHANGED polled /\ UNCHANGED <<k, misled>>
  BY DEF u_recv_query
<1>3. numqueries + 1 \in Serials /\ type \in {"SOA", "AXFR", "other"} /\ numqueries \in Nat /\ clock \in Nat
  BY <1>1, <1>2, DnscacheAssumption DEF Serials
<1> DEFINE x == [u[k] EXCEPT !.start = clock + 1, !.client = c, !.active = numqueries + 1]
<1>4. u' = [u EXCEPT ![k] = x]
  BY <1>1, <1>2
<1>5. x = [u[k] EXCEPT !.start = clock + 1, !.client = c, !.active = numqueries + 1]
  OBVIOUS
<1> HIDE DEF x
<1>6. x = [active |-> numqueries + 1, start |-> clock + 1, client |-> c, type |-> u[k].type]
  <2>1. u[k] \in URec(numqueries, clock)
    BY <1>1
  <2> QED
    BY <1>5, <2>1 DEF URec
<1>7. x \in URec(numqueries + 1, clock + 1) /\ x.active = numqueries + 1 /\ x.client = c
  <2>1. u[k].type \in {"SOA", "AXFR", "other"}
    BY <1>1 DEF URec
  <2>2. numqueries + 1 \in 0..(numqueries + 1) /\ clock + 1 \in 0..(clock + 1)
    BY <1>3
  <2> QED
    BY <1>6, <2>1, <2>2 DEF URec
<1>8. /\ u' \in [USlots -> URec(numqueries + 1, clock + 1)] /\ u'[k] = x
      /\ \A i \in USlots : i # k => u'[i] = u[i]
  <2>1. numqueries + 1 \in Nat /\ clock + 1 \in Nat /\ numqueries <= numqueries + 1 /\ clock <= clock + 1
    BY <1>3
  <2> QED
    BY <1>1, <1>3, <1>4, <1>7, <2>1, UPut, ZenonT(40)
<1>9. UInv'
  <2>1. \A i \in USlots : u[i].active \in 0..numqueries
    BY <1>1 DEF URec
  <2>2. \A i \in 1..numqueries : asker'[i] = asker[i]
    BY <1>1, <1>2 DEF Serials
  <2>3. asker'[numqueries + 1] = c
    BY <1>1, <1>2, <1>3
  <2>4. u'[k].active # 0 /\ u'[k].client = asker'[u'[k].active]
    BY <1>3, <1>7, <1>8, <2>3
  <2>5. k \notin SoaUnderWay /\ k \in ActiveU'
    BY <1>1, <2>4 DEF SoaUnderWay, ActiveU
  <2>6. k \in SoaUnderWay' <=> type = "SOA"
    BY <1>2, <2>5 DEF SoaUnderWay
  <2>7. soaactive' = soaactive - One(k \in SoaUnderWay) + One(k \in SoaUnderWay')
    BY <1>1, <1>2, <2>5, <2>6 DEF One, SoaShare
  <2>8. uactive' = uactive - One(u[k].active # 0) + One(u'[k].active # 0)
    BY <1>1, <1>2, <2>4 DEF One
  <2>9. UInv /\ misled' = misled
    BY <1>2 DEF IInv
  <2> QED
    BY <1>1, <1>2, <1>3, <1>8, <2>1, <2>2, <2>4, <2>7, <2>8, <2>9, UStep
<1>10. TInv' /\ HT' = HT
  BY <1>1, <1>2, TQuiet, HTSame DEF IInv, tcp
<1>11. LogInv'
  <2>1. HU[k] = 0 /\ HU'[k] = numqueries + 1 /\ \A i \in USlots : i # k => HU'[i] = HU[i]
    BY <1>1, <1>7, <1>8 DEF HU
  <2>2. Settling(HU, HT, log, numqueries)
    BY DEF IInv, LogInv
  <2>3. Settling(HU', HT, [log EXCEPT ![numqueries + 1] = "query"], numqueries + 1)
    BY <1>1, <1>3, <2>1, <2>2, ArriveU
  <2> QED
    BY <1>2, <1>10, <2>3 DEF LogInv, Settling
<1>12. TypeOK'
  <2>1. log' \in [Serials -> Statuses] /\ asker' \in [Serials -> Client \cup {None}]
    BY <1>1, <1>2 DEF Statuses
  <2>2. UNCHANGED <<t, tactive, heap, upolled, tpolled>>
    BY <1>2 DEF tcp, polled
  <2>3. t' \in [TSlots -> TRec(clock')]
    <3>1. t \in [TSlots -> TRec(clock)]
      BY Types DEF IInv
    <3>2. \A i \in TSlots : t[i] \in TRec(clock')
      BY <1>2, <1>3, <3>1 DEF TRec
    <3> QED
      BY <2>2, <3>1, <3>2
  <2>4. uactive' \in Nat /\ soaactive' \in Int /\ qtype' \in {"SOA", "AXFR", "other"}
    BY <1>1, <1>2, <1>3 DEF SoaShare
  <2>5. numqueries' \in 0..MaxQueries /\ clock' \in 0..MaxArrivals
    BY <1>1, <1>2
  <2> QED
    BY <1>1, <1>2, <1>8, <2>1, <2>2, <2>3, <2>4, <2>5 DEF IInv, TypeOK, URec, TRec, Statuses
<1>13. PollInv' /\ Bounded'
  BY <1>2, PollElsewhere DEF Bounded
<1> QED
  BY <1>9, <1>10, <1>11, <1>12, <1>13 DEF IInv

\* query_start fails, or responds.
LEMMA UStartEndStep == ASSUME IInv, u_query_refused \/ u_query_end PROVE IInv'
<1>1. PICK type \in {"SOA", "AXFR", "other"}, how \in {"sent", "drop"} :
        /\ pc = "u_query" /\ EndQuery(k, type, how) /\ AfterUNew
        /\ UNCHANGED tcp /\ UNCHANGED polled /\ UNCHANGED <<numqueries, clock, qtype, asker>>
        /\ misled' = TRUE \/ (misled' = misled /\ type = qtype)
  <2>1. CASE u_query_refused
    <3>1. u[k].type \in {"SOA", "AXFR", "other"}
      BY <2>1, Types DEF IInv, TypeOK, URec, u_query_refused
    <3> QED
      BY <2>1, <3>1 DEF u_query_refused
  <2>2. CASE u_query_end
    <3>1. qtype \in {"SOA", "AXFR", "other"}
      BY Types DEF IInv
    <3> QED
      BY <2>2, <3>1 DEF u_query_end
  <2> QED
    BY <2>1, <2>2
<1>2. k \in USlots /\ u[k].active # 0 /\ misled \in BOOLEAN
  BY <1>1 DEF IInv, TypeOK, UInv
<1>3. pc' = "t_new" /\ k' = 0
  BY <1>1 DEF AfterUNew
<1>4. PlaceOK' /\ PollInv'
  BY <1>3, PollElsewhere DEF PlaceOK
<1> QED
  BY <1>1, <1>2, <1>3, <1>4, EndStep

\* The query goes on: from now on the slot has its type.
LEMMA UStartWaitStep == ASSUME IInv, u_query_wait PROVE IInv'
<1>1. /\ pc = "u_query" /\ u' = [u EXCEPT ![k].type = qtype] /\ pc' = "t_new" /\ k' = 0
      /\ UNCHANGED tcp /\ UNCHANGED polled
      /\ UNCHANGED <<numqueries, clock, log, uactive, soaactive, qtype, asker, misled>>
  BY DEF u_query_wait, AfterUNew
<1>2. /\ k \in USlots /\ numqueries \in Nat /\ clock \in Nat /\ uactive \in Nat /\ soaactive \in Int
      /\ u \in [USlots -> URec(numqueries, clock)] /\ qtype \in {"SOA", "AXFR", "other"}
      /\ u[k].active # 0
  BY <1>1, Types DEF IInv, TypeOK, UInv
<1> DEFINE x == [u[k] EXCEPT !.type = qtype]
<1>3. u' = [u EXCEPT ![k] = x] /\ x = [u[k] EXCEPT !.type = qtype]
  BY <1>1, <1>2
<1> HIDE DEF x
<1>4. x = [active |-> u[k].active, start |-> u[k].start, client |-> u[k].client, type |-> qtype]
  <2>1. u[k] \in URec(numqueries, clock)
    BY <1>2
  <2> QED
    BY <1>3, <2>1 DEF URec
<1>5. x \in URec(numqueries, clock)
  <2>1. u[k] \in URec(numqueries, clock)
    BY <1>2
  <2> QED
    BY <1>2, <1>4, <2>1 DEF URec
<1>6. u' \in [USlots -> URec(numqueries, clock)] /\ u'[k] = x /\ \A i \in USlots : i # k => u'[i] = u[i]
  BY <1>2, <1>3, <1>5
<1>7. x.active = u[k].active /\ x.client = u[k].client /\ x.type = qtype
  BY <1>4
<1>8. UInv'
  <2>1. \A i \in USlots : u[i].active \in 0..numqueries
    BY <1>2 DEF URec
  <2>2. k \in ActiveU /\ k \in ActiveU'
    BY <1>2, <1>6, <1>7 DEF ActiveU
  <2>3. (k \in SoaUnderWay <=> qtype = "SOA") /\ (k \in SoaUnderWay' <=> qtype = "SOA")
    BY <1>1, <1>6, <1>7, <2>2 DEF SoaUnderWay
  <2>4. soaactive' = soaactive - One(k \in SoaUnderWay) + One(k \in SoaUnderWay')
    BY <1>1, <1>2, <2>3 DEF One
  <2>5. uactive' = uactive - One(u[k].active # 0) + One(u'[k].active # 0)
    BY <1>1, <1>2, <1>6, <1>7 DEF One
  <2>6. UInv
    BY DEF IInv
  <2>7. u'[k].client = asker'[u'[k].active]
    <3>1. u[k].client = asker[u[k].active]
      BY <2>2, <2>6 DEF UInv, AnswersAsker
    <3> QED
      BY <3>1, <1>1, <1>6, <1>7
  <2> QED
    BY <1>1, <1>2, <1>6, <2>1, <2>4, <2>5, <2>6, <2>7, UStep
<1>9. TInv' /\ HT' = HT
  BY <1>1, TQuiet, HTSame DEF IInv, tcp
<1>10. LogInv'
  <2>1. HU' = HU
    <3>1. \A i \in USlots : u'[i].active = u[i].active
      BY <1>6, <1>7
    <3> QED
      BY <3>1 DEF HU
  <2> QED
    BY <1>1, <1>9, <2>1 DEF IInv, LogInv, Settling
<1>11. TypeOK'
  <2>1. UNCHANGED <<t, tactive, heap, upolled, tpolled>>
    BY <1>1 DEF tcp, polled
  <2> QED
    BY <1>1, <1>6, <2>1 DEF IInv, TypeOK, URec
<1>12. PollInv' /\ Bounded'
  BY <1>1, PollElsewhere DEF Bounded
<1> QED
  BY <1>8, <1>9, <1>10, <1>11, <1>12 DEF IInv

LEMMA UdpStep == ASSUME IInv, Udp PROVE IInv'
BY ULook, UEndStep, UNewStep, UEvictStep, URejectStep, URecvStep, UStartEndStep, UStartWaitStep DEF Udp

----------------------------------------------------------------------------
(* poll, and the deadlines of connections *)

LEMMA PollStep == ASSUME IInv, iopause PROVE IInv'
<1>1. /\ pc = "pause" /\ upolled' = ActiveU /\ tpolled' = ActiveT /\ pc' = "u" /\ k' = 0
      /\ UNCHANGED udp /\ UNCHANGED tcp /\ UNCHANGED <<numqueries, clock, log>>
  BY DEF iopause
<1>2. ActiveU' = ActiveU /\ ActiveT' = ActiveT /\ upolled' \subseteq USlots /\ tpolled' \subseteq TSlots
  BY <1>1 DEF udp, tcp, ActiveU, ActiveT
<1>3. PlaceOK' /\ PollInv'
  BY <1>1, <1>2, Slots DEF PlaceOK, PollInv, PolledFirst
<1> QED
  BY <1>1, <1>2, <1>3, Quiet

LEMMA ExpireStep == ASSUME IInv, NEW j \in TSlots, Expire(j) PROVE IInv'
<1>1. /\ t[j].active # 0 /\ t' = [t EXCEPT ![j].late = TRUE]
      /\ UNCHANGED <<pc, k, numqueries, clock, log, tactive, heap>>
      /\ UNCHANGED udp /\ UNCHANGED polled
  BY DEF Expire
<1>2. t \in [TSlots -> TRec(clock)] /\ TypeOK
  BY Types DEF IInv
<1> DEFINE x == [t[j] EXCEPT !.late = TRUE]
<1>3. t' = [t EXCEPT ![j] = x] /\ x = [t[j] EXCEPT !.late = TRUE]
  BY <1>1, <1>2
<1> HIDE DEF x
<1>4. x = [active |-> t[j].active, start |-> t[j].start, state |-> t[j].state, buf |-> t[j].buf,
           len |-> t[j].len, pos |-> t[j].pos, late |-> TRUE]
  <2>1. t[j] \in TRec(clock)
    BY <1>2
  <2> QED
    BY <1>3, <2>1 DEF TRec
<1>5. x \in TRec(clock)
  <2>1. t[j] \in TRec(clock)
    BY <1>2
  <2> QED
    BY <1>4, <2>1 DEF TRec
<1>6. t' \in [TSlots -> TRec(clock)] /\ t'[j] = x /\ \A i \in TSlots : i # j => t'[i] = t[i]
  BY <1>2, <1>3, <1>5
<1>7. \A i \in TSlots : /\ t'[i].active = t[i].active /\ t'[i].state = t[i].state
                        /\ t'[i].buf = t[i].buf /\ t'[i].len = t[i].len /\ t'[i].pos = t[i].pos
  BY <1>4, <1>6
<1>8. ActiveT' = ActiveT /\ BufT' = BufT /\ HT' = HT
  BY <1>1, <1>7 DEF ActiveT, BufT, HT
<1>9. TInv'
  <2>1. (pc = "t_accept" \/ pc = "t_query") => k \in TSlots
    BY <1>2 DEF TypeOK
  <2>2. \A i \in ActiveT : i \in TSlots
    BY DEF ActiveT
  <2>3. BufMatchesState'
    BY <1>1, <1>7, <1>8, <2>2 DEF IInv, TInv, BufMatchesState
  <2> QED
    BY <1>1, <1>7, <1>8, <2>1, <2>3 DEF IInv, TInv
<1>10. u' = u /\ ActiveU' = ActiveU /\ SoaUnderWay' = SoaUnderWay /\ HU' = HU
  BY <1>1 DEF udp, ActiveU, SoaUnderWay, HU
<1>11. UInv'
  BY <1>1, <1>10 DEF udp, IInv, UInv, AnswersAsker, SoaCounted
<1>12. LogInv'
  BY <1>1, <1>8, <1>10 DEF IInv, LogInv, Settling
<1>13. PollInv' /\ Bounded'
  BY <1>1, <1>8, <1>10 DEF IInv, PollInv, PolledFirst, Bounded, polled
<1>14. TypeOK'
  BY <1>1, <1>2, <1>6 DEF TypeOK, TRec, udp, polled
<1> QED
  BY <1>9, <1>11, <1>12, <1>13, <1>14 DEF IInv

----------------------------------------------------------------------------
(* TCP connections *)

TSlot(a, st, s, b, l, p, lt) ==
  [active |-> a, start |-> st, state |-> s, buf |-> b, len |-> l, pos |-> p, late |-> lt]

LEMMA TSlotFacts ==
  ASSUME NEW c \in Nat, NEW a \in 0..MaxQueries \cup {1}, NEW st \in 0..c, NEW s \in -1..3,
         NEW b \in Nat, NEW l \in Nat, NEW p \in Nat, NEW lt \in BOOLEAN, NEW x, x = TSlot(a, st, s, b, l, p, lt)
  PROVE  /\ x \in TRec(c) /\ x.active = a /\ x.state = s /\ x.buf = b /\ x.len = l /\ x.pos = p
<1>1. x \in TRec(c)
  BY DEF TSlot, TRec
<1> QED
  BY <1>1 DEF TSlot

LEMMA TRecFields ==
  ASSUME NEW c, NEW y \in TRec(c)
  PROVE  /\ y.active \in 0..MaxQueries \cup {1} /\ y.start \in 0..c /\ y.state \in -1..3
         /\ y.buf \in Nat /\ y.len \in Nat /\ y.pos \in Nat /\ y.late \in BOOLEAN
         /\ y = TSlot(y.active, y.start, y.state, y.buf, y.len, y.pos, y.late)
<1>1. /\ y.active \in 0..MaxQueries \cup {1} /\ y.start \in 0..c /\ y.state \in -1..3
      /\ y.buf \in Nat /\ y.len \in Nat /\ y.pos \in Nat /\ y.late \in BOOLEAN
  BY DEF TRec
<1>2. y = TSlot(y.active, y.start, y.state, y.buf, y.len, y.pos, y.late)
  BY DEF TRec, TSlot
<1> QED
  BY <1>1, <1>2

\* An event puts a deadline off and changes nothing else.
LEMMA SeenFacts ==
  ASSUME NEW c \in Nat, NEW x \in TRec(c), NEW r \in BOOLEAN, NEW y, y = Seen(x, r)
  PROVE  /\ y \in TRec(c) /\ y.active = x.active /\ y.state = x.state
         /\ y.buf = x.buf /\ y.len = x.len /\ y.pos = x.pos
<1>1. PICK b \in BOOLEAN : y = [x EXCEPT !.late = b]
  <2>1. y = [x EXCEPT !.late = @ /\ ~r]
    BY DEF Seen
  <2>2. (x.late /\ ~r) \in BOOLEAN
    OBVIOUS
  <2> QED
    BY <2>1, <2>2
<1>2. x = TSlot(x.active, x.start, x.state, x.buf, x.len, x.pos, x.late)
  BY TRecFields
<1>3. y = TSlot(x.active, x.start, x.state, x.buf, x.len, x.pos, b)
  BY <1>1, <1>2 DEF TSlot
<1>4. /\ x.active \in 0..MaxQueries \cup {1} /\ x.start \in 0..c /\ x.state \in -1..3
      /\ x.buf \in Nat /\ x.len \in Nat /\ x.pos \in Nat
  BY TRecFields
<1>5. y \in TRec(c)
  BY <1>1, <1>3, <1>4 DEF TRec, TSlot
<1> QED
  BY <1>3, <1>5 DEF TSlot

\* A step of one slot of t.
LEMMA TMove ==
  ASSUME IInv, NEW j \in TSlots, NEW x, x \in TRec(clock'), t' = [t EXCEPT ![j] = x],
         tactive' = tactive - One(t[j].active # 0) + One(x.active # 0),
         heap' = heap - Blocks(t[j]) + Blocks(x),
         TFits(x, pc' = "t_query" /\ k' = j),
         pc = "t_query" => k = j,
         pc' = "t_accept" => k' = j /\ x.active = 0,
         pc' = "t_query" => k' = j /\ x.active # 0 /\ x.state = 3 /\ x.pos = x.len,
         UNCHANGED udp, UNCHANGED polled,
         clock' \in 0..MaxArrivals, clock <= clock', numqueries' \in 0..MaxQueries, numqueries <= numqueries',
         pc # "u_query", pc' \notin {"u_query", "u_recv"},
         LogInv', log' \in [Serials -> Statuses], PlaceOK', PollInv', Bounded'
  PROVE  IInv'
<1>1. /\ t \in [TSlots -> TRec(clock)] /\ u \in [USlots -> URec(numqueries, clock)]
      /\ clock \in Nat /\ numqueries \in Nat /\ clock' \in Nat /\ numqueries' \in Nat
      /\ MaxQueries \in Nat /\ MaxArrivals \in Nat
  BY Types DEF IInv
<1>2. t'[j] = x /\ \A i \in TSlots : i # j => t'[i] = t[i]
  BY <1>1
<1>3. t' \in [TSlots -> TRec(clock')]
  <2>1. \A i \in TSlots : t[i] \in TRec(clock')
    BY <1>1 DEF TRec
  <2> QED
    BY <1>1, <2>1
<1>4. TInv'
  BY <1>2, TStep DEF IInv
<1>5. UInv'
  BY UQuiet DEF IInv
<1>6. u' \in [USlots -> URec(numqueries', clock')]
  <2>1. \A i \in USlots : u[i] \in URec(numqueries', clock')
    BY <1>1 DEF URec
  <2>2. u' = u
    BY DEF udp
  <2> QED
    BY <1>1, <2>1, <2>2
<1>7. TypeOK'
  <2>1. tactive' \in Nat /\ heap' \in Int
    BY <1>4, Sizes DEF TInv
  <2>2. UNCHANGED <<uactive, soaactive, qtype, asker, misled, upolled, tpolled>>
    BY DEF udp, polled
  <2>3. UNCHANGED <<uactive, soaactive, qtype, asker, misled, upolled, tpolled>> /\ TypeOK
    BY <2>2 DEF IInv
  <2> QED
    BY <1>3, <1>6, <2>1, <2>3 DEF TypeOK, PlaceOK, TRec, URec, Statuses
<1> QED
  BY <1>4, <1>5, <1>7 DEF IInv

\* What slot x holds once no query is being started.
Held(x) == IF x.state = 0 THEN x.active ELSE 0

\* A step of the loop over t.
LEMMA TLoop ==
  ASSUME IInv, pc \in {"t", "t_query"}, NextT, NEW x \in TRec(clock), t' = [t EXCEPT ![k] = x],
         x.active # 0 => t[k].active # 0,
         tactive' = tactive - One(t[k].active # 0) + One(x.active # 0),
         heap' = heap - Blocks(t[k]) + Blocks(x),
         TFits(x, FALSE),
         UNCHANGED udp, UNCHANGED polled, UNCHANGED <<numqueries, clock>>,
         \/ log' = log /\ Held(x) = HT[k]
         \/ \E how \in {"sent", "drop"} : log' = Settle(t[k].active, how) /\ HT[k] # 0 /\ Held(x) = 0
  PROVE  IInv'
<1>1. /\ t \in [TSlots -> TRec(clock)] /\ clock \in 0..MaxArrivals /\ numqueries \in 0..MaxQueries /\ k \in TSlots
      /\ log \in [Serials -> Statuses]
  BY Types DEF IInv, TypeOK
<1>2. t'[k] = x /\ \A i \in TSlots : i # k => t'[i] = t[i]
  BY <1>1
<1>3. ActiveT' \subseteq ActiveT
  BY <1>2 DEF ActiveT
<1>4. PollInv' /\ pc' \in {"t", "u_new"} /\ PlaceOK'
  BY <1>3, PollNextT DEF IInv, PlaceOK
<1>5. HT'[k] = Held(x) /\ \A i \in TSlots : i # k => HT'[i] = HT[i]
  BY <1>1, <1>2, <1>4 DEF HT, Held
<1>6. HU' = HU
  BY HUSame DEF udp
<1>7. LogInv' /\ log' \in [Serials -> Statuses]
  <2>1. Settling(HU, HT, log, numqueries) /\ numqueries \in Nat
    BY <1>1, Types DEF IInv, LogInv
  <2>2. CASE log' = log /\ Held(x) = HT[k]
    <3>1. \A i \in TSlots : HT'[i] = HT[i]
      BY <1>5, <2>2
    <3>2. HT' = HT
      BY <3>1 DEF HT
    <3> QED
      BY <1>1, <1>6, <2>1, <2>2, <3>2 DEF LogInv, Settling
  <2>3. CASE \E how \in {"sent", "drop"} : log' = Settle(t[k].active, how) /\ HT[k] # 0 /\ Held(x) = 0
    <3>1. PICK how \in {"sent", "drop"} : log' = Settle(t[k].active, how) /\ HT[k] # 0 /\ Held(x) = 0
      BY <2>3
    <3>2. HT[k] = t[k].active
      BY <1>1, <3>1 DEF HT
    <3>3. log' = Settled(log, HT[k], how)
      BY <3>1, <3>2 DEF Settle, Settled
    <3>4. Settling(HU, HT', Settled(log, HT[k], how), numqueries)
      BY <1>1, <1>5, <2>1, <3>1, SettleT
    <3>5. log' \in [Serials -> Statuses]
      BY <1>1, <3>3 DEF Settled, Statuses
    <3> QED
      BY <1>6, <3>3, <3>4, <3>5 DEF LogInv, Settling
  <2> QED
    BY <2>2, <2>3
<1>8. /\ clock' = clock /\ clock' \in 0..MaxArrivals /\ clock <= clock'
      /\ numqueries' \in 0..MaxQueries /\ numqueries <= numqueries' /\ x \in TRec(clock')
  BY <1>1, Types DEF IInv
<1>9. TFits(x, pc' = "t_query" /\ k' = k)
  BY <1>4 DEF TFits
<1>10. Bounded'
  BY <1>4 DEF Bounded
<1> QED
  BY <1>1, <1>4, <1>7, <1>8, <1>9, <1>10, TMove

LEMMA TInHand ==
  ASSUME IInv, pc \in {"t", "t_query"}
  PROVE  /\ k \in TSlots /\ t \in [TSlots -> TRec(clock)] /\ t[k] \in TRec(clock) /\ clock \in Nat
         /\ tactive \in Nat /\ heap \in Int /\ TFits(t[k], pc = "t_query")
         /\ HT[k] = IF t[k].state = 0 \/ pc = "t_query" THEN t[k].active ELSE 0
<1>1. k \in TSlots /\ t \in [TSlots -> TRec(clock)] /\ clock \in Nat /\ tactive \in Nat /\ heap \in Int
  BY Types DEF IInv, TypeOK
<1>2. TFits(t[k], pc = "t_query")
  <2>1. TFits(t[k], pc = "t_query" /\ k = k)
    BY <1>1, TFitting DEF IInv
  <2> QED
    BY <2>1 DEF TFits
<1> QED
  BY <1>1, <1>2, HolderFacts

\* Nothing to do for a slot, ...
LEMMA TLook == ASSUME IInv, t_skip \/ t_idle PROVE IInv'
<1>1. /\ pc = "t" /\ NextT /\ UNCHANGED udp /\ UNCHANGED tcp /\ UNCHANGED polled
      /\ UNCHANGED <<numqueries, clock, log>>
  BY DEF t_skip, t_idle
<1>2. ActiveT' = ActiveT
  BY <1>1 DEF tcp, ActiveT
<1>3. PollInv' /\ pc' \in {"t", "u_new"} /\ PlaceOK'
  BY <1>1, <1>2, PollNextT DEF IInv, PlaceOK
<1>4. upolled' \subseteq USlots /\ tpolled' \subseteq TSlots
  BY <1>1, Types DEF IInv, polled
<1> QED
  BY <1>1, <1>3, <1>4, Quiet

\* ... or no more than to see an event.
LEMMA TWaitStep == ASSUME IInv, t_wait PROVE IInv'
<1>1. PICK revents \in BOOLEAN :
        /\ pc = "t" /\ t[k].active # 0 /\ t[k].state = 0
        /\ t' = [t EXCEPT ![k] = Seen(t[k], revents)]
        /\ NextT
        /\ UNCHANGED <<heap, tactive>>
        /\ UNCHANGED udp /\ UNCHANGED polled /\ UNCHANGED <<numqueries, clock, log>>
  BY DEF t_wait, Update
<1>2. PICK x : x = Seen(t[k], revents)
  OBVIOUS
<1>3. /\ x \in TRec(clock) /\ x.active = t[k].active /\ x.state = t[k].state
      /\ x.buf = t[k].buf /\ x.len = t[k].len /\ x.pos = t[k].pos
  BY <1>1, <1>2, TInHand, SeenFacts
<1>4. /\ tactive' = tactive - One(t[k].active # 0) + One(x.active # 0)
      /\ heap' = heap - Blocks(t[k]) + Blocks(x)
  BY <1>1, <1>3, TInHand DEF One, Blocks
<1>5. TFits(x, FALSE) /\ Held(x) = HT[k]
  BY <1>1, <1>3, TInHand DEF TFits, Held
<1> QED
  BY <1>1, <1>2, <1>3, <1>4, <1>5, TLoop

\* A connection that closes with fields x.
LEMMA TCloseStep ==
  ASSUME IInv, pc \in {"t", "t_query"}, NextT, NEW y \in TRec(clock), t[k].active # 0, t_close(k, y),
         UNCHANGED udp, UNCHANGED polled, UNCHANGED <<numqueries, clock>>,
         \/ log' = log /\ HT[k] = 0
         \/ \E how \in {"sent", "drop"} : log' = Settle(t[k].active, how) /\ HT[k] # 0
  PROVE  IInv'
<1>1. PICK x : x = Closed(y)
  OBVIOUS
<1>2. t' = [t EXCEPT ![k] = x] /\ tactive' = tactive - 1 /\ heap' = heap - Blocks(t[k])
  BY <1>1 DEF t_close
<1>3. x = TSlot(0, y.start, y.state, 0, y.len, y.pos, y.late)
  <2>1. y = TSlot(y.active, y.start, y.state, y.buf, y.len, y.pos, y.late)
    BY TRecFields
  <2> QED
    BY <1>1, <2>1 DEF Closed, Freed, TSlot
<1>4. x \in TRec(clock)
  <2>1. y.start \in 0..clock /\ y.state \in -1..3 /\ y.len \in Nat /\ y.pos \in Nat /\ y.late \in BOOLEAN
    BY TRecFields
  <2>2. 0 \in 0..MaxQueries
    BY DnscacheAssumption
  <2> QED
    BY <1>3, <2>1, <2>2 DEF TSlot, TRec
<1>5. x.active = 0 /\ x.buf = 0
  BY <1>3 DEF TSlot
<1>6. /\ tactive' = tactive - One(t[k].active # 0) + One(x.active # 0)
      /\ heap' = heap - Blocks(t[k]) + Blocks(x)
  <2>1. Blocks(t[k]) \in Int /\ tactive \in Nat /\ heap \in Int
    BY TInHand DEF Blocks
  <2> QED
    BY <1>2, <1>5, <2>1 DEF One, Blocks
<1>7. TFits(x, FALSE) /\ Held(x) = 0
  BY <1>5 DEF TFits, Held
<1> QED
  BY <1>2, <1>4, <1>5, <1>6, <1>7, TLoop

\* A response takes the place of the query.
LEMMA TRespondStep ==
  ASSUME IInv, pc \in {"t", "t_query"}, NextT, NEW y \in TRec(clock), y.active = t[k].active,
         t[k].active # 0, t_respond(k, y),
         UNCHANGED udp, UNCHANGED polled, UNCHANGED <<numqueries, clock>>,
         \E how \in {"sent", "drop"} : log' = Settle(t[k].active, how), HT[k] # 0
  PROVE  IInv'
<1>1. PICK n \in ResponseLens :
        \/ Renew(k, [y EXCEPT !.len = n + 2, !.buf = n + 2, !.pos = 0, !.state = -1])
        \/ t_close(k, [y EXCEPT !.len = n + 2])
  BY DEF t_respond
<1>2. n \in Nat /\ n + 2 \in Nat /\ n + 2 > 0
  BY DnscacheAssumption
<1>3. /\ y.active \in 0..MaxQueries \cup {1} /\ y.start \in 0..clock /\ y.state \in -1..3
      /\ y.buf \in Nat /\ y.pos \in Nat /\ y.late \in BOOLEAN
      /\ y = TSlot(y.active, y.start, y.state, y.buf, y.len, y.pos, y.late)
  BY TRecFields
<1>4. CASE Renew(k, [y EXCEPT !.len = n + 2, !.buf = n + 2, !.pos = 0, !.state = -1])
  <2>1. PICK x : x = [y EXCEPT !.len = n + 2, !.buf = n + 2, !.pos = 0, !.state = -1]
    OBVIOUS
  <2>2. x = TSlot(y.active, y.start, -1, n + 2, n + 2, 0, y.late)
    BY <1>3, <2>1 DEF TSlot
  <2>3. x \in TRec(clock)
    BY <1>2, <1>3, <2>2 DEF TSlot, TRec
  <2>4. x.active = t[k].active /\ x.state = -1 /\ x.buf = n + 2 /\ x.len = n + 2 /\ x.pos = 0
    BY <2>2 DEF TSlot
  <2>5. t' = [t EXCEPT ![k] = x] /\ heap' = heap - Blocks(t[k]) + Blocks(x) /\ tactive' = tactive
    BY <1>4, <2>1 DEF Renew
  <2>6. tactive' = tactive - One(t[k].active # 0) + One(x.active # 0)
    BY <2>4, <2>5, TInHand DEF One
  <2>7. TFits(x, FALSE) /\ Held(x) = 0
    BY <1>2, <2>4 DEF TFits, Held
  <2> QED
    BY <2>3, <2>4, <2>5, <2>6, <2>7, TLoop
<1>5. CASE t_close(k, [y EXCEPT !.len = n + 2])
  <2>1. PICK x : x = [y EXCEPT !.len = n + 2]
    OBVIOUS
  <2>2. x = TSlot(y.active, y.start, y.state, y.buf, n + 2, y.pos, y.late)
    BY <1>3, <2>1 DEF TSlot
  <2>3. x \in TRec(clock)
    BY <1>2, <1>3, <2>2 DEF TSlot, TRec
  <2>4. t_close(k, x)
    BY <1>5, <2>1
  <2> QED
    BY <2>3, <2>4, TCloseStep
<1> QED
  BY <1>1, <1>4, <1>5

LEMMA TEndStep == ASSUME IInv, NEW j \in TSlots, t_end(j) PROVE IInv'
<1>1. PICK revents \in BOOLEAN, how \in {"sent", "drop"} :
        /\ pc = "t" /\ k = j /\ t[j].active # 0 /\ t[j].state = 0
        /\ log' = Settle(t[j].active, how)
        /\ IF how = "sent" THEN t_respond(j, Seen(t[j], revents)) ELSE t_close(j, Seen(t[j], revents))
        /\ NextT
        /\ UNCHANGED udp /\ UNCHANGED polled /\ UNCHANGED <<numqueries, clock>>
  BY DEF t_end
<1>2. PICK y : y = Seen(t[k], revents)
  OBVIOUS
<1>3. y \in TRec(clock) /\ y.active = t[k].active
  BY <1>1, <1>2, TInHand, SeenFacts
<1>4. HT[k] # 0 /\ t[k].active # 0 /\ log' = Settle(t[k].active, how)
  BY <1>1, TInHand
<1>5. CASE how = "sent"
  <2>1. t_respond(k, y)
    BY <1>1, <1>2, <1>5
  <2> QED
    BY <1>1, <1>3, <1>4, <2>1, TRespondStep
<1>6. CASE how # "sent"
  <2>1. t_close(k, y)
    BY <1>1, <1>2, <1>6
  <2> QED
    BY <1>1, <1>3, <1>4, <2>1, TCloseStep
<1> QED
  BY <1>5, <1>6

LEMMA TRwCloseStep == ASSUME IInv, NEW j \in TSlots, t_rw_close(j) PROVE IInv'
<1>1. PICK revents \in BOOLEAN :
        /\ pc = "t" /\ k = j /\ t[j].active # 0 /\ t[j].state # 0
        /\ t_close(j, Seen(t[j], revents))
        /\ NextT
        /\ UNCHANGED udp /\ UNCHANGED polled /\ UNCHANGED <<numqueries, clock, log>>
  BY DEF t_rw_close, Called
<1>2. PICK y : y = Seen(t[k], revents)
  OBVIOUS
<1>3. y \in TRec(clock)
  BY <1>1, <1>2, TInHand, SeenFacts
<1>4. HT[k] = 0 /\ t[k].active # 0 /\ t_close(k, y)
  BY <1>1, <1>2, TInHand
<1> QED
  BY <1>1, <1>3, <1>4, TCloseStep

LEMMA TStartEndStep == ASSUME IInv, t_query_end PROVE IInv'
<1>1. PICK how \in {"sent", "drop"} :
        /\ pc = "t_query"
        /\ log' = Settle(t[k].active, how)
        /\ IF how = "sent" THEN t_respond(k, t[k]) ELSE t_close(k, t[k])
        /\ NextT
        /\ UNCHANGED udp /\ UNCHANGED polled /\ UNCHANGED <<numqueries, clock>>
  BY DEF t_query_end
<1>2. t[k].active # 0 /\ HT[k] # 0 /\ t[k] \in TRec(clock)
  BY <1>1, TInHand DEF IInv, TInv
<1>3. CASE how = "sent"
  BY <1>1, <1>2, <1>3, TRespondStep
<1>4. CASE how # "sent"
  BY <1>1, <1>2, <1>4, TCloseStep
<1> QED
  BY <1>3, <1>4

LEMMA TStartWaitStep == ASSUME IInv, t_query_wait PROVE IInv'
<1>1. /\ pc = "t_query" /\ Renew(k, [Freed(t[k]) EXCEPT !.state = 0]) /\ NextT
      /\ UNCHANGED udp /\ UNCHANGED polled /\ UNCHANGED <<numqueries, clock, log>>
  BY DEF t_query_wait
<1> DEFINE y == t[k]
<1>2. /\ y.active \in 0..MaxQueries \cup {1} /\ y.start \in 0..clock /\ y.len \in Nat
      /\ y.pos \in Nat /\ y.late \in BOOLEAN
      /\ y = TSlot(y.active, y.start, y.state, y.buf, y.len, y.pos, y.late)
  BY <1>1, TInHand, TRecFields
<1>3. PICK x : x = [Freed(y) EXCEPT !.state = 0]
  OBVIOUS
<1>4. x = TSlot(y.active, y.start, 0, 0, y.len, y.pos, y.late)
  BY <1>2, <1>3 DEF Freed, TSlot
<1>5. x \in TRec(clock)
  BY <1>2, <1>4 DEF TSlot, TRec
<1>6. x.active = t[k].active /\ x.state = 0 /\ x.buf = 0
  BY <1>4 DEF TSlot
<1>7. /\ t' = [t EXCEPT ![k] = x] /\ heap' = heap - Blocks(t[k]) + Blocks(x)
      /\ tactive' = tactive - One(t[k].active # 0) + One(x.active # 0)
  BY <1>1, <1>3, <1>6, TInHand DEF Renew, One
<1>8. TFits(x, FALSE) /\ Held(x) = HT[k]
  BY <1>1, <1>6, TInHand DEF TFits, Held
<1> QED
  BY <1>1, <1>5, <1>6, <1>7, <1>8, TLoop

\* Some bytes of a query are read, or of a response written, not yet all.
LEMMA TBytesStep == ASSUME IInv, t_rw_write \/ t_rw_read PROVE IInv'
<1>1. PICK revents \in BOOLEAN, r \in 1..(t[k].len - t[k].pos - 1) :
        /\ pc = "t" /\ t[k].active # 0 /\ t[k].state \in {3, -1}
        /\ t' = [t EXCEPT ![k] = [Seen(t[k], revents) EXCEPT !.pos = @ + r]]
        /\ NextT
        /\ UNCHANGED <<heap, tactive>>
        /\ UNCHANGED udp /\ UNCHANGED polled /\ UNCHANGED <<numqueries, clock, log>>
  BY DEF t_rw_write, t_rw_read, Called, Update
<1>2. PICK y : y = Seen(t[k], revents)
  OBVIOUS
<1>3. /\ y \in TRec(clock) /\ y.active = t[k].active /\ y.state = t[k].state
      /\ y.buf = t[k].buf /\ y.len = t[k].len /\ y.pos = t[k].pos
  BY <1>1, <1>2, TInHand, SeenFacts
<1>4. /\ y.active \in 0..MaxQueries \cup {1} /\ y.start \in 0..clock /\ y.state \in -1..3
      /\ y.buf \in Nat /\ y.len \in Nat /\ y.pos \in Nat /\ y.late \in BOOLEAN
      /\ y = TSlot(y.active, y.start, y.state, y.buf, y.len, y.pos, y.late)
  BY <1>3, TRecFields
<1>5. y.pos + r \in Nat /\ y.pos + r < y.len
  BY <1>1, <1>3, <1>4
<1>6. PICK x : x = [y EXCEPT !.pos = @ + r]
  OBVIOUS
<1>7. x = TSlot(y.active, y.start, y.state, y.buf, y.len, y.pos + r, y.late)
  BY <1>4, <1>6 DEF TSlot
<1>8. x \in TRec(clock)
  BY <1>4, <1>5, <1>7 DEF TSlot, TRec
<1>9. /\ x.active = t[k].active /\ x.state = t[k].state /\ x.buf = t[k].buf
      /\ x.len = t[k].len /\ x.pos < x.len /\ x.pos <= x.len /\ x.pos # x.len
  BY <1>3, <1>4, <1>5, <1>7 DEF TSlot
<1>10. t' = [t EXCEPT ![k] = x]
  BY <1>1, <1>2, <1>6
<1>11. /\ tactive' = tactive - One(t[k].active # 0) + One(x.active # 0)
       /\ heap' = heap - Blocks(t[k]) + Blocks(x)
  BY <1>1, <1>9, TInHand DEF One, Blocks
<1>12. TFits(x, FALSE) /\ Held(x) = HT[k]
  <2>1. TFits(t[k], pc = "t_query") /\ HT[k] = IF t[k].state = 0 \/ pc = "t_query" THEN t[k].active ELSE 0
    BY <1>1, TInHand
  <2>2. TFits(x, FALSE)
    BY <1>1, <1>9, <2>1 DEF TFits
  <2>3. Held(x) = HT[k]
    BY <1>1, <1>9, <2>1 DEF Held
  <2> QED
    BY <2>2, <2>3
<1> QED
  BY <1>1, <1>8, <1>9, <1>10, <1>11, <1>12, TLoop

\* The rest of a response is written: its buffer is freed.
LEMMA TWrittenStep == ASSUME IInv, t_rw_written PROVE IInv'
<1>1. PICK revents \in BOOLEAN :
        /\ pc = "t" /\ t[k].active # 0 /\ t[k].state = -1
        /\ Renew(k, [Freed(Seen(t[k], revents)) EXCEPT !.pos = @ + (t[k].len - t[k].pos), !.state = 1])
        /\ NextT
        /\ UNCHANGED udp /\ UNCHANGED polled /\ UNCHANGED <<numqueries, clock, log>>
  BY DEF t_rw_written, Called
<1>2. PICK y : y = Seen(t[k], revents)
  OBVIOUS
<1>3. /\ y \in TRec(clock) /\ y.active = t[k].active /\ y.len = t[k].len /\ y.pos = t[k].pos
  BY <1>1, <1>2, TInHand, SeenFacts
<1>4. /\ y.active \in 0..MaxQueries \cup {1} /\ y.start \in 0..clock
      /\ y.len \in Nat /\ y.pos \in Nat /\ y.late \in BOOLEAN
      /\ y = TSlot(y.active, y.start, y.state, y.buf, y.len, y.pos, y.late)
  BY <1>3, TRecFields
<1>5. PICK x : x = [Freed(y) EXCEPT !.pos = @ + (t[k].len - t[k].pos), !.state = 1]
  OBVIOUS
<1>6. x = TSlot(y.active, y.start, 1, 0, y.len, y.pos + (t[k].len - t[k].pos), y.late)
  BY <1>4, <1>5 DEF Freed, TSlot
<1>7. y.pos + (t[k].len - t[k].pos) \in Nat
  BY <1>3, <1>4
<1>8. x \in TRec(clock)
  BY <1>4, <1>6, <1>7 DEF TSlot, TRec
<1>9. x.active = t[k].active /\ x.state = 1 /\ x.buf = 0
  BY <1>3, <1>6 DEF TSlot
<1>10. /\ t' = [t EXCEPT ![k] = x] /\ heap' = heap - Blocks(t[k]) + Blocks(x)
       /\ tactive' = tactive - One(t[k].active # 0) + One(x.active # 0)
  BY <1>1, <1>2, <1>5, <1>9, TInHand DEF Renew, One
<1>11. TFits(x, FALSE) /\ Held(x) = HT[k]
  BY <1>1, <1>9, TInHand DEF TFits, Held
<1> QED
  BY <1>1, <1>8, <1>9, <1>10, <1>11, TLoop

\* The first byte of the length.
LEMMA TLen1Step == ASSUME IInv, t_rw_len1 PROVE IInv'
<1>1. PICK revents \in BOOLEAN :
        /\ pc = "t" /\ t[k].active # 0 /\ t[k].state = 1
        /\ t' = [t EXCEPT ![k] = [Seen(t[k], revents) EXCEPT !.len = 0, !.state = 2]]
        /\ NextT
        /\ UNCHANGED <<heap, tactive>>
        /\ UNCHANGED udp /\ UNCHANGED polled /\ UNCHANGED <<numqueries, clock, log>>
  BY DEF t_rw_len1, Called, Update
<1>2. PICK y : y = Seen(t[k], revents)
  OBVIOUS
<1>3. y \in TRec(clock) /\ y.active = t[k].active /\ y.buf = t[k].buf
  BY <1>1, <1>2, TInHand, SeenFacts
<1>4. /\ y.active \in 0..MaxQueries \cup {1} /\ y.start \in 0..clock
      /\ y.buf \in Nat /\ y.pos \in Nat /\ y.late \in BOOLEAN
      /\ y = TSlot(y.active, y.start, y.state, y.buf, y.len, y.pos, y.late)
  BY <1>3, TRecFields
<1>5. PICK x : x = [y EXCEPT !.len = 0, !.state = 2]
  OBVIOUS
<1>6. x = TSlot(y.active, y.start, 2, y.buf, 0, y.pos, y.late)
  BY <1>4, <1>5 DEF TSlot
<1>7. x \in TRec(clock)
  BY <1>4, <1>6 DEF TSlot, TRec
<1>8. x.active = t[k].active /\ x.state = 2 /\ x.buf = t[k].buf /\ t[k].buf = 0
  <2>1. TFits(t[k], pc = "t_query")
    BY <1>1, TInHand
  <2>2. t[k].buf = 0
    BY <1>1, <2>1 DEF TFits
  <2> QED
    BY <1>3, <1>6, <2>2 DEF TSlot
<1>9. t' = [t EXCEPT ![k] = x]
  BY <1>1, <1>2, <1>5
<1>10. /\ tactive' = tactive - One(t[k].active # 0) + One(x.active # 0)
       /\ heap' = heap - Blocks(t[k]) + Blocks(x)
  BY <1>1, <1>8, TInHand DEF One, Blocks
<1>11. TFits(x, FALSE) /\ Held(x) = HT[k]
  BY <1>1, <1>8, TInHand DEF TFits, Held
<1> QED
  BY <1>1, <1>7, <1>8, <1>9, <1>10, <1>11, TLoop

\* The length is known: a buffer of that length for the query.
LEMMA TLen2Step == ASSUME IInv, t_rw_len2 PROVE IInv'
<1>1. PICK revents \in BOOLEAN, n \in Lens :
        /\ pc = "t" /\ t[k].active # 0 /\ t[k].state \in {1, 2} /\ n >= MinLen
        /\ Alloc(k, [Seen(t[k], revents) EXCEPT !.len = n, !.buf = n, !.pos = 0, !.state = 3])
        /\ NextT
        /\ UNCHANGED udp /\ UNCHANGED polled /\ UNCHANGED <<numqueries, clock, log>>
  BY DEF t_rw_len2, Called, LongEnough
<1>2. PICK y : y = Seen(t[k], revents)
  OBVIOUS
<1>3. y \in TRec(clock) /\ y.active = t[k].active
  BY <1>1, <1>2, TInHand, SeenFacts
<1>4. /\ y.active \in 0..MaxQueries \cup {1} /\ y.start \in 0..clock /\ y.late \in BOOLEAN
      /\ y = TSlot(y.active, y.start, y.state, y.buf, y.len, y.pos, y.late)
  BY <1>3, TRecFields
<1>5. n \in Nat /\ n > 0
  BY <1>1, DnscacheAssumption
<1>6. PICK x : x = [y EXCEPT !.len = n, !.buf = n, !.pos = 0, !.state = 3]
  OBVIOUS
<1>7. x = TSlot(y.active, y.start, 3, n, n, 0, y.late)
  BY <1>4, <1>6 DEF TSlot
<1>8. x \in TRec(clock)
  BY <1>4, <1>5, <1>7 DEF TSlot, TRec
<1>9. x.active = t[k].active /\ x.state = 3 /\ x.buf = n /\ x.len = n /\ x.pos = 0
  BY <1>3, <1>7 DEF TSlot
<1>10. t[k].buf = 0 /\ HT[k] = 0
  <2>1. TFits(t[k], pc = "t_query") /\ HT[k] = IF t[k].state = 0 \/ pc = "t_query" THEN t[k].active ELSE 0
    BY <1>1, TInHand
  <2> QED
    BY <1>1, <2>1 DEF TFits
<1>11. t' = [t EXCEPT ![k] = x] /\ heap' = heap + 1 /\ tactive' = tactive
  BY <1>1, <1>2, <1>6 DEF Alloc
<1>12. /\ tactive' = tactive - One(t[k].active # 0) + One(x.active # 0)
       /\ heap' = heap - Blocks(t[k]) + Blocks(x)
  BY <1>1, <1>5, <1>9, <1>10, <1>11, TInHand DEF One, Blocks
<1>13. TFits(x, FALSE) /\ Held(x) = HT[k]
  <2>1. x.buf = x.len /\ x.pos <= x.len /\ x.pos # x.len /\ x.state = 3 /\ x.active # 0
    BY <1>1, <1>5, <1>9
  <2>2. TFits(x, FALSE)
    BY <2>1 DEF TFits
  <2>3. Held(x) = HT[k]
    BY <1>10, <2>1 DEF Held
  <2> QED
    BY <2>2, <2>3
<1> QED
  BY <1>1, <1>8, <1>9, <1>11, <1>12, <1>13, TLoop

\* The query is complete and acceptable.
LEMMA TQueryStep == ASSUME IInv, t_rw_query PROVE IInv'
<1>1. PICK revents \in BOOLEAN :
        /\ pc = "t" /\ t[k].active # 0 /\ t[k].state = 3 /\ numqueries < MaxQueries
        /\ numqueries' = numqueries + 1
        /\ t' = [t EXCEPT ![k] = [Seen(t[k], revents) EXCEPT !.pos = t[k].len, !.active = numqueries']]
        /\ log' = [log EXCEPT ![numqueries'] = "query"]
        /\ pc' = "t_query" /\ k' = k
        /\ UNCHANGED <<heap, tactive>>
        /\ UNCHANGED udp /\ UNCHANGED polled /\ UNCHANGED clock
  BY DEF t_rw_query, Called, Update
<1>2. PICK y : y = Seen(t[k], revents)
  OBVIOUS
<1>3. /\ y \in TRec(clock) /\ y.active = t[k].active /\ y.state = t[k].state
      /\ y.buf = t[k].buf /\ y.len = t[k].len
  BY <1>1, <1>2, TInHand, SeenFacts
<1>4. /\ y.start \in 0..clock /\ y.buf \in Nat /\ y.len \in Nat /\ y.late \in BOOLEAN
      /\ y = TSlot(y.active, y.start, y.state, y.buf, y.len, y.pos, y.late)
  BY <1>3, TRecFields
<1>5. /\ numqueries \in 0..MaxQueries /\ MaxQueries \in Nat /\ numqueries + 1 \in Serials
      /\ numqueries + 1 # 0 /\ numqueries + 1 \in 0..MaxQueries
      /\ log \in [Serials -> Statuses] /\ clock \in 0..MaxArrivals /\ numqueries \in Nat
  BY <1>1, Types, SMTT(40) DEF IInv, Serials
<1>6. PICK x : x = [y EXCEPT !.pos = t[k].len, !.active = numqueries + 1]
  OBVIOUS
<1>7. x = TSlot(numqueries + 1, y.start, 3, y.buf, y.len, y.len, y.late)
  BY <1>1, <1>3, <1>4, <1>6 DEF TSlot
<1>8. x \in TRec(clock)
  BY <1>4, <1>5, <1>7 DEF TSlot, TRec
<1>9. /\ x.active = numqueries + 1 /\ x.active # 0 /\ x.state = 3 /\ x.buf = t[k].buf
      /\ x.len = t[k].len /\ x.pos = x.len
  BY <1>3, <1>5, <1>7 DEF TSlot
<1>10. t' = [t EXCEPT ![k] = x]
  BY <1>1, <1>2, <1>6
<1>11. /\ tactive' = tactive - One(t[k].active # 0) + One(x.active # 0)
       /\ heap' = heap - Blocks(t[k]) + Blocks(x)
  BY <1>1, <1>9, TInHand DEF One, Blocks
<1>12. TFits(x, pc' = "t_query" /\ k' = k)
  <2>1. TFits(t[k], pc = "t_query") /\ t[k].len \in Nat
    BY <1>1, <1>3, <1>4, TInHand
  <2> QED
    BY <1>1, <1>9, <2>1 DEF TFits
<1>13. k \in TSlots /\ t \in [TSlots -> TRec(clock)] /\ HT[k] = 0
  BY <1>1, TInHand
<1>14. LogInv' /\ log' \in [Serials -> Statuses]
  <2>1. HT'[k] = numqueries + 1 /\ \A i \in TSlots : i # k => HT'[i] = HT[i]
    BY <1>1, <1>9, <1>10, <1>13 DEF HT
  <2>2. Settling(HU, HT, log, numqueries)
    BY DEF IInv, LogInv
  <2>3. Settling(HU, HT', [log EXCEPT ![numqueries + 1] = "query"], numqueries + 1)
    BY <1>5, <1>13, <2>1, <2>2, ArriveT
  <2>4. HU' = HU
    BY <1>1, HUSame DEF udp
  <2>5. log' \in [Serials -> Statuses]
    BY <1>1, <1>5 DEF Statuses
  <2> QED
    BY <1>1, <2>3, <2>4, <2>5 DEF LogInv, Settling
<1>15. PollInv'
  <2>1. ActiveT' = ActiveT
    BY <1>1, <1>9, <1>10, <1>13 DEF ActiveT
  <2>2. \A j \in ActiveT : j >= k => j \in tpolled
    BY <1>1 DEF IInv, PollInv, PolledFirst
  <2> QED
    BY <1>1, <2>1, <2>2 DEF PollInv, PolledFirst, polled
<1>16. PlaceOK' /\ Bounded'
  BY <1>1, <1>13, Slots DEF PlaceOK, Bounded
<1>17. /\ clock' \in 0..MaxArrivals /\ clock <= clock' /\ numqueries' \in 0..MaxQueries /\ numqueries <= numqueries'
       /\ x \in TRec(clock')
  BY <1>1, <1>5, <1>8
<1> QED
  BY <1>1, <1>9, <1>10, <1>11, <1>12, <1>13, <1>14, <1>15, <1>16, <1>17, TMove

LEMMA TNewStep == ASSUME IInv, t_new_none \/ t_new_free PROVE IInv'
<1>1. /\ pc = "t_new" /\ UNCHANGED udp /\ UNCHANGED tcp /\ UNCHANGED polled
      /\ UNCHANGED <<numqueries, clock, log>>
  BY DEF t_new_none, t_new_free
<1>2. upolled' \subseteq USlots /\ tpolled' \subseteq TSlots
  BY <1>1, Types DEF IInv, polled
<1>3. CASE t_new_none
  <2>1. pc' = "pause" /\ k' = 0
    BY <1>3 DEF t_new_none, AfterTNew
  <2>2. PlaceOK' /\ PollInv'
    BY <2>1, PollElsewhere DEF PlaceOK
  <2> QED
    BY <1>1, <1>2, <2>1, <2>2, Quiet
<1>4. CASE t_new_free
  <2>1. pc' = "t_accept" /\ k' = First(Free(TSlots, t)) /\ Free(TSlots, t) # {} /\ clock < MaxArrivals
    BY <1>4 DEF t_new_free
  <2>2. Free(TSlots, t) \in SUBSET Nat
    BY Slots DEF Free
  <2>3. k' \in Free(TSlots, t)
    BY <2>1, <2>2, FirstIn
  <2>4. k' \in TSlots /\ t[k'].active = 0
    BY <2>3 DEF Free
  <2>5. PlaceOK' /\ PollInv'
    BY <2>1, <2>4, Slots, PollElsewhere DEF PlaceOK
  <2> QED
    BY <1>1, <1>2, <2>1, <2>4, <2>5, Quiet
<1> QED
  BY <1>3, <1>4

\* The holders after a step of slot j of t that starts no query.
LEMMA HTMove ==
  ASSUME t \in [TSlots -> TRec(clock)], NEW j \in TSlots, NEW x, t' = [t EXCEPT ![j] = x],
         pc # "t_query", pc' # "t_query"
  PROVE  /\ HT'[j] = Held(x) /\ HT[j] = Held(t[j])
         /\ \A i \in TSlots : i # j => HT'[i] = HT[i]
         /\ Held(x) = Held(t[j]) => HT' = HT
<1>1. t'[j] = x /\ \A i \in TSlots : i # j => t'[i] = t[i]
  OBVIOUS
<1>2. HT'[j] = Held(x) /\ HT[j] = Held(t[j]) /\ \A i \in TSlots : i # j => HT'[i] = HT[i]
  BY <1>1 DEF HT, Held
<1>3. Held(x) = Held(t[j]) => \A i \in TSlots : HT'[i] = HT[i]
  BY <1>2
<1> QED
  BY <1>2, <1>3 DEF HT

LEMMA TEvictStep == ASSUME IInv, t_new_evict PROVE IInv'
<1> DEFINE j == Oldest(TSlots, t)
<1>1. /\ pc = "t_new" /\ clock < MaxArrivals /\ Free(TSlots, t) = {}
      /\ pc' = "t_accept" /\ k' = j /\ log' = EvictLog(t[j])
      /\ t_close(j, t[j])
      /\ UNCHANGED udp /\ UNCHANGED polled /\ UNCHANGED <<numqueries, clock>>
  BY DEF t_new_evict
<1>2. /\ t \in [TSlots -> TRec(clock)] /\ clock \in 0..MaxArrivals /\ numqueries \in 0..MaxQueries
      /\ log \in [Serials -> Statuses] /\ MaxQueries \in Nat /\ MaxArrivals \in Nat
      /\ tactive \in Nat /\ heap \in Int
  BY Types DEF IInv
<1>3. \A i \in TSlots : t[i].start \in Nat
  BY <1>2 DEF TRec
<1>4. j \in TSlots
  BY <1>3, Slots, OldestIn
<1> HIDE DEF j
<1>5. t[j].active # 0 /\ t[j] \in TRec(clock)
  BY <1>1, <1>2, <1>4 DEF Free
<1>6. PICK x : x = Closed(t[j])
  OBVIOUS
<1>7. t' = [t EXCEPT ![j] = x] /\ tactive' = tactive - 1 /\ heap' = heap - Blocks(t[j])
  BY <1>1, <1>6 DEF t_close
<1> DEFINE y == t[j]
<1>8. /\ y.start \in 0..clock /\ y.state \in -1..3 /\ y.len \in Nat /\ y.pos \in Nat /\ y.late \in BOOLEAN
      /\ y = TSlot(y.active, y.start, y.state, y.buf, y.len, y.pos, y.late)
  BY <1>5, TRecFields
<1>9. x = TSlot(0, y.start, y.state, 0, y.len, y.pos, y.late)
  BY <1>6, <1>8 DEF Closed, Freed, TSlot
<1>10. x \in TRec(clock) /\ x \in TRec(clock') /\ x.active = 0 /\ x.buf = 0
  <2>1. 0 \in 0..MaxQueries /\ clock' = clock
    BY <1>1, <1>2
  <2>2. x \in TRec(clock)
    BY <1>8, <1>9, <2>1 DEF TSlot, TRec
  <2> QED
    BY <1>9, <2>1, <2>2 DEF TSlot
<1>11. /\ tactive' = tactive - One(t[j].active # 0) + One(x.active # 0)
       /\ heap' = heap - Blocks(t[j]) + Blocks(x)
  <2>1. Blocks(t[j]) \in Int
    BY DEF Blocks
  <2> QED
    BY <1>2, <1>5, <1>7, <1>10, <2>1 DEF One, Blocks
<1>12. TFits(x, pc' = "t_query" /\ k' = j)
  BY <1>10 DEF TFits
<1>13. LogInv' /\ log' \in [Serials -> Statuses]
  <2>1. Settling(HU, HT, log, numqueries) /\ HU' = HU /\ numqueries \in Nat
    BY <1>1, <1>2, HUSame DEF IInv, LogInv, udp
  <2>2. Held(x) = 0
    BY <1>10 DEF Held
  <2>3. /\ HT'[j] = Held(x) /\ HT[j] = Held(t[j])
        /\ \A i \in TSlots : i # j => HT'[i] = HT[i]
        /\ Held(x) = Held(t[j]) => HT' = HT
    BY <1>1, <1>2, <1>4, <1>7, HTMove
  <2>4. CASE t[j].state # 0
    <3>1. HT' = HT /\ log' = log
      BY <1>1, <2>2, <2>3, <2>4 DEF Held, EvictLog
    <3> QED
      BY <1>1, <1>2, <2>1, <3>1 DEF LogInv, Settling
  <2>5. CASE t[j].state = 0
    <3>1. HT[j] = t[j].active /\ HT[j] # 0
      BY <1>5, <2>3, <2>5 DEF Held
    <3>2. log' = Settled(log, HT[j], "drop")
      BY <1>1, <2>5, <3>1 DEF EvictLog, Settle, Settled
    <3>3. Settling(HU, HT', Settled(log, HT[j], "drop"), numqueries)
      BY <1>2, <1>4, <2>1, <2>2, <2>3, <3>1, SettleT
    <3>4. log' \in [Serials -> Statuses]
      BY <1>2, <3>2 DEF Settled, Statuses
    <3> QED
      BY <1>1, <2>1, <3>2, <3>3, <3>4 DEF LogInv, Settling
  <2> QED
    BY <2>4, <2>5
<1>14. PlaceOK' /\ PollInv' /\ Bounded'
  BY <1>1, <1>4, Slots, PollElsewhere DEF PlaceOK, Bounded
<1>15. /\ clock' \in 0..MaxArrivals /\ clock <= clock' /\ numqueries' \in 0..MaxQueries /\ numqueries <= numqueries'
  BY <1>1, <1>2
<1> QED
  BY <1>1, <1>4, <1>7, <1>10, <1>11, <1>12, <1>13, <1>14, <1>15, TMove

\* A connection, or none, for the slot that is free.
LEMMA TAcceptStep == ASSUME IInv, t_accept_fail \/ t_accept PROVE IInv'
<1>1. /\ pc = "t_accept" /\ clock' = clock + 1 /\ pc' = "pause" /\ k' = 0
      /\ UNCHANGED udp /\ UNCHANGED polled /\ UNCHANGED <<numqueries, log>>
  BY DEF t_accept_fail, t_accept, AfterTNew
<1>2. /\ t \in [TSlots -> TRec(clock)] /\ clock \in 0..MaxArrivals /\ numqueries \in 0..MaxQueries
      /\ log \in [Serials -> Statuses] /\ MaxQueries \in Nat /\ MaxArrivals \in Nat
      /\ tactive \in Nat /\ heap \in Int /\ k \in TSlots /\ clock < MaxArrivals
  BY <1>1, Types DEF IInv, TypeOK, Bounded
<1>3. t[k].active = 0 /\ t[k].buf = 0 /\ t[k] \in TRec(clock)
  BY <1>1, <1>2 DEF IInv, TInv
<1> DEFINE y == t[k]
<1>4. /\ y.state \in -1..3 /\ y.len \in Nat /\ y.pos \in Nat /\ y.late \in BOOLEAN
      /\ y = TSlot(y.active, y.start, y.state, y.buf, y.len, y.pos, y.late)
  BY <1>3, TRecFields
<1>5. PICK x : /\ t' = [t EXCEPT ![k] = x] /\ x \in TRec(clock')
               /\ x.buf = 0 /\ tactive' = tactive + One(x.active # 0) /\ heap' = heap
               /\ x.active # 0 => x.state = 1
  <2>1. clock + 1 \in 0..clock' /\ 0 \in 0..MaxQueries
    BY <1>1, <1>2
  <2>2. CASE t_accept_fail
    <3>1. t' = [t EXCEPT ![k] = [y EXCEPT !.start = clock + 1]] /\ UNCHANGED <<heap, tactive>>
      BY <1>1, <2>2 DEF t_accept_fail, Update
    <3>2. PICK x : x = [y EXCEPT !.start = clock + 1]
      OBVIOUS
    <3>3. x = TSlot(0, clock + 1, y.state, 0, y.len, y.pos, y.late)
      BY <1>3, <1>4, <3>2 DEF TSlot
    <3>4. x \in TRec(clock')
      BY <1>4, <2>1, <3>3 DEF TSlot, TRec
    <3>5. x.buf = 0 /\ x.active = 0
      BY <3>3 DEF TSlot
    <3>6. tactive' = tactive + One(x.active # 0)
      BY <1>2, <3>1, <3>5 DEF One
    <3> QED
      BY <3>1, <3>2, <3>4, <3>5, <3>6
  <2>3. CASE t_accept
    <3>1. /\ t' = [t EXCEPT ![k].start = clock', ![k].active = 1, ![k].state = 1, ![k].late = FALSE]
          /\ tactive' = tactive + 1 /\ heap' = heap
      BY <2>3 DEF t_accept
    <3>2. PICK x : x = [y EXCEPT !.start = clock + 1, !.active = 1, !.state = 1, !.late = FALSE]
      OBVIOUS
    <3>3. t' = [t EXCEPT ![k] = x]
      BY <1>1, <1>2, <3>1, <3>2
    <3>4. x = TSlot(1, clock + 1, 1, 0, y.len, y.pos, FALSE)
      BY <1>3, <1>4, <3>2 DEF TSlot
    <3>5. x \in TRec(clock')
      BY <1>4, <2>1, <3>4 DEF TSlot, TRec
    <3>6. x.buf = 0 /\ x.active = 1 /\ x.state = 1
      BY <3>4 DEF TSlot
    <3>7. tactive' = tactive + One(x.active # 0)
      BY <1>2, <3>1, <3>6 DEF One
    <3> QED
      BY <3>1, <3>3, <3>5, <3>6, <3>7
  <2> QED
    BY <2>2, <2>3
<1>6. /\ tactive' = tactive - One(t[k].active # 0) + One(x.active # 0)
      /\ heap' = heap - Blocks(t[k]) + Blocks(x)
  BY <1>2, <1>3, <1>5 DEF One, Blocks
<1>7. TFits(x, pc' = "t_query" /\ k' = k)
  BY <1>5 DEF TFits
<1>8. LogInv' /\ log' \in [Serials -> Statuses]
  <2>1. Held(x) = Held(t[k])
    BY <1>3, <1>5 DEF Held
  <2>2. HT' = HT
    BY <1>1, <1>2, <1>5, <2>1, HTMove
  <2>3. HU' = HU
    BY <1>1, HUSame DEF udp
  <2> QED
    BY <1>1, <1>2, <2>2, <2>3 DEF IInv, LogInv, Settling
<1>9. PlaceOK' /\ PollInv' /\ Bounded'
  BY <1>1, PollElsewhere DEF PlaceOK, Bounded
<1>10. /\ clock' \in 0..MaxArrivals /\ clock <= clock' /\ numqueries' \in 0..MaxQueries /\ numqueries <= numqueries'
  BY <1>1, <1>2
<1> QED
  BY <1>1, <1>2, <1>5, <1>6, <1>7, <1>8, <1>9, <1>10, TMove

LEMMA TcpStep == ASSUME IInv, Tcp PROVE IInv'
BY TLook, TWaitStep, TEndStep, TRwCloseStep, TBytesStep, TWrittenStep, TLen1Step, TLen2Step, TQueryStep,
   TStartEndStep, TStartWaitStep, TNewStep, TEvictStep, TAcceptStep DEF Tcp

----------------------------------------------------------------------------
(* The theorems *)

LEMMA InitIInv == Init => IInv
<1> SUFFICES ASSUME Init PROVE IInv
  OBVIOUS
<1> USE DnscacheAssumption DEF Init
<1>1. /\ \A j \in USlots : u[j].active = 0 /\ u[j].client = None /\ u[j].type = "other"
      /\ \A j \in TSlots : t[j].active = 0 /\ t[j].buf = 0 /\ t[j].state = 0
  OBVIOUS
<1>2. ActiveU = {} /\ ActiveT = {} /\ BufT = {} /\ SoaUnderWay = {}
  BY <1>1 DEF ActiveU, ActiveT, BufT, SoaUnderWay
<1>3. Cardinality({}) = 0
  BY FS_EmptySet
<1>4. UInv
  BY <1>2, <1>3 DEF UInv, AnswersAsker, SoaCounted
<1>5. TInv
  BY <1>1, <1>2, <1>3 DEF TInv, BufMatchesState
<1>6. PollInv /\ Bounded
  BY DEF PollInv, PolledFirst, Bounded
<1>7. LogInv
  <2>1. /\ \A j \in USlots : HU[j] = 0
        /\ \A j \in TSlots : HT[j] = 0
    BY <1>1 DEF HU, HT
  <2>2. \A i \in Serials : i > 0 /\ log[i] = "unused"
    BY DEF Serials
  <2> QED
    BY <2>1, <2>2 DEF LogInv, Settling
<1>8. u \in [USlots -> URec(numqueries, clock)]
  BY DEF URec
<1>9. t \in [TSlots -> TRec(clock)]
  BY DEF TRec
<1>10. TypeOK
  <2>1. log \in [Serials -> Statuses] /\ asker \in [Serials -> Client \cup {None}]
    BY DEF Statuses
  <2>2. /\ pc = "pause" /\ k = 0 /\ uactive = 0 /\ soaactive = 0 /\ tactive = 0 /\ heap = 0
        /\ numqueries = 0 /\ clock = 0 /\ qtype = "other" /\ upolled = {} /\ tpolled = {}
    OBVIOUS
  <2>3. numqueries \in 0..MaxQueries /\ clock \in 0..MaxArrivals
    BY <2>2
  <2>4. misled \in BOOLEAN
    OBVIOUS
  <2> HIDE DEF Init
  <2> QED
    BY <1>8, <1>9, <2>1, <2>2, <2>3, <2>4 DEF TypeOK, URec, TRec, Statuses
<1> QED
  BY <1>4, <1>5, <1>6, <1>7, <1>10 DEF IInv

LEMMA NextIInv == IInv /\ [Next]_vars => IInv'
<1> SUFFICES ASSUME IInv, [Next]_vars PROVE IInv'
  OBVIOUS
<1>1. CASE iopause
  BY <1>1, PollStep
<1>2. CASE Udp
  BY <1>2, UdpStep
<1>3. CASE Tcp
  BY <1>3, TcpStep
<1>4. ASSUME NEW j \in TSlots, Expire(j) PROVE IInv'
  BY <1>4, ExpireStep
<1>5. CASE UNCHANGED vars
  <2>1. /\ UNCHANGED <<pc, k, u, uactive, soaactive, t, tactive, numqueries, qtype, upolled, tpolled>>
        /\ UNCHANGED <<clock, heap, log, asker, misled>>
    BY <1>5 DEF vars
  <2>2. ActiveU' = ActiveU /\ ActiveT' = ActiveT /\ BufT' = BufT /\ SoaUnderWay' = SoaUnderWay
    BY <2>1 DEF ActiveU, ActiveT, BufT, SoaUnderWay
  <2>3. HU' = HU /\ HT' = HT
    BY <2>1 DEF HU, HT
  <2>4. UInv'
    BY <2>1, <2>2 DEF IInv, UInv, AnswersAsker, SoaCounted
  <2>5. TInv'
    BY <2>1, <2>2 DEF IInv, TInv, BufMatchesState
  <2>6. LogInv'
    BY <2>1, <2>3 DEF IInv, LogInv, Settling
  <2>7. PollInv' /\ Bounded'
    BY <2>1, <2>2 DEF IInv, PollInv, PolledFirst, Bounded
  <2>8. TypeOK'
    BY <2>1 DEF IInv, TypeOK
  <2> QED
    BY <2>4, <2>5, <2>6, <2>7, <2>8 DEF IInv
<1> QED
  BY <1>1, <1>2, <1>3, <1>4, <1>5 DEF Next, doit

LEMMA IInvServes == IInv => ServesAsker
<1> SUFFICES ASSUME IInv PROVE ServesAsker
  OBVIOUS
<1>1. SettledOnce
  BY SettlingOnce DEF IInv
<1>2. Counted
  BY DEF IInv, UInv, TInv, Counted, BufT
<1> QED
  BY <1>1, <1>2 DEF IInv, UInv, TInv, PollInv, ServesAsker

\* The variables of dnscache.c keep their types.
THEOREM DnscacheTypeOK == Spec => []TypeOK
<1>1. IInv => TypeOK
  BY DEF IInv
<1> QED
  BY <1>1, InitIInv, NextIInv, PTL DEF Spec

\* Every query that dnscache accepts is settled once, towards the client that
\* asked it, and its counters, buffers and poll entries are those of the
\* slots in use.
THEOREM DnscacheServesAsker == Spec => []ServesAsker
BY InitIInv, NextIInv, IInvServes, PTL DEF Spec

----------------------------------------------------------------------------
(* dqcache *)

DqSpec == DqInit /\ [][DqNext]_dqvars

\* A step of dqcache is one of dnscache, for the tables that they share.
LEMMA DqStep == TypeOK /\ [DqNext]_dqvars => [Next]_vars
<1> SUFFICES ASSUME TypeOK, [DqNext]_dqvars PROVE [Next]_vars
  OBVIOUS
<1>1. CASE UNCHANGED dqvars
  BY <1>1 DEF dqvars
<1>2. CASE dq_poll
  BY <1>2 DEF dq_poll, Next, doit
<1>3. CASE DqUdp
  <2>1. pc = "u" => k \in USlots
    BY DEF TypeOK
  <2>2. Udp
    BY <1>3, <2>1 DEF DqUdp, Udp, dq_u_skip, dq_u_wait, dq_u_end, dq_u_new_none, dq_u_new_free, dq_u_new_evict,
       dq_u_reject, dq_u_duplicate, dq_u_query, dq_u_query_refused, dq_u_query_end, dq_u_query_wait
  <2> QED
    BY <2>2 DEF Next, doit
<1>4. CASE DqTcp
  <2>1. pc = "t" => k \in TSlots
    BY DEF TypeOK
  <2>2. Tcp
    BY <1>4, <2>1 DEF DqTcp, Tcp, dq_t_skip, dq_t_wait, dq_t_end, dq_t_idle, dq_t_rw_close, dq_t_rw_write,
       dq_t_rw_len1, dq_t_rw_len2, dq_t_rw_read, dq_t_query_end, dq_t_query_wait, dq_t_new_none, dq_t_new_free,
       dq_t_new_evict, dq_t_accept
  <2> QED
    BY <2>2 DEF Next, doit
<1>5. CASE dq_t_timeout
  BY <1>5 DEF dq_t_timeout, Next
<1> QED
  BY <1>1, <1>2, <1>3, <1>4, <1>5 DEF DqNext

\* dqcache keeps the promise of dnscache: its main loop implements that of
\* dnscache.c, ...
THEOREM DqcacheImplements == DqSpec => Spec
<1>1. DqInit => Init
  BY DEF DqInit
<1>2. IInv => TypeOK
  BY DEF IInv
<1> QED
  BY <1>1, <1>2, DqStep, InitIInv, NextIInv, PTL DEF DqSpec, Spec

\* ... and so it too settles every query once, towards the client that asked.
THEOREM DqcacheServesAsker == DqSpec => []ServesAsker
BY DqcacheImplements, DnscacheServesAsker, PTL

----------------------------------------------------------------------------
(* The cache of dqcache on disk *)

Entry == [key : Key, expire : Int, until : Int]
Entries == Entry \cup {Junk}

\* What has not expired for longer than it was meant to last, but for the
\* slack; what is being loaded has aged by the time that loading has taken.
OnTime(s, extra) ==
  /\ s \in Seq(Entries)
  /\ \A i \in 1..Len(s) : s[i] # Junk => s[i].expire + extra <= s[i].until + slack

DumpTypeOK ==
  /\ at \in {"off", "init", "load", "run"}
  /\ handlers \in {<< >>, <<"ALRM">>, <<"TERM">>, <<"ALRM", "TERM">>, <<"TERM", "ALRM">>}
  /\ old \in Seq(Entry) /\ new \in Seq(Entry)
  /\ arg # Nil => arg.key \in Key /\ arg.ttl \in Int /\ (arg.until # Nil => arg.until \in Int)
  /\ now \in Int /\ loadtime \in Int /\ slack \in Nat

Times ==
  /\ OnTime(old, 0) /\ OnTime(new, 0) /\ OnTime(walk, 0) /\ OnTime(todump, 0)
  /\ handlers = <<"TERM", "ALRM">> => OnTime(below.todump, 0)
  /\ tmp # Nil \/ (handlers # << >> /\ ~lost) => OnTime(tmp, 0)
  /\ file # Nil => OnTime(file, 0)
  /\ at = "load" => OnTime(toload, now - loadtime)
  /\ arg # Nil /\ arg.until # Nil => at = "load" /\ now + arg.ttl <= arg.until + slack

\* In a dump of w, the records of w before those of rest are in f.
Partial(w, rest, f) ==
  LET R == Records(w)
      done == Len(w) - Len(rest)
  IN /\ Len(rest) <= Len(w)
     /\ \A i \in 1..Len(rest) : rest[i] = w[done + i]
     /\ Len(f) = Cardinality(DOMAIN R \cap (1..done))
     /\ \A i \in DOMAIN R \cap (1..done) : f[Cardinality(DOMAIN R \cap (1..i))] = R[i]

\* A dump that is not struck has a walk of entries only, and its file the
\* records before todump; after another one has used the buffer, all of them.
Going ==
  /\ walk \in Seq(Entry)
  /\ IF lost THEN tmp # Nil => InOrder(tmp, Records(walk)) ELSE Partial(walk, todump, tmp)
Under ==
  /\ lost => handlers = <<"TERM">>
  /\ handlers # << >> /\ ~struck => Going

\* The inductive invariant of the cache on disk.
DumpInv == DumpTypeOK /\ Times /\ Under /\ DumpWhole

\* What sequences are made of.
LEMMA Elements ==
  ASSUME NEW S, NEW s \in Seq(S)
  PROVE  /\ Len(s) \in Nat /\ DOMAIN s = 1..Len(s) /\ \A i \in 1..Len(s) : s[i] \in S
         /\ s # << >> => /\ Tail(s) \in Seq(S) /\ Head(s) = s[1] /\ 1 \in 1..Len(s)
                         /\ Len(Tail(s)) = Len(s) - 1
                         /\ \A i \in 1..Len(Tail(s)) : i + 1 \in 1..Len(s) /\ Tail(s)[i] = s[i + 1]
OBVIOUS

LEMMA EntryFacts ==
  /\ Junk \notin Entry /\ << >> \in Seq(Entry) /\ << >> \in Seq(Entries)
  /\ \A e \in Entry : e.key \in Key /\ e.expire \in Int /\ e.until \in Int /\ e # Junk /\ e \in Entries
  /\ \A e \in Entries : e # Junk => e \in Entry
  /\ \A s \in Seq(Entry) : s \in Seq(Entries)
<1>1. ASSUME NEW e \in Entry PROVE e # Junk /\ e.key \in Key /\ e.expire \in Int /\ e.until \in Int
  <2>1. e.key # Nil /\ Junk.key = Nil
    BY DumpAssumption DEF Entry, Junk
  <2> QED
    BY <2>1 DEF Entry
<1>2. Entry \subseteq Entries
  BY DEF Entries
<1>3. \A s \in Seq(Entry) : s \in Seq(Entries)
  BY <1>2, SeqMonotonic
<1>4. << >> \in Seq(Entry) /\ << >> \in Seq(Entries)
  OBVIOUS
<1> QED
  BY <1>1, <1>2, <1>3, <1>4 DEF Entries

LEMMA NoTimes == \A extra : OnTime(<< >>, extra)
BY EntryFacts DEF OnTime

LEMMA TailTimes ==
  ASSUME NEW s, s # << >>, NEW extra, OnTime(s, extra)
  PROVE  OnTime(Tail(s), extra)
BY Elements DEF OnTime

LEMMA AppendTimes ==
  ASSUME NEW s, NEW e \in Entries, OnTime(s, 0), e # Junk => e.expire <= e.until + slack
  PROVE  OnTime(Append(s, e), 0)
<1> DEFINE f == Append(s, e)
<1>1. /\ s \in Seq(Entries) /\ Len(s) \in Nat /\ f \in Seq(Entries) /\ Len(f) = Len(s) + 1
      /\ f[Len(s) + 1] = e /\ \A i \in 1..Len(s) : f[i] = s[i]
  BY AppendProperties, Elements DEF OnTime
<1> HIDE DEF f
<1>2. ASSUME NEW i \in 1..(Len(s) + 1), f[i] # Junk PROVE f[i].expire + 0 <= f[i].until + slack
  <2>1. CASE i = Len(s) + 1
    <3>1. e.expire \in Int /\ e.expire <= e.until + slack /\ f[i] = e
      BY <1>1, <1>2, <2>1, EntryFacts
    <3> QED
      BY <3>1
  <2>2. CASE i \in 1..Len(s)
    BY <1>1, <1>2, <2>2 DEF OnTime
  <2> QED
    BY <1>1, <2>1, <2>2
<1>3. OnTime(f, 0)
  BY <1>1, <1>2 DEF OnTime
<1> QED
  BY <1>3 DEF f

LEMMA ConcatTimes ==
  ASSUME NEW r, NEW s, OnTime(r, 0), OnTime(s, 0)
  PROVE  OnTime(r \o s, 0)
<1> DEFINE f == r \o s
<1>1. /\ r \in Seq(Entries) /\ s \in Seq(Entries) /\ Len(r) \in Nat /\ Len(s) \in Nat
      /\ f \in Seq(Entries) /\ Len(f) = Len(r) + Len(s)
      /\ \A i \in 1..Len(r) + Len(s) : f[i] = IF i <= Len(r) THEN r[i] ELSE s[i - Len(r)]
  BY ConcatProperties, Elements DEF OnTime
<1> HIDE DEF f
<1>2. ASSUME NEW i \in 1..(Len(r) + Len(s)), f[i] # Junk PROVE f[i].expire + 0 <= f[i].until + slack
  <2>1. CASE i <= Len(r)
    <3>1. i \in 1..Len(r) /\ f[i] = r[i]
      BY <1>1, <2>1
    <3> QED
      BY <1>2, <3>1 DEF OnTime
  <2>2. CASE ~(i <= Len(r))
    <3>1. i - Len(r) \in 1..Len(s) /\ f[i] = s[i - Len(r)]
      BY <1>1, <2>2
    <3> QED
      BY <1>2, <3>1 DEF OnTime
  <2> QED
    BY <2>1, <2>2
<1>3. OnTime(f, 0)
  BY <1>1, <1>2 DEF OnTime
<1> QED
  BY <1>3 DEF f

\* Some place becomes junk.
LEMMA JunkTimes ==
  ASSUME NEW s, NEW extra, OnTime(s, extra), NEW i \in DOMAIN s
  PROVE  OnTime([s EXCEPT ![i] = Junk], extra)
<1> DEFINE f == [s EXCEPT ![i] = Junk]
<1>1. s \in Seq(Entries) /\ i \in 1..Len(s) /\ Junk \in Entries
  BY Elements DEF OnTime, Entries
<1>2. f \in Seq(Entries) /\ Len(f) = Len(s) /\ \A j \in 1..Len(s) : f[j] = IF j = i THEN Junk ELSE s[j]
  BY <1>1, ExceptSeq
<1> HIDE DEF f
<1>3. OnTime(f, extra)
  BY <1>2 DEF OnTime
<1> QED
  BY <1>3 DEF f

LEMMA SpoiltTimes ==
  ASSUME NEW f, OnTime(f, 0), NEW g \in Spoilt(f)
  PROVE  OnTime(g, 0)
<1>1. Junk \in Entries
  BY DEF Entries
<1>2. OnTime(Append(f, Junk), 0)
  BY <1>1, AppendTimes
<1>3. ASSUME NEW i \in DOMAIN f PROVE OnTime([f EXCEPT ![i] = Junk], 0)
  BY JunkTimes
<1> QED
  BY <1>2, <1>3 DEF Spoilt

LEMMA PrefixTimes ==
  ASSUME NEW s, OnTime(s, 0), NEW n \in 0..Len(s)
  PROVE  OnTime(SubSeq(s, 1, n), 0)
<1> DEFINE f == SubSeq(s, 1, n)
<1>1. s \in Seq(Entries) /\ Len(s) \in Nat /\ n \in Nat /\ n <= Len(s) /\ \A i \in 1..n : s[i] \in Entries
  BY Elements DEF OnTime
<1>2. f \in Seq(Entries) /\ Len(f) = n /\ \A i \in 1..n : f[i] = s[i]
  <2>1. /\ f \in Seq(Entries) /\ Len(f) = IF 1 <= n THEN n - 1 + 1 ELSE 0
        /\ \A i \in 1..(n - 1 + 1) : f[i] = s[1 + i - 1]
    BY <1>1, SubSeqProperties
  <2> HIDE DEF f
  <2> QED
    BY <1>1, <2>1
<1> HIDE DEF f
<1>3. OnTime(f, 0)
  BY <1>1, <1>2 DEF OnTime
<1> QED
  BY <1>3 DEF f

\* What was on time is, when the clock and the slack go on together.
LEMMA LaterTimes ==
  ASSUME NEW s, NEW extra \in Int, OnTime(s, extra),
         slack \in Int, slack' \in Int, NEW later \in Int, slack + later <= slack' + extra
  PROVE  \A i \in 1..Len(s) : s[i] # Junk => s[i].expire + later <= s[i].until + slack'
<1> SUFFICES ASSUME NEW i \in 1..Len(s), s[i] # Junk PROVE s[i].expire + later <= s[i].until + slack'
  OBVIOUS
<1>1. s[i].expire \in Int /\ s[i].until \in Int
  BY Elements, EntryFacts DEF OnTime
<1>2. s[i].expire + extra <= s[i].until + slack
  BY DEF OnTime
<1>3. \A a, b, c, d, x, y \in Int : a + x <= b + c /\ c + y <= d + x => a + y <= b + d
  OBVIOUS
<1> QED
  BY <1>1, <1>2, <1>3

LEMMA DumpInitial == DumpInit => DumpInv
<1> SUFFICES ASSUME DumpInit PROVE DumpInv
  OBVIOUS
<1>1. DumpTypeOK
  <2>1. /\ old \in Seq(Entry) /\ new \in Seq(Entry) /\ arg = Nil /\ now = 0 /\ loadtime = 0 /\ slack = 0
        /\ at = "off" /\ handlers = << >>
    BY EntryFacts DEF DumpInit
  <2> QED
    BY <2>1 DEF DumpTypeOK
<1>2. Times
  BY NoTimes DEF DumpInit, Times
<1>3. Under /\ DumpWhole
  BY DEF DumpInit, Under, DumpWhole
<1> QED
  BY <1>1, <1>2, <1>3 DEF DumpInv

\* A step that leaves the dump and its files alone.
LEMMA DumpQuiet ==
  ASSUME DumpInv, DumpTypeOK', Times', UNCHANGED <<dumping, files>>
  PROVE  DumpInv'
<1>0. UNCHANGED <<handlers, walk, todump, lost, struck, tmp>>
  BY DEF dumping, files
<1>1. Under'
  <2>1. Records(walk)' = Records(walk)
    BY <1>0 DEF Records
  <2>2. Partial(walk, todump, tmp)' <=> Partial(walk, todump, tmp)
    BY <1>0, <2>1 DEF Partial
  <2>3. InOrder(tmp, Records(walk))' <=> InOrder(tmp, Records(walk))
    BY <1>0, <2>1 DEF InOrder
  <2>4. Going' <=> Going
    BY <1>0, <2>2, <2>3 DEF Going
  <2> QED
    BY <1>0, <2>4 DEF DumpInv, Under
<1>2. DumpWhole'
  BY DEF DumpInv, DumpWhole, InOrder, files
<1> QED
  BY <1>1, <1>2 DEF DumpInv

\* ... and the time.
LEMMA DumpStill ==
  ASSUME DumpInv, DumpTypeOK', UNCHANGED <<dumping, files, slack>>, OnTime(old', 0), OnTime(new', 0),
         at' = "load" => OnTime(toload', now' - loadtime'),
         arg' # Nil /\ arg'.until # Nil => at' = "load" /\ now' + arg'.ttl <= arg'.until + slack
  PROVE  DumpInv'
<1>1. (OnTime(old, 0) /\ OnTime(new, 0))' /\ (at = "load" => OnTime(toload, now - loadtime))'
  BY DEF OnTime
<1>2. (OnTime(walk, 0) /\ OnTime(todump, 0) /\ (handlers = <<"TERM", "ALRM">> => OnTime(below.todump, 0)))'
  BY DEF DumpInv, Times, OnTime, dumping
<1>3. ((tmp # Nil \/ (handlers # << >> /\ ~lost) => OnTime(tmp, 0)) /\ (file # Nil => OnTime(file, 0)))'
  BY DEF DumpInv, Times, OnTime, files, dumping
<1>4. Times'
  BY <1>1, <1>2, <1>3 DEF Times
<1> QED
  BY <1>4, DumpQuiet

LEMMA SecondsStep == ASSUME DumpInv, seconds PROVE DumpInv'
<1>0. DumpTypeOK /\ Times
  BY DEF DumpInv
<1>1. /\ now' = now + 1 /\ slack' \in Nat /\ slack <= slack' /\ (at = "load" => slack' = slack + 1)
      /\ UNCHANGED <<at, cache, dumping, toload, loadtime, files>>
  BY <1>0 DEF seconds, DumpTypeOK
<1>2. DumpTypeOK'
  BY <1>0, <1>1 DEF DumpTypeOK, cache, dumping
<1>3. ASSUME NEW s, OnTime(s, 0) PROVE \A i \in 1..Len(s) : s[i] # Junk => s[i].expire + 0 <= s[i].until + slack'
  <2> SUFFICES ASSUME NEW i \in 1..Len(s), s[i] # Junk PROVE s[i].expire + 0 <= s[i].until + slack'
    OBVIOUS
  <2>1. s[i].expire \in Int /\ s[i].until \in Int
    BY <1>3, Elements, EntryFacts DEF OnTime
  <2>2. s[i].expire + 0 <= s[i].until + slack
    BY <1>3 DEF OnTime
  <2>3. slack \in Int /\ slack' \in Int /\ slack <= slack'
    BY <1>0, <1>1 DEF DumpTypeOK
  <2> QED
    BY <2>1, <2>2, <2>3
<1>4. (OnTime(old, 0) /\ OnTime(new, 0))'
  BY <1>0, <1>1, <1>3 DEF Times, OnTime, cache
<1>5. (OnTime(walk, 0) /\ OnTime(todump, 0) /\ (handlers = <<"TERM", "ALRM">> => OnTime(below.todump, 0)))'
  BY <1>0, <1>1, <1>3 DEF Times, OnTime, dumping
<1>6. ((tmp # Nil \/ (handlers # << >> /\ ~lost) => OnTime(tmp, 0)) /\ (file # Nil => OnTime(file, 0)))'
  BY <1>0, <1>1, <1>3 DEF Times, OnTime, files, dumping
<1>7. (at = "load" => OnTime(toload, now - loadtime))'
  <2> SUFFICES ASSUME at = "load"
               PROVE  /\ toload \in Seq(Entries)
                      /\ \A i \in 1..Len(toload) : toload[i] # Junk =>
                           toload[i].expire + (now' - loadtime) <= toload[i].until + slack'
    BY <1>1 DEF OnTime
  <2>0. now \in Int /\ loadtime \in Int /\ slack \in Nat
    BY <1>0 DEF DumpTypeOK
  <2>1. now - loadtime \in Int /\ now' - loadtime \in Int
        /\ slack + (now' - loadtime) <= slack' + (now - loadtime) /\ slack \in Int /\ slack' \in Int
    BY <1>1, <2>0
  <2>2. OnTime(toload, now - loadtime)
    BY <1>0 DEF Times
  <2> QED
    BY <2>1, <2>2, LaterTimes DEF OnTime
<1>8. (arg # Nil /\ arg.until # Nil => at = "load" /\ now + arg.ttl <= arg.until + slack)'
  <2>1. arg' = arg /\ at' = at
    BY <1>1 DEF cache
  <2> SUFFICES ASSUME arg # Nil, arg.until # Nil PROVE at = "load" /\ now' + arg.ttl <= arg.until + slack'
    BY <2>1
  <2>2. at = "load" /\ now + arg.ttl <= arg.until + slack /\ now' = now + 1 /\ slack' = slack + 1
    BY <1>0, <1>1 DEF Times
  <2>3. arg.ttl \in Int /\ arg.until \in Int /\ now \in Int /\ slack \in Int
    BY <1>0 DEF DumpTypeOK
  <2> QED
    BY <2>2, <2>3
<1>9. Times'
  BY <1>4, <1>5, <1>6, <1>7, <1>8 DEF Times
<1> QED
  BY <1>1, <1>2, <1>9, DumpQuiet

LEMMA SetStartStep == ASSUME DumpInv, cache_set_start PROVE DumpInv'
<1>0. DumpTypeOK /\ Times
  BY DEF DumpInv
<1>1. PICK name \in Key, ttl \in TTLs : arg' = [key |-> name, ttl |-> Capped(ttl), until |-> Nil]
  BY DEF cache_set_start, Arg
<1>2. Capped(ttl) \in Int /\ UNCHANGED <<at, old, new, toload, loadtime, dumping, files, now, slack>>
  BY DumpAssumption DEF Capped, cache_set_start, Main
<1>3. DumpTypeOK'
  BY <1>0, <1>1, <1>2 DEF DumpTypeOK, dumping
<1>4. OnTime(old', 0) /\ OnTime(new', 0) /\ (at' = "load" => OnTime(toload', now' - loadtime')) /\ arg'.until = Nil
  BY <1>0, <1>1, <1>2 DEF Times
<1> QED
  BY <1>2, <1>3, <1>4, DumpStill

\* What moves entries about, or takes them out.
LEMMA MoveStep ==
  ASSUME DumpInv, InSet, arg' \in {arg, Nil}, old' \in {old, new, << >>} \/ (old # << >> /\ old' = Tail(old)),
         new' \in {new, << >>}
  PROVE  DumpInv'
<1>0. DumpTypeOK /\ Times
  BY DEF DumpInv
<1>1. UNCHANGED <<at, toload, loadtime, dumping, files, now, slack>>
  BY DEF InSet, Main
<1>2. /\ old' \in Seq(Entry) /\ OnTime(old', 0)
      /\ new' \in Seq(Entry) /\ OnTime(new', 0)
  <2>1. old \in Seq(Entry) /\ new \in Seq(Entry) /\ OnTime(old, 0) /\ OnTime(new, 0)
    BY <1>0 DEF DumpTypeOK, Times
  <2>2. << >> \in Seq(Entry) /\ OnTime(<< >>, 0)
    BY EntryFacts, NoTimes
  <2>3. old # << >> => Tail(old) \in Seq(Entry) /\ OnTime(Tail(old), 0)
    BY <2>1, Elements, TailTimes
  <2> QED
    BY <2>1, <2>2, <2>3
<1>3. DumpTypeOK'
  BY <1>0, <1>1, <1>2 DEF DumpTypeOK, dumping
<1>4. at' = "load" => OnTime(toload', now' - loadtime')
  BY <1>0, <1>1 DEF Times
<1>5. arg' # Nil /\ arg'.until # Nil => at' = "load" /\ now' + arg'.ttl <= arg'.until + slack
  BY <1>0, <1>1 DEF Times
<1> QED
  BY <1>1, <1>2, <1>3, <1>4, <1>5, DumpStill

LEMMA InsertStep == ASSUME DumpInv, cache_set_insert PROVE DumpInv'
<1>0. DumpTypeOK /\ Times
  BY DEF DumpInv
<1> DEFINE until == IF arg.until = Nil THEN now + arg.ttl ELSE arg.until
           e == [key |-> arg.key, expire |-> now + arg.ttl, until |-> until]
<1>1. arg # Nil /\ new' = Append(new, e) /\ arg' = Nil
      /\ UNCHANGED <<at, old, toload, loadtime, dumping, files, now, slack>>
  BY DEF cache_set_insert, InSet, Main
<1>2. until \in Int /\ now + arg.ttl \in Int /\ now + arg.ttl <= until + slack
  BY <1>0, <1>1 DEF DumpTypeOK, Times
<1>3. e \in Entry /\ e.expire <= e.until + slack
  BY <1>0, <1>1, <1>2 DEF DumpTypeOK, Entry
<1> HIDE DEF e
<1>4. new' \in Seq(Entry) /\ OnTime(new', 0)
  BY <1>0, <1>1, <1>3, AppendProperties, EntryFacts, AppendTimes DEF DumpTypeOK, Times
<1>5. OnTime(old', 0) /\ (at' = "load" => OnTime(toload', now' - loadtime'))
  BY <1>0, <1>1 DEF Times
<1>6. DumpTypeOK'
  BY <1>0, <1>1, <1>4 DEF DumpTypeOK, dumping
<1> QED
  BY <1>1, <1>4, <1>5, <1>6, DumpStill

LEMMA MainStep == ASSUME DumpInv, main PROVE DumpInv'
<1>0. DumpTypeOK /\ Times
  BY DEF DumpInv
<1>1. at = "off" /\ at' = "init" /\ UNCHANGED <<cache, loadtime, dumping, files, now, slack>>
  BY DEF main, Main
<1>2. DumpTypeOK'
  BY <1>0, <1>1 DEF DumpTypeOK, cache, dumping
<1>3. OnTime(old', 0) /\ OnTime(new', 0) /\ ~(arg' # Nil /\ arg'.until # Nil)
  BY <1>0, <1>1 DEF Times, cache
<1> QED
  BY <1>1, <1>2, <1>3, DumpStill

LEMMA LoadStartStep == ASSUME DumpInv, cache_load_start PROVE DumpInv'
<1>0. DumpTypeOK /\ Times
  BY DEF DumpInv
<1>1. /\ at = "init" /\ at' = "load" /\ loadtime' = now /\ toload' = IF file = Nil THEN << >> ELSE file
      /\ UNCHANGED <<cache, dumping, files, now, slack>>
  BY DEF cache_load_start
<1>2. DumpTypeOK'
  BY <1>0, <1>1 DEF DumpTypeOK, cache, dumping
<1>3. OnTime(old', 0) /\ OnTime(new', 0) /\ ~(arg' # Nil /\ arg'.until # Nil)
  BY <1>0, <1>1 DEF Times, cache
<1>4. OnTime(toload', now' - loadtime')
  <2>1. now' - loadtime' = 0
    BY <1>0, <1>1 DEF DumpTypeOK
  <2> QED
    BY <2>1, <1>0, <1>1, NoTimes DEF Times
<1> QED
  BY <1>1, <1>2, <1>3, <1>4, DumpStill

LEMMA LoadStep == ASSUME DumpInv, cache_load PROVE DumpInv'
<1>0. DumpTypeOK /\ Times
  BY DEF DumpInv
<1> DEFINE e == Head(toload)
<1>1. /\ at = "load" /\ toload # << >> /\ toload' = Tail(toload) /\ e # Junk
      /\ UNCHANGED <<at, old, new, loadtime, dumping, files, now, slack>>
  BY DEF cache_load, Loading, Main
<1>2. OnTime(toload, now - loadtime) /\ OnTime(Tail(toload), now - loadtime)
  BY <1>0, <1>1, TailTimes DEF Times
<1>3. e \in Entry /\ e = toload[1] /\ 1 \in 1..Len(toload)
  BY <1>1, <1>2, Elements, EntryFacts DEF OnTime
<1>4. e.key \in Key /\ e.expire \in Int /\ e.until \in Int /\ now \in Int /\ loadtime \in Int /\ slack \in Int
  BY <1>0, <1>3, EntryFacts DEF DumpTypeOK
<1>5. e.expire + (now - loadtime) <= e.until + slack
  BY <1>1, <1>2, <1>3 DEF OnTime
<1>6. OnTime(old', 0) /\ OnTime(new', 0) /\ OnTime(toload', now' - loadtime')
  BY <1>0, <1>1, <1>2 DEF Times
<1>7. arg' = Nil \/ /\ arg'.key \in Key /\ arg'.ttl \in Int /\ arg'.until \in Int
                    /\ now + arg'.ttl <= arg'.until + slack
  <2>1. CASE Remaining(e) > 0
    <3> DEFINE c == Capped(Remaining(e))
    <3>1. c \in Int /\ c <= e.expire - loadtime
      BY <1>4, DumpAssumption DEF Capped, Remaining
    <3>2. arg' = [key |-> e.key, ttl |-> c, until |-> e.until]
      BY <2>1 DEF cache_load, Arg
    <3> HIDE DEF c, e
    <3>3. now + c <= e.until + slack
      BY <1>4, <1>5, <3>1
    <3> QED
      BY <1>4, <3>1, <3>2, <3>3
  <2>2. CASE ~(Remaining(e) > 0)
    BY <1>1, <2>2 DEF cache_load, Loading
  <2> QED
    BY <2>1, <2>2
<1> HIDE DEF e
<1>8. DumpTypeOK'
  BY <1>0, <1>1, <1>7 DEF DumpTypeOK, dumping
<1>9. arg' # Nil /\ arg'.until # Nil => at' = "load" /\ now' + arg'.ttl <= arg'.until + slack
  BY <1>1, <1>7
<1> QED
  BY <1>1, <1>6, <1>8, <1>9, DumpStill

LEMMA LoadJunkStep == ASSUME DumpInv, cache_load_junk PROVE DumpInv'
<1>0. DumpTypeOK /\ Times
  BY DEF DumpInv
<1>1. /\ at = "load" /\ arg = Nil /\ toload # << >>
      /\ UNCHANGED <<at, old, new, loadtime, dumping, files, now, slack>>
  BY DEF cache_load_junk, Loading, Main
<1>2. OnTime(toload, now - loadtime) /\ OnTime(Tail(toload), now - loadtime)
  BY <1>0, <1>1, TailTimes DEF Times
<1>3. Len(toload) > 1 => 1 \in DOMAIN Tail(toload)
  BY <1>1, <1>2, Elements DEF OnTime
<1>4. Len(toload) > 1 => OnTime([Tail(toload) EXCEPT ![1] = Junk], now - loadtime)
  BY <1>2, <1>3, JunkTimes
<1>5. OnTime(toload', now - loadtime)
  BY <1>2, <1>4, NoTimes DEF cache_load_junk
<1>6. arg' = Nil \/ (arg'.key \in Key /\ arg'.ttl \in Int /\ arg'.until = Nil)
  <2>1. ASSUME NEW name \in Key, NEW ttl \in TTLs, Arg(name, ttl, Nil)
        PROVE  arg'.key \in Key /\ arg'.ttl \in Int /\ arg'.until = Nil
    <3>1. Capped(ttl) \in Int
      BY DumpAssumption DEF Capped
    <3> QED
      BY <2>1, <3>1 DEF Arg
  <2>2. UNCHANGED arg \/ \E name \in Key, ttl \in TTLs : Arg(name, ttl, Nil)
    BY DEF cache_load_junk
  <2>3. CASE UNCHANGED arg
    BY <1>1, <2>3
  <2>4. CASE \E name \in Key, ttl \in TTLs : Arg(name, ttl, Nil)
    BY <2>1, <2>4
  <2> QED
    BY <2>2, <2>3, <2>4
<1>7. DumpTypeOK'
  BY <1>0, <1>1, <1>6 DEF DumpTypeOK, dumping
<1>8. OnTime(old', 0) /\ OnTime(new', 0) /\ OnTime(toload', now' - loadtime')
  BY <1>0, <1>1, <1>5 DEF Times
<1> QED
  BY <1>1, <1>6, <1>7, <1>8, DumpStill

LEMMA LoadEndStep == ASSUME DumpInv, cache_load_end PROVE DumpInv'
<1>0. DumpTypeOK /\ Times
  BY DEF DumpInv
<1>1. arg = Nil /\ at' = "run" /\ UNCHANGED <<cache, loadtime, dumping, files, now, slack>>
  BY DEF cache_load_end, Main
<1>2. DumpTypeOK'
  BY <1>0, <1>1 DEF DumpTypeOK, cache, dumping
<1>3. OnTime(old', 0) /\ OnTime(new', 0) /\ arg' = Nil
  BY <1>0, <1>1 DEF Times, cache
<1> QED
  BY <1>1, <1>2, <1>3, DumpStill

LEMMA SetStep == ASSUME DumpInv, cache_set PROVE DumpInv'
<1>1. CASE cache_set_wrap
  BY <1>1, MoveStep DEF cache_set_wrap
<1>2. CASE cache_set_wrapped
  BY <1>2, MoveStep DEF cache_set_wrapped
<1>3. CASE cache_set_giveup
  BY <1>3, MoveStep DEF cache_set_giveup
<1>4. CASE cache_set_evict
  BY <1>4, MoveStep DEF cache_set_evict
<1>5. CASE cache_set_flushed
  BY <1>5, MoveStep DEF cache_set_flushed
<1> QED
  BY <1>1, <1>2, <1>3, <1>4, <1>5, SetStartStep, InsertStep DEF cache_set

\* The end of the process, or of a dump that main has waited for.
LEMMA QuietEnd ==
  ASSUME DumpInv, NoHandler, Off \/ UNCHANGED <<at, cache, toload>>, UNCHANGED <<loadtime, now, slack>>,
         tmp' # Nil => OnTime(tmp', 0), file' # Nil => OnTime(file', 0), DumpWhole'
  PROVE  DumpInv'
<1>0. DumpTypeOK /\ Times
  BY DEF DumpInv
<1>1. handlers' = << >> /\ walk' = << >> /\ todump' = << >> /\ lost' = FALSE
  BY DEF NoHandler
<1>2. CASE Off
  <2>1. at' = "off" /\ old' = << >> /\ new' = << >> /\ arg' = Nil /\ UNCHANGED <<loadtime, now, slack>>
    BY <1>2 DEF Off
  <2>2. DumpTypeOK'
    BY <1>0, <1>1, <2>1, EntryFacts DEF DumpTypeOK
  <2>3. (OnTime(old, 0) /\ OnTime(new, 0) /\ OnTime(walk, 0) /\ OnTime(todump, 0))'
    BY <1>1, <2>1, EntryFacts DEF OnTime
  <2>4. (tmp # Nil => OnTime(tmp, 0))' /\ (file # Nil => OnTime(file, 0))'
    BY DEF OnTime
  <2>5. Times'
    BY <1>1, <2>1, <2>3, <2>4 DEF Times
  <2> QED
    BY <1>1, <2>2, <2>5 DEF DumpInv, Under
<1>3. CASE UNCHANGED <<at, cache, toload>>
  <2>1. UNCHANGED <<at, old, new, arg, toload, loadtime, now, slack>>
    BY <1>3 DEF cache
  <2>2. DumpTypeOK'
    BY <1>0, <1>1, <2>1 DEF DumpTypeOK
  <2>3. (OnTime(old, 0) /\ OnTime(new, 0) /\ OnTime(walk, 0) /\ OnTime(todump, 0))'
    BY <1>0, <1>1, <2>1, EntryFacts DEF OnTime, Times
  <2>4. (tmp # Nil => OnTime(tmp, 0))' /\ (file # Nil => OnTime(file, 0))'
    BY DEF OnTime
  <2>5. (at = "load" => OnTime(toload, now - loadtime))'
    BY <1>0, <2>1 DEF Times, OnTime
  <2>6. (arg # Nil /\ arg.until # Nil => at = "load" /\ now + arg.ttl <= arg.until + slack)'
    BY <1>0, <2>1 DEF Times
  <2>7. Times'
    BY <1>1, <2>3, <2>4, <2>5, <2>6 DEF Times
  <2> QED
    BY <1>1, <2>2, <2>7 DEF DumpInv, Under
<1> QED
  BY <1>2, <1>3

LEMMA CrashStep == ASSUME DumpInv, Crash \/ clean PROVE DumpInv'
<1>1. CASE Crash
  <2>1. Off /\ NoHandler /\ tmp' = Nil /\ UNCHANGED <<file, kept, loadtime, now, slack>>
    BY <1>1 DEF Crash, Off
  <2>2. (file' # Nil => OnTime(file', 0)) /\ DumpWhole'
    BY <2>1 DEF DumpInv, Times, DumpWhole, InOrder
  <2> QED
    BY <2>1, <2>2, QuietEnd
<1>2. CASE clean
  <2>1. Off /\ NoHandler /\ tmp' = Nil /\ file' = Nil /\ UNCHANGED <<loadtime, now, slack>>
    BY <1>2 DEF clean, Off
  <2>2. DumpWhole'
    BY <2>1 DEF DumpWhole
  <2> QED
    BY <2>1, <2>2, QuietEnd
<1> QED
  BY <1>1, <1>2

\* A step of a dump.
LEMMA DumpOn ==
  ASSUME DumpInv, handlers # << >>,
         UNCHANGED <<at, cache, toload, loadtime, handlers, walk, below, lost, now, slack>>,
         OnTime(todump', 0), tmp' # Nil \/ ~lost => OnTime(tmp', 0), file' # Nil => OnTime(file', 0),
         ~struck' => Going', DumpWhole'
  PROVE  DumpInv'
<1>0. DumpTypeOK /\ Times /\ Under
  BY DEF DumpInv
<1>1. UNCHANGED <<at, old, new, arg, toload, loadtime, handlers, walk, below, lost, now, slack>>
  BY DEF cache
<1>2. DumpTypeOK'
  BY <1>0, <1>1 DEF DumpTypeOK
<1>3. (OnTime(old, 0) /\ OnTime(new, 0) /\ OnTime(walk, 0) /\ (handlers = <<"TERM", "ALRM">> => OnTime(below.todump, 0)))'
  BY <1>0, <1>1 DEF OnTime, Times
<1>4. OnTime(todump, 0)' /\ (tmp # Nil \/ ~lost => OnTime(tmp, 0))' /\ (file # Nil => OnTime(file, 0))'
  BY <1>1 DEF OnTime
<1>5. (at = "load" => OnTime(toload, now - loadtime))'
  BY <1>0, <1>1 DEF Times, OnTime
<1>6. (arg # Nil /\ arg.until # Nil => at = "load" /\ now + arg.ttl <= arg.until + slack)'
  BY <1>0, <1>1 DEF Times
<1>7. Times'
  BY <1>3, <1>4, <1>5, <1>6 DEF Times
<1>8. Under'
  BY <1>0, <1>1 DEF Under
<1> QED
  BY <1>2, <1>7, <1>8 DEF DumpInv

\* What a handler finds is made of entries and junk.
LEMMA FoundTimes ==
  ASSUME DumpInv
  PROVE  /\ \A w \in Found : OnTime(w, 0)
         /\ \A w \in Unharmed : w \in Seq(Entry)
<1>1. OnTime(old, 0) /\ OnTime(new, 0) /\ OnTime(<< >>, 0) /\ Junk \in Entries /\ old \in Seq(Entry) /\ new \in Seq(Entry)
  BY NoTimes DEF DumpInv, DumpTypeOK, Times, Entries
<1>2. OnTime(<<Junk>>, 0)
  BY DEF OnTime, Entries
<1>3. OnTime(q, 0) /\ OnTime(new \o new, 0) /\ OnTime(<<Junk>> \o new, 0)
  BY <1>1, <1>2, ConcatTimes DEF q
<1>4. OnTime(Append(new, Junk), 0) /\ OnTime(Append(old, Junk), 0)
  BY <1>1, AppendTimes
<1>5. OnTime(Append(old, Junk) \o new, 0)
  BY <1>1, <1>4, ConcatTimes
<1>6. q \in Seq(Entry)
  BY <1>1, ConcatProperties DEF q
<1>7. \A w \in Found : OnTime(w, 0)
  BY <1>1, <1>2, <1>3, <1>4, <1>5 DEF Found
<1>8. \A w \in Unharmed : w \in Seq(Entry)
  BY <1>1, <1>6 DEF Unharmed
<1> QED
  BY <1>7, <1>8

\* At first nothing is in the file.
LEMMA FreshDump ==
  ASSUME NEW w \in Seq(Entry)
  PROVE  Partial(w, w, << >>)
<1> DEFINE S == DOMAIN Records(w)
<1>1. Len(w) \in Nat /\ Len(w) - Len(w) = 0 /\ Len(w) <= Len(w)
  BY Elements
<1>2. S \cap (1..0) = {} /\ Len(<< >>) = 0 /\ Cardinality({}) = 0
  BY FS_EmptySet
<1>3. \A i \in 1..Len(w) : 0 + i = i
  BY <1>1
<1> HIDE DEF S
<1>4. Len(<< >>) = Cardinality(S \cap (1..0)) /\ \A i \in S \cap (1..0) : FALSE
  BY <1>2
<1>5. /\ Len(<< >>) = Cardinality(DOMAIN Records(w) \cap (1..0))
      /\ \A i \in DOMAIN Records(w) \cap (1..0) : << >>[Cardinality(DOMAIN Records(w) \cap (1..i))] = Records(w)[i]
  BY <1>4 DEF S
<1> QED
  BY <1>1, <1>3, <1>5 DEF Partial

LEMMA Pair ==
  ASSUME NEW S, NEW x \in S, NEW y \in S
  PROVE  Append(<<x>>, y) = <<x, y>>
<1>1. <<x>> \in Seq(S) /\ <<x, y>> \in Seq(S) /\ Len(<<x>>) = 1 /\ Len(<<x, y>>) = 2
      /\ <<x>>[1] = x /\ <<x, y>>[1] = x /\ <<x, y>>[2] = y
  OBVIOUS
<1> DEFINE f == Append(<<x>>, y)
           g == <<x, y>>
<1>2. f \in Seq(S) /\ Len(f) = 2 /\ f[1] = x /\ f[2] = y
  BY <1>1, AppendProperties
<1>3. g \in Seq(S) /\ Len(g) = 2 /\ g[1] = x /\ g[2] = y
  BY <1>1
<1> HIDE DEF f, g
<1>4. \A i \in 1..2 : f[i] = g[i]
  BY <1>2, <1>3
<1>5. f = g
  BY <1>2, <1>3, <1>4, SeqEqual
<1> QED
  BY <1>5 DEF f, g

\* One more handler.
LEMMA Nesting ==
  ASSUME handlers \in {<< >>, <<"ALRM">>, <<"TERM">>, <<"ALRM", "TERM">>, <<"TERM", "ALRM">>},
         NEW sig \in {"ALRM", "TERM"}, \A i \in DOMAIN handlers : handlers[i] # sig
  PROVE  /\ Append(handlers, sig) \in {<<"ALRM">>, <<"TERM">>, <<"ALRM", "TERM">>, <<"TERM", "ALRM">>}
         /\ Append(handlers, sig) = <<"TERM", "ALRM">> => handlers = <<"TERM">>
<1>1. CASE handlers = << >>
  BY <1>1
<1>2. CASE handlers = <<"ALRM">>
  <2>1. 1 \in DOMAIN handlers /\ handlers[1] = "ALRM"
    BY <1>2
  <2>2. sig = "TERM"
    BY <2>1
  <2>3. Append(<<"ALRM">>, "TERM") = <<"ALRM", "TERM">>
    BY Pair
  <2>4. <<"ALRM", "TERM">> # <<"TERM", "ALRM">>
    OBVIOUS
  <2> QED
    BY <1>2, <2>2, <2>3, <2>4
<1>3. CASE handlers = <<"TERM">>
  <2>1. 1 \in DOMAIN handlers /\ handlers[1] = "TERM"
    BY <1>3
  <2>2. sig = "ALRM"
    BY <2>1
  <2>3. Append(<<"TERM">>, "ALRM") = <<"TERM", "ALRM">>
    BY Pair
  <2> QED
    BY <1>3, <2>2, <2>3
<1>4. ~(handlers = <<"ALRM", "TERM">> \/ handlers = <<"TERM", "ALRM">>)
  <2>1. handlers = <<"ALRM", "TERM">> => 1 \in DOMAIN handlers /\ 2 \in DOMAIN handlers /\ handlers[1] = "ALRM" /\ handlers[2] = "TERM"
    OBVIOUS
  <2>2. handlers = <<"TERM", "ALRM">> => 1 \in DOMAIN handlers /\ 2 \in DOMAIN handlers /\ handlers[1] = "TERM" /\ handlers[2] = "ALRM"
    OBVIOUS
  <2> QED
    BY <2>1, <2>2
<1> QED
  BY <1>1, <1>2, <1>3, <1>4

LEMMA DumpStart == ASSUME DumpInv, dump PROVE DumpInv'
<1>0. DumpTypeOK /\ Times /\ Under
  BY DEF DumpInv
<1>1. PICK sig \in {"ALRM", "TERM"} :
        /\ \A i \in DOMAIN handlers : handlers[i] # sig
        /\ handlers' = Append(handlers, sig)
        /\ IF handlers = << >> THEN walk' \in Found /\ struck' = (walk' \notin Unharmed) ELSE UNCHANGED <<walk, struck>>
        /\ todump' = walk' /\ lost' = FALSE
        /\ below' = IF handlers = <<"TERM">> THEN [todump |-> todump, writing |-> writing] ELSE Nil
        /\ tmp' = << >> /\ UNCHANGED file
        /\ UNCHANGED <<at, cache, toload, loadtime, kept, now, slack>>
  BY DEF dump, OpenTrunc
<1>2. UNCHANGED <<at, old, new, arg, toload, loadtime, now, slack>>
  BY <1>1 DEF cache
<1>3. /\ handlers' \in {<<"ALRM">>, <<"TERM">>, <<"ALRM", "TERM">>, <<"TERM", "ALRM">>}
      /\ handlers' = <<"TERM", "ALRM">> => handlers = <<"TERM">>
  <2>1. handlers \in {<< >>, <<"ALRM">>, <<"TERM">>, <<"ALRM", "TERM">>, <<"TERM", "ALRM">>}
    BY <1>0 DEF DumpTypeOK
  <2>2. \A i \in DOMAIN handlers : handlers[i] # sig
    BY <1>1
  <2>3. /\ Append(handlers, sig) \in {<<"ALRM">>, <<"TERM">>, <<"ALRM", "TERM">>, <<"TERM", "ALRM">>}
        /\ Append(handlers, sig) = <<"TERM", "ALRM">> => handlers = <<"TERM">>
    BY <2>1, <2>2, Nesting
  <2> QED
    BY <1>1, <2>3
<1>4. OnTime(walk', 0) /\ (~struck' => walk' \in Seq(Entry))
  <2>1. CASE handlers = << >>
    BY <1>1, <2>1, FoundTimes
  <2>2. CASE handlers # << >>
    BY <1>0, <1>1, <2>2 DEF Times, Under, Going
  <2> QED
    BY <2>1, <2>2
<1>5. DumpTypeOK'
  <2>1. handlers' \in {<< >>, <<"ALRM">>, <<"TERM">>, <<"ALRM", "TERM">>, <<"TERM", "ALRM">>}
    BY <1>3
  <2> QED
    BY <1>0, <1>2, <2>1 DEF DumpTypeOK
<1>6. Times'
  <2>1. (OnTime(old, 0) /\ OnTime(new, 0) /\ (file # Nil => OnTime(file, 0)))'
    BY <1>0, <1>1, <1>2 DEF Times, OnTime
  <2>2. (OnTime(walk, 0) /\ OnTime(todump, 0) /\ OnTime(tmp, 0))'
    BY <1>1, <1>2, <1>4, NoTimes DEF OnTime
  <2>3. (handlers = <<"TERM", "ALRM">> => OnTime(below.todump, 0))'
    <3>1. CASE handlers = <<"TERM">>
      <4>1. below'.todump = todump
        BY <1>1, <3>1
      <4> QED
        BY <1>0, <1>2, <4>1 DEF Times, OnTime
    <3>2. CASE handlers # <<"TERM">>
      BY <1>3, <3>2
    <3> QED
      BY <3>1, <3>2
  <2>4. (at = "load" => OnTime(toload, now - loadtime))'
    BY <1>0, <1>2 DEF Times, OnTime
  <2>5. (arg # Nil /\ arg.until # Nil => at = "load" /\ now + arg.ttl <= arg.until + slack)'
    BY <1>0, <1>2 DEF Times
  <2> QED
    BY <2>1, <2>2, <2>3, <2>4, <2>5 DEF Times
<1>7. Under'
  <2>1. ~struck' => Partial(walk', walk', << >>)
    BY <1>4, FreshDump
  <2>2. ~struck' => Partial(walk, todump, tmp)'
    <3>1. todump' = walk' /\ tmp' = << >>
      BY <1>1
    <3> QED
      BY <2>1, <3>1 DEF Partial, Records
  <2> QED
    BY <1>1, <1>4, <2>2 DEF Under, Going
<1>8. DumpWhole'
  BY <1>1 DEF DumpInv, DumpWhole, InOrder
<1> QED
  BY <1>5, <1>6, <1>7, <1>8 DEF DumpInv

\* The places before one that is next: one more, if it is of S.
LEMMA NextPlace ==
  ASSUME NEW n \in Nat, NEW S \in SUBSET (1..n), NEW d \in Nat, d < n
  PROVE  /\ Cardinality(S \cap (1..d)) \in Nat
         /\ Cardinality(S \cap (1..(d + 1))) = Cardinality(S \cap (1..d)) + (IF d + 1 \in S THEN 1 ELSE 0)
         /\ \A i \in S \cap (1..d) : Cardinality(S \cap (1..i)) \in 1..Cardinality(S \cap (1..d))
<1> DEFINE T == S \cap (1..d)
<1>1. IsFiniteSet(1..d)
  BY FS_Interval
<1>2. IsFiniteSet(T) /\ Cardinality(T) \in Nat
  BY <1>1, FS_Subset, FS_CardinalityType
<1>3. Cardinality(S \cap (1..(d + 1))) = Cardinality(T) + (IF d + 1 \in S THEN 1 ELSE 0)
  <2>1. CASE d + 1 \in S
    <3>1. S \cap (1..(d + 1)) = T \cup {d + 1} /\ d + 1 \notin T
      BY <2>1
    <3> HIDE DEF T
    <3> QED
      BY <1>2, <2>1, <3>1, FS_AddElement
  <2>2. CASE d + 1 \notin S
    <3>1. S \cap (1..(d + 1)) = T
      BY <2>2
    <3> HIDE DEF T
    <3>2. Cardinality(T) = Cardinality(T) + 0
      BY <1>2
    <3> QED
      BY <2>2, <3>1, <3>2
  <2> QED
    BY <2>1, <2>2
<1>4. ASSUME NEW i \in T PROVE Cardinality(S \cap (1..i)) \in 1..Cardinality(T)
  <2>1. S \cap (1..i) \subseteq T /\ i \in S \cap (1..i)
    OBVIOUS
  <2>2. IsFiniteSet(S \cap (1..i)) /\ Cardinality(S \cap (1..i)) <= Cardinality(T)
    BY <1>2, <2>1, FS_Subset
  <2>3. Cardinality(S \cap (1..i)) \in Nat /\ Cardinality(S \cap (1..i)) # 0
    BY <2>1, <2>2, FS_CardinalityType, FS_EmptySet
  <2> QED
    BY <1>2, <2>2, <2>3
<1> QED
  BY <1>2, <1>3, <1>4

\* The next entry of a walk goes into the file if it is a record.
LEMMA NextEntry ==
  ASSUME NEW w \in Seq(Entry), NEW rest \in Seq(Entries), NEW f \in Seq(Entries), rest # << >>, Partial(w, rest, f)
  PROVE  /\ Dumped(Head(rest)) => Partial(w, Tail(rest), Append(f, Head(rest)))
         /\ ~Dumped(Head(rest)) => Partial(w, Tail(rest), f)
<1> DEFINE R == Records(w)
           S == DOMAIN R
           n == Len(w)
           d == n - Len(rest)
           e == Head(rest)
           C(i) == Cardinality(S \cap (1..i))
<1>1. /\ Len(rest) \in Nat /\ Len(rest) >= 1 /\ n \in Nat /\ Len(f) \in Nat /\ Tail(rest) \in Seq(Entries)
      /\ Len(Tail(rest)) = Len(rest) - 1 /\ e = rest[1] /\ 1 \in 1..Len(rest)
      /\ \A i \in 1..Len(Tail(rest)) : i + 1 \in 1..Len(rest) /\ Tail(rest)[i] = rest[i + 1]
  BY Elements
<1>2. /\ Len(rest) <= n /\ (\A i \in 1..Len(rest) : rest[i] = w[d + i])
      /\ Len(f) = C(d) /\ (\A i \in S \cap (1..d) : f[C(i)] = R[i])
  BY DEF Partial
<1>3. d \in Nat /\ d < n /\ n - Len(Tail(rest)) = d + 1 /\ Len(Tail(rest)) <= n /\ d + 1 \in 1..n /\ e = w[d + 1]
  BY <1>1, <1>2
<1>4. e \in Entry /\ e \in Entries /\ S \in SUBSET (1..n)
  <2>1. DOMAIN w = 1..n /\ w[d + 1] \in Entry
    BY <1>3, Elements
  <2>2. S = {j \in DOMAIN w : w[j] # Junk /\ Kind[w[j].key] = "rr"}
    BY DEF Records
  <2> QED
    BY <1>3, <2>1, <2>2, EntryFacts
<1>5. (d + 1 \in S <=> Dumped(e)) /\ (d + 1 \in S => R[d + 1] = e)
  <2>1. e # Junk /\ Kind[e.key] \in {"rr", "AXFR", "ANY"}
    BY <1>4, EntryFacts, DumpAssumption
  <2>2. DOMAIN w = 1..n
    BY Elements
  <2>3. d + 1 \in S <=> Kind[e.key] = "rr"
    BY <1>3, <2>1, <2>2 DEF Records
  <2>4. d + 1 \in S => R[d + 1] = w[d + 1]
    BY DEF Records
  <2> HIDE DEF S, R, d, e
  <2> QED
    BY <1>3, <2>1, <2>3, <2>4 DEF Dumped
<1> HIDE DEF R
<1>6. /\ C(d) \in Nat /\ C(d + 1) = C(d) + (IF d + 1 \in S THEN 1 ELSE 0)
      /\ \A i \in S \cap (1..d) : C(i) \in 1..C(d)
  <2>1. /\ Cardinality(S \cap (1..d)) \in Nat
        /\ Cardinality(S \cap (1..(d + 1))) = Cardinality(S \cap (1..d)) + (IF d + 1 \in S THEN 1 ELSE 0)
        /\ \A i \in S \cap (1..d) : Cardinality(S \cap (1..i)) \in 1..Cardinality(S \cap (1..d))
    <3> HIDE DEF S, d, C, n
    <3> QED
      BY <1>1, <1>3, <1>4, NextPlace
  <2> QED
    BY <2>1 DEF C
<1>7. ASSUME NEW i \in 1..Len(Tail(rest)) PROVE Tail(rest)[i] = w[(d + 1) + i]
  <2>1. d + (i + 1) = (d + 1) + i
    BY <1>3
  <2>2. Tail(rest)[i] = rest[i + 1] /\ rest[i + 1] = w[d + (i + 1)]
    BY <1>1, <1>2
  <2> QED
    BY <2>1, <2>2
<1>8. ASSUME NEW g, Len(g) = C(d + 1), \A i \in S \cap (1..(d + 1)) : g[C(i)] = R[i] PROVE Partial(w, Tail(rest), g)
  <2>1. /\ Len(g) = Cardinality(DOMAIN Records(w) \cap (1..(d + 1)))
        /\ \A i \in DOMAIN Records(w) \cap (1..(d + 1)) : g[Cardinality(DOMAIN Records(w) \cap (1..i))] = Records(w)[i]
    BY <1>8 DEF R
  <2> HIDE DEF d
  <2> QED
    BY <1>3, <1>7, <2>1 DEF Partial, n
<1> HIDE DEF d, C, e, S
<1>9. ASSUME Dumped(e) PROVE Partial(w, Tail(rest), Append(f, e))
  <2> DEFINE g == Append(f, e)
  <2>1. Len(g) = Len(f) + 1 /\ g[Len(f) + 1] = e /\ \A i \in 1..Len(f) : g[i] = f[i]
    BY <1>4, AppendProperties
  <2> HIDE DEF g
  <2>2. d + 1 \in S /\ C(d + 1) = Len(f) + 1
    BY <1>2, <1>5, <1>6, <1>9
  <2>3. ASSUME NEW i \in S \cap (1..(d + 1)) PROVE g[C(i)] = R[i]
    <3>1. CASE i = d + 1
      BY <1>5, <2>1, <2>2, <3>1
    <3>2. CASE i # d + 1
      <4>1. i \in S \cap (1..d)
        BY <1>3, <3>2
      <4> QED
        BY <1>2, <1>6, <2>1, <4>1
    <3> QED
      BY <3>1, <3>2
  <2>4. Len(g) = C(d + 1)
    BY <2>1, <2>2
  <2>5. Partial(w, Tail(rest), g)
    BY <1>8, <2>3, <2>4
  <2> QED
    BY <2>5 DEF g
<1>10. ASSUME ~Dumped(e) PROVE Partial(w, Tail(rest), f)
  <2>1. d + 1 \notin S
    BY <1>5, <1>10
  <2>2. C(d + 1) = C(d)
    BY <1>6, <2>1
  <2>3. S \cap (1..(d + 1)) = S \cap (1..d)
    BY <1>3, <2>1
  <2>4. Len(f) = C(d + 1) /\ \A i \in S \cap (1..(d + 1)) : f[C(i)] = R[i]
    BY <1>2, <2>2, <2>3
  <2> QED
    BY <1>8, <2>4
<1> QED
  BY <1>9, <1>10 DEF e

\* After the last entry, the file has the records of all.
LEMMA WholeDump ==
  ASSUME DumpInv, handlers # << >>, ~struck, todump = << >>, ~lost \/ tmp # Nil
  PROVE  walk \in Seq(Entry) /\ InOrder(tmp, Records(walk))
<1>1. Going
  BY DEF DumpInv, Under
<1>2. walk \in Seq(Entry)
  BY <1>1 DEF Going
<1>3. CASE lost
  BY <1>1, <1>2, <1>3 DEF Going
<1>4. CASE ~lost
  <2> DEFINE R == Records(walk)
             n == Len(walk)
  <2>1. Len(todump) = 0 /\ n \in Nat /\ n - Len(todump) = n /\ DOMAIN walk = 1..n
    BY <1>2, Elements
  <2>2. DOMAIN R \subseteq 1..n
    BY <2>1 DEF Records
  <2>3. Partial(walk, todump, tmp)
    BY <1>1, <1>4 DEF Going
  <2>4. /\ Len(tmp) = Cardinality(DOMAIN R \cap (1..n))
        /\ \A i \in DOMAIN R \cap (1..n) : tmp[Cardinality(DOMAIN R \cap (1..i))] = R[i]
    BY <2>1, <2>3 DEF Partial
  <2>5. DOMAIN R \cap (1..n) = DOMAIN R
    BY <2>2
  <2> HIDE DEF R, n
  <2>6. InOrder(tmp, R)
    BY <2>4, <2>5 DEF InOrder
  <2> QED
    BY <1>2, <2>6 DEF R
<1> QED
  BY <1>3, <1>4

LEMMA EntryStep == ASSUME DumpInv, cache_dump_entry PROVE DumpInv'
<1>0. DumpTypeOK /\ Times /\ Under
  BY DEF DumpInv
<1> DEFINE e == Head(todump)
<1>1. /\ handlers # << >> /\ todump # << >> /\ todump' = Tail(todump)
      /\ (~Dumped(e) /\ tmp' = tmp) \/ (Dumped(e) /\ ~lost /\ tmp' = Append(tmp, e))
      /\ UNCHANGED <<at, cache, toload, loadtime, handlers, walk, below, lost, now, slack, struck, file, kept>>
  BY DEF cache_dump_entry, Dumping
<1>2. OnTime(todump, 0) /\ OnTime(Tail(todump), 0) /\ e \in Entries /\ (e # Junk => e.expire <= e.until + slack)
  <2>1. OnTime(todump, 0) /\ OnTime(Tail(todump), 0)
    BY <1>0, <1>1, TailTimes DEF Times
  <2>2. e \in Entries /\ e = todump[1] /\ 1 \in 1..Len(todump)
    BY <1>1, <2>1, Elements DEF OnTime
  <2>3. e # Junk => e.expire \in Int /\ e.expire + 0 <= e.until + slack
    BY <2>1, <2>2, EntryFacts DEF OnTime
  <2> QED
    BY <2>1, <2>2, <2>3
<1> HIDE DEF e
<1>3. OnTime(todump', 0)
  BY <1>1, <1>2
<1>4. tmp' # Nil \/ ~lost => OnTime(tmp', 0)
  BY <1>0, <1>1, <1>2, AppendTimes DEF Times
<1>5. file' # Nil => OnTime(file', 0)
  BY <1>0, <1>1 DEF Times
<1>6. ~struck' => Going'
  <2> SUFFICES ASSUME ~struck PROVE Going'
    BY <1>1
  <2>1. Going
    BY <1>0, <1>1 DEF Under
  <2>2. walk \in Seq(Entry) /\ UNCHANGED <<walk, lost>>
    BY <1>1, <2>1 DEF Going
  <2>0. Records(walk)' = Records(walk)
    BY <2>2 DEF Records
  <2>3. CASE lost
    <3>1. tmp' = tmp
      BY <1>1, <2>3
    <3>2. tmp # Nil => InOrder(tmp, Records(walk))
      BY <2>1, <2>3 DEF Going
    <3>3. (tmp # Nil => InOrder(tmp, Records(walk)))'
      BY <2>0, <3>1, <3>2 DEF InOrder
    <3> QED
      BY <2>2, <2>3, <3>3 DEF Going
  <2>4. CASE ~lost
    <3>1. Partial(walk, todump, tmp) /\ tmp \in Seq(Entries) /\ todump \in Seq(Entries)
      BY <1>0, <1>1, <2>1, <2>4 DEF Going, Times, OnTime
    <3>2. /\ Dumped(e) => Partial(walk, Tail(todump), Append(tmp, e))
          /\ ~Dumped(e) => Partial(walk, Tail(todump), tmp)
      BY <1>1, <2>2, <3>1, NextEntry DEF e
    <3>3. Partial(walk, todump', tmp')
      BY <1>1, <3>2
    <3>4. Partial(walk, todump, tmp)'
      BY <2>0, <2>2, <3>3 DEF Partial
    <3> QED
      BY <2>2, <2>4, <3>4 DEF Going
  <2> QED
    BY <2>3, <2>4
<1>7. DumpWhole'
  BY <1>1 DEF DumpInv, DumpWhole, InOrder
<1> QED
  BY <1>1, <1>3, <1>4, <1>5, <1>6, <1>7, DumpOn

\* What another dump left in the buffer falls into a file, or into none.
LEMMA WriteStep == ASSUME DumpInv, buffer_flush \/ buffer_write PROVE DumpInv'
<1>0. DumpTypeOK /\ Times /\ Under /\ DumpWhole
  BY DEF DumpInv
<1>1. /\ handlers # << >>
      /\ UNCHANGED <<at, cache, toload, loadtime, handlers, walk, below, lost, now, slack, todump>>
  BY DEF buffer_flush, buffer_write, Dumping
<1>2. OnTime(todump', 0)
  BY <1>0, <1>1 DEF Times
<1>3. CASE UNCHANGED <<struck, files>>
  <2>1. UNCHANGED <<struck, tmp, file, kept, walk, lost, todump>>
    BY <1>1, <1>3 DEF files
  <2>2. (tmp' # Nil \/ ~lost => OnTime(tmp', 0)) /\ (file' # Nil => OnTime(file', 0))
    BY <1>0, <1>1, <2>1 DEF Times
  <2>3. Going' <=> Going
    BY <2>1 DEF Going, Partial, InOrder, Records
  <2>4. ~struck' => Going'
    BY <1>0, <1>1, <2>1, <2>3 DEF Under
  <2>5. DumpWhole'
    BY <1>0, <2>1 DEF DumpWhole, InOrder
  <2> QED
    BY <1>1, <1>2, <2>2, <2>4, <2>5, DumpOn
<1>4. CASE lost /\ tmp = Nil /\ file # Nil /\ file' \in Spoilt(file) /\ kept' = Nil /\ UNCHANGED <<tmp, struck>>
  <2>1. OnTime(file', 0)
    BY <1>0, <1>4, SpoiltTimes DEF Times
  <2>2. tmp' # Nil \/ ~lost => OnTime(tmp', 0)
    BY <1>4
  <2>3. ~struck' => Going'
    <3> SUFFICES ASSUME ~struck PROVE Going'
      BY <1>4
    <3>1. Going
      BY <1>0, <1>1 DEF Under
    <3> QED
      BY <1>1, <1>4, <3>1 DEF Going
  <2>4. DumpWhole'
    BY <1>4 DEF DumpWhole
  <2> QED
    BY <1>1, <1>2, <2>1, <2>2, <2>3, <2>4, DumpOn
<1>5. CASE lost /\ tmp # Nil /\ tmp' \in Spoilt(tmp) /\ struck' = TRUE /\ UNCHANGED <<file, kept>>
  <2>1. OnTime(tmp', 0)
    BY <1>0, <1>5, SpoiltTimes DEF Times
  <2>2. file' # Nil => OnTime(file', 0)
    BY <1>0, <1>5 DEF Times
  <2>3. DumpWhole'
    BY <1>0, <1>5 DEF DumpWhole, InOrder
  <2> QED
    BY <1>1, <1>2, <1>5, <2>1, <2>2, <2>3, DumpOn
<1> QED
  BY <1>3, <1>4, <1>5 DEF buffer_flush, buffer_write

\* The end of a dump, be it good or not: of one that has interrupted another,
\* or not.
LEMMA ReturnStep ==
  ASSUME DumpInv, Return, tmp' # Nil => OnTime(tmp', 0), file' # Nil => OnTime(file', 0), DumpWhole',
         handlers = <<"TERM", "ALRM">> /\ ~struck' =>
           walk \in Seq(Entry) /\ (tmp' # Nil => InOrder(tmp', Records(walk)))
  PROVE  DumpInv'
<1>0. DumpTypeOK /\ Times
  BY DEF DumpInv
<1>1. CASE NoHandler
  <2>1. UNCHANGED <<loadtime, now, slack>> /\ (Off \/ UNCHANGED <<at, cache, toload>>)
    BY <1>1 DEF Return, NoHandler
  <2> QED
    BY <1>1, <2>1, QuietEnd
<1>2. CASE ~NoHandler
  <2>1. /\ handlers = <<"TERM", "ALRM">> /\ handlers' = <<"TERM">> /\ todump' = below.todump /\ lost' = TRUE
        /\ UNCHANGED <<at, cache, toload, walk, loadtime, now, slack>>
    BY <1>2 DEF Return, Off
  <2>2. UNCHANGED <<at, old, new, arg, toload, walk, loadtime, now, slack>>
    BY <2>1 DEF cache
  <2>3. DumpTypeOK'
    BY <1>0, <2>1, <2>2 DEF DumpTypeOK
  <2>4. Times'
    <3>1. (OnTime(old, 0) /\ OnTime(new, 0) /\ OnTime(walk, 0) /\ OnTime(todump, 0))'
      BY <1>0, <2>1, <2>2 DEF OnTime, Times
    <3>2. (tmp # Nil => OnTime(tmp, 0))' /\ (file # Nil => OnTime(file, 0))'
      BY <2>2 DEF OnTime
    <3>3. (at = "load" => OnTime(toload, now - loadtime))'
      BY <1>0, <2>2 DEF Times, OnTime
    <3>4. (arg # Nil /\ arg.until # Nil => at = "load" /\ now + arg.ttl <= arg.until + slack)'
      BY <1>0, <2>2 DEF Times
    <3>5. handlers' # <<"TERM", "ALRM">>
      BY <2>1
    <3> QED
      BY <2>1, <3>1, <3>2, <3>3, <3>4, <3>5 DEF Times
  <2>5. Under'
    <3>1. ~struck' => Going'
      <4> SUFFICES ASSUME ~struck' PROVE Going'
        OBVIOUS
      <4>1. walk' = walk /\ walk \in Seq(Entry) /\ (tmp' # Nil => InOrder(tmp', Records(walk)))
        BY <2>1, <2>2
      <4>0. Records(walk)' = Records(walk)
        BY <4>1 DEF Records
      <4>2. (tmp # Nil => InOrder(tmp, Records(walk)))'
        BY <4>0, <4>1 DEF InOrder
      <4> QED
        BY <2>1, <4>1, <4>2 DEF Going
    <3> QED
      BY <2>1, <3>1 DEF Under
  <2> QED
    BY <2>3, <2>4, <2>5 DEF DumpInv
<1> QED
  BY <1>1, <1>2

LEMMA FailStep == ASSUME DumpInv, cache_dump_fail PROVE DumpInv'
<1>0. DumpTypeOK /\ Times /\ Under /\ DumpWhole
  BY DEF DumpInv
<1>1. Return /\ handlers # << >> /\ UNCHANGED <<file, kept, slack>>
  BY DEF cache_dump_fail, Return
<1>2. (file' # Nil => OnTime(file', 0)) /\ DumpWhole'
  BY <1>0, <1>1 DEF Times, DumpWhole, InOrder
<1>3. CASE handlers # <<"TERM", "ALRM">>
  <2>1. tmp' = Nil
    BY <1>3 DEF cache_dump_fail
  <2> QED
    BY <1>1, <1>2, <1>3, <2>1, ReturnStep
<1>4. CASE handlers = <<"TERM", "ALRM">>
  <2>1. PICK n \in 0..Len(tmp) : tmp' = SubSeq(tmp, 1, n) /\ struck' = (struck \/ todump # << >> \/ n < Len(tmp))
    BY <1>4 DEF cache_dump_fail
  <2>2. ~lost
    <3>1. <<"TERM", "ALRM">> # <<"TERM">>
      OBVIOUS
    <3> QED
      BY <1>0, <1>4, <3>1 DEF Under
  <2>3. OnTime(tmp, 0) /\ OnTime(tmp', 0)
    BY <1>0, <1>1, <2>1, <2>2, PrefixTimes DEF Times
  <2>4. ASSUME ~struck' PROVE walk \in Seq(Entry) /\ InOrder(tmp', Records(walk))
    <3>1. ~struck /\ todump = << >> /\ ~(n < Len(tmp))
      BY <2>1, <2>4
    <3>2. walk \in Seq(Entry) /\ InOrder(tmp, Records(walk))
      BY <1>1, <2>2, <3>1, WholeDump
    <3>3. tmp' = tmp
      <4>1. tmp \in Seq(Entries) /\ Len(tmp) \in Nat
        BY <2>3, Elements DEF OnTime
      <4>2. n = Len(tmp)
        BY <3>1, <4>1
      <4> QED
        BY <2>1, <4>1, <4>2, SubSeqFull
    <3> QED
      BY <3>2, <3>3
  <2> QED
    BY <1>1, <1>2, <2>3, <2>4, ReturnStep
<1> QED
  BY <1>3, <1>4

LEMMA RenameStep == ASSUME DumpInv, cache_dump_rename PROVE DumpInv'
<1>0. DumpTypeOK /\ Times /\ Under
  BY DEF DumpInv
<1>1. /\ todump = << >> /\ tmp # Nil /\ Return /\ handlers # << >> /\ UNCHANGED slack
      /\ handlers = <<"TERM", "ALRM">> => UNCHANGED struck
      /\ file' = tmp /\ tmp' = Nil /\ kept' = IF struck THEN Nil ELSE Records(walk)
  BY DEF cache_dump_rename, Return
<1>2. OnTime(file', 0)
  BY <1>0, <1>1 DEF Times
<1>3. ~struck => walk \in Seq(Entry) /\ InOrder(tmp, Records(walk))
  BY <1>1, WholeDump
<1>4. DumpWhole'
  <2>1. CASE struck
    BY <1>1, <2>1 DEF DumpWhole
  <2>2. CASE ~struck
    BY <1>1, <1>3, <2>2 DEF DumpWhole, InOrder
  <2> QED
    BY <2>1, <2>2
<1>5. handlers = <<"TERM", "ALRM">> /\ ~struck' => walk \in Seq(Entry)
  BY <1>1, <1>3
<1> QED
  BY <1>1, <1>2, <1>4, <1>5, ReturnStep

LEMMA DumpStep == ASSUME DumpInv, [DumpNext]_dumpvars PROVE DumpInv'
<1>1. CASE UNCHANGED dumpvars
  <2>1. UNCHANGED <<at, cache, toload, loadtime, dumping, files, now, slack>>
    BY <1>1 DEF dumpvars
  <2>2. UNCHANGED <<at, old, new, arg, toload, loadtime, now, slack, handlers, lost, struck>>
    BY <2>1 DEF cache, dumping
  <2>3. DumpTypeOK'
    BY <2>2 DEF DumpInv, DumpTypeOK
  <2>4. OnTime(old', 0) /\ OnTime(new', 0) /\ (at' = "load" => OnTime(toload', now' - loadtime'))
    BY <2>2 DEF DumpInv, Times
  <2>5. arg' # Nil /\ arg'.until # Nil => at' = "load" /\ now' + arg'.ttl <= arg'.until + slack
    BY <2>2 DEF DumpInv, Times
  <2> QED
    BY <2>1, <2>3, <2>4, <2>5, DumpStill
<1>2. CASE cache_dump
  BY <1>2, DumpStart, EntryStep, WriteStep, FailStep, RenameStep DEF cache_dump
<1> QED
  BY <1>1, <1>2, SecondsStep, SetStep, MainStep, LoadStartStep, LoadStep, LoadJunkStep, LoadEndStep, CrashStep
     DEF DumpNext

\* The newest of some entries.
LEMMA Newest ==
  ASSUME NEW n \in Nat, NEW I \in SUBSET (1..n), I # {}
  PROVE  \E i \in I : \A j \in I : j <= i
<1> DEFINE T == {n - i : i \in I}
<1>1. T \in SUBSET Nat /\ T # {}
  <2>1. ASSUME NEW i \in I PROVE n - i \in Nat
    OBVIOUS
  <2>2. PICK i \in I : TRUE
    OBVIOUS
  <2>3. n - i \in T
    OBVIOUS
  <2> QED
    BY <2>1, <2>3
<1>2. PICK x \in T : \A y \in T : ~(<<y, x>> \in OpToRel(<, Nat))
  <2> HIDE DEF T
  <2> QED
    BY <1>1, NatLessThanWellFounded, WFMin
<1>3. PICK i \in I : x = n - i
  OBVIOUS
<1>4. ASSUME NEW j \in I PROVE j <= i
  <2>1. n - j \in T /\ n - j \in Nat /\ x \in Nat
    BY <1>1
  <2>2. ~(n - j < x)
    BY <1>2, <2>1 DEF OpToRel
  <2> QED
    BY <1>3, <2>2
<1> QED
  BY <1>4

LEMMA DumpServes == ASSUME DumpInv PROVE NoneProlonged
<1>0. OnTime(q, 0)
  BY ConcatTimes DEF DumpInv, Times, q
<1>1. ASSUME NEW name \in Key, cache_get(name) # Nil PROVE cache_get(name).expire <= cache_get(name).until + slack
  <2> DEFINE I == {i \in 1..Len(q) : q[i].key = name}
             m == CHOOSE i \in I : \A j \in I : j <= i
  <2>1. I # {} /\ cache_get(name) = q[m]
    BY <1>1 DEF cache_get
  <2>2. Len(q) \in Nat /\ I \in SUBSET (1..Len(q))
    BY <1>0, Elements DEF OnTime
  <2>3. \E i \in I : \A j \in I : j <= i
    <3> HIDE DEF I
    <3> QED
      BY <2>1, <2>2, Newest
  <2>4. m \in I
    BY <2>3
  <2>5. m \in 1..Len(q) /\ q[m].key = name
    BY <2>4
  <2> HIDE DEF m
  <2>6. q[m] \in Entries /\ q[m] # Junk
    <3>1. Junk.key = Nil /\ name # Nil
      BY DumpAssumption DEF Junk
    <3> QED
      BY <1>0, <2>2, <2>5, <3>1, Elements DEF OnTime
  <2>7. q[m].expire \in Int /\ q[m].expire + 0 <= q[m].until + slack
    BY <1>0, <2>5, <2>6, EntryFacts DEF OnTime
  <2> QED
    BY <2>1, <2>7
<1> QED
  BY <1>1 DEF NoneProlonged

LEMMA DumpInvariant == DumpSpec => []DumpInv
<1>1. DumpInit => DumpInv
  BY DumpInitial
<1>2. DumpInv /\ [DumpNext]_dumpvars => DumpInv'
  BY DumpStep
<1> QED
  BY <1>1, <1>2, PTL DEF DumpSpec

\* However often dqcache is killed and started again, and whatever signals come
\* while it dumps or starts, dump/dnsdata is missing or has just the records that
\* the cache held when the last dump that was renamed began, in their order,
\* unless that dump was struck amid the moves of cache_set or by what another
\* one left in the buffer or the file (cache.c of dq: cache_dump).
THEOREM DqDumpWhole == DumpSpec => []DumpWhole
<1>1. DumpInv => DumpWhole
  BY DEF DumpInv
<1> QED
  BY <1>1, DumpInvariant, PTL

\* No restart prolongs the life of an entry, not even one that loads a file that
\* a struck dump has left (cache.c of dq: cache_set, cache_dump, cache_load).
THEOREM DqNoneProlonged == DumpSpec => []NoneProlonged
<1>1. DumpInv => NoneProlonged
  BY DumpServes
<1> QED
  BY <1>1, DumpInvariant, PTL

\* Both together: what is on disk is whole, and what comes back from it is not
\* kept for longer than it may be (cache.c of dq).
THEOREM DqDiskSound == DumpSpec => []DiskSound
<1>1. DumpWhole /\ NoneProlonged => DiskSound
  BY DEF DiskSound
<1> QED
  BY <1>1, DqDumpWhole, DqNoneProlonged, PTL
=============================================================================
