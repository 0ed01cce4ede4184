---------------------------- MODULE QueryProofs ----------------------------
(***************************************************************************)
(* Proofs about query.c of both packages: type correctness, the zones      *)
(* asked, what enters the cache, the responses and the bound on the steps  *)
(* of a query; then, for dq, where the flow between levels is the same and *)
(* the lemmas serve with servers that have keys, dns_transmit.c too: whose *)
(* answers are taken.  Last, the nonces of dns_nonce.c, for every set of   *)
(* processes, every length of $NONCESTART, and any clock, restarts and     *)
(* random bytes.                                                           *)
(***************************************************************************)
EXTENDS DqQuery, Nonce, TLAPS

----------------------------------------------------------------------------
(* The files in servers/ *)

\* Names above a name are names, and above is transitive.
LEMMA AboveFacts ==
  ASSUME NEW n \in Name, NEW m \in Above[n]
  PROVE  m \in Name /\ n \in Above[n] /\ Above[m] \subseteq Above[n]
BY QueryAssumption

\* roots_search finds the nearest file.
LEMMA SearchFindsNearest ==
  ASSUME NEW n \in Name, RootsOf(n) # {}
  PROVE  /\ roots_search(n) \in RootsOf(n)
         /\ RootsOf(n) \subseteq Above[roots_search(n)]
<1>1. RootsOf(n) \in SUBSET Above[n]
  BY DEF RootsOf
<1>2. PICK z \in RootsOf(n) : RootsOf(n) \subseteq Above[z]
  BY <1>1, QueryAssumption
<1>. QED
  BY <1>2 DEF roots_search

\* Names with the same files above them share the nearest one.
LEMMA SameFiles ==
  ASSUME NEW n, NEW m, RootsOf(n) = RootsOf(m)
  PROVE  roots_same(n, m)
BY DEF roots_same, roots_search

\* The zone of a file is under that file.
LEMMA FileZone ==
  ASSUME NEW n \in Name, RootsOf(n) # {}
  PROVE  roots_search(n) \in Above[n] /\ roots_same(n, roots_search(n))
<1> DEFINE z == roots_search(n)
<1>1. z \in RootsOf(n) /\ RootsOf(n) \subseteq Above[z]
  BY SearchFindsNearest
<1>2. z \in Above[n] /\ Above[z] \subseteq Above[n]
  BY <1>1, AboveFacts DEF RootsOf
<1>3. RootsOf(z) = RootsOf(n)
  BY <1>1, <1>2 DEF RootsOf
<1>. QED
  BY <1>2, <1>3, SameFiles

\* A name between two that share their nearest file shares it as well.
LEMMA Between ==
  ASSUME NEW n \in Name, NEW r \in Above[n], NEW z \in Above[r], roots_same(n, z)
  PROVE  roots_same(n, r)
<1>1. r \in Name /\ Above[r] \subseteq Above[n] /\ Above[z] \subseteq Above[r] /\ z \in Name
  BY AboveFacts
<1>2. RootsOf(r) \subseteq RootsOf(n)
  BY <1>1 DEF RootsOf
<1>3. CASE RootsOf(n) = {}
  BY <1>2, <1>3, SameFiles
<1>4. CASE RootsOf(n) # {}
  <2>1. /\ roots_search(n) \in RootsOf(n)
        /\ RootsOf(n) \subseteq Above[roots_search(n)]
    BY <1>4, SearchFindsNearest
  <2>2. roots_search(n) \in Name
    BY <2>1, QueryAssumption DEF RootsOf
  <2>3. RootsOf(z) # {}
    BY <2>2, QueryAssumption DEF roots_same, roots_search
  <2>4. roots_search(n) \in Above[z]
    BY <1>1, <2>3, SearchFindsNearest DEF roots_same, RootsOf
  <2>5. Above[roots_search(n)] \subseteq Above[r]
    BY <1>1, <2>4, AboveFacts
  <2>6. RootsOf(n) \subseteq RootsOf(r)
    BY <2>1, <2>5 DEF RootsOf
  <2>. QED
    BY <1>2, <2>6, SameFiles
<1>. QED
  BY <1>3, <1>4

----------------------------------------------------------------------------
(* The inductive invariant *)

\* While a query is under way its levels have names, and level 0 is never
\* left downwards.
Named == pc # "idle" =>
  /\ \A l \in Levels : l <= level => name[l] \in Name
  /\ pc = "LOWERLEVEL" => level # 0

\* What rqa would write now is linked by CNAME records that were seen.
ChainLinked(c) ==
  /\ c[Len(c)] = asked.name
  /\ \A i \in 1..(Len(c) - 1) : <<c[i + 1], c[i]>> \in cnames
ChainKept == pc # "idle" => ChainLinked(<<name[0]>> \o alias)

\* S is what a server is: an address, in dq an address with a key.
InvIn(S) == /\ TypeIn(S) /\ Named /\ ControlInName /\ AsksInside
            /\ ChainKept /\ ResponseFits
IInv == InvIn(Addr)

\* What every step may do to the counter of loops and to the CNAME records.
Counts == loop' \in 0..maxloop /\ cnames' \in SUBSET (Name \X Name) /\ cnames \subseteq cnames'

LEMMA LevelFacts ==
  ASSUME level \in Levels
  PROVE  /\ level \in Nat /\ 0 \in Levels
         /\ level # 0 => level - 1 \in Levels
BY QueryAssumption DEF Levels

LEMMA InitIInv ==
  ASSUME NEW S, Init
  PROVE  InvIn(S)
<1>1. TypeIn(S)
  BY QueryAssumption DEF Init, TypeIn, Levels, NoResponse, Hows, DataTypes
<1>2. Named /\ ControlInName /\ AsksInside /\ ChainKept
  BY DEF Init, Named, ControlInName, AsksInside, Settled, ChainKept
<1>3. ResponseFits
  BY DEF Init, ResponseFits, NoResponse
<1>. QED
  BY <1>1, <1>2, <1>3 DEF InvIn

\* The chain of names that rqa writes.
LEMMA ChainSeq ==
  ASSUME NEW n, NEW a \in Seq(Name)
  PROVE  /\ Len(<<n>> \o a) = Len(a) + 1
         /\ (<<n>> \o a)[1] = n
         /\ \A i \in 1..Len(a) : (<<n>> \o a)[i + 1] = a[i]
         /\ n \in Name => <<n>> \o a \in Seq(Name)
BY SMT

\* cleanup and return.
LEMMA EndStep ==
  ASSUME NEW S, InvIn(S), Counts, NEW how \in Hows \ {"none"}, pc # "idle", End(how)
  PROVE  InvIn(S)'
<1> USE DEF End
<1>1. TypeIn(S)'
  <2>1. name[0] \in Name /\ alias \in Seq(Name)
    BY LevelFacts DEF InvIn, TypeIn, Named
  <2>2. response'.how \in Hows /\ response'.query \in Name \cup {None}
        /\ response'.chain \in Seq(Name)
    <3>1. CASE how = "die"
      BY <3>1 DEF NoResponse
    <3>2. CASE how # "die"
      <4>1. <<name[0]>> \o alias \in Seq(Name)
        BY <2>1, ChainSeq
      <4>2. Question \in Name
        BY <2>1 DEF Question
      <4>. QED
        BY <3>2, <4>1, <4>2 DEF rqa
    <3>. QED
      BY <3>1, <3>2
  <2>3. /\ pc' = "idle" /\ name' \in [Levels -> Name \cup {None}]
        /\ ns' \in [Levels -> SUBSET Name] /\ alias' \in Seq(Name) /\ Len(alias') <= maxalias
    BY QueryAssumption
  <2>4. UNCHANGED <<level, control, servers, ipv6, type, asked>>
    OBVIOUS
  <2> HIDE DEF End
  <2>. QED
    BY <2>2, <2>3, <2>4 DEF InvIn, TypeIn, Counts
<1>2. Named' /\ ControlInName' /\ AsksInside' /\ ChainKept'
  BY DEF Named, ControlInName, AsksInside, Settled, ChainKept
<1>3. ResponseFits'
  <2>1. CASE how = "die"
    BY <2>1 DEF ResponseFits, NoResponse
  <2>2. CASE how # "die"
    <3> DEFINE c == <<name[0]>> \o alias
    <3>1. response' = rqa(how) /\ response'.chain = c /\ response'.query = Question
      BY <2>2 DEF rqa
    <3>2. ChainLinked(c)
      BY DEF InvIn, ChainKept
    <3>3. Question = c[Len(c)]
      <4>1. alias \in Seq(Name)
        BY DEF InvIn, TypeIn
      <4>2. CASE alias = << >>
        BY <4>2, ChainSeq, <4>1 DEF Question
      <4>3. CASE alias # << >>
        <5>1. Len(alias) \in 1..Len(alias)
          BY <4>1, <4>3
        <5>. QED
          BY <4>1, <4>3, <5>1, ChainSeq DEF Question
      <4>. QED
        BY <4>2, <4>3
    <3>4. asked' = asked
      OBVIOUS
    <3>. QED
      BY <3>1, <3>2, <3>3, <3>4 DEF ResponseFits, ChainLinked, Counts
  <2>. QED
    BY <2>1, <2>2
<1>. QED
  BY <1>1, <1>2, <1>3 DEF InvIn

\* A step inside a query leaves the last response alone ...
LEMMA KeepResponse ==
  ASSUME NEW S, InvIn(S), Counts, UNCHANGED <<response, asked>>
  PROVE  ResponseFits'
BY DEF InvIn, ResponseFits, Counts

\* ... and, unless it follows an alias, the chain.
LEMMA KeepChain ==
  ASSUME NEW S, InvIn(S), Counts, pc # "idle", UNCHANGED <<alias, asked>>, name'[0] = name[0]
  PROVE  ChainKept'
BY DEF InvIn, ChainKept, ChainLinked, Counts

\* To LOWERLEVEL.
LEMMA ToLowerLevelStep ==
  ASSUME NEW S, InvIn(S), Counts, pc # "idle", ToLowerLevel
  PROVE  InvIn(S)'
<1> USE DEF ToLowerLevel
<1>1. TypeIn(S)'
  BY DEF InvIn, TypeIn, Counts
<1>2. Named' /\ ControlInName' /\ AsksInside'
  BY DEF InvIn, Named, ControlInName, AsksInside, Settled
<1>. QED
  BY <1>1, <1>2, KeepResponse, KeepChain DEF InvIn

\* The addresses go to the level below.
LEMMA TakeAddressesStep ==
  ASSUME NEW S, InvIn(S), Counts, pc # "idle", NEW addrs \in SUBSET S, TakeAddresses(addrs)
  PROVE  InvIn(S)'
<1> USE DEF TakeAddresses
<1>0. servers' \in [Levels -> SUBSET S]
  <2>1. PICK s \in SUBSET addrs : servers' = [servers EXCEPT ![level - 1] = @ \cup s]
    OBVIOUS
  <2>. QED
    BY <2>1, LevelFacts DEF InvIn, TypeIn
<1>1. TypeIn(S)'
  BY <1>0 DEF InvIn, TypeIn, Counts
<1>2. Named' /\ ControlInName' /\ AsksInside'
  BY DEF InvIn, Named, ControlInName, AsksInside, Settled
<1>. QED
  BY <1>1, <1>2, KeepResponse, KeepChain DEF InvIn

\* AAAA after A.
LEMMA TryIpv6Step ==
  ASSUME NEW S, InvIn(S), Counts, pc # "idle", TryIpv6
  PROVE  InvIn(S)'
<1> USE DEF TryIpv6
<1>1. TypeIn(S)'
  BY LevelFacts DEF InvIn, TypeIn, Counts
<1>2. Named' /\ ControlInName' /\ AsksInside'
  BY DEF InvIn, Named, ControlInName, AsksInside, Settled
<1>. QED
  BY <1>1, <1>2, KeepResponse, KeepChain DEF InvIn

\* A zone is settled at the current level.
LEMMA UseZoneStep ==
  ASSUME NEW S, InvIn(S), Counts, pc # "idle",
         NEW z \in Above[d], NEW addrs \in SUBSET S, NEW names \in SUBSET Name,
         roots_same(d, z), UseZone(z, addrs, names)
  PROVE  InvIn(S)'
<1> USE DEF UseZone
<1>0. d \in Name /\ z \in Name /\ level \in Levels
  BY LevelFacts, AboveFacts DEF InvIn, TypeIn, Named, d
<1>1. TypeIn(S)'
  BY <1>0 DEF InvIn, TypeIn, Counts
<1>2. Named'
  BY DEF InvIn, Named
<1>3. \A l \in Levels : Settled(l)' => Settled(l) \/ l = level
  BY DEF Settled
<1>4. \A l \in Levels : l # level => control'[l] = control[l]
  BY DEF InvIn, TypeIn
<1>5. control'[level] = z /\ name' = name
  BY <1>0 DEF InvIn, TypeIn
<1> HIDE DEF UseZone
<1>6. ControlInName'
  BY <1>0, <1>3, <1>4, <1>5 DEF InvIn, ControlInName, d
<1>7. AsksInside'
  BY <1>0, <1>3, <1>4, <1>5 DEF InvIn, AsksInside, d
<1>. QED
  BY <1>1, <1>2, <1>6, <1>7, KeepResponse, KeepChain DEF InvIn, UseZone

\* An alias is followed, noted at level 0.
LEMMA CNAMEStep ==
  ASSUME NEW S, InvIn(S), Counts, pc \in {"NEWNAME", "wait"}, NEW target \in Name,
         level = 0 => <<d, target>> \in cnames', CNAME(target)
  PROVE  InvIn(S)'
<1>1. CASE DIE
  BY <1>1, EndStep DEF DIE, Hows
<1>2. CASE ~DIE
  <2>0. /\ level = 0 => Len(alias) < maxalias
        /\ alias' = IF level = 0 THEN <<d>> \o alias ELSE alias
        /\ name' = [name EXCEPT ![level] = target]
        /\ pc' = "NEWNAME"
        /\ UNCHANGED <<level, control, ns, servers, ipv6, type, response, asked>>
    BY <1>2 DEF CNAME
  <2>1. d \in Name /\ level \in Levels /\ alias \in Seq(Name)
        /\ name \in [Levels -> Name \cup {None}] /\ 0 \in Levels /\ level \in Nat
    BY LevelFacts DEF InvIn, TypeIn, Named, d
  <2>2. alias' \in Seq(Name) /\ Len(alias') <= maxalias
    <3>1. CASE level = 0
      BY <2>0, <2>1, <3>1, ChainSeq, QueryAssumption
    <3>2. CASE level # 0
      BY <2>0, <3>2 DEF InvIn, TypeIn
    <3>. QED
      BY <3>1, <3>2
  <2>3. TypeIn(S)'
    BY <2>0, <2>1, <2>2 DEF InvIn, TypeIn, Counts
  <2>4. \A l \in Levels : l # level => name'[l] = name[l]
    BY <2>0, <2>1
  <2>5. name'[level] = target
    BY <2>0, <2>1
  <2>6. Named'
    BY <2>0, <2>4, <2>5 DEF InvIn, Named
  <2>7. \A l \in Levels : Settled(l)' => Settled(l) /\ l # level
    BY <2>0, <2>1 DEF Settled, Levels
  <2>8. ControlInName' /\ AsksInside'
    BY <2>0, <2>4, <2>7 DEF InvIn, ControlInName, AsksInside
  <2>9. ChainKept'
    <3>1. CASE level # 0
      BY <2>0, <2>1, <2>4, <3>1, KeepChain
    <3>2. CASE level = 0
      <4> DEFINE c == <<name[0]>> \o alias
                 e == <<target>> \o c
      <4>1. alias' = c /\ name'[0] = target /\ d = name[0] /\ c \in Seq(Name)
        BY <2>0, <2>1, <2>5, <3>2, ChainSeq DEF d
      <4>2. Len(c) >= 1 /\ Len(c) \in Nat /\ c[1] = name[0]
        BY <2>1, ChainSeq
      <4>3. Len(e) = Len(c) + 1 /\ e[1] = target /\ \A i \in 1..Len(c) : e[i + 1] = c[i]
        BY <4>1, ChainSeq
      <4>4. ChainLinked(c)
        BY DEF InvIn, ChainKept
      <4>5. e[Len(e)] = asked'.name
        BY <2>0, <4>2, <4>3, <4>4 DEF ChainLinked
      <4>6. ASSUME NEW i \in 1..(Len(e) - 1) PROVE <<e[i + 1], e[i]>> \in cnames'
        <5>1. i \in 1..Len(c) /\ e[i + 1] = c[i]
          BY <4>2, <4>3
        <5>2. CASE i = 1
          BY <3>2, <4>1, <4>2, <4>3, <5>1, <5>2
        <5>3. CASE i # 1
          <6>1. i - 1 \in 1..(Len(c) - 1) /\ e[i] = c[i - 1]
            BY <4>2, <4>3, <5>1, <5>3
          <6>2. <<c[i], c[i - 1]>> \in cnames
            BY <4>4, <6>1, <5>1 DEF ChainLinked
          <6>. QED
            BY <5>1, <6>1, <6>2 DEF Counts
        <5>. QED
          BY <5>2, <5>3
      <4>. QED
        BY <4>1, <4>5, <4>6 DEF ChainKept, ChainLinked
    <3>. QED
      BY <3>1, <3>2
  <2>. QED
    BY <2>0, <2>3, <2>6, <2>8, <2>9, KeepResponse DEF InvIn
<1>. QED
  BY <1>1, <1>2

----------------------------------------------------------------------------
(* One lemma for each of the other steps *)

LEMMA StartStep == ASSUME NEW S, InvIn(S), query_start PROVE InvIn(S)'
<1>1. PICK n \in Name, t \in QType \ {"AXFR"} :
        /\ pc' = "NEWNAME" /\ asked.n < MaxQueries
        /\ asked' = [n |-> asked.n + 1, name |-> n] /\ cnames' = {}
        /\ name' = [[l \in Levels |-> None] EXCEPT ![0] = n]
        /\ ns' = [l \in Levels |-> {}] /\ alias' = << >>
        /\ level' = 0 /\ loop' = 0 /\ type' = t
        /\ ipv6' = [ipv6 EXCEPT ![0] = FALSE]
        /\ response' = NoResponse("none")
        /\ UNCHANGED <<control, servers>>
  BY DEF query_start
<1>2. 0 \in Levels /\ level' \in Levels
  BY <1>1, LevelFacts DEF InvIn, TypeIn
<1>3. name' \in [Levels -> Name \cup {None}] /\ name'[0] = n
  BY <1>1, <1>2
<1>4. /\ asked'.n \in 0..MaxQueries /\ asked'.name = n
      /\ type' \in DataTypes \cup {"ANY"}
      /\ loop' \in 0..maxloop
  BY <1>1, QueryAssumption DEF InvIn, TypeIn
<1>5. response'.how = "none" /\ response'.query = None /\ response'.chain = << >>
  BY <1>1 DEF NoResponse
<1>6. alias' \in Seq(Name) /\ Len(alias') <= maxalias
  BY <1>1, QueryAssumption
<1>7. TypeIn(S)'
  BY <1>1, <1>2, <1>3, <1>4, <1>5, <1>6 DEF InvIn, TypeIn, Hows
<1>8. Named' /\ ControlInName' /\ AsksInside'
  BY <1>1, <1>3 DEF Named, ControlInName, AsksInside, Settled, Levels
<1>9. ChainKept'
  <2>1. /\ Len(<<n>> \o << >>) = 1 /\ (<<n>> \o << >>)[1] = n
    OBVIOUS
  <2>. QED
    BY <1>1, <1>3, <1>4, <2>1 DEF ChainKept, ChainLinked
<1>. QED
  BY <1>5, <1>7, <1>8, <1>9 DEF InvIn, ResponseFits

LEMMA UpStep == ASSUME NEW S, InvIn(S), HAVENS_up PROVE InvIn(S)'
<1>1. PICK n \in ns[level] :
        /\ pc = "HAVENS" /\ level + 1 < maxlevel
        /\ name' = [name EXCEPT ![level + 1] = n]
        /\ ns' = [ns EXCEPT ![level] = @ \ {n}]
        /\ level' = level + 1
        /\ ipv6' = [ipv6 EXCEPT ![level + 1] = FALSE]
        /\ pc' = "NEWNAME"
        /\ UNCHANGED <<control, servers, alias, type, response, asked, loop, cnames>>
  BY DEF HAVENS_up, HAVENS, MoreLevels
<1>2. /\ level \in Levels /\ level' \in Levels /\ level \in Nat /\ 0 \in Levels
      /\ n \in Name /\ Counts
  <2>1. level \in Levels /\ level \in Nat /\ 0 \in Levels
    BY LevelFacts DEF InvIn, TypeIn
  <2>2. level' \in Levels
    BY <1>1, <2>1, QueryAssumption DEF Levels
  <2>3. n \in Name
    BY <1>1, <2>1 DEF InvIn, TypeIn
  <2>4. Counts
    BY <1>1 DEF InvIn, TypeIn, Counts
  <2>. QED
    BY <2>1, <2>2, <2>3, <2>4
<1>3. \A l \in Levels : l # level + 1 => name'[l] = name[l]
  BY <1>1 DEF InvIn, TypeIn
<1>4. name'[level + 1] = n
  BY <1>1, <1>2 DEF InvIn, TypeIn
<1>5. TypeIn(S)'
  BY <1>1, <1>2 DEF InvIn, TypeIn
<1>6. Named'
  BY <1>1, <1>2, <1>3, <1>4 DEF InvIn, Named, Levels
<1>7. \A l \in Levels : Settled(l)' => Settled(l) /\ l # level + 1
  BY <1>1, <1>2 DEF Settled, Levels
<1>8. ControlInName' /\ AsksInside'
  BY <1>1, <1>3, <1>7 DEF InvIn, ControlInName, AsksInside
<1>. QED
  BY <1>1, <1>2, <1>3, <1>5, <1>6, <1>8, KeepResponse, KeepChain DEF InvIn

LEMMA TransmitStep == ASSUME NEW S, InvIn(S), HAVENS_transmit PROVE InvIn(S)'
<1> USE DEF HAVENS_transmit, HAVENS
<1>0. Counts /\ level \in Levels
  BY LevelFacts DEF InvIn, TypeIn, Counts
<1>1. TypeIn(S)'
  BY <1>0 DEF InvIn, TypeIn
<1>2. Named' /\ ControlInName' /\ AsksInside'
  BY DEF InvIn, Named, ControlInName, AsksInside, Settled
<1>. QED
  BY <1>0, <1>1, <1>2, KeepResponse, KeepChain DEF InvIn

LEMMA LowerStep == ASSUME NEW S, InvIn(S), LOWERLEVEL PROVE InvIn(S)'
<1> USE DEF LOWERLEVEL
<1>0. /\ Counts /\ level \in Levels /\ level # 0 /\ level \in Nat
      /\ level' \in Levels /\ 0 \in Levels
  BY LevelFacts DEF InvIn, TypeIn, Counts, Named
<1>1. TypeIn(S)'
  BY <1>0 DEF InvIn, TypeIn
<1>2. \A l \in Levels : l # level => name'[l] = name[l]
  BY DEF InvIn, TypeIn
<1>3. Named'
  BY <1>0, <1>2 DEF InvIn, Named, Levels
<1>4. \A l \in Levels : Settled(l)' => Settled(l) /\ l # level
  BY <1>0 DEF Settled, Levels
<1>5. ControlInName' /\ AsksInside'
  BY <1>2, <1>4 DEF InvIn, ControlInName, AsksInside
<1>. QED
  BY <1>0, <1>1, <1>2, <1>3, <1>5, KeepResponse, KeepChain DEF InvIn

LEMMA LameStep == ASSUME NEW S, InvIn(S), HAVEPACKET_lame PROVE InvIn(S)'
<1>a. PICK s \in servers[level] :
        /\ pc = "wait" /\ loop + 1 < maxloop /\ loop' = loop + 1
        /\ servers' = [servers EXCEPT ![level] = @ \ {s}]
        /\ pc' = "HAVENS"
        /\ UNCHANGED <<level, name, control, ns, ipv6, alias, type, response, asked, cnames>>
  BY DEF HAVEPACKET_lame, HAVEPACKET, CountLoop
<1>0. Counts /\ level \in Levels
  BY <1>a, LevelFacts, QueryAssumption DEF InvIn, TypeIn, Counts
<1>1. servers' \in [Levels -> SUBSET S]
  BY <1>a, <1>0 DEF InvIn, TypeIn
<1>2. TypeIn(S)'
  BY <1>a, <1>0, <1>1 DEF InvIn, TypeIn, Counts
<1>3. Named' /\ ControlInName' /\ AsksInside'
  BY <1>a DEF InvIn, Named, ControlInName, AsksInside, Settled
<1>. QED
  BY <1>a, <1>0, <1>2, <1>3, KeepResponse, KeepChain DEF InvIn

LEMMA RespondStep ==
  ASSUME NEW S, InvIn(S), Counts, pc # "idle", NEW how \in Hows \ {"none"}, Respond(how)
  PROVE  InvIn(S)'
BY EndStep DEF Respond, DIE, Hows

LEMMA LowerOrStep ==
  ASSUME NEW S, InvIn(S), Counts, pc # "idle", NEW how \in Hows \ {"none"}, LowerOr(how)
  PROVE  InvIn(S)'
BY RespondStep, ToLowerLevelStep DEF LowerOr

\* A step that counts a loop, or none, and sees no CNAME record.
LEMMA PlainCounts ==
  ASSUME NEW S, InvIn(S), UNCHANGED cnames, (loop' = loop) \/ CountLoop
  PROVE  Counts
BY QueryAssumption DEF InvIn, TypeIn, Counts, CountLoop

\* A step that sees a CNAME record.
LEMMA CnameCounts ==
  ASSUME NEW S, InvIn(S), pc # "idle", NEW target \in Name, CountLoop, SeeCname(target)
  PROVE  Counts /\ (level = 0 => <<d, target>> \in cnames')
<1>1. d \in Name
  BY LevelFacts DEF InvIn, TypeIn, Named, d
<1>. QED
  BY <1>1, QueryAssumption DEF InvIn, TypeIn, Counts, CountLoop, SeeCname

----------------------------------------------------------------------------
(* NEWNAME *)

\* From here on about dnscache, whose servers are addresses.
USE DEF IInv

LEMMA NewnameStep ==
  ASSUME IInv,
         \/ NEWNAME_global \/ NEWNAME_fixed \/ NEWNAME_nxdomain
         \/ NEWNAME_cname \/ NEWNAME_cached \/ NEWNAME_configured \/ NEWNAME_ns
  PROVE  IInv'
<1>0. pc = "NEWNAME" /\ CountLoop
  BY DEF NEWNAME_global, NEWNAME_fixed, NEWNAME_nxdomain, NEWNAME_cname,
         NEWNAME_cached, NEWNAME_configured, NEWNAME_ns, NEWNAME
<1>d. d \in Name /\ Above[d] \subseteq Name
  BY <1>0, LevelFacts, QueryAssumption DEF InvIn, TypeIn, Named, d
<1>1. CASE NEWNAME_global
  <2>1. Counts /\ {GlobalIp[d]} \in SUBSET Addr
    BY <1>0, <1>1, PlainCounts, QueryAssumption DEF NEWNAME_global
  <2>. QED
    BY <1>0, <1>1, <2>1, TakeAddressesStep, RespondStep DEF NEWNAME_global, Hows
<1>2. CASE NEWNAME_fixed
  BY <1>0, <1>2, PlainCounts, LowerOrStep DEF NEWNAME_fixed, Hows
<1>3. CASE NEWNAME_nxdomain
  BY <1>0, <1>3, PlainCounts, LowerOrStep DEF NEWNAME_nxdomain, Hows
<1>4. CASE NEWNAME_cname
  <2>1. PICK target \in Name :
          /\ SeeCname(target)
          /\ Respond("answer") \/ CNAME(target)
    BY <1>4 DEF NEWNAME_cname
  <2>2. Counts /\ (level = 0 => <<d, target>> \in cnames')
    BY <1>0, <2>1, CnameCounts
  <2>. QED
    BY <1>0, <2>1, <2>2, RespondStep, CNAMEStep DEF Hows
<1>5. CASE NEWNAME_cached
  <2>1. Counts
    BY <1>0, <1>5, PlainCounts DEF NEWNAME_cached
  <2>2. CASE Respond("answer")
    BY <1>0, <2>1, <2>2, RespondStep DEF Hows
  <2>3. CASE TryIpv6
    BY <1>0, <2>1, <2>3, TryIpv6Step
  <2>4. CASE \E addrs \in SUBSET (Addr \ IgnoreIp) : TakeAddresses(addrs)
    BY <1>0, <2>1, <2>4, TakeAddressesStep
  <2>. QED
    BY <1>5, <2>2, <2>3, <2>4 DEF NEWNAME_cached
<1>6. CASE NEWNAME_configured
  <2> DEFINE z == roots_search(d)
  <2>1. RootsOf(d) # {} /\ UseZone(z, ConfiguredAddr[z], {})
    BY <1>6 DEF NEWNAME_configured
  <2>2. z \in Above[d] /\ roots_same(d, z) /\ z \in Configured
    BY <1>d, <2>1, FileZone, SearchFindsNearest DEF RootsOf
  <2>3. ConfiguredAddr[z] \in SUBSET Addr /\ {} \in SUBSET Name
    BY <2>2, QueryAssumption
  <2>4. Counts
    BY <1>0, <1>6, PlainCounts DEF NEWNAME_configured
  <2>. QED
    BY <1>0, <2>1, <2>2, <2>3, <2>4, UseZoneStep
<1>7. CASE NEWNAME_ns
  <2>1. PICK z \in Above[d], names \in CachedNs : Passed(z) /\ UseZone(z, {}, names)
    BY <1>7 DEF NEWNAME_ns
  <2>2. roots_same(d, z)
    BY <2>1, SameFiles DEF Passed
  <2>3. names \in SUBSET Name /\ {} \in SUBSET Addr
    BY DEF CachedNs
  <2>4. Counts
    BY <1>0, <1>7, PlainCounts DEF NEWNAME_ns
  <2>. QED
    BY <1>0, <2>1, <2>2, <2>3, <2>4, UseZoneStep
<1>. QED
  BY <1>1, <1>2, <1>3, <1>4, <1>5, <1>6, <1>7

----------------------------------------------------------------------------
(* HAVEPACKET *)

\* The records of a packet.
LEMMA PacketRecords ==
  ASSUME NEW p \in Packet
  PROVE  p.ans \subseteq RR /\ p.auth \subseteq RR /\ p.glue \subseteq RR
BY DEF Packet, Section

\* The zone whose servers are asked is above the name, and the name has no
\* file in servers/ of its own.
LEMMA ZoneFacts ==
  ASSUME NEW S, InvIn(S), pc = "wait"
  PROVE  d \in Name /\ Zone \in Above[d] /\ roots_same(d, Zone) /\ Above[d] \subseteq Name
<1>1. level \in Levels /\ Settled(level)
  BY LevelFacts DEF InvIn, TypeIn, Settled
<1>. QED
  BY <1>1, QueryAssumption DEF InvIn, ControlInName, AsksInside, d, Zone

\* A referral that is followed leads to a zone between that one and the name.
LEMMA ReferralStep == ASSUME IInv, HAVEPACKET_referral PROVE IInv'
<1>1. PICK p \in Packet : \E referral \in Referrals(p) :
        /\ ~Lame(p, referral) /\ Plain(p) /\ ~IsAnswer(p)
        /\ \/ ~ReferralAbove(referral) /\ DIE
           \/ /\ ReferralAbove(referral)
              /\ \E names \in SUBSET NsNames(p, referral) : UseZone(referral, {}, names)
  BY DEF HAVEPACKET_referral
<1>2. PICK referral \in Referrals(p) :
        /\ ~Lame(p, referral) /\ Plain(p) /\ ~IsAnswer(p)
        /\ \/ ~ReferralAbove(referral) /\ DIE
           \/ /\ ReferralAbove(referral)
              /\ \E names \in SUBSET NsNames(p, referral) : UseZone(referral, {}, names)
  BY <1>1
<1>3. pc = "wait" /\ Counts
  BY PlainCounts DEF HAVEPACKET_referral, HAVEPACKET
<1>4. CASE DIE
  BY <1>3, <1>4, EndStep DEF DIE, Hows
<1>5. CASE ReferralAbove(referral)
           /\ \E names \in SUBSET NsNames(p, referral) : UseZone(referral, {}, names)
  <2>1. Zone \in Above[referral]
    BY <1>2 DEF Lame, Plain, IsAnswer
  <2>2. referral \in Above[d] /\ d \in Name
    BY <1>3, <1>5, ZoneFacts DEF ReferralAbove
  <2>3. roots_same(d, referral)
    BY <1>3, <2>1, <2>2, ZoneFacts, Between
  <2>4. NsNames(p, referral) \subseteq Name
    BY PacketRecords, QueryAssumption DEF NsNames
  <2>. QED
    BY <1>3, <1>5, <2>2, <2>3, <2>4, UseZoneStep
<1>. QED
  BY <1>2, <1>4, <1>5

LEMMA HavepacketStep == ASSUME IInv, NextHAVEPACKET PROVE IInv'
<1>1. CASE HAVEPACKET_die
  <2>1. pc = "wait" /\ DIE /\ loop' = loop + 1 /\ UNCHANGED cnames /\ loop' <= maxloop
    BY <1>1, QueryAssumption DEF HAVEPACKET_die, InvIn, TypeIn
  <2>2. Counts
    BY <2>1, QueryAssumption DEF Counts, InvIn, TypeIn
  <2>. QED
    BY <2>1, <2>2, EndStep DEF DIE, Hows
<1>2. CASE HAVEPACKET_lame
  BY <1>2, LameStep
<1>3. CASE HAVEPACKET_ignoreip
  <2>1. pc = "wait" /\ CountLoop /\ LowerOr("nxdomain") /\ UNCHANGED cnames
    BY <1>3 DEF HAVEPACKET_ignoreip, HAVEPACKET
  <2>. QED
    BY <2>1, PlainCounts, LowerOrStep DEF Hows
<1>4. CASE HAVEPACKET_cname
  <2>1. PICK p \in Packet : \E target \in Targets(p) : SeeCname(target) /\ CNAME(target)
    BY <1>4 DEF HAVEPACKET_cname
  <2>2. PICK target \in Targets(p) : SeeCname(target) /\ CNAME(target)
    BY <2>1
  <2>3. pc = "wait" /\ CountLoop
    BY <1>4 DEF HAVEPACKET_cname, HAVEPACKET
  <2>4. target \in Name
    BY PacketRecords, QueryAssumption DEF Targets
  <2>. QED
    BY <2>2, <2>3, <2>4, CnameCounts, CNAMEStep
<1>5. CASE HAVEPACKET_nxdomain
  <2>1. pc = "wait" /\ CountLoop /\ LowerOr("nxdomain") /\ UNCHANGED cnames
    BY <1>5 DEF HAVEPACKET_nxdomain, HAVEPACKET
  <2>. QED
    BY <2>1, PlainCounts, LowerOrStep DEF Hows
<1>6. CASE HAVEPACKET_nodata
  <2>1. pc = "wait" /\ CountLoop /\ TryIpv6 /\ UNCHANGED cnames
    BY <1>6 DEF HAVEPACKET_nodata, HAVEPACKET
  <2>. QED
    BY <2>1, PlainCounts, TryIpv6Step
<1>7. CASE HAVEPACKET_answer
  <2>1. PICK p \in Packet :
          /\ TakeAddresses({r.data : r \in AddressRecords(p)}) \/ Respond("answer")
          /\ UNCHANGED cnames
    BY <1>7 DEF HAVEPACKET_answer
  <2>2. pc = "wait" /\ CountLoop
    BY <1>7 DEF HAVEPACKET_answer, HAVEPACKET
  <2>3. {r.data : r \in AddressRecords(p)} \in SUBSET Addr
    BY PacketRecords, QueryAssumption DEF AddressRecords
  <2>. QED
    BY <2>1, <2>2, <2>3, PlainCounts, TakeAddressesStep, RespondStep DEF Hows
<1>8. CASE HAVEPACKET_referral
  BY <1>8, ReferralStep
<1>. QED
  BY <1>1, <1>2, <1>3, <1>4, <1>5, <1>6, <1>7, <1>8 DEF NextHAVEPACKET

----------------------------------------------------------------------------
(* All steps *)

\* A query under way has loops left.
Running == pc # "idle" => loop < maxloop

\* doit counts a loop in every pass through NEWNAME and HAVEPACKET.
LEMMA LoopSteps ==
  ASSUME doit
  PROVE  /\ pc # "idle"
         /\ \/ pc \in {"NEWNAME", "wait"} /\ CountLoop
            \/ pc \in {"NEWNAME", "wait"} /\ loop' = loop + 1 /\ pc' = "idle"
            \/ pc \in {"HAVENS", "LOWERLEVEL", "wait"} /\ loop' = loop
<1>1. CASE NEWNAME_die \/ HAVEPACKET_die
  BY <1>1 DEF NEWNAME_die, HAVEPACKET_die, DIE, End
<1>2. CASE \/ NEWNAME_global \/ NEWNAME_fixed \/ NEWNAME_nxdomain \/ NEWNAME_cname
           \/ NEWNAME_cached \/ NEWNAME_configured \/ NEWNAME_ns
  BY <1>2 DEF NEWNAME_global, NEWNAME_fixed, NEWNAME_nxdomain, NEWNAME_cname,
              NEWNAME_cached, NEWNAME_configured, NEWNAME_ns, NEWNAME
<1>3. CASE HAVENS_up \/ HAVENS_servfail \/ HAVENS_transmit \/ HAVENS_die
  BY <1>3 DEF HAVENS_up, HAVENS_servfail, HAVENS_transmit, HAVENS_die, HAVENS
<1>4. CASE LOWERLEVEL \/ query_get_fail
  BY <1>4 DEF LOWERLEVEL, query_get_fail
<1>5. CASE \/ HAVEPACKET_lame \/ HAVEPACKET_ignoreip \/ HAVEPACKET_cname \/ HAVEPACKET_nxdomain
           \/ HAVEPACKET_nodata \/ HAVEPACKET_answer \/ HAVEPACKET_referral
  BY <1>5 DEF HAVEPACKET_lame, HAVEPACKET_ignoreip, HAVEPACKET_cname, HAVEPACKET_nxdomain,
              HAVEPACKET_nodata, HAVEPACKET_answer, HAVEPACKET_referral, HAVEPACKET
<1>. QED
  BY <1>1, <1>2, <1>3, <1>4, <1>5 DEF doit, NextHAVEPACKET

LEMMA NextIInv == ASSUME IInv, Running, Next PROVE IInv' /\ Running'
<1>1. CASE query_start
  <2>1. loop' = 0
    BY <1>1 DEF query_start
  <2>. QED
    BY <1>1, <2>1, StartStep, QueryAssumption DEF Running
<1>2. CASE doit
  <2>1. Running'
    BY <1>2, LoopSteps, QueryAssumption DEF Running, CountLoop, InvIn, TypeIn
  <2>2. IInv'
    <3>1. CASE NEWNAME_die
      <4>1. Counts
        BY <3>1, QueryAssumption DEF NEWNAME_die, Counts, Running, InvIn, TypeIn
      <4>. QED
        BY <3>1, <4>1, EndStep DEF NEWNAME_die, DIE, Hows
    <3>2. CASE HAVENS_servfail \/ HAVENS_die \/ query_get_fail
      <4>1. Counts /\ pc # "idle" /\ (LowerOr("servfail") \/ DIE)
        BY <3>2, PlainCounts DEF HAVENS_servfail, HAVENS_die, query_get_fail, HAVENS
      <4>. QED
        BY <4>1, LowerOrStep, EndStep DEF DIE, Hows
    <3>. QED
      BY <1>2, <3>1, <3>2, NewnameStep, UpStep, TransmitStep, LowerStep, HavepacketStep DEF doit
  <2>. QED
    BY <2>1, <2>2
<1>. QED
  BY <1>1, <1>2 DEF Next

LEMMA StutterIInv == ASSUME IInv, Running, UNCHANGED vars PROVE IInv' /\ Running'
<1> USE DEF vars
<1>1. TypeIn(Addr)' /\ Named' /\ Running'
  BY DEF InvIn, TypeIn, Named, Running
<1>2. ControlInName' /\ AsksInside'
  BY DEF InvIn, ControlInName, AsksInside, Settled
<1>3. ChainKept' /\ ResponseFits'
  BY DEF InvIn, ChainKept, ChainLinked, ResponseFits
<1>. QED
  BY <1>1, <1>2, <1>3 DEF InvIn

LEMMA Inductive == Spec => [](IInv /\ Running)
<1>1. Init => IInv /\ Running
  BY InitIInv DEF Init, Running
<1>2. IInv /\ Running /\ [Next]_vars => (IInv /\ Running)'
  BY NextIInv, StutterIInv
<1>. QED
  BY <1>1, <1>2, PTL DEF Spec

----------------------------------------------------------------------------
(* Theorems *)

\* The levels of a query stay in its arrays, its aliases fit, and every
\* variable keeps its type, whatever servers and cache say.
THEOREM QueryTypeOK == Spec => []TypeOK
<1>1. IInv /\ Running => TypeOK
  BY DEF InvIn, TypeOK
<1>. QED
  BY <1>1, Inductive, PTL

\* query.h's "pointing inside name": control is above the name looked up.
THEOREM QueryControl == Spec => []ControlInName
<1>1. IInv /\ Running => ControlInName
  BY DEF InvIn
<1>. QED
  BY <1>1, Inductive, PTL

\* Names below a file in servers/ are asked inside it.
THEOREM QueryAsksInside == Spec => []AsksInside
<1>1. IInv /\ Running => AsksInside
  BY DEF InvIn
<1>. QED
  BY <1>1, Inductive, PTL

\* Both: no zone is asked that does not cover the name.
THEOREM QueryZones == Spec => []ZonesCover
<1>1. IInv /\ Running => ZonesCover
  BY DEF InvIn, ZonesCover
<1>. QED
  BY <1>1, Inductive, PTL

\* Responses repeat the question and a linked chain of aliases (rqa).
THEOREM QueryResponse == Spec => []ResponseFits
<1>1. IInv /\ Running => ResponseFits
  BY DEF InvIn
<1>. QED
  BY <1>1, Inductive, PTL

\* The entries made from a packet are of the zone asked.
LEMMA EntriesFromZone ==
  ASSUME NEW p, NEW e \in Entries(p)
  PROVE  e.zone \in Above[e.owner] /\ roots_same(e.owner, e.zone)
BY DEF Entries, Entry, Storable

LEMMA NegativeFromZone ==
  ASSUME NEW S, InvIn(S), pc = "wait", NEW p, NEW t, NEW e \in Negative(p, t)
  PROVE  e.zone \in Above[e.owner] /\ roots_same(e.owner, e.zone)
<1>1. e.zone = Zone /\ e.owner = d
  BY DEF Negative, Entry
<1>. QED
  BY <1>1, ZoneFacts

LEMMA StoredSteps ==
  ASSUME Next
  PROVE  \/ stored' = {}
         \/ pc = "wait" /\ \E p : stored' = Entries(p)
         \/ pc = "wait" /\ \E p, t : stored' = Entries(p) \cup Negative(p, t)
<1>1. CASE query_start
  BY <1>1 DEF query_start, NoPacket
<1>2. CASE \/ NEWNAME_die \/ NEWNAME_global \/ NEWNAME_fixed \/ NEWNAME_nxdomain \/ NEWNAME_cname
           \/ NEWNAME_cached \/ NEWNAME_configured \/ NEWNAME_ns
  BY <1>2 DEF NEWNAME_die, NEWNAME_global, NEWNAME_fixed, NEWNAME_nxdomain, NEWNAME_cname,
              NEWNAME_cached, NEWNAME_configured, NEWNAME_ns, NEWNAME, NoPacket
<1>3. CASE \/ HAVENS_up \/ HAVENS_servfail \/ HAVENS_transmit \/ HAVENS_die
           \/ LOWERLEVEL \/ query_get_fail
  BY <1>3 DEF HAVENS_up, HAVENS_servfail, HAVENS_transmit, HAVENS_die, HAVENS,
              LOWERLEVEL, query_get_fail, NoPacket
<1>4. CASE HAVEPACKET_die \/ HAVEPACKET_lame \/ HAVEPACKET_ignoreip \/ HAVEPACKET_cname
  BY <1>4 DEF HAVEPACKET_die, HAVEPACKET_lame, HAVEPACKET_ignoreip, HAVEPACKET_cname,
              HAVEPACKET, NoPacket
<1>5. CASE HAVEPACKET_nxdomain \/ HAVEPACKET_referral
  BY <1>5 DEF HAVEPACKET_nxdomain, HAVEPACKET_referral, HAVEPACKET
<1>6. CASE HAVEPACKET_nodata \/ HAVEPACKET_answer
  <2>1. pc = "wait" /\ \E p : stored' = EntriesAndNodata(p)
    BY <1>6 DEF HAVEPACKET_nodata, HAVEPACKET_answer, HAVEPACKET
  <2>2. PICK p : stored' = EntriesAndNodata(p)
    BY <2>1
  <2>3. CASE nodata(p)
    BY <2>1, <2>2, <2>3 DEF EntriesAndNodata
  <2>4. CASE ~nodata(p)
    BY <2>1, <2>2, <2>4 DEF EntriesAndNodata
  <2>. QED
    BY <2>3, <2>4
<1>. QED
  BY <1>1, <1>2, <1>3, <1>4, <1>5, <1>6 DEF Next, doit, NextHAVEPACKET

\* Nothing enters the cache from servers outside its zone, negative entries
\* included: these rest on the zone that earlier steps settled.
THEOREM QueryStored == Spec => []StoredFromZone
<1>1. Init => StoredFromZone
  BY DEF Init, StoredFromZone
<1>2. IInv /\ Running /\ StoredFromZone /\ [Next]_vars => StoredFromZone'
  <2> SUFFICES ASSUME IInv, StoredFromZone, [Next]_vars PROVE StoredFromZone'
    OBVIOUS
  <2>1. CASE UNCHANGED vars
    BY <2>1 DEF vars, StoredFromZone
  <2>2. CASE Next
    <3> SUFFICES ASSUME NEW e \in stored'
                 PROVE  e.zone \in Above[e.owner] /\ roots_same(e.owner, e.zone)
      BY DEF StoredFromZone
    <3>. QED
      BY <2>2, StoredSteps, EntriesFromZone, NegativeFromZone
  <2>. QED
    BY <2>1, <2>2
<1>. QED
  BY <1>1, <1>2, Inductive, PTL DEF Spec

\* Every step of doit uses up a loop or goes down, so that a query ends after
\* a bounded number of steps.
THEOREM QueryProgress == Spec => Progress
<1> DEFINE A == \/ pc = "idle" \/ pc' = "idle"
                \/ loop' > loop
                \/ loop' = loop /\ pc # "NEWNAME" /\ pc' = "NEWNAME"
                \/ loop' = loop /\ pc # "NEWNAME" /\ level' < level
                \/ loop' = loop /\ pc # "NEWNAME" /\ level' = level /\ Rank' < Rank
<1>1. IInv /\ Running /\ [Next]_vars => [A]_vars
  <2> SUFFICES ASSUME IInv, Next PROVE A
    OBVIOUS
  <2>t. loop \in Nat /\ level \in Nat
    BY LevelFacts, QueryAssumption DEF InvIn, TypeIn
  <2>1. CASE query_start
    BY <2>1 DEF query_start
  <2>2. CASE doit /\ loop' # loop
    BY <2>2, <2>t, LoopSteps DEF CountLoop
  <2>3. CASE doit /\ loop' = loop
    <3>1. CASE HAVENS_up
      BY <3>1, <2>3 DEF HAVENS_up, HAVENS
    <3>2. CASE HAVENS_transmit
      BY <3>2, <2>3 DEF HAVENS_transmit, HAVENS, Rank
    <3>3. CASE LOWERLEVEL
      BY <3>3, <2>3, <2>t DEF LOWERLEVEL
    <3>4. CASE HAVENS_servfail \/ HAVENS_die \/ query_get_fail
      <4>1. pc \in {"HAVENS", "wait"} /\ (ToLowerLevel \/ pc' = "idle")
        BY <3>4 DEF HAVENS_servfail, HAVENS_die, query_get_fail, HAVENS, LowerOr, Respond, DIE, End
      <4>. QED
        BY <4>1, <2>3 DEF ToLowerLevel, Rank
    <3>5. ~CountLoop /\ loop' # loop + 1
      BY <2>3, <2>t DEF CountLoop
    <3>. QED
      BY <2>3, <3>1, <3>2, <3>3, <3>4, <3>5
      DEF doit, NextHAVEPACKET, NEWNAME_die, NEWNAME_global, NEWNAME_fixed, NEWNAME_nxdomain,
          NEWNAME_cname, NEWNAME_cached, NEWNAME_configured, NEWNAME_ns, NEWNAME,
          HAVEPACKET_die, HAVEPACKET_lame, HAVEPACKET_ignoreip, HAVEPACKET_cname,
          HAVEPACKET_nxdomain, HAVEPACKET_nodata, HAVEPACKET_answer, HAVEPACKET_referral, HAVEPACKET
  <2>. QED
    BY <2>1, <2>2, <2>3 DEF Next
<1>. QED
  BY <1>1, Inductive, PTL DEF Spec, Progress

----------------------------------------------------------------------------
----------------------------------------------------------------------------
(* Servers *)

Server == [addr : Addr, kind : {0} \cup Formats, key : Key]

\* An address with a key, or without.
LEMMA AddServer ==
  ASSUME NEW addrs \in SUBSET Addr, NEW key \in PublicKey
  PROVE  addserver(addrs, key) \in SUBSET Server
BY DEF addserver, Server, Key, NoKey, PublicKey

\* The secret made of a key stands for it.
LEMMA Secrets ==
  ASSUME NEW S \in SUBSET Server
  PROVE  MakeSecrets(S) \in SUBSET Server
<1> SUFFICES ASSUME NEW s \in S
             PROVE  (IF s.kind = 0 THEN s ELSE [s EXCEPT !.key.n = IF @ < 2 THEN @ + 1 ELSE @]) \in Server
  BY DEF MakeSecrets
<1>1. s \in Server /\ s.key \in Key /\ s.key.n \in 0..2
  BY DEF Server, Key
<1>2. CASE s.kind # 0
  <2> DEFINE m == IF s.key.n < 2 THEN s.key.n + 1 ELSE s.key.n
  <2>1. m \in 0..2
    BY <1>1
  <2>2. [s.key EXCEPT !.n = m] \in Key
    BY <1>1, <2>1 DEF Key
  <2>3. [s EXCEPT !.key = [s.key EXCEPT !.n = m]] \in Server
    BY <1>1, <2>2 DEF Server
  <2> QED
    BY <1>2, <2>3
<1> QED
  BY <1>1, <1>2

\* The keys in the names and in the files are keys.
LEMMA KnownKeys ==
  /\ \A n \in Name : findkey(n) \in PublicKey
  /\ \A z \in Configured, a \in Addr : ConfiguredKey[z][a] \in PublicKey
  /\ None \in PublicKey
BY DEF PublicKey, findkey

\* The servers in a file.
LEMMA RootServers ==
  ASSUME NEW z \in Configured
  PROVE  roots(z) \in SUBSET Server
<1>1. ConfiguredAddr[z] \in SUBSET Addr
  BY QueryAssumption
<1>2. ASSUME NEW a \in ConfiguredAddr[z]
      PROVE  addserver({a}, ConfiguredKey[z][a]) \in SUBSET Server
  BY <1>1, AddServer, KnownKeys
<1> QED
  BY <1>2 DEF roots

----------------------------------------------------------------------------
(* dns_transmit *)

\* Names, and what is left of them.
Names == Name \cup {Garbled, Cut, None}

Exchange ==
  [state : {"idle", "udp", "tcp", "wait", "answered", "failed"}, tcpstate : 0..5, round : Int,
   servers : SUBSET Server, todo : SUBSET Server, cur : Server \cup {None},
   name : Names, inbuf : BOOLEAN,
   query : [asks : Names, kind : {0} \cup Formats, key : Key] \cup {None},
   got : [by : {"server", "other"}, question : Names, id : BOOLEAN, box : Key \cup {None}] \cup {None}]

\* Servers with a key and others.
Both(S) == \E s, t \in S : s.kind = 0 /\ t.kind # 0

\* The round that the exchange starts with, and: the servers are gone through
\* for the first time.
Round1 == IF flagforwardonly THEN 1 ELSE 0
First(t) ==
  \/ flagtcponly
  \/ t.round = Round1 /\ (t.state = "udp" \/ (t.state \in {"wait", "answered"} /\ t.tcpstate = 0))

\* An exchange with the servers S about the name n that was not given up: a
\* query is made for the server that it goes to; an answer comes from there.
\* The name is in the buffer of the query only when servers without a key alone
\* are left: always, if there are no others, and in the first pass, since
\* dns_sortipkey puts them last.
Sound(t, S, n) ==
  /\ t.state # "idle"
  /\ t.servers = S /\ t.todo \subseteq S
  /\ t.round >= Round1
  /\ flagtcponly => t.state # "udp" /\ (t.state = "wait" => t.tcpstate # 0)
  /\ t.name \in {n, Garbled}
  /\ ~Both(S) => t.name = n /\ (t.inbuf => \A s \in S : s.kind = 0)
  /\ First(t) => t.name = n /\ (t.inbuf => \A s \in t.todo : s.kind = 0)
  /\ t.state \in {"wait", "answered"} => t.cur \in S
  /\ t.state = "wait" => t.query.kind = t.cur.kind /\ t.query.key = t.cur.key
  /\ t.state = "answered" =>
       /\ t.got.by = "server" /\ t.got.question = t.name
       /\ t.cur.kind # 0 => t.got.box = [pk |-> KeyAt[t.cur.addr], n |-> 1]

Goes(t, S, n) == t \in Exchange /\ (t.state # "failed" => Sound(t, S, n))

\* cleanup.
LEMMA IdleExchange ==
  /\ T!Idle \in Exchange
  /\ T!Idle.inbuf = FALSE
BY DEF Exchange, Names, T!Idle

\* Giving up.
LEMMA Freed ==
  ASSUME NEW t, NEW S, NEW n
  PROVE  Goes(T!dns_transmit_free(t), S, n)
<1>1. T!dns_transmit_free(t) \in Exchange /\ T!dns_transmit_free(t).state = "failed"
  BY IdleExchange DEF T!dns_transmit_free, Exchange
<1>. QED
  BY <1>1 DEF Goes

\* The start.
LEMMA Started ==
  ASSUME NEW S \in SUBSET Server, NEW n \in Name
  PROVE  Goes(T!dns_transmit_startext(S, n, flagforwardonly, flagtcponly), S, n)
<1> DEFINE b == T!dns_transmit_startext(S, n, flagforwardonly, flagtcponly)
<1>1. n \in Names
  BY DEF Names
<1>2. /\ b \in Exchange /\ b.state \in {"tcp", "udp"} /\ b.servers = S /\ b.todo = S /\ b.name = n
      /\ b.inbuf = FALSE /\ b.round = Round1 /\ Round1 \in Int
      /\ flagtcponly => b.state # "udp" /\ b.state # "wait"
  <2> DEFINE st == IF flagtcponly THEN "tcp" ELSE "udp"
  <2>1. /\ Round1 \in Int /\ st \in {"tcp", "udp"}
        /\ flagtcponly => st # "udp" /\ st # "wait"
    BY DEF Round1
  <2>2. b = [T!Idle EXCEPT !.state = st, !.round = Round1, !.servers = S, !.todo = S, !.name = n]
    BY DEF T!dns_transmit_startext, Round1
  <2> HIDE DEF st, b
  <2>3. b \in Exchange
    BY <1>1, <2>1, <2>2, IdleExchange DEF Exchange
  <2>4. b.state = st /\ b.servers = S /\ b.todo = S
    BY <2>2, IdleExchange DEF Exchange
  <2>5. b.name = n /\ b.inbuf = FALSE /\ b.round = Round1
    BY <2>2, IdleExchange DEF Exchange
  <2>. QED
    BY <2>1, <2>3, <2>4, <2>5
<1> HIDE DEF b
<1>3. Sound(b, S, n)
  BY <1>2 DEF Sound
<1>. QED
  BY <1>2, <1>3 DEF Goes, b

\* A query is made for the server chosen, and asks for the name unless one
\* was made before.
LEMMA MadeQuery ==
  ASSUME NEW t \in Exchange, t.cur \in Server
  PROVE  LET m == T!makequery(t) IN
         /\ m \in Exchange
         /\ m.state = t.state /\ m.servers = t.servers /\ m.todo = t.todo /\ m.cur = t.cur
         /\ m.round = t.round /\ m.tcpstate = t.tcpstate /\ m.name \in {t.name, Garbled}
         /\ m.query.kind = t.cur.kind /\ m.query.key = t.cur.key
         /\ t.cur.kind = 0 => m.name = t.name
         /\ t.cur.kind # 0 => m.inbuf = t.inbuf /\ (~t.inbuf => m.name = t.name)
<1>1. t.cur.kind \in {0} \cup Formats /\ t.cur.key \in Key /\ t.cur.kind \in {0, 1, 2}
  BY DqAssumption DEF Server
<1> DEFINE q(asks) == [asks |-> asks, kind |-> t.cur.kind, key |-> t.cur.key]
<1>q. ASSUME NEW asks \in Names
      PROVE  /\ q(asks) \in [asks : Names, kind : {0} \cup Formats, key : Key]
             /\ q(asks).kind = t.cur.kind /\ q(asks).key = t.cur.key
  BY <1>1
<1>n. t.name \in Names /\ Cut \in Names /\ Garbled \in Names
  BY DEF Exchange, Names
<1>2. CASE t.cur.kind = 0
  <2>1. T!makequery(t) = [t EXCEPT !.query = q(t.name), !.inbuf = TRUE]
    BY <1>2 DEF T!makequery, T!regularquery, T!Query
  <2> HIDE DEF q
  <2>. QED
    BY <1>2, <1>q, <1>n, <2>1, ZenonT(60) DEF Exchange
<1>3. ASSUME NEW asks \in Names, NEW m, t.cur.kind # 0,
             m = [t EXCEPT !.query = q(asks), !.name = T!After(t)]
      PROVE  /\ m \in Exchange
             /\ m.state = t.state /\ m.servers = t.servers /\ m.todo = t.todo /\ m.cur = t.cur
             /\ m.round = t.round /\ m.tcpstate = t.tcpstate /\ m.name \in {t.name, Garbled}
             /\ m.query.kind = t.cur.kind /\ m.query.key = t.cur.key
             /\ m.inbuf = t.inbuf /\ (~t.inbuf => m.name = t.name)
  <2>1. T!After(t) \in Names /\ T!After(t) \in {t.name, Garbled} /\ (~t.inbuf => T!After(t) = t.name)
    BY <1>n DEF T!After
  <2> HIDE DEF q
  <2>. QED
    BY <1>3, <1>q, <1>n, <2>1 DEF Exchange
<1>4. CASE t.cur.kind = 1
  <2> DEFINE asks == IF t.inbuf /\ t.name \in Long THEN Cut ELSE t.name
  <2>1. asks \in Names
    BY <1>n
  <2>2. T!makequery(t) = [t EXCEPT !.query = q(asks), !.name = T!After(t)]
    <3>1. T!makequery(t) = T!streamlinedquery(t)
      BY <1>4 DEF T!makequery
    <3>2. T!streamlinedquery(t) = [t EXCEPT !.query = T!Query(t, asks), !.name = T!After(t)]
      BY Zenon DEF T!streamlinedquery
    <3>3. T!Query(t, asks) = q(asks)
      BY Zenon DEF T!Query
    <3>. QED
      BY <3>1, <3>2, <3>3, Zenon
  <2>3. t.cur.kind # 0
    BY <1>4
  <2> HIDE DEF q, asks
  <2>. QED
    BY <1>3, <2>1, <2>2, <2>3, Zenon
<1>5. CASE t.cur.kind = 2
  <2> DEFINE asks == IF t.inbuf THEN Cut ELSE t.name
  <2>1. asks \in Names
    BY <1>n
  <2>2. T!makequery(t) = [t EXCEPT !.query = q(asks), !.name = T!After(t)]
    <3>1. T!makequery(t) = T!txtquery(t)
      BY <1>5 DEF T!makequery
    <3>2. T!txtquery(t) = [t EXCEPT !.query = T!Query(t, asks), !.name = T!After(t)]
      BY Zenon DEF T!txtquery
    <3>3. T!Query(t, asks) = q(asks)
      BY Zenon DEF T!Query
    <3>. QED
      BY <3>1, <3>2, <3>3, Zenon
  <2>3. t.cur.kind # 0
    BY <1>5
  <2> HIDE DEF q, asks
  <2>. QED
    BY <1>3, <2>1, <2>2, <2>3, Zenon
<1>. QED
  BY <1>1, <1>2, <1>4, <1>5

\* thisudp, thistcp: a query for the next server.
LEMMA Chosen ==
  ASSUME NEW S \in SUBSET Server, NEW n \in Name, Goes(dt, S, n), dt.state # "failed",
         NEW s \in T!dns_sortipkey(dt.todo)
  PROVE  LET c == T!Chosen(s) IN
         /\ c \in Exchange /\ c.state = dt.state /\ c.round = dt.round /\ c.tcpstate = dt.tcpstate
         /\ c.servers = S /\ c.todo \subseteq S /\ c.cur = s /\ s \in S
         /\ c.query.kind = s.kind /\ c.query.key = s.key
         /\ c.name \in {n, Garbled}
         /\ ~Both(S) => c.name = n /\ (c.inbuf => \A u \in S : u.kind = 0)
         /\ First(dt) => c.name = n /\ (c.inbuf => \A u \in c.todo : u.kind = 0)
<1> DEFINE t == [dt EXCEPT !.cur = s, !.todo = @ \ {s}]
<1>0. dt \in Exchange /\ Sound(dt, S, n)
  BY DEF Goes
<1>s. s \in dt.todo /\ \A u \in dt.todo : T!Rank(s) <= T!Rank(u)
  BY DEF T!dns_sortipkey
<1>1. s \in S /\ s \in Server /\ dt.todo \ {s} \subseteq S /\ dt.todo \ {s} \in SUBSET Server
  BY <1>0, <1>s DEF Sound
<1>2. t \in Exchange
  BY <1>0, <1>1 DEF Exchange
<1>3. t.cur = s /\ t.state = dt.state /\ t.servers = S /\ t.todo = dt.todo \ {s} /\ t.todo \subseteq S
  BY <1>0, <1>1 DEF Exchange, Sound
<1>4. t.name = dt.name /\ t.inbuf = dt.inbuf /\ t.round = dt.round /\ t.tcpstate = dt.tcpstate
  BY <1>0 DEF Exchange
<1> HIDE DEF t
<1> DEFINE m == T!makequery(t)
<1>5. /\ m \in Exchange
      /\ m.state = t.state /\ m.servers = t.servers /\ m.todo = t.todo /\ m.cur = t.cur
      /\ m.round = t.round /\ m.tcpstate = t.tcpstate /\ m.name \in {t.name, Garbled}
      /\ m.query.kind = t.cur.kind /\ m.query.key = t.cur.key
      /\ t.cur.kind = 0 => m.name = t.name
      /\ t.cur.kind # 0 => m.inbuf = t.inbuf /\ (~t.inbuf => m.name = t.name)
  BY <1>1, <1>2, <1>3, MadeQuery
<1>6. T!Chosen(s) = m
  BY Zenon DEF T!Chosen, t
<1> HIDE DEF m
<1>7. ASSUME ~Both(S)
      PROVE  m.name = n /\ (m.inbuf => \A u \in S : u.kind = 0)
  <2>1. dt.name = n /\ (dt.inbuf => \A u \in S : u.kind = 0)
    BY <1>0, <1>7 DEF Sound
  <2>2. CASE s.kind = 0
    <3>1. \A u \in S : u.kind = 0
      BY <1>1, <1>7, <2>2 DEF Both
    <3>. QED
      BY <1>3, <1>4, <1>5, <2>1, <2>2, <3>1
  <2>3. CASE s.kind # 0
    <3>1. ~dt.inbuf
      BY <1>1, <2>1, <2>3
    <3>2. m.inbuf = t.inbuf /\ t.inbuf = dt.inbuf
      BY <1>3, <1>4, <1>5, <2>3
    <3>. QED
      BY <1>3, <1>4, <1>5, <2>1, <2>3, <3>1, <3>2
  <2>. QED
    BY <2>2, <2>3
<1>8. ASSUME First(dt)
      PROVE  m.name = n /\ (m.inbuf => \A u \in m.todo : u.kind = 0)
  <2>1. dt.name = n /\ (dt.inbuf => \A u \in dt.todo : u.kind = 0)
    BY <1>0, <1>8 DEF Sound
  <2>2. CASE s.kind = 0
    <3>1. ASSUME NEW u \in dt.todo PROVE u.kind = 0
      <4>1. u.kind \in {0, 1, 2}
        BY <1>0, DqAssumption DEF Exchange, Server
      <4>. QED
        BY <1>s, <2>2, <4>1 DEF T!Rank
    <3>2. m.name = n /\ m.todo = dt.todo \ {s}
      BY <1>3, <1>4, <1>5, <2>1, <2>2
    <3>. QED
      BY <3>1, <3>2
  <2>3. CASE s.kind # 0
    <3>1. ~dt.inbuf
      BY <1>s, <2>1, <2>3
    <3>2. m.inbuf = dt.inbuf /\ m.name = n
      BY <1>3, <1>4, <1>5, <2>1, <2>3, <3>1
    <3>. QED
      BY <3>1, <3>2
  <2>. QED
    BY <2>2, <2>3
<1>9. m.name \in {n, Garbled}
  BY <1>0, <1>4, <1>5 DEF Sound
<1>10. m.round = dt.round /\ m.tcpstate = dt.tcpstate
  BY <1>4, <1>5
<1>. QED
  BY <1>1, <1>3, <1>5, <1>6, <1>7, <1>8, <1>9, <1>10

\* ... which is sent, or not.
LEMMA ChosenGoes ==
  ASSUME NEW S \in SUBSET Server, NEW n \in Name, Goes(dt, S, n), dt.state \in {"udp", "tcp"},
         NEW s \in T!dns_sortipkey(dt.todo), NEW k \in 0..5, dt.state = "tcp" <=> k # 0,
         dt' \in {[T!Chosen(s) EXCEPT !.state = "wait", !.tcpstate = k], T!Chosen(s)}
  PROVE  Goes(dt', S, n)
<1> DEFINE c == T!Chosen(s)
<1>1. /\ c \in Exchange /\ c.state = dt.state /\ c.round = dt.round /\ c.tcpstate = dt.tcpstate
      /\ c.servers = S /\ c.todo \subseteq S /\ c.cur = s /\ s \in S
      /\ c.query.kind = s.kind /\ c.query.key = s.key
      /\ c.name \in {n, Garbled}
      /\ ~Both(S) => c.name = n /\ (c.inbuf => \A u \in S : u.kind = 0)
      /\ First(dt) => c.name = n /\ (c.inbuf => \A u \in c.todo : u.kind = 0)
  BY Chosen
<1>5. dt.round >= Round1 /\ (flagtcponly => dt.state # "udp" /\ (dt.state = "wait" => dt.tcpstate # 0))
  BY DEF Goes, Sound
<1>2. dt' = [c EXCEPT !.state = "wait", !.tcpstate = k] \/ dt' = c
  OBVIOUS
<1> HIDE DEF c
<1>3. CASE dt' = c
  <2>1. First(dt') => First(dt)
    BY <1>1, <1>3 DEF First
  <2>. QED
    BY <1>1, <1>3, <1>5, <2>1 DEF Goes, Sound
<1>4. CASE dt' = [c EXCEPT !.state = "wait", !.tcpstate = k]
  <2>1. dt' \in Exchange
    BY <1>1, <1>4 DEF Exchange
  <2>2. dt'.state = "wait" /\ dt'.servers = c.servers /\ dt'.todo = c.todo /\ dt'.cur = c.cur
    BY <1>1, <1>4 DEF Exchange
  <2>3. dt'.query = c.query /\ dt'.name = c.name /\ dt'.inbuf = c.inbuf
    BY <1>1, <1>4 DEF Exchange
  <2>4. dt'.round = dt.round /\ dt'.tcpstate = k
    BY <1>1, <1>4 DEF Exchange
  <2>5. First(dt') => First(dt)
    BY <2>2, <2>4 DEF First
  <2>6. flagtcponly => dt'.state # "udp" /\ (dt'.state = "wait" => dt'.tcpstate # 0)
    BY <1>5, <2>2, <2>4
  <2>. QED
    BY <1>1, <1>5, <2>1, <2>2, <2>3, <2>4, <2>5, <2>6 DEF Goes, Sound
<1>. QED
  BY <1>2, <1>3, <1>4

\* A change of state, of the tries left or of the servers to be tried.
LEMMA GoesOn ==
  ASSUME NEW S \in SUBSET Server, NEW n \in Name, Goes(dt, S, n), dt.state # "failed",
         NEW u \in Exchange, NEW todo \in {dt.todo, dt.servers},
         u.state \in {"udp", "tcp"} \/ (u.state = dt.state /\ dt.state = "wait"),
         u.servers = dt.servers, u.todo = todo, u.cur = dt.cur, u.query = dt.query,
         u.name = dt.name, u.inbuf = dt.inbuf, u.round >= Round1,
         flagtcponly => u.state # "udp" /\ (u.state = "wait" => u.tcpstate # 0),
         First(u) => First(dt) /\ u.todo = dt.todo
  PROVE  Goes(u, S, n)
BY DEF Goes, Sound

LEMMA ThisudpStep ==
  ASSUME NEW S \in SUBSET Server, NEW n \in Name, Goes(dt, S, n), T!thisudp
  PROVE  Goes(dt', S, n)
<1>0. dt.state = "udp" /\ dt \in Exchange
  BY DEF T!thisudp, Goes
<1>1. ASSUME NEW s \in T!dns_sortipkey(dt.todo),
             dt' \in {[T!Chosen(s) EXCEPT !.state = "wait", !.tcpstate = 0], T!Chosen(s),
                      T!dns_transmit_free(dt)}
      PROVE  Goes(dt', S, n)
  <2>2. CASE dt' = T!dns_transmit_free(dt)
    BY <2>2, Freed, SMTT(40)
  <2>3. CASE dt' \in {[T!Chosen(s) EXCEPT !.state = "wait", !.tcpstate = 0], T!Chosen(s)}
    <3>1. 0 \in 0..5
      OBVIOUS
    <3>2. dt.state = "tcp" <=> 0 # 0
      BY <1>0
    <3>3. dt.state \in {"udp", "tcp"}
      BY <1>0
    <3>. QED
      BY <2>3, <3>1, <3>2, <3>3, ChosenGoes, Zenon
  <2>. QED
    BY <1>1, <2>2, <2>3
<1>2. CASE dt' = [dt EXCEPT !.round = @ + 1, !.todo = dt.servers]
  <2>0. dt.round + 1 \in Int /\ dt.servers \in SUBSET Server
    BY <1>0 DEF Exchange
  <2>1. dt' \in Exchange
    <3> DEFINE i == dt.round + 1
    <3>1. dt' = [dt EXCEPT !.round = i, !.todo = dt.servers]
      BY <1>2
    <3> HIDE DEF i
    <3>2. i \in Int
      BY <2>0 DEF i
    <3>. QED
      BY <1>0, <2>0, <3>1, <3>2 DEF Exchange
  <2>2. dt'.state = "udp" /\ dt'.servers = dt.servers /\ dt'.todo = dt.servers /\ dt'.cur = dt.cur
    BY <1>0, <1>2 DEF Exchange
  <2>3. /\ dt'.query = dt.query /\ dt'.name = dt.name /\ dt'.inbuf = dt.inbuf
        /\ dt'.round = dt.round + 1
    BY <1>0, <1>2 DEF Exchange
  <2>4. dt.round >= Round1 /\ dt.round \in Int /\ Round1 \in Int /\ ~flagtcponly
    BY <1>0 DEF Goes, Sound, Exchange, Round1
  <2>5. dt'.round > Round1
    BY <2>3, <2>4
  <2>6. ~First(dt') /\ dt'.round >= Round1
    BY <2>4, <2>5, <2>3 DEF First
  <2>. QED
    BY <1>0, <2>1, <2>2, <2>3, <2>4, <2>6, GoesOn
<1>3. CASE dt' = T!dns_transmit_free(dt)
  BY <1>3, Freed
<1>. QED
  BY <1>1, <1>2, <1>3 DEF T!thisudp

LEMMA ThistcpStep ==
  ASSUME NEW S \in SUBSET Server, NEW n \in Name, Goes(dt, S, n), T!thistcp
  PROVE  Goes(dt', S, n)
<1>0. dt.state = "tcp" /\ dt.state \in {"udp", "tcp"}
  BY DEF T!thistcp
<1>1. ASSUME NEW s \in T!dns_sortipkey(dt.todo),
             dt' \in {[T!Chosen(s) EXCEPT !.state = "wait", !.tcpstate = c] : c \in {1, 2}}
                     \cup {T!Chosen(s), T!dns_transmit_free(dt)}
      PROVE  Goes(dt', S, n)
  <2>2. CASE dt' = T!dns_transmit_free(dt)
    BY <2>2, Freed
  <2>3. CASE \E c \in {1, 2} :
               dt' \in {[T!Chosen(s) EXCEPT !.state = "wait", !.tcpstate = c], T!Chosen(s)}
    <3>1. PICK c \in {1, 2} :
            dt' \in {[T!Chosen(s) EXCEPT !.state = "wait", !.tcpstate = c], T!Chosen(s)}
      BY <2>3
    <3>2. c \in 0..5 /\ c # 0
      OBVIOUS
    <3>3. dt.state = "tcp" <=> c # 0
      BY <1>0, <3>2
    <3>. QED
      BY <1>0, <3>1, <3>2, <3>3, ChosenGoes, Zenon
  <2>. QED
    BY <1>1, <2>2, <2>3
<1>2. CASE dt' = T!dns_transmit_free(dt)
  BY <1>2, Freed
<1>. QED
  BY <1>1, <1>2 DEF T!thistcp

\* nextudp, nexttcp, firsttcp: the exchange goes on.
LEMMA NextGoes ==
  ASSUME NEW S \in SUBSET Server, NEW n \in Name, Goes(dt, S, n), dt.state = "wait",
         \/ dt.tcpstate = 0 /\ dt' \in {T!nextudp(dt), T!firsttcp(dt)}
         \/ dt.tcpstate # 0 /\ dt' = T!nexttcp(dt)
  PROVE  Goes(dt', S, n)
<1>0. /\ dt \in Exchange /\ dt.round >= Round1 /\ dt.state = "wait"
      /\ flagtcponly => dt.tcpstate # 0
  BY DEF Goes, Sound
<1>1. PICK st \in {"udp", "tcp"}, todo \in {dt.todo, dt.servers} :
        /\ dt' = [dt EXCEPT !.state = st, !.todo = todo]
        /\ st = "udp" => dt.tcpstate = 0 /\ todo = dt.todo
        /\ dt.tcpstate # 0 => todo = dt.todo
  <2>1. CASE dt.tcpstate = 0 /\ dt' = T!nextudp(dt)
    <3>1. dt' = [dt EXCEPT !.state = "udp", !.todo = dt.todo]
      BY <1>0, <2>1 DEF T!nextudp, Exchange
    <3>. QED
      BY <2>1, <3>1
  <2>2. CASE dt.tcpstate # 0 /\ dt' = T!nexttcp(dt)
    <3>1. dt' = [dt EXCEPT !.state = "tcp", !.todo = dt.todo]
      BY <1>0, <2>2 DEF T!nexttcp, Exchange
    <3>. QED
      BY <2>2, <3>1
  <2>3. CASE dt.tcpstate = 0 /\ dt' = T!firsttcp(dt)
    BY <2>3 DEF T!firsttcp
  <2>. QED
    BY <2>1, <2>2, <2>3
<1>2. dt' \in Exchange
  BY <1>0, <1>1 DEF Exchange
<1>3. dt'.state = st /\ dt'.servers = dt.servers /\ dt'.todo = todo /\ dt'.cur = dt.cur
  BY <1>0, <1>1 DEF Exchange
<1>4. dt'.query = dt.query /\ dt'.name = dt.name /\ dt'.inbuf = dt.inbuf /\ dt'.round = dt.round
  BY <1>0, <1>1 DEF Exchange
<1>5. flagtcponly => dt'.state # "udp" /\ (dt'.state = "wait" => dt'.tcpstate # 0)
  BY <1>0, <1>1, <1>3
<1>6. ASSUME First(dt') PROVE First(dt) /\ dt'.todo = dt.todo
  <2>1. CASE flagtcponly
    BY <1>0, <1>1, <1>3, <2>1 DEF First
  <2>2. CASE ~flagtcponly
    <3>1. dt'.round = Round1 /\ dt'.state = "udp"
      BY <1>3, <1>6, <2>2 DEF First
    <3>. QED
      BY <1>0, <1>1, <1>3, <1>4, <3>1 DEF First
  <2>. QED
    BY <2>1, <2>2
<1>. QED
  BY <1>0, <1>1, <1>2, <1>3, <1>4, <1>5, <1>6, GoesOn

\* What passes getquery and irrelevant is the answer of the server asked: a
\* stranger knows the id of a query in a box only, and cannot seal the answer.
LEMMA AnswerIsServers ==
  ASSUME NEW S \in SUBSET Server, NEW n \in Name, Goes(dt, S, n), dt.state = "wait",
         NEW r \in {T!FromServer(dt)} \cup T!FromOthers(dt),
         T!getquery(dt, r), ~T!irrelevant(dt, r)
  PROVE  /\ r \in [by : {"server", "other"}, question : Names, id : BOOLEAN, box : Key \cup {None}]
         /\ r.by = "server" /\ r.question = dt.name
         /\ dt.cur.kind # 0 => r.box = [pk |-> KeyAt[dt.cur.addr], n |-> 1]
<1>1. dt \in Exchange /\ Sound(dt, S, n)
  BY DEF Goes
<1>2. dt.cur \in Server /\ dt.query.kind = dt.cur.kind /\ dt.query.key = dt.cur.key /\ dt.cur.key \in Key
      /\ dt.name \in Names /\ None \in Names
  BY <1>1 DEF Sound, Exchange, Server, Names
<1>3. r.id /\ r.question = dt.name
  BY DEF T!irrelevant
<1>4. dt.cur.kind # 0 => r.box = dt.cur.key /\ r.box # None
  BY <1>2, DqAssumption DEF T!getquery
<1>5. CASE r \in T!FromOthers(dt)
  BY <1>2, <1>3, <1>4, <1>5 DEF T!FromOthers
<1>6. CASE r = T!FromServer(dt)
  <2>1. /\ r = [by |-> "server", question |-> r.question, id |-> TRUE, box |-> r.box]
        /\ r.by = "server"
    BY <1>6 DEF T!FromServer
  <2>2. r.box = IF dt.query.kind # 0 /\ T!Readable(dt) THEN dt.query.key ELSE None
    BY <1>6 DEF T!FromServer
  <2>3. r.box \in Key \cup {None}
    BY <1>2, <2>2
  <2>4. r \in [by : {"server", "other"}, question : Names, id : BOOLEAN, box : Key \cup {None}]
    BY <1>2, <1>3, <2>1, <2>3
  <2>5. ASSUME dt.cur.kind # 0
        PROVE  r.box = [pk |-> KeyAt[dt.cur.addr], n |-> 1]
    <3>1. T!Readable(dt) /\ r.box = dt.query.key
      BY <1>4, <2>2, <2>5
    <3>. QED
      BY <1>2, <2>5, <3>1 DEF T!Readable
  <2>. QED
    BY <1>3, <2>1, <2>4, <2>5
<1>. QED
  BY <1>5, <1>6

LEMMA AcceptedGoes ==
  ASSUME NEW S \in SUBSET Server, NEW n \in Name, Goes(dt, S, n), dt.state = "wait",
         NEW r \in {T!FromServer(dt)} \cup T!FromOthers(dt),
         T!getquery(dt, r), ~T!irrelevant(dt, r), dt' = T!Accepted(dt, r)
  PROVE  Goes(dt', S, n)
<1>0. dt \in Exchange /\ Sound(dt, S, n)
  BY DEF Goes
<1>1. /\ r \in [by : {"server", "other"}, question : Names, id : BOOLEAN, box : Key \cup {None}]
      /\ r.by = "server" /\ r.question = dt.name
      /\ dt.cur.kind # 0 => r.box = [pk |-> KeyAt[dt.cur.addr], n |-> 1]
  BY AnswerIsServers
<1>2. dt' = [dt EXCEPT !.state = "answered", !.got = r, !.query = None]
  BY DEF T!Accepted
<1>3. dt' \in Exchange
  BY <1>0, <1>1, <1>2 DEF Exchange
<1>4. dt'.state = "answered" /\ dt'.servers = dt.servers /\ dt'.todo = dt.todo /\ dt'.cur = dt.cur
  BY <1>0, <1>2 DEF Exchange
<1>5. /\ dt'.got = r /\ dt'.name = dt.name /\ dt'.inbuf = dt.inbuf
      /\ dt'.round = dt.round /\ dt'.tcpstate = dt.tcpstate
  BY <1>0, <1>2 DEF Exchange
<1>6. First(dt') => First(dt)
  BY <1>4, <1>5 DEF First
<1>. QED
  BY <1>0, <1>1, <1>3, <1>4, <1>5, <1>6 DEF Goes, Sound

LEMMA GetStep ==
  ASSUME NEW S \in SUBSET Server, NEW n \in Name, Goes(dt, S, n), T!dns_transmit_get
  PROVE  Goes(dt', S, n)
<1>0. dt.state = "wait" /\ dt \in Exchange
  BY DEF T!dns_transmit_get, T!get_timeout, T!get_udp, T!get_tcp, T!get_tcp5, Goes
<1>1. CASE T!get_timeout
  BY <1>0, <1>1, NextGoes DEF T!get_timeout
<1>2. CASE T!get_udp
  <2>1. PICK r \in {T!FromServer(dt)} \cup T!FromOthers(dt) :
          /\ T!getquery(dt, r) /\ ~T!irrelevant(dt, r)
          /\ dt' \in {T!firsttcp(dt), T!nextudp(dt), T!Accepted(dt, r), T!dns_transmit_free(dt)}
    BY <1>2 DEF T!get_udp
  <2>2. CASE dt' = T!Accepted(dt, r)
    BY <1>0, <2>1, <2>2, AcceptedGoes
  <2>3. CASE dt' = T!dns_transmit_free(dt)
    BY <2>3, Freed
  <2>4. dt.tcpstate = 0
    BY <1>2 DEF T!get_udp
  <2>. QED
    BY <1>0, <2>1, <2>2, <2>3, <2>4, NextGoes
<1>3. CASE T!get_tcp
  <2>0. dt.tcpstate \in 1..4 /\ dt.round >= Round1
    BY <1>0, <1>3 DEF T!get_tcp, Goes, Sound
  <2>1. CASE dt' = [dt EXCEPT !.tcpstate = @ + 1]
    <3>1. dt.tcpstate + 1 \in 0..5 /\ dt.tcpstate + 1 # 0
      BY <2>0
    <3>2. dt' \in Exchange
      BY <1>0, <2>1, <3>1 DEF Exchange
    <3>3. dt'.state = dt.state /\ dt'.servers = dt.servers /\ dt'.todo = dt.todo /\ dt'.cur = dt.cur
      BY <1>0, <2>1 DEF Exchange
    <3>4. dt'.query = dt.query /\ dt'.name = dt.name /\ dt'.inbuf = dt.inbuf /\ dt'.round = dt.round
      BY <1>0, <2>1 DEF Exchange
    <3>5. dt'.tcpstate # 0
      BY <1>0, <2>1, <3>1 DEF Exchange
    <3>6. First(dt') => First(dt)
      BY <1>0, <3>3, <3>5 DEF First
    <3>. QED
      BY <1>0, <2>0, <3>2, <3>3, <3>4, <3>5, <3>6, GoesOn
  <2>2. CASE dt' = T!nexttcp(dt)
    BY <1>0, <2>0, <2>2, NextGoes
  <2>3. CASE dt' = T!dns_transmit_free(dt)
    BY <2>3, Freed
  <2>. QED
    BY <1>3, <2>1, <2>2, <2>3 DEF T!get_tcp
<1>4. CASE T!get_tcp5
  <2> DEFINE r == T!FromServer(dt)
  <2>1. \/ dt' = T!nexttcp(dt)
        \/ T!getquery(dt, r) /\ ~T!irrelevant(dt, r) /\ dt' = T!Accepted(dt, r)
    BY <1>4 DEF T!get_tcp5
  <2>2. r \in {T!FromServer(dt)} \cup T!FromOthers(dt)
    OBVIOUS
  <2>3. dt.tcpstate # 0
    BY <1>4 DEF T!get_tcp5
  <2> HIDE DEF r
  <2>. QED
    BY <1>0, <2>1, <2>2, <2>3, NextGoes, AcceptedGoes
<1>. QED
  BY <1>1, <1>2, <1>3, <1>4 DEF T!dns_transmit_get

----------------------------------------------------------------------------
(* NEWNAME *)

LEMMA DqNewnameStep ==
  ASSUME InvIn(Server), Running, dq_newname
  PROVE  InvIn(Server)'
<1>0. pc = "NEWNAME"
  BY DEF dq_newname, dq_die, NEWNAME_die, dq_globalip, dq_globalip6, dq_localhost, dq_cached_nxdomain,
         dq_cached_servfail, dq_cached_cname, dq_cached_answer, dq_cached_none, dq_cached_addresses,
         dq_roots, dq_cached_ns, Elsewhere, New, NEWNAME
<1>d. d \in Name /\ Above[d] \subseteq Name
  BY <1>0, LevelFacts, QueryAssumption DEF InvIn, TypeIn, Named, d
<1>1. CASE dq_die
  <2>1. Counts
    BY <1>1, QueryAssumption DEF dq_die, NEWNAME_die, Counts, Running, InvIn, TypeIn
  <2>. QED
    BY <1>0, <1>1, <2>1, EndStep DEF dq_die, NEWNAME_die, DIE, Hows
<1>2. CASE dq_globalip
  <2>1. CountLoop /\ UNCHANGED cnames /\ d \in Global
        /\ (TakeAddresses(addserver({GlobalIp[d]}, None)) \/ Respond("answer"))
    BY <1>2 DEF dq_globalip, New, NEWNAME, globalip
  <2>2. addserver({GlobalIp[d]}, None) \in SUBSET Server
    BY <2>1, AddServer, KnownKeys, QueryAssumption
  <2>. QED
    BY <1>0, <2>1, <2>2, PlainCounts, TakeAddressesStep, RespondStep DEF Hows
<1>3. CASE dq_globalip6
  <2>1. CountLoop /\ UNCHANGED cnames /\ d \in Global6
        /\ (TakeAddresses(addserver({GlobalIp6[d]}, None)) \/ Respond("answer"))
    BY <1>3 DEF dq_globalip6, New, NEWNAME, globalip6
  <2>2. addserver({GlobalIp6[d]}, None) \in SUBSET Server
    BY <2>1, AddServer, KnownKeys, DqAssumption
  <2>. QED
    BY <1>0, <2>1, <2>2, PlainCounts, TakeAddressesStep, RespondStep DEF Hows
<1>4. CASE dq_localhost
  BY <1>0, <1>4, PlainCounts, LowerOrStep DEF dq_localhost, New, NEWNAME, Hows
<1>5. CASE dq_cached_nxdomain \/ dq_cached_servfail
  BY <1>0, <1>5, PlainCounts, LowerOrStep
  DEF dq_cached_nxdomain, dq_cached_servfail, Elsewhere, New, NEWNAME, Hows
<1>6. CASE dq_cached_cname
  <2>1. PICK target \in Name : SeeCname(target) /\ (Respond("answer") \/ CNAME(target))
    BY <1>6 DEF dq_cached_cname
  <2>2. CountLoop
    BY <1>6 DEF dq_cached_cname, Elsewhere, New, NEWNAME
  <2>3. Counts /\ (level = 0 => <<d, target>> \in cnames')
    BY <1>0, <2>1, <2>2, CnameCounts
  <2>. QED
    BY <1>0, <2>1, <2>3, RespondStep, CNAMEStep DEF Hows
<1>7. CASE dq_cached_answer \/ dq_cached_none
  <2>1. Counts
    BY <1>7, PlainCounts DEF dq_cached_answer, dq_cached_none, Elsewhere, New, NEWNAME
  <2>2. Respond("answer") \/ TryIpv6 \/ TakeAddresses({})
    BY <1>7 DEF dq_cached_answer, dq_cached_none
  <2>. QED
    BY <1>0, <2>1, <2>2, RespondStep, TryIpv6Step, TakeAddressesStep DEF Hows
<1>8. CASE dq_cached_addresses
  <2>1. PICK addrs \in SUBSET Addr : TakeAddresses(addserver(addrs, findkey(d)))
    BY <1>8 DEF dq_cached_addresses
  <2>2. Counts
    BY <1>8, PlainCounts DEF dq_cached_addresses, Elsewhere, New, NEWNAME
  <2>3. addserver(addrs, findkey(d)) \in SUBSET Server
    BY <1>d, AddServer, KnownKeys
  <2>. QED
    BY <1>0, <2>1, <2>2, <2>3, TakeAddressesStep
<1>9. CASE dq_roots
  <2> DEFINE z == roots_search(d)
  <2>1. RootsOf(d) # {} /\ UseZone(z, roots(z), {})
    BY <1>9 DEF dq_roots
  <2>2. z \in Above[d] /\ roots_same(d, z) /\ z \in Configured
    BY <1>d, <2>1, FileZone, SearchFindsNearest DEF RootsOf
  <2>3. Counts
    BY <1>9, PlainCounts DEF dq_roots, Elsewhere, New, NEWNAME
  <2>. QED
    BY <1>0, <2>1, <2>2, <2>3, RootServers, UseZoneStep
<1>10. CASE dq_cached_ns
  <2>1. PICK z \in Above[d], names \in CachedNs : Passed(z) /\ UseZone(z, {}, names)
    BY <1>10 DEF dq_cached_ns
  <2>2. roots_same(d, z) /\ names \in SUBSET Name
    BY <2>1, SameFiles DEF Passed, CachedNs
  <2>3. Counts
    BY <1>10, PlainCounts DEF dq_cached_ns, Elsewhere, New, NEWNAME
  <2>. QED
    BY <1>0, <2>1, <2>2, <2>3, UseZoneStep
<1>. QED
  BY <1>1, <1>2, <1>3, <1>4, <1>5, <1>6, <1>7, <1>8, <1>9, <1>10 DEF dq_newname

----------------------------------------------------------------------------
(* HAVENS, LOWERLEVEL and the exchange *)

\* The keys give way to secrets, and the exchange starts.
LEMMA DqTransmitStep ==
  ASSUME InvIn(Server), dq_havens_transmit
  PROVE  InvIn(Server)' /\ Goes(dt', servers'[level'], d')
<1> DEFINE S == MakeSecrets(servers[level])
<1>0. /\ pc = "HAVENS" /\ pc' = "wait" /\ UNCHANGED <<loop, cnames>>
      /\ servers' = [servers EXCEPT ![level] = S]
      /\ dt' = T!dns_transmit_startext(S, d, flagforwardonly, flagtcponly)
      /\ ns' = [ns EXCEPT ![level] = {}]
      /\ UNCHANGED <<level, name, control, ipv6, alias, type, response, asked>>
  BY DEF dq_havens_transmit, HAVENS
<1>1. level \in Levels /\ Counts /\ d \in Name
  BY <1>0, LevelFacts DEF InvIn, TypeIn, Counts, Named, d
<1>2. S \in SUBSET Server
  BY <1>1, Secrets DEF InvIn, TypeIn
<1> HIDE DEF S
<1>3. TypeIn(Server)'
  BY <1>0, <1>1, <1>2 DEF InvIn, TypeIn
<1>4. Named' /\ ControlInName' /\ AsksInside'
  BY <1>0 DEF InvIn, Named, ControlInName, AsksInside, Settled
<1>5. InvIn(Server)'
  BY <1>0, <1>1, <1>3, <1>4, KeepResponse, KeepChain DEF InvIn
<1>6. servers'[level'] = S /\ d' = d
  BY <1>0, <1>1 DEF InvIn, TypeIn, d
<1>7. flagforwardonly \in BOOLEAN /\ flagtcponly \in BOOLEAN
  BY QueryAssumption, DqAssumption
<1>. QED
  BY <1>0, <1>1, <1>2, <1>5, <1>6, <1>7, Started

LEMMA DqHavensStep ==
  ASSUME InvIn(Server), dq_havens \/ dq_failed
  PROVE  InvIn(Server)'
<1>1. CASE dq_havens_servfail \/ dq_havens_die \/ dq_failed
  <2>1. Counts /\ pc # "idle" /\ (LowerOr("servfail") \/ DIE)
    BY <1>1, PlainCounts DEF dq_havens_servfail, dq_havens_die, dq_failed, HAVENS_servfail, HAVENS_die,
                             HAVENS
  <2>. QED
    BY <2>1, LowerOrStep, EndStep DEF DIE, Hows
<1>. QED
  BY <1>1, UpStep, LowerStep, DqTransmitStep DEF dq_havens, dq_havens_up, dq_lowerlevel

LEMMA DqExchangeStep ==
  ASSUME InvIn(Server), Running, Goes(dt, servers[level], d), dq_exchange
  PROVE  InvIn(Server)' /\ Running' /\ Goes(dt', servers'[level'], d')
<1>1. /\ pc = "wait" /\ (T!thisudp \/ T!thistcp \/ T!dns_transmit_get)
      /\ UNCHANGED <<pc, loop, level, name, control, ns, servers, ipv6, alias, type, response, asked, cnames>>
  BY DEF dq_exchange
<1>2. Counts
  BY <1>1 DEF InvIn, TypeIn, Counts
<1>3. TypeIn(Server)' /\ Named' /\ Running'
  BY <1>1 DEF InvIn, TypeIn, Named, Running
<1>4. ControlInName' /\ AsksInside'
  BY <1>1 DEF InvIn, ControlInName, AsksInside, Settled
<1>5. InvIn(Server)'
  BY <1>1, <1>2, <1>3, <1>4, KeepResponse, KeepChain DEF InvIn
<1>6. d \in Name /\ servers[level] \in SUBSET Server
  BY <1>1, LevelFacts DEF InvIn, TypeIn, Named, d
<1>7. Goes(dt', servers[level], d)
  BY <1>1, <1>6, ThisudpStep, ThistcpStep, GetStep
<1>8. servers'[level'] = servers[level] /\ d' = d
  BY <1>1 DEF d
<1>. QED
  BY <1>3, <1>5, <1>7, <1>8

----------------------------------------------------------------------------
(* HAVEPACKET *)

\* A server is struck off.
LEMMA StrikeStep ==
  ASSUME InvIn(Server), Counts, pc = "wait", NEW s, Strike(s)
  PROVE  InvIn(Server)'
<1> USE DEF Strike
<1>1. level \in Levels
  BY LevelFacts DEF InvIn, TypeIn
<1>2. servers' \in [Levels -> SUBSET Server]
  BY <1>1 DEF InvIn, TypeIn
<1>3. TypeIn(Server)'
  BY <1>1, <1>2 DEF InvIn, TypeIn, Counts
<1>4. Named' /\ ControlInName' /\ AsksInside'
  BY DEF InvIn, Named, ControlInName, AsksInside, Settled
<1>. QED
  BY <1>3, <1>4, KeepResponse, KeepChain DEF InvIn

\* A referral that is followed leads to a zone between that one and the name.
LEMMA DqReferralStep ==
  ASSUME InvIn(Server), dq_packet_referral
  PROVE  InvIn(Server)'
<1>1. pc = "wait" /\ CountLoop
  BY DEF dq_packet_referral, Have, Packets
<1>2. PICK p \in Packet : \E referral \in Referrals(p) :
        /\ ~Lame(p, referral) /\ Success(p) /\ ~IsAnswer(p)
        /\ CASE ~ReferralAbove(referral) -> DIE /\ UNCHANGED cnames
             [] ReferralAbove(referral) /\ flagforwardonly -> Strike(dt.cur)
             [] OTHER -> /\ \E names \in SUBSET NsNames(p, referral) : UseZone(referral, {}, names)
                         /\ UNCHANGED cnames
  BY DEF dq_packet_referral
<1>3. PICK referral \in Referrals(p) :
        /\ ~Lame(p, referral) /\ Success(p) /\ ~IsAnswer(p)
        /\ \/ DIE /\ UNCHANGED cnames
           \/ Strike(dt.cur)
           \/ /\ ReferralAbove(referral)
              /\ \E names \in SUBSET NsNames(p, referral) : UseZone(referral, {}, names)
              /\ UNCHANGED cnames
  BY <1>2
<1>4. Counts
  BY <1>1, <1>3, PlainCounts DEF Strike
<1>5. CASE ReferralAbove(referral)
           /\ \E names \in SUBSET NsNames(p, referral) : UseZone(referral, {}, names)
  <2>1. Zone \in Above[referral]
    BY <1>3 DEF Lame, Success, IsAnswer
  <2>2. referral \in Above[d] /\ d \in Name
    BY <1>1, <1>5, ZoneFacts DEF ReferralAbove
  <2>3. roots_same(d, referral)
    BY <1>1, <2>1, <2>2, ZoneFacts, Between
  <2>4. NsNames(p, referral) \subseteq Name
    BY PacketRecords, QueryAssumption DEF NsNames
  <2>. QED
    BY <1>1, <1>4, <1>5, <2>2, <2>3, <2>4, UseZoneStep
<1>. QED
  BY <1>1, <1>3, <1>4, <1>5, EndStep, StrikeStep DEF DIE, Hows

LEMMA DqPacketStep ==
  ASSUME InvIn(Server), dq_packet
  PROVE  InvIn(Server)'
<1>0. pc = "wait"
  BY DEF dq_packet, dq_packet_die, dq_packet_lame, dq_packet_cname, dq_packet_nxdomain,
         dq_packet_nodata, dq_packet_answer, dq_packet_referral, Have, Packets
<1>1. CASE dq_packet_die
  <2>1. DIE /\ loop' = loop + 1 /\ UNCHANGED cnames /\ loop' <= maxloop
    BY <1>1, QueryAssumption DEF dq_packet_die, InvIn, TypeIn
  <2>2. Counts
    BY <2>1, QueryAssumption DEF Counts, InvIn, TypeIn
  <2>. QED
    BY <1>0, <2>1, <2>2, EndStep DEF DIE, Hows
<1>2. CASE dq_packet_lame
  <2>1. CountLoop /\ Strike(dt.cur)
    BY <1>2 DEF dq_packet_lame, Have
  <2>2. Counts
    BY <2>1, PlainCounts DEF Strike
  <2>. QED
    BY <1>0, <2>1, <2>2, StrikeStep
<1>3. CASE dq_packet_cname
  <2>1. CountLoop /\ \E p \in Packet : \E target \in Targets(p) : SeeCname(target) /\ CNAME(target)
    BY <1>3 DEF dq_packet_cname, Have
  <2>2. PICK p \in Packet : \E target \in Targets(p) : SeeCname(target) /\ CNAME(target)
    BY <2>1
  <2>3. PICK target \in Targets(p) : SeeCname(target) /\ CNAME(target)
    BY <2>2
  <2>4. target \in Name
    BY PacketRecords, QueryAssumption DEF Targets
  <2>. QED
    BY <1>0, <2>1, <2>3, <2>4, CnameCounts, CNAMEStep
<1>4. CASE dq_packet_nxdomain
  BY <1>0, <1>4, PlainCounts, LowerOrStep DEF dq_packet_nxdomain, Have, Hows
<1>5. CASE dq_packet_nodata
  BY <1>0, <1>5, PlainCounts, TryIpv6Step DEF dq_packet_nodata, Have
<1>6. CASE dq_packet_answer
  <2>1. PICK p \in Packet :
          /\ \/ TakeAddresses(addserver({r.data : r \in Addresses(p)}, findkey(d)))
             \/ Respond("answer")
          /\ UNCHANGED cnames
    BY <1>6 DEF dq_packet_answer
  <2>2. CountLoop
    BY <1>6 DEF dq_packet_answer, Have
  <2>3. {r.data : r \in Addresses(p)} \in SUBSET Addr
    BY PacketRecords, QueryAssumption DEF Addresses
  <2>4. addserver({r.data : r \in Addresses(p)}, findkey(d)) \in SUBSET Server
    BY <1>0, <2>3, ZoneFacts, AddServer, KnownKeys
  <2>. QED
    BY <1>0, <2>1, <2>2, <2>4, PlainCounts, TakeAddressesStep, RespondStep DEF Hows
<1>. QED
  BY <1>1, <1>2, <1>3, <1>4, <1>5, <1>6, DqReferralStep DEF dq_packet

----------------------------------------------------------------------------
(* All steps *)

\* doit counts a loop in every pass through NEWNAME and HAVEPACKET, and waits
\* after it has started an exchange only.
LEMMA DqLoops ==
  ASSUME dq_newname \/ dq_havens \/ dq_failed \/ dq_packet
  PROVE  /\ pc # "idle" /\ (pc' = "wait" => dq_havens_transmit)
         /\ CountLoop \/ pc' = "idle" \/ loop' = loop
<1> USE DEF LowerOr, ToLowerLevel, Respond, DIE, End, TryIpv6, TakeAddresses, CNAME, UseZone, Strike
<1>1. CASE dq_die \/ dq_packet_die
  BY <1>1 DEF dq_die, NEWNAME_die, dq_packet_die, Packets
<1>2. CASE dq_globalip \/ dq_globalip6 \/ dq_localhost \/ dq_cached_nxdomain \/ dq_cached_servfail
  BY <1>2 DEF dq_globalip, dq_globalip6, dq_localhost, dq_cached_nxdomain, dq_cached_servfail,
              Elsewhere, New, NEWNAME
<1>3. CASE dq_cached_cname \/ dq_cached_answer \/ dq_cached_none \/ dq_cached_addresses
  BY <1>3 DEF dq_cached_cname, dq_cached_answer, dq_cached_none, dq_cached_addresses,
              Elsewhere, New, NEWNAME
<1>4. CASE dq_roots \/ dq_cached_ns
  BY <1>4 DEF dq_roots, dq_cached_ns, Elsewhere, New, NEWNAME
<1>5. CASE dq_havens \/ dq_failed
  BY <1>5 DEF dq_havens, dq_havens_up, dq_havens_servfail, dq_havens_die, dq_havens_transmit,
              dq_lowerlevel, HAVENS_up, HAVENS_servfail, HAVENS_die, LOWERLEVEL, HAVENS, dq_failed
<1>6. CASE dq_packet_lame \/ dq_packet_cname \/ dq_packet_nxdomain \/ dq_packet_nodata
  BY <1>6 DEF dq_packet_lame, dq_packet_cname, dq_packet_nxdomain, dq_packet_nodata, Have, Packets
<1>7. CASE dq_packet_answer \/ dq_packet_referral
  BY <1>7 DEF dq_packet_answer, dq_packet_referral, Have, Packets
<1>. QED
  BY <1>1, <1>2, <1>3, <1>4, <1>5, <1>6, <1>7 DEF dq_newname, dq_packet

\* While a query waits its exchange is with the servers of its level about
\* its name.
DqInv == /\ InvIn(Server) /\ Running
         /\ pc = "wait" => Goes(dt, servers[level], d)

LEMMA DqStep == ASSUME DqInv, DqNext PROVE DqInv'
<1> USE DEF DqInv
<1>1. CASE dq_query_start
  <2>1. InvIn(Server)'
    BY <1>1, StartStep DEF dq_query_start
  <2>2. loop' = 0 /\ pc' = "NEWNAME"
    BY <1>1 DEF dq_query_start, query_start
  <2>. QED
    BY <2>1, <2>2, QueryAssumption DEF Running
<1>2. CASE dq_exchange
  <2>1. pc = "wait"
    BY <1>2 DEF dq_exchange
  <2>. QED
    BY <1>2, <2>1, DqExchangeStep
<1>3. CASE dq_newname \/ dq_havens \/ dq_failed \/ dq_packet
  <2>1. InvIn(Server)'
    BY <1>3, DqNewnameStep, DqHavensStep, DqPacketStep
  <2>2. Running'
    BY <1>3, DqLoops, QueryAssumption DEF Running, CountLoop, InvIn, TypeIn
  <2>3. pc' = "wait" => Goes(dt', servers'[level'], d')
    BY <1>3, DqLoops, DqTransmitStep
  <2>. QED
    BY <2>1, <2>2, <2>3
<1>. QED
  BY <1>1, <1>2, <1>3 DEF DqNext

LEMMA DqStutter == ASSUME DqInv, UNCHANGED dqvars PROVE DqInv'
<1> USE DEF dqvars, vars
<1>1. TypeIn(Server)' /\ Named' /\ Running'
  BY DEF DqInv, InvIn, TypeIn, Named, Running
<1>2. ControlInName' /\ AsksInside'
  BY DEF DqInv, InvIn, ControlInName, AsksInside, Settled
<1>3. ChainKept' /\ ResponseFits'
  BY DEF DqInv, InvIn, ChainKept, ChainLinked, ResponseFits
<1>4. pc' = "wait" => Goes(dt', servers'[level'], d')
  BY DEF DqInv, d
<1>. QED
  BY <1>1, <1>2, <1>3, <1>4 DEF DqInv, InvIn

LEMMA DqInductive == DqSpec => []DqInv
<1>1. DqInit => DqInv
  BY InitIInv DEF DqInit, DqInv, Init, Running
<1>2. DqInv /\ [DqNext]_dqvars => DqInv'
  BY DqStep, DqStutter
<1>. QED
  BY <1>1, <1>2, PTL DEF DqSpec

\* What a step of dq leaves in the cache.
LEMMA DqStoredSteps ==
  ASSUME DqNext
  PROVE  \/ stored' = {}
         \/ pc = "wait" /\ \E p : stored' = KeptEntries(p)
         \/ pc = "wait" /\ \E p, t : stored' = KeptEntries(p) \cup Negative(p, t)
         \/ pc = "wait" /\ stored' = {Entry(d, "servfail")}
<1> USE DEF NoPacket
<1>1. CASE dq_query_start \/ dq_newname
  BY <1>1 DEF dq_query_start, query_start, dq_newname, dq_die, NEWNAME_die, dq_globalip, dq_globalip6,
              dq_localhost, dq_cached_nxdomain, dq_cached_servfail, dq_cached_cname, dq_cached_answer,
              dq_cached_none, dq_cached_addresses, dq_roots, dq_cached_ns, Elsewhere, New, NEWNAME
<1>2. CASE dq_havens
  BY <1>2 DEF dq_havens, dq_havens_up, dq_havens_servfail, dq_havens_die, dq_havens_transmit,
              dq_lowerlevel, HAVENS_up, HAVENS_servfail, HAVENS_die, LOWERLEVEL, HAVENS
<1>3. CASE dq_exchange \/ dq_failed
  BY <1>3 DEF dq_exchange, dq_failed
<1>4. CASE dq_packet_die \/ dq_packet_lame \/ dq_packet_cname
  BY <1>4 DEF dq_packet_die, dq_packet_lame, dq_packet_cname, Keep, Have, Packets
<1>5. CASE dq_packet_nxdomain \/ dq_packet_referral
  BY <1>5 DEF dq_packet_nxdomain, dq_packet_referral, Keep, Have, Packets
<1>6. CASE dq_packet_nodata \/ dq_packet_answer
  <2>1. pc = "wait" /\ \E p : KeepAndNodata(p)
    BY <1>6 DEF dq_packet_nodata, dq_packet_answer, Have, Packets
  <2>2. PICK p : KeepAndNodata(p)
    BY <2>1
  <2>3. CASE nodata(p)
    BY <2>1, <2>2, <2>3 DEF KeepAndNodata
  <2>4. CASE ~nodata(p)
    BY <2>1, <2>2, <2>4 DEF KeepAndNodata
  <2>. QED
    BY <2>3, <2>4
<1>. QED
  BY <1>1, <1>2, <1>3, <1>4, <1>5, <1>6 DEF DqNext, dq_packet

\* The entries made from a packet are of the zone asked.
LEMMA KeptFromZone ==
  ASSUME NEW p, NEW e \in KeptEntries(p)
  PROVE  e.zone \in Above[e.owner] /\ roots_same(e.owner, e.zone)
BY DEF KeptEntries, Entry, Kept

----------------------------------------------------------------------------
(* Theorems *)

\* The levels of a query of dq stay in its arrays, its aliases fit, and what
\* is in servers is a server with a key of its own kind.
THEOREM DqTypeOK == DqSpec => []TypeIn(Server)
<1>1. DqInv => TypeIn(Server)
  BY DEF DqInv, InvIn
<1>. QED
  BY <1>1, DqInductive, PTL

\* Zones, servers' files and cache entries keep to what lies below the zone,
\* for every tree of names and files and whatever the servers send: referrals,
\* aliases, negative answers, and the failures that dq remembers.
THEOREM DqInside == DqSpec => []Inside
<1>1. DqInit => StoredFromZone
  BY DEF DqInit, Init, StoredFromZone
<1>2. DqInv /\ StoredFromZone /\ [DqNext]_dqvars => StoredFromZone'
  <2> SUFFICES ASSUME DqInv, StoredFromZone, [DqNext]_dqvars PROVE StoredFromZone'
    OBVIOUS
  <2>1. CASE UNCHANGED dqvars
    BY <2>1 DEF dqvars, vars, StoredFromZone
  <2>2. CASE DqNext
    <3> SUFFICES ASSUME NEW e \in stored'
                 PROVE  e.zone \in Above[e.owner] /\ roots_same(e.owner, e.zone)
      BY DEF StoredFromZone
    <3>1. CASE pc = "wait" /\ e = Entry(d, "servfail")
      <4>1. e.zone = Zone /\ e.owner = d
        BY <3>1 DEF Entry
      <4>. QED
        BY <3>1, <4>1, ZoneFacts DEF DqInv
    <3>. QED
      BY <2>2, <3>1, DqStoredSteps, KeptFromZone, NegativeFromZone DEF DqInv
  <2>. QED
    BY <2>1, <2>2
<1>3. DqInv /\ StoredFromZone => Inside
  BY DEF DqInv, InvIn, Inside
<1>. QED
  BY <1>1, <1>2, <1>3, DqInductive, PTL DEF DqSpec

\* What HAVEPACKET is given comes from a server of this level and was sealed by
\* the holder of the server's key: through all tries, TCP and the changes of
\* server in between.  It answers the name of the level; only if servers with a
\* key and others were asked a second time may it answer what is left of a name
\* that was overwritten.
THEOREM DqAcceptsOwn == DqSpec => []AcceptsOwn
<1>1. DqInv => AcceptsOwn
  <2> SUFFICES ASSUME DqInv, pc = "wait", dt.state = "answered"
               PROVE  /\ dt.got.by = "server" /\ dt.cur \in servers[level]
                      /\ dt.got.question = d \/ (Mixed /\ ~FirstPass /\ dt.got.question = Garbled)
                      /\ dt.cur.kind # 0 => dt.got.box = [pk |-> KeyAt[dt.cur.addr], n |-> 1]
    BY DEF AcceptsOwn
  <2>1. Sound(dt, servers[level], d)
    BY DEF DqInv, Goes
  <2>2. ~Mixed => ~Both(servers[level])
    BY <2>1 DEF Mixed, Both, Sound
  <2>3. FirstPass => First(dt)
    BY DEF FirstPass, First, Round1
  <2>4. dt.got.question = dt.name /\ dt.name \in {d, Garbled}
    BY <2>1 DEF Sound
  <2>5. ~Mixed \/ FirstPass => dt.name = d
    BY <2>1, <2>2, <2>3 DEF Sound
  <2>. QED
    BY <2>1, <2>4, <2>5 DEF Sound
<1>. QED
  BY <1>1, DqInductive, PTL

\* Responses of dq repeat the question and a linked chain of aliases (rqa).
THEOREM DqResponse == DqSpec => []ResponseFits
<1>1. DqInv => ResponseFits
  BY DEF DqInv, InvIn
<1>. QED
  BY <1>1, DqInductive, PTL

----------------------------------------------------------------------------
(* Nonces *)

NonceTypeOK ==
  /\ wall \in Nat /\ boots \in Nat /\ made \in Nat /\ setback \in BOOLEAN
  /\ running \subseteq Process
  /\ noncecounter \in [Process -> Nat] /\ boot \in [Process -> Nat]

\* A nonce is what its process made it, after one of its starts.
Made(a) ==
  /\ a.by \in Process /\ a.boot \in 1..boot[a.by] /\ a.counter \in Nat
  /\ a.serial \in Nat /\ a.serial < made
  /\ a.key = SeedOf(a.by, a.boot)
  /\ \A i \in 1..Bits : i <= Len(NonceStart[a.by]) => a.first[i] = NonceStart[a.by][i]

\* A process that runs is the last one started; nobody is ahead of the clock
\* as long as it is not set back, and no nonce ahead of its process.
Clocks ==
  /\ \A p \in Process : boot[p] <= boots
  /\ \A p \in running : boot[p] >= 1
  /\ ~setback => \A p \in Process : noncecounter[p] <= wall
  /\ \A a \in used : a.boot = boot[a.by] => a.counter <= noncecounter[a.by]
  /\ ~setback => \A a \in used : a.counter <= wall

\* The counters of a process grow, those of its later starts unless the clock
\* was set back.
Grows ==
  /\ \A a, b \in used : a.serial = b.serial => a = b
  /\ \A a, b \in used :
       (a.serial < b.serial /\ a.by = b.by /\ (setback => a.boot = b.boot)) => a.counter < b.counter

NonceInv == NonceTypeOK /\ (\A a \in used : Made(a)) /\ Clocks /\ Grows

LEMMA NonceInitial == NonceInit => NonceInv
<1> SUFFICES ASSUME NonceInit PROVE NonceInv
  OBVIOUS
<1>1. NonceTypeOK
  BY DEF NonceInit, NonceTypeOK
<1>2. used = {} /\ Clocks /\ Grows
  BY DEF NonceInit, Clocks, Grows
<1> QED
  BY <1>1, <1>2 DEF NonceInv

\* A step that makes no nonce keeps what the nonces have in common.
LEMMA NonceQuiet ==
  ASSUME NonceInv, UNCHANGED <<used, made>>, NonceTypeOK', setback => setback',
         \A p \in Process : boot'[p] >= boot[p]
  PROVE  (\A a \in used : Made(a))' /\ Grows'
<1>1. ASSUME NEW a \in used' PROVE Made(a)'
  <2>1. Made(a) /\ boot[a.by] \in Nat /\ boot'[a.by] \in Nat /\ boot'[a.by] >= boot[a.by]
    BY <1>1 DEF NonceInv, NonceTypeOK, Made
  <2>2. a.boot \in 1..boot'[a.by]
    BY <2>1 DEF Made
  <2> QED
    BY <2>1, <2>2 DEF Made
<1>2. Grows'
  BY DEF NonceInv, Grows
<1> QED
  BY <1>1, <1>2

LEMMA InitStep ==
  ASSUME NonceInv, NEW p \in Process, dns_nonce_init(p)
  PROVE  NonceInv'
<1> USE DEF dns_nonce_init, Passes
<1>1. NonceTypeOK'
  BY DEF NonceInv, NonceTypeOK
<1>2. /\ boot \in [Process -> Nat] /\ boots \in Nat /\ wall \in Nat /\ boot[p] <= boots
      /\ noncecounter \in [Process -> Nat]
  BY DEF NonceInv, NonceTypeOK, Clocks
<1>3. boot'[p] = boots + 1 /\ \A q \in Process : q # p => boot'[q] = boot[q]
  BY <1>2
<1>4. noncecounter'[p] = wall /\ \A q \in Process : q # p => noncecounter'[q] = noncecounter[q]
  BY <1>2
<1>5. (\A a \in used : Made(a))' /\ Grows'
  BY <1>1, <1>2, <1>3, NonceQuiet
<1>6. Clocks'
  <2>1. \A q \in Process : boot'[q] <= boots' /\ (q \in running' => boot'[q] >= 1)
    BY <1>2, <1>3 DEF NonceInv, Clocks
  <2>2. ~setback' => \A q \in Process : noncecounter'[q] <= wall'
    BY <1>2, <1>4 DEF NonceInv, Clocks
  <2>3. ASSUME NEW a \in used'
        PROVE  /\ a.boot = boot'[a.by] => a.counter <= noncecounter'[a.by]
               /\ ~setback' => a.counter <= wall'
    <3>1. a \in used /\ Made(a) /\ a.by \in Process /\ a.boot \in Nat /\ a.boot <= boot[a.by] /\ a.counter \in Nat
      BY <2>3, <1>2 DEF NonceInv, Made
    <3>2. ~setback' => a.counter <= wall'
      BY <3>1, <1>2 DEF NonceInv, Clocks
    <3>3. CASE a.by = p
      BY <3>1, <3>2, <3>3, <1>2, <1>3
    <3>4. CASE a.by # p
      BY <3>1, <3>2, <3>4, <1>3, <1>4 DEF NonceInv, Clocks
    <3> QED
      BY <3>3, <3>4
  <2>4. running' \subseteq Process
    BY <1>1 DEF NonceTypeOK
  <2> QED
    BY <2>1, <2>2, <2>3, <2>4 DEF Clocks
<1> QED
  BY <1>1, <1>5, <1>6 DEF NonceInv

\* The bits asked for are in the first byte, whatever the random one is.
LEMMA FirstByteBits ==
  ASSUME NEW p \in Process, NEW r \in RandomByte, NEW i \in 1..Bits, i <= Len(NonceStart[p])
  PROVE  FirstByte(p, r)[i] = NonceStart[p][i]
<1>1. NonceStart[p] \in Seq({0, 1}) /\ Bits \in Nat
  BY NonceAssumption
<1>2. noncemask(NonceStart[p])[i] = 0 /\ noncedata(NonceStart[p])[i] = NonceStart[p][i]
  BY <1>1 DEF noncemask, noncedata
<1>3. NonceStart[p][i] \in {0, 1} /\ r[i] \in {0, 1}
  BY <1>1 DEF RandomByte
<1>4. FirstByte(p, r)[i] = r[i] * noncemask(NonceStart[p])[i] + noncedata(NonceStart[p])[i]
  BY DEF FirstByte
<1> QED
  BY <1>2, <1>3, <1>4

LEMMA NonceStep ==
  ASSUME NonceInv, NEW p \in Process, NEW r \in RandomByte, dns_nonce(p, r)
  PROVE  NonceInv'
<1> DEFINE c == Counter(p) + 1
           n == [by |-> p, boot |-> boot[p], key |-> SeedOf(p, boot[p]), serial |-> made,
                 first |-> FirstByte(p, r), counter |-> c]
<1>1. /\ wall \in Nat /\ boots \in Nat /\ made \in Nat /\ setback \in BOOLEAN
      /\ noncecounter \in [Process -> Nat] /\ boot \in [Process -> Nat] /\ running \subseteq Process
  BY DEF NonceInv, NonceTypeOK
<1>2. /\ used' = used \cup {n} /\ made' = made + 1 /\ wall' = wall + 1 /\ p \in running
      /\ noncecounter' = [noncecounter EXCEPT ![p] = c]
      /\ UNCHANGED <<running, boots, boot, setback>>
  BY DEF dns_nonce, Passes
<1>3. c \in Nat /\ c > wall /\ c > noncecounter[p] /\ (~setback => c <= wall + 1)
  <2>1. noncecounter[p] \in Nat /\ (~setback => noncecounter[p] <= wall)
    BY <1>1 DEF NonceInv, Clocks
  <2> QED
    BY <1>1, <2>1 DEF Counter
<1>4. boot[p] >= 1 /\ boot[p] \in Nat
  BY <1>1, <1>2 DEF NonceInv, Clocks
<1>5. /\ n.by = p /\ n.boot = boot[p] /\ n.key = SeedOf(p, boot[p]) /\ n.serial = made
      /\ n.first = FirstByte(p, r) /\ n.counter = c
  OBVIOUS
<1> HIDE DEF n, c
<1>6. noncecounter'[p] = c /\ \A q \in Process : q # p => noncecounter'[q] = noncecounter[q]
  BY <1>1, <1>2
<1>7. NonceTypeOK'
  BY <1>1, <1>2, <1>3 DEF NonceTypeOK
<1>8. ASSUME NEW a \in used'
      PROVE  Made(a)'
  <2>1. CASE a \in used
    <3>1. Made(a)
      BY <2>1 DEF NonceInv
    <3> QED
      BY <3>1, <1>1, <1>2, SMTT(40) DEF Made
  <2>2. CASE a = n
    <3>1. \A i \in 1..Bits : i <= Len(NonceStart[p]) => n.first[i] = NonceStart[p][i]
      BY <1>5, FirstByteBits
    <3>2. n.boot \in 1..boot'[p] /\ n.serial \in Nat /\ n.serial < made'
      BY <1>1, <1>2, <1>4, <1>5
    <3> QED
      BY <2>2, <3>1, <3>2, <1>3, <1>5 DEF Made
  <2> QED
    BY <2>1, <2>2, <1>2
<1>9. Clocks'
  <2>1. /\ \A q \in Process : boot'[q] <= boots'
        /\ \A q \in running' : boot'[q] >= 1
    BY <1>2 DEF NonceInv, Clocks
  <2>2. ~setback' => \A q \in Process : noncecounter'[q] <= wall'
    BY <1>1, <1>2, <1>3, <1>6 DEF NonceInv, Clocks
  <2>3. ASSUME NEW a \in used'
        PROVE  /\ a.boot = boot'[a.by] => a.counter <= noncecounter'[a.by]
               /\ ~setback' => a.counter <= wall'
    <3>1. CASE a = n
      BY <3>1, <1>1, <1>2, <1>3, <1>5, <1>6
    <3>2. CASE a \in used
      <4>1. /\ a.by \in Process /\ a.counter \in Nat /\ noncecounter[a.by] \in Nat
            /\ (~setback => a.counter <= wall)
            /\ (a.boot = boot[a.by] => a.counter <= noncecounter[a.by])
        BY <3>2, <1>1 DEF NonceInv, Clocks, Made
      <4>2. CASE a.by = p
        BY <4>1, <4>2, <1>1, <1>2, <1>3, <1>6
      <4>3. CASE a.by # p
        BY <4>1, <4>3, <1>1, <1>2, <1>6
      <4> QED
        BY <4>2, <4>3
    <3> QED
      BY <3>1, <3>2, <1>2
  <2> QED
    BY <2>1, <2>2, <2>3 DEF Clocks
<1>10. Grows'
  <2>1. \A a \in used : a.serial \in Nat /\ a.serial < made
    BY DEF NonceInv, Made
  <2>2. ASSUME NEW a \in used', NEW b \in used', a.serial = b.serial
        PROVE  a = b
    BY <2>1, <2>2, <1>1, <1>2, <1>5 DEF NonceInv, Grows
  <2>3. ASSUME NEW a \in used', NEW b \in used',
               a.serial < b.serial, a.by = b.by, setback' => a.boot = b.boot
        PROVE  a.counter < b.counter
    <3>1. CASE a \in used /\ b \in used
      BY <2>3, <3>1, <1>2 DEF NonceInv, Grows
    <3>2. CASE a \in used /\ b = n
      <4>1. /\ a.by = p /\ a.counter \in Nat /\ (~setback => a.counter <= wall)
            /\ (a.boot = boot[p] => a.counter <= noncecounter[p]) /\ noncecounter[p] \in Nat
        BY <2>3, <3>2, <1>1, <1>5 DEF NonceInv, Clocks, Made
      <4>2. setback => a.boot = boot[p]
        BY <2>3, <3>2, <1>2, <1>5
      <4> QED
        BY <4>1, <4>2, <3>2, <1>1, <1>3, <1>5
    <3>3. CASE a = n
      BY <2>1, <2>3, <3>3, <1>1, <1>2, <1>5
    <3> QED
      BY <3>1, <3>2, <3>3, <1>2
  <2> QED
    BY <2>2, <2>3 DEF Grows
<1> QED
  BY <1>7, <1>8, <1>9, <1>10 DEF NonceInv

LEMMA NonceInductive == NonceInv /\ [NonceNext]_nonce_vars => NonceInv'
<1> SUFFICES ASSUME NonceInv, [NonceNext]_nonce_vars PROVE NonceInv'
  OBVIOUS
<1>1. CASE \E p \in Process : dns_nonce_init(p)
  BY <1>1, InitStep
<1>2. CASE \E p \in Process, r \in RandomByte : dns_nonce(p, r)
  BY <1>2, NonceStep
<1>3. CASE \E p \in Process : Ends(p)
  <2>1. /\ running' \subseteq running
        /\ UNCHANGED <<wall, noncecounter, boots, boot, used, made, setback>>
    BY <1>3 DEF Ends
  <2>2. NonceTypeOK'
    BY <2>1 DEF NonceInv, NonceTypeOK
  <2>3. \A p \in Process : boot'[p] >= boot[p]
    BY <2>1 DEF NonceInv, NonceTypeOK
  <2>4. (\A a \in used : Made(a))' /\ Grows'
    BY <2>1, <2>2, <2>3, NonceQuiet
  <2>5. Clocks'
    BY <2>1 DEF NonceInv, Clocks
  <2> QED
    BY <2>2, <2>4, <2>5 DEF NonceInv
<1>4. CASE nanoseconds
  <2>1. wall' = wall + 1 /\ UNCHANGED <<running, noncecounter, boots, boot, used, made, setback>>
    BY <1>4 DEF nanoseconds, Passes
  <2>2. NonceTypeOK'
    BY <2>1 DEF NonceInv, NonceTypeOK
  <2>3. \A p \in Process : boot'[p] >= boot[p]
    BY <2>1 DEF NonceInv, NonceTypeOK
  <2>4. (\A a \in used : Made(a))' /\ Grows'
    BY <2>1, <2>2, <2>3, NonceQuiet
  <2>5. /\ wall \in Nat /\ noncecounter \in [Process -> Nat]
        /\ \A a \in used : a.counter \in Nat
    BY DEF NonceInv, NonceTypeOK, Made
  <2>6. Clocks'
    BY <2>1, <2>5 DEF NonceInv, Clocks
  <2> QED
    BY <2>2, <2>4, <2>6 DEF NonceInv
<1>5. CASE SetBack
  <2>1. wall' \in 1..(wall - 1) /\ setback' = TRUE /\ UNCHANGED <<running, noncecounter, boots, boot, used, made>>
    BY <1>5 DEF SetBack
  <2>2. NonceTypeOK'
    BY <2>1 DEF NonceInv, NonceTypeOK
  <2>3. \A p \in Process : boot'[p] >= boot[p]
    BY <2>1 DEF NonceInv, NonceTypeOK
  <2>4. (\A a \in used : Made(a))' /\ Grows'
    BY <2>1, <2>2, <2>3, NonceQuiet
  <2>5. Clocks'
    BY <2>1 DEF NonceInv, Clocks
  <2> QED
    BY <2>2, <2>4, <2>5 DEF NonceInv
<1>6. CASE UNCHANGED nonce_vars
  BY <1>6 DEF nonce_vars, NonceInv, NonceTypeOK, Made, Clocks, Grows
<1> QED
  BY <1>1, <1>2, <1>3, <1>4, <1>5, <1>6 DEF NonceNext

\* Keys that agree are of one process, or of two that share a secret key.
LEMMA SeedsShared ==
  ASSUME NEW p, NEW q, p # q, NEW m \in Nat \ {0}, NEW n \in Nat \ {0}, SeedOf(p, m) = SeedOf(q, n)
  PROVE  p \in DOMAIN SecretKey /\ q \in DOMAIN SecretKey /\ SecretKey[p] = SecretKey[q]
  BY DEF SeedOf

LEMMA NonceInvOnce == NonceInv => NonceOnce
<1> SUFFICES ASSUME NonceInv, NEW a \in used, NEW b \in used, a # b, a.key = b.key,
                    setback => a.by # b.by \/ a.boot = b.boot
             PROVE  a.first # b.first \/ a.counter # b.counter
  BY DEF NonceOnce
<1>1. /\ Made(a) /\ Made(b) /\ boot \in [Process -> Nat]
      /\ a.serial \in Nat /\ b.serial \in Nat /\ a.serial # b.serial
  BY DEF NonceInv, NonceTypeOK, Made, Grows
<1>2. CASE a.by = b.by
  <2>1. a.counter < b.counter \/ b.counter < a.counter
    BY <1>1, <1>2 DEF NonceInv, Grows
  <2>2. a.counter \in Nat /\ b.counter \in Nat
    BY <1>1 DEF Made
  <2> QED
    BY <2>1, <2>2
<1>3. CASE a.by # b.by
  <2>1. a.by \in Process /\ b.by \in Process /\ a.boot \in Nat \ {0} /\ b.boot \in Nat \ {0}
    BY <1>1 DEF Made
  <2>2. SeedOf(a.by, a.boot) = SeedOf(b.by, b.boot)
    BY <1>1 DEF Made
  <2>3. /\ a.by \in DOMAIN SecretKey /\ b.by \in DOMAIN SecretKey
        /\ SecretKey[a.by] = SecretKey[b.by]
    BY <1>3, <2>1, <2>2, SeedsShared
  <2>4. PICK i \in 1..Bits : /\ i <= Len(NonceStart[a.by]) /\ i <= Len(NonceStart[b.by])
                             /\ NonceStart[a.by][i] # NonceStart[b.by][i]
    BY <1>3, <2>1, <2>3, NonceAssumption
  <2>5. a.first[i] = NonceStart[a.by][i] /\ b.first[i] = NonceStart[b.by][i]
    BY <1>1, <2>4 DEF Made
  <2> QED
    BY <2>4, <2>5
<1> QED
  BY <1>2, <1>3

\* No nonce is used twice with a key: by one process, by several that share
\* the key, or by one started again unless the clock was set back (dns_nonce,
\* dns_nonce_init).
THEOREM NonceNeverTwice == NonceSpec => []NonceOnce
<1>1. NonceSpec => []NonceInv
  BY NonceInitial, NonceInductive, PTL DEF NonceSpec
<1> QED
  BY <1>1, NonceInvOnce, PTL
=============================================================================
