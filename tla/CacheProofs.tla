---------------------------- MODULE CacheProofs ----------------------------
(***************************************************************************)
(* Machine-checked safety of cache.c for every set of keys and data, every *)
(* cache size, every hash and every sequence of calls.                     *)
(***************************************************************************)
EXTENDS Cache, TLAPS, FiniteSetTheorems, SequenceTheorems

----------------------------------------------------------------------------
(* Lengths and buckets *)

\* An entry is longer than its header, so stepping over one makes progress.
LEMMA EntryLenPositive ==
  ASSUME NEW k \in Key, NEW d \in Data
  PROVE  EntryLen(k, d) \in Nat /\ EntryLen(k, d) >= 20
BY LenAssumption DEF EntryLen, HEADER

\* Entries are at positions and end behind their header.
LEMMA EntryFacts ==
  ASSUME TypeOK
  PROVE  /\ Live \subseteq Nat
         /\ \A p \in Live :
              /\ End(p) \in Nat /\ End(p) >= p + 20
              /\ ent[p] \in [key : Key, data : Data, expire : Nat, link : SUBSET Nat]
<1>1. /\ Live \subseteq Nat
      /\ \A p \in Live : ent[p] \in [key : Key, data : Data, expire : Nat, link : SUBSET Nat]
  BY DEF TypeOK
<1>2. ASSUME NEW p \in Live
      PROVE  End(p) \in Nat /\ End(p) >= p + 20
  <2>1. /\ EntryLen(ent[p].key, ent[p].data) \in Nat
        /\ EntryLen(ent[p].key, ent[p].data) >= 20
    BY <1>1, EntryLenPositive
  <2> QED
    BY <1>1, <2>1 DEF End
<1> QED
  BY <1>1, <1>2

\* The hash is the position of a head link.
LEMMA HashIsBucket ==
  ASSUME NEW k \in Key, siphash \in [Key -> Nat], hsize \in Nat, hsize >= 4
  PROVE  hash(k) \in Buckets
<1> DEFINE m == siphash[k] % hsize
<1>1. siphash[k] \in Nat
  OBVIOUS
<1>2. m \in 0..(hsize - 1)
  BY <1>1, SMT
<1>. HIDE DEF m
<1>3. /\ (m \div 4) * 4 \in 0..(hsize - 1)
      /\ ((m \div 4) * 4) % 4 = 0
  BY <1>2, SMT
<1> QED
  BY <1>3 DEF hash, Buckets, m

----------------------------------------------------------------------------
(* The ring *)

\* While cache_init looks for hsize.
Sizing == pc = "size" => /\ ~x
                         /\ MINSIZE <= size /\ size <= MAXSIZE
                         /\ 4 <= hsize /\ hsize <= size \div 16

RingIInv == TypeOK /\ Sizing /\ RingInv /\ Tiled

LEMMA RingInit == Init => RingIInv
<1> SUFFICES ASSUME Init PROVE RingIInv
  OBVIOUS
<1>1. Live = {}
  BY DEF Init, Nothing, Live
<1>2. TypeOK
  BY <1>1, NumAssumption DEF Init, TypeOK, Live, Nothing
<1>3. Sizing /\ RingInv
  BY DEF Init, Sizing, RingInv
<1>4. Tiled
  BY <1>1 DEF Init, Tiled
<1> QED
  BY <1>2, <1>3, <1>4 DEF RingIInv

\* A step that leaves the memory alone leaves its layout alone.
LEMMA RingFrame ==
  ASSUME RingIInv, UNCHANGED <<x, siphash, ring, ent, head>>, pc' # "size" \/ pc' = pc
  PROVE  Sizing' /\ RingInv' /\ Tiled'
<1> USE DEF ring
<1>1. Live' = Live /\ \A p : End(p)' = End(p)
  BY DEF Live, End, EntryLen
<1>2. Sizing' /\ RingInv'
  BY DEF RingIInv, Sizing, RingInv
<1>3. Tiled'
  BY <1>1 DEF RingIInv, Tiled
<1> QED
  BY <1>2, <1>3

\* cache_init keeps the ring: it empties it, then sizes it, then lays it out.
LEMMA RingCacheInit ==
  ASSUME RingIInv, cache_init
  PROVE  RingIInv'
<1> USE DEF RingIInv
<1>1. CASE cache_init_start
  <2>1. Live' = {} /\ ~x'
    BY <1>1 DEF cache_init_start, Live, Nothing
  <2>2. PICK n \in CacheSizes : size' = Clamp(n) /\ hsize' = 4
    BY <1>1 DEF cache_init_start
  <2>3. n \in Nat
    BY NumAssumption
  <2>4. size' \in Nat /\ MINSIZE <= size' /\ size' <= MAXSIZE
    BY <2>2, <2>3 DEF Clamp, MINSIZE, MAXSIZE
  <2>5. siphash' \in [Key -> Nat]
    BY <1>1, NumAssumption DEF cache_init_start
  <2>6. TypeOK'
    BY <1>1, <2>1, <2>2, <2>4, <2>5 DEF cache_init_start, TypeOK, Live, Nothing
  <2>7. Sizing' /\ RingInv'
    BY <2>1, <2>2, <2>4 DEF Sizing, RingInv, MINSIZE, MAXSIZE
  <2>8. Tiled'
    BY <2>1 DEF Tiled
  <2> QED
    BY <2>6, <2>7, <2>8
<1>2. CASE cache_init_double
  <2>1. Live' = Live /\ Live = {} /\ ~x'
    BY <1>2 DEF cache_init_double, Live, Sizing, Tiled
  <2>2. size \in Nat /\ hsize \in Nat /\ hsize <= size \div 32 /\ hsize' = 2 * hsize /\ size' = size
    BY <1>2 DEF cache_init_double, TypeOK
  <2>3. hsize' \in Nat /\ hsize' <= size \div 16
    BY <2>2, SMT
  <2>4. TypeOK'
    BY <1>2, <2>1, <2>3 DEF cache_init_double, TypeOK, Live
  <2>5. Sizing' /\ RingInv'
    BY <1>2, <2>1, <2>2, <2>3 DEF cache_init_double, Sizing, RingInv
  <2>6. Tiled'
    BY <2>1 DEF Tiled
  <2> QED
    BY <2>4, <2>5, <2>6
<1>3. CASE cache_init_alloc
  <2>1. Live' = Live /\ Live = {} /\ ~x
    BY <1>3 DEF cache_init_alloc, Live, Sizing, Tiled
  <2>2. /\ MINSIZE <= size /\ size <= MAXSIZE /\ size \in Nat /\ hsize \in Nat
        /\ 4 <= hsize /\ hsize <= size \div 16
    BY <1>3 DEF cache_init_alloc, Sizing, TypeOK
  <2>3. hsize <= size
    BY <2>2, SMT
  <2>4. CASE x' = TRUE /\ head' = [b \in Buckets |-> {}] /\ writer' = hsize
             /\ oldest' = size /\ unused' = size
    <3>1. head' \in [Buckets' -> SUBSET Nat]
      BY <1>3, <2>4 DEF cache_init_alloc, Buckets
    <3>2. TypeOK'
      BY <1>3, <2>1, <2>4, <3>1 DEF cache_init_alloc, TypeOK, Live
    <3>3. Sizing' /\ RingInv'
      BY <1>3, <2>2, <2>3, <2>4 DEF cache_init_alloc, Sizing, RingInv
    <3>4. Tiled'
      BY <1>3, <2>1, <2>2, <2>4 DEF cache_init_alloc, Tiled
    <3> QED
      BY <3>2, <3>3, <3>4
  <2>5. CASE UNCHANGED <<x, head, writer, oldest, unused>>
    <3>1. ~x'
      BY <2>1, <2>5
    <3>2. TypeOK'
      BY <1>3, <2>1, <2>5 DEF cache_init_alloc, TypeOK, Live
    <3>3. Sizing' /\ RingInv' /\ Tiled'
      BY <1>3, <2>1, <3>1 DEF cache_init_alloc, Sizing, RingInv, Tiled
    <3> QED
      BY <3>2, <3>3
  <2> QED
    BY <1>3, <2>4, <2>5 DEF cache_init_alloc
<1> QED
  BY <1>1, <1>2, <1>3 DEF cache_init

\* A link decodes to a position or to nothing.
LEMMA PosType ==
  ASSUME NEW l \in SUBSET Nat
  PROVE  /\ Pos(l) \in Int
         /\ \A a \in Nat : l = Bits(a) => Pos(l) = a
<1>1. CASE l = {}
  BY <1>1 DEF Pos, Bits
<1>2. CASE l # {} /\ \E p \in l : l = {p}
  <2>1. PICK p \in l : l = {p}
    BY <1>2
  <2>2. Pos(l) = p
    BY <1>2, <2>1 DEF Pos
  <2> QED
    BY <2>1, <2>2 DEF Bits
<1>3. CASE l # {} /\ ~\E p \in l : l = {p}
  BY <1>3 DEF Pos, Bits
<1> QED
  BY <1>1, <1>2, <1>3

\* cache_get only reads: its steps leave the ring as it is.
LEMMA RingCacheGet ==
  ASSUME RingIInv, cache_get
  PROVE  RingIInv'
<1> USE DEF RingIInv, ring
<1>1. /\ UNCHANGED <<x, siphash, ring, ent, head, arg, now>>
      /\ pc' # "size" \/ pc' = pc
  BY DEF cache_get, cache_get_refuse, cache_get_start, cache_get_end,
         cache_get_found, cache_get_pass, Return
<1>2. Live' = Live /\ Buckets' = Buckets
  BY <1>1 DEF Live, Buckets
<1>3. ASSUME NEW k \in Key
      PROVE  Miss(k) \in [key : Key, data : Data \cup {None}, ttl : 0..MaxTTL]
  BY NumAssumption DEF Miss
<1>4. CASE cache_get_refuse
  BY <1>1, <1>2, <1>3, <1>4, RingFrame DEF cache_get_refuse, TypeOK
<1>5. CASE cache_get_start
  <2>1. PICK k \in Key : x /\ get' = [key |-> k, prev |-> hash(k), pos |-> Pos(head[hash(k)]), loop |-> 0]
    BY <1>5 DEF cache_get_start
  <2>2. hash(k) \in Buckets
    BY <2>1, HashIsBucket DEF TypeOK, RingInv
  <2>3. hash(k) \in Nat
    BY <2>2 DEF Buckets, TypeOK
  <2>4. Pos(head[hash(k)]) \in Int
    BY <2>1, <2>2, PosType DEF TypeOK
  <2>5. get' \in [key : Key, prev : Nat, pos : Int, loop : 0..MaxLoop]
    BY <2>1, <2>3, <2>4, NumAssumption
  <2> QED
    BY <1>1, <1>2, <1>5, <2>1, <2>5, RingFrame DEF cache_get_start, TypeOK
<1>6. CASE cache_get_end
  <2>1. get.key \in Key
    BY <1>6 DEF cache_get_end, TypeOK
  <2> QED
    BY <1>1, <1>2, <1>3, <1>6, <2>1, RingFrame DEF cache_get_end, Return, TypeOK
<1>7. CASE cache_get_found
  <2> DEFINE e == ent[get.pos]
  <2>1. get.key \in Key /\ get.pos \in Live
    BY <1>7 DEF cache_get_found, KeyMatches, TypeOK
  <2>2. e.expire \in Nat /\ e.data \in Data /\ now \in Nat
    BY <2>1 DEF TypeOK
  <2>3. ~(e.expire < now) => Min2(e.expire - now, MaxTTL) \in 0..MaxTTL
    BY <2>2, NumAssumption DEF Min2
  <2>4. ret' \in [key : Key, data : Data \cup {None}, ttl : 0..MaxTTL]
    BY <1>3, <1>7, <2>1, <2>2, <2>3 DEF cache_get_found, Return, Expired
  <2> QED
    BY <1>1, <1>2, <1>7, <2>4, RingFrame DEF cache_get_found, Return, TypeOK
<1>8. CASE cache_get_pass
  <2>1. /\ get \in [key : Key, prev : Nat, pos : Int, loop : 0..MaxLoop]
        /\ x
    BY <1>8 DEF cache_get_pass, TypeOK
  <2>2. CASE get.pos \notin Live
    BY <1>1, <1>2, <1>8, <2>2, RingFrame DEF cache_get_pass, TypeOK
  <2>3. CASE get.pos \in Live /\ get.loop + 1 > MaxLoop
    BY <1>1, <1>2, <1>3, <1>8, <2>1, <2>3, RingFrame DEF cache_get_pass, Return, TypeOK
  <2>4. CASE get.pos \in Live /\ ~(get.loop + 1 > MaxLoop)
    <3>1. Xor(Bits(get.prev), ent[get.pos].link) \in SUBSET Nat
      BY <2>1, <2>4 DEF Xor, Bits, TypeOK
    <3> DEFINE nextpos == Pos(Xor(Bits(get.prev), ent[get.pos].link))
    <3>2. nextpos \in Int /\ get.pos \in Nat /\ get.loop + 1 \in 0..MaxLoop
      BY <2>1, <2>4, <3>1, PosType, NumAssumption DEF TypeOK
    <3>3. get' = [get EXCEPT !.prev = get.pos, !.pos = nextpos, !.loop = get.loop + 1]
      BY <1>8, <2>4 DEF cache_get_pass, NextItem
    <3>. HIDE DEF nextpos
    <3>4. get' \in [key : Key, prev : Nat, pos : Int, loop : 0..MaxLoop]
      BY <2>1, <3>2, <3>3
    <3> QED
      BY <1>1, <1>2, <1>8, <2>1, <2>4, <3>4, RingFrame DEF cache_get_pass, TypeOK
  <2> QED
    BY <2>2, <2>3, <2>4
<1> QED
  BY <1>4, <1>5, <1>6, <1>7, <1>8 DEF cache_get

\* One turn of the eviction loop: the victim is an entry that ends where the
\* next one begins, so the ring stays ordered and tiled.
LEMMA RingEvict ==
  ASSUME RingIInv, cache_set_evict
  PROVE  RingIInv'
<1> DEFINE wrap   == oldest = unused
           victim == IF wrap THEN hsize ELSE oldest
           limit  == IF wrap THEN writer ELSE unused
           good   == /\ victim \in Live
                     /\ Pos(ent[victim].link) \in Live \cup Buckets
                     /\ End(victim) <= limit
<1>0. /\ pc = "set" /\ ~(oldest = unused /\ writer <= hsize)
      /\ UNCHANGED <<x, siphash, size, hsize, arg, get, now>>
      /\ x
  BY DEF RingIInv, cache_set_evict, TypeOK
<1>1. CASE ~good
  <2>1. pc' = "impossible" /\ UNCHANGED <<head, ent, writer, oldest, unused, ret>>
    BY <1>1 DEF cache_set_evict
  <2>2. TypeOK'
    BY <1>0, <2>1 DEF RingIInv, TypeOK, Live, Buckets
  <2> QED
    BY <1>0, <2>1, <2>2, RingFrame DEF ring, RingIInv
<1>2. CASE good
  <2>1. /\ Unlink(victim)
        /\ writer' = IF wrap THEN hsize ELSE writer
        /\ oldest' = IF End(victim) = limit THEN size ELSE End(victim)
        /\ unused' = IF End(victim) = limit THEN size ELSE limit
        /\ ret' = None /\ pc' = "set"
    BY <1>0, <1>2 DEF cache_set_evict, PastVictim
  <2>2. /\ size \in Nat /\ hsize \in Nat /\ writer \in Nat /\ oldest \in Nat /\ unused \in Nat
        /\ 4 <= hsize /\ hsize <= writer /\ writer <= oldest /\ oldest <= unused
        /\ unused <= size /\ (oldest = unused => unused = size)
        /\ MINSIZE <= size /\ size <= MAXSIZE /\ hsize <= size \div 16
    BY <1>0 DEF RingIInv, TypeOK, RingInv
  <2>3. Live \subseteq Nat
        /\ \A p \in Live : /\ End(p) \in Nat /\ End(p) >= p + 20
                           /\ ent[p] \in [key : Key, data : Data, expire : Nat, link : SUBSET Nat]
    BY EntryFacts DEF RingIInv
  <2>4. Live' = Live \ {victim} /\ DOMAIN ent' = Live \ {victim}
    BY <2>1 DEF Unlink, Live
  <2>5. \A p \in Live' : /\ ent'[p].key = ent[p].key /\ ent'[p].data = ent[p].data
                         /\ ent'[p] \in [key : Key, data : Data, expire : Nat, link : SUBSET Nat]
    BY <1>2, <2>1, <2>3, <2>4 DEF Unlink, Xor, Bits
  <2>6. \A p \in Live' : End(p)' = End(p)
    BY <2>5 DEF End, EntryLen
  <2>7. head' \in [Buckets' -> SUBSET Nat]
    BY <1>0, <1>2, <2>1, <2>3 DEF RingIInv, TypeOK, Unlink, Xor, Bits, Buckets
  <2>8. ent' \in [Live' -> [key : Key, data : Data, expire : Nat, link : SUBSET Nat]]
    BY <2>1, <2>4, <2>5 DEF Unlink
  <2>9. /\ hsize <= writer' /\ writer' <= oldest' /\ oldest' <= unused' /\ unused' <= size
        /\ (oldest' = unused' => unused' = size)
        /\ writer' \in Nat /\ oldest' \in Nat /\ unused' \in Nat
    BY <1>0, <1>2, <2>1, <2>2, <2>3
  <2>10. TypeOK'
    BY <1>0, <2>1, <2>3, <2>4, <2>7, <2>8, <2>9 DEF RingIInv, TypeOK
  <2>11. Sizing' /\ RingInv'
    BY <1>0, <2>1, <2>2, <2>9 DEF Sizing, RingInv
  <2>12. Tiled'
    <3>1. \A p, r \in Live : p < r => End(p) <= r
      BY DEF RingIInv, Tiled
    <3>2. \A p \in Live :
            \/ hsize <= p /\ (End(p) = writer \/ (End(p) < writer /\ End(p) \in Live))
            \/ oldest <= p /\ (End(p) = unused \/ (End(p) < unused /\ End(p) \in Live))
      BY DEF RingIInv, Tiled
    <3>3. /\ x /\ writer > hsize => hsize \in Live
          /\ x /\ oldest < unused => oldest \in Live
      BY DEF RingIInv, Tiled
    <3>4. x' /\ writer' > hsize' => hsize' \in Live'
      BY <1>0, <1>2, <2>1, <2>2, <2>4, <3>3
    <3>5. x' /\ oldest' < unused' => oldest' \in Live'
      BY <1>0, <1>2, <2>1, <2>2, <2>3, <2>4, <3>2
    <3>6. ASSUME NEW p \in Live'
          PROVE  \/ hsize' <= p /\ (End(p) = writer' \/ (End(p) < writer' /\ End(p) \in Live'))
                 \/ oldest' <= p /\ (End(p) = unused' \/ (End(p) < unused' /\ End(p) \in Live'))
      <4>1. CASE wrap
        <5>1. p \in Live /\ p # hsize /\ p \in Nat /\ hsize \in Live /\ End(hsize) <= writer
          BY <1>2, <2>3, <2>4, <4>1
        <5>2. hsize <= p /\ (End(p) = writer \/ (End(p) < writer /\ End(p) \in Live))
          BY <2>2, <2>3, <3>2, <4>1, <5>1
        <5>3. End(hsize) <= p /\ End(hsize) < writer
          BY <2>2, <2>3, <3>1, <5>1, <5>2
        <5>4. oldest' = End(hsize) /\ unused' = writer
          BY <2>1, <2>2, <2>3, <4>1, <5>1, <5>3
        <5>5. End(p) # hsize
          BY <2>2, <2>3, <5>1, <5>2
        <5> QED
          BY <1>2, <2>4, <4>1, <5>2, <5>3, <5>4, <5>5
      <4>2. CASE ~wrap
        BY <1>0, <1>2, <2>1, <2>2, <2>3, <2>4, <3>1, <3>2, <4>2
      <4> QED
        BY <4>1, <4>2
    <3> QED
      BY <1>0, <2>4, <2>6, <3>1, <3>4, <3>5, <3>6 DEF Tiled
  <2> QED
    BY <2>10, <2>11, <2>12 DEF RingIInv
<1> QED
  BY <1>1, <1>2

\* A new entry fills the free space from the left.
LEMMA RingInsert ==
  ASSUME RingIInv, cache_set_insert
  PROVE  RingIInv'
<1> DEFINE keyhash == hash(arg.key)
           pos == Pos(head[keyhash])
<1>0. /\ pc = "set" /\ x /\ Fits
      /\ arg \in [key : Key, data : Data, ttl : 1..MaxTTL]
      /\ UNCHANGED <<x, siphash, size, hsize, oldest, unused, get, now>>
  BY DEF RingIInv, cache_set_insert, TypeOK
<1>1. CASE pos \notin Live \cup {0}
  <2>1. pc' = "impossible" /\ UNCHANGED <<ent, head, writer, arg, ret>>
    BY <1>1 DEF cache_set_insert
  <2>2. TypeOK'
    BY <1>0, <2>1 DEF RingIInv, TypeOK, Live, Buckets
  <2> QED
    BY <1>0, <2>1, <2>2, RingFrame DEF ring, RingIInv
<1>2. CASE pos \in Live \cup {0}
  <2> DEFINE new == [key |-> arg.key, data |-> arg.data, expire |-> now + arg.ttl,
                     link |-> Xor(Bits(pos), Bits(keyhash))]
  <2>1. /\ ent' = [p \in Live \cup {writer} |->
                     IF p = writer THEN new
                     ELSE IF p = pos
                     THEN [ent[p] EXCEPT !.link =
                             Xor(Xor(ent[p].link, Bits(keyhash)), Bits(writer))]
                     ELSE ent[p]]
        /\ head' = [head EXCEPT ![keyhash] = Bits(writer)]
        /\ writer' = writer + ArgLen
        /\ pc' = "idle" /\ ret' = None
    BY <1>2 DEF cache_set_insert
  <2>2. /\ size \in Nat /\ hsize \in Nat /\ writer \in Nat /\ oldest \in Nat /\ unused \in Nat
        /\ 4 <= hsize /\ hsize <= writer /\ writer <= oldest /\ oldest <= unused
        /\ unused <= size /\ (oldest = unused => unused = size)
        /\ MINSIZE <= size /\ size <= MAXSIZE /\ hsize <= size \div 16
    BY <1>0 DEF RingIInv, TypeOK, RingInv
  <2>3. ArgLen \in Nat /\ ArgLen >= 20 /\ writer + ArgLen <= oldest
    BY <1>0, EntryLenPositive DEF ArgLen, Fits
  <2>4. keyhash \in Buckets /\ keyhash \in Nat
    BY <1>0, <2>2, HashIsBucket DEF RingIInv, TypeOK, Buckets
  <2>5. Live \subseteq Nat
        /\ \A p \in Live : /\ End(p) \in Nat /\ End(p) >= p + 20
                           /\ ent[p] \in [key : Key, data : Data, expire : Nat, link : SUBSET Nat]
    BY EntryFacts DEF RingIInv
  <2>6. Live' = Live \cup {writer}
    BY <2>1 DEF Live
  <2>7. new \in [key : Key, data : Data, expire : Nat, link : SUBSET Nat]
    <3>1. now + arg.ttl \in Nat
      BY <1>0, NumAssumption DEF RingIInv, TypeOK
    <3>2. Xor(Bits(pos), Bits(keyhash)) \in SUBSET Nat
      BY <1>2, <2>4, <2>5 DEF Xor, Bits
    <3> QED
      BY <1>0, <3>1, <3>2
  <2>8. writer \notin Live
    BY <2>2, <2>3, <2>5 DEF RingIInv, Tiled
  <2>9. \A p \in Live : /\ ent'[p].key = ent[p].key /\ ent'[p].data = ent[p].data
                        /\ ent'[p] \in [key : Key, data : Data, expire : Nat, link : SUBSET Nat]
    BY <2>1, <2>2, <2>4, <2>5, <2>8 DEF Xor, Bits
  <2>10. ent'[writer] = new
    BY <2>1
  <2>11. \A p : p = writer => End(p)' = writer'
    BY <2>1, <2>10 DEF End, ArgLen, EntryLen
  <2>12. \A p \in Live : End(p)' = End(p)
    BY <2>9 DEF End, EntryLen
  <2>13. TypeOK'
    <3>1. head' \in [Buckets' -> SUBSET Nat]
      BY <1>0, <2>1, <2>2, <2>4 DEF RingIInv, TypeOK, Buckets, Bits
    <3>2. ent' \in [Live' -> [key : Key, data : Data, expire : Nat, link : SUBSET Nat]]
      BY <2>1, <2>6, <2>7, <2>9, <2>10
    <3> QED
      BY <1>0, <2>1, <2>2, <2>3, <2>5, <2>6, <3>1, <3>2 DEF RingIInv, TypeOK
  <2>14. Sizing' /\ RingInv'
    BY <1>0, <2>1, <2>2, <2>3 DEF Sizing, RingInv
  <2>15. Tiled'
    <3>1. \A p, r \in Live : p < r => End(p) <= r
      BY DEF RingIInv, Tiled
    <3>2. \A p \in Live :
            \/ hsize <= p /\ (End(p) = writer \/ (End(p) < writer /\ End(p) \in Live))
            \/ oldest <= p /\ (End(p) = unused \/ (End(p) < unused /\ End(p) \in Live))
      BY DEF RingIInv, Tiled
    <3>3. /\ writer > hsize => hsize \in Live
          /\ oldest < unused => oldest \in Live
      BY <1>0 DEF RingIInv, Tiled
    <3>4. x' /\ writer' > hsize' => hsize' \in Live'
      BY <1>0, <2>2, <2>6, <3>3
    <3>5. x' /\ oldest' < unused' => oldest' \in Live'
      BY <1>0, <2>6, <3>3
    <3>6. ASSUME NEW p \in Live'
          PROVE  \/ /\ hsize' <= p
                    /\ End(p)' = writer' \/ (End(p)' < writer' /\ End(p)' \in Live')
                 \/ /\ oldest' <= p
                    /\ End(p)' = unused' \/ (End(p)' < unused' /\ End(p)' \in Live')
      <4>1. CASE p = writer
        BY <1>0, <2>2, <2>11, <4>1
      <4>2. CASE p \in Live
        BY <1>0, <2>1, <2>2, <2>3, <2>5, <2>6, <2>12, <3>2, <4>2
      <4> QED
        BY <2>6, <4>1, <4>2
    <3>7. ASSUME NEW p \in Live', NEW r \in Live', p < r
          PROVE  End(p)' <= r
      <4>1. CASE p \in Live /\ r \in Live
        BY <2>12, <3>1, <3>7, <4>1
      <4>2. CASE p = writer /\ r \in Live
        BY <2>1, <2>2, <2>3, <2>5, <2>11, <3>2, <3>7, <4>2
      <4>3. CASE p \in Live /\ r = writer
        BY <2>2, <2>3, <2>5, <2>12, <3>2, <3>7, <4>3
      <4>4. ~(p = writer /\ r = writer)
        BY <2>2, <3>7
      <4> QED
        BY <2>6, <4>1, <4>2, <4>3, <4>4
    <3> QED
      BY <1>0, <3>4, <3>5, <3>6, <3>7 DEF Tiled
  <2> QED
    BY <2>13, <2>14, <2>15 DEF RingIInv
<1> QED
  BY <1>1, <1>2

LEMMA RingStep == RingIInv /\ [Next]_vars => RingIInv'
<1> SUFFICES ASSUME RingIInv, [Next]_vars PROVE RingIInv'
  OBVIOUS
<1>1. CASE Tick
  <2>1. TypeOK'
    BY <1>1 DEF Tick, RingIInv, TypeOK, Live, Buckets, ring
  <2> QED
    BY <1>1, <2>1, RingFrame DEF Tick, RingIInv, ring
<1>2. CASE cache_init
  BY <1>2, RingCacheInit
<1>3. CASE cache_set_start
  <2>1. arg' \in [key : Key, data : Data, ttl : 1..MaxTTL]
    BY <1>3, NumAssumption DEF cache_set_start, Min2
  <2>2. TypeOK'
    BY <1>3, <2>1 DEF cache_set_start, RingIInv, TypeOK, Live, Buckets, ring
  <2> QED
    BY <1>3, <2>2, RingFrame DEF cache_set_start, RingIInv, ring
<1>4. CASE cache_set_giveup
  <2>1. TypeOK'
    BY <1>4 DEF cache_set_giveup, RingIInv, TypeOK, Live, Buckets, ring
  <2> QED
    BY <1>4, <2>1, RingFrame DEF cache_set_giveup, RingIInv, ring
<1>5. CASE cache_set_evict
  BY <1>5, RingEvict
<1>6. CASE cache_set_insert
  BY <1>6, RingInsert
<1>7. CASE cache_get
  BY <1>7, RingCacheGet
<1>8. CASE UNCHANGED vars
  <2>1. TypeOK'
    BY <1>8 DEF vars, RingIInv, TypeOK, Live, Buckets, ring
  <2> QED
    BY <1>8, <2>1, RingFrame DEF vars, RingIInv, ring
<1> QED
  BY <1>1, <1>2, <1>3, <1>4, <1>5, <1>6, <1>7, <1>8 DEF Next, cache_set

LEMMA RingIInvHolds == Spec => []RingIInv
BY RingInit, RingStep, PTL DEF Spec

\* Every variable of cache.c keeps its type.
THEOREM CacheTypeOK == Spec => []TypeOK
BY RingIInvHolds, PTL DEF RingIInv

\* The layout that the comment at cache.c:22-35 promises (ordered pointers
\* and gap-free entries) holds after any sequence of calls.
THEOREM CacheRing == Spec => []Layout
BY RingIInvHolds, PTL DEF RingIInv, Layout

----------------------------------------------------------------------------
(* The chains *)

\* Exclusive-or undoes itself: what makes a link decode to a neighbour.
LEMMA XorFacts ==
  ASSUME NEW a, NEW b
  PROVE  /\ Xor(Xor(a, b), b) = a /\ Xor(a, Xor(a, b)) = b
         /\ Xor(a, b) = Xor(b, a) /\ Xor(a, {}) = a /\ Xor(a, a) = {}
BY DEF Xor

LEMMA XorSwap ==
  ASSUME NEW a, NEW b, NEW c
  PROVE  Xor(Xor(Xor(a, b), a), c) = Xor(c, b)
BY DEF Xor

\* Where live entries and head links can be.
LEMMA LiveFacts ==
  ASSUME RingIInv, x
  PROVE  /\ Live \subseteq Nat /\ 0 \notin Live /\ Live \cap Buckets = {}
         /\ 0 \in Buckets /\ Buckets \subseteq Nat
         /\ \A p \in Live : /\ Bucket(p) \in Buckets /\ ent[p].key \in Key
                            /\ hsize <= p /\ p < unused
                            /\ p < writer \/ oldest <= p
                            /\ End(p) \in Nat /\ p + 20 <= End(p)
                            /\ End(p) <= writer \/ (oldest <= p /\ End(p) <= unused)
<1>1. /\ size \in Nat /\ hsize \in Nat /\ writer \in Nat /\ oldest \in Nat /\ unused \in Nat
      /\ 4 <= hsize /\ hsize <= writer /\ writer <= oldest /\ oldest <= unused
  BY DEF RingIInv, TypeOK, RingInv
<1>2. /\ Live \subseteq Nat
      /\ \A p \in Live : /\ End(p) \in Nat /\ End(p) >= p + 20
                         /\ ent[p].key \in Key
  BY EntryFacts DEF RingIInv
<1>3. \A p \in Live : Bucket(p) \in Buckets
  BY <1>1, <1>2, HashIsBucket DEF Bucket, RingIInv, TypeOK
<1>4. 0 \in Buckets /\ \A b \in Buckets : b \in Nat /\ b < hsize
  BY <1>1 DEF Buckets
<1>5. \A p \in Live : /\ hsize <= p /\ p < unused
                      /\ p < writer \/ oldest <= p
                      /\ End(p) <= writer \/ (oldest <= p /\ End(p) <= unused)
  BY <1>1, <1>2 DEF RingIInv, Tiled
<1>6. Live \cap Buckets = {} /\ 0 \notin Live
  BY <1>1, <1>2, <1>4, <1>5
<1> QED
  BY <1>2, <1>3, <1>4, <1>5, <1>6

\* "Stored before" is a strict total order on positions.
LEMMA BeforeOrder ==
  ASSUME oldest \in Nat
  PROVE  /\ \A p \in Nat : ~Before(p, p)
         /\ \A p, r \in Nat : p # r => Before(p, r) \/ Before(r, p)
         /\ \A p, q, r \in Nat : Before(p, q) /\ Before(q, r) => Before(p, r)
BY DEF Before

\* An entry has one predecessor, one successor, and a bucket one first entry.
LEMMA NeighboursUnique ==
  ASSUME RingIInv, x, NEW p \in Live
  PROVE  /\ \A a, c : IsPrev(p, a) /\ IsPrev(p, c) => a = c
         /\ \A a, c : IsNext(p, a) /\ IsNext(p, c) => a = c
         /\ \A b, a, c : IsFirst(b, a) /\ IsFirst(b, c) => a = c
<1>1. /\ Live \subseteq Nat /\ oldest \in Nat
      /\ \A r \in Live : Bucket(r) \notin Live
  BY LiveFacts DEF RingIInv, TypeOK
<1>2. \A r, s \in Live : r # s => Before(r, s) \/ Before(s, r)
  BY <1>1, BeforeOrder
<1>3. \A a, c : IsPrev(p, a) /\ IsPrev(p, c) => a = c
  BY <1>1, <1>2 DEF IsPrev
<1>4. \A a, c : IsNext(p, a) /\ IsNext(p, c) => a = c
  BY <1>1, <1>2 DEF IsNext
<1>5. \A b, a, c : IsFirst(b, a) /\ IsFirst(b, c) => a = c
  BY <1>1, <1>2 DEF IsFirst
<1> QED
  BY <1>3, <1>4, <1>5

IInv == RingIInv /\ ChainsLinked /\ WalkOnCourse /\ NeverImpossible

\* A step that leaves the memory alone leaves the chains alone.
LEMMA ChainsFrame ==
  ASSUME ChainsLinked, UNCHANGED <<x, siphash, ring, ent, head>>
  PROVE  ChainsLinked'
<1> USE DEF ring
<1>1. Live' = Live /\ Buckets' = Buckets
  BY DEF Live, Buckets
<1>2. /\ \A p : Bucket(p)' = Bucket(p)
      /\ \A p, r : Before(p, r)' = Before(p, r)
  BY DEF Bucket, hash, Before
<1>3. /\ \A b, a : IsFirst(b, a)' = IsFirst(b, a)
      /\ \A p, a : IsPrev(p, a)' = IsPrev(p, a)
      /\ \A p, a : IsNext(p, a)' = IsNext(p, a)
  BY <1>1, <1>2 DEF IsFirst, IsPrev, IsNext
<1> QED
  BY <1>1, <1>3 DEF ChainsLinked

\* The entry the eviction loop removes is older than all the others.
LEMMA VictimIsOldest ==
  ASSUME RingIInv, x, ~(oldest = unused /\ writer <= hsize)
  PROVE  LET victim == IF oldest = unused THEN hsize ELSE oldest
             limit  == IF oldest = unused THEN writer ELSE unused
         IN /\ victim \in Live /\ End(victim) <= limit
            /\ \A r \in Live : r # victim => Before(victim, r)
            /\ \A r \in Live : r >= victim /\ r # victim => End(victim) <= r
<1>1. /\ size \in Nat /\ hsize \in Nat /\ writer \in Nat /\ oldest \in Nat /\ unused \in Nat
      /\ 4 <= hsize /\ hsize <= writer /\ writer <= oldest /\ oldest <= unused
  BY DEF RingIInv, TypeOK, RingInv
<1>2. /\ \A p, r \in Live : p < r => End(p) <= r
      /\ writer > hsize => hsize \in Live
      /\ oldest < unused => oldest \in Live
  BY DEF RingIInv, Tiled
<1>3. CASE oldest = unused
  <2>1. hsize \in Live
    BY <1>1, <1>2, <1>3
  <2>2. \A r \in Live : r \in Nat /\ End(r) \in Nat /\ hsize <= r /\ r < oldest /\ End(r) <= writer
    BY <1>1, <1>3, LiveFacts
  <2> QED
    BY <1>1, <1>2, <1>3, <2>1, <2>2 DEF Before
<1>4. CASE oldest # unused
  <2>1. oldest \in Live
    BY <1>1, <1>2, <1>4
  <2>2. \A r \in Live : r \in Nat /\ End(r) \in Nat /\ r + 20 <= End(r)
                        /\ (End(r) <= writer \/ End(r) <= unused)
    BY <1>1, LiveFacts
  <2> QED
    BY <1>1, <1>2, <1>4, <2>1, <2>2 DEF Before
<1> QED
  BY <1>3, <1>4

\* What an entry means to a caller.
Entry(p) == [key |-> ent[p].key, data |-> ent[p].data, expire |-> ent[p].expire]

\* A step that forgets v, which was the oldest entry, and one that stores
\* entry w, which is then the newest.
Forgets(v) ==
  /\ v \in Live /\ Live' = Live \ {v}
  /\ \A r \in Live : r # v => Before(v, r)
  /\ \A p \in Live' : Entry(p)' = Entry(p)
  /\ \A p, r \in Live' : Before(p, r)' <=> Before(p, r)
Stores(w) ==
  /\ w \notin Live /\ Live' = Live \cup {w}
  /\ \A p \in Live : Entry(p)' = Entry(p) /\ Before(p, w)' /\ ~Before(w, p)'
  /\ ~Before(w, w)'
  /\ \A p, r \in Live : Before(p, r)' <=> Before(p, r)
  /\ Entry(w)' = [key |-> arg.key, data |-> arg.data, expire |-> now + arg.ttl]

\* Eviction unlinks the tail of a chain and never finds the impossible.
LEMMA ChainsEvict ==
  ASSUME IInv, cache_set_evict
  PROVE  ChainsLinked' /\ pc' = "set" /\ \E v \in Live : Forgets(v)
<1> DEFINE v     == IF oldest = unused THEN hsize ELSE oldest
           limit == IF oldest = unused THEN writer ELSE unused
           pos   == Pos(ent[v].link)
<1>0. /\ RingIInv /\ ChainsLinked /\ x /\ pc = "set"
      /\ ~(oldest = unused /\ writer <= hsize)
      /\ UNCHANGED <<x, siphash, size, hsize>>
  BY DEF IInv, RingIInv, TypeOK, cache_set_evict
<1>1. /\ v \in Live /\ End(v) <= limit
      /\ \A r \in Live : r # v => Before(v, r)
      /\ \A r \in Live : r >= v /\ r # v => End(v) <= r
  BY <1>0, VictimIsOldest
<1>2. /\ size \in Nat /\ hsize \in Nat /\ writer \in Nat /\ oldest \in Nat /\ unused \in Nat
      /\ 4 <= hsize /\ hsize <= writer /\ writer <= oldest /\ oldest <= unused /\ unused <= size
      /\ (oldest = unused => unused = size)
  BY <1>0 DEF RingIInv, TypeOK, RingInv
<1>3. /\ Live \subseteq Nat /\ 0 \notin Live /\ Live \cap Buckets = {}
      /\ 0 \in Buckets /\ Buckets \subseteq Nat
      /\ \A p \in Live : Bucket(p) \in Buckets
  BY <1>0, LiveFacts
<1>4. /\ \A p \in Live : ~Before(p, p)
      /\ \A p, r \in Live : p # r => Before(p, r) \/ Before(r, p)
      /\ \A p, q, r \in Live : Before(p, q) /\ Before(q, r) => Before(p, r)
  BY <1>2, <1>3, BeforeOrder
<1> HIDE DEF v, limit
\* the victim's link is the item before it
<1>5. PICK a \in Live \cup Buckets : IsPrev(v, a) /\ ent[v].link = Bits(a)
  <2>1. PICK a \in Live \cup Buckets, c \in Live \cup {0} :
           IsPrev(v, a) /\ IsNext(v, c) /\ ent[v].link = Xor(Bits(a), Bits(c))
    BY <1>0, <1>1 DEF ChainsLinked
  <2>2. c = 0
    BY <1>1, <1>4, <2>1 DEF IsNext
  <2> QED
    BY <2>1, <2>2, XorFacts DEF Bits
<1>6. pos = a
  <2>1. a \in Nat /\ Bits(a) \in SUBSET Nat
    BY <1>3 DEF Bits
  <2> QED
    BY <1>5, <2>1, PosType
<1>7. /\ Unlink(v) /\ pc' = "set"
      /\ oldest' = IF End(v) = limit THEN size ELSE End(v)
  BY <1>0, <1>1, <1>6 DEF cache_set_evict, PastVictim, v, limit
<1> HIDE DEF pos
<1>8. /\ Live' = Live \ {v} /\ Buckets' = Buckets
      /\ DOMAIN head' = Buckets
      /\ \A b \in Buckets : head'[b] = IF b = a THEN Xor(head[b], Bits(v)) ELSE head[b]
      /\ \A p \in Live' : ent'[p].key = ent[p].key
      /\ \A p \in Live' : ent'[p].link = IF p = a THEN Xor(ent[p].link, Bits(v)) ELSE ent[p].link
  <2>1. /\ DOMAIN head = Buckets
        /\ \A p \in Live : ent[p] \in [key : Key, data : Data, expire : Nat, link : SUBSET Nat]
    BY <1>0 DEF RingIInv, TypeOK
  <2> QED
    BY <1>0, <1>6, <1>7, <2>1 DEF Unlink, Live, Buckets, pos
<1>9. \A p \in Live' : Bucket(p)' = Bucket(p)
  BY <1>0, <1>8 DEF Bucket, hash
<1>10. ASSUME NEW p \in Live', NEW r \in Live'
       PROVE  Before(p, r)' <=> Before(p, r)
  <2>1. /\ p \in Live /\ p # v /\ p \in Nat /\ r \in Live /\ r # v /\ r \in Nat
    BY <1>3, <1>8
  <2>2. /\ p < unused /\ (p < writer \/ oldest <= p)
        /\ r < unused /\ (r < writer \/ oldest <= r)
        /\ v \in Nat /\ End(v) \in Nat /\ v + 20 <= End(v)
    BY <1>0, <1>1, <2>1, LiveFacts
  <2>3. hsize <= p /\ hsize <= r
    BY <1>0, <2>1, LiveFacts
  <2>4. (p >= v => End(v) <= p) /\ (r >= v => End(v) <= r)
    BY <1>1, <2>1
  <2>5. CASE oldest = unused
    <3>1. v = hsize /\ limit = writer /\ p < writer /\ r < writer
      BY <1>2, <2>1, <2>2, <2>5 DEF v, limit
    <3>2. End(v) <= p /\ End(v) <= r
      BY <2>3, <2>4, <3>1
    <3>3. oldest' = End(v) /\ End(v) < limit
      BY <1>2, <1>7, <2>1, <2>2, <3>1, <3>2
    <3> QED
      BY <1>2, <2>1, <2>2, <2>5, <3>1, <3>2, <3>3 DEF Before
  <2>6. CASE oldest # unused
    <3>1. v = oldest /\ limit = unused
      BY <2>6 DEF v, limit
    <3> QED
      BY <1>1, <1>2, <1>7, <2>1, <2>2, <2>3, <2>4, <2>6, <3>1 DEF Before
  <2> QED
    BY <2>5, <2>6
<1>11. ASSUME NEW b \in Buckets
       PROVE  \E f \in Live' \cup {0} : IsFirst(b, f)' /\ head'[b] = Bits(f)
  <2>1. PICK f \in Live \cup {0} : IsFirst(b, f) /\ head[b] = Bits(f)
    BY <1>0 DEF ChainsLinked
  <2>2. CASE f = v
    <3>1. a = b
      BY <1>1, <1>3, <1>4, <1>5, <2>1, <2>2 DEF IsPrev, IsFirst
    <3>2. head'[b] = Bits(0)
      BY <1>8, <2>1, <2>2, <3>1, XorFacts DEF Bits
    <3>3. IsFirst(b, 0)'
      BY <1>1, <1>3, <1>8, <1>9, <2>1, <2>2 DEF IsFirst
    <3> QED
      BY <3>2, <3>3
  <2>3. CASE f # v
    <3>1. a # b
      BY <1>1, <1>3, <1>4, <1>5, <2>1, <2>3 DEF IsPrev, IsFirst
    <3>2. head'[b] = Bits(f) /\ f \in Live' \cup {0}
      BY <1>8, <2>1, <2>3, <3>1
    <3>3. IsFirst(b, f)'
      BY <1>3, <1>8, <1>9, <1>10, <2>1, <2>3, <3>2 DEF IsFirst
    <3> QED
      BY <3>2, <3>3
  <2> QED
    BY <2>2, <2>3
<1>12. ASSUME NEW p \in Live'
       PROVE  \E q \in Live' \cup Buckets, c \in Live' \cup {0} :
                IsPrev(p, q)' /\ IsNext(p, c)' /\ ent'[p].link = Xor(Bits(q), Bits(c))
  <2>1. p \in Live /\ p # v
    BY <1>8
  <2>2. PICK q \in Live \cup Buckets, c \in Live \cup {0} :
           IsPrev(p, q) /\ IsNext(p, c) /\ ent[p].link = Xor(Bits(q), Bits(c))
    BY <1>0, <2>1 DEF ChainsLinked
  <2>3. q \in Live' \cup Buckets
    BY <1>1, <1>3, <1>4, <1>8, <2>1, <2>2 DEF IsPrev
  <2>4. IsPrev(p, q)'
    BY <1>3, <1>8, <1>9, <1>10, <2>1, <2>2, <2>3 DEF IsPrev
  <2>5. CASE p = a
    <3>1. c = v
      BY <1>1, <1>3, <1>4, <1>5, <2>1, <2>2, <2>5 DEF IsPrev, IsNext
    <3>2. ent'[p].link = Xor(Bits(q), Bits(0))
      BY <1>8, <2>2, <2>5, <3>1, XorFacts DEF Bits
    <3>3. IsNext(p, 0)'
      BY <1>1, <1>3, <1>4, <1>5, <1>8, <1>9, <1>10, <2>1, <2>5 DEF IsPrev, IsNext
    <3> QED
      BY <2>3, <2>4, <3>2, <3>3
  <2>6. CASE p # a
    <3>1. c # v
      BY <1>1, <1>3, <1>4, <1>5, <2>1, <2>2, <2>6 DEF IsPrev, IsNext
    <3>2. ent'[p].link = Xor(Bits(q), Bits(c)) /\ c \in Live' \cup {0}
      BY <1>8, <2>2, <2>6, <3>1
    <3>3. IsNext(p, c)'
      BY <1>3, <1>8, <1>9, <1>10, <2>1, <2>2, <3>1, <3>2 DEF IsNext
    <3> QED
      BY <2>3, <2>4, <3>2, <3>3
  <2> QED
    BY <2>5, <2>6
<1>13. Forgets(v)
  <2>1. /\ v \in Live /\ Live' = Live \ {v}
        /\ \A r \in Live : r # v => Before(v, r)
        /\ \A p, r \in Live' : Before(p, r)' <=> Before(p, r)
    BY <1>1, <1>8, <1>10
  <2>2. \A p \in Live' : /\ ent'[p].key = ent[p].key /\ ent'[p].data = ent[p].data
                         /\ ent'[p].expire = ent[p].expire
    <3>1. \A p \in Live : ent[p] \in [key : Key, data : Data, expire : Nat, link : SUBSET Nat]
      BY <1>0 DEF RingIInv, TypeOK
    <3> QED
      BY <1>7, <2>1, <3>1 DEF Unlink, Live
  <2> QED
    BY <2>1, <2>2 DEF Forgets, Entry
<1> QED
  BY <1>1, <1>7, <1>8, <1>11, <1>12, <1>13 DEF ChainsLinked

\* Insertion puts the newest entry at the front of its chain.
LEMMA ChainsInsert ==
  ASSUME IInv, cache_set_insert
  PROVE  ChainsLinked' /\ pc' = "idle" /\ \E w \in Nat : Stores(w)
<1> DEFINE kh  == hash(arg.key)
           pos == Pos(head[kh])
           w   == writer
<1>0. /\ RingIInv /\ ChainsLinked /\ x /\ pc = "set" /\ Fits
      /\ arg \in [key : Key, data : Data, ttl : 1..MaxTTL]
      /\ UNCHANGED <<x, siphash, size, hsize, oldest>>
  BY DEF IInv, RingIInv, TypeOK, cache_set_insert
<1>1. /\ size \in Nat /\ hsize \in Nat /\ writer \in Nat /\ oldest \in Nat /\ unused \in Nat
      /\ 4 <= hsize /\ hsize <= writer /\ writer <= oldest /\ oldest <= unused
      /\ writer < oldest
  <2>1. ArgLen \in Nat /\ ArgLen >= 20
    BY <1>0, EntryLenPositive DEF ArgLen
  <2> QED
    BY <1>0, <2>1 DEF RingIInv, TypeOK, RingInv, Fits
<1>2. /\ Live \subseteq Nat /\ 0 \notin Live /\ Live \cap Buckets = {}
      /\ 0 \in Buckets /\ Buckets \subseteq Nat
      /\ \A p \in Live : /\ Bucket(p) \in Buckets
                         /\ p < writer \/ oldest <= p
  BY <1>0, LiveFacts
<1>3. w \in Nat /\ w \notin Live /\ w \notin Buckets /\ w # 0
  BY <1>1, <1>2 DEF Buckets
<1>4. /\ \A p \in Live : ~Before(p, p)
      /\ \A p, r \in Live : p # r => Before(p, r) \/ Before(r, p)
  BY <1>1, <1>2, BeforeOrder
<1>5. kh \in Buckets
  BY <1>0, <1>1, HashIsBucket DEF RingIInv, TypeOK
<1>6. PICK f \in Live \cup {0} : IsFirst(kh, f) /\ head[kh] = Bits(f)
  BY <1>0, <1>5 DEF ChainsLinked
<1>7. pos = f
  <2>1. f \in Nat /\ Bits(f) \in SUBSET Nat
    BY <1>2 DEF Bits
  <2> QED
    BY <1>6, <2>1, PosType
<1>8. /\ ent' = [p \in Live \cup {w} |->
                   IF p = w
                   THEN [key |-> arg.key, data |-> arg.data, expire |-> now + arg.ttl,
                         link |-> Xor(Bits(f), Bits(kh))]
                   ELSE IF p = f
                   THEN [ent[p] EXCEPT !.link = Xor(Xor(ent[p].link, Bits(kh)), Bits(w))]
                   ELSE ent[p]]
      /\ head' = [head EXCEPT ![kh] = Bits(w)]
      /\ pc' = "idle"
  BY <1>7 DEF cache_set_insert
<1>9. /\ Live' = Live \cup {w} /\ Buckets' = Buckets
      /\ \A b \in Buckets : head'[b] = IF b = kh THEN Bits(w) ELSE head[b]
      /\ \A p \in Live : ent'[p].key = ent[p].key
      /\ \A p \in Live : ent'[p].link = IF p = f THEN Xor(Xor(ent[p].link, Bits(kh)), Bits(w))
                                        ELSE ent[p].link
      /\ ent'[w].key = arg.key /\ ent'[w].link = Xor(Bits(f), Bits(kh))
  <2>1. /\ DOMAIN head = Buckets
        /\ \A p \in Live : ent[p] \in [key : Key, data : Data, expire : Nat, link : SUBSET Nat]
    BY <1>0 DEF RingIInv, TypeOK
  <2> QED
    BY <1>0, <1>3, <1>8, <2>1 DEF Live, Buckets
<1>10. /\ \A p \in Live : Bucket(p)' = Bucket(p)
       /\ \A p : p = w => Bucket(p)' = kh
  BY <1>0, <1>9 DEF Bucket, hash
<1>11. /\ \A p, r \in Live : Before(p, r)' <=> Before(p, r)
       /\ \A p \in Live : \A r : r = w => Before(p, r)' /\ ~Before(r, p)'
       /\ \A r : r = w => ~Before(r, r)'
  BY <1>0, <1>1, <1>2 DEF Before
<1>12. PICK n, h : n = w /\ h = kh
  OBVIOUS
<1> HIDE DEF w, kh, pos
<1>13. ASSUME NEW b \in Buckets
       PROVE  \E g \in Live' \cup {0} : IsFirst(b, g)' /\ head'[b] = Bits(g)
  <2>1. CASE b = kh
    <3>1. IsFirst(b, n)'
      BY <1>9, <1>10, <1>11, <1>12, <2>1 DEF IsFirst
    <3> QED
      BY <1>9, <1>12, <2>1, <3>1
  <2>2. CASE b # kh
    <3>1. PICK g \in Live \cup {0} : IsFirst(b, g) /\ head[b] = Bits(g)
      BY <1>0 DEF ChainsLinked
    <3>2. IsFirst(b, g)'
      BY <1>2, <1>9, <1>10, <1>11, <2>2, <3>1 DEF IsFirst
    <3> QED
      BY <1>9, <2>2, <3>1, <3>2
  <2> QED
    BY <2>1, <2>2
<1>14. ASSUME NEW p \in Live'
       PROVE  \E q \in Live' \cup Buckets, c \in Live' \cup {0} :
                IsPrev(p, q)' /\ IsNext(p, c)' /\ ent'[p].link = Xor(Bits(q), Bits(c))
  <2>1. CASE p = n
    <3>1. IsPrev(p, h)'
      BY <1>9, <1>10, <1>11, <1>12, <2>1 DEF IsPrev
    <3>2. IsNext(p, f)'
      <4>1. CASE f = 0
        <5>1. \A r \in Live' : Bucket(r)' = Bucket(p)' => r = n
          BY <1>2, <1>6, <1>9, <1>10, <1>12, <2>1, <4>1 DEF IsFirst
        <5> QED
          BY <1>11, <1>12, <2>1, <4>1, <5>1 DEF IsNext
      <4>2. CASE f # 0
        <5>1. f \in Live /\ Bucket(f) = kh /\ \A r \in Live : Bucket(r) = kh => ~Before(f, r)
          BY <1>6, <4>2 DEF IsFirst
        <5>2. f \in Live' /\ Bucket(f)' = Bucket(p)' /\ Before(f, p)'
          BY <1>9, <1>10, <1>11, <1>12, <2>1, <5>1
        <5>3. ASSUME NEW r \in Live', Bucket(r)' = Bucket(p)'
              PROVE  ~(Before(f, r)' /\ Before(r, p)')
          BY <1>9, <1>10, <1>11, <1>12, <2>1, <5>1, <5>3
        <5> QED
          BY <5>2, <5>3 DEF IsNext
      <4> QED
        BY <4>1, <4>2
    <3>3. ent'[p].link = Xor(Bits(h), Bits(f))
      BY <1>9, <1>12, <2>1, XorFacts
    <3> QED
      BY <1>5, <1>9, <1>12, <3>1, <3>2, <3>3
  <2>2. CASE p # n
    <3>0. p \in Live
      BY <1>9, <1>12, <2>2
    <3>1. PICK q \in Live \cup Buckets, c \in Live \cup {0} :
             IsPrev(p, q) /\ IsNext(p, c) /\ ent[p].link = Xor(Bits(q), Bits(c))
      BY <1>0, <3>0 DEF ChainsLinked
    <3>2. IsNext(p, c)'
      <4>1. ASSUME NEW r \in Live', Bucket(r)' = Bucket(p)', Before(r, p)'
            PROVE  r \in Live /\ Bucket(r) = Bucket(p) /\ Before(r, p)
        BY <1>9, <1>10, <1>11, <3>0, <4>1
      <4>2. CASE c = 0
        BY <1>2, <3>1, <4>1, <4>2 DEF IsNext
      <4>3. CASE c \in Live
        <5>1. c \in Live' /\ Bucket(c)' = Bucket(p)' /\ Before(c, p)'
          BY <1>2, <1>9, <1>10, <1>11, <3>0, <3>1, <4>3 DEF IsNext
        <5>2. ASSUME NEW r \in Live', Bucket(r)' = Bucket(p)'
              PROVE  ~(Before(c, r)' /\ Before(r, p)')
          BY <1>2, <1>11, <3>1, <4>1, <4>3, <5>2 DEF IsNext
        <5> QED
          BY <5>1, <5>2 DEF IsNext
      <4> QED
        BY <3>1, <4>2, <4>3
    <3>3. CASE p = f
      <4>1. q = kh
        BY <1>2, <1>6, <3>0, <3>1, <3>3 DEF IsFirst, IsPrev
      <4>2. ent'[p].link = Xor(Bits(n), Bits(c))
        BY <1>9, <1>12, <3>0, <3>1, <3>3, <4>1, XorSwap
      <4>3. IsPrev(p, n)'
        BY <1>2, <1>3, <1>6, <1>9, <1>10, <1>11, <1>12, <3>0, <3>3 DEF IsFirst, IsPrev
      <4> QED
        BY <1>9, <1>12, <3>1, <3>2, <4>2, <4>3
    <3>4. CASE p # f
      <4>1. IsPrev(p, q)'
        <5>1. CASE Bucket(p) = kh
          <6>1. f \in Live /\ Bucket(f) = kh /\ Before(p, f)
            BY <1>2, <1>4, <1>6, <3>0, <3>4, <5>1 DEF IsFirst
          <6>2. q \in Live
            BY <1>2, <3>0, <3>1, <5>1, <6>1 DEF IsPrev
          <6> QED
            BY <1>2, <1>3, <1>9, <1>10, <1>11, <3>0, <3>1, <5>1, <6>2 DEF IsPrev
        <5>2. CASE Bucket(p) # kh
          BY <1>2, <1>3, <1>9, <1>10, <1>11, <3>0, <3>1, <5>2 DEF IsPrev
        <5> QED
          BY <5>1, <5>2
      <4> QED
        BY <1>9, <3>0, <3>1, <3>2, <3>4, <4>1
    <3> QED
      BY <3>3, <3>4
  <2> QED
    BY <2>1, <2>2
<1>15. Stores(n)
  <2>1. n \notin Live /\ Live' = Live \cup {n}
    BY <1>3, <1>9, <1>12
  <2>2. /\ \A p, r \in Live : Before(p, r)' <=> Before(p, r)
        /\ \A p \in Live : Before(p, n)' /\ ~Before(n, p)'
        /\ ~Before(n, n)'
    BY <1>11, <1>12
  <2>3. \A p \in Live : /\ ent'[p].key = ent[p].key /\ ent'[p].data = ent[p].data
                        /\ ent'[p].expire = ent[p].expire
    <3>1. \A p \in Live : ent[p] \in [key : Key, data : Data, expire : Nat, link : SUBSET Nat]
      BY <1>0 DEF RingIInv, TypeOK
    <3> QED
      BY <1>3, <1>8, <3>1 DEF Live
  <2>4. /\ ent'[n].key = arg.key /\ ent'[n].data = arg.data
        /\ ent'[n].expire = now + arg.ttl
    BY <1>8, <1>12
  <2> QED
    BY <2>1, <2>2, <2>3, <2>4 DEF Stores, Entry
<1> QED
  BY <1>3, <1>8, <1>9, <1>12, <1>13, <1>14, <1>15 DEF ChainsLinked

\* A lookup stays on its chain: a link xor-ed with the item before an entry
\* is the entry after it.
LEMMA WalkStep ==
  ASSUME IInv, cache_get
  PROVE  WalkOnCourse' /\ pc' # "impossible"
<1> USE DEF ring
<1>1. /\ UNCHANGED <<x, siphash, ring, ent, head, now>>
      /\ RingIInv /\ ChainsLinked /\ pc # "impossible"
  BY DEF IInv, NeverImpossible, cache_get, cache_get_refuse, cache_get_start, cache_get_end,
         cache_get_found, cache_get_pass, Return
<1>2. Live' = Live
  BY <1>1 DEF Live
<1>5. CASE cache_get_refuse
  BY <1>1, <1>5 DEF cache_get_refuse, WalkOnCourse
<1>6. CASE cache_get_end \/ cache_get_found
  BY <1>6 DEF cache_get_end, cache_get_found, Return, WalkOnCourse
<1>7. CASE cache_get_start
  <2>1. PICK k \in Key :
          /\ x
          /\ get' = [key |-> k, prev |-> hash(k), pos |-> Pos(head[hash(k)]), loop |-> 0]
          /\ pc' = "get"
    BY <1>7 DEF cache_get_start
  <2>2. /\ Live \subseteq Nat /\ 0 \notin Live /\ Live \cap Buckets = {}
        /\ \A p \in Live : Bucket(p) \in Buckets
    BY <1>1, <2>1, LiveFacts
  <2>3. hash(k) \in Buckets
    BY <1>1, <2>1, HashIsBucket DEF RingIInv, TypeOK, RingInv
  <2>4. PICK f \in Live \cup {0} : IsFirst(hash(k), f) /\ head[hash(k)] = Bits(f)
    BY <1>1, <2>1, <2>3 DEF ChainsLinked
  <2>h. PICK h : h = hash(k)
    OBVIOUS
  <2>5. get'.pos = f /\ get'.prev = h /\ get'.key = k
    <3>1. f \in Nat /\ Bits(f) \in SUBSET Nat
      BY <2>2 DEF Bits
    <3> QED
      BY <2>1, <2>4, <2>h, <3>1, PosType
  <2>6. f # 0 => Bucket(f) = h /\ IsPrev(f, h)
    BY <2>4, <2>h DEF IsFirst, IsPrev
  <2>7. \A r \in Live : ent[r].key = k => f # 0 /\ ~Before(f, r)
    BY <2>2, <2>4 DEF IsFirst, Bucket
  <2>8. hash(get.key)' = h
    BY <1>1, <2>5, <2>h DEF hash
  <2>9. f # 0 => (Bucket(get.pos) = hash(get.key) /\ IsPrev(get.pos, get.prev))'
    <3> SUFFICES ASSUME f # 0
                 PROVE  (Bucket(get.pos) = hash(get.key) /\ IsPrev(get.pos, get.prev))'
      OBVIOUS
    <3>1. Bucket(get.pos)' = h
      BY <1>1, <2>5, <2>6 DEF Bucket, hash
    <3>2. \A r \in Live : Bucket(r)' = Bucket(r) /\ Before(get.pos, r)' = Before(f, r)
      BY <1>1, <2>5 DEF Bucket, hash, Before
    <3>3. \A r \in Live : Bucket(r) = h => ~Before(f, r)
      BY <2>4, <2>h DEF IsFirst
    <3>4. IsPrev(get.pos, get.prev)'
      BY <1>2, <2>5, <3>1, <3>2, <3>3 DEF IsPrev
    <3> QED
      BY <2>8, <3>1, <3>4
  <2>10. \A r \in Live' : ent'[r].key = k => f # 0 /\ ~Before(get.pos, r)'
    BY <1>1, <1>2, <2>5, <2>7 DEF Before
  <2> QED
    BY <1>2, <2>1, <2>4, <2>5, <2>9, <2>10 DEF WalkOnCourse
<1>8. CASE cache_get_pass
  <2>1. /\ pc = "get" /\ get.pos # 0 /\ ~KeyMatches /\ x
        /\ get \in [key : Key, prev : Nat, pos : Int, loop : 0..MaxLoop]
    BY <1>1, <1>8 DEF cache_get_pass, RingIInv, TypeOK
  <2>2. /\ get.pos \in Live /\ Bucket(get.pos) = hash(get.key) /\ IsPrev(get.pos, get.prev)
        /\ \A r \in Live : ent[r].key = get.key => ~Before(get.pos, r)
    BY <2>1 DEF IInv, WalkOnCourse
  <2>3. CASE get.loop + 1 > MaxLoop
    BY <1>8, <2>2, <2>3, SMTT(40) DEF cache_get_pass, Return, WalkOnCourse
  <2>4. CASE ~(get.loop + 1 > MaxLoop)
    <3> DEFINE cur == get.pos
               link == ent[cur].link
    <3>1. PICK a \in Live \cup Buckets, c \in Live \cup {0} :
             IsPrev(cur, a) /\ IsNext(cur, c) /\ link = Xor(Bits(a), Bits(c))
      BY <1>1, <2>1, <2>2 DEF ChainsLinked
    <3>2. a = get.prev
      BY <1>1, <2>1, <2>2, <3>1, NeighboursUnique
    <3>3. /\ Live \subseteq Nat /\ 0 \notin Live /\ oldest \in Nat
      BY <1>1, <2>1, LiveFacts DEF RingIInv, TypeOK
    <3>4. Pos(Xor(Bits(get.prev), link)) = c
      <4>1. c \in Nat /\ Bits(c) \in SUBSET Nat
        BY <3>3 DEF Bits
      <4>2. Xor(Bits(get.prev), link) = Bits(c)
        BY <3>1, <3>2, XorFacts
      <4> QED
        BY <4>1, <4>2, PosType
    <3>5. /\ get' = [get EXCEPT !.prev = cur, !.pos = c, !.loop = get.loop + 1]
          /\ pc' = "get"
      BY <1>8, <2>1, <2>2, <2>4, <3>4 DEF cache_get_pass, NextItem
    <3>6. get'.key = get.key /\ get'.prev = cur /\ get'.pos = c
      BY <2>1, <3>5
    <3>7. c # 0 => Bucket(c) = hash(get.key) /\ IsPrev(c, cur)
      BY <2>2, <3>1, <3>3 DEF IsNext, IsPrev
    <3>8. ASSUME NEW r \in Live, ent[r].key = get.key
          PROVE  c # 0 /\ ~Before(c, r)
      <4>1. Bucket(r) = Bucket(cur) /\ r # cur
        BY <2>1, <2>2, <3>8 DEF Bucket, KeyMatches
      <4>2. Before(r, cur)
        BY <2>2, <3>3, <3>8, <4>1, BeforeOrder
      <4> QED
        BY <3>1, <3>3, <4>1, <4>2 DEF IsNext
    <3> HIDE DEF cur, link
    <3> QED
      BY <1>1, <1>2, <3>1, <3>5, <3>6, <3>7, <3>8 DEF WalkOnCourse, IsPrev, Bucket, hash, Before
  <2> QED
    BY <2>3, <2>4
<1> QED
  BY <1>5, <1>6, <1>7, <1>8 DEF cache_get

LEMMA IInvInit == Init => IInv
<1> SUFFICES ASSUME Init PROVE IInv
  OBVIOUS
<1>1. ChainsLinked /\ WalkOnCourse /\ NeverImpossible
  BY DEF Init, ChainsLinked, WalkOnCourse, NeverImpossible
<1> QED
  BY <1>1, RingInit DEF IInv

LEMMA IInvStep == IInv /\ [Next]_vars => IInv'
<1> SUFFICES ASSUME IInv, [Next]_vars PROVE IInv'
  OBVIOUS
<1>0. RingIInv'
  BY RingStep DEF IInv
<1>1. CASE Tick \/ UNCHANGED vars
  <2>1. UNCHANGED <<pc, get, x, siphash, ring, ent, head>>
    BY <1>1 DEF Tick, vars, ring
  <2>2. WalkOnCourse'
    BY <2>1 DEF IInv, WalkOnCourse, IsPrev, Bucket, hash, Before, Live, ring
  <2> QED
    BY <1>0, <2>1, <2>2, ChainsFrame DEF IInv, NeverImpossible
<1>2. CASE cache_init
  <2>1. pc' \in {"size", "idle"}
    BY <1>2 DEF cache_init, cache_init_start, cache_init_double, cache_init_alloc
  <2>2. ChainsLinked'
    <3>1. CASE ~x'
      BY <3>1 DEF ChainsLinked
    <3>2. CASE x'
      <4>1. /\ head' = [b \in Buckets |-> {}] /\ UNCHANGED <<ent, hsize>> /\ pc = "size"
        BY <1>2, <3>2 DEF cache_init, cache_init_start, cache_init_double, cache_init_alloc,
                          IInv, RingIInv, Sizing
      <4>2. Live' = {} /\ Buckets' = Buckets
        BY <4>1 DEF IInv, RingIInv, Sizing, Tiled, Live, Buckets
      <4> QED
        BY <4>1, <4>2 DEF ChainsLinked, IsFirst, Bits
    <3> QED
      BY <3>1, <3>2
  <2> QED
    BY <1>0, <2>1, <2>2 DEF IInv, WalkOnCourse, NeverImpossible
<1>3. CASE cache_set_start \/ cache_set_giveup
  <2>1. UNCHANGED <<x, siphash, ring, ent, head>> /\ pc' \in {"set", "idle"}
    BY <1>3 DEF cache_set_start, cache_set_giveup, ring
  <2> QED
    BY <1>0, <2>1, ChainsFrame DEF IInv, WalkOnCourse, NeverImpossible
<1>4. CASE cache_set_evict
  BY <1>0, <1>4, ChainsEvict DEF IInv, WalkOnCourse, NeverImpossible
<1>5. CASE cache_set_insert
  BY <1>0, <1>5, ChainsInsert DEF IInv, WalkOnCourse, NeverImpossible
<1>6. CASE cache_get
  <2>1. UNCHANGED <<x, siphash, ring, ent, head>>
    BY <1>6 DEF cache_get, cache_get_refuse, cache_get_start, cache_get_end,
                cache_get_found, cache_get_pass, Return, ring
  <2> QED
    BY <1>0, <1>6, <2>1, ChainsFrame, WalkStep DEF IInv, NeverImpossible
<1> QED
  BY <1>1, <1>2, <1>3, <1>4, <1>5, <1>6 DEF Next, cache_set

LEMMA IInvHolds == Spec => []IInv
BY IInvInit, IInvStep, PTL DEF Spec

\* Each hash bucket is exactly the list of its live entries, newest first,
\* for every cache size and every call sequence (cache.c:37-42).
THEOREM CacheChains == Spec => []ChainsLinked
BY IInvHolds, PTL DEF IInv

\* cache_impossible is dead code, and no lookup or eviction ever touches
\* memory that is not a live entry.
THEOREM CacheNeverImpossible == Spec => []NeverImpossible
BY IInvHolds, PTL DEF IInv

\* A lookup never passes over an entry with its key, so what it finds is the
\* newest one.
THEOREM CacheWalk == Spec => []WalkOnCourse
BY IInvHolds, PTL DEF IInv

\* Together: the comment at cache.c:22-42.
THEOREM CacheLinked == Spec => []Linked
BY CacheRing, CacheChains, PTL DEF Linked

----------------------------------------------------------------------------
(* The entries in the order in which they were stored *)

Rank(p) == Cardinality({r \in Live : Before(r, p)})

\* The ranks of the entries are the numbers from 0 on.
RankOK ==
  /\ IsFiniteSet(Live) /\ Cardinality(Live) \in Nat
  /\ \A p \in Live : Rank(p) \in 0..(Cardinality(Live) - 1)
  /\ \A p, r \in Live : Before(p, r) <=> Rank(p) < Rank(r)
  /\ \A p, r \in Live : Rank(p) = Rank(r) => p = r
  /\ \A i \in 0..(Cardinality(Live) - 1) : \E p \in Live : Rank(p) = i

LEMMA RankFacts == RingIInv => RankOK
<1> SUFFICES ASSUME RingIInv PROVE RankOK
  OBVIOUS
<1>1. Live \subseteq Nat /\ oldest \in Nat /\ unused \in Nat
  BY EntryFacts DEF RingIInv, TypeOK
<1>2. IsFiniteSet(Live)
  <2>1. CASE x
    <3>1. \A p \in Live : p <= unused
      BY <1>1, <2>1, LiveFacts
    <3> QED
      BY <1>1, <3>1, FS_BoundedSetOfNaturals
  <2>2. CASE ~x
    BY <2>2, FS_EmptySet DEF RingIInv, Tiled
  <2> QED
    BY <2>1, <2>2
<1>3. Cardinality(Live) \in Nat
  BY <1>2, FS_CardinalityType
<1>4. /\ \A p \in Live : ~Before(p, p)
      /\ \A p, r \in Live : p # r => Before(p, r) \/ Before(r, p)
      /\ \A p, q, r \in Live : Before(p, q) /\ Before(q, r) => Before(p, r)
  BY <1>1, BeforeOrder
<1> DEFINE S(p) == {r \in Live : Before(r, p)}
<1>5. ASSUME NEW p \in Live
      PROVE  /\ IsFiniteSet(S(p)) /\ Rank(p) = Cardinality(S(p)) /\ Rank(p) \in Nat
             /\ Rank(p) \in 0..(Cardinality(Live) - 1)
  <2>1. IsFiniteSet(S(p)) /\ Cardinality(S(p)) \in Nat
    BY <1>2, FS_Subset, FS_CardinalityType
  <2>2. S(p) \in SUBSET (Live \ {p})
    BY <1>4
  <2>3. IsFiniteSet(Live \ {p}) /\ Cardinality(Live \ {p}) = Cardinality(Live) - 1
    BY <1>2, FS_RemoveElement
  <2>4. Cardinality(S(p)) <= Cardinality(Live) - 1
    BY <2>2, <2>3, FS_Subset
  <2>5. Rank(p) = Cardinality(S(p))
    BY DEF Rank
  <2> QED
    BY <1>3, <2>1, <2>4, <2>5
<1>6. ASSUME NEW p \in Live, NEW r \in Live, Before(p, r)
      PROVE  Rank(p) < Rank(r)
  <2>1. p \notin S(p) /\ S(p) \cup {p} \in SUBSET S(r)
    BY <1>4, <1>6
  <2>2. Cardinality(S(p) \cup {p}) = Cardinality(S(p)) + 1
    BY <1>5, <2>1, FS_AddElement
  <2>3. Cardinality(S(p) \cup {p}) <= Cardinality(S(r))
    BY <1>5, <2>1, FS_Subset
  <2> QED
    BY <1>5, <2>2, <2>3
<1>7. \A p, r \in Live : Before(p, r) <=> Rank(p) < Rank(r)
  <2> SUFFICES ASSUME NEW p \in Live, NEW r \in Live
               PROVE  Before(p, r) <=> Rank(p) < Rank(r)
    OBVIOUS
  <2>1. Rank(p) \in Nat /\ Rank(r) \in Nat
    BY <1>5
  <2>2. CASE Before(p, r)
    BY <1>6, <2>2
  <2>3. CASE Before(r, p)
    <3>1. Rank(r) < Rank(p)
      BY <1>6, <2>3
    <3>2. ~(Rank(p) < Rank(r))
      BY <2>1, <3>1
    <3>3. ~Before(p, r)
      BY <1>4, <2>3
    <3> QED
      BY <3>2, <3>3
  <2>4. CASE p = r
    <3>1. ~(Rank(p) < Rank(r))
      BY <2>1, <2>4
    <3>2. ~Before(p, r)
      BY <1>4, <2>4
    <3> QED
      BY <3>1, <3>2
  <2> QED
    BY <1>4, <2>2, <2>3, <2>4
<1>8. \A p, r \in Live : Rank(p) = Rank(r) => p = r
  BY <1>4, <1>7
<1> DEFINE T == 0..(Cardinality(Live) - 1)
           f == [p \in Live |-> Rank(p)]
<1>9. f \in Injection(Live, T)
  <2>1. f \in [Live -> T]
    BY <1>5
  <2>2. IsInjective(f)
    BY <1>8 DEF IsInjective
  <2> QED
    BY <2>1, <2>2 DEF Injection
<1>10. IsFiniteSet(T) /\ Cardinality(T) = Cardinality(Live)
  <2>1. 0 \in Int /\ Cardinality(Live) - 1 \in Int
    BY <1>3
  <2>2. /\ IsFiniteSet(T)
        /\ Cardinality(T) = IF 0 > Cardinality(Live) - 1 THEN 0 ELSE (Cardinality(Live) - 1) - 0 + 1
    BY <2>1, FS_Interval
  <2> QED
    BY <1>3, <2>2
<1>11. f \in Surjection(Live, T)
  BY <1>9, <1>10, FS_Injection
<1>12. \A i \in T : \E p \in Live : Rank(p) = i
  BY <1>11 DEF Surjection
<1>13. \A p \in Live : Rank(p) \in 0..(Cardinality(Live) - 1)
  BY <1>5
<1> QED
  BY <1>2, <1>3, <1>7, <1>8, <1>12, <1>13 DEF RankOK

Entries == [key : Key, data : Data, expire : Nat]

\* Queue is the entries in the order of their ranks.
QueueOK ==
  /\ Queue \in Seq(Entries) /\ Len(Queue) = Cardinality(Live)
  /\ \A p \in Live : Queue[Rank(p) + 1] = Entry(p)
  /\ \A i \in 1..Len(Queue) : \E p \in Live : Rank(p) + 1 = i /\ Queue[i] = Entry(p)

LEMMA QueueFacts == RingIInv => QueueOK
<1> SUFFICES ASSUME RingIInv PROVE QueueOK
  OBVIOUS
<1> DEFINE n == Cardinality(Live)
           Nth(i) == CHOOSE p \in Live : Cardinality({r \in Live : Before(r, p)}) = i - 1
<1>1. /\ n \in Nat
      /\ \A p \in Live : Rank(p) \in 0..(n - 1)
      /\ \A p, r \in Live : Rank(p) = Rank(r) => p = r
      /\ \A i \in 0..(n - 1) : \E p \in Live : Rank(p) = i
  BY RankFacts DEF RankOK
<1>2. ASSUME NEW p \in Live PROVE Nth(Rank(p) + 1) = p
  <2>1. Rank(p) \in Int /\ (Rank(p) + 1) - 1 = Rank(p)
    BY <1>1
  <2>2. \A r \in Live : Rank(r) = (Rank(p) + 1) - 1 <=> r = p
    BY <1>1, <2>1
  <2>3. Nth(Rank(p) + 1) = CHOOSE r \in Live : Rank(r) = (Rank(p) + 1) - 1
    BY DEF Rank
  <2> QED
    BY <2>2, <2>3
<1>3. Queue = [i \in 1..n |-> [key |-> ent[Nth(i)].key, data |-> ent[Nth(i)].data, expire |-> ent[Nth(i)].expire]]
  BY DEF Queue
<1> HIDE DEF Nth
<1>4. \A i \in 1..n : \E p \in Live : Rank(p) + 1 = i /\ Nth(i) = p
  <2> SUFFICES ASSUME NEW i \in 1..n PROVE \E p \in Live : Rank(p) + 1 = i /\ Nth(i) = p
    OBVIOUS
  <2>1. i - 1 \in 0..(n - 1) /\ (i - 1) + 1 = i
    BY <1>1
  <2>2. PICK p \in Live : Rank(p) = i - 1
    BY <1>1, <2>1
  <2> QED
    BY <1>2, <2>1, <2>2
<1>5. \A i \in 1..n : \E p \in Live : Rank(p) + 1 = i /\ Queue[i] = Entry(p)
  BY <1>3, <1>4 DEF Entry
<1>6. \A p \in Live : Entry(p) \in Entries
  BY EntryFacts DEF Entry, Entries, RingIInv
<1>7. Queue \in [1..n -> Entries]
  BY <1>3, <1>5, <1>6
<1>8. Queue \in Seq(Entries) /\ Len(Queue) = n
  <2>1. Queue \in Seq(Entries)
    BY <1>1, <1>7, SeqDef
  <2> QED
    BY <1>1, <1>7, <2>1, LenProperties
<1>9. \A p \in Live : Queue[Rank(p) + 1] = Entry(p)
  <2> SUFFICES ASSUME NEW p \in Live PROVE Queue[Rank(p) + 1] = Entry(p)
    OBVIOUS
  <2>1. Rank(p) + 1 \in 1..n
    BY <1>1
  <2> QED
    BY <1>2, <1>3, <2>1 DEF Entry
<1> QED
  BY <1>5, <1>8, <1>9 DEF QueueOK

\* A cache without entries is an empty queue.
NoneLive == Live = {}
NoneQueued == Queue = << >>
LEMMA QueueEmpty == RingIInv /\ NoneLive => NoneQueued
<1> SUFFICES ASSUME RingIInv, Live = {} PROVE Queue = << >>
  BY DEF NoneLive, NoneQueued
<1>1. Queue \in Seq(Entries) /\ Len(Queue) = 0
  BY QueueFacts, FS_EmptySet DEF QueueOK
<1> QED
  BY <1>1, EmptySeq

\* A step that touches neither entries nor pointers leaves the queue alone.
LEMMA QueueFrame ==
  ASSUME UNCHANGED <<ent, oldest>>
  PROVE  Queue' = Queue
BY DEF Queue, Live, Before

\* Forgetting the oldest entry drops the first item of the queue.
LEMMA QueueForgets ==
  ASSUME RingIInv, RingIInv', NEW v \in Live, Forgets(v)
  PROVE  Queue # << >> /\ Queue' = Tail(Queue)
<1> DEFINE n == Cardinality(Live)
<1>1. RankOK /\ RankOK' /\ QueueOK /\ QueueOK'
  BY RankFacts, QueueFacts, PTL
<1>2. /\ n \in Nat /\ IsFiniteSet(Live)
      /\ \A p \in Live : Rank(p) \in 0..(n - 1)
      /\ \A p, r \in Live : Before(p, r) <=> Rank(p) < Rank(r)
      /\ Queue \in Seq(Entries) /\ Len(Queue) = n
      /\ \A p \in Live : Queue[Rank(p) + 1] = Entry(p)
  BY <1>1 DEF RankOK, QueueOK
<1>3. /\ Live' = Live \ {v}
      /\ \A r \in Live : r # v => Before(v, r)
      /\ \A p \in Live' : Entry(p)' = Entry(p)
      /\ \A p, r \in Live' : Before(p, r)' <=> Before(p, r)
  BY DEF Forgets
<1>4. Cardinality(Live') = n - 1 /\ n \in Nat \ {0}
  <2>1. Rank(v) \in 0..(n - 1)
    BY <1>2
  <2>2. Cardinality(Live \ {v}) = n - 1
    BY <1>2, FS_RemoveElement
  <2> QED
    BY <1>2, <1>3, <2>1, <2>2
<1>5. /\ Queue' \in Seq(Entries) /\ Len(Queue') = n - 1
      /\ \A i \in 1..(n - 1) : \E p \in Live' : Rank(p)' + 1 = i /\ Queue'[i] = Entry(p)'
  <2>1. /\ Queue' \in Seq(Entries) /\ Len(Queue') = Cardinality(Live')
        /\ \A i \in 1..Len(Queue') : \E p \in Live' : Rank(p)' + 1 = i /\ Queue'[i] = Entry(p)'
    BY <1>1 DEF QueueOK, Entries
  <2> QED
    BY <1>4, <2>1
<1>6. ASSUME NEW p \in Live'
      PROVE  Rank(p)' = Rank(p) - 1
  <2> DEFINE S == {r \in Live : Before(r, p)}
  <2>1. p \in Live /\ Before(v, p) /\ v \in S
    BY <1>3
  <2>2. IsFiniteSet(S) /\ Rank(p) = Cardinality(S)
    BY <1>2, FS_Subset DEF Rank
  <2>3. {r \in Live' : Before(r, p)'} = S \ {v}
    BY <1>3
  <2>4. Rank(p)' = Cardinality({r \in Live' : Before(r, p)'})
    BY DEF Rank
  <2>5. Cardinality(S \ {v}) = Cardinality(S) - 1
    BY <2>1, <2>2, FS_RemoveElement
  <2> QED
    BY <2>2, <2>3, <2>4, <2>5
<1>7. Queue # << >>
  BY <1>2, <1>4
<1>8. /\ Tail(Queue) \in Seq(Entries) /\ Len(Tail(Queue)) = n - 1
      /\ \A i \in 1..(n - 1) : Tail(Queue)[i] = Queue[i + 1]
  BY <1>2, <1>4, <1>7, HeadTailProperties
<1>9. \A i \in 1..(n - 1) : Queue'[i] = Tail(Queue)[i]
  <2> SUFFICES ASSUME NEW i \in 1..(n - 1) PROVE Queue'[i] = Queue[i + 1]
    BY <1>8
  <2>1. PICK p \in Live' : Rank(p)' + 1 = i /\ Queue'[i] = Entry(p)'
    BY <1>5
  <2>2. p \in Live /\ Entry(p)' = Entry(p) /\ Rank(p) \in Int
    BY <1>2, <1>3
  <2>3. Rank(p)' = Rank(p) - 1
    BY <1>6
  <2>4. Rank(p) = i
    BY <2>1, <2>2, <2>3
  <2> QED
    BY <1>2, <2>1, <2>2, <2>4
<1> QED
  BY <1>5, <1>7, <1>8, <1>9, SeqEqual

\* Storing the newest entry appends to the queue.
LEMMA QueueStores ==
  ASSUME RingIInv, RingIInv', NEW w \in Nat, Stores(w)
  PROVE  Queue' = Append(Queue, [key |-> arg.key, data |-> arg.data, expire |-> now + arg.ttl])
<1> DEFINE n == Cardinality(Live)
           e == [key |-> arg.key, data |-> arg.data, expire |-> now + arg.ttl]
<1>1. RankOK /\ RankOK' /\ QueueOK /\ QueueOK'
  BY RankFacts, QueueFacts, PTL
<1>2. /\ n \in Nat /\ IsFiniteSet(Live)
      /\ \A p \in Live : Rank(p) \in 0..(n - 1)
      /\ Queue \in Seq(Entries) /\ Len(Queue) = n
      /\ \A i \in 1..Len(Queue) : \E p \in Live : Rank(p) + 1 = i /\ Queue[i] = Entry(p)
  BY <1>1 DEF RankOK, QueueOK
<1>3. /\ w \notin Live /\ Live' = Live \cup {w}
      /\ \A p \in Live : Entry(p)' = Entry(p) /\ Before(p, w)' /\ ~Before(w, p)'
      /\ ~Before(w, w)'
      /\ \A p, r \in Live : Before(p, r)' <=> Before(p, r)
      /\ Entry(w)' = e
  BY DEF Stores
<1>4. Cardinality(Live') = n + 1
  BY <1>2, <1>3, FS_AddElement
<1>5. /\ Queue' \in Seq(Entries) /\ Len(Queue') = n + 1
      /\ \A p \in Live' : Queue'[Rank(p)' + 1] = Entry(p)'
  <2>1. /\ Queue' \in Seq(Entries) /\ Len(Queue') = Cardinality(Live')
        /\ \A p \in Live' : Queue'[Rank(p)' + 1] = Entry(p)'
    BY <1>1 DEF QueueOK, Entries
  <2> QED
    BY <1>4, <2>1
<1>6. ASSUME NEW p \in Live
      PROVE  Rank(p)' = Rank(p)
  <2>1. {r \in Live' : Before(r, p)'} = {r \in Live : Before(r, p)}
    BY <1>3
  <2> QED
    BY <2>1 DEF Rank
<1>7. Rank(w)' = n
  <2>1. {r \in Live' : Before(r, w)'} = Live
    BY <1>3
  <2> QED
    BY <2>1 DEF Rank
<1>8. Queue'[n + 1] = e
  BY <1>3, <1>5, <1>7
<1>9. e \in Entries
  <2>1. Entry(w)' = Queue'[n + 1] /\ n + 1 \in 1..Len(Queue')
    BY <1>2, <1>3, <1>5, <1>7
  <2>2. Queue'[n + 1] \in Entries
    BY <1>5, <2>1, ElementOfSeq
  <2> QED
    BY <1>8, <2>2
<1> HIDE DEF e
<1>10. ASSUME NEW i \in 1..n
       PROVE  Queue'[i] = Queue[i]
  <2>1. PICK p \in Live : Rank(p) + 1 = i /\ Queue[i] = Entry(p)
    BY <1>2
  <2>2. Rank(p)' = Rank(p) /\ p \in Live' /\ Entry(p)' = Entry(p)
    BY <1>3, <1>6
  <2> QED
    BY <1>5, <2>1, <2>2
<1>11. /\ Append(Queue, e) \in Seq(Entries) /\ Len(Append(Queue, e)) = n + 1
       /\ \A i \in 1..n : Append(Queue, e)[i] = Queue[i]
       /\ Append(Queue, e)[n + 1] = e
  BY <1>2, <1>9, AppendProperties
<1>12. \A i \in 1..(n + 1) : Queue'[i] = Append(Queue, e)[i]
  <2> SUFFICES ASSUME NEW i \in 1..(n + 1) PROVE Queue'[i] = Append(Queue, e)[i]
    OBVIOUS
  <2>1. CASE i = n + 1
    BY <1>8, <1>11, <2>1
  <2>2. CASE i # n + 1
    <3>1. i \in 1..n
      BY <1>2, <2>2
    <3> QED
      BY <1>10, <1>11, <3>1
  <2> QED
    BY <2>1, <2>2
<1>13. Queue' = Append(Queue, e)
  BY <1>5, <1>11, <1>12, SeqEqual
<1> QED
  BY <1>13 DEF e

----------------------------------------------------------------------------
(* Lookups *)

\* The entries of the bucket that are newer than the one a lookup is at:
\* those it has passed over, and loop is their number.
Passed == {r \in Live : Bucket(r) = hash(get.key) /\ Before(get.pos, r)}
WalkCounts == pc = "get" /\ get.pos # 0 => Cardinality(Passed) = get.loop

\* No entry expires more than MaxTTL seconds from now.
Fresh == \A p \in Live : ent[p].expire <= now + MaxTTL

RInv == IInv /\ WalkCounts /\ Fresh

LEMMA WalkCountsStep ==
  ASSUME IInv, IInv', WalkCounts, cache_get
  PROVE  WalkCounts'
<1> USE DEF ring
<1>1. /\ UNCHANGED <<x, siphash, ring, ent, head, now>>
      /\ RingIInv /\ RankOK
  BY RankFacts DEF IInv, cache_get, cache_get_refuse, cache_get_start, cache_get_end,
         cache_get_found, cache_get_pass, Return
<1>2. /\ Live' = Live
      /\ \A p : Bucket(p)' = Bucket(p)
      /\ \A p, r : Before(p, r)' = Before(p, r)
  BY <1>1 DEF Live, Bucket, hash, Before
<1>3. CASE cache_get_refuse \/ cache_get_end \/ cache_get_found
  <2>1. pc' = "idle" \/ (pc' = pc /\ pc = "idle")
    BY <1>3 DEF cache_get_refuse, cache_get_end, cache_get_found, Return
  <2> QED
    BY <2>1 DEF WalkCounts
<1>4. CASE cache_get_start
  <2> SUFFICES ASSUME get'.pos # 0 PROVE Cardinality(Passed') = get'.loop
    BY DEF WalkCounts
  <2>1. PICK k \in Key :
          /\ x
          /\ get' = [key |-> k, prev |-> hash(k), pos |-> Pos(head[hash(k)]), loop |-> 0]
          /\ pc' = "get"
    BY <1>4 DEF cache_get_start
  <2>2. get'.loop = 0 /\ get'.key = k /\ get'.prev = hash(k) /\ pc' = "get"
    BY <2>1
  <2>3. hash(k) \in Buckets /\ Live \cap Buckets = {}
    BY <1>1, <2>1, HashIsBucket, LiveFacts DEF RingIInv, TypeOK, RingInv
  <2>4. (get.pos \in Live /\ Bucket(get.pos) = hash(get.key) /\ IsPrev(get.pos, get.prev))'
    BY <2>2 DEF IInv, WalkOnCourse
  <2>5. get'.prev \notin Live'
    BY <1>2, <2>2, <2>3
  <2>6. (\A r \in Live : Bucket(r) = Bucket(get.pos) => ~Before(get.pos, r))'
    BY <2>4, <2>5 DEF IsPrev
  <2>7. Passed' = {}
    BY <2>4, <2>6 DEF Passed
  <2> QED
    BY <2>2, <2>7, FS_EmptySet
<1>5. CASE cache_get_pass
  <2>1. /\ pc = "get" /\ get.pos # 0 /\ ~KeyMatches /\ x
        /\ get \in [key : Key, prev : Nat, pos : Int, loop : 0..MaxLoop]
    BY <1>1, <1>5 DEF cache_get_pass, RingIInv, TypeOK
  <2>2. get.pos \in Live /\ Bucket(get.pos) = hash(get.key)
    BY <2>1 DEF IInv, WalkOnCourse
  <2>3. Cardinality(Passed) = get.loop
    BY <2>1 DEF WalkCounts
  <2>4. CASE get.loop + 1 > MaxLoop
    BY <1>5, <2>2, <2>4 DEF cache_get_pass, Return, WalkCounts
  <2>5. CASE ~(get.loop + 1 > MaxLoop)
    <3> SUFFICES ASSUME get'.pos # 0 PROVE Cardinality(Passed') = get'.loop
      BY DEF WalkCounts
    <3>1. get' = NextItem /\ pc' = "get"
      BY <1>5, <2>1, <2>2, <2>5 DEF cache_get_pass
    <3>2. get'.prev = get.pos /\ get'.key = get.key /\ get'.loop = get.loop + 1
      BY <2>1, <3>1 DEF NextItem
    <3>3. PICK c : c = get'.pos
      OBVIOUS
    <3>4. c \in Live /\ Bucket(c) = hash(get.key) /\ IsPrev(get.pos, get.prev)'
      <4>1. (get.pos \in Live /\ Bucket(get.pos) = hash(get.key) /\ IsPrev(get.pos, get.prev))'
        BY <3>1 DEF IInv, WalkOnCourse
      <4>2. hash(get.key)' = hash(get.key)
        BY <1>1, <3>2 DEF hash
      <4>3. Bucket(get.pos)' = Bucket(c)
        BY <1>1, <3>3 DEF Bucket, hash
      <4> QED
        BY <1>2, <3>3, <4>1, <4>2, <4>3
    <3>5. /\ Before(c, get.pos)
          /\ \A r \in Live : Bucket(r) = Bucket(c) => ~(Before(c, r) /\ Before(r, get.pos))
      <4>1. get.pos \notin Buckets
        BY <1>1, <2>1, <2>2, LiveFacts
      <4>2. Bucket(c) \in Buckets /\ Bucket(c)' = Bucket(c)
        BY <1>1, <1>2, <2>1, <3>4, LiveFacts
      <4>3. PICK q : q = get.pos
        OBVIOUS
      <4>4. /\ Bucket(get.pos)' = Bucket(c)
            /\ Before(get.pos, get.prev)' = Before(c, q)
            /\ \A r : Before(get.pos, r)' = Before(c, r) /\ Before(r, get.prev)' = Before(r, q)
        BY <1>1, <3>2, <3>3, <4>3 DEF Bucket, hash, Before
      <4>5. /\ Before(c, q)
            /\ \A r \in Live : Bucket(r) = Bucket(c) => ~(Before(c, r) /\ Before(r, q))
        BY <1>2, <3>2, <3>4, <4>1, <4>2, <4>3, <4>4 DEF IsPrev
      <4> QED
        BY <4>3, <4>5
    <3>6. /\ \A p \in Live : ~Before(p, p)
          /\ \A p, r \in Live : p # r => Before(p, r) \/ Before(r, p)
          /\ \A p, q, r \in Live : Before(p, q) /\ Before(q, r) => Before(p, r)
      <4>1. Live \subseteq Nat /\ oldest \in Nat
        BY <1>1, EntryFacts DEF RingIInv, TypeOK
      <4> QED
        BY <4>1, BeforeOrder
    <3>7. Passed' = {r \in Live : Bucket(r) = hash(get.key) /\ Before(c, r)}
      <4>1. hash(get.key)' = hash(get.key)
        BY <1>1, <3>2 DEF hash
      <4>2. \A r : Before(get.pos, r)' = Before(c, r)
        BY <1>1, <3>3 DEF Before
      <4> QED
        BY <1>2, <4>1, <4>2 DEF Passed
    <3>8. Passed' = Passed \cup {get.pos} /\ get.pos \notin Passed
      BY <2>2, <3>4, <3>5, <3>6, <3>7 DEF Passed
    <3>9. IsFiniteSet(Passed)
      BY <1>1, FS_Subset DEF RankOK, Passed
    <3> QED
      BY <2>3, <3>2, <3>8, <3>9, FS_AddElement, SMTT(40)
  <2> QED
    BY <2>4, <2>5
<1> QED
  BY <1>3, <1>4, <1>5 DEF cache_get

LEMMA RInvInit == Init => RInv
<1> SUFFICES ASSUME Init PROVE RInv
  OBVIOUS
<1>1. WalkCounts
  BY DEF Init, WalkCounts
<1>2. Fresh
  BY DEF Init, Fresh, Live, Nothing
<1> QED
  BY <1>1, <1>2, IInvInit DEF RInv

LEMMA RInvStep == RInv /\ [Next]_vars => RInv'
<1> SUFFICES ASSUME RInv, [Next]_vars PROVE RInv'
  OBVIOUS
<1>0. IInv /\ IInv' /\ WalkCounts /\ Fresh /\ TypeOK /\ RingIInv
  BY IInvStep DEF RInv, IInv, RingIInv
<1>t. /\ MaxTTL \in Nat /\ now \in Nat
      /\ \A p \in Live : ent[p].expire \in Nat
  BY <1>0, NumAssumption, EntryFacts DEF TypeOK
<1>1. CASE Tick
  <2>1. now' = now + 1 /\ UNCHANGED <<pc, siphash, ring, ent, get>>
    BY <1>1 DEF Tick
  <2>2. Fresh'
    BY <1>0, <1>t, <2>1 DEF Fresh, Live
  <2>3. Passed' = Passed
    BY <2>1 DEF Passed, Live, Bucket, hash, Before, ring
  <2>4. WalkCounts'
    BY <1>0, <2>1, <2>3 DEF WalkCounts
  <2> QED
    BY <1>0, <2>2, <2>4 DEF RInv
<1>2. CASE UNCHANGED vars
  <2>1. UNCHANGED <<pc, siphash, ring, ent, get, now>>
    BY <1>2 DEF vars
  <2>2. Fresh'
    BY <1>0, <2>1 DEF Fresh, Live
  <2>3. Passed' = Passed
    BY <2>1 DEF Passed, Live, Bucket, hash, Before, ring
  <2>4. WalkCounts'
    BY <1>0, <2>1, <2>3 DEF WalkCounts
  <2> QED
    BY <1>0, <2>2, <2>4 DEF RInv
<1>3. CASE cache_init
  <2>1. pc' # "get" /\ (Live' = {} \/ UNCHANGED <<ent, now>>)
    BY <1>3 DEF cache_init, cache_init_start, cache_init_double, cache_init_alloc, Live, Nothing
  <2>2. Fresh'
    BY <1>0, <2>1 DEF Fresh, Live
  <2> QED
    BY <1>0, <2>1, <2>2 DEF RInv, WalkCounts
<1>4. CASE cache_set_start \/ cache_set_giveup
  <2>1. pc' # "get" /\ UNCHANGED <<ent, now>>
    BY <1>4 DEF cache_set_start, cache_set_giveup
  <2>2. Fresh'
    BY <1>0, <2>1 DEF Fresh, Live
  <2> QED
    BY <1>0, <2>1, <2>2 DEF RInv, WalkCounts
<1>5. CASE cache_set_evict
  <2>1. PICK v \in Live : Forgets(v)
    BY <1>0, <1>5, ChainsEvict
  <2>2. now' = now /\ pc' = "set"
    BY <1>0, <1>5, ChainsEvict DEF cache_set_evict
  <2>3. \A p \in Live' : p \in Live /\ ent'[p].expire = ent[p].expire
    BY <2>1 DEF Forgets, Entry
  <2>4. Fresh'
    BY <1>0, <2>2, <2>3 DEF Fresh
  <2> QED
    BY <1>0, <2>2, <2>4 DEF RInv, WalkCounts
<1>6. CASE cache_set_insert
  <2>1. PICK w \in Nat : Stores(w)
    BY <1>0, <1>6, ChainsInsert
  <2>2. now' = now /\ pc' = "idle"
    BY <1>0, <1>6, ChainsInsert DEF cache_set_insert
  <2>3. arg.ttl \in 1..MaxTTL
    BY <1>0, <1>6 DEF cache_set_insert, TypeOK
  <2>4. \A p \in Live : ent'[p].expire = ent[p].expire
    BY <2>1 DEF Stores, Entry
  <2>5. ent'[w].expire = now + arg.ttl /\ Live' = Live \cup {w}
    BY <2>1 DEF Stores, Entry
  <2>6. Fresh'
    BY <1>0, <1>t, <2>2, <2>3, <2>4, <2>5 DEF Fresh
  <2> QED
    BY <1>0, <2>2, <2>6 DEF RInv, WalkCounts
<1>7. CASE cache_get
  <2>1. UNCHANGED <<ent, now>>
    BY <1>7 DEF cache_get, cache_get_refuse, cache_get_start, cache_get_end,
                cache_get_found, cache_get_pass, Return
  <2>2. Fresh'
    BY <1>0, <2>1 DEF Fresh, Live
  <2> QED
    BY <1>0, <1>7, <2>2, WalkCountsStep DEF RInv
<1> QED
  BY <1>1, <1>2, <1>3, <1>4, <1>5, <1>6, <1>7 DEF Next, cache_set

LEMMA RInvHolds == Spec => []RInv
BY RInvInit, RInvStep, PTL DEF Spec

\* What MissHasReason says of one step.
MissStep ==
  \A k \in Key :
    (ret' # ret /\ ret' = Miss(k) /\ x) =>
       \A p \in Live :
         ent[p].key = k =>
           \/ \E r \in Live : Before(p, r) /\ ent[r].key = k
           \/ ent[p].expire < now
           \/ KeyLen[k] > MaxKeyLen
           \/ Cardinality({r \in Live : Bucket(r) = hash(k) /\ Before(p, r)}) > MaxLoop

LEMMA MissStepHolds == RInv /\ [Next]_vars => [MissStep]_vars
<1> SUFFICES ASSUME RInv, Next PROVE MissStep
  OBVIOUS
<1>0. IInv /\ WalkCounts /\ TypeOK /\ RingIInv /\ RankOK
  BY RankFacts DEF RInv, IInv, RingIInv
<1>1. \A k \in Key : Miss(k) # None /\ (\A d \in Data : d # None)
  BY NoneAssumption DEF Miss
<1>2. CASE ret' = ret \/ ret' = None
  BY <1>1, <1>2 DEF MissStep
<1>3. CASE cache_get_refuse
  <2>1. PICK h \in Key : (~x \/ KeyLen[h] > MaxKeyLen) /\ ret' = Miss(h)
    BY <1>3 DEF cache_get_refuse
  <2>2. \A k \in Key : Miss(k) = Miss(h) => k = h
    BY DEF Miss
  <2> QED
    BY <2>1, <2>2 DEF MissStep
<1>4. ASSUME pc = "get"
      PROVE  /\ get.key \in Key /\ get.loop \in 0..MaxLoop /\ MaxLoop \in Nat /\ x
             /\ get.pos \in Live \cup {0} /\ 0 \notin Live
             /\ \A p \in Live : ent[p].key = get.key =>
                  /\ get.pos \in Live
                  /\ p = get.pos \/ Before(p, get.pos)
             /\ \A k \in Key : Miss(k) = Miss(get.key) => k = get.key
             /\ get.pos # 0 => Bucket(get.pos) = hash(get.key)
  <2>1. x /\ get \in [key : Key, prev : Nat, pos : Int, loop : 0..MaxLoop]
    BY <1>0, <1>4 DEF TypeOK
  <2>2. /\ get.pos \in Live \cup {0}
        /\ get.pos # 0 => Bucket(get.pos) = hash(get.key)
        /\ \A r \in Live : ent[r].key = get.key => get.pos # 0 /\ ~Before(get.pos, r)
    BY <1>0, <1>4 DEF IInv, WalkOnCourse
  <2>3. Live \subseteq Nat /\ oldest \in Nat /\ 0 \notin Live
    BY <1>0, <2>1, LiveFacts DEF TypeOK
  <2>4. \A p, r \in Live : p # r => Before(p, r) \/ Before(r, p)
    BY <2>3, BeforeOrder
  <2>5. \A k \in Key : Miss(k) = Miss(get.key) => k = get.key
    BY DEF Miss
  <2>6. get.key \in Key /\ get.loop \in 0..MaxLoop /\ MaxLoop \in Nat
    BY <2>1, NumAssumption
  <2> QED
    BY <2>1, <2>2, <2>3, <2>4, <2>5, <2>6
<1>5. CASE cache_get_end
  BY <1>4, <1>5 DEF cache_get_end, Return, MissStep
<1>6. CASE cache_get_found
  <2>1. pc = "get" /\ get.pos \in Live /\ ent[get.pos].key = get.key
    BY <1>6 DEF cache_get_found, KeyMatches
  <2>2. CASE Expired(ent[get.pos])
    <3>1. ret' = Miss(get.key) /\ ent[get.pos].expire < now
      BY <1>6, <2>2 DEF cache_get_found, Return, Expired
    <3> QED
      BY <1>4, <2>1, <3>1 DEF MissStep
  <2>3. CASE ~Expired(ent[get.pos])
    <3>1. ret'.data = ent[get.pos].data
      BY <1>6, <2>3 DEF cache_get_found, Return
    <3>2. ent[get.pos].data \in Data
      BY <1>0, <2>1, EntryFacts
    <3>3. \A k \in Key : Miss(k).data = None
      BY DEF Miss
    <3> QED
      BY <1>1, <3>1, <3>2, <3>3 DEF MissStep
  <2> QED
    BY <2>2, <2>3
<1>7. CASE cache_get_pass /\ get.loop + 1 > MaxLoop /\ ret' = Miss(get.key)
  <2>1. pc = "get" /\ get.pos # 0 /\ ~KeyMatches
    BY <1>7 DEF cache_get_pass
  <2>2. get.pos \in Live /\ get.loop = MaxLoop /\ Cardinality(Passed) = MaxLoop
    BY <1>0, <1>4, <1>7, <2>1 DEF WalkCounts
  <2>3. IsFiniteSet(Live) /\ IsFiniteSet(Passed) /\ get.pos \notin Passed
    <3>1. IsFiniteSet(Live) /\ ~Before(get.pos, get.pos)
      BY <1>0, <2>2, EntryFacts, BeforeOrder DEF RankOK, TypeOK
    <3> QED
      BY <3>1, FS_Subset DEF Passed
  <2>4. Cardinality(Passed \cup {get.pos}) = MaxLoop + 1
    BY <2>2, <2>3, FS_AddElement
  <2>5. ASSUME NEW p \in Live, ent[p].key = get.key
        PROVE  Cardinality({r \in Live : Bucket(r) = hash(get.key) /\ Before(p, r)}) > MaxLoop
    <3> DEFINE Newer == {r \in Live : Bucket(r) = hash(get.key) /\ Before(p, r)}
    <3>1. Before(p, get.pos)
      BY <1>4, <2>1, <2>2, <2>5 DEF KeyMatches
    <3>2. \A r \in Live : Before(get.pos, r) => Before(p, r)
      <4>1. Live \subseteq Nat /\ oldest \in Nat
        BY <1>0, EntryFacts DEF TypeOK
      <4> QED
        BY <2>2, <3>1, <4>1, BeforeOrder
    <3>3. Passed \cup {get.pos} \in SUBSET Newer
      BY <1>4, <2>1, <2>2, <3>1, <3>2 DEF Passed
    <3>4. IsFiniteSet(Newer) /\ Cardinality(Newer) \in Nat
      BY <2>3, FS_Subset, FS_CardinalityType
    <3>5. Cardinality(Passed \cup {get.pos}) <= Cardinality(Newer)
      BY <3>3, <3>4, FS_Subset
    <3> QED
      BY <1>4, <2>1, <2>4, <3>4, <3>5
  <2> QED
    BY <1>4, <1>7, <2>1, <2>5 DEF MissStep
<1>8. CASE cache_get_pass /\ ~(get.loop + 1 > MaxLoop /\ ret' = Miss(get.key))
  <2>1. ret' = ret
    BY <1>8 DEF cache_get_pass, Return
  <2> QED
    BY <1>2, <2>1
<1>9. Tick \/ cache_init \/ cache_set \/ cache_get_start => ret' = ret \/ ret' = None
  BY DEF Tick, cache_init, cache_init_start, cache_init_double, cache_init_alloc, cache_set,
         cache_set_start, cache_set_giveup, cache_set_evict, cache_set_insert, cache_get_start
<1> QED
  BY <1>2, <1>3, <1>5, <1>6, <1>7, <1>8, <1>9 DEF Next, cache_get

\* cache_get (cache.c:102-141) misses only because the key is not stored,
\* its newest entry has expired, the key is too long, or more than MaxLoop
\* newer entries of its bucket are in front of it.
THEOREM CacheMissHasReason == Spec => MissHasReason
BY RInvHolds, MissStepHolds, PTL DEF Spec, MissHasReason, MissStep

----------------------------------------------------------------------------
(* cache.c implements the first-in first-out store of CacheSpec *)

LEMMA AbstractInit == Init => Abstract!Init
<1> SUFFICES ASSUME Init PROVE Abstract!Init
  OBVIOUS
<1>1. RingIInv /\ Live = {}
  BY RingInit DEF Init, Live, Nothing
<1>2. Queue = << >>
  BY <1>1, QueueEmpty DEF NoneLive, NoneQueued
<1> QED
  BY <1>2 DEF Init, Abstract!Init

\* Every step is a step of the store or leaves it alone.
LEMMA AbstractStep == RInv /\ [Next]_vars => [Abstract!Next]_(Abstract!avars)
<1> SUFFICES ASSUME RInv, [Next]_vars
             PROVE  Abstract!Next \/ UNCHANGED <<Queue, now, ret>>
  BY DEF Abstract!avars
<1>0. IInv /\ RingIInv /\ RingIInv' /\ TypeOK /\ Fresh /\ RankOK /\ QueueOK
  BY RingStep, RankFacts, QueueFacts DEF RInv, IInv, RingIInv
<1>1. CASE UNCHANGED vars
  BY <1>1, QueueFrame DEF vars, ring
<1>2. CASE Tick
  <2>1. Queue' = Queue /\ now' = now + 1 /\ ret' = ret
    BY <1>2, QueueFrame DEF Tick, ring
  <2> QED
    BY <2>1 DEF Abstract!Tick, Abstract!Next
<1>3. CASE cache_init_start
  <2>1. NoneLive'
    BY <1>3 DEF cache_init_start, NoneLive, Live, Nothing
  <2>2. NoneQueued'
    BY <1>0, <2>1, QueueEmpty, PTL
  <2>3. ret' = None /\ now' = now
    BY <1>3 DEF cache_init_start
  <2> QED
    BY <2>2, <2>3 DEF NoneQueued, Abstract!Clear, Abstract!Next
<1>4. CASE cache_init_double
  BY <1>4, QueueFrame DEF cache_init_double
<1>5. CASE cache_init_alloc
  <2>1. NoneLive /\ NoneLive' /\ UNCHANGED <<now, ret>>
    BY <1>0, <1>5 DEF cache_init_alloc, RingIInv, Sizing, Tiled, NoneLive, Live
  <2>2. NoneQueued /\ NoneQueued'
    BY <1>0, <2>1, QueueEmpty, PTL
  <2> QED
    BY <2>1, <2>2 DEF NoneQueued
<1>6. CASE cache_set_start \/ cache_set_giveup
  <2>1. UNCHANGED <<ent, oldest, now, ret>>
    BY <1>6 DEF cache_set_start, cache_set_giveup, ring
  <2> QED
    BY <2>1, QueueFrame
<1>7. CASE cache_set_evict
  <2>1. PICK v \in Live : Forgets(v)
    BY <1>0, <1>7, ChainsEvict
  <2>2. Queue # << >> /\ Queue' = Tail(Queue)
    BY <1>0, <2>1, QueueForgets
  <2>3. ret' = None /\ now' = now
    BY <1>0, <1>7, ChainsEvict DEF cache_set_evict, IInv
  <2> QED
    BY <2>2, <2>3 DEF Abstract!Evict, Abstract!Next
<1>8. CASE cache_set_insert
  <2>1. PICK w \in Nat : Stores(w)
    BY <1>0, <1>8, ChainsInsert
  <2>2. Queue' = Append(Queue, [key |-> arg.key, data |-> arg.data, expire |-> now + arg.ttl])
    BY <1>0, <2>1, QueueStores
  <2>3. arg.key \in Key /\ arg.data \in Data /\ arg.ttl \in 1..MaxTTL
    BY <1>0, <1>8 DEF cache_set_insert, TypeOK
  <2>4. ret' = None /\ now' = now
    BY <1>0, <1>8, ChainsInsert DEF cache_set_insert
  <2> QED
    BY <2>2, <2>3, <2>4 DEF Abstract!Store, Abstract!Next
<1>9. CASE cache_get
  <2>1. Queue' = Queue /\ now' = now
    <3>1. UNCHANGED <<ent, oldest, now>>
      BY <1>9 DEF cache_get, cache_get_refuse, cache_get_start, cache_get_end,
                  cache_get_found, cache_get_pass, Return, ring
    <3> QED
      BY <3>1, QueueFrame
  <2>2. pc = "get" => get.key \in Key
    BY <1>0 DEF TypeOK
  <2>3. CASE ret' = ret
    BY <2>1, <2>3
  <2>4. CASE ret' = None
    BY <2>1, <2>4 DEF Abstract!Ask, Abstract!Next
  <2>5. CASE \E k \in Key : ret' = Miss(k)
    BY <2>1, <2>5 DEF Miss, Abstract!Miss, Abstract!Next
  <2>6. CASE cache_get_found /\ ~Expired(ent[get.pos])
    <3> DEFINE e == ent[get.pos]
    <3>1. pc = "get" /\ get.pos \in Live /\ e.key = get.key /\ ~(e.expire < now)
      BY <2>6 DEF cache_get_found, KeyMatches, Expired
    <3>2. ret' = [key |-> get.key, data |-> e.data, ttl |-> Min2(e.expire - now, MaxTTL)]
      BY <2>6 DEF cache_get_found, Return
    <3>3. e.expire \in Nat /\ now \in Nat /\ MaxTTL \in Nat
      BY <1>0, <3>1, NumAssumption, EntryFacts DEF TypeOK
    <3>4. Min2(e.expire - now, MaxTTL) = e.expire - now /\ now <= e.expire
      BY <1>0, <3>1, <3>3 DEF Min2, Fresh
    <3> DEFINE i == Rank(get.pos) + 1
    <3>5. i \in 1..Len(Queue)
      <4>1. Rank(get.pos) \in 0..(Cardinality(Live) - 1) /\ Cardinality(Live) \in Nat
        BY <1>0, <3>1 DEF RankOK
      <4> QED
        BY <1>0, <4>1 DEF QueueOK
    <3>6. Queue[i] = Entry(get.pos)
      BY <1>0, <3>1 DEF QueueOK
    <3>7. Queue[i].key = get.key /\ Queue[i].data = e.data /\ Queue[i].expire = e.expire
      BY <3>1, <3>6 DEF Entry
    <3>8. ASSUME NEW j \in (i+1)..Len(Queue)
          PROVE  Queue[j].key # get.key
      <4>1. Rank(get.pos) \in Nat /\ Len(Queue) \in Nat
        BY <1>0, <3>1 DEF RankOK, QueueOK
      <4>2. j \in 1..Len(Queue) /\ j > Rank(get.pos) + 1
        BY <4>1
      <4>3. PICK p \in Live : Rank(p) + 1 = j /\ Queue[j] = Entry(p)
        BY <1>0, <4>2 DEF QueueOK
      <4>4. Rank(p) \in Nat
        BY <1>0 DEF RankOK
      <4>5. Rank(get.pos) < Rank(p)
        BY <4>1, <4>2, <4>3, <4>4
      <4>6. Before(get.pos, p)
        BY <1>0, <3>1, <4>5 DEF RankOK
      <4>7. ent[p].key # get.key
        BY <1>0, <3>1, <4>6 DEF IInv, WalkOnCourse
      <4> QED
        BY <4>3, <4>7 DEF Entry
    <3> HIDE DEF e, i
    <3>9. Abstract!Newest(get.key, i)
      BY <3>7, <3>8 DEF Abstract!Newest
    <3>10. ret' = [key |-> get.key, data |-> Queue[i].data, ttl |-> Queue[i].expire - now]
           /\ now <= Queue[i].expire
      BY <3>2, <3>4, <3>7
    <3>11. Abstract!Hit
      BY <2>1, <2>2, <3>1, <3>5, <3>9, <3>10 DEF Abstract!Hit
    <3> QED
      BY <3>11 DEF Abstract!Next
  <2>7. ret' = ret \/ ret' = None \/ (\E k \in Key : ret' = Miss(k))
        \/ (cache_get_found /\ ~Expired(ent[get.pos]))
    <3>1. CASE cache_get_refuse \/ cache_get_start
      BY <3>1 DEF cache_get_refuse, cache_get_start
    <3>2. CASE cache_get_end \/ cache_get_found \/ cache_get_pass
      BY <2>2, <3>2 DEF cache_get_end, cache_get_found, cache_get_pass, Return
    <3> QED
      BY <1>9, <3>1, <3>2 DEF cache_get
  <2> QED
    BY <2>3, <2>4, <2>5, <2>6, <2>7
<1> QED
  BY <1>1, <1>2, <1>3, <1>4, <1>5, <1>6, <1>7, <1>8, <1>9 DEF Next, cache_init, cache_set

\* dnscache.8's "simply removes the oldest entries", and a hit is the newest
\* entry of its key, never an expired one: every behaviour of cache.c is one
\* of the store of CacheSpec.
THEOREM CacheImplements == Spec => ImplementsCacheSpec
BY AbstractInit, AbstractStep, RInvHolds, PTL DEF Spec, ImplementsCacheSpec, Abstract!Spec
=============================================================================
