------------------------------- MODULE Cache -------------------------------
(***************************************************************************)
(* cache.c: the record cache of dnscache, a ring of variable-length        *)
(* entries over one block of memory, indexed by hash chains whose links    *)
(* are the exclusive-or of the two neighbours' positions.                  *)
(*                                                                         *)
(* Positions are the code's own byte positions.  A link is kept as the SET *)
(* of the non-zero positions that were xor-ed into it, so the code's `^'   *)
(* is symmetric difference.  Sets of positions map homomorphically onto    *)
(* 32-bit words (a set goes to the xor of its members), so as long as      *)
(* every link the code follows decodes to at most one position (a walk or  *)
(* an eviction that decodes anything else ends in "impossible" here), the  *)
(* code computes the same positions for every size of the cache.           *)
(*                                                                         *)
(* The bytes of an entry are one record.  An evicted entry's bytes stay in *)
(* the code's memory until they are overwritten; here they are forgotten   *)
(* at once, and touching them is "impossible" as well.                     *)
(*                                                                         *)
(* The three calls contain loops and run as several steps of pc;           *)
(* the process has one thread, so nothing but the clock moves in between.  *)
(***************************************************************************)
EXTENDS Integers, FiniteSets

CONSTANTS
  Key, Data,      \* keys and data that callers pass
  KeyLen,         \* their lengths in bytes
  DataLen,
  HashVal,        \* 32-bit values siphash24 may give a key
  CacheSizes,     \* arguments of cache_init
  TTLs,           \* arguments of cache_set
  MaxKeyLen,      \* MAXKEYLEN: 1000
  MaxDataLen,     \* MAXDATALEN: 1000000
  MaxTTL,         \* 604800
  MaxLoop,        \* entries a lookup may pass over: 100
  MaxNow,         \* bound on the clock
  None

ASSUME LenAssumption == /\ KeyLen \in [Key -> Nat]
                        /\ DataLen \in [Data -> Nat]
                        /\ MaxKeyLen \in Nat /\ MaxDataLen \in Nat
ASSUME NumAssumption == /\ HashVal \subseteq Nat
                        /\ CacheSizes \subseteq Nat
                        /\ TTLs \subseteq Nat
                        /\ MaxTTL \in Nat \ {0}
                        /\ MaxLoop \in Nat
                        /\ MaxNow \in Nat
ASSUME NoneAssumption == /\ None \notin Data
                         /\ None \notin [key : Key, data : Data \cup {None}, ttl : Nat]

VARIABLES
  pc,        \* "idle"; "size": in cache_init; "set": in cache_set;
             \* "get": in cache_get; "impossible": dead
  x,         \* whether the memory is allocated (x is not a null pointer)
  siphash,   \* the keyed hash: what siphash24 gives each key under siphash_key
  size, hsize, writer, oldest, unused,
  head,      \* x[0...hsize-1]: the head links
  ent,       \* the entries, by position
  arg,       \* the arguments of the cache_set under way
  get,       \* the key, prevpos, pos and loop of the cache_get under way
  now,       \* the clock
  ret        \* what the last cache_get returned; the caller holds a pointer into x,
             \* good until the next write into x (None from then on)

ring == <<size, hsize, writer, oldest, unused>>
vars == <<pc, x, siphash, ring, head, ent, arg, get, now, ret>>

HEADER == 20   \* link, keylen, datalen, expire time
MINSIZE == 100
MAXSIZE == 1000000000

----------------------------------------------------------------------------
(* Positions, links and entries *)

EntryLen(k, d) == KeyLen[k] + DataLen[d] + HEADER

\* The position after the entry at p.
End(p) == p + EntryLen(ent[p].key, ent[p].data)

Live == DOMAIN ent

Buckets == {p \in 0..(hsize - 1) : p % 4 = 0}

\* h & (hsize - 4), for hsize a power of 2
hash(k) == ((siphash[k] % hsize) \div 4) * 4

Xor(a, b) == (a \ b) \cup (b \ a)
Bits(p) == IF p = 0 THEN {} ELSE {p}

\* The position a link decodes to, -1 when it is not one position.
Pos(l) == IF l = {} THEN 0
          ELSE IF \E p \in l : l = {p} THEN CHOOSE p \in l : TRUE ELSE -1

----------------------------------------------------------------------------
\* No memory, no entries.
Nothing == [p \in {} |-> None]

Init == /\ pc = "idle" /\ x = FALSE
        /\ siphash = [k \in Key |-> 0]
        /\ size = 0 /\ hsize = 0 /\ writer = 0 /\ oldest = 0 /\ unused = 0
        /\ head = Nothing /\ ent = Nothing
        /\ arg = None /\ get = None
        /\ now = 0
        /\ ret = None

\* tai_now: seconds pass, during a call too.
Tick == /\ now < MaxNow
        /\ now' = now + 1
        /\ UNCHANGED <<pc, x, siphash, ring, head, ent, arg, get, ret>>

----------------------------------------------------------------------------
(* cache_init *)

Clamp(n) == IF n > MAXSIZE THEN MAXSIZE ELSE IF n < MINSIZE THEN MINSIZE ELSE n

\* A new hash key is drawn, the old memory is released, the size is clamped.
cache_init_start == \E n \in CacheSizes :
  /\ pc = "idle"
  /\ siphash' \in [Key -> HashVal]
  /\ x' = FALSE
  /\ size' = Clamp(n)
  /\ hsize' = 4
  /\ head' = Nothing /\ ent' = Nothing /\ ret' = None
  /\ pc' = "size"
  /\ UNCHANGED <<writer, oldest, unused, arg, get, now>>

\* while (hsize <= (size >> 5)) hsize <<= 1;
cache_init_double ==
  /\ pc = "size"
  /\ hsize <= size \div 32
  /\ hsize' = 2 * hsize
  /\ UNCHANGED <<pc, x, siphash, size, writer, oldest, unused, head, ent, arg, get, now, ret>>

\* The allocation succeeds and is zeroed, or fails and leaves no cache.
cache_init_alloc ==
  /\ pc = "size"
  /\ hsize > size \div 32
  /\ \/ /\ x' = TRUE
        /\ head' = [b \in Buckets |-> {}]
        /\ writer' = hsize /\ oldest' = size /\ unused' = size
     \/ UNCHANGED <<x, head, writer, oldest, unused>>
  /\ pc' = "idle"
  /\ UNCHANGED <<siphash, size, hsize, ent, arg, get, now, ret>>

----------------------------------------------------------------------------
(* cache_set *)

Min2(a, b) == IF a <= b THEN a ELSE b

cache_set_start == \E k \in Key, d \in Data, ttl \in TTLs :
  /\ pc = "idle"
  /\ x
  /\ KeyLen[k] <= MaxKeyLen
  /\ DataLen[d] <= MaxDataLen
  /\ ttl # 0
  /\ arg' = [key |-> k, data |-> d, ttl |-> Min2(ttl, MaxTTL)]
  /\ pc' = "set"
  /\ UNCHANGED <<x, siphash, ring, head, ent, get, now, ret>>

ArgLen == EntryLen(arg.key, arg.data)
Fits == writer + ArgLen <= oldest

\* The whole ring is empty and the entry still does not fit.
cache_set_giveup ==
  /\ pc = "set" /\ ~Fits
  /\ oldest = unused
  /\ writer <= hsize
  /\ pc' = "idle" /\ arg' = None
  /\ UNCHANGED <<x, siphash, ring, head, ent, get, now, ret>>

\* mutant: the item before the victim still points to it
Unlink_dangling(victim) == /\ ent' = [p \in Live \ {victim} |-> ent[p]]
                           /\ UNCHANGED head

\* The entry at victim leaves the tail of its chain: its link is then the
\* position of the item before it, whose own link loses the victim.
Unlink(victim) ==
  LET pos == Pos(ent[victim].link)
      rest == [p \in Live \ {victim} |->
                 IF p = pos THEN [ent[p] EXCEPT !.link = Xor(@, Bits(victim))]
                 ELSE ent[p]]
  IN /\ ent' = rest
     /\ head' = [b \in DOMAIN head |->
                   IF b = pos THEN Xor(head[b], Bits(victim)) ELSE head[b]]

\* The new oldest and unused when the entry before next is gone: the last
\* entry of the right part takes the whole part with it.
\* mutant: unused is always reset
PastVictim_unusedLost(next, limit) ==
  IF next = limit THEN <<size, size>> ELSE <<next, size>>
PastVictim(next, limit) ==
  IF next = limit THEN <<size, size>> ELSE <<next, limit>>

\* One turn of the eviction loop; at the end of the ring the writer first
\* goes back to its start.
cache_set_evict ==
  /\ pc = "set" /\ ~Fits
  /\ ~(oldest = unused /\ writer <= hsize)
  /\ LET wrap   == oldest = unused
         victim == IF wrap THEN hsize ELSE oldest
         limit  == IF wrap THEN writer ELSE unused
         next   == End(victim)
     IN IF victim \in Live /\ Pos(ent[victim].link) \in Live \cup Buckets /\ next <= limit
        THEN /\ Unlink(victim)
             /\ writer' = IF wrap THEN hsize ELSE writer
             /\ oldest' = PastVictim(next, limit)[1]
             /\ unused' = PastVictim(next, limit)[2]
             /\ ret' = None
             /\ UNCHANGED pc
        ELSE /\ pc' = "impossible"
             /\ UNCHANGED <<head, ent, writer, oldest, unused, ret>>
  /\ UNCHANGED <<x, siphash, size, hsize, arg, get, now>>

\* The new entry goes between the head and the newest entry of its bucket.
cache_set_insert ==
  /\ pc = "set" /\ Fits
  /\ LET keyhash == hash(arg.key)
         pos     == Pos(head[keyhash])
         new     == [key |-> arg.key, data |-> arg.data,
                     expire |-> now + arg.ttl,
                     link |-> Xor(Bits(pos), Bits(keyhash))]
     IN IF pos \in Live \cup {0}
        THEN /\ ent' = [p \in Live \cup {writer} |->
                          IF p = writer THEN new
                          ELSE IF p = pos
                          THEN [ent[p] EXCEPT !.link =
                                  Xor(Xor(@, Bits(keyhash)), Bits(writer))]
                          ELSE ent[p]]
             /\ head' = [head EXCEPT ![keyhash] = Bits(writer)]
             /\ writer' = writer + ArgLen
             /\ pc' = "idle"
             /\ arg' = None /\ ret' = None
        ELSE /\ pc' = "impossible"
             /\ UNCHANGED <<ent, head, writer, arg, ret>>
  /\ UNCHANGED <<x, siphash, size, hsize, oldest, unused, get, now>>

----------------------------------------------------------------------------
(* cache_get *)

Miss(k) == [key |-> k, data |-> None, ttl |-> 0]

\* The cache does not exist or the key is too long.
cache_get_refuse == \E k \in Key :
  /\ pc = "idle"
  /\ ~x \/ KeyLen[k] > MaxKeyLen
  /\ ret' = Miss(k)
  /\ UNCHANGED <<pc, x, siphash, ring, head, ent, arg, get, now>>

cache_get_start == \E k \in Key :
  /\ pc = "idle"
  /\ x /\ KeyLen[k] <= MaxKeyLen
  /\ get' = [key |-> k, prev |-> hash(k), pos |-> Pos(head[hash(k)]), loop |-> 0]
  /\ pc' = "get"
  /\ ret' = None
  /\ UNCHANGED <<x, siphash, ring, head, ent, arg, now>>

Return(r) == /\ ret' = r
             /\ pc' = "idle"
             /\ get' = None
             /\ UNCHANGED <<x, siphash, ring, head, ent, arg, now>>

\* The end of the chain.
cache_get_end == pc = "get" /\ get.pos = 0 /\ Return(Miss(get.key))

KeyMatches == get.pos \in Live /\ ent[get.pos].key = get.key

Expired_early(e) == e.expire <= now   \* mutant
Expired_never(e) == FALSE             \* mutant
Expired(e) == e.expire < now

\* The first entry with the key decides.
cache_get_found ==
  /\ pc = "get" /\ KeyMatches
  /\ LET e == ent[get.pos]
     IN Return(IF Expired(e) THEN Miss(get.key)
               ELSE [key |-> get.key, data |-> e.data, ttl |-> Min2(e.expire - now, MaxTTL)])

NextItem_stay == get   \* mutant: round the loop again at the same item
NextItem == [get EXCEPT !.prev = get.pos,
                        !.pos = Pos(Xor(Bits(get.prev), ent[get.pos].link)),
                        !.loop = @ + 1]

\* Another key's entry: on to the next one, unless MaxLoop have been passed
\* ("to protect against hash flooding").
cache_get_pass ==
  /\ pc = "get" /\ get.pos # 0 /\ ~KeyMatches
  /\ IF get.pos \notin Live
     THEN /\ pc' = "impossible"
          /\ UNCHANGED <<x, siphash, ring, head, ent, arg, get, now, ret>>
     ELSE IF get.loop + 1 > MaxLoop
     THEN Return(Miss(get.key))
     ELSE /\ get' = NextItem
          /\ UNCHANGED <<pc, x, siphash, ring, head, ent, arg, now, ret>>

----------------------------------------------------------------------------
cache_init == cache_init_start \/ cache_init_double \/ cache_init_alloc
cache_set  == cache_set_start \/ cache_set_giveup \/ cache_set_evict \/ cache_set_insert
cache_get  == cache_get_refuse \/ cache_get_start \/ cache_get_end
              \/ cache_get_found \/ cache_get_pass

Next == Tick \/ cache_init \/ cache_set \/ cache_get

\* A call runs to its end: the process does nothing else in the meantime.
Fairness == WF_vars(pc # "idle" /\ (cache_init \/ cache_set \/ cache_get))

Spec == Init /\ [][Next]_vars

FairSpec == Spec /\ Fairness

----------------------------------------------------------------------------
(* Properties *)

\* Every variable keeps the type its C declaration and use give it.
TypeOK ==
  /\ pc \in {"idle", "size", "set", "get", "impossible"}
  /\ x \in BOOLEAN
  /\ siphash \in [Key -> Nat]
  /\ size \in Nat /\ hsize \in Nat /\ writer \in Nat /\ oldest \in Nat /\ unused \in Nat
  /\ x => head \in [Buckets -> SUBSET Nat]
  /\ Live \subseteq Nat
  /\ ent \in [Live -> [key : Key, data : Data, expire : Nat, link : SUBSET Nat]]
  /\ pc = "set" => x /\ arg \in [key : Key, data : Data, ttl : 1..MaxTTL]
  /\ pc = "get" => x /\ get \in [key : Key, prev : Nat, pos : Int, loop : 0..MaxLoop]
  /\ now \in Nat
  /\ ret \in {None} \cup [key : Key, data : Data \cup {None}, ttl : 0..MaxTTL]

\* The comment at cache.c:22-28 holds between any two steps of any call:
\* the table is a sixteenth of the block at most and the four pointers stay
\* in order, whatever sequence of cache_set calls moved them.
RingInv ==
  x => /\ MINSIZE <= size /\ size <= MAXSIZE
       /\ 4 <= hsize /\ hsize <= size \div 16
       /\ hsize <= writer /\ writer <= oldest /\ oldest <= unused /\ unused <= size
       /\ (oldest = unused => unused = size)

\* No sequence of calls makes the code take cache_impossible (which kills
\* dnscache with status 111), follow a link that is not the position of an
\* entry, or read an entry that has been evicted.
NeverImpossible == pc # "impossible"

\* Entries fill x[hsize...writer-1] and x[oldest...unused-1] without gaps or
\* overlaps, so stepping over the oldest entry always lands on the next one.
Tiled ==
  /\ ~x => Live = {}
  /\ x /\ writer > hsize => hsize \in Live
  /\ x /\ oldest < unused => oldest \in Live
  /\ \A p \in Live :
       \/ hsize <= p /\ (End(p) = writer \/ (End(p) < writer /\ End(p) \in Live))
       \/ oldest <= p /\ (End(p) = unused \/ (End(p) < unused /\ End(p) \in Live))
  /\ \A p, r \in Live : p < r => End(p) <= r

\* Pointer order and gap-free filling together: the layout of the ring that
\* the comment at cache.c:22-28 describes.
Layout == RingInv /\ Tiled

\* Entry p was stored before entry r: the part of the ring to the right of
\* the free space was written before the part to its left.
Before(p, r) == IF (p >= oldest) <=> (r >= oldest) THEN p < r ELSE p >= oldest

Bucket(p) == hash(ent[p].key)

\* In the list of bucket b: a is the newest entry (0: the list is empty),
\* a is the item before entry p (the head link b, if p is the newest), and
\* a is the entry after p (0 if p is the oldest).
IsFirst(b, a) ==
  \/ a = 0 /\ \A r \in Live : Bucket(r) # b
  \/ a \in Live /\ Bucket(a) = b /\ \A r \in Live : Bucket(r) = b => ~Before(a, r)
IsPrev(p, a) ==
  \/ a = Bucket(p) /\ \A r \in Live : Bucket(r) = Bucket(p) => ~Before(p, r)
  \/ a \in Live /\ Bucket(a) = Bucket(p) /\ Before(p, a)
     /\ \A r \in Live : Bucket(r) = Bucket(p) => ~(Before(p, r) /\ Before(r, a))
IsNext(p, a) ==
  \/ a = 0 /\ \A r \in Live : Bucket(r) = Bucket(p) => ~Before(r, p)
  \/ a \in Live /\ Bucket(a) = Bucket(p) /\ Before(a, p)
     /\ \A r \in Live : Bucket(r) = Bucket(p) => ~(Before(a, r) /\ Before(r, p))

\* The comment at cache.c:37-42: each bucket is the list of exactly its live
\* entries, newest first, and each link joins an entry's two neighbours; so
\* the oldest entry of the ring is always the tail of its chain, which is
\* all the eviction code knows how to unlink.
ChainsLinked ==
  x => /\ \A b \in Buckets : \E a \in Live \cup {0} :
            IsFirst(b, a) /\ head[b] = Bits(a)
       /\ \A p \in Live : \E a \in Live \cup Buckets, c \in Live \cup {0} :
            IsPrev(p, a) /\ IsNext(p, c) /\ ent[p].link = Xor(Bits(a), Bits(c))

\* The whole comment at cache.c:22-42: the ring is laid out as it says and
\* every bucket is linked as it says, after any sequence of calls.
Linked == Layout /\ ChainsLinked

\* A lookup in progress is at an entry of its key's bucket, knows the item
\* before it, and has passed over no entry with its key: if the newest entry
\* of the key is still stored, it is ahead.
WalkOnCourse ==
  pc = "get" =>
    /\ get.pos \in Live \cup {0}
    /\ get.pos # 0 => Bucket(get.pos) = hash(get.key) /\ IsPrev(get.pos, get.prev)
    /\ \A r \in Live : ent[r].key = get.key => get.pos # 0 /\ ~Before(get.pos, r)

\* cache_get misses only for a reason: the key was never stored or has been
\* evicted, its newest entry has expired, or more than MaxLoop newer entries
\* of its bucket are in front of it.
MissHasReason ==
  [][ \A k \in Key :
        (ret' # ret /\ ret' = Miss(k) /\ x) =>
           \A p \in Live :
             ent[p].key = k =>
               \/ \E r \in Live : Before(p, r) /\ ent[r].key = k
               \/ ent[p].expire < now
               \/ KeyLen[k] > MaxKeyLen
               \/ Cardinality({r \in Live : Bucket(r) = hash(k) /\ Before(p, r)}) > MaxLoop ]_vars

\* Every call returns: the loops of cache_init, cache_set and cache_get end.
CallsReturn == pc \in {"size", "set", "get"} ~> pc = "idle"

\* The entries from oldest to newest.
Queue ==
  LET Nth(i) == CHOOSE p \in Live :
                  Cardinality({r \in Live : Before(r, p)}) = i - 1
  IN [i \in 1..Cardinality(Live) |->
        [key |-> ent[Nth(i)].key, data |-> ent[Nth(i)].data, expire |-> ent[Nth(i)].expire]]

Abstract == INSTANCE CacheSpec WITH q <- Queue

\* cache.c implements the first-in first-out store of CacheSpec: evictions
\* take the oldest entry, a hit is the newest entry of its key, unexpired.
ImplementsCacheSpec == Abstract!Spec

=============================================================================
