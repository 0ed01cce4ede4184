---------------------------- MODULE SecretCache ----------------------------
(* cache_hashtable.c of curvedns: the table of shared secrets.  Entries live *)
(* in one array and are linked three times: into the doubly linked list of   *)
(* their bucket, and by nexttable into the list of used or of unused ones.   *)
(* A pointer is the number of an entry, 0 for NULL.                          *)
EXTENDS Naturals, FiniteSets, FiniteSetsExt, Functions

CONSTANTS Key,          \* public keys of clients
          cache_hash,   \* a bucket for every key
          NrBuckets, NrEntries,
          None

Entry == 1..NrEntries
Pointer == 0..NrEntries
Bucket == 0..(NrBuckets - 1)

ASSUME HashAssumption ==
  /\ NrEntries \in Nat /\ NrEntries > 1 /\ NrBuckets \in 1..NrEntries
  /\ cache_hash \in [Key -> Bucket] /\ None \notin Key

\* The table and its links, with these values.
Tables(V) ==
  [next : [Entry -> Pointer], prev : [Entry -> Pointer], nexttable : [Entry -> Pointer],
   key : [Entry -> Key \cup {None}], value : [Entry -> V \cup {None}], buckets : [Bucket -> Pointer],
   headunused : Pointer, headused : Pointer, lastused : Pointer, nrused : Nat]

cache_init ==
  [next |-> [e \in Entry |-> 0], prev |-> [e \in Entry |-> 0],
   nexttable |-> [e \in Entry |-> IF e < NrEntries THEN e + 1 ELSE 0],
   key |-> [e \in Entry |-> None], value |-> [e \in Entry |-> None],
   buckets |-> [b \in Bucket |-> 0],
   headunused |-> 1, headused |-> 0, lastused |-> 0, nrused |-> 0]

\* The entries reached from e by some links, by how many steps it takes.
Walk(e, link) ==
  LET at[n \in 0..NrEntries] == IF n = 0 THEN e ELSE IF at[n - 1] = 0 THEN 0 ELSE link[at[n - 1]]
  IN at

\* The first entry of the bucket with the key, 0 if there is none.
cache_get(t, key) ==
  LET at == Walk(t.buckets[cache_hash[key]], t.next)
      hits == {n \in 0..NrEntries : at[n] # 0 /\ t.key[at[n]] = key}
  IN IF t.nrused = 0 \/ hits = {} THEN 0 ELSE at[Min(hits)]

\* The oldest entry leaves its bucket, of which it is the last.
Evict_keepsHead(t) ==   \* mutant: a bucket of one is not emptied
  LET e == t.headused
  IN [t EXCEPT !.headused = t.nexttable[e],
               !.next = IF t.prev[e] # 0 THEN [@ EXCEPT ![t.prev[e]] = 0] ELSE @]
Evict(t) ==
  LET e == t.headused
  IN [t EXCEPT !.headused = t.nexttable[e],
               !.next = IF t.prev[e] # 0 THEN [@ EXCEPT ![t.prev[e]] = 0] ELSE @,
               !.buckets = IF t.prev[e] # 0 THEN @ ELSE [@ EXCEPT ![cache_hash[t.key[e]]] = 0]]

Take(t) ==
  [t EXCEPT !.nrused = @ + 1, !.headunused = t.nexttable[@], !.headused = IF @ = 0 THEN t.headunused ELSE @]

\* Entry e becomes the newest, of the table and of its bucket.
Insert(t, e, key, value) ==
  LET b     == cache_hash[key]
      first == t.buckets[b]
      Linked(f) == IF t.lastused = 0 THEN f ELSE [f EXCEPT ![t.lastused] = e]
  IN [t EXCEPT !.key[e] = key, !.value[e] = value, !.lastused = e,
               !.nexttable = Linked([@ EXCEPT ![e] = 0]),
               !.next[e] = first,
               !.prev = [x \in Entry |-> IF x = e THEN 0 ELSE IF x = first THEN e ELSE @[x]],
               !.buckets[b] = e]

\* The table with the key, unless it is full and yet has an unused entry.
cache_set(t, key, value) ==
  IF t.nrused >= NrEntries
  THEN IF t.headunused # 0 THEN t ELSE Insert(Evict(t), t.headused, key, value)
  ELSE Insert(Take(t), t.headunused, key, value)

\* All used entries go to the unused ones, the oldest first.
cache_empty(t) ==
  LET at == Walk(t.headused, t.nexttable)
      used == {at[n] : n \in 0..NrEntries} \ {0}
      Before(e) == LET n == CHOOSE n \in 0..NrEntries : at[n] = e
                   IN IF n = 0 THEN t.headunused ELSE at[n - 1]
  IN [t EXCEPT !.nexttable = [e \in Entry |-> IF e \in used THEN Before(e) ELSE @[e]],
               !.next = [e \in Entry |-> IF e \in used THEN 0 ELSE @[e]],
               !.prev = [e \in Entry |-> IF e \in used THEN 0 ELSE @[e]],
               !.key = [e \in Entry |-> IF e \in used THEN None ELSE @[e]],
               !.value = [e \in Entry |-> IF e \in used THEN None ELSE @[e]],
               !.headunused = IF used = {} THEN @ ELSE CHOOSE e \in used : t.nexttable[e] = 0,
               !.buckets = [b \in Bucket |-> 0],
               !.headused = 0, !.lastused = 0, !.nrused = 0]

----------------------------------------------------------------------------
(* Properties *)

Members(e, link) == Range(Walk(e, link)) \ {0}

\* After any history of new clients, evictions and SIGHUPs, every used entry
\* is in the list of its key's bucket, once, and linked both ways, newest
\* first; the used and the unused entries are lists of their own, and no key
\* is stored twice.
Sound(t) ==
  LET used   == Members(t.headused, t.nexttable)
      unused == Members(t.headunused, t.nexttable)
      chain  == [b \in Bucket |-> Members(t.buckets[b], t.next)]
      Age(e) == CHOOSE n \in 0..NrEntries : Walk(t.headused, t.nexttable)[n] = e
  IN /\ used \cap unused = {} /\ used \cup unused = Entry
     /\ Cardinality(used) = t.nrused
     /\ t.nrused > 0 => t.lastused \in used /\ t.nexttable[t.lastused] = 0
     /\ \A b \in Bucket : chain[b] = {e \in used : cache_hash[t.key[e]] = b}
     /\ \A b \in Bucket : t.buckets[b] # 0 => t.prev[t.buckets[b]] = 0
     /\ \A e \in used : t.next[e] # 0 => t.prev[t.next[e]] = e /\ Age(t.next[e]) < Age(e)
     /\ \A e, f \in used : t.key[e] = t.key[f] => e = f
=============================================================================
