----------------------------- MODULE CacheSpec -----------------------------
(***************************************************************************)
(* What a client of cache.c may rely on, without rings, links or hashing:  *)
(* a first-in first-out store.  dnscache.8 says the cache "simply removes  *)
(* the oldest entries"; a lookup is decided by the newest entry of its key *)
(* and is allowed to miss (a cache never promises to remember).            *)
(***************************************************************************)
EXTENDS Integers, Sequences

CONSTANTS Key, Data, MaxTTL, None

VARIABLES
  q,      \* the stored entries [key, data, expire], oldest first
  now,    \* the clock
  ret     \* the result of the last lookup, None once the store has changed

avars == <<q, now, ret>>

Init == q = << >> /\ now = 0 /\ ret = None

Tick == now' = now + 1 /\ UNCHANGED <<q, ret>>

\* Everything is forgotten: the cache is allocated anew.
Clear == q' = << >> /\ ret' = None /\ UNCHANGED now

\* Only the oldest entry is ever removed.
Evict == q # << >> /\ q' = Tail(q) /\ ret' = None /\ UNCHANGED now

\* A new entry expires at most MaxTTL seconds from now.
Store == /\ \E k \in Key, d \in Data, ttl \in 1..MaxTTL :
              q' = Append(q, [key |-> k, data |-> d, expire |-> now + ttl])
         /\ ret' = None /\ UNCHANGED now

Newest(k, i) == /\ q[i].key = k
                /\ \A j \in (i+1)..Len(q) : q[j].key # k

\* A lookup begins.
Ask == ret' = None /\ UNCHANGED <<q, now>>

Miss == /\ \E k \in Key : ret' = [key |-> k, data |-> None, ttl |-> 0]
        /\ UNCHANGED <<q, now>>

\* A hit returns the newest entry of the key, never an expired one, and the
\* time it has left.
Hit == /\ \E k \in Key, i \in 1..Len(q) :
            /\ Newest(k, i)
            /\ now <= q[i].expire
            /\ ret' = [key |-> k, data |-> q[i].data, ttl |-> q[i].expire - now]
       /\ UNCHANGED <<q, now>>

Next == Tick \/ Clear \/ Evict \/ Store \/ Ask \/ Miss \/ Hit

Spec == Init /\ [][Next]_avars
=============================================================================
