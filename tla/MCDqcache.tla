----------------------------- MODULE MCDqcache -----------------------------
(* The tables of dnscache, those of dqcache, the cache of dqcache on disk,   *)
(* and its nonces: questions that do not share their state, so a behaviour   *)
(* is about one of them.                                                     *)
EXTENDS Dqcache, DqDump, Nonce, TLC

VARIABLE part

MCKind == [x \in Key |-> IF x = "secret" THEN "AXFR" ELSE "rr"]

MCNonceStart == [p \in Process |-> IF p = "a" THEN <<0>> ELSE IF p = "b" THEN <<1, 0>> ELSE << >>]
MCSecretKey == [p \in {"a", "b"} |-> "k"]

Symmetry == Permutations(Client) \cup Permutations(Question)

\* One process, without the clock: handlers in handlers, or two records.
Once == now' = 0 /\ starts' <= 1
Signals == Once /\ (arg' # Nil => arg'.key # "r2")
Order == Once /\ Len(handlers') <= 1 /\ (arg' # Nil => arg'.key # "secret")
\* Death and restart, with the clock: one record at a time.
Restarts == Len(q') <= 1 /\ Len(handlers') <= 1 /\ (arg' # Nil => arg'.key = "rr")

MCInit == DqInit /\ DumpInit /\ NonceInit /\ part \in {"dnscache", "dqcache", "dump", "order", "reload", "nonce"}
MCNext ==
  \/ part = "dnscache" /\ Next /\ UNCHANGED <<part, asks>> /\ UNCHANGED dumpvars /\ UNCHANGED nonce_vars
  \/ \* to dqcache a query for an SOA record is like any other
     part = "dqcache" /\ DqNext /\ qtype' # "SOA" /\ UNCHANGED part /\ UNCHANGED dumpvars /\ UNCHANGED nonce_vars
  \/ part = "dump" /\ DumpNext /\ Signals /\ UNCHANGED part /\ UNCHANGED dqvars /\ UNCHANGED nonce_vars
  \/ part = "order" /\ DumpNext /\ Order /\ UNCHANGED part /\ UNCHANGED dqvars /\ UNCHANGED nonce_vars
  \/ part = "reload" /\ DumpNext /\ Restarts /\ UNCHANGED part /\ UNCHANGED dqvars /\ UNCHANGED nonce_vars
  \/ part = "nonce" /\ NonceNext /\ UNCHANGED part /\ UNCHANGED dqvars /\ UNCHANGED dumpvars
MCSpec == MCInit /\ [][MCNext]_<<dqvars, dumpvars, nonce_vars, part>>
=============================================================================
