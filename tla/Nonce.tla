------------------------------- MODULE Nonce -------------------------------
(* dns_nonce.c of dq: the nonces of DNSCurve queries.  Several dqcaches may  *)
(* share a key ($SECRETKEY) and then differ in the first bits of their       *)
(* nonces ($NONCESTART); any of them may stop and be started again.          *)
(*                                                                           *)
(* Of the twelve bytes of a nonce n[0] is kept, as its Bits bits, the first  *)
(* one highest, and the counter, which TEA encrypts one to one under         *)
(* noncekey; the three bytes between are random and left out.  The key of a  *)
(* process is that of its crypto and of TEA, both derived from one seed.     *)
(* wall is the clock that nanoseconds reads.  A call takes some time, so two *)
(* calls do not read the same nanosecond, unless somebody sets the clock     *)
(* back.                                                                     *)
EXTENDS Integers, Sequences

CONSTANTS Process,
          NonceStart,     \* $NONCESTART of each process, a sequence of bits
          SecretKey,      \* $SECRETKEY of the processes that have one
          Bits,           \* 8 * NSS
          MaxWall, MaxBoots, MaxUsed    \* bounds

\* dqcache.8: "several caches share a key but use separate nonces".
ASSUME NonceAssumption ==
  /\ Bits \in Nat \ {0} /\ MaxWall \in Nat /\ MaxBoots \in Nat /\ MaxUsed \in Nat
  /\ NonceStart \in [Process -> Seq({0, 1})]
  /\ \A p, q \in Process \cap DOMAIN SecretKey : (p # q /\ SecretKey[p] = SecretKey[q]) =>
       \E i \in 1..Bits : /\ i <= Len(NonceStart[p]) /\ i <= Len(NonceStart[q])
                          /\ NonceStart[p][i] # NonceStart[q][i]

VARIABLES
  wall,           \* nanoseconds()
  running,        \* the processes that run
  noncecounter,   \* of each process
  \* history
  boots, boot,    \* how many starts there were, and which one each process comes from
  used, made,     \* the nonces made, and how many
  setback         \* whether the clock was set back

nonce_vars == <<wall, running, noncecounter, boots, boot, used, made, setback>>

NonceInit ==
  /\ wall = 1 /\ running = {}
  /\ noncecounter = [p \in Process |-> 0]
  /\ boots = 0 /\ boot = [p \in Process |-> 0]
  /\ used = {} /\ made = 0 /\ setback = FALSE

----------------------------------------------------------------------------
Passes == wall < MaxWall /\ wall' = wall + 1

\* The bits of mask are 1 where the byte is random, those of data are the
\* ones asked for.
noncemask(ns) == [i \in 1..Bits |-> IF i <= Len(ns) THEN 0 ELSE 1]
noncedata(ns) == [i \in 1..Bits |-> IF i <= Len(ns) THEN ns[i] ELSE 0]

\* The key of process p from the nth start: a random one is like no other.
SeedOf(p, n) == IF p \in DOMAIN SecretKey THEN <<SecretKey[p], 0>> ELSE <<p, n>>

\* Too long a $NONCESTART ends the program.
dns_nonce_init(p) ==
  /\ p \notin running /\ boots < MaxBoots /\ Len(NonceStart[p]) <= Bits
  /\ noncecounter' = [noncecounter EXCEPT ![p] = wall]
  /\ running' = running \cup {p}
  /\ boots' = boots + 1 /\ boot' = [boot EXCEPT ![p] = boots + 1]
  /\ Passes /\ UNCHANGED <<used, made, setback>>

\* The clock may have gone past the counter, and the counter past the clock.
Counter_clock(p) == wall                       \* mutant: the time alone
Counter(p) == IF wall > noncecounter[p] THEN wall ELSE noncecounter[p]

FirstByte_random(p, r) == r                        \* mutant: the mask is not applied
FirstByte(p, r) == [i \in 1..Bits |-> r[i] * noncemask(NonceStart[p])[i] + noncedata(NonceStart[p])[i]]

\* The nonce made of the random byte r.
dns_nonce(p, r) ==
  /\ p \in running /\ made < MaxUsed
  /\ noncecounter' = [noncecounter EXCEPT ![p] = Counter(p) + 1]
  /\ used' = used \cup {[by |-> p, boot |-> boot[p], key |-> SeedOf(p, boot[p]), serial |-> made,
                          first |-> FirstByte(p, r), counter |-> Counter(p) + 1]}
  /\ made' = made + 1
  /\ Passes /\ UNCHANGED <<running, boots, boot, setback>>

\* The process ends, dns_nonce_purge or not.
Ends(p) ==
  /\ p \in running /\ running' = running \ {p}
  /\ UNCHANGED <<wall, noncecounter, boots, boot, used, made, setback>>

\* Time passes, and somebody may set the clock back.
nanoseconds == Passes /\ UNCHANGED <<running, noncecounter, boots, boot, used, made, setback>>
SetBack ==
  /\ wall' \in 1..(wall - 1) /\ setback' = TRUE
  /\ UNCHANGED <<running, noncecounter, boots, boot, used, made>>

RandomByte == [1..Bits -> {0, 1}]

NonceNext ==
  \/ \E p \in Process : dns_nonce_init(p) \/ (\E r \in RandomByte : dns_nonce(p, r)) \/ Ends(p)
  \/ nanoseconds \/ SetBack

NonceSpec == NonceInit /\ [][NonceNext]_nonce_vars

----------------------------------------------------------------------------
(* Properties *)

\* No nonce is used twice with a key, however the random bytes fall: not by
\* one process, although its clock may be set back while it runs; not by two
\* that share the key, whatever their clocks say; and not by one that was
\* started again, unless the clock was set back meanwhile.
NonceOnce ==
  \A a, b \in used :
    (a # b /\ a.key = b.key /\ (setback => a.by # b.by \/ a.boot = b.boot)) =>
      a.first # b.first \/ a.counter # b.counter
=============================================================================
