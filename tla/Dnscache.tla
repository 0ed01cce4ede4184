------------------------------ MODULE Dnscache ------------------------------
(***************************************************************************)
(* dnscache.c: the main loop, its table u of UDP queries and its table t   *)
(* of TCP connections.                                                     *)
(*                                                                         *)
(* The program has one thread.  pc is its place in the loop of doit, k the *)
(* slot in hand.  The handlers are cut where several things happen to one  *)
(* slot in turn: u_new chooses a slot, then receives, then starts the      *)
(* query; t_rw completes a packet, then starts the query.  Resolving a     *)
(* query (query.c) is external here: it fails, ends or goes on.            *)
(* The start times of the slots come from a strictly increasing clock; the *)
(* ten-second deadline of a connection is a flag that time may set at any  *)
(* moment (late).                                                          *)
(***************************************************************************)
EXTENDS Integers, FiniteSets

CONSTANTS
  MAXUDP, MAXTCP, MAXSOA,   \* 200, 20, 20
  Client,
  QType,        \* the query types that may arrive, of "SOA", "AXFR", "other"
  MinLen,       \* shortest query: 12
  Lens,         \* lengths a TCP client may announce
  ResponseLens, \* lengths of responses
  MaxQueries,   \* bound on numqueries
  MaxArrivals,  \* bound on the calls of u_new and t_new
  None

ASSUME DnscacheAssumption ==
  /\ MAXUDP \in Nat \ {0} /\ MAXTCP \in Nat \ {0} /\ MAXSOA \in Nat
  /\ MinLen \in Nat \ {0} /\ Lens \subseteq Nat /\ ResponseLens \subseteq Nat
  /\ QType \subseteq {"SOA", "AXFR", "other"}
  /\ MaxQueries \in Nat /\ MaxArrivals \in Nat
  /\ None \notin Client

USlots == 0..(MAXUDP - 1)
TSlots == 0..(MAXTCP - 1)
Serials == 1..MaxQueries

VARIABLES
  pc, k,
  u,            \* slots: active, start, client (ip, port, id), type (of the query q)
  uactive, soaactive,
  t,            \* slots: active, start, state, buf (its size, 0 if none), len, pos, late
  tactive,
  numqueries,
  qtype,        \* the type of the query just received by u_new
  upolled, tpolled,   \* the slots whose io entry was filled in this iteration
  \* history
  clock,        \* number of calls of u_new and t_new
  heap,         \* blocks allocated for the bufs of t
  log,          \* last log line about each query: "query", then "sent" or "drop"
  asker,        \* the client of each UDP query
  misled        \* whether a query_start failed before it noted the type

vars == <<pc, k, u, uactive, soaactive, t, tactive, numqueries, qtype, upolled, tpolled,
          clock, heap, log, asker, misled>>
udp == <<u, uactive, soaactive, qtype, asker, misled>>
tcp == <<t, tactive, heap>>
polled == <<upolled, tpolled>>

Init ==
  /\ pc = "pause" /\ k = 0
  /\ u = [j \in USlots |-> [active |-> 0, start |-> 0, client |-> None, type |-> "other"]]
  /\ uactive = 0 /\ soaactive = 0
  /\ t = [j \in TSlots |-> [active |-> 0, start |-> 0, state |-> 0, buf |-> 0,
                            len |-> 0, pos |-> 0, late |-> FALSE]]
  /\ tactive = 0
  /\ numqueries = 0 /\ qtype = "other"
  /\ upolled = {} /\ tpolled = {}
  /\ clock = 0 /\ heap = 0
  /\ log = [n \in Serials |-> "unused"]
  /\ asker = [n \in Serials |-> None]
  /\ misled = FALSE

ActiveU == {j \in USlots : u[j].active # 0}
ActiveT == {j \in TSlots : t[j].active # 0}

Settle(n, how) == [log EXCEPT ![n] = IF @ = "query" THEN how ELSE "twice"]

----------------------------------------------------------------------------
(* The loop of doit *)

iopause ==
  /\ pc = "pause"
  /\ upolled' = ActiveU /\ tpolled' = ActiveT
  /\ pc' = "u" /\ k' = 0
  /\ UNCHANGED udp /\ UNCHANGED tcp /\ UNCHANGED <<numqueries, clock, log>>

\* On to the next slot of u, then those of t, then the two listening sockets.
NextU == IF k + 1 < MAXUDP THEN pc' = "u" /\ k' = k + 1 ELSE pc' = "t" /\ k' = 0
NextT == IF k + 1 < MAXTCP THEN pc' = "t" /\ k' = k + 1 ELSE pc' = "u_new" /\ k' = 0
AfterUNew == pc' = "t_new" /\ k' = 0
AfterTNew_noPause == pc' = "u" /\ k' = 0   \* mutant: round again without iopause
AfterTNew == pc' = "pause" /\ k' = 0

\* Ten seconds since the last event on a connection.
Expire(j) ==
  /\ t[j].active # 0 /\ ~t[j].late
  /\ t' = [t EXCEPT ![j].late = TRUE]
  /\ UNCHANGED <<pc, k, numqueries, clock, log, tactive, heap>>
  /\ UNCHANGED udp /\ UNCHANGED polled

----------------------------------------------------------------------------
(* UDP queries *)

SoaShare(type) == IF type = "SOA" THEN 1 ELSE 0

\* u_drop and u_respond, for a slot whose q.type is now type.
EndQuery(j, type, how) ==
  /\ u' = [u EXCEPT ![j].active = 0, ![j].type = type]
  /\ uactive' = uactive - 1
  /\ soaactive' = soaactive - SoaShare(type)
  /\ log' = Settle(u[j].active, how)

u_skip ==
  /\ pc = "u" /\ u[k].active = 0
  /\ NextU
  /\ UNCHANGED udp /\ UNCHANGED tcp /\ UNCHANGED polled /\ UNCHANGED <<numqueries, clock, log>>

\* query_get says that the query goes on.
u_wait ==
  /\ pc = "u" /\ u[k].active # 0
  /\ NextU
  /\ UNCHANGED udp /\ UNCHANGED tcp /\ UNCHANGED polled /\ UNCHANGED <<numqueries, clock, log>>

\* query_get failed or has a response.
u_end(j) == \E how \in {"sent", "drop"} :
  /\ pc = "u" /\ k = j /\ u[j].active # 0
  /\ EndQuery(j, u[j].type, how)
  /\ NextU
  /\ UNCHANGED tcp /\ UNCHANGED polled
  /\ UNCHANGED <<numqueries, clock, qtype, asker, misled>>

u_new_none ==
  /\ pc = "u_new"
  /\ AfterUNew
  /\ UNCHANGED udp /\ UNCHANGED tcp /\ UNCHANGED polled /\ UNCHANGED <<numqueries, clock, log>>

Free(slots, x) == {j \in slots : x[j].active = 0}
First(slots) == CHOOSE j \in slots : \A i \in slots : j <= i
Oldest_newest(slots, x) ==   \* mutant: taia_less the wrong way round
  CHOOSE j \in slots : \A i \in slots : x[i].start <= x[j].start
Oldest(slots, x) == CHOOSE j \in slots : \A i \in slots : x[j].start <= x[i].start

\* A free slot, ...
u_new_free ==
  /\ pc = "u_new" /\ clock < MaxArrivals
  /\ Free(USlots, u) # {}
  /\ pc' = "u_recv" /\ k' = First(Free(USlots, u))
  /\ UNCHANGED udp /\ UNCHANGED tcp /\ UNCHANGED polled /\ UNCHANGED <<numqueries, clock, log>>

\* mutant: the oldest query is not dropped
u_new_evict_quiet ==
  /\ pc = "u_new" /\ clock < MaxArrivals
  /\ Free(USlots, u) = {}
  /\ pc' = "u_recv" /\ k' = Oldest(USlots, u)
  /\ UNCHANGED udp /\ UNCHANGED tcp /\ UNCHANGED polled /\ UNCHANGED <<numqueries, clock, log>>

\* ... or the one of the oldest query, which is dropped.
u_new_evict == LET j == Oldest(USlots, u) IN
  /\ pc = "u_new" /\ clock < MaxArrivals
  /\ Free(USlots, u) = {}
  /\ pc' = "u_recv" /\ k' = j
  /\ EndQuery(j, u[j].type, "drop")
  /\ UNCHANGED tcp /\ UNCHANGED polled /\ UNCHANGED <<numqueries, clock, qtype, asker, misled>>

\* Nothing to receive, or a packet that is not an acceptable query: the slot
\* has the sender's address all the same.
u_recv_reject ==
  /\ pc = "u_recv"
  /\ clock' = clock + 1
  /\ \E c \in Client \cup {u[k].client} :
       u' = [u EXCEPT ![k].start = clock', ![k].client = c]
  /\ AfterUNew
  /\ UNCHANGED tcp /\ UNCHANGED polled
  /\ UNCHANGED <<numqueries, uactive, soaactive, qtype, log, asker, misled>>

u_recv_maxsoa == \E c \in Client :
  /\ pc = "u_recv" /\ numqueries < MaxQueries
  /\ "SOA" \in QType /\ soaactive >= MAXSOA
  /\ clock' = clock + 1
  /\ numqueries' = numqueries + 1
  /\ u' = [u EXCEPT ![k].start = clock', ![k].client = c, ![k].active = 0]
  /\ log' = [log EXCEPT ![numqueries'] = "drop"]
  /\ asker' = [asker EXCEPT ![numqueries'] = c]
  /\ AfterUNew
  /\ UNCHANGED tcp /\ UNCHANGED polled /\ UNCHANGED <<uactive, soaactive, qtype, misled>>

u_recv_query == \E c \in Client, type \in QType :
  /\ pc = "u_recv" /\ numqueries < MaxQueries
  /\ ~(type = "SOA" /\ soaactive >= MAXSOA)
  /\ clock' = clock + 1
  /\ numqueries' = numqueries + 1
  /\ u' = [u EXCEPT ![k].start = clock', ![k].client = c, ![k].active = numqueries']
  /\ uactive' = uactive + 1
  /\ soaactive' = soaactive + SoaShare(type)
  /\ qtype' = type
  /\ log' = [log EXCEPT ![numqueries'] = "query"]
  /\ asker' = [asker EXCEPT ![numqueries'] = c]
  /\ pc' = "u_query"
  /\ UNCHANGED tcp /\ UNCHANGED polled /\ UNCHANGED <<k, misled>>

\* query_start fails early: an AXFR query, or no memory for its name.  The
\* slot's q.type is still that of the query before.
u_query_refused ==
  /\ pc = "u_query"
  /\ EndQuery(k, u[k].type, "drop")
  /\ misled' = TRUE
  /\ AfterUNew
  /\ UNCHANGED tcp /\ UNCHANGED polled /\ UNCHANGED <<numqueries, clock, qtype, asker>>

\* query_start fails later, or responds from the cache.
u_query_end == \E how \in {"sent", "drop"} :
  /\ pc = "u_query" /\ qtype # "AXFR"
  /\ EndQuery(k, qtype, how)
  /\ AfterUNew
  /\ UNCHANGED tcp /\ UNCHANGED polled
  /\ UNCHANGED <<numqueries, clock, qtype, asker, misled>>

u_query_wait ==
  /\ pc = "u_query" /\ qtype # "AXFR"
  /\ u' = [u EXCEPT ![k].type = qtype]
  /\ AfterUNew
  /\ UNCHANGED tcp /\ UNCHANGED polled
  /\ UNCHANGED <<numqueries, clock, log, uactive, soaactive, qtype, asker, misled>>

----------------------------------------------------------------------------
(* TCP connections *)

Blocks(x) == IF x.buf # 0 THEN 1 ELSE 0

Freed(x) == [x EXCEPT !.buf = 0]
Closed(x) == [Freed(x) EXCEPT !.active = 0]

\* Slot j becomes x, with a new block; nothing is freed.
Alloc(j, x) ==
  /\ t' = [t EXCEPT ![j] = x]
  /\ heap' = heap + 1
  /\ UNCHANGED tactive

\* Slot j becomes x; its buf, if it has one, is freed, and a new block
\* allocated if x has one.
Renew(j, x) ==
  /\ t' = [t EXCEPT ![j] = x]
  /\ heap' = heap - Blocks(t[j]) + Blocks(x)
  /\ UNCHANGED tactive

\* Slot j becomes x, which has the same buf or none before and after.
Update(j, x) == t' = [t EXCEPT ![j] = x] /\ UNCHANGED <<heap, tactive>>

\* t_close of slot j, whose fields are now x.
t_close(j, x) ==
  /\ t' = [t EXCEPT ![j] = Closed(x)]
  /\ tactive' = tactive - 1
  /\ heap' = heap - Blocks(t[j])

\* t_respond: the response, two bytes of length before it, replaces the buf
\* of slot j, whose fields are now x; without memory the connection closes.
t_respond(j, x) == \E n \in ResponseLens :
  \/ Renew(j, [x EXCEPT !.len = n + 2, !.buf = n + 2, !.pos = 0, !.state = -1])
  \/ t_close(j, [x EXCEPT !.len = n + 2])

\* t_timeout when an event has come.
Seen(x, revents) == [x EXCEPT !.late = @ /\ ~revents]

t_skip ==
  /\ pc = "t" /\ t[k].active = 0
  /\ NextT
  /\ UNCHANGED udp /\ UNCHANGED tcp /\ UNCHANGED polled /\ UNCHANGED <<numqueries, clock, log>>

\* query_get: the query goes on.
t_wait == \E revents \in BOOLEAN :
  /\ pc = "t" /\ t[k].active # 0 /\ t[k].state = 0
  /\ Update(k, Seen(t[k], revents))
  /\ NextT
  /\ UNCHANGED udp /\ UNCHANGED polled /\ UNCHANGED <<numqueries, clock, log>>

\* query_get: the query has failed or has a response.
t_end(j) == \E revents \in BOOLEAN, how \in {"sent", "drop"} :
  LET x == Seen(t[j], revents) IN
  /\ pc = "t" /\ k = j /\ t[j].active # 0 /\ t[j].state = 0
  /\ log' = Settle(t[j].active, how)
  /\ IF how = "sent" THEN t_respond(j, x) ELSE t_close(j, x)
  /\ NextT
  /\ UNCHANGED udp /\ UNCHANGED polled /\ UNCHANGED <<numqueries, clock>>

TimedOut_never(x) == FALSE   \* mutant: only events count
TimedOut(x) == x.late

t_idle ==
  /\ pc = "t" /\ t[k].active # 0 /\ t[k].state # 0 /\ ~TimedOut(t[k])
  /\ NextT
  /\ UNCHANGED udp /\ UNCHANGED tcp /\ UNCHANGED polled /\ UNCHANGED <<numqueries, clock, log>>

\* t_rw is called, for an event or for the deadline.
Called(j, revents) == /\ pc = "t" /\ k = j /\ t[j].active # 0 /\ t[j].state # 0
                      /\ revents \/ TimedOut(t[j])

\* read or write fails (at the deadline, for want of data), or the client
\* has closed, or announces too short a query, or there is no memory, or the
\* packet is no acceptable query.
t_rw_close(j) == \E revents \in BOOLEAN :
  /\ Called(j, revents)
  /\ t_close(j, Seen(t[j], revents))
  /\ NextT
  /\ UNCHANGED udp /\ UNCHANGED polled /\ UNCHANGED <<numqueries, clock, log>>

\* r bytes of the response are written, not yet all.
t_rw_write == \E revents \in BOOLEAN :
  /\ Called(k, revents) /\ t[k].state = -1
  /\ \E r \in 1..(t[k].len - t[k].pos - 1) :
       Update(k, [Seen(t[k], revents) EXCEPT !.pos = @ + r])
  /\ NextT
  /\ UNCHANGED udp /\ UNCHANGED polled /\ UNCHANGED <<numqueries, clock, log>>

\* The rest of it.
t_rw_written == \E revents \in BOOLEAN :
  /\ Called(k, revents) /\ t[k].state = -1
  /\ Renew(k, [Freed(Seen(t[k], revents)) EXCEPT !.pos = @ + (t[k].len - t[k].pos), !.state = 1])
  /\ NextT
  /\ UNCHANGED udp /\ UNCHANGED polled /\ UNCHANGED <<numqueries, clock, log>>

\* One byte of the length.
t_rw_len1 == \E revents \in BOOLEAN :
  /\ Called(k, revents) /\ t[k].state = 1
  /\ Update(k, [Seen(t[k], revents) EXCEPT !.len = 0, !.state = 2])
  /\ NextT
  /\ UNCHANGED udp /\ UNCHANGED polled /\ UNCHANGED <<numqueries, clock, log>>

LongEnough_any(n) == n >= 0   \* mutant: any length will do
LongEnough(n) == n >= MinLen

\* The second byte, or both.
t_rw_len2 == \E revents \in BOOLEAN, n \in Lens :
  /\ Called(k, revents) /\ t[k].state \in {1, 2}
  /\ LongEnough(n)
  /\ Alloc(k, [Seen(t[k], revents) EXCEPT !.len = n, !.buf = n, !.pos = 0, !.state = 3])
  /\ NextT
  /\ UNCHANGED udp /\ UNCHANGED polled /\ UNCHANGED <<numqueries, clock, log>>

\* r bytes of the query, not yet all.
t_rw_read == \E revents \in BOOLEAN :
  /\ Called(k, revents) /\ t[k].state = 3
  /\ \E r \in 1..(t[k].len - t[k].pos - 1) :
       Update(k, [Seen(t[k], revents) EXCEPT !.pos = @ + r])
  /\ NextT
  /\ UNCHANGED udp /\ UNCHANGED polled /\ UNCHANGED <<numqueries, clock, log>>

\* The rest of it, an acceptable query.
t_rw_query == \E revents \in BOOLEAN :
  /\ Called(k, revents) /\ t[k].state = 3 /\ numqueries < MaxQueries
  /\ numqueries' = numqueries + 1
  /\ Update(k, [Seen(t[k], revents) EXCEPT !.pos = t[k].len, !.active = numqueries'])
  /\ log' = [log EXCEPT ![numqueries'] = "query"]
  /\ pc' = "t_query"
  /\ UNCHANGED k /\ UNCHANGED udp /\ UNCHANGED polled /\ UNCHANGED clock

\* query_start fails or responds, ...
t_query_end == \E how \in {"sent", "drop"} :
  /\ pc = "t_query"
  /\ log' = Settle(t[k].active, how)
  /\ IF how = "sent" THEN t_respond(k, t[k]) ELSE t_close(k, t[k])
  /\ NextT
  /\ UNCHANGED udp /\ UNCHANGED polled /\ UNCHANGED <<numqueries, clock>>

\* ... or the query goes on.
t_query_wait ==
  /\ pc = "t_query"
  /\ Renew(k, [Freed(t[k]) EXCEPT !.state = 0])
  /\ NextT
  /\ UNCHANGED udp /\ UNCHANGED polled /\ UNCHANGED <<numqueries, clock, log>>

t_new_none ==
  /\ pc = "t_new"
  /\ AfterTNew
  /\ UNCHANGED udp /\ UNCHANGED tcp /\ UNCHANGED polled /\ UNCHANGED <<numqueries, clock, log>>

t_new_free ==
  /\ pc = "t_new" /\ clock < MaxArrivals
  /\ Free(TSlots, t) # {}
  /\ pc' = "t_accept" /\ k' = First(Free(TSlots, t))
  /\ UNCHANGED udp /\ UNCHANGED tcp /\ UNCHANGED polled /\ UNCHANGED <<numqueries, clock, log>>

\* The oldest connection goes; with t_drop if it has a query under way.
EvictLog_silent(x) == log   \* mutant: t_close in any state
EvictLog(x) == IF x.state = 0 THEN Settle(x.active, "drop") ELSE log

t_new_evict == LET j == Oldest(TSlots, t) IN
  /\ pc = "t_new" /\ clock < MaxArrivals
  /\ Free(TSlots, t) = {}
  /\ pc' = "t_accept" /\ k' = j
  /\ log' = EvictLog(t[j])
  /\ t_close(j, t[j])
  /\ UNCHANGED udp /\ UNCHANGED polled /\ UNCHANGED <<numqueries, clock>>

\* No connection, or one that is not wanted.
t_accept_fail ==
  /\ pc = "t_accept"
  /\ clock' = clock + 1
  /\ Update(k, [t[k] EXCEPT !.start = clock'])
  /\ AfterTNew
  /\ UNCHANGED udp /\ UNCHANGED polled /\ UNCHANGED <<numqueries, log>>

t_accept ==
  /\ pc = "t_accept"
  /\ clock' = clock + 1
  /\ t' = [t EXCEPT ![k].start = clock', ![k].active = 1, ![k].state = 1, ![k].late = FALSE]
  /\ tactive' = tactive + 1
  /\ AfterTNew
  /\ UNCHANGED heap /\ UNCHANGED udp /\ UNCHANGED polled /\ UNCHANGED <<numqueries, log>>

----------------------------------------------------------------------------
Udp ==
  \/ u_skip \/ u_wait \/ (\E j \in USlots : u_end(j))
  \/ u_new_none \/ u_new_free \/ u_new_evict
  \/ u_recv_reject \/ u_recv_maxsoa \/ u_recv_query
  \/ u_query_refused \/ u_query_end \/ u_query_wait

Tcp ==
  \/ t_skip \/ t_wait \/ (\E j \in TSlots : t_end(j))
  \/ t_idle \/ (\E j \in TSlots : t_rw_close(j)) \/ t_rw_write \/ t_rw_written
  \/ t_rw_len1 \/ t_rw_len2 \/ t_rw_read \/ t_rw_query
  \/ t_query_end \/ t_query_wait
  \/ t_new_none \/ t_new_free \/ t_new_evict \/ t_accept_fail \/ t_accept

doit == iopause \/ Udp \/ Tcp

Next == doit \/ \E j \in TSlots : Expire(j)

Spec == Init /\ [][Next]_vars

\* The loop runs on; a query that is asked about again and again ends (each
\* exchange with the servers ends, see Transmit, and query.c counts its
\* loops); and time passes.
Fairness ==
  /\ WF_vars(doit)
  /\ \A j \in USlots : SF_vars(u_end(j))
  /\ \A j \in TSlots : SF_vars(t_end(j)) /\ WF_vars(Expire(j))

FairSpec == Spec /\ Fairness

----------------------------------------------------------------------------
(* Properties *)

\* The types.  soaactive is an int: see SoaCounted.
TypeOK ==
  /\ pc \in {"pause", "u", "t", "u_new", "u_recv", "u_query", "t_query", "t_new", "t_accept"}
  /\ k \in Nat
  /\ pc \in {"u", "u_recv", "u_query"} => k \in USlots
  /\ pc \in {"t", "t_query", "t_accept"} => k \in TSlots
  /\ u \in [USlots -> [active : 0..numqueries, start : 0..clock, client : Client \cup {None},
                       type : {"SOA", "AXFR", "other"}]]
  /\ uactive \in Nat /\ soaactive \in Int
  /\ t \in [TSlots -> [active : 0..MaxQueries \cup {1}, start : 0..clock, state : -1..3,
                       buf : Nat, len : Nat, pos : Nat, late : BOOLEAN]]
  /\ tactive \in Nat
  /\ numqueries \in 0..MaxQueries
  /\ qtype \in {"SOA", "AXFR", "other"}
  /\ upolled \subseteq USlots /\ tpolled \subseteq TSlots
  /\ clock \in 0..MaxArrivals /\ heap \in Int
  /\ log \in [Serials -> {"unused", "query", "sent", "drop", "twice"}]
  /\ asker \in [Serials -> Client \cup {None}]
  /\ misled \in BOOLEAN

\* The counters that dnscache logs are the numbers of active slots
\* (dnscache-log.5: "udp-active Number of queries that dnscache has received
\* via UDP but not yet responded to or dropped"), and every block allocated
\* for a connection belongs to one that is open.
Counted ==
  /\ uactive = Cardinality(ActiveU)
  /\ tactive = Cardinality(ActiveT)
  /\ heap = Cardinality({j \in ActiveT : t[j].buf # 0})

\* The table of states in dnscache.c:175-181, and "0, or dynamically
\* allocated of length len": there is a buffer exactly in states 3 and -1,
\* never too small for what is read into it or written from it, and always
\* with something left to read or write.  (In the midst of t_rw, a complete
\* query still has its buffer.)
BufMatchesState ==
  \A j \in ActiveT : LET x == t[j] IN
    /\ x.state \in {0, 1, 2} => x.buf = 0
    /\ x.state \in {3, -1} => x.buf = x.len /\ x.pos <= x.len
    /\ x.state \in {3, -1} /\ x.pos = x.len => pc = "t_query" /\ k = j

\* The slots that have query n to settle.  A new connection has 1 for its
\* number, whoever else has query 1.
Holders(n) ==
  {<<"u", j>> : j \in {i \in USlots : u[i].active = n}} \cup
  {<<"t", j>> : j \in {i \in TSlots : /\ t[i].active = n
                                      /\ t[i].state = 0 \/ (pc = "t_query" /\ k = i)}}

\* Every query that is logged is logged as sent or dropped once: until then
\* exactly one slot has it, and no slot has it after.
SettledOnce ==
  \A n \in Serials :
    /\ log[n] # "twice"
    /\ log[n] = "unused" <=> n > numqueries
    /\ IF log[n] = "query" THEN \E h \in Holders(n) : Holders(n) = {h}
                           ELSE Holders(n) = {}

\* A response goes to the client that asked, although u_new takes the
\* address of a packet into the slot before it knows whether to accept it.
AnswersAsker == \A j \in ActiveU : u[j].client = asker[u[j].active]

\* u_new drops a query only when every slot is taken, and then the one that
\* came first; t_new closes a connection only when every slot is taken.
EvictsOldest ==
  [][/\ pc = "u_new" => \A j \in ActiveU \ ActiveU' :
                          ActiveU = USlots /\ \A i \in USlots : u[j].active <= u[i].active
     /\ pc = "t_new" => \A j \in ActiveT \ ActiveT' :
                          ActiveT = TSlots /\ \A i \in TSlots : t[j].start <= t[i].start]_vars

\* The SOA queries under way.
SoaUnderWay ==
  {j \in ActiveU : IF pc = "u_query" /\ k = j THEN qtype = "SOA" ELSE u[j].type = "SOA"}

\* soaactive is the number of SOA queries under way, as long as no
\* query_start has failed before it noted the type of its query (u_drop then
\* goes by the type of the slot's query before).
SoaCounted == ~misled => soaactive = Cardinality(SoaUnderWay)

\* query_get and t_rw only look at an io entry that iopause has filled in
\* this iteration, never at one of a slot taken since.
PolledFirst ==
  /\ pc = "u" => \A j \in ActiveU : j >= k => j \in upolled
  /\ pc \in {"u", "t"} => \A j \in ActiveT : (pc = "t" => j >= k) => j \in tpolled

\* The promise of the tables, for dnscache and dqcache alike: every query is
\* settled once, towards the client that asked it, whatever slots were taken
\* away, reused or called for nothing meanwhile, and the counters, buffers
\* and poll entries are those of the slots in use.
ServesAsker ==
  /\ SettledOnce /\ AnswersAsker
  /\ Counted /\ BufMatchesState /\ SoaCounted /\ PolledFirst

\* Every query is answered or dropped in the end, ...
QueriesSettle == \A n \in Serials : log[n] = "query" ~> log[n] \in {"sent", "drop"}

\* ... and every connection is closed in the end, if only for being idle,
\* given that its client has only so many queries.
ConnectionsClose == \A j \in TSlots : t[j].active # 0 ~> t[j].active = 0

\* Nothing that came in by UDP or TCP stays for ever.
AllEnds == QueriesSettle /\ ConnectionsClose

\* dnscache.c:77 "#define MAXSOA 20", log.c:124 "maxsoa": there are never
\* more than MAXSOA SOA queries under way.
SoaLimited == Cardinality(SoaUnderWay) <= MAXSOA
=============================================================================
