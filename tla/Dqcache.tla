------------------------------ MODULE Dqcache ------------------------------
(* dqcache.c: the main loop of dqcache.  It descends from dnscache.c, from  *)
(* whose model the steps on the tables u and t are taken.  There is no      *)
(* limit on SOA queries (MAXSOA is of no use here) but one on queries for   *)
(* the same name and type (MAXUDPDUPLICATED); asks[j] is the name that the  *)
(* query of UDP slot j looks up, which its CNAME records change, and which  *)
(* is freed with the query.  A signal may end poll early: it leaves the     *)
(* events of the iteration before, so the handlers are called for nothing.  *)
EXTENDS Dnscache

CONSTANTS Question,            \* names and types
          MAXUDPDUPLICATED     \* 10

VARIABLE asks
dqvars == <<vars, asks>>

DqInit == Init /\ asks = [j \in USlots |-> None]

Same == UNCHANGED asks
Forget(j) == asks' = [asks EXCEPT ![j] = None]

----------------------------------------------------------------------------
(* UDP queries *)

dq_poll == iopause /\ Same

dq_u_skip == u_skip /\ Same

\* query_get: it goes on, perhaps for another name, ...
dq_u_wait == pc = "u" /\ \E q \in Question \cup {asks[k]} :
  u_wait /\ asks' = [asks EXCEPT ![k] = q]

\* ... or u_respond or u_drop.
dq_u_end == pc = "u" /\ u_end(k) /\ Forget(k)

dq_u_new_none == u_new_none /\ Same
dq_u_new_free == u_new_free /\ Same

\* The query of the slot is left to be cleaned up by the next.
dq_u_new_evict == u_new_evict /\ Same

\* Nothing to receive, a client that is not allowed, a bad query, ...
dq_u_reject == u_recv_reject /\ Same

\* ... or one of too many: counted are the slots in use that look up the name
\* now, whatever name they were asked for.
u_duplicatequerycount(q) == Cardinality({j \in ActiveU : asks[j] = q})
dq_u_duplicate == \E q \in Question :
  /\ u_duplicatequerycount(q) >= MAXUDPDUPLICATED
  /\ u_recv_reject /\ Same

\* A slot that was dropped still has its name until query_start.
dq_u_query == \E q \in Question :
  /\ u_duplicatequerycount(q) < MAXUDPDUPLICATED
  /\ u_recv_query
  /\ asks' = [asks EXCEPT ![k] = q]

dq_u_query_refused == u_query_refused /\ Forget(k)
dq_u_query_end == u_query_end /\ Forget(k)
dq_u_query_wait == u_query_wait /\ Same

----------------------------------------------------------------------------
(* TCP connections *)

dq_t_skip == t_skip /\ Same
dq_t_wait == t_wait /\ Same
dq_t_end == pc = "t" /\ t_end(k) /\ Same
dq_t_idle == t_idle /\ Same
dq_t_rw_close == pc = "t" /\ t_rw_close(k) /\ Same
dq_t_rw_write == (t_rw_write \/ t_rw_written) /\ Same
dq_t_rw_len1 == t_rw_len1 /\ Same
\* The bytes of the length come one at a time; only 0 is too short.
dq_t_rw_len2 == pc = "t" /\ t[k].state = 2 /\ t_rw_len2 /\ Same
dq_t_rw_read == (t_rw_read \/ t_rw_query) /\ Same
dq_t_query_end == t_query_end /\ Same
dq_t_query_wait == t_query_wait /\ Same

dq_t_new_none == t_new_none /\ Same
dq_t_new_free == t_new_free /\ Same
dq_t_new_evict == t_new_evict /\ Same
dq_t_accept == (t_accept \/ t_accept_fail) /\ Same

dq_t_timeout == (\E j \in TSlots : Expire(j)) /\ Same

----------------------------------------------------------------------------
DqUdp ==
  \/ dq_u_skip \/ dq_u_wait \/ dq_u_end \/ dq_u_new_none \/ dq_u_new_free \/ dq_u_new_evict
  \/ dq_u_reject \/ dq_u_duplicate \/ dq_u_query \/ dq_u_query_refused \/ dq_u_query_end \/ dq_u_query_wait
DqTcp ==
  \/ dq_t_skip \/ dq_t_wait \/ dq_t_end \/ dq_t_idle \/ dq_t_rw_close \/ dq_t_rw_write
  \/ dq_t_rw_len1 \/ dq_t_rw_len2 \/ dq_t_rw_read \/ dq_t_query_end \/ dq_t_query_wait
  \/ dq_t_new_none \/ dq_t_new_free \/ dq_t_new_evict \/ dq_t_accept

DqNext == dq_poll \/ DqUdp \/ DqTcp \/ dq_t_timeout
=============================================================================
