----------------------------- MODULE DqTransmit -----------------------------
(* dns_transmit.c of dq: one question asked of the servers of a zone, in     *)
(* plain DNS or, of servers whose key is known, in one of the two DNSCurve   *)
(* formats.                                                                  *)
(*                                                                           *)
(* A server is an address with the format to use (0 plain, 1 streamlined,    *)
(* 2 TXT) and a key.  A key has a count: 0 for a public key, 1 for the       *)
(* secret made of it, 2 for what comes of taking that for a public key.      *)
(* The name asked for is reached by a pointer, into the buffer of the query  *)
(* (inbuf) once a plain query was made; what it points at is overwritten     *)
(* there by the queries that follow.                                         *)
EXTENDS Integers, FiniteSets

CONSTANTS Name,
          Long,       \* names of more than 24 bytes
          Garbled,    \* what is left of a name that was overwritten
          Cut,        \* and what a query made from it asks for
          Addr, KeyAt,   \* addresses, and the public keys of the servers there
          Rounds,     \* tries of each server by UDP: 4
          None

VARIABLE dt

Idle == [state |-> "idle", tcpstate |-> 0, round |-> 0, servers |-> {}, todo |-> {}, cur |-> None,
         name |-> None, inbuf |-> FALSE, query |-> None, got |-> None]

\* dns_sortipkey: streamlined before TXT before plain, otherwise at random (in
\* the code, the same way in each round).
Rank(s) == IF s.kind = 0 THEN 3 ELSE s.kind
dns_sortipkey_any(S) == S      \* mutant: the servers in any order
dns_sortipkey(S) == {s \in S : \A t \in S : Rank(s) <= Rank(t)}

----------------------------------------------------------------------------
(* Making a query *)

Query(t, asks) == [asks |-> asks, kind |-> t.cur.kind, key |-> t.cur.key]
regularquery(t) == [t EXCEPT !.query = Query(t, t.name), !.inbuf = TRUE]
After(t) == IF t.inbuf THEN Garbled ELSE t.name
streamlinedquery(t) ==
  [t EXCEPT !.query = Query(t, IF t.inbuf /\ t.name \in Long THEN Cut ELSE t.name), !.name = After(t)]
txtquery(t) == [t EXCEPT !.query = Query(t, IF t.inbuf THEN Cut ELSE t.name), !.name = After(t)]

makequery(t) == CASE t.cur.kind = 0 -> regularquery(t)
                  [] t.cur.kind = 1 -> streamlinedquery(t)
                  [] t.cur.kind = 2 -> txtquery(t)

----------------------------------------------------------------------------
(* Asking one server after the other *)

dns_transmit_free(t) == [Idle EXCEPT !.state = "failed"]
firsttcp(t) == [t EXCEPT !.state = "tcp", !.todo = t.servers]
nextudp(t) == [t EXCEPT !.state = "udp"]
nexttcp(t) == [t EXCEPT !.state = "tcp"]

dns_transmit_startext(servers, name, flagrecursive, flagtcp) ==
  [Idle EXCEPT !.state = IF flagtcp THEN "tcp" ELSE "udp", !.round = IF flagrecursive THEN 1 ELSE 0,
               !.servers = servers, !.todo = servers, !.name = name]

Chosen(s) == makequery([dt EXCEPT !.cur = s, !.todo = @ \ {s}])

\* Sent; not sent, for lack of a route or of IPv6; or no socket.
thisudp ==
  /\ dt.state = "udp"
  /\ \/ \E s \in dns_sortipkey(dt.todo) :
          dt' \in {[Chosen(s) EXCEPT !.state = "wait", !.tcpstate = 0], Chosen(s), dns_transmit_free(dt)}
     \/ /\ dt.todo = {}
        /\ dt' = IF dt.round + 1 < Rounds THEN [dt EXCEPT !.round = @ + 1, !.todo = dt.servers]
                 ELSE dns_transmit_free(dt)

thistcp ==
  /\ dt.state = "tcp"
  /\ \/ \E s \in dns_sortipkey(dt.todo) :
          dt' \in {[Chosen(s) EXCEPT !.state = "wait", !.tcpstate = c] : c \in {1, 2}}
                  \cup {Chosen(s), dns_transmit_free(dt)}
     \/ dt.todo = {} /\ dt' = dns_transmit_free(dt)

----------------------------------------------------------------------------
(* dns_transmit_get *)

\* Whether the server asked can open the query.
Readable(t) == t.query.kind = 0 \/ (KeyAt[t.cur.addr] # None /\ t.query.key = [pk |-> KeyAt[t.cur.addr], n |-> 1])

\* What may arrive: a server answers what it can read, and says so of the
\* rest.  Others do not know the id of a plain query; that of one in a box
\* does not help them.
FromServer(t) ==
  [by |-> "server", question |-> IF Readable(t) THEN t.query.asks ELSE None, id |-> TRUE,
   box |-> IF t.query.kind # 0 /\ Readable(t) THEN t.query.key ELSE None]
FromOthers(t) ==
  [by : {"other"}, question : Name, id : {t.query.kind # 0}, box : {None}]

getquery_plain(t, r) == r.box \in {None, t.query.key}   \* mutant: a response without a box will do
getquery(t, r) == t.query.kind = 0 \/ r.box = t.query.key
irrelevant(t, r) == ~r.id \/ r.question # t.name
Accepted(t, r) == [t EXCEPT !.state = "answered", !.got = r, !.query = None]

get_timeout ==
  /\ dt.state = "wait"
  /\ dt' = IF dt.tcpstate = 0 THEN nextudp(dt) ELSE nexttcp(dt)

\* A datagram that is not for us is passed over.
get_udp ==
  /\ dt.state = "wait" /\ dt.tcpstate = 0
  /\ \E r \in {FromServer(dt)} \cup FromOthers(dt) :
       /\ getquery(dt, r) /\ ~irrelevant(dt, r)
       /\ dt' \in {firsttcp(dt), nextudp(dt), Accepted(dt, r), dns_transmit_free(dt)}

\* Connected, the query written, and two bytes of length read; each step may
\* be repeated for part of the bytes, or fail; there may be no memory for the
\* packet.
get_tcp ==
  /\ dt.state = "wait" /\ dt.tcpstate \in 1..4
  /\ dt' \in {[dt EXCEPT !.tcpstate = @ + 1], nexttcp(dt)}
            \cup (IF dt.tcpstate = 4 THEN {dns_transmit_free(dt)} ELSE {})

get_tcp5 == LET r == FromServer(dt) IN
  /\ dt.state = "wait" /\ dt.tcpstate = 5
  /\ dt' \in {nexttcp(dt)} \cup (IF getquery(dt, r) /\ ~irrelevant(dt, r) THEN {Accepted(dt, r)} ELSE {})

dns_transmit_get == get_timeout \/ get_udp \/ get_tcp \/ get_tcp5
=============================================================================
