------------------------------ MODULE DqQuery ------------------------------
(* query.c and roots.c of dq: the resolution of one question by dqcache.    *)
(*                                                                          *)
(* It descends from query.c of dnscache, from whose model the flow between  *)
(* levels is taken; here are the steps of dq, with the servers' keys and    *)
(* with the exchange (dt) that it waits for.  servers[level] is a set of    *)
(* servers as DqTransmit has them.                                          *)
EXTENDS Query

CONSTANTS
  Global6, GlobalIp6,   \* localhost and IPv6 literals, and their addresses
  KeyOf,                \* for each name, the public key in it, or None
  ConfiguredKey,        \* for each file in servers/ and each address, its key there, or None
  Formats,              \* of DNSCURVETYPE: {1, 2}, {1} or {2}
  flagtcponly,
  Long, Garbled, Cut, KeyAt, Rounds

\* The public keys known: in a name, or in a file in servers/.
PublicKey == {KeyOf[n] : n \in Name} \cup {ConfiguredKey[z][a] : z \in Configured, a \in Addr} \cup {None}
Key == [pk : PublicKey, n : 0..2]

ASSUME DqAssumption ==
  /\ Formats \subseteq {1, 2} /\ None \notin Key /\ flagtcponly \in BOOLEAN
  /\ GlobalIp6 \in [Global6 -> Addr]

VARIABLE dt
T == INSTANCE DqTransmit

dqvars == <<vars, dt>>

DqInit == Init /\ dt = T!Idle

----------------------------------------------------------------------------
(* Servers and keys *)

NoKey == [pk |-> None, n |-> 0]

addserver(addrs, key) ==
  IF key = None THEN [addr : addrs, kind : {0}, key : {NoKey}]
  ELSE [addr : addrs, kind : Formats, key : {[pk |-> key, n |-> 0]}]

\* init2: one file of servers/.
roots(z) == UNION {addserver({a}, ConfiguredKey[z][a]) : a \in ConfiguredAddr[z]}
findkey(n) == KeyOf[n]

\* The loop before dns_sortipkey: each key gives way to the secret made of it.
MakeSecrets(S) == {IF s.kind = 0 THEN s ELSE [s EXCEPT !.key.n = IF @ < 2 THEN @ + 1 ELSE @] : s \in S}

\* cleanup frees dt; the packet in it is of no use after one HAVEPACKET.
Rest == dt' = T!Idle
Strike(s) ==
  /\ servers' = [servers EXCEPT ![level] = @ \ {s}]
  /\ pc' = "HAVENS"
  /\ UNCHANGED <<level, name, control, ns, ipv6, alias, type, response, asked, cnames>>

----------------------------------------------------------------------------
(* NEWNAME *)

dq_query_start == query_start /\ Rest

dq_die == NEWNAME_die /\ Rest

New == NEWNAME /\ Rest

globalip == d \in Global /\ typematch("A", dtype)
globalip6 == d \in Global6 /\ typematch("AAAA", dtype)

dq_globalip ==
  /\ New /\ globalip
  /\ TakeAddresses(addserver({GlobalIp[d]}, None)) \/ Respond("answer")
  /\ UNCHANGED cnames

dq_globalip6 ==
  /\ New /\ ~globalip /\ globalip6
  /\ TakeAddresses(addserver({GlobalIp6[d]}, None)) \/ Respond("answer")
  /\ UNCHANGED cnames

\* 1.0.0.127.in-addr.arpa
dq_localhost ==
  /\ New /\ d \in Fixed
  /\ LowerOr("answer")
  /\ UNCHANGED cnames

Elsewhere == New /\ ~globalip /\ ~globalip6 /\ d \notin Fixed

\* In the cache: no such name, no servers in the last ten seconds, ...
dq_cached_nxdomain == Elsewhere /\ LowerOr("nxdomain") /\ UNCHANGED cnames
dq_cached_servfail == Elsewhere /\ LowerOr("servfail") /\ UNCHANGED cnames

dq_cached_cname == Elsewhere /\ \E target \in Name :
  /\ SeeCname(target)
  /\ IF typematch("CNAME", dtype) THEN Respond("answer") ELSE CNAME(target)

\* ... records of the type, without code of its own or with, ...
dq_cached_answer ==
  /\ Elsewhere /\ dtype # "CNAME"
  /\ Respond("answer") /\ UNCHANGED cnames

\* ... or of a server: addresses, or none.
dq_cached_none ==
  /\ Elsewhere /\ level # 0
  /\ IF dtype = "A" THEN TryIpv6 ELSE TakeAddresses({})
  /\ UNCHANGED cnames

dq_cached_addresses == \E addrs \in (SUBSET Addr) \ {{}} :
  /\ Elsewhere /\ TakeAddresses(addserver(addrs, findkey(d)))
  /\ UNCHANGED cnames

dq_roots ==
  /\ Elsewhere /\ RootsOf(d) # {}
  /\ LET z == roots_search(d) IN UseZone(z, roots(z), {})
  /\ UNCHANGED cnames

dq_cached_ns ==
  /\ Elsewhere /\ ~flagforwardonly /\ level < 2
  /\ \E z \in Above[d], names \in CachedNs : Passed(z) /\ UseZone(z, {}, names)
  /\ UNCHANGED cnames

----------------------------------------------------------------------------
(* HAVENS and LOWERLEVEL *)

dq_havens_up == HAVENS_up /\ Rest
dq_havens_servfail == HAVENS_servfail /\ Rest
dq_havens_die == HAVENS_die /\ Rest

dq_havens_transmit == \E S \in {MakeSecrets(servers[level])} :
  /\ HAVENS /\ NoMoreNs /\ S # {}
  /\ servers' = [servers EXCEPT ![level] = S]
  /\ dt' = T!dns_transmit_startext(S, d, flagforwardonly, flagtcponly)
  /\ ns' = [ns EXCEPT ![level] = {}]
  /\ pc' = "wait"
  /\ UNCHANGED <<level, name, control, ipv6, alias, type, response, asked>>

dq_lowerlevel == LOWERLEVEL /\ Rest

----------------------------------------------------------------------------
(* query_get *)

\* dns_transmit goes on.
dq_exchange ==
  /\ pc = "wait"
  /\ T!thisudp \/ T!thistcp \/ T!dns_transmit_get
  /\ NoPacket
  /\ UNCHANGED <<pc, loop, level, name, control, ns, servers, ipv6, alias, type, response, asked, cnames>>

\* It has given up: this is remembered for ten seconds.
dq_failed ==
  /\ pc = "wait" /\ dt.state = "failed"
  /\ LowerOr("servfail") /\ Rest
  /\ stored' = {Entry(d, "servfail")} /\ accepted' = {}
  /\ UNCHANGED <<loop, cnames>>

Packets == pc = "wait" /\ dt.state = "answered" /\ Rest

\* Mutant: the records of zones with a file in servers/ are kept too.
Kept_anyRoots(p) ==
  {r \in p.ans \cup p.auth \cup p.glue : Zone \in Above[r.owner] /\ (r.type = "SOA" => r \in p.ans)}

\* The records that go into the cache.  The NS records of the zone itself
\* are among them; in the authority section they do not outlive the ones that
\* the zone's own servers gave before.
Kept(p) ==
  {r \in p.ans \cup p.auth \cup p.glue :
     /\ Zone \in Above[r.owner] /\ roots_same(r.owner, Zone)
     /\ r.type = "SOA" => r \in p.ans}
KeptEntries(p) == {Entry(r.owner, r.type) : r \in Kept(p)}

dq_packet_die ==
  /\ Packets /\ DIE
  /\ loop' = loop + 1
  /\ \/ loop' = maxloop /\ stored' = {}
     \/ loop' < maxloop /\ \E p \in Packet : NotLame(p) /\ stored' = KeptEntries(p)
  /\ accepted' = {} /\ UNCHANGED cnames

Have == Packets /\ CountLoop

dq_packet_lame == Have /\ \E p \in Packet : \E referral \in Referrals(p) :
  Lame(p, referral) /\ Strike(dt.cur) /\ NoPacket

Keep(p) == stored' = KeptEntries(p) /\ accepted' = {}

dq_packet_cname == Have /\ \E p \in Packet : \E target \in Targets(p) :
  /\ flagcname(p) /\ Keep(p)
  /\ SeeCname(target) /\ CNAME(target)

dq_packet_nxdomain == Have /\ \E p \in Packet :
  /\ ~flagcname(p) /\ p.rcode = 3
  /\ stored' = KeptEntries(p) \cup Negative(p, "ANY") /\ accepted' = {}
  /\ LowerOr("nxdomain") /\ UNCHANGED cnames

Success(p) == ~flagcname(p) /\ p.rcode = 0
KeepAndNodata(p) ==
  stored' = KeptEntries(p) \cup (IF nodata(p) THEN Negative(p, dtype) ELSE {})
NoV4(p) == nodata(p) /\ level # 0 /\ dtype = "A"

dq_packet_nodata == Have /\ \E p \in Packet :
  /\ Success(p) /\ NoV4(p)
  /\ KeepAndNodata(p) /\ accepted' = {}
  /\ TryIpv6 /\ UNCHANGED cnames

\* The addresses of a server: the A and AAAA records of the very name.
Addresses(p) == {r \in p.ans : r.owner = d /\ r.type \in {"A", "AAAA"}}

dq_packet_answer == Have /\ \E p \in Packet :
  /\ Success(p) /\ IsAnswer(p) /\ ~NoV4(p)
  /\ KeepAndNodata(p)
  /\ \/ /\ TakeAddresses(addserver({r.data : r \in Addresses(p)}, findkey(d)))
        /\ accepted' = {[owner |-> r.owner, zone |-> Zone] : r \in Addresses(p)}
     \/ Respond("answer") /\ accepted' = {}
  /\ UNCHANGED cnames

dq_packet_referral == Have /\ \E p \in Packet : \E referral \in Referrals(p) :
  /\ ~Lame(p, referral) /\ Success(p) /\ ~IsAnswer(p)
  /\ Keep(p)
  /\ CASE ~ReferralAbove(referral) -> DIE /\ UNCHANGED cnames
       [] ReferralAbove(referral) /\ flagforwardonly -> Strike(dt.cur)
       [] OTHER -> /\ \E names \in SUBSET NsNames(p, referral) :
                        /\ Cardinality(names) <= maxns
                        /\ names = NsNames(p, referral) \/ Cardinality(names) = maxns
                        /\ UseZone(referral, {}, names)
                   /\ UNCHANGED cnames

----------------------------------------------------------------------------
dq_newname ==
  \/ dq_die \/ dq_globalip \/ dq_globalip6 \/ dq_localhost \/ dq_cached_nxdomain
  \/ dq_cached_servfail \/ dq_cached_cname \/ dq_cached_answer \/ dq_cached_none
  \/ dq_cached_addresses \/ dq_roots \/ dq_cached_ns
dq_havens ==
  dq_havens_up \/ dq_havens_servfail \/ dq_havens_die \/ dq_havens_transmit \/ dq_lowerlevel
dq_packet ==
  \/ dq_packet_die \/ dq_packet_lame \/ dq_packet_cname \/ dq_packet_nxdomain
  \/ dq_packet_nodata \/ dq_packet_answer \/ dq_packet_referral

DqNext == dq_query_start \/ dq_newname \/ dq_havens \/ dq_exchange \/ dq_failed \/ dq_packet

DqSpec == DqInit /\ [][DqNext]_dqvars

----------------------------------------------------------------------------
(* Properties *)

\* Servers with a key and others in one exchange.
Mixed == \E s, t \in dt.servers : s.kind = 0 /\ t.kind # 0

\* Each server was asked at most once so far: the servers with a key before the
\* others.
FirstPass == flagtcponly \/ (dt.tcpstate = 0 /\ dt.round = IF flagforwardonly THEN 1 ELSE 0)

\* What HAVEPACKET is given comes from the server that was asked and was sealed
\* for us by the holder of the key if the server has one (getquery and
\* irrelevant, over retries, TCP and the levels).  It answers the name of this
\* level, with one exception: when servers with a key and others are asked a
\* second time, what is left of a name that a query in a box overwrote
\* (regularquery, streamlinedquery) is asked for, and answers to that are taken.
AcceptsOwn ==
  pc = "wait" /\ dt.state = "answered" =>
    /\ dt.got.by = "server" /\ dt.cur \in servers[level]
    /\ dt.got.question = d \/ (Mixed /\ ~FirstPass /\ dt.got.question = Garbled)
    /\ dt.cur.kind # 0 => dt.got.box = [pk |-> KeyAt[dt.cur.addr], n |-> 1]

\* "have sent query to curserver on UDP socket s" (dns_transmit_get): the
\* query, that is the one for the name of this level.  Not an invariant: see
\* README 5.2.
AsksName == pc = "wait" /\ dt.state = "wait" => dt.query.asks = d

\* Zones, servers' files and cache entries: as for dnscache, a name is asked
\* of the servers of a zone above it, never across a file in servers/, and the
\* cache takes from them only what lies there; ten-second failures and the
\* zone's own NS records included.
Inside == ControlInName /\ AsksInside /\ StoredFromZone
=============================================================================
