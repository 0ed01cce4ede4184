------------------------------- MODULE Query -------------------------------
(***************************************************************************)
(* query.c: the resolution of one question.                                *)
(*                                                                         *)
(* A query has levels: level 0 is the client's question, level n + 1 the   *)
(* address of a name server that level n needs.  pc is the label of doit   *)
(* that comes next, "wait" while dns_transmit is at work (see Transmit).   *)
(*                                                                         *)
(* The cache is shared with every other query and forgets at will, so a    *)
(* lookup may miss, or hit with any data that could be stored; the entries *)
(* stored from the last packet are kept as a history.  A name server may   *)
(* send any packet made of the records in RR.  Sets of names and addresses *)
(* stand for the arrays ns and servers, whose order is random.             *)
(***************************************************************************)
EXTENDS Integers, Sequences, FiniteSets

CONSTANTS
  Name,          \* domain names
  Above,         \* for each name, itself and the names it ends with
  Configured,    \* names with a file in servers/ (the root: servers/@)
  ConfiguredAddr, \* the addresses in these files
  Global, GlobalIp,  \* localhost and dotted-decimal names, and their addresses
  Fixed,         \* ipv6-localhost and other names that dnscache answers by itself
  Addr,
  IgnoreIp,      \* addresses in the file ignoreip
  RR,            \* records that may occur in a packet: owner, type, data
  MaxAnswers, MaxAuthority, MaxGlue,     \* bounds on the sections of a packet
  MaxCached,     \* bound on the names in a cached NS set
  QType,         \* types a client may ask for
  flagforwardonly,
  maxlevel, maxalias, maxns, maxloop,    \* 5, 16, 16, 100, or set by the user
  NServers,      \* addresses that servers[level] has room for: 16
  MaxQueries,    \* bound on the calls of query_start
  None

\* "other" stands for PTR, MX and the types without code of their own.
DataTypes == {"A", "AAAA", "NS", "CNAME", "SOA", "other"}

ASSUME QueryAssumption ==
  /\ Above \in [Name -> SUBSET Name]
  /\ \A n \in Name : n \in Above[n] /\ \A m \in Above[n] : Above[m] \subseteq Above[n]
  \* of some names above a name, one is the nearest
  /\ \A n \in Name : \A s \in SUBSET Above[n] : s # {} => \E z \in s : s \subseteq Above[z]
  /\ Configured \subseteq Name /\ ConfiguredAddr \in [Configured -> SUBSET Addr]
  /\ Fixed \subseteq Name /\ GlobalIp \in [Global -> Addr]
  /\ QType \subseteq DataTypes \cup {"ANY", "AXFR"}
  /\ \A r \in RR : /\ r.owner \in Name /\ r.type \in DataTypes
                   /\ r.type \in {"NS", "CNAME"} => r.data \in Name
                   /\ r.type \in {"A", "AAAA"} => r.data \in Addr
  /\ flagforwardonly \in BOOLEAN
  /\ maxlevel \in Nat \ {0} /\ maxalias \in Nat \ {0}
  /\ maxns \in Nat \ {0} /\ maxloop \in Nat \ {0}
  /\ MaxQueries \in Nat /\ None \notin Name

Levels == 0..(maxlevel - 1)
\* Records of class IN.  Others are passed over, but for SOA and NS records in
\* the authority section, whose class doit does not look at: they are as these.
Section(max) == {s \in SUBSET RR : Cardinality(s) <= max}
Packet == [rcode : {0, 3}, ans : Section(MaxAnswers),
           auth : Section(MaxAuthority), glue : Section(MaxGlue)]
CachedNs == {s \in SUBSET Name : Cardinality(s) \in 1..MaxCached /\ Cardinality(s) <= maxns}

VARIABLES
  pc, loop, level,
  name, control, ns, servers, ipv6,   \* by level
  alias,          \* the names that led here by CNAME records, latest first
  type,           \* of the client's question
  response,       \* what the last query came to, and the chain of names written
  \* history
  asked,          \* the name in the client's question, and the number of questions
  cnames,         \* the CNAME records seen at level 0: owner and target
  stored,         \* the cache entries made in the last step: owner, type, and the zone asked
  accepted        \* the owners of the records whose addresses it took, and the zone asked

vars == <<pc, loop, level, name, control, ns, servers, ipv6, alias, type,
          response, asked, cnames, stored, accepted>>

NoResponse(how) == [how |-> how, query |-> None, chain |-> << >>]

Init ==
  /\ pc = "idle" /\ loop = 0 /\ level = 0
  /\ name = [l \in Levels |-> None] /\ control = [l \in Levels |-> None]
  /\ ns = [l \in Levels |-> {}] /\ servers = [l \in Levels |-> {}]
  /\ ipv6 = [l \in Levels |-> FALSE]
  /\ alias = << >> /\ type = "other"
  /\ response = NoResponse("none")
  /\ asked = [n |-> 0, name |-> None] /\ cnames = {}
  /\ stored = {} /\ accepted = {}

d == name[level]
dtype == IF level # 0 THEN (IF ipv6[level] THEN "AAAA" ELSE "A") ELSE type
typematch(rtype, qtype) == qtype = rtype \/ qtype = "ANY"

\* The names of a domain's ancestry that have a file in servers/, the nearest
\* of them (roots_search), and whether two domains share it.
RootsOf(n) == Configured \cap Above[n]
roots_search(n) == IF RootsOf(n) = {} THEN None
                   ELSE CHOOSE z \in RootsOf(n) : RootsOf(n) \subseteq Above[z]
roots_same(m, n) == roots_search(m) = roots_search(n)

----------------------------------------------------------------------------
(* Where the labels lead *)

\* Mutant: a response repeats the name that the aliases led to.
Question_latest == name[0]

\* rqa: the question that a response starts with, and the names that its
\* CNAME records link, latest first.
Question == IF alias = << >> THEN name[0] ELSE alias[Len(alias)]
rqa(how) == [how |-> how, query |-> Question, chain |-> <<name[0]>> \o alias]

\* cleanup(z); return
End(how) ==
  /\ pc' = "idle"
  /\ response' = IF how = "die" THEN NoResponse(how) ELSE rqa(how)
  /\ name' = [l \in Levels |-> None]
  /\ ns' = [l \in Levels |-> {}]
  /\ alias' = << >>
  /\ UNCHANGED <<level, control, servers, ipv6, type, asked>>

DIE == End("die")

\* A response, or DIE if it does not fit or memory runs out.
Respond(how) == level = 0 /\ (End(how) \/ DIE)

ToLowerLevel ==
  /\ level # 0
  /\ pc' = "LOWERLEVEL"
  /\ UNCHANGED <<level, name, control, ns, servers, ipv6, alias, type, response, asked>>

\* NXDOMAIN, SERVFAIL
LowerOr(how) == ToLowerLevel \/ Respond(how)

\* The addresses are added to the servers of the level below while there is
\* room, and that level goes on.
TakeAddresses(addrs) ==
  /\ level # 0
  /\ \E s \in SUBSET addrs :
       /\ s = addrs \/ Cardinality(servers[level - 1] \cup s) = NServers
       /\ Cardinality(servers[level - 1] \cup s) <= NServers
       /\ servers' = [servers EXCEPT ![level - 1] = @ \cup s]
  /\ pc' = "LOWERLEVEL"
  /\ UNCHANGED <<level, name, control, ns, ipv6, alias, type, response, asked>>

CNAME(target) ==
  \/ DIE           \* no room in alias, or no memory
  \/ /\ level = 0 => Len(alias) < maxalias
     /\ alias' = IF level = 0 THEN <<d>> \o alias ELSE alias
     /\ name' = [name EXCEPT ![level] = target]
     /\ pc' = "NEWNAME"
     /\ UNCHANGED <<level, control, ns, servers, ipv6, type, response, asked>>

SeeCname(target) == cnames' = IF level = 0 THEN cnames \cup {<<d, target>>} ELSE cnames

\* The server name has no A record: try AAAA.
TryIpv6 ==
  /\ ipv6' = [ipv6 EXCEPT ![level] = TRUE]
  /\ pc' = "NEWNAME"
  /\ UNCHANGED <<level, name, control, ns, servers, alias, type, response, asked>>

\* Zone z, its known addresses and the names of its servers.
UseZone(z, addrs, names) ==
  /\ control' = [control EXCEPT ![level] = z]
  /\ servers' = [servers EXCEPT ![level] = addrs]
  /\ ns' = [ns EXCEPT ![level] = names]
  /\ pc' = "HAVENS"
  /\ UNCHANGED <<level, name, ipv6, alias, type, response, asked>>

NoPacket == stored' = {} /\ accepted' = {}

----------------------------------------------------------------------------
(* query_start, and NEWNAME up to HAVENS *)

\* AXFR is refused before anything changes.
query_start == \E n \in Name, t \in QType \ {"AXFR"} :
  /\ pc = "idle" /\ asked.n < MaxQueries
  /\ asked' = [n |-> asked.n + 1, name |-> n] /\ cnames' = {}
  /\ name' = [[l \in Levels |-> None] EXCEPT ![0] = n]
  /\ ns' = [l \in Levels |-> {}] /\ alias' = << >>
  /\ level' = 0 /\ loop' = 0 /\ type' = t
  /\ ipv6' = [ipv6 EXCEPT ![0] = FALSE]
  /\ pc' = "NEWNAME" /\ response' = NoResponse("none")
  /\ NoPacket /\ UNCHANGED <<control, servers>>

\* Mutant: the loop is not counted.
CountLoop_never == loop + 1 < maxloop /\ loop' = loop

CountLoop == loop + 1 < maxloop /\ loop' = loop + 1

\* The limit of loops is reached, there are no servers for any name above d,
\* or memory runs out.
NEWNAME_die ==
  /\ pc = "NEWNAME"
  /\ loop' = loop + 1 /\ DIE
  /\ NoPacket /\ UNCHANGED cnames

NEWNAME == pc = "NEWNAME" /\ CountLoop /\ NoPacket

\* localhost or a dotted-decimal name: as a server name, an address.
NEWNAME_global ==
  /\ NEWNAME /\ d \in Global
  /\ TakeAddresses({GlobalIp[d]}) \/ Respond("answer")
  /\ UNCHANGED cnames

\* The fixed ipv6 names, and the reverse names of those and of localhost.
NEWNAME_fixed ==
  /\ NEWNAME /\ d \in Fixed \ Global
  /\ LowerOr("answer")
  /\ UNCHANGED cnames

Local == Global \cup Fixed

\* The cache has the name as nonexistent, ...
NEWNAME_nxdomain ==
  /\ NEWNAME /\ d \notin Local
  /\ LowerOr("nxdomain")
  /\ UNCHANGED cnames

\* ... as an alias, ...
NEWNAME_cname ==
  /\ NEWNAME /\ d \notin Local
  /\ \E target \in Name :
       /\ SeeCname(target)
       /\ IF typematch("CNAME", dtype) THEN Respond("answer") ELSE CNAME(target)

\* ... or with the records, or the lack, of the type wanted.  Addresses to
\* be ignored are not in the cache.
NEWNAME_cached ==
  /\ NEWNAME /\ d \notin Local
  /\ \/ dtype # "CNAME" /\ Respond("answer")
     \/ level # 0 /\ dtype = "A" /\ TryIpv6
     \/ \E addrs \in SUBSET (Addr \ IgnoreIp) :
           (addrs # {} \/ dtype = "AAAA") /\ TakeAddresses(addrs)
  /\ UNCHANGED cnames

\* Otherwise the nearest name that is configured, or that has servers in the
\* cache, is where to ask.
NEWNAME_configured ==
  /\ NEWNAME /\ d \notin Local /\ RootsOf(d) # {}
  /\ LET z == roots_search(d) IN UseZone(z, ConfiguredAddr[z], {})
  /\ UNCHANGED cnames

\* No file in servers/ is met on the way up from d to z.
Passed(z) == RootsOf(d) = RootsOf(z) /\ z \notin Configured

NEWNAME_ns ==
  /\ NEWNAME /\ d \notin Local
  /\ ~flagforwardonly /\ level < 2
  /\ \E z \in Above[d], names \in CachedNs : Passed(z) /\ UseZone(z, {}, names)
  /\ UNCHANGED cnames

----------------------------------------------------------------------------
(* HAVENS and LOWERLEVEL *)

HAVENS == pc = "HAVENS" /\ NoPacket /\ UNCHANGED <<loop, cnames>>

MoreLevels == level + 1 < maxlevel

\* The next server name is looked up one level higher; at the last level the
\* names go unused.
HAVENS_up ==
  /\ HAVENS /\ MoreLevels
  /\ \E n \in ns[level] :
       /\ name' = [name EXCEPT ![level + 1] = n]
       /\ ns' = [ns EXCEPT ![level] = @ \ {n}]
  /\ level' = level + 1
  /\ ipv6' = [ipv6 EXCEPT ![level + 1] = FALSE]
  /\ pc' = "NEWNAME"
  /\ UNCHANGED <<control, servers, alias, type, response, asked>>

NoMoreNs == ns[level] = {} \/ ~MoreLevels

HAVENS_servfail ==
  /\ HAVENS /\ NoMoreNs /\ servers[level] = {}
  /\ LowerOr("servfail")

HAVENS_transmit ==
  /\ HAVENS /\ NoMoreNs /\ servers[level] # {}
  /\ ns' = [ns EXCEPT ![level] = {}]
  /\ pc' = "wait"
  /\ UNCHANGED <<level, name, control, servers, ipv6, alias, type, response, asked>>

\* Memory or sockets run out.
HAVENS_die == HAVENS /\ DIE

LOWERLEVEL ==
  /\ pc = "LOWERLEVEL"
  /\ name' = [name EXCEPT ![level] = None]
  /\ ns' = [ns EXCEPT ![level] = {}]
  /\ level' = level - 1
  /\ pc' = "HAVENS"
  /\ NoPacket
  /\ UNCHANGED <<loop, control, servers, ipv6, alias, type, response, asked, cnames>>

----------------------------------------------------------------------------
(* query_get: dns_transmit has given up, or has a packet *)

query_get_fail ==
  /\ pc = "wait"
  /\ LowerOr("servfail")
  /\ NoPacket /\ UNCHANGED <<loop, cnames>>

flagout(p) == \E r \in p.ans : r.owner = d /\ typematch(r.type, dtype)
Targets(p) == {r.data : r \in {q \in p.ans : q.owner = d /\ q.type = "CNAME"}}
flagcname(p) == Targets(p) # {} /\ ~typematch("CNAME", dtype)
flagsoa(p) == \E r \in p.auth : r.type = "SOA"
Referrals(p) == {r.owner : r \in {q \in p.auth : q.type = "NS"}}
flagreferral(p) == Referrals(p) # {}

Zone == control[level]
Lame(p, referral) ==
  /\ ~flagcname(p) /\ p.rcode = 0 /\ ~flagout(p) /\ ~flagsoa(p) /\ flagreferral(p)
  /\ referral = Zone \/ Zone \notin Above[referral]

\* Mutant: records of any zone below the server's are kept, other files in
\* servers/ or not.
Storable_anyRoots(p) ==
  {r \in p.ans \cup p.auth \cup p.glue :
     /\ Zone \in Above[r.owner]
     /\ r.type = "NS" /\ r.owner = Zone => flagforwardonly \/ Zone \in Configured
     /\ r.type = "SOA" => r \in p.ans}

\* The records that go into the cache: those of the zone asked and of what
\* is below it, up to the next name with a file in servers/, without the NS
\* records of that zone itself, and without SOA records but in answers.
Storable(p) ==
  {r \in p.ans \cup p.auth \cup p.glue :
     /\ Zone \in Above[r.owner]
     /\ r.type = "NS" /\ r.owner = Zone => flagforwardonly \/ Zone \in Configured
     /\ roots_same(r.owner, Zone)
     /\ r.type = "SOA" => r \in p.ans}

Entry(owner, t) == [owner |-> owner, type |-> t, zone |-> Zone]
\* All of them are listed: a time to live of 0 or too much data keeps some out.
Entries(p) == {Entry(r.owner, r.type) : r \in Storable(p)}
Ignored(p) == \E r \in Storable(p) : r.type \in {"A", "AAAA"} /\ r.data \in IgnoreIp

\* Without an SOA record the time to live of a negative entry is 0.
Negative(p, t) == IF flagsoa(p) THEN {Entry(d, t)} ELSE {}

\* The NS record that counts is the last one.
NotLame(p) == flagreferral(p) => \E referral \in Referrals(p) : ~Lame(p, referral)

\* The limit of loops is reached, or the packet breaks off; what is cached
\* by then stays.
HAVEPACKET_die ==
  /\ pc = "wait" /\ DIE
  /\ loop' = loop + 1
  /\ \/ loop' = maxloop /\ stored' = {}
     \/ loop' < maxloop /\ \E p \in Packet : NotLame(p) /\ stored' = Entries(p)
  /\ accepted' = {} /\ UNCHANGED cnames

HAVEPACKET == pc = "wait" /\ CountLoop

\* The server that sent this is struck off.
HAVEPACKET_lame == HAVEPACKET /\
  \E p \in Packet : \E referral \in Referrals(p), s \in servers[level] :
  /\ Lame(p, referral)
  /\ servers' = [servers EXCEPT ![level] = @ \ {s}]
  /\ pc' = "HAVENS" /\ NoPacket
  /\ UNCHANGED <<level, name, control, ns, ipv6, alias, type, response, asked, cnames>>

HAVEPACKET_ignoreip == HAVEPACKET /\ \E p \in Packet :
  /\ NotLame(p) /\ Ignored(p)
  /\ stored' = Entries(p) /\ accepted' = {}
  /\ LowerOr("nxdomain")
  /\ UNCHANGED cnames

HAVEPACKET_cname == HAVEPACKET /\ \E p \in Packet : \E target \in Targets(p) :
  /\ ~Ignored(p) /\ flagcname(p)
  /\ stored' = Entries(p) /\ accepted' = {}
  /\ SeeCname(target) /\ CNAME(target)

HAVEPACKET_nxdomain == HAVEPACKET /\ \E p \in Packet :
  /\ ~Ignored(p) /\ ~flagcname(p) /\ p.rcode = 3
  /\ stored' = Entries(p) \cup Negative(p, "ANY") /\ accepted' = {}
  /\ LowerOr("nxdomain")
  /\ UNCHANGED cnames

Plain(p) == ~Ignored(p) /\ ~flagcname(p) /\ p.rcode = 0
nodata(p) == ~flagout(p) /\ flagsoa(p) /\ dtype \notin {"ANY", "AXFR", "CNAME"}
EntriesAndNodata(p) == Entries(p) \cup (IF nodata(p) THEN Negative(p, dtype) ELSE {})

HAVEPACKET_nodata == HAVEPACKET /\ \E p \in Packet :
  /\ Plain(p) /\ nodata(p)
  /\ level # 0 /\ dtype = "A"
  /\ stored' = EntriesAndNodata(p) /\ accepted' = {}
  /\ TryIpv6 /\ UNCHANGED cnames

\* The addresses in an answer: A records of the name asked for, and AAAA
\* records of whatever name.
AddressRecords(p) == {r \in p.ans : (r.type = "A" /\ r.owner = d) \/ r.type = "AAAA"}

IsAnswer(p) == flagout(p) \/ flagsoa(p) \/ ~flagreferral(p)

HAVEPACKET_answer == HAVEPACKET /\ \E p \in Packet :
  /\ Plain(p) /\ IsAnswer(p)
  /\ ~(nodata(p) /\ level # 0 /\ dtype = "A")
  /\ stored' = EntriesAndNodata(p)
  /\ \/ /\ TakeAddresses({r.data : r \in AddressRecords(p)})
        /\ accepted' = {[owner |-> r.owner, zone |-> Zone] : r \in AddressRecords(p)}
     \/ Respond("answer") /\ accepted' = {}
  /\ UNCHANGED cnames

\* Mutant: a referral is followed to any zone below the one asked.
ReferralAbove_unchecked(referral) == TRUE

ReferralAbove(referral) == referral \in Above[d]

NsNames(p, referral) == {r.data : r \in {q \in p.auth : q.type = "NS" /\ q.owner = referral}}

HAVEPACKET_referral == HAVEPACKET /\ \E p \in Packet : \E referral \in Referrals(p) :
  /\ ~Lame(p, referral) /\ Plain(p) /\ ~IsAnswer(p)
  /\ stored' = Entries(p) /\ accepted' = {}
  /\ \/ ~ReferralAbove(referral) /\ DIE
     \/ /\ ReferralAbove(referral)
        /\ \E names \in SUBSET NsNames(p, referral) :
             /\ Cardinality(names) <= maxns
             /\ names = NsNames(p, referral) \/ Cardinality(names) = maxns
             /\ UseZone(referral, {}, names)
  /\ UNCHANGED cnames

----------------------------------------------------------------------------
NextHAVEPACKET ==
  \/ HAVEPACKET_die \/ HAVEPACKET_lame \/ HAVEPACKET_ignoreip \/ HAVEPACKET_cname
  \/ HAVEPACKET_nxdomain \/ HAVEPACKET_nodata \/ HAVEPACKET_answer \/ HAVEPACKET_referral

doit ==
  \/ NEWNAME_die \/ NEWNAME_global \/ NEWNAME_fixed \/ NEWNAME_nxdomain
  \/ NEWNAME_cname \/ NEWNAME_cached \/ NEWNAME_configured \/ NEWNAME_ns
  \/ HAVENS_up \/ HAVENS_servfail \/ HAVENS_transmit \/ HAVENS_die \/ LOWERLEVEL
  \/ query_get_fail \/ NextHAVEPACKET

Next == query_start \/ doit

Spec == Init /\ [][Next]_vars

\* doit runs until it answers or waits; a dns_transmit under way ends (see
\* Transmit) and dnscache then calls query_get.  Every step of doit changes the
\* label, the loop count or the level, so this is weak fairness of doit: no
\* state with pc # "idle" is without a step of doit (TLC's deadlock check).
place == <<pc, loop, level>>
Moves == /\ pc # "idle" /\ pc' \in {"idle", "NEWNAME", "HAVENS", "LOWERLEVEL", "wait"}
         /\ loop' \in 0..maxloop /\ level' \in Levels
Fairness == WF_place(Moves)

----------------------------------------------------------------------------
(* Properties *)

Hows == {"none", "answer", "nxdomain", "servfail", "die"}

\* Every variable has its type; the level stays in the arrays of struct query
\* and the aliases fit.  (In dq a server is more than an address.)
TypeIn(Servers) ==
  /\ pc \in {"idle", "NEWNAME", "HAVENS", "LOWERLEVEL", "wait"}
  /\ loop \in 0..maxloop /\ level \in Levels
  /\ name \in [Levels -> Name \cup {None}] /\ control \in [Levels -> Name \cup {None}]
  /\ ns \in [Levels -> SUBSET Name] /\ servers \in [Levels -> SUBSET Servers]
  /\ ipv6 \in [Levels -> BOOLEAN]
  /\ alias \in Seq(Name) /\ Len(alias) <= maxalias
  /\ type \in DataTypes \cup {"ANY"}
  /\ response.how \in Hows /\ response.query \in Name \cup {None} /\ response.chain \in Seq(Name)
  /\ asked.n \in 0..MaxQueries /\ asked.name \in Name \cup {None}
  /\ cnames \subseteq Name \X Name
TypeOK == TypeIn(Addr)

\* The levels whose zone is settled: those that wait for a higher level, and
\* the current one once it has servers to ask.
Settled(l) == pc # "idle" /\ (l < level \/ (l = level /\ pc \in {"HAVENS", "wait"}))

\* struct query, "pointing inside name": the zone of a level is an ancestor of
\* the name it looks up, whatever referrals and aliases came before.
ControlInName == \A l \in Levels : Settled(l) => name[l] \in Name /\ control[l] \in Above[name[l]]

\* A name below a file in servers/ is asked of that file's servers or of
\* servers that these lead to, never of outside servers (dnscache.8,
\* "will not cache records ... from outside servers").
AsksInside == \A l \in Levels : Settled(l) => roots_same(name[l], control[l])

\* At every level the servers asked speak for a zone that may be asked about
\* the name: above it, with no file in servers/ in between.
ZonesCover == ControlInName /\ AsksInside

\* What enters the cache, negative entries included, comes from servers of a
\* zone above it, with no file in servers/ in between (doit's dns_domain_suffix
\* and roots_same tests, and the choice of the zone for negative entries).
StoredFromZone == \A e \in stored : e.zone \in Above[e.owner] /\ roots_same(e.owner, e.zone)

\* rqa: a response repeats the client's question, and its CNAME records are
\* the ones seen, linked from the question to the name answered.
ResponseFits == response.how \in {"answer", "nxdomain", "servfail"} =>
  /\ response.query = asked.name
  /\ LET c == response.chain IN
       /\ c[Len(c)] = asked.name
       /\ \A i \in 1..(Len(c) - 1) : <<c[i + 1], c[i]>> \in cnames

\* Every step of doit uses up a loop, starts a look-up, or goes down: a query
\* takes a bounded number of steps whatever the servers answer.
Rank == CASE pc = "HAVENS" -> 2 [] pc = "wait" -> 1 [] OTHER -> 0
Progress == [][\/ pc = "idle" \/ pc' = "idle"
               \/ loop' > loop
               \/ loop' = loop /\ pc # "NEWNAME" /\ pc' = "NEWNAME"
               \/ loop' = loop /\ pc # "NEWNAME" /\ level' < level
               \/ loop' = loop /\ pc # "NEWNAME" /\ level' = level /\ Rank' < Rank]_vars

\* Every query ends (the loop limit of dnscache.8).
Terminates == pc # "idle" ~> pc = "idle"

----------------------------------------------------------------------------
(* What dnscache.8 says and the code does not do: see README 5.2            *)

\* dnscache.8: "Records for foo.dom, for example, are accepted only from the
\* root servers, the dom servers, and the foo.dom servers", of the addresses
\* taken from an answer.
AddressesFromZone == \A a \in accepted : a.zone \in Above[a.owner]

\* dnscache.8 on FORWARDONLY: the configured caches are asked "rather than ...
\* a chain of servers according to NS records".
ForwardsOnly == flagforwardonly /\ pc = "wait" => Zone \in Configured

=============================================================================
