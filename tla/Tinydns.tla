------------------------------ MODULE Tinydns ------------------------------
(* tinydns: the loop of server.c, which takes one query at a time, check_edns0,*)
(* and the lookup of tdlookup.c in data.cdb, while tinydns-data replaces     *)
(* data.cdb.                                                                 *)
(*                                                                           *)
(* Records come from ZoneData, those of a signed zone from Sign.  A section  *)
(* of a response is a set of records, each RecordSize bytes long; the order  *)
(* of records (which the server shuffles) is left out, but answers given     *)
(* twice (on the way round a loop of aliases) count twice in ancount.        *)
EXTENDS Sign

CONSTANTS Versions,     \* what data.cdb may hold, by a number
          Queries,      \* the packets clients send
          RecordSize, MaxNow

VARIABLES cdbs,   \* the versions, by their keys; this never changes
          file,   \* the number of the version data.cdb holds, 0 without a file
          held,   \* when data.cdb last held each version
          now,
          srv,    \* the open data.cdb, until when it counts, and the location
          job     \* the query being answered, None between two

vars == <<cdbs, file, held, now, srv, job>>

----------------------------------------------------------------------------
(* server.c *)

EmptyResponse == [aa |-> FALSE, rcode |-> 0,
                  an |-> {}, ancount |-> 0, au |-> {}, ar |-> {}]
Size(resp) == 40 + RecordSize * (resp.ancount + Cardinality(resp.au) + Cardinality(resp.ar))

\* do_dnssec and max_response_len after check_edns0.
check_edns0(q) ==
  IF q.edns = None \/ ~q.edns.ok THEN [do |-> FALSE, max |-> 512]
  ELSE [do |-> q.edns.do, max |-> Max({IF q.edns.do THEN 1220 ELSE 512, Min({q.edns.size, 4000})})]

Start(q, rcode) == [EmptyResponse EXCEPT !.aa = q.class = "IN", !.rcode = rcode]
Reply(q, rcode) == [pc |-> "send", query |-> q, resp |-> Start(q, rcode)]
Accepted(q) == [pc |-> "locate", query |-> q, opt |-> check_edns0(q),
             q |-> low(q.name), resp |-> Start(q, 0), links |-> << >>, cur |-> 0]

\* A packet comes in.  Malformed ones get no answer, some an error.
receive == \E q \in Queries :
  /\ job = None
  /\ job' = IF ~q.wellformed THEN None
            ELSE IF q.class \notin {"IN", "ANY"} THEN Reply(q, 1)
            ELSE IF q.op # 0 \/ q.type = "AXFR" THEN Reply(q, 4)
            ELSE Accepted(q)
  /\ UNCHANGED <<cdbs, file, held, now, srv>>

\* The response goes out and is forgotten; response_tc would cut one that is
\* still too long after the question.
send ==
  /\ job # None /\ job.pc = "send"
  /\ job' = None
  /\ UNCHANGED <<cdbs, file, held, now, srv>>

----------------------------------------------------------------------------
(* respond *)

\* find_client_loc opens data.cdb on its own, whatever the server has open.
locate ==
  /\ job # None /\ job.pc = "locate"
  /\ srv' = IF file = 0 THEN srv ELSE [srv EXCEPT !.loc = find_client_loc(cdbs[file], job.query.ip)]
  /\ job' = [job EXCEPT !.pc = "open"]
  /\ UNCHANGED <<cdbs, file, held, now>>

NotValid_never(valid) == valid = 0   \* mutant: an open data.cdb is kept
NotValid(valid) == valid < now

open ==
  /\ job # None /\ job.pc = "open"
  /\ IF NotValid(srv.valid)
     THEN IF file = 0 THEN srv' = [srv EXCEPT !.c = 0] /\ job' = None
          ELSE /\ srv' = [srv EXCEPT !.c = file, !.valid = now + 1]
               /\ job' = [job EXCEPT !.pc = "doit", !.cur = now]
     ELSE job' = [job EXCEPT !.pc = "doit", !.cur = now] /\ UNCHANGED srv
  /\ UNCHANGED <<cdbs, file, held, now>>

----------------------------------------------------------------------------
(* tdlookup.c *)

Ttl(r, cur) == IF r.ttd # 0 /\ r.ttl = 0 THEN Max({2, Min({3600, r.ttd - cur})}) ELSE r.ttl

\* The records of a name in the order of data.cdb.  s has the open
\* data, the client's location, the time, and whether DNSSEC is wanted.
find(s, d, wild) ==
  IF <<d, wild>> \notin DOMAIN s.rrs THEN << >>
  ELSE LET found == SelectSeq(s.rrs[<<d, wild>>], LAMBDA r : Visible(r, s.loc, s.cur))
       IN [i \in DOMAIN found |-> [found[i] EXCEPT !.ttl = Ttl(found[i], s.cur)]]
FindTypes(s, d) == {r.type : r \in ToSet(find(s, d, FALSE))}

rr(owner, r) == [owner |-> owner, type |-> r.type, ttl |-> r.ttl, names |-> r.names, payload |-> r.payload]
Sig(r, types) == r.type = "RRSIG" /\ r.payload[1] \in types

\* The records of types at d, with their signatures if DNSSEC is wanted.
WithSigs(s, d, types, signed) ==
  {rr(d, r) : r \in {x \in ToSet(find(s, d, FALSE)) : x.type \in types \/ (s.do /\ Sig(x, signed))}}

want(resp, owner, type) ==
  \A r \in resp.an \cup resp.au \cup resp.ar : r.owner # owner \/ r.type # type

\* The NSEC3 records of some hashes, unless the response has them.
addNSEC3(s, resp, hashNames) ==
  [resp EXCEPT !.au = @ \cup UNION {WithSigs(s, h, {"NSEC3"}, {"NSEC3"}) :
                                     h \in {x \in hashNames : want(resp, x, "NSEC3")}}]

\* The owners of the hash lists: the nibble is added to 'A'.
ListLabels == <<"A", "B", "C", "D", "E", "F", "G", "H", "I", "J", "K", "L", "M", "N", "O", "P">>
\* The last hash of the list that is below the digest, the first if none is.
Covering_next(list, digest) ==   \* mutant: one too far
  list[Min({i \in 2..(Len(list) + 1) : i = Len(list) + 1 \/ digest <= list[i]} \cup {Len(list)})]
Covering(list, digest) ==
  list[Min({i \in 2..(Len(list) + 1) : i = Len(list) + 1 \/ digest <= list[i]}) - 1]

\* The hash whose NSEC3 record covers a name, None when there is no list.
addNSEC3Cover(s, name, control, wild) ==
  LET digest == Hash[SeqIf(wild, <<"*">>) \o low(name)]
      lists  == SelectSeq(find(s, <<ListLabels[nibble(digest) + 1]>> \o control, FALSE),
                          LAMBDA r : r.type = HASH /\ r.payload # << >>)
  IN IF "NSEC3PARAM" \notin FindTypes(s, control) \/ lists = << >> THEN None
     ELSE HashName(Covering(lists[1].payload, digest), control)

From(name, i) == SubSeq(name, i, Len(name))

\* The hashes of a proof (None among them if there is none).  The closest
\* encloser is the first name on the way up with a reference.
addClosestEncloserProof(s, name, control, includeWild) ==
  LET refs == {i \in 1..Len(name) : HASHREF \in FindTypes(s, From(name, i))}
      e    == Min(refs)
      ref  == SelectSeq(find(s, From(name, e), FALSE), LAMBDA r : r.type = HASHREF)[1].names[1]
  IN IF refs = {} THEN {None}
     ELSE {ref, addNSEC3Cover(s, From(name, Max({1, e - 1})), control, FALSE)}
          \cup IF includeWild THEN {addNSEC3Cover(s, From(name, e), control, TRUE)} ELSE {}

\* Whether a record found for the name belongs into the answer section.
Answers(s, r, qtype) ==
  /\ r.type \in {qtype, "CNAME"} \/ qtype = "ANY" \/ (s.do /\ r.type = "RRSIG")
  /\ r.type \notin {HASHREF, HASH}
  /\ (s.do /\ r.type = "RRSIG") =>
       /\ r.payload[1] \in {qtype, "CNAME"} \/ qtype = "ANY"
       /\ r.payload[2] <= s.cur /\ s.cur <= r.payload[3]
Chosen(s, found, qtype) == SelectSeq(found, LAMBDA r : Answers(s, r, qtype))

MaxAddrs == 8
\* What may be kept of the addresses (of one kind): at most eight, chosen at
\* random, with the TTL of the last one found; with DNSSEC all.
Kept(s, addrs) ==
  LET n == Min({MaxAddrs, Len(addrs)})
  IN IF s.do THEN {{[addrs[i] EXCEPT !.ttl = IF i <= n THEN addrs[n].ttl ELSE @] : i \in DOMAIN addrs}}
     ELSE {{[addrs[i] EXCEPT !.ttl = Last(addrs).ttl] : i \in K} : K \in kSubset(n, DOMAIN addrs)}

\* Where the control of a name begins: the closest name with name servers.
Controls(s, q) == {i \in 1..(Len(q) + 1) : "NS" \in FindTypes(s, From(q, i))}

WildStop_through(s, q, i, control) == i = control   \* mutant: a closer name does not hide a wildcard
WildStop(s, q, i, control) == i = control \/ (i > 1 /\ find(s, From(q, i), FALSE) # << >>)
\* Where the search for the name, and then for wildcards, ends.
WildAt(s, q, control) ==
  Min({i \in 1..control : find(s, From(q, i), i > 1) # << >> \/ WildStop(s, q, i, control)})

\* response[RESPONSE_ANSWER + 1] is the low byte of the count, as a char.
TooManyAnswers_never(resp) == FALSE   \* mutant: CNAME loops are followed
TooManyAnswers(resp) == LET low8 == resp.ancount % 256 IN low8 \in 100..127

Targets(rrs) == {low(r.names[1]) : r \in {x \in rrs : x.type \in {"NS", "MX"}}}
OPT == [owner |-> << >>, type |-> "OPT", ttl |-> 32768, names |-> << >>, payload |-> << >>]

\* The additional section and the cuts; gave is what this link has answered.
Finish(s, resp, gave, auth, max) ==
  LET opt  == IF s.do THEN {OPT} ELSE {}
      glue == UNION {WithSigs(s, t, {"A", "AAAA"}, {"A", "AAAA"}) :
                       t \in {x \in Targets(gave \cup resp.au) : want(resp, x, "A")}}
      full == [resp EXCEPT !.ar = @ \cup opt \cup glue]
      cut  == [full EXCEPT !.ar = {}]
  IN IF ~auth \/ Size(full) <= max THEN full
     ELSE IF ~s.do /\ Size(cut) > max THEN [cut EXCEPT !.au = {}]
     ELSE cut

\* The authority section, None if a proof cannot be made; w is where the
\* answer was found, found whether there was any record.
Authority(s, resp, gave, q, control, w, auth, found) ==
  LET zone   == From(q, control)
      signed == s.do /\ {"DNSKEY", "RRSIG", "NSEC3PARAM"} \subseteq FindTypes(s, zone)
      refs   == SelectSeq(find(s, From(q, w), w > 1), LAMBDA r : r.type = HASHREF)
      soa    == rr(zone, SelectSeq(find(s, zone, FALSE), LAMBDA r : r.type = "SOA")[1])
      ns     == IF want(resp, zone, "NS")
                THEN WithSigs(s, zone, IF s.do THEN {"NS", "DS"} ELSE {"NS"}, {"NS", "DS"}) ELSE {}
      denial == auth /\ gave = {}
      proofs == CASE denial /\ signed /\ (~found \/ refs = << >>) -> addClosestEncloserProof(s, q, zone, TRUE)
                  [] denial /\ signed /\ found /\ refs # << >> ->
                       {Last(refs).names[1]} \cup IF w > 1 THEN addClosestEncloserProof(s, q, zone, FALSE) ELSE {}
                  [] ~denial /\ signed /\ w > 1 -> {addNSEC3Cover(s, From(q, w - 1), zone, FALSE)}
                  [] ~auth /\ s.do /\ ns # {} /\ \A r \in ns : r.type # "DS" -> {zone}
                  [] OTHER -> {}
      named  == [resp EXCEPT !.au = @ \cup IF denial THEN {soa} \cup WithSigs(s, zone, {}, {"SOA"}) ELSE ns]
  IN IF None \in proofs THEN None ELSE addNSEC3(s, named, proofs)

Context == [rrs |-> cdbs[srv.c].rrs, loc |-> srv.loc, cur |-> job.cur, do |-> job.opt.do]

\* One link of a chain of aliases: a call of doit.  Done ends the query, with
\* the response, or without one if it is None.
Done(resp) ==
  job' = IF resp = None THEN None
         ELSE [job EXCEPT !.pc = "send", !.resp = resp, !.links = Append(@, job.q)]

OfTypes(rs, types) == SelectSeq(rs, LAMBDA r : r.type \in types)

\* What has been picked for q goes into the response.
Given(q, picked) == {rr(q, r) : r \in picked}
Answered(resp, q, picked, auth, found) ==
  [resp EXCEPT !.an = @ \cup Given(q, picked), !.ancount = @ + Cardinality(picked),
               !.aa = (@ \/ (auth /\ ~found)) /\ auth, !.rcode = IF auth /\ ~found THEN 3 ELSE @]

\* Then the last alias is followed, or the other sections are filled.
Proceed(s, q, control, auth, w, found, cnames, gave, resp) ==
  IF cnames # << >>
  THEN IF TooManyAnswers(resp) THEN job' = None
       ELSE job' = [job EXCEPT !.resp = resp, !.q = Last(cnames).names[1], !.links = Append(@, q)]
  ELSE \E au \in {Authority(s, resp, gave, q, control, w, auth, found)} :
         Done(IF au = None THEN None ELSE Finish(s, au, gave, auth, job.opt.max))

doit ==
  /\ job # None /\ job.pc = "doit"
  /\ UNCHANGED <<cdbs, file, held, now, srv>>
  /\ LET s == Context
         q == job.q
         controls == Controls(s, q)
         control == Min(controls)
         auth == "SOA" \in FindTypes(s, From(q, control))
         w == IF auth THEN WildAt(s, q, control) ELSE 1
         all == IF auth THEN find(s, From(q, w), w > 1) ELSE << >>
         chosen == Chosen(s, all, job.query.type)
         soas == OfTypes(chosen, {"SOA"})
         cnames == IF job.query.type = "CNAME" THEN << >> ELSE OfTypes(chosen, {"CNAME"})
         Others == {r \in ToSet(chosen) : r.type \notin {"A", "AAAA", "SOA"}}
     IN IF controls = {} THEN Done(IF job.links = << >> THEN None ELSE [job.resp EXCEPT !.aa = FALSE])
        ELSE \E ka \in Kept(s, OfTypes(chosen, {"A"})), k6 \in Kept(s, OfTypes(chosen, {"AAAA"})) :
               LET picked == ka \cup k6 \cup Others \cup IF soas = << >> THEN {} ELSE {soas[1]}
               IN Proceed(s, q, control, auth, w, all # << >>, cnames, Given(q, picked),
                          Answered(job.resp, q, picked, auth, all # << >>))

----------------------------------------------------------------------------
(* tinydns-data and the clock *)

replace == \E v \in DOMAIN cdbs :
  /\ v # file
  /\ file' = v /\ held' = [held EXCEPT ![v] = now]
  /\ UNCHANGED <<cdbs, now, srv, job>>

tick ==
  /\ now < MaxNow
  /\ now' = now + 1 /\ held' = [held EXCEPT ![file] = now + 1]
  /\ UNCHANGED <<cdbs, file, srv, job>>

\* A version as cdb_findnext sees it.
Keyed(cdb) ==
  [locs |-> cdb.locs,
   rrs |-> [k \in {<<cdb.rrs[i].name, cdb.rrs[i].wild>> : i \in DOMAIN cdb.rrs} |->
              SelectSeq(cdb.rrs, LAMBDA r : r.name = k[1] /\ r.wild = k[2])]]

Init ==
  /\ cdbs = [v \in DOMAIN Versions |-> Keyed(Versions[v])]
  /\ file = 0 /\ now = 1 /\ held = [v \in DOMAIN Versions \cup {0} |-> IF v = 0 THEN 1 ELSE 0]
  /\ srv = [c |-> 0, valid |-> 0, loc |-> ""] /\ job = None

Next == receive \/ locate \/ open \/ doit \/ send \/ replace \/ tick
Spec == Init /\ [][Next]_vars

----------------------------------------------------------------------------
(* Properties *)

Answering == job # None /\ job.pc = "send" /\ "links" \in DOMAIN job
Exists(s, n) == find(s, n, FALSE) # << >>
Star(s, n) == find(s, n, TRUE) # << >>
\* The wildcard that stands for q: no name on the way to it exists
\* (tdlookup.c:539-543).
StandsFor(s, q, i) ==
  /\ Star(s, From(q, i)) /\ ~Exists(s, q)
  /\ \A j \in 2..(i - 1) : ~Exists(s, From(q, j)) /\ ~Star(s, From(q, j))
Wildcards(s, q) == {i \in 2..(Len(q) + 1) : StandsFor(s, q, i)}

\* A response answers the question.  Its answers are a chain of aliases from
\* the name asked for, each from the records of that very name in data.cdb or
\* of the wildcard that stands for it; the last name is denied iff neither
\* exists, and nothing of the type asked for is held back but by the limit of
\* eight addresses.  Two things are here as the code has them and stated
\* otherwise below: a name that exists hides a wildcard from the names below
\* it (WildcardsApply), and the name an alias points to is looked up as it is
\* spelled, while those in data.cdb are in lower case (CaseIgnored).
RightAnswer ==
  (Answering /\ Controls(Context, Last(job.links)) # {}) =>
    LET s == Context
        q == Last(job.links)
        n == Len(job.links)
        resp == job.resp
        source == IF Exists(s, q) THEN ToSet(find(s, q, FALSE))
                  ELSE UNION {ToSet(find(s, From(q, i), TRUE)) : i \in Wildcards(s, q)}
        last == {r \in resp.an : r.owner = q}
        asked == {r \in source : r.type = job.query.type}
        child == "SOA" \notin FindTypes(s, From(q, Min(Controls(s, q))))
    IN /\ job.links[1] = low(job.query.name)
       /\ \A i \in 1..(n - 1) : \E r \in resp.an : r.owner = job.links[i] /\ r.type = "CNAME"
                                                  /\ r.names[1] = job.links[i + 1]
       /\ child => ~resp.aa /\ last = {} /\ \E r \in resp.au : r.type = "NS"
       /\ ~child => /\ (resp.rcode = 3) <=> (source = {})
                    /\ \A r \in last : \E x \in source : [rr(q, x) EXCEPT !.ttl = r.ttl] = r
                    /\ Cardinality({r \in last : r.type = job.query.type})
                         >= Min({Cardinality(asked), IF job.query.type = "SOA" THEN 1 ELSE MaxAddrs})

\* Whether q, looked up in the zone it belongs to, is not below a delegation.
Ours(s, q) == Controls(s, q) # {} /\ "SOA" \in FindTypes(s, From(q, Min(Controls(s, q))))

\* What tinydns-data.8:641-647 says of wildcards: information for *.fqdn is
\* provided for every name ending with .fqdn, except names that have their own
\* records and names that are covered by more specific wildcards.  Not an
\* invariant: see README 5.2.
WildcardsApply ==
  Answering =>
    LET s == Context
        q == Last(job.links)
        Covers(i) == Star(s, From(q, i)) /\ \A j \in 2..(i - 1) : ~Star(s, From(q, j))
    IN (Ours(s, q) /\ ~Exists(s, q) /\ \E i \in 2..Min(Controls(s, q)) : Covers(i)) => job.resp.rcode = 0

\* Domain names may be written in any case (CHANGES:50): whatever the letters
\* of the name an alias points to, its records are found.  Not an invariant:
\* see README 5.2.
CaseIgnored ==
  Answering =>
    LET s == Context
        q == low(Last(job.links))
    IN Ours(s, q) =>
         \A x \in ToSet(find(s, q, FALSE)) :
           x.type = job.query.type => \E r \in job.resp.an : r.type = x.type /\ low(r.owner) = q

\* Loops of aliases are noticed: no query is followed for ever.
LoopsEnd == (job # None /\ "links" \in DOMAIN job) => Len(job.links) <= 100

\* A record's own hash, from its owner.
OwnHash(r) == CHOOSE h \in {Hash[n] : n \in DOMAIN Hash} : base32hex(h) = r.owner[1]

\* A client that asks for DNSSEC in a signed zone gets a response, and if its
\* name or type does not exist a denial that is true and proves itself: NSEC3
\* records, each with its signature, of which one belongs to the closest
\* existing name above and others leave no room for the next name below it
\* and for a wildcard, or one belongs to the name and lacks the type.
Denied(s, resp, q, type) ==
  LET zone == From(q, Min(Controls(s, q)))
      nsec3 == {r \in resp.au : r.type = "NSEC3"}
      Belongs(n) == {r \in nsec3 : r.owner = HashName(Hash[n], zone)}
      Covers(r, h) == LET next == r.payload[1]
                      IN IF OwnHash(r) < next THEN OwnHash(r) < h /\ h < next ELSE h > OwnHash(r) \/ h < next
      Gap(n) == \E r \in nsec3 : Covers(r, Hash[n])
      Lacks(n) == \E r \in Belongs(n) : {type, "CNAME"} \cap r.payload[2] = {}
      Encloses(i) == Belongs(From(q, i)) # {} /\ Gap(From(q, i - 1))
      encloser == 2..(Len(q) - Len(zone) + 1)
      Here(r) == r.name = q \/ (IsSuffix(q, r.name) /\ Len(r.name) > Len(q))
  IN /\ \A r \in nsec3 : \E x \in resp.au : x.owner = r.owner /\ x.type = "RRSIG"
     /\ resp.rcode = 3 => /\ \E i \in encloser : Encloses(i) /\ Gap(<<"*">> \o From(q, i))
                          /\ \A k \in DOMAIN s.rrs : \A r \in ToSet(s.rrs[k]) : Visible(r, s.loc, s.cur) => ~Here(r)
     /\ (resp.rcode = 0 /\ {r \in resp.an : r.owner = q} = {}) =>
          Lacks(q) \/ \E i \in encloser : Encloses(i) /\ Lacks(<<"*">> \o From(q, i))
     /\ ({r \in resp.an : r.owner = q} # {} /\ ~Exists(s, q)) => \E i \in encloser : Gap(From(q, i - 1))

\* (A name with capital letters at the end of an alias is denied though it
\* exists, see CaseIgnored: of it nothing true could be proved.)
Proven ==
  [][ (job # None /\ job.pc = "doit" /\ job.opt.do /\ job.q = low(job.q) /\ Controls(Context, job.q) # {}) =>
        LET s == Context
            q == job.q
            types == FindTypes(s, From(q, Min(Controls(s, q))))
        IN ({"SOA", "DNSKEY", "RRSIG", "NSEC3PARAM"} \subseteq types /\ "NSEC3" \notin FindTypes(s, q)
              /\ (job' # None => job'.pc = "send")) =>
             job' # None /\ Denied(s, job'.resp, q, job.query.type) ]_vars

\* The data a response comes from was in data.cdb at most a second before.
FreshData == (job # None /\ "cur" \in DOMAIN job /\ job.pc \in {"doit", "send"}) => held[srv.c] >= job.cur - 1
=============================================================================
