------------------------------ MODULE ZoneData ------------------------------
(* The data of tinydns and its conversions: what a line of the text file    *)
(* data becomes in data.cdb (tinydns-data.c), which records of data.cdb      *)
(* axfrdns sends and how (axfrdns.c, clientloc.c), which lines axfr-get      *)
(* writes for them (axfr-get.c), and which line tinydns-edit adds            *)
(* (tinydns-edit.c).                                                         *)
(*                                                                           *)
(* A name is a sequence of labels, the root is << >>, a name x of a line     *)
(* without a dot is completed by its fqdn.  Numbers and addresses stand for  *)
(* their texts; None is an empty field.  A line is a record                  *)
(*   [kind, fqdn, ip, x, dot, num, ttl, ttd, lo]                             *)
(* with the names x, the numbers or payload num, and dot true iff the name   *)
(* field has a dot.  A location line keeps its prefix in num.                *)
EXTENDS Integers, SequencesExt

CONSTANTS None,
          Lower,    \* the lower-case form of a label, as case_lowerb gives it
          Letters   \* the letters tinydns-edit gives out, in order (a to z)

TTL_NS == 259200
TTL_POSITIVE == 86400
TTL_NEGATIVE == 2560
HASH == "65282"   \* lists of hashes; their owners are not lower-cased

low(name) == [i \in DOMAIN name |-> Lower[name[i]]]
Default(field, value) == IF field = None THEN value ELSE field
SeqIf(b, s) == IF b THEN s ELSE << >>

----------------------------------------------------------------------------
(* tinydns-data *)

\* Refresh, retry, expire and minimum are constants, the serial is the time
\* of the last modification.
defaultsoa_coarse(mtime) ==   \* mutant: the serial number does not tell seconds apart
  <<(mtime + 2) \div 2, 16384, 2048, 1048576, 2560>>
defaultsoa(mtime) == <<IF mtime = 0 THEN 1 ELSE mtime, 16384, 2048, 1048576, 2560>>

\* A record of data.cdb; a leading "*" of the owner becomes a flag.
RR(owner, type, ttl, l, names, payload) ==
  LET wild == owner # << >> /\ owner[1] = "*"
      base == IF wild THEN Tail(owner) ELSE owner
  IN [name |-> IF type = HASH THEN base ELSE low(base), wild |-> wild, type |-> type,
      lo |-> l.lo, ttl |-> ttl, ttd |-> l.ttd, names |-> names, payload |-> payload]

Completed(l, middle) == IF l.dot THEN l.x[1] ELSE l.x[1] \o <<middle>> \o l.fqdn
Glue(l, owner, ttl) == SeqIf(l.ip # None, <<RR(owner, "A", ttl, l, << >>, <<l.ip>>)>>)

SoaLine(l, mtime) ==
  <<RR(l.fqdn, "SOA", Default(l.ttl, TTL_NEGATIVE), l, l.x,
       [i \in 1..5 |-> Default(l.num[i], defaultsoa(mtime)[i])])>>

NsLine(l, mtime) ==
  LET ttl == Default(l.ttl, TTL_NS)
      ns  == Completed(l, "ns")
  IN SeqIf(l.kind = ".",
           <<RR(l.fqdn, "SOA", IF ttl = 0 THEN 0 ELSE TTL_NEGATIVE, l,
                <<ns, <<"hostmaster">> \o l.fqdn>>, defaultsoa(mtime))>>)
     \o <<RR(l.fqdn, "NS", ttl, l, <<ns>>, << >>)>> \o Glue(l, ns, ttl)

HostLine(l) ==
  LET ttl == Default(l.ttl, TTL_POSITIVE)
  IN SeqIf(l.ip # None,
       <<RR(l.fqdn, "A", ttl, l, << >>, <<l.ip>>)>>
       \o SeqIf(l.kind = "=", <<RR(<<l.ip, "in-addr", "arpa">>, "PTR", ttl, l, <<l.fqdn>>, << >>)>>))

Host6Line(l) ==
  LET ttl == Default(l.ttl, TTL_POSITIVE)
      Ptr(top) == RR(<<l.ip, "ip6", top>>, "PTR", ttl, l, <<l.fqdn>>, << >>)
  IN SeqIf(l.ip # None,
       <<RR(l.fqdn, "AAAA", ttl, l, << >>, <<l.ip>>)>>
       \o SeqIf(l.kind = "6", <<Ptr("arpa"), Ptr("int")>>))

MxLine(l) ==
  LET ttl == Default(l.ttl, TTL_POSITIVE)
      mx  == Completed(l, "mx")
  IN <<RR(l.fqdn, "MX", ttl, l, <<mx>>, <<Default(l.num[1], 0)>>)>> \o Glue(l, mx, ttl)

\* The fields are port, priority and weight; the record has the port last.
SrvLine(l) ==
  LET ttl == Default(l.ttl, TTL_POSITIVE)
      srv == Completed(l, "srv")
  IN <<RR(l.fqdn, "SRV", ttl, l, <<srv>>, <<Default(l.num[2], 0), Default(l.num[3], 0), l.num[1]>>)>>
     \o Glue(l, srv, ttl)

PointerLine(l) == <<RR(l.fqdn, IF l.kind = "C" THEN "CNAME" ELSE "PTR",
                       Default(l.ttl, TTL_POSITIVE), l, l.x, << >>)>>

\* num is the text and its length; it is cut into strings of 255 bytes.
Chunks(len) == [i \in 1..((len + 254) \div 255) |-> IF i * 255 <= len THEN 255 ELSE len % 255]
TxtLine(l) == <<RR(l.fqdn, "TXT", Default(l.ttl, TTL_POSITIVE), l, << >>,
                   <<l.num[1]>> \o Chunks(l.num[2]))>>

\* num is the fingerprint and the length of its text; x, when there, is the
\* host (or with dot the whole owner), x[2] its port and protocol.
TlsaLine(l) ==
  LET owner == IF l.x = << >> THEN <<"_25", "_tcp", "mail">> \o l.fqdn
               ELSE IF l.dot THEN l.x[1]
               ELSE l.x[2] \o l.x[1] \o l.fqdn
      type  == CASE l.num[2] = 64 -> 1 [] l.num[2] = 128 -> 2 [] OTHER -> 0
  IN <<RR(owner, "TLSA", Default(l.ttl, TTL_POSITIVE), l, << >>, <<3, 0, type, l.num[1]>>)>>

\* num[1] is the type, the rest (and x) the payload.
RawLine(l) == <<RR(l.fqdn, l.num[1], Default(l.ttl, TTL_POSITIVE), l, l.x, Tail(l.num))>>

Prohibited == {"AXFR", "0", "SOA", "NS", "CNAME", "PTR", "MX"}
Kinds == {"#", "#K", "#D", "#P", "-", "%", "Z", ".", "&", "+", "=", "6", "3", "@", "S", "^", "C", "'", "_", ":"}
\* Whether tinydns-data gets past a line.
Parses(l) ==
  /\ l.kind \in Kinds
  /\ l.kind = ":" => l.num[1] \notin Prohibited
  /\ l.kind = "S" => l.num[1] # None

Records(l, mtime) ==
  CASE l.kind = "Z" -> SoaLine(l, mtime)
    [] l.kind \in {".", "&"} -> NsLine(l, mtime)
    [] l.kind \in {"+", "="} -> HostLine(l)
    [] l.kind \in {"6", "3"} -> Host6Line(l)
    [] l.kind = "@" -> MxLine(l)
    [] l.kind = "S" -> SrvLine(l)
    [] l.kind \in {"^", "C"} -> PointerLine(l)
    [] l.kind = "'" -> TxtLine(l)
    [] l.kind = "_" -> TlsaLine(l)
    [] l.kind = ":" -> RawLine(l)
    [] OTHER -> << >>

\* The contents of data.cdb for a text that parses.
Compiled(lines, mtime) ==
  [rrs  |-> FlattenSeq([i \in DOMAIN lines |-> Records(lines[i], mtime)]),
   locs |-> SelectSeq(lines, LAMBDA l : l.kind = "%")]

----------------------------------------------------------------------------
(* axfrdns and clientloc.c *)

\* The location of the longest listed prefix of a client's address, "" for
\* none.  An address starts with "f" (four bytes follow) or "s" (hexadecimal
\* digits, of which at least one and at most sixteen count).
find_client_loc(cdb, ip) ==
  LET Fits(i) == /\ IsPrefix(cdb.locs[i].num, ip)
                 /\ ip[1] = "s" => Len(cdb.locs[i].num) \in 2..17
      fitting == {i \in DOMAIN cdb.locs : Fits(i)}
      longest == {i \in fitting : \A j \in fitting : Len(cdb.locs[j].num) <= Len(cdb.locs[i].num)}
  IN IF fitting = {} THEN "" ELSE cdb.locs[CHOOSE i \in longest : \A j \in longest : i <= j].lo

\* A record without TTL ends at its time, one with a TTL begins after it.
InTime(r, now) == r.ttd = 0 \/ (IF r.ttl = 0 THEN now <= r.ttd ELSE r.ttd < now)
Visible(r, loc, now) == r.lo \in {"", loc} /\ InTime(r, now)

\* The record in a message.
build(r) == [name |-> SeqIf(r.wild, <<"*">>) \o r.name, type |-> r.type,
             ttl |-> IF r.ttd # 0 /\ r.ttl = 0 THEN 2 ELSE r.ttl,
             names |-> r.names, payload |-> r.payload]

Soas(cdb, zone, loc, now) ==
  SelectSeq(cdb.rrs, LAMBDA r : r.name = zone /\ r.type = "SOA" /\ ~r.wild /\ Visible(r, loc, now))
Body(cdb, zone, loc, now) ==
  SelectSeq(cdb.rrs, LAMBDA r : IsSuffix(zone, r.name) /\ r.type # "SOA" /\ Visible(r, loc, now))

\* The messages of a transfer; only a zone with an SOA record has one.
doaxfr(cdb, zone, loc, now) ==
  LET soa  == build(Soas(cdb, zone, loc, now)[1])
      body == Body(cdb, zone, loc, now)
  IN <<soa>> \o [i \in DOMAIN body |-> build(body[i])] \o <<soa>>

----------------------------------------------------------------------------
(* axfr-get *)

\* A line made for message r, with the lower-case names dns_domain_todot
\* writes, each ended by a dot.
LineFor(r, kind, ip, num) ==
  [kind |-> kind, fqdn |-> low(r.name), ip |-> ip,
   x |-> [i \in DOMAIN r.names |-> low(r.names[i])], dot |-> TRUE,
   num |-> num, ttl |-> r.ttl, ttd |-> 0, lo |-> ""]

SerialLine(serial) ==
  [kind |-> "#", fqdn |-> << >>, ip |-> None, x |-> << >>, dot |-> FALSE,
   num |-> <<serial>>, ttl |-> None, ttd |-> 0, lo |-> ""]

\* doit refuses a message outright (the rest of its checks are about its form).
Refused(r) == r.type = "NS" /\ r.name # << >> /\ r.name[1] = "*"

\* The lines doit writes for the first SOA record and for the others.
LinesFor(r) ==
  CASE r.type = "SOA" -> <<SerialLine(r.payload[1]), LineFor(r, "Z", None, r.payload)>>
    [] r.type = "NS" -> <<LineFor(r, "&", None, << >>)>>
    [] r.type = "CNAME" -> <<LineFor(r, "C", None, << >>)>>
    [] r.type = "PTR" -> <<LineFor(r, "^", None, << >>)>>
    [] r.type = "MX" -> <<LineFor(r, "@", None, r.payload)>>
    [] r.type = "SRV" -> <<LineFor(r, "S", None, r.payload)>>
    [] r.type = "A" -> <<LineFor(r, "+", r.payload[1], << >>)>>
    [] r.type = "AAAA" -> <<LineFor(r, "3", r.payload[1], << >>)>>
    [] OTHER -> <<[LineFor(r, ":", None, <<r.type>> \o r.payload) EXCEPT !.x = r.names]>>

----------------------------------------------------------------------------
(* tinydns-edit *)

\* mutant: names are compared without the part the program appends
UsedLetters_bare(lines, kind, target) ==
  {c \in ToSet(Letters) : \E i \in DOMAIN lines : lines[i].kind = kind /\ lines[i].x = <<<<c>> \o target>>}

\* What gets a letter: name servers and mail exchangers.
Lettered == {".", "&", "@"}
Middle(kind) == IF kind = "@" THEN "mx" ELSE "ns"

\* The letters that lines of the same kind and name have taken.
UsedLetters(lines, kind, target) ==
  LET Has(l, c) == /\ l.kind = kind /\ low(l.fqdn) = low(target)
                   /\ low(Completed(l, Middle(kind))) = low(<<c, Middle(kind)>> \o target)
  IN {c \in ToSet(Letters) : \E i \in DOMAIN lines : Has(lines[i], c)}

\* The TTL of the last line that counts, or the default.
EditTtl(lines, kind, target) ==
  LET default == IF kind \in {".", "&"} THEN TTL_NS ELSE TTL_POSITIVE
      same == {i \in DOMAIN lines : lines[i].kind = kind /\ low(lines[i].fqdn) = low(target)}
  IN IF kind \notin Lettered \/ same = {} THEN default
     ELSE Default(lines[CHOOSE i \in same : \A j \in same : j <= i].ttl, default)

\* "host name already used", "IP address already used".  The address of a
\* line of kind 6 is in a form that ip6_scan does not read.
AlreadyUsed(lines, kind, target, ip) ==
  /\ kind \in {"=", "6"}
  /\ \E i \in DOMAIN lines : /\ lines[i].kind = kind
                             /\ \/ low(lines[i].fqdn) = low(target)
                                \/ kind = "=" /\ lines[i].ip = ip
TooMany(lines, kind, target) ==
  kind \in Lettered /\ UsedLetters(lines, kind, target) = ToSet(Letters)

\* The line added.
Added(lines, kind, target, ip) ==
  LET free == CHOOSE i \in DOMAIN Letters :
                /\ Letters[i] \notin UsedLetters(lines, kind, target)
                /\ \A j \in 1..(i - 1) : Letters[j] \in UsedLetters(lines, kind, target)
      lettered == kind \in Lettered
  IN [kind |-> kind, fqdn |-> low(target), ip |-> ip,
      x |-> SeqIf(lettered, <<<<Letters[free]>>>>), dot |-> FALSE, num |-> <<None>>,
      ttl |-> EditTtl(lines, kind, target), ttd |-> 0, lo |-> ""]
=============================================================================
