-------------------------------- MODULE Sign --------------------------------
(* tinydns-sign: the lines of data are copied, with fixed serial numbers,    *)
(* and followed by the records DNSSEC needs: for every name of a signed zone *)
(* an NSEC3 record under its hash, a reference (65281) from the name to that *)
(* hash, for every nibble the list (65282) of the hashes that begin with it, *)
(* and signatures.                                                           *)
(*                                                                           *)
(* The pseudo lines #K, #D and #P are kinds of their own and hold what       *)
(* follows the type in num.  Locations and times of the lines are left out,  *)
(* as tinydns-sign.8 says they should be in a signed zone.  A zone with keys *)
(* but without #P is refused by the program and is not modelled, nor is a    *)
(* serial number that begins with two zeros.                                 *)
EXTENDS ZoneData, TLC

CONSTANTS Hash,         \* the hash of a name, a number
          NibbleSize,   \* how many hashes begin with the same nibble
          SigTtl        \* how long signatures are valid (-t)

HASHREF == "65281"
Nibbles == 0..15
nibble(h) == h \div NibbleSize
HexDigits == <<"0", "1", "2", "3", "4", "5", "6", "7", "8", "9", "a", "b", "c", "d", "e", "f">>

base32hex(h) == "h" \o ToString(h)
HashName(h, zone) == <<base32hex(h)>> \o zone

\* makeGenericRecord: a line for a record of any type.
Generic(name, type, names, payload) ==
  [kind |-> ":", fqdn |-> name, ip |-> None, x |-> names, dot |-> TRUE, num |-> <<type>> \o payload,
   ttl |-> None, ttd |-> 0, lo |-> ""]

Generated == {"DS", "RRSIG", "DNSKEY", "NSEC3", "NSEC3PARAM", HASHREF, HASH}
PseudoType == [k \in {"#K", "#D", "#P"} |->
                 CASE k = "#K" -> "DNSKEY" [] k = "#D" -> "DS" [] OTHER -> "NSEC3PARAM"]

\* The SOA line that takes the place of the first half of a "." line.
SoaOf(l, now) ==
  [l EXCEPT !.kind = "Z", !.ip = None, !.x = <<Completed(l, "ns"), <<"hostmaster">> \o l.fqdn>>,
            !.dot = TRUE, !.num = <<now, None, None, None, l.ttl>>, !.ttl = None]

\* What is printed for line i.
Copied(lines, i, now) ==
  LET l == lines[i]
      HasSoa(j) == lines[j].kind \in {".", "Z"} /\ low(lines[j].fqdn) = low(l.fqdn)
  IN CASE l.kind = ":" /\ l.num[1] \in Generated -> << >>
       [] l.kind = "." -> <<[l EXCEPT !.kind = "&"]>>
                          \o SeqIf(~\E j \in 1..(i - 1) : HasSoa(j), <<SoaOf(l, now)>>)
       [] l.kind = "Z" -> <<[l EXCEPT !.num[1] = now]>>
       [] l.kind \in DOMAIN PseudoType ->
            <<l, Generic(low(l.fqdn), PseudoType[l.kind], << >>, l.num)>>
       [] OTHER -> <<l>>

Owner(r) == SeqIf(r.wild, <<"*">>) \o r.name

\* The records tinydns-sign keeps of the lines: services and TLSA records are
\* "unknown" to it, although it copies their lines.
Tracked(lines) ==
  UNION {ToSet(Records(lines[i], 0)) : i \in {j \in DOMAIN lines : lines[j].kind \notin {"S", "_", "%"}}}

TypesAt(recs, name) == {r.type : r \in {s \in recs : Owner(s) = name}}

\* The zone a name is in, None for glue and names outside.
findControl(recs, name) ==
  LET Cut(i) == TypesAt(recs, SubSeq(name, i, Len(name))) \cap (IF i = 1 THEN {"SOA"} ELSE {"SOA", "NS"}) # {}
      cuts == {i \in 1..(Len(name) + 1) : Cut(i)}
      top  == SubSeq(name, Min(cuts), Len(name))
  IN IF cuts # {} /\ "SOA" \in TypesAt(recs, top) THEN top ELSE None

\* The names that get a hash: those of the zone and the empty ones between.
HashedNames(recs, zone) ==
  LET Above(n) == {SubSeq(n, i, Len(n)) : i \in 1..(Len(n) - Len(zone) + 1)}
  IN UNION {Above(n) : n \in {Owner(r) : r \in {s \in recs : findControl(recs, Owner(s)) = zone}}}

Ranked(S, rank) == [i \in 1..Cardinality(S) |-> CHOOSE x \in S : Cardinality({y \in S : rank[y] < rank[x]}) = i - 1]
Sorted(S) == Ranked(S, [h \in S |-> h])
NextHash(hashes, h) == IF h = Max(hashes) THEN Min(hashes) ELSE Min({g \in hashes : g > h})

\* A list begins with the greatest hash before its nibble, around the end of
\* the hashes for nibble 0 and the empty nibbles after it.
byNibble(hashes, nib) ==
  LET first  == nibble(Min(hashes))
      before == {h \in hashes : nibble(h) < nib}
      own    == Sorted({h \in hashes : nibble(h) = nib})
  IN CASE nib = 0 \/ nib < first -> <<Max(hashes)>> \o own
       [] nib = first -> own
       [] OTHER -> <<Max(before)>> \o own

\* The types there are, in some order.
Types == <<"A", "NS", "CNAME", "SOA", "PTR", "MX", "TXT", "AAAA", "DS", "DNSKEY", "NSEC3PARAM">>

ZoneLines(recs, zone, now, labels) ==
  LET names  == HashedNames(recs, zone)
      hashes == {Hash[n] : n \in names}
      Nsec3(n) == <<Generic(HashName(Hash[n], zone), "NSEC3", << >>,
                            <<NextHash(hashes, Hash[n]), TypesAt(recs, n)>>),
                    Generic(n, HASHREF, <<HashName(Hash[n], zone)>>, << >>)>>
      Signed(n) == IF n # zone /\ "NS" \in TypesAt(recs, n) THEN TypesAt(recs, n) \cap {"DS"} ELSE TypesAt(recs, n)
      Rrsig(n, type) == Generic(n, "RRSIG", <<zone>>, <<type, now - 3600, now + SigTtl>>)
      Rrsigs(n) == LET types == SelectSeq(Types, LAMBDA t : t \in Signed(n))
                   IN [i \in DOMAIN types |-> Rrsig(n, types[i])] \o <<Rrsig(HashName(Hash[n], zone), "NSEC3")>>
      order == Ranked(names, Hash)
  IN FlattenSeq([i \in DOMAIN order |-> Nsec3(order[i])])
     \o [i \in 1..16 |-> Generic(<<labels[i]>> \o zone, HASH, << >>, byNibble(hashes, i - 1))]
     \o FlattenSeq([i \in DOMAIN order |-> Rrsigs(order[i])])

\* The text with its DNSSEC records; labels are the owners of the lists.
sign(lines, now, labels) ==
  LET base == FlattenSeq([i \in DOMAIN lines |-> Copied(lines, i, now)])
      recs == Tracked(base)
      zones == {z \in {Owner(r) : r \in recs} : {"SOA", "DNSKEY", "NSEC3PARAM"} \subseteq TypesAt(recs, z)}
  IN base \o FlattenSeq([i \in 1..Cardinality(zones) |-> ZoneLines(recs, Ranked(zones, Hash)[i], now, labels)])
=============================================================================
