----------------------------- MODULE MCTinydns -----------------------------
(* The zone ex in two versions: unsigned, with a location, timed records, a  *)
(* loop of aliases and nine addresses of a name; and signed.                 *)
EXTENDS Tinydns

CONSTANTS ip1, ip2, ip3, ip4, ip5, ip6, ip7, ip8, ip9, key, param, ds

Ex == <<"ex">>
At(labels) == labels \o Ex
Www == At(<<"www">>)

QNames == {Ex, Www, <<"other">>, <<"WWW", "ex">>} \cup
          {At(n) : n \in {<<"alias">>, <<"nx">>, <<"a", "w">>, <<"x", "w">>, <<"b", "x", "w">>, <<"w">>, <<"deep">>,
                          <<"nx", "deep">>, <<"a", "sub">>, <<"sub">>, <<"many">>, <<"loop">>, <<"out">>, <<"cap">>}}
OtherNames == {At(n) : n \in {<<"a", "ns">>, <<"deep", "deep">>, <<"back">>}}
Closure == UNION {{From(n, i) : i \in 1..(Len(n) + 1)} : n \in QNames \cup OtherNames}
Hashable == Closure \cup {<<"*">> \o n : n \in Closure}
LabelSeq == <<"*", "ex", "www", "other", "WWW", "alias", "nx", "a", "w", "x", "b", "deep", "sub", "many", "loop", "out",
              "ns", "back", "cap">>
Number(l) == CHOOSE i \in DOMAIN LabelSeq : LabelSeq[i] = l
\* Some function without collisions.
Hashes == LET Sum[n \in Hashable] == IF n = << >> THEN 0 ELSE (4 * Number(Head(n)) + 14 * Sum[Tail(n)]) % 251
            IN [n \in Hashable |-> Sum[n]]
MCHash == Hashes
ASSUME IsInjective(MCHash)

Labels == UNION {ToSet(n) : n \in Hashable} \cup {base32hex(h) : h \in 0..250}
          \cup ToSet(ListLabels) \cup ToSet(HexDigits) \cup {"hostmaster", "in-addr", "arpa", "mx", "ns"}
Lowers == [l \in Labels |-> IF l = "WWW" THEN "www" ELSE l]
MCLower == Lowers
MCLetters == << >>

Line(kind, fqdn, ip, x, num) ==
  [kind |-> kind, fqdn |-> fqdn, ip |-> ip, x |-> x, dot |-> TRUE, num |-> num, ttl |-> None, ttd |-> 0, lo |-> ""]
Host(n, ip) == Line("+", At(n), ip, << >>, << >>)
Alias(n, p) == Line("C", At(n), None, <<p>>, << >>)

Common == <<Line(".", Ex, ip1, <<At(<<"a", "ns">>)>>, << >>),
            Line("@", Ex, None, <<Www>>, <<10>>),
            Host(<<"*", "w">>, ip3), Host(<<"x", "w">>, ip4), Host(<<"deep", "deep">>, ip5),
            Alias(<<"alias">>, Www), Alias(<<"out">>, <<"other">>), Alias(<<"cap">>, <<"WWW", "ex">>),
            Line("&", At(<<"sub">>), ip6, <<At(<<"a", "sub">>)>>, << >>)>>

Plain == Common \o
  <<Alias(<<"loop">>, At(<<"back">>)), Alias(<<"back">>, At(<<"loop">>)),
    [Line("%", << >>, None, << >>, <<"f", 10>>) EXCEPT !.lo = "in"],
    [Host(<<"www">>, ip1) EXCEPT !.lo = "in"],
    [Host(<<"www">>, ip2) EXCEPT !.ttl = 0, !.ttd = 2],
    [Host(<<"www">>, ip3) EXCEPT !.ttl = 5, !.ttd = 2],
    Host(<<"many">>, ip1), Host(<<"many">>, ip2), Host(<<"many">>, ip3), Host(<<"many">>, ip4), Host(<<"many">>, ip5),
    Host(<<"many">>, ip6), Host(<<"many">>, ip7), Host(<<"many">>, ip8), Host(<<"many">>, ip9)>>

Unsigned == Common \o
  <<Host(<<"www">>, ip2), Line("#K", Ex, None, << >>, <<key>>), Line("#P", Ex, None, << >>, <<param>>),
    Line("#D", At(<<"sub">>), None, << >>, <<ds>>)>>

Data == <<Compiled(Plain, 1), Compiled(sign(Unsigned, 1, ListLabels), 1)>>

\* TLC evaluates a definition without parameters once, a constant each time.
MCVersions == Data

\* The same with the lists where tinydns-sign puts them.
DataHex == <<Compiled(Plain, 1), Compiled(sign(Unsigned, 1, HexDigits), 1)>>
MCVersionsHex == DataHex

Edns(do, size) == [ok |-> TRUE, do |-> do, size |-> size]
Query(name, type, edns, ip) ==
  [wellformed |-> TRUE, name |-> name, type |-> type, class |-> "IN", op |-> 0, edns |-> edns, ip |-> ip]
In == <<"f", 10, 1>>
Out == <<"f", 11, 1>>
Packets ==
  {Query(n, "A", e, Out) : n \in QNames, e \in {None, Edns(TRUE, 4000)}}
  \cup {Query(n, "MX", e, Out) : n \in {Ex, Www, At(<<"a", "w">>), At(<<"nx">>)}, e \in {Edns(FALSE, 600), Edns(TRUE, 512)}}
  \cup {Query(n, "ANY", e, In) : n \in {Ex, Www, At(<<"alias">>)}, e \in {None, Edns(TRUE, 5000)}}
  \cup {Query(At(<<"alias">>), "CNAME", None, In), Query(Www, "A", None, In), Query(Ex, "AXFR", None, In),
        [Query(Ex, "SOA", None, In) EXCEPT !.class = "ANY"], [Query(Ex, "A", None, In) EXCEPT !.class = "CH"],
        [Query(Ex, "A", None, In) EXCEPT !.op = 2], [Query(Ex, "A", None, In) EXCEPT !.wellformed = FALSE],
        [Query(Ex, "A", Edns(TRUE, 600), In) EXCEPT !.edns.ok = FALSE]}
MCQueries == Packets
=============================================================================
