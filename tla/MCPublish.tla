----------------------------- MODULE MCPublish -----------------------------
(* The zone ex, with a line of every kind tinydns-data reads. *)
EXTENDS Publish

CONSTANTS ip1, ip2, ip6a, text, print, bytes

MCZone == <<"ex">>
MCClientIp == <<"f", 10, 1>>
MCLetters == <<"a", "b">>
Labels == {"ex", "www", "*", "a", "b", "ns", "mx", "hostmaster", ip1, ip2, ip6a,
           "in-addr", "arpa", "ip6", "int", "mail", "sub", "_25", "_443", "_tcp", "h", "srv"}
MCLower == [l \in Labels |-> l]

Line(kind, fqdn, ip, x, dot, num) ==
  [kind |-> kind, fqdn |-> fqdn, ip |-> ip, x |-> x, dot |-> dot, num |-> num,
   ttl |-> None, ttd |-> 0, lo |-> ""]
At_(name) == <<name>> \o MCZone

MCFirstLines == <<Line(".", MCZone, ip1, <<<<"a">>>>, FALSE, <<None>>),
                  Line("%", << >>, None, << >>, FALSE, <<"f">>)>>
MCEdits == {<<".", MCZone, ip1>>, <<"=", At_("www"), ip2>>}

\* A line tinydns-data does not know.
Bad == <<Line("?", MCZone, None, << >>, FALSE, << >>)>>
\* The slave's network becomes a location with a record of its own; a record
\* ends at time 2 and another begins then.
Place == <<[Line("%", << >>, None, << >>, FALSE, <<"f", 10>>) EXCEPT !.lo = "in"],
           [Line("+", At_("sub"), ip2, << >>, FALSE, << >>) EXCEPT !.lo = "in"],
           [Line("+", At_("www"), ip1, << >>, FALSE, << >>) EXCEPT !.ttl = 0, !.ttd = 2],
           [Line("+", At_("www"), ip2, << >>, FALSE, << >>) EXCEPT !.ttl = 5, !.ttd = 2]>>
WildNs == <<Line("&", At_("*"), None, <<<<"a">>>>, FALSE, <<None>>)>>
Various == <<Line("@", MCZone, None, <<<<"a">>>>, FALSE, <<10>>),
             Line("+", At_("*"), ip2, << >>, FALSE, << >>),
             Line("6", At_("sub"), ip6a, << >>, FALSE, << >>),
             Line("^", At_("b"), None, <<At_("www")>>, TRUE, << >>),
             Line("C", At_("a"), None, <<At_("www")>>, TRUE, << >>),
             Line("'", MCZone, None, << >>, FALSE, <<text, 300>>),
             Line("_", MCZone, None, << >>, FALSE, <<print, 64>>),
             Line("_", MCZone, None, <<<<"www">>, <<"_443", "_tcp">>>>, FALSE, <<print, 128>>),
             Line("S", At_("b"), ip2, <<<<"h">>>>, FALSE, <<5060, 10, 20>>),
             Line(":", At_("h"), None, << >>, FALSE, <<"65282", bytes>>),
             Line("Z", At_("sub"), None, <<At_("a"), At_("b")>>, TRUE, <<7, None, None, None, None>>)>>
MCHandEdits == {Bad, Place, WildNs, Various}
=============================================================================
