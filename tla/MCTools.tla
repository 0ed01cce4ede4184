------------------------------ MODULE MCTools ------------------------------
EXTENDS Stub, Dnsfilter, Dnstrace, Packet, SmallServers, AddressText, DnsNotify

VARIABLE program   \* which one runs

Line(key, words, servers) == [key |-> key, words |-> words, servers |-> servers]
MCConf ==
  LET c == [readable |-> TRUE, cacheip |-> << >>, resolv |-> << >>, rewrite |-> None, localdomain |-> None, host |-> << >>]
      ns(s) == Line("nameserver", << >>, <<s>>)
  IN {[c EXCEPT !.resolv = <<Line("search", <<"a", "b">>, << >>), ns("s1"), ns("0.0.0.0")>>],
      [c EXCEPT !.cacheip = <<"s2">>, !.rewrite =
         <<Rule("=", <<"x">>, <<"y", ".", "b">>), Rule("-", <<".", "c">>, <<"y", ".", "b">>), Rule("?", << >>, <<"+", ".", "b">>)>>],
      [c EXCEPT !.resolv = <<Line("domain", <<"b">>, << >>)>>],
      [c EXCEPT !.host = <<".", "a">>],
      [c EXCEPT !.localdomain = <<"b", "a">>, !.readable = FALSE]}
R(t, d) == [type |-> t, data |-> d]
MCData ==
  <<"x", ".", "a">> :> {R("TXT", 1)} @@
  <<"x", ".", "b">> :> {R("A", 1), R("AAAA", 2), R("MX", 3), R("CNAME", 9)} @@
  <<"y", ".", "b">> :> {R("AAAA", 4)} @@
  <<"3", "arpa">> :> {R("PTR", 8), R("PTR", 9)} @@ <<"1", "int">> :> {R("PTR", 5)} @@
  <<"2", "arpa">> :> {R("PTR", 6), R("PTR", 7)}
MCMaxIp == [dns |-> 1, dq |-> 2]
MCIp6Int == [n \in {<<"1", "arpa">>, <<"2", "arpa">>} |-> <<n[1], "int">>]
MCInAddr == {<<"3", "arpa">>}
MCArg == {<<"x">>, <<"x", ".", "a", ".">>, <<"x", ".", "c">>, <<"1", ".", "1", ".", "1", ".", "1">>,
          <<"1", ".", "1", ".", "1", ".", "1", ".", "b">>}

MCInputs == {<<"i1", "nl", "w", "nl", "i2", "sp", "w", "nl", "nl", "i1">>, <<"i1", "w", "sp", "w", "nl", "i3", "nl", "i2", "nl", "i1">>,
             <<"i2", "nl", "i1", "sp", "nl", "i3", "nl", "i2", "nl", "i1", "nl", "w">>}
MCNameOf == [i \in {"i1", "i2"} |-> IF i = "i1" THEN "n1" ELSE "n2"]

RR(o, t, d) == [owner |-> o, type |-> t, data |-> d]
P(a, au, g, rc, ok) == [answer |-> a, authority |-> au, glue |-> g, rcode |-> rc, good |-> ok]
Z == <<"z">>
WZ == <<"w", "z">>
SZ == <<"s", "z">>
LH == <<"localhost">>
I1 == <<"1">>
MCPackets == {
  P(<< >>, <<RR(Z, "NS", SZ), RR(Z, "NS", I1)>>, <<RR(SZ, "A", <<"a1">>), RR(SZ, "AAAA", <<"a2">>), RR(<<"q">>, "TXT", << >>)>>, 0, 9),
  P(<< >>, <<RR(Z, "NS", SZ)>>, <<RR(SZ, "A", <<"a1">>), RR(Z, "NS", LH)>>, 0, 2),
  P(<<RR(WZ, "A", <<"a3">>)>>, <<RR(Z, "NS", LH)>>, << >>, 0, 9),
  P(<<RR(SZ, "CNAME", LH)>>, << >>, << >>, 0, 9),
  P(<< >>, <<RR(Z, "SOA", << >>)>>, << >>, 3, 9),
  P(<< >>, << >>, << >>, 2, 9)}
MCAskedQ == {[owner |-> WZ, type |-> "A"], [owner |-> WZ, type |-> "ANY"]}
MCRoots == <<<<"r1">>, <<"r2">>>>
MCIpOf == [n \in {I1} |-> <<"a4">>]
MCOdd == <<"a5">>

\* "a.b", "A..b.c.", ".", "\143.A.B", "\1.b\", a label and a name too long.
MCTexts == {<<97, 46, 98>>, <<65, 46, 46, 98, 46, 99, 46>>, <<46>>, <<92, 49, 52, 51, 46, 65, 46, 66>>, <<92, 49, 46, 98, 92>>,
            <<97, 97, 97, 97>>, <<97, 97, 97, 46, 97, 97, 97, 46, 97, 97, 97>>}
MCTypes == {<<0, 2>>}
MCMaxStored == [djb |-> 5, dq |-> 9]

Net(nums, slash) == [kind |-> "net", nums |-> nums, slash |-> slash]
PlusLine(n, i, l) == [kind |-> "+", name |-> n, ip |-> i, loc |-> l]
Pct(l, p) == [kind |-> "%", loc |-> l, prefix |-> p]
BadLine == <<[kind |-> "bad"]>>
MCVersions ==
  [rbldns |-> {<<Net(<<10, 1>>, 15), Net(<<10, 0>>, 15), [kind |-> "#"], Net(<<7>>, 8), Net(<<6>>, 7), Net(<<10, 1, 2, 3, 4>>, 40)>>,
               <<[kind |-> ":", ip |-> <<127, 0, 0, 3>>, text |-> <<"x", "y", "$">>], Net(<<10, 1, 2, 259>>, -1)>>,
               <<Net(<<10, 1, 2, 2>>, 31), [kind |-> ":", ip |-> <<127, 0, 0, 4>>, text |-> <<"z", "$">>],
                 [kind |-> ":", ip |-> <<127, 0, 0, 5>>, text |-> << >>]>> \o BadLine},
   pickdns |-> {<<PlusLine(1, "a1", 0), PlusLine(2, "b1", 0), PlusLine(1, "c1", 1), PlusLine(1, "a2", 0), PlusLine(1, "c2", 1), PlusLine(2, "b2", 2),
                  PlusLine(1, "a3", 0), PlusLine(1, "a4", 0), Pct(2, <<10>>), Pct(1, <<10, 1>>), Pct(2, <<10, 1>>), Pct(2, << >>)>>,
                <<Pct(1, <<10, 1, 2, 3>>), [kind |-> "-"], PlusLine(2, "b3", 1), PlusLine(1, "c3", 1)>>,
                BadLine \o <<PlusLine(2, "b4", 0)>>},
   walldns |-> {<< >>}]
MCInAddr4 == <<<<91>>, <<92>>>>
MCBase == <<<<90>>>>
Dotted(o) == [k \in 1..4 |-> Decimal(o[5 - k])]
Q(n, t, i) == [name |-> n, qtype |-> t, ip |-> i]
MCQuestions ==
  [rbldns |-> {Q(Dotted(i) \o <<<<90>>>>, t, 0) : i \in {<<10, 0, 2, 3>>, <<10, 1, 2, 3>>, <<10, 1, 2, 2>>, <<6, 1, 2, 3>>, <<7, 0, 0, 0>>}, t \in {"A", "ANY"}}
               \cup {Q(<<<<1>>, <<90>>>>, "A", 0), Q(<<<<1>>, <<90>>>>, "NS", 0)},
   pickdns |-> {Q(n, "A", i) : n \in 1..3, i \in {<<10, 1, 2, 3>>, <<10, 2, 2, 3>>, <<11, 1, 2, 3>>}} \cup {Q(1, "MX", <<10, 1, 2, 3>>)},
   walldns |-> {Q(Dotted(<<10, 205, 0, 3>>) \o b, t, 0) : b \in {<< >>, MCInAddr4, <<<<90>>>>}, t \in {"A", "ANY", "PTR", "NS"}}
               \cup {Q(<<l, <<1>>, <<1>>, <<1>>>> \o MCInAddr4, "ANY", 0) : l \in {<<0, 1>>, <<2, 5, 6>>, <<90>>, <<1, 90>>, <<0>>}}
               \cup {Q(<<<<1>>, <<1>>>> \o MCInAddr4, "ANY", 0)}]
W8(a, b, c, d, e, f, g, h) == <<a, b, c, d, e, f, g, h>>
V4(a, b) == <<0, 0, 0, 0, 0, 65535, a, b>>
MCAddresses == [1..8 -> {0, 43981}] \cup {V4(2561, 205), V4(0, 0), V4(65535, 0), V4(25855, 1)}
               \cup {<<a, b, 0, 0, c, b, 0, d>> : a, b, c, d \in {0, 1, 16}}
E(i, w) == [ip |-> i, with |-> w]
MCEntries == {E(V4(2561, 205), 0), E(<<1, 0, 0, 0, 0, 0, 0, 1>>, 0), E(<<1, 0, 0, 0, 0, 0, 0, 0>>, 0), E(<< >>, 0), E(V4(1, 2), 30), E(<<0, 0, 0, 0, 0, 0, 0, 1>>, 31)}
MCLists == UNION {[1..n -> MCEntries] : n \in 1..3} \cup {[i \in 1..5 |-> E(V4(i, i), IF i = 3 THEN 0 ELSE 29 + i)], [i \in 1..5 |-> E(V4(i, i), 0)]}
Count(n, last) == [i \in 1..n |-> IF i = n THEN last ELSE (37 * i) % 256]
MCKeys == {Count(32, 127), [i \in 1..32 |-> 0], [Count(32, 64) EXCEPT ![1] = 255]}
MCBoxes == {Count(n, last) : n \in {0, 1, 2, 3, 4, 5, 31, 32, 62, 63, 80}, last \in {0, 255}}
MCUnreadable == <<25, 1>>
MCZoneArgs == {<<"z1", "z2">>, <<"z1", "long">>}
text_idle == given = [kind |-> "flat", ip |-> V4(0, 0), list |-> << >>, setting |-> 0]
stub_idle == lib = "djb" /\ conf = CHOOSE c \in Conf : TRUE
Init1(p) ==
  /\ p # "stub" => stub_idle
  /\ p # "filter" => whole = CHOOSE w \in Inputs : TRUE
  /\ p # "trace" => tab = Started(CHOOSE q \in Asked : TRUE)
  /\ p # "packet" => side = "djb"
  /\ p # "small" => server = "walldns"
  /\ p # "notify" => argv = <<"z1", "z2">> /\ sock = "stdin"

ToolsInit ==
  /\ program \in {"stub", "filter", "trace", "packet", "small", "text", "notify"}
  /\ Init /\ FilterInit /\ TraceInit /\ PacketInit /\ SmallInit /\ NotifyInit /\ Init1(program)
  /\ IF program = "text" THEN TextInit ELSE text_idle /\ text = << >> /\ got = << >> /\ phase = "write"

stub_vars == <<lib, conf, past, now, ip, rw, pc, call, line, calls>>
other_vars == <<whole, input, flag0, inbuf, partial, x, numactive, output, at>>
table_vars == <<tab, next>>
pkt_vars == <<side, resp, put_in, stage>>
srv_vars == <<server, data, tmp, cdb, job, made_from, reply>>
txt_vars == <<given, text, got, phase>>

ToolsNext ==
  /\ UNCHANGED program
  /\ \/ program = "stub" /\ Next /\ UNCHANGED <<other_vars, table_vars, pkt_vars, srv_vars, txt_vars, notify_vars>>
     \/ program = "filter" /\ FilterNext /\ UNCHANGED <<stub_vars, table_vars, pkt_vars, srv_vars, txt_vars, notify_vars>>
     \/ program = "trace" /\ TraceNext /\ UNCHANGED <<stub_vars, other_vars, pkt_vars, srv_vars, txt_vars, notify_vars>>
     \/ program = "packet" /\ PacketNext /\ UNCHANGED <<stub_vars, other_vars, table_vars, srv_vars, txt_vars, notify_vars>>
     \/ program = "small" /\ SmallNext /\ UNCHANGED <<stub_vars, other_vars, table_vars, pkt_vars, txt_vars, notify_vars>>
     \/ program = "text" /\ TextNext /\ UNCHANGED <<stub_vars, other_vars, table_vars, pkt_vars, srv_vars, notify_vars>>
     \/ program = "notify" /\ NotifyNext /\ UNCHANGED <<stub_vars, other_vars, table_vars, pkt_vars, srv_vars, txt_vars>>

ToolsSpec == ToolsInit /\ [][ToolsNext]_<<vars, filter_vars, trace_vars, packet_vars, small_vars, text_vars, notify_vars, program>>
=============================================================================
