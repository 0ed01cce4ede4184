-------------------------------- MODULE Stub --------------------------------
(* The stub resolvers: dns_rcip.c, dns_rcrw.c, dns_resolve.c, dns_ip.c,      *)
(* dns_ip6.c, dns_ipq.c, dns_ipq6.c, dns_mx.c, dns_name.c, dns_namex.c and   *)
(* dns_txt.c, and the files of the same names in dq, with the programs that  *)
(* call them for each argument.                                              *)
(*                                                                           *)
(* A name, and a name under rewriting, is a sequence of tokens: a label, or  *)
(* one of "." "+" "[" "]" ":".  The configuration is what the environment,   *)
(* /etc/resolv.conf, /etc/dnsrewrite and the host name say; it may change,   *)
(* or be unreadable for a time, while a process uses the library.  An        *)
(* exchange (dns_transmit) is answered, perhaps malformed, or fails.         *)
EXTENDS Integers, Sequences, FiniteSets, SequencesExt, FiniteSetsExt

CONSTANTS
  Conf,       \* configurations
  Arg,        \* arguments that are names
  Numbers,    \* labels that are decimal numbers
  Data,       \* what the DNS holds: for some names, a set of records [type, data]
  Ip6Int,     \* for the ip6.arpa domain of an address its ip6.int domain
  InAddr,     \* domains of IPv4 addresses
  LIFE,       \* 600 seconds: how long a configuration is used
  USES,       \* 10000: how often it is used
  PATIENCE,   \* 3 seconds: how long resolve2 waits for the second answer
  MaxIp,      \* how many servers are kept: 4, and 16 in dq
  MaxNow, MaxCalls, MaxEdits,   \* bounds
  None

VARIABLES
  lib,          \* which of the two libraries the process has
  conf, past,   \* the configuration; the ones before, each with the time of its end
  now,
  ip, rw,       \* static data of dns_rcip.c and dns_rcrw.c
  pc, call,     \* where the call under way is, and its variables
  line,         \* what the last call returned: arg, name and out, or None
  calls

vars == <<lib, conf, past, now, ip, rw, pc, call, line, calls>>

NotLoaded == [ok |-> FALSE, uses |-> 0, deadline |-> 0, data |-> None]

Init ==
  /\ lib \in {"djb", "dq"} /\ conf \in Conf /\ past = << >> /\ now = 1
  /\ ip = NotLoaded /\ rw = NotLoaded
  /\ pc = "idle" /\ call = None /\ line = None /\ calls = 0

tick ==
  /\ now < MaxNow /\ now' = now + 1
  /\ UNCHANGED <<lib, conf, past, ip, rw, pc, call, line, calls>>

edit ==
  /\ Len(past) < MaxEdits
  /\ \E c \in Conf \ {conf} : conf' = c
  /\ past' = Append(past, [conf |-> conf, until |-> now])
  /\ UNCHANGED <<lib, now, ip, rw, pc, call, line, calls>>

----------------------------------------------------------------------------
(* What a configuration says *)

First(s, n) == SubSeq(s, 1, IF Len(s) < n THEN Len(s) ELSE n)
NameServers(c) == FlattenSeq([i \in 1..Len(c.resolv) |-> c.resolv[i].servers])

\* init of dns_rcip.c: $DNSCACHEIP, the nameserver lines, or this host.
Servers(c) ==
  LET s == First(IF c.cacheip # << >> THEN c.cacheip ELSE NameServers(c), MaxIp.dns)
  IN IF s = << >> THEN <<"::1">> ELSE s
\* In dq there are more, and an address of zeros stands for this host.
Local(a) == CASE a = "::" -> "::1" [] a = "0.0.0.0" -> "127.0.0.1" [] OTHER -> a
Servers_dq(c) ==
  LET s == IF c.cacheip # << >> THEN First(c.cacheip, MaxIp.dq)
           ELSE [i \in 1..Len(First(NameServers(c), MaxIp.dq)) |-> Local(NameServers(c)[i])]
  IN IF s = << >> THEN <<"::1", "127.0.0.1">> ELSE s

\* Rules: "?:+.a+.b" tries two domains for names without dots, "*.:" takes a
\* final dot away.
Rule(ch, from, to) == [ch |-> ch, from |-> from, to |-> to]
Domains(words) == FlattenSeq([i \in 1..Len(words) |-> <<"+", ".", words[i]>>])
Search(words) == <<Rule("?", << >>, Domains(words)), Rule("*", <<".">>, << >>)>>
HostRules(c) ==
  (IF c.host = << >> THEN << >> ELSE <<Rule("?", << >>, c.host)>>) \o <<Rule("*", <<".">>, << >>)>>

\* init of dns_rcrw.c: the rewrite file, $LOCALDOMAIN, the first search or
\* domain line of /etc/resolv.conf, or the domain of this host.
Lines(c, keys) == {i \in 1..Len(c.resolv) : c.resolv[i].key \in keys}
Rules(c) ==
  CASE c.rewrite # None -> c.rewrite
    [] c.rewrite = None /\ c.localdomain # None -> Search(c.localdomain)
    [] c.rewrite = None /\ c.localdomain = None /\ Lines(c, {"search", "domain"}) # {} ->
         Search(c.resolv[Min(Lines(c, {"search", "domain"}))].words)
    [] OTHER -> HostRules(c)
\* In dq the first search line goes before a domain line; and since flagds is
\* never cleared, each line after a domain line, the empty one that every file
\* gets at its end included, is read as if it were one too.
Rules_dq(c) ==
  CASE c.rewrite # None -> c.rewrite
    [] c.rewrite = None /\ c.localdomain # None -> Search(c.localdomain)
    [] c.rewrite = None /\ c.localdomain = None /\ Lines(c, {"search"}) # {} ->
         Search(c.resolv[Min(Lines(c, {"search"}))].words)
    [] c.rewrite = None /\ c.localdomain = None /\ Lines(c, {"search"}) = {} /\ Lines(c, {"domain"}) # {} ->
         Search(<< >>)
    [] OTHER -> HostRules(c)

\* Names and rules are sequences, and there always are servers and rules.
IsText(s) == Len(s) \in Nat /\ s = [i \in 1..Len(s) |-> s[i]]
IsRules(r) == r # None /\ IsText(r) /\ \A i \in DOMAIN r : IsText(r[i].from) /\ IsText(r[i].to)
ASSUME StubAssumption ==
  /\ LIFE \in Nat
  /\ \A a \in Arg \cup InAddr \cup DOMAIN Ip6Int : IsText(a)
  /\ << >> \notin DOMAIN Ip6Int
  /\ \A c \in Conf : IsRules(Rules(c)) /\ IsRules(Rules_dq(c)) /\ Servers(c) # None /\ Servers_dq(c) # None

Expired(s) == ~s.ok \/ s.deadline < now \/ s.uses = 0

\* dns_resolvconfip and dns_resolvconfrewrite: s is ip or rw.  If it has
\* expired and cannot be read again, the call fails and ok stays 0.
Used(s, fresh) ==
  IF Expired(s) THEN [ok |-> TRUE, uses |-> USES - 1, deadline |-> now + LIFE, data |-> fresh]
  ELSE [s EXCEPT !.uses = @ - 1]
Unreadable(s) == Expired(s) /\ ~conf.readable

----------------------------------------------------------------------------
(* Rewriting: doit of dns_ipq.c, on the tokens of a name *)

Has(s, tokens) == \E i \in 1..Len(s) : s[i] \in tokens
\* Only dns_ipq.c of djbdns lets a name with a colon pass for one without dots.
Dots(op) == IF op = "ip4q" THEN {".", "[", "]"} ELSE {".", ":", "[", "]"}
Applies(r, w, op) ==
  LET colon == Len(r.from)
      prefix == SubSeq(w, 1, Len(w) - colon)
  IN /\ Len(w) >= colon
     /\ r.ch = "=" => prefix = << >>
     /\ SubSeq(w, Len(w) - colon + 1, Len(w)) = r.from
     /\ r.ch = "?" => ~Has(prefix, Dots(op))
Apply(r, w, op) ==
  IF ~Applies(r, w, op) THEN w
  ELSE (IF r.ch = "-" THEN << >> ELSE SubSeq(w, 1, Len(w) - Len(r.from))) \o r.to
Rewritten(w, rules, op) ==
  LET f[i \in 0..Len(rules)] == IF i = 0 THEN w ELSE Apply(rules[i], f[i - 1], op) IN f[Len(rules)]

\* byte_chr: the first "+" from position i on, or one past the end.
Plus(s, i) == Min({j \in i..Len(s) : s[j] = "+"} \cup {Len(s) + 1})

\* Mutant: what comes after the next "+" is copied from one token too far.
Copied_next(s, plus, i, j) == [k \in 1..Len(s) |-> IF k \in plus..(plus + j - 1) /\ i + k - plus < Len(s) THEN s[i + k - plus + 1] ELSE s[k]]
\* byte_copy(fqdn->s + plus,j,fqdn->s + i), in place.
Copied(s, plus, i, j) == [k \in 1..Len(s) |-> IF k \in plus..(plus + j - 1) THEN s[i + k - plus] ELSE s[k]]

----------------------------------------------------------------------------
(* A call *)

Qualified == {"ip4q", "ip6q", "dq_ipq", "dq_ip4q", "dq_ip6q"}
Base(op) ==
  CASE op = "ip4q" -> "ip4" [] op = "ip6q" -> "ip6" [] op = "dq_ipq" -> "dq_ip"
    [] op = "dq_ip4q" -> "dq_ip4" [] op = "dq_ip6q" -> "dq_ip6" [] OTHER -> op

CallOf(op, a) == [op |-> op, arg |-> a, rules |-> None, buf |-> a, len |-> Len(a), plus |-> 0, i |-> 0,
                 asks |-> << >>, servers |-> None, at |-> 0, max |-> 0, out |-> {}, lost |-> FALSE]

\* dns_name4 and dns_name6 are given addresses, and make names of them.
Call(library, op, args) ==
  /\ lib = library /\ pc = "idle" /\ calls < MaxCalls /\ calls' = calls + 1
  /\ \E a \in args :
       /\ call' = CallOf(op, a)
       /\ pc' = IF op \in Qualified THEN "rules" ELSE "name"
  /\ line' = None
  /\ UNCHANGED <<lib, conf, past, now, ip, rw>>

\* The programs, for one of their arguments.
dnsip == Call("djb", "ip4", Arg)
dnsip6 == Call("djb", "ip6", Arg)
dnsipq == Call("djb", "ip4q", Arg)
dnsip6q == Call("djb", "ip6q", Arg)
dnsmx == Call("djb", "mx", Arg)
dnsname == Call("djb", "name4", InAddr) \/ Call("djb", "name6", InAddr \cup DOMAIN Ip6Int)
dnsnamex == Call("djb", "namex", InAddr)
dnstxt == Call("djb", "txt", Arg)
\* The functions of dq's library.
dns_ip == Call("dq", "dq_ip", Arg)
dns_ip_qualify == Call("dq", "dq_ipq", Arg)
dns_ip4_qualify == Call("dq", "dq_ip4q", Arg)
dns_ip6_qualify == Call("dq", "dq_ip6q", Arg)

begin ==
  \/ dnsip \/ dnsip6 \/ dnsipq \/ dnsip6q \/ dnsmx \/ dnsname \/ dnsnamex \/ dnstxt
  \/ dns_ip \/ dns_ip_qualify \/ dns_ip4_qualify \/ dns_ip6_qualify

\* The program prints what it got, or that it got nothing.
Return(l) == pc' = "idle" /\ line' = l /\ call' = None
fail == Return(None)

dns_resolvconfrewrite ==
  /\ pc = "rules"
  /\ IF Unreadable(rw) THEN /\ rw' = [rw EXCEPT !.ok = FALSE] /\ fail
     ELSE \E s \in {Used(rw, IF lib = "dq" THEN Rules_dq(conf) ELSE Rules(conf))} :
          \E w \in {Rewritten(call.arg, s.data, call.op)} :
            /\ rw' = s
            /\ call' = [call EXCEPT !.rules = s.data, !.at = now, !.buf = w, !.len = Len(w),
                                    !.plus = Plus(w, 1), !.i = Plus(w, 1) + 1]
            /\ pc' = IF Plus(w, 1) > Len(w) THEN "name" ELSE "alternative"
            /\ UNCHANGED line
  /\ UNCHANGED <<lib, conf, past, now, ip, calls>>

\* One turn of the loop of dns_ip4_qualify_rules.
qualify ==
  /\ pc = "alternative"
  /\ LET j == Plus(call.buf, call.i) - call.i IN
       call' = [call EXCEPT !.buf = Copied(@, call.plus, call.i, j), !.len = call.plus + j - 1, !.i = call.i + j]
  /\ pc' = "name"
  /\ UNCHANGED <<lib, conf, past, now, ip, rw, line, calls>>

fqdn == SubSeq(call.buf, 1, call.len)

\* A name of numbers, dots and brackets is an address to dns_ip4: a number
\* is a byte of it, and what is left over of four is dropped.  To the others
\* it must be four numbers; dns_ip6 refuses a name that only begins so.
Literal(s) == \A i \in 1..Len(s) : s[i] \in Numbers \cup {".", "[", "]"}
BeginsIp4(s) == Len(s) >= 7 /\ \A i \in 1..7 : IF i % 2 = 1 THEN s[i] \in Numbers ELSE s[i] = "."
IsIp4(s) == Len(s) = 7 /\ BeginsIp4(s)
IsAddress(op, s) ==
  CASE op \in {"ip4", "ip6"} -> Literal(s) [] op \in {"dq_ip", "dq_ip4"} -> IsIp4(s) [] OTHER -> FALSE
Addresses(op, s) ==
  IF IsIp4(s) \/ (op = "ip4" /\ Cardinality({i \in 1..Len(s) : s[i] = "."}) >= 3) THEN {s} ELSE {}

Asks(op, s) ==
  CASE op = "ip4" -> <<"A">> [] op = "ip6" -> <<"AAAA", "A">> [] op = "mx" -> <<"MX">> [] op = "txt" -> <<"TXT">>
    [] op = "name6" -> IF s \in InAddr THEN <<"PTR">> ELSE <<"PTR", "PTR">>
    [] op \in {"name4", "namex"} -> <<"PTR">>
    [] op = "dq_ip4" -> <<"A">> [] op = "dq_ip6" -> <<"AAAA">> [] op = "dq_ip" -> <<"AAAA", "A">>
\* The records of an answer that are taken: each gives the possible sets.
OfType(rs, types) == {r \in rs : r.type \in types}
dns_ip4_packet(rs) == {OfType(rs, {"A"})}
dns_ip6_packet_add(rs) == {OfType(rs, {"A", "AAAA"})}
dns_mx_packet(rs) == {OfType(rs, {"MX"})}
dns_txt_packet(rs) == {OfType(rs, {"TXT"})}
\* The first one, and the order of records is any.
First1(rs) == IF rs = {} THEN {{}} ELSE {{r} : r \in rs}
dns_name_packet(rs) == First1(OfType(rs, {"PTR"}))
dns_name_packet_multi(rs) == {OfType(rs, {"PTR"})}
ip_packet(rs) == {OfType(rs, {"A", "AAAA"})}
Outcomes(op, rs) ==
  CASE op = "ip4" -> dns_ip4_packet(rs) [] op = "ip6" -> dns_ip6_packet_add(rs)
    [] op = "mx" -> dns_mx_packet(rs) [] op = "txt" -> dns_txt_packet(rs)
    [] op \in {"name4", "name6"} -> dns_name_packet(rs) [] op = "namex" -> dns_name_packet_multi(rs)
    [] OTHER -> ip_packet(rs)

\* dns_ip4, dns_ip6, dns_mx, dns_name4, ...  The NUL that dns_ip6, and dq, put
\* behind the name falls on text that was copied before (plus + j < i), and is
\* left out.
name ==
  /\ pc = "name"
  /\ LET op == Base(call.op) IN
     CASE op = "ip6" /\ BeginsIp4(fqdn) /\ ~IsIp4(fqdn) -> fail
       [] IsAddress(op, fqdn) /\ (op = "ip6" => IsIp4(fqdn) \/ ~BeginsIp4(fqdn)) ->
            call' = [call EXCEPT !.out = Addresses(op, fqdn)] /\ pc' = "found" /\ UNCHANGED line
       [] OTHER ->
            call' = [call EXCEPT !.out = {}, !.asks = Asks(op, fqdn)] /\ pc' = "resolve" /\ UNCHANGED line
  /\ UNCHANGED <<lib, conf, past, now, ip, rw, calls>>

\* dns_resolve and resolve2: dns_resolvconfip, and the exchange starts.
dns_resolve ==
  /\ pc = "resolve"
  /\ IF Unreadable(ip)
     THEN /\ ip' = [ip EXCEPT !.ok = FALSE]
          /\ IF Base(call.op) = "ip6" /\ Len(call.asks) = 2
             THEN call' = [call EXCEPT !.asks = Tail(@), !.lost = TRUE] /\ UNCHANGED <<lib, pc, line>>
             ELSE IF Base(call.op) = "ip6" THEN call' = [call EXCEPT !.lost = TRUE] /\ pc' = "found" /\ UNCHANGED line
             ELSE fail
     ELSE \E s \in {Used(ip, IF lib = "dq" THEN Servers_dq(conf) ELSE Servers(conf))} :
            /\ ip' = s
            /\ call' = [call EXCEPT !.servers = s.data, !.at = now]
            /\ pc' = "wait" /\ UNCHANGED line
  /\ UNCHANGED <<lib, conf, past, now, rw, calls>>

AskedName == IF Base(call.op) = "name6" /\ call.len > 0 /\ Len(call.asks) = 1 /\ call.arg \notin InAddr
         THEN Ip6Int[call.arg] ELSE fqdn
Records(n) == IF n \in DOMAIN Data THEN Data[n] ELSE {}
\* An answer has the records of a type, and the aliases that led to them.
Answer(n, t) == {r \in Records(n) : r.type \in {t, "CNAME"}}
Take(t) == Outcomes(Base(call.op), Answer(AskedName, t))

\* An answer, all of whose records the code can read (dns_ip4_packet, ...) or
\* only the first of which it can; or no server answered.
answer == \E whole \in BOOLEAN :
  /\ pc = "wait" /\ Base(call.op) # "dq_ip"
  /\ \E got \in IF whole THEN Take(Head(call.asks)) ELSE UNION {SUBSET g : g \in Take(Head(call.asks))} :
       LET c == [call EXCEPT !.out = @ \cup got, !.asks = Tail(@), !.lost = @ \/ ~whole] IN
       CASE Base(call.op) = "ip6" ->
              call' = c /\ pc' = (IF c.asks = << >> THEN "found" ELSE "resolve") /\ UNCHANGED line
         [] Base(call.op) # "ip6" /\ ~whole -> fail
         [] OTHER -> /\ call' = c /\ UNCHANGED line
                     /\ pc' = IF c.asks # << >> /\ c.out = {} THEN "resolve" ELSE "found"
  /\ UNCHANGED <<lib, conf, past, now, ip, rw, calls>>

dns_transmit_fails ==
  /\ pc = "wait"
  /\ IF Base(call.op) = "ip6"
     THEN /\ call' = [call EXCEPT !.asks = Tail(@), !.lost = TRUE]
          /\ pc' = (IF Len(call.asks) = 1 THEN "found" ELSE "resolve") /\ UNCHANGED line
     ELSE fail
  /\ UNCHANGED <<lib, conf, past, now, ip, rw, calls>>

\* resolve2: both questions at once.  After the first answer the other is
\* waited for, but not for long.
resolve2_answer ==
  /\ pc = "wait" /\ Base(call.op) = "dq_ip"
  /\ \E i \in 1..Len(call.asks) : \E got \in Take(call.asks[i]) :
       /\ call' = [call EXCEPT !.out = @ \cup got, !.asks = RemoveAt(@, i), !.max = now + PATIENCE]
       /\ pc' = IF Len(call.asks) = 1 THEN "found" ELSE "wait"
  /\ UNCHANGED <<lib, conf, past, now, ip, rw, line, calls>>
resolve2_late ==
  /\ pc = "wait" /\ Base(call.op) = "dq_ip" /\ Len(call.asks) = 1 /\ now > call.max
  /\ call' = [call EXCEPT !.lost = TRUE] /\ pc' = "found"
  /\ UNCHANGED <<lib, conf, past, now, ip, rw, line, calls>>

\* The function returns 0: a qualified call goes on to its next domain when
\* nothing was found; the program prints the line.
found ==
  /\ pc = "found"
  /\ IF call.rules # None /\ call.plus <= Len(call.buf) /\ call.out = {} /\ call.i <= Len(call.buf)
     THEN call' = [call EXCEPT !.i = @ + 1] /\ pc' = "alternative" /\ UNCHANGED line
     ELSE Return([op |-> call.op, arg |-> call.arg, rules |-> call.rules, name |-> fqdn,
                  out |-> call.out, lost |-> call.lost])
  /\ UNCHANGED <<lib, conf, past, now, ip, rw, calls>>

Next ==
  \/ tick \/ edit \/ begin \/ dns_resolvconfrewrite \/ qualify \/ name \/ dns_resolve
  \/ answer \/ dns_transmit_fails \/ resolve2_answer \/ resolve2_late \/ found

Spec == Init /\ [][Next]_vars

----------------------------------------------------------------------------
(* Properties *)

\* At time t, d was what the configuration said, or had said no more than
\* LIFE before.
FreshAt(t, d, says) ==
  \/ d = says[conf]
  \/ \E i \in 1..Len(past) : past[i].until >= t - LIFE /\ d = says[past[i].conf]

\* Servers are asked, and rules applied, that the configuration held within
\* the last ten minutes, however often it changed or could not be read
\* (dns_resolvconfip and dns_resolvconfrewrite).
ConfigFresh ==
  /\ pc = "wait" =>
       FreshAt(call.at, call.servers, [c \in Conf |-> IF lib = "dq" THEN Servers_dq(c) ELSE Servers(c)])
  /\ pc = "name" /\ call.rules # None /\ call.servers = None =>
       FreshAt(call.at, call.rules, [c \in Conf |-> IF lib = "dq" THEN Rules_dq(c) ELSE Rules(c)])

\* What there is for a name: all of it, but one name of an address.
Wanted(op, n) ==
  LET R(m) == {r \in Records(m) : r.type \in ToSet(Asks(op, m))}
      W(m) == IF op \in {"name4", "name6"} THEN First1(R(m)) ELSE {R(m)}
  IN CASE IsAddress(op, n) -> {Addresses(op, n)}
       [] op = "name6" /\ n \notin InAddr /\ R(n) = {} -> W(Ip6Int[n])
       [] OTHER -> W(n)

\* What a call returns belongs to the name it returns, complete unless an
\* answer was lost, and this name is the first of those the rules give (the
\* text up to the first "+" followed by one of those between the later ones)
\* that has anything, or the last (dns_ip4_qualify_rules, dns_ip6, resolve2).
Rewriting(c) == IF c.rules = None THEN c.arg ELSE Rewritten(c.arg, c.rules, c.op)
Alternative(w, i) == SubSeq(w, 1, Plus(w, 1) - 1) \o SubSeq(w, i + 1, Plus(w, i + 1) - 1)
LineFits == line # None =>
  LET op == Base(line.op)
      w == Rewriting(line)
      P == IF line.rules = None THEN {} ELSE {i \in 1..Len(w) : w[i] = "+"}
  IN /\ \E w1 \in Wanted(op, line.name) : line.out = w1 \/ (line.lost /\ line.out \subseteq w1)
     /\ IF P = {} THEN line.name = w
        ELSE \E i \in P :
               /\ line.name = Alternative(w, i)
               /\ \A j \in P : j < i => Wanted(op, Alternative(w, j)) = {{}} \/ line.lost
               /\ line.out = {} => \A j \in P : j <= i

\* Every look-up uses a configuration that is fresh, and returns what belongs
\* to the name it returns (dns_resolve and the dns_*_qualify functions).
LooksUp == ConfigFresh /\ LineFits
=============================================================================
