---------------------------- MODULE SmallServers ----------------------------
(***************************************************************************)
(* rbldns, pickdns and walldns, and the programs rbldns-data and           *)
(* pickdns-data that compile a file "data" into "data.cdb".                *)
(*                                                                         *)
(* A compiler writes data.tmp record by record and renames it; it may die  *)
(* at any line, of a syntax error, of a full disk, or be killed.  A server *)
(* opens data.cdb anew for each query.  A cdb is a sequence of records of  *)
(* which cdb_find returns the first with a key.                            *)
(*                                                                         *)
(* An address is a sequence of four octets.  A label of a name is a        *)
(* sequence of characters, of which 0..9 are the digits.  Names in         *)
(* pickdns's data are numbered in address_diff's order: shorter ones       *)
(* first.                                                                  *)
(***************************************************************************)
EXTENDS Integers, Sequences, FiniteSets

CONSTANTS
  Versions,    \* the contents of "data", sequences of lines, for each server
  Questions,   \* the queries, [name, qtype, ip], for each server
  RblBase,     \* rbldns's base, a name
  InAddr4,     \* in-addr.arpa, a name
  MaxText,     \* characters of rbldns's text (96 in the code)
  MaxAddrs,    \* addresses pickdns looks at (128 in the code)
  Absent       \* no such file, no reply

VARIABLES
  server,      \* "rbldns", "pickdns" or "walldns"
  data,        \* the file "data"
  tmp, cdb,    \* the files data.tmp and data.cdb
  job,         \* the compiler: lines still to read, pickdns-data's x, what it does next
  made_from,   \* the version of "data" that data.cdb was made from
  reply        \* what the last step answered

small_vars == <<server, data, tmp, cdb, job, made_from, reply>>

Least(a, b) == IF a <= b THEN a ELSE b
NoJob == [pc |-> "off", text |-> << >>, left |-> << >>, x |-> << >>]

\* dd: the octets in front of base, written in decimal.
Digits == 0..9
IsOctet(label) ==
  /\ Len(label) \in 1..3
  /\ \A i \in DOMAIN label : label[i] \in Digits
  /\ Len(label) > 1 => label[1] # 0
  /\ Len(label) = 3 => 100 * label[1] + 10 * label[2] + label[3] <= 255
Octet(label) ==
  CASE Len(label) = 1 -> label[1]
    [] Len(label) = 2 -> 10 * label[1] + label[2]
    [] OTHER -> 100 * label[1] + 10 * label[2] + label[3]
dd(q, base) ==
  LET j == Len(q) - Len(base)
  IN IF /\ j \in 0..4 /\ SubSeq(q, j + 1, Len(q)) = base
        /\ \A i \in 1..j : IsOctet(q[i])
     THEN [n |-> j, ip |-> [i \in 1..j |-> Octet(q[i])]]
     ELSE [n |-> -1, ip |-> << >>]

\* cdb_find: the first record with the key.
Hits(kind, key) == {i \in DOMAIN cdb : cdb[i].kind = kind /\ cdb[i].key = key}
Found(kind, key) == Hits(kind, key) # {}
Datum(kind, key) == cdb[CHOOSE i \in Hits(kind, key) : \A k \in Hits(kind, key) : i <= k].data
Rec(kind, key, d) == [kind |-> kind, key |-> key, data |-> d]

-----------------------------------------------------------------------------
\* rbldns-data and pickdns-data.

edit_data ==
  /\ \E v \in Versions[server] : v # data /\ data' = v
  /\ reply' = Absent
  /\ UNCHANGED <<server, tmp, cdb, job, made_from>>

\* Open data, truncate data.tmp.
compile ==
  /\ job.pc = "off" /\ server # "walldns"
  /\ job' = [NoJob EXCEPT !.pc = "line", !.text = data, !.left = data]
  /\ tmp' = << >>
  /\ reply' = Absent
  /\ UNCHANGED <<server, data, cdb, made_from>>

\* The key of a network: four octets, the missing ones zero, and the length of the prefix.
NetKey(nums, slash) ==
  [i \in 1..5 |-> IF i = 5 THEN IF slash = -1 \/ slash > 32 THEN 32 ELSE slash
                  ELSE IF i <= Len(nums) THEN nums[i] % 256 ELSE 0]
RecordsOf(l) ==
  CASE l.kind = "net" -> <<Rec("net", NetKey(l.nums, l.slash), 0)>>
    [] l.kind = ":" -> <<Rec("", << >>, [ip |-> l.ip, text |-> l.text])>>
    [] l.kind = "%" -> <<Rec("%", [i \in DOMAIN l.prefix |-> l.prefix[i] % 256], l.loc)>>
    [] OTHER -> << >>

\* A line that cannot be parsed is a syntax error, and the program ends.
compile_line ==
  /\ job.pc = "line" /\ job.left # << >>
  /\ \E l \in {Head(job.left)} :
       IF l.kind = "bad" THEN job' = NoJob /\ UNCHANGED tmp
       ELSE /\ job' = [job EXCEPT !.left = Tail(@), !.x = IF l.kind = "+" THEN Append(@, l) ELSE @]
            /\ tmp' = tmp \o RecordsOf(l)
  /\ reply' = Absent
  /\ UNCHANGED <<server, data, cdb, made_from>>

address_diff(a, b) == IF a.loc # b.loc THEN a.loc - b.loc ELSE a.name - b.name

\* address_sort: a heap sort.  The hole at q sinks to a leaf, then t rises from there.
RECURSIVE Sink(_, _, _)
Sink(z, q, j) ==
  LET left_child == 2 * q
      c == IF left_child < j /\ address_diff(z[left_child + 1], z[left_child]) >= 0 THEN left_child + 1 ELSE left_child
  IN IF c > j THEN [z |-> z, q |-> q] ELSE Sink([z EXCEPT ![q] = z[c]], c, j)
RECURSIVE Rise(_, _, _, _)
Rise(z, q, i, t) ==
  IF q > i /\ address_diff(t, z[q \div 2]) > 0
  THEN Rise([z EXCEPT ![q] = z[q \div 2]], q \div 2, i, t)
  ELSE [z EXCEPT ![q] = t]
Placed(z, i, j, t) == LET s == Sink(z, i, j) IN Rise(s.z, s.q, i, t)
RECURSIVE Sorted(_, _, _)
Sorted(z, i, j) ==
  CASE j <= 1 -> z
    [] j > 1 /\ i > 1 -> Sorted(Placed(z, i - 1, j, z[i - 1]), i - 1, j)
    [] OTHER -> Sorted(Placed([z EXCEPT ![j] = z[1]], 1, j - 1, z[j]), 1, j - 1)
address_sort(z) == Sorted(z, Len(z), Len(z))

\* One record for each run of equal names and locations.
RECURSIVE Groups(_)
Groups(x) ==
  IF x = << >> THEN << >>
  ELSE LET ends == {j \in 1..Len(x) : j = Len(x) \/ address_diff(x[1], x[j + 1]) # 0}
           n == CHOOSE j \in ends : \A k \in ends : j <= k
       IN <<Rec("+", <<x[1].loc, x[1].name>>, [i \in 1..n |-> x[i].ip])>> \o Groups(SubSeq(x, n + 1, Len(x)))

\* Write the addresses, the hash tables, and sync.
compile_finish ==
  /\ job.pc = "line" /\ job.left = << >>
  /\ tmp' = tmp \o Groups(address_sort(job.x))
  /\ job' = [job EXCEPT !.pc = "rename", !.x = << >>]
  /\ reply' = Absent
  /\ UNCHANGED <<server, data, cdb, made_from>>

compile_rename ==
  /\ job.pc = "rename"
  /\ cdb' = tmp /\ tmp' = Absent
  /\ made_from' = job.text
  /\ job' = NoJob
  /\ reply' = Absent
  /\ UNCHANGED <<server, data>>

\* A write fails, or the compiler is killed.
compile_dies ==
  /\ job.pc # "off"
  /\ job' = NoJob
  /\ reply' = Absent
  /\ UNCHANGED <<server, data, tmp, cdb, made_from>>

-----------------------------------------------------------------------------
\* The servers.

Refused == [rcode |-> "refused", records |-> {}]
NxDomain == [rcode |-> "nxdomain", records |-> {}]
NoReply == [rcode |-> "none", records |-> {}]
Ok(records) == [rcode |-> "ok", records |-> records]
FlagA(q) == q.qtype \in {"A", "ANY"}
TypesOf(q, records) == {r \in records : q.qtype \in {r.type, "ANY"}}

\* The address with its low i bits cleared.
Cleared(ip, i) ==
  [k \in 1..4 |-> LET bits == i - 8 * (4 - k)
                  IN CASE bits <= 0 -> ip[k] [] bits >= 8 -> 0 [] OTHER -> ip[k] - (ip[k] % 2^bits)]
Reverse4(ip) == [k \in 1..4 |-> ip[5 - k]]
Listed_23(ip) == \E i \in 0..23 : Found("net", Append(Cleared(ip, i), 32 - i))
Listed(ip) == \E i \in 0..24 : Found("net", Append(Cleared(ip, i), 32 - i))

\* The text ends with the address instead of a '$'.
ItsText(text, ip) ==
  IF text # << >> /\ text[Len(text)] = "$" THEN <<SubSeq(text, 1, Len(text) - 1), ip>>
  ELSE <<text, << >>>>
Default == [ip |-> <<127, 0, 0, 2>>, text |-> <<"Listed ", "$">>]
rbldns_doit(q) ==
  LET d == dd(q.name, RblBase)
      ip == Reverse4(d.ip)
      datum == IF Found("", << >>)
               THEN [Datum("", << >>) EXCEPT !.text = SubSeq(@, 1, Least(Len(@), MaxText))] ELSE Default
  IN IF q.qtype \notin {"A", "TXT", "ANY"} \/ d.n # 4 THEN {Refused}
     ELSE IF ~Listed(ip) THEN {NxDomain}
     ELSE {Ok(TypesOf(q, {[type |-> "A", data |-> datum.ip], [type |-> "TXT", data |-> ItsText(datum.text, ip)]}))}

\* The location of the longest prefix of the client's address, 0 if there is none.
Location(ip) ==
  LET known == {n \in 1..4 : Found("%", SubSeq(ip, 1, n))}
  IN IF known = {} THEN 0 ELSE Datum("%", SubSeq(ip, 1, CHOOSE n \in known : \A m \in known : m <= n))
pickdns_doit(q) ==
  LET mine == <<Location(q.ip), q.name>>
      key == IF Found("+", mine) THEN mine ELSE <<0, q.name>>
      n == Least(Len(Datum("+", key)), MaxAddrs)
  IN IF q.qtype \notin {"A", "MX", "ANY"} \/ ~Found("+", key) THEN {Refused}
     ELSE IF ~FlagA(q) THEN {Ok({})}
     ELSE {Ok({[type |-> "A", data |-> Datum("+", key)[i]] : i \in s}) :
             s \in {s \in SUBSET (1..n) : Cardinality(s) = Least(3, n)}}

walldns_respond(q) ==
  LET forward == dd(q.name, << >>)
      rev == dd(q.name, InAddr4)
  IN CASE q.qtype \notin {"A", "PTR", "ANY"} \/ (forward.n # 4 /\ rev.n = -1) -> {Refused}
       [] forward.n = 4 -> {Ok(TypesOf(q, {[type |-> "A", data |-> forward.ip]}))}
       [] OTHER -> {Ok(TypesOf(q, {[type |-> "PTR", data |-> q.name]} \cup
                                 (IF rev.n = 4 THEN {[type |-> "A", data |-> Reverse4(rev.ip)]} ELSE {})))}

\* respond: open data.cdb, answer, close it.  No response if that or a read fails.
respond ==
  /\ \E q \in Questions[server] : \E a \in {NoReply} \cup
       (CASE server = "walldns" -> walldns_respond(q)
          [] server = "rbldns" /\ cdb # Absent -> rbldns_doit(q)
          [] server = "pickdns" /\ cdb # Absent -> pickdns_doit(q)
          [] OTHER -> {}) :
       reply' = [q |-> q, a |-> a]
  /\ UNCHANGED <<server, data, tmp, cdb, job, made_from>>

SmallInit ==
  /\ server \in {"rbldns", "pickdns", "walldns"}
  /\ data \in Versions[server]
  /\ tmp = Absent /\ cdb = Absent /\ job = NoJob /\ made_from = Absent /\ reply = Absent

SmallNext ==
  edit_data \/ compile \/ compile_line \/ compile_finish \/ compile_rename \/ compile_dies \/ respond

-----------------------------------------------------------------------------
\* What a file of data means: as the manual pages and the tests say, but for
\* the length of rbldns's text and walldns's forward names (below).

\* The addresses whose first n bits are those of a network.
InNet(ip, l) ==
  LET len == IF l.slash = -1 \/ l.slash > 32 THEN 32 ELSE l.slash
      net == [k \in 1..4 |-> IF k <= Len(l.nums) THEN l.nums[k] % 256 ELSE 0]
      Bit(a, b) == (a[(b \div 8) + 1] \div 2^(7 - (b % 8))) % 2
  IN /\ len >= 8
     /\ \A b \in 0..31 : Bit(net, b) = IF b < len THEN Bit(ip, b) ELSE 0

\* Of a text, the first MaxText characters are used.
RblRight(lines, q, a) ==
  LET IsColon(l) == l.kind = ":"
      colon == SelectSeq(lines, IsColon)
      ip == Reverse4(dd(q.name, RblBase).ip)
      datum == IF colon = << >> THEN Default ELSE colon[1]
      listed == \E i \in DOMAIN lines : lines[i].kind = "net" /\ InNet(ip, lines[i])
      txt == ItsText(IF colon = << >> THEN datum.text ELSE SubSeq(datum.text, 1, Least(Len(datum.text), MaxText)), ip)
  IN IF q.qtype \notin {"A", "TXT", "ANY"} \/ dd(q.name, RblBase).n # 4 THEN a = Refused
     ELSE IF ~listed THEN a = NxDomain
     ELSE a = Ok(TypesOf(q, {[type |-> "A", data |-> datum.ip], [type |-> "TXT", data |-> txt]}))

PickRight(lines, q, a) ==
  LET Fits(l) == l.kind = "%" /\ Len(l.prefix) \in 1..4 /\ \A i \in DOMAIN l.prefix : l.prefix[i] % 256 = q.ip[i]
      fits == {i \in DOMAIN lines : Fits(lines[i])}
      best == CHOOSE i \in fits : \A k \in fits :
                \/ Len(lines[i].prefix) > Len(lines[k].prefix)
                \/ Len(lines[i].prefix) = Len(lines[k].prefix) /\ i <= k
      loc == IF fits = {} THEN 0 ELSE lines[best].loc
      At(where) == {i \in DOMAIN lines : lines[i].kind = "+" /\ lines[i].name = q.name /\ lines[i].loc = where}
      them == IF At(loc) # {} THEN At(loc) ELSE At(0)
  IN IF q.qtype \notin {"A", "MX", "ANY"} \/ them = {} THEN a = Refused
     ELSE /\ a.rcode = "ok"
          /\ a.records \subseteq {[type |-> "A", data |-> lines[i].ip] : i \in them}
          /\ Cardinality(a.records) = IF FlagA(q) THEN Least(3, Cardinality(them)) ELSE 0

\* The decimal number's label, and an address's name in in-addr.arpa.
Decimal(n) ==
  CASE n < 10 -> <<n>> [] n >= 10 /\ n < 100 -> <<n \div 10, n % 10>>
    [] OTHER -> <<n \div 100, (n \div 10) % 10, n % 10>>
ArpaName(ip) == [k \in 1..4 |-> Decimal(ip[5 - k])] \o InAddr4

\* walldns answers for up to four octets in front of in-addr.arpa and, as
\* rts.exp has it, for an address itself.
Octets(labels) == \A i \in DOMAIN labels : \E n \in 0..255 : labels[i] = Decimal(n)
InArpa(n) == \E j \in 0..4 : Len(n) = j + Len(InAddr4) /\ SubSeq(n, j + 1, Len(n)) = InAddr4 /\ Octets(SubSeq(n, 1, j))
Forward(n) == Len(n) = 4 /\ Octets(n)
WallRight(q, a) ==
  /\ a = Refused <=> q.qtype \notin {"A", "PTR", "ANY"} \/ ~(InArpa(q.name) \/ Forward(q.name))
  /\ \A r \in a.records :
       /\ r.type = "A" => q.name = ArpaName(r.data) \/ q.name = [k \in 1..4 |-> Decimal(r.data[k])]
       /\ r.type = "PTR" => \E b \in walldns_respond([q EXCEPT !.name = r.data, !.qtype = "A"]) :
                              Len(r.data) = 6 => \E s \in b.records : r.data = ArpaName(s.data)

\* A response of rbldns or pickdns is what one whole version of "data" says, the one that was
\* compiled last, whatever happened to later compilations and to data.tmp: an address is listed if
\* and only if it is in a network of the file (with a prefix of at least 8 bits and no host bits);
\* a client gets up to three of the addresses for its location, else for no location, and none is
\* lost because lines for one name are apart.  The text of rbldns is the one in the file as far as
\* it fits, with the address for a '$' that comes last there (doit cuts the text first).  walldns
\* refuses what is not an address, in either form, and its two directions agree.
ServesData ==
  reply # Absent /\ reply.a.rcode # "none" =>
    CASE server = "rbldns" -> RblRight(made_from, reply.q, reply.a)
      [] server = "pickdns" -> PickRight(made_from, reply.q, reply.a)
      [] OTHER -> WallRight(reply.q, reply.a)

\* rbldns-data.8: "DNS queries for addresses on the list will receive [...] a TXT record of txt"
\* and, "If txt ends with $, rbldns replaces the $ with the IP address".  Not an invariant: README 5.2.
TextWhole ==
  server = "rbldns" /\ reply # Absent /\ reply.a.rcode = "ok" =>
    \A i \in DOMAIN made_from : \A r \in reply.a.records :
      made_from[i].kind = ":" /\ r.type = "TXT" /\ (\A k \in 1..(i - 1) : made_from[k].kind # ":") =>
        r.data = ItsText(made_from[i].text, Reverse4(dd(reply.q.name, RblBase).ip))

\* walldns.8: "walldns rejects [...] queries for domains outside in-addr.arpa".  Not an
\* invariant: README 5.2.
RejectsOutside ==
  server = "walldns" /\ reply # Absent /\ ~InArpa(reply.q.name) => reply.a.rcode \in {"refused", "none"}
=============================================================================
