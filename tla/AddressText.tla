---------------------------- MODULE AddressText -----------------------------
(***************************************************************************)
(* Addresses as text, and the lists of addresses the programs read from    *)
(* files and the environment: the address formatters and scanners of both  *)
(* packages, server.c's list $IP, dnscache's "ignoreip", the files in      *)
(* servers/ (roots.c, with keys in dq) and dq's strtomultiip.  Keys and    *)
(* boxes are written and read too (see KeyText).                           *)
(*                                                                         *)
(* A text is a sequence of characters: 0..15 are the hexadecimal digits,   *)
(* keys are single characters from FirstKey up.  An address is a sequence  *)
(* of eight words or of sixteen bytes.                                     *)
(***************************************************************************)
EXTENDS KeyText, FiniteSets, FiniteSetsExt

CONSTANTS
  TextAddrs,    \* the addresses written as text
  Lists,        \* lists of entries [ip, with], with an interface, a key or 0
  Keys, Boxes,  \* the keys (32 bytes) and boxes written as text
  NoAddress,   \* a text that is no address
  Beyond,       \* the two bytes behind an address, which ip6_fmt looks at
  MultiMax,     \* room in strtomultiip's buffer (799 in the code)
  DjbServers, DqServers   \* servers a root file may have: 4 and 16

VARIABLES
  given,     \* what is written: an address, a list of addresses, a key or a box, and how
  text,      \* the text
  got,       \* what is read from it
  phase      \* "write", "read", "done"

text_vars == <<given, text, got, phase>>

COLON == 16   DOT == 17   NL == 18   COMMA == 19   PERCENT == 20   BAR == 21   SPACE == 22   NUL == 99
FirstKey == 30

Bytes(w) == <<w \div 256, w % 256>>
BytesOf(words) == FlattenSeq([i \in 1..8 |-> Bytes(words[i])])
V4mapped(words) == \A i \in 1..5 : words[i] = 0 /\ words[6] = 65535
At4(words) == SubSeq(BytesOf(words), 13, 16)

\* fmt_ulong and fmt_xlong; scan_ulong and scan_xlong from position p on.
RECURSIVE Numeral(_, _)
Numeral(n, base) == IF n < base THEN <<n>> ELSE Append(Numeral(n \div base, base), n % base)
CharAt(s, p) == IF p <= Len(s) THEN s[p] ELSE NUL
RECURSIVE ScanNumber(_, _, _, _)
ScanNumber(s, p, base, u) ==
  IF CharAt(s, p) < base THEN ScanNumber(s, p + 1, base, base * u + s[p]) ELSE [to |-> p, u |-> u]
scan(s, p, base) == ScanNumber(s, p, base, 0)

-----------------------------------------------------------------------------
\* libtiny: ip4_fmt, ip4_scan, ip6_fmt, ip6_scan and the flat forms.  A scanner returns the
\* position behind what it read; Unscanned if it read nothing.

Unscanned == [to |-> 0, ip |-> << >>]

ip4_fmt(ip4) ==
  FlattenSeq([i \in 1..4 |-> Numeral(ip4[i], 10) \o (IF i < 4 THEN <<DOT>> ELSE << >>)])

RECURSIVE Quad(_, _, _)
Quad(s, p, ip4) ==
  LET a == scan(s, p, 10)
      more == Append(ip4, a.u % 256)
  IN CASE a.to = p -> Unscanned
       [] a.to > p /\ Len(more) = 4 -> [to |-> a.to, ip |-> more]
       [] a.to > p /\ Len(more) < 4 /\ CharAt(s, a.to) # DOT -> Unscanned
       [] OTHER -> Quad(s, a.to + 1, more)
ip4_scan(s, p) == Quad(s, p, << >>)

\* f = [s, compressing, compressed] before word j.  The word after the last is what lies behind
\* the address.
Word(words, j, f, beyond) ==
  LET temp0 == IF f.compressing THEN 0 ELSE IF j = 8 THEN beyond ELSE words[j + 1]
      start == words[j] = 0 /\ temp0 = 0 /\ ~f.compressed
  IN IF start
     THEN [f EXCEPT !.compressing = TRUE, !.s = IF j = 1 /\ ~f.compressing THEN Append(@, COLON) ELSE @]
     ELSE [s |-> f.s \o (IF f.compressing THEN <<COLON>> ELSE << >>) \o Numeral(words[j], 16)
                     \o (IF j < 8 THEN <<COLON>> ELSE << >>),
           compressing |-> FALSE, compressed |-> f.compressed \/ f.compressing]
RECURSIVE Words(_, _, _, _)
Words(words, j, f, beyond) ==
  CASE j > 8 -> IF f.compressing THEN Append(f.s, COLON) ELSE f.s
    [] j = 7 /\ V4mapped(words) -> f.s \o ip4_fmt(At4(words)) \o (IF f.compressing THEN <<COLON>> ELSE << >>)
    [] OTHER -> Words(words, j + 1, Word(words, j, f, beyond), beyond)
ip6_fmt(words, beyond) ==
  Words(words, 1, [s |-> << >>, compressing |-> FALSE, compressed |-> FALSE], beyond)

Zeros(n) == [i \in 1..n |-> 0]
Joined_left(to, pre, suf) == [to |-> to, ip |-> pre \o suf \o Zeros(16 - Len(pre) - Len(suf))]
Joined(to, pre, suf) == [to |-> to, ip |-> pre \o Zeros(16 - Len(pre) - Len(suf)) \o suf]
\* Part 2, behind "::".  Nothing read at all counts as one character less.
RECURSIVE Suffix(_, _, _, _)
Suffix(s, p, pre, suf) ==
  LET colon == CharAt(s, p) = COLON
      w == IF colon THEN p + 1 ELSE p
      a == scan(s, w, 16)
      v4 == IF Len(pre) + Len(suf) <= 12 /\ CharAt(s, a.to) = DOT THEN ip4_scan(s, w) ELSE Unscanned
      more == suf \o Bytes(a.u % 65536)
  IN CASE colon = (suf = << >>) -> Joined(p, pre, suf)
       [] colon # (suf = << >>) /\ a.to = w -> Joined(w - 1, pre, suf)
       [] colon # (suf = << >>) /\ a.to > w /\ v4 # Unscanned -> Joined(v4.to, pre, suf \o v4.ip)
       [] colon # (suf = << >>) /\ a.to > w /\ v4 = Unscanned /\ Len(pre) + Len(more) = 16 -> Joined(a.to, pre, more)
       [] OTHER -> Suffix(s, a.to, pre, more)
RECURSIVE Prefix(_, _, _)
Prefix(s, p, pre) ==
  LET w == IF CharAt(s, p) = COLON THEN p + 1 ELSE p
      a == scan(s, w, 16)
      more == pre \o Bytes(a.u % 65536)
  IN CASE CharAt(s, p) = COLON /\ CharAt(s, w) = COLON -> Suffix(s, w + 1, pre, << >>)
       [] a.to = w -> Unscanned
       [] a.to > w /\ Len(pre) = 12 /\ CharAt(s, a.to) = DOT ->
            LET v4 == ip4_scan(s, w) IN IF v4 = Unscanned THEN Unscanned ELSE Joined(v4.to, pre, v4.ip)
       [] a.to > w /\ Len(more) = 16 -> [to |-> a.to, ip |-> more]
       [] OTHER -> Prefix(s, a.to, more)
V4prefix == Zeros(10) \o <<255, 255>>
ip6_scan(s, p) ==
  LET v4 == ip4_scan(s, p)
  IN CASE v4 # Unscanned /\ v4.ip = Zeros(4) -> [v4 EXCEPT !.ip = Zeros(16)]
       [] v4 # Unscanned /\ v4.ip # Zeros(4) -> [v4 EXCEPT !.ip = V4prefix \o @]
       [] OTHER -> Prefix(s, p, << >>)

ip6_fmt_flat(words) == LET b == BytesOf(words) IN FlattenSeq([i \in 1..16 |-> <<b[i] \div 16, b[i] % 16>>])
fromhex(c) == IF c \in 0..15 THEN c ELSE -1
ip6_scan_flat(s) ==
  IF \E i \in 1..32 : fromhex(CharAt(s, i)) < 0 THEN Unscanned
  ELSE [to |-> 33, ip |-> [i \in 1..16 |-> 16 * fromhex(s[2 * i - 1]) + fromhex(s[2 * i])]]

-----------------------------------------------------------------------------
\* dq: iptostr and strtoip.  strtoip wants nothing behind the address.

\* The longest run of zero words, the first of equals; first > last if there is none.
countz(words) ==
  LET count == [i \in 1..8 |-> i - Max({k \in 0..i : k = 0 \/ words[k] # 0})]
      last == CHOOSE j \in 1..8 : \A i \in 1..8 : count[i] < count[j] \/ (count[i] = count[j] /\ j <= i)
  IN [first |-> last - count[last] + 1, last |-> last]
iptostr6(words) ==
  LET z == countz(words)
      In(i) == i \in z.first..z.last /\ z.first # z.last
      Piece(i) == IF In(i) THEN (IF i = 8 THEN <<COLON>> ELSE << >>) \o (IF i = z.last THEN <<COLON>> ELSE << >>)
                  ELSE (IF i > 1 THEN <<COLON>> ELSE << >>) \o Numeral(words[i], 16)
  IN FlattenSeq([i \in 1..8 |-> Piece(i)])
iptostr6x(words) == FlattenSeq([i \in 1..8 |-> (IF i > 1 THEN <<COLON>> ELSE << >>) \o Numeral(words[i], 16)])
iptostr(words) == IF V4mapped(words) THEN ip4_fmt(At4(words)) ELSE iptostr6(words)
iptostrx(words) == IF V4mapped(words) THEN ip4_fmt(At4(words)) ELSE iptostr6x(words)

\* Up to three digits a number; << >> if the text is no such address.
RECURSIVE Dotted4(_, _)
Dotted4(s, y) ==
  LET n == Max({j \in 0..3 : \A i \in 1..j : CharAt(s, i) < 10})
      more == Append(y, ScanNumber(SubSeq(s, 1, n), 1, 10, 0).u % 256)
      rest == SubSeq(s, n + 1, Len(s))
  IN CASE n = 0 -> << >>
       [] n > 0 /\ Len(more) = 4 -> IF rest = << >> THEN V4prefix \o more ELSE << >>
       [] n > 0 /\ Len(more) < 4 /\ CharAt(rest, 1) # DOT -> << >>
       [] OTHER -> Dotted4(Tail(rest), more)
strtoip4(s) == Dotted4(s, << >>)

\* inet_pton: groups of up to four digits between colons, one "::" for one or more zero groups.
RECURSIVE Splits(_, _)
Splits(s, c) ==
  LET cuts == {i \in DOMAIN s : s[i] = c}
  IN IF cuts = {} THEN <<s>>
     ELSE <<SubSeq(s, 1, Min(cuts) - 1)>> \o Splits(SubSeq(s, Min(cuts) + 1, Len(s)), c)
inet_pton(s) ==
  LET f == Splits(s, COLON)
      n == Len(f)
      empty == {k \in 1..n : f[k] = << >>}
      pre == IF empty = {} THEN n ELSE Min(empty) - 1
      suf == IF empty = {} THEN 0 ELSE n - Max(empty)
      Group(k) == Bytes(ScanNumber(f[k], 1, 16, 0).u)
      ok == /\ \A k \in 1..n : Len(f[k]) <= 4 /\ \A i \in DOMAIN f[k] : f[k][i] < 16
            /\ IF empty = {} THEN n = 8
               ELSE /\ pre + suf <= 7
                    /\ empty = {k \in 1..n : k > pre /\ k <= n - suf}
                    /\ n - pre - suf = 1 + (IF pre = 0 THEN 1 ELSE 0) + (IF suf = 0 THEN 1 ELSE 0)
  IN IF ~ok THEN << >>
     ELSE FlattenSeq([k \in 1..pre |-> Group(k)]) \o Zeros(16 - 2 * (pre + suf))
          \o FlattenSeq([k \in 1..suf |-> Group(n - suf + k)])
strtoip6(s) == inet_pton(s)
strtoip(s) == IF strtoip4(s) # << >> THEN strtoip4(s) ELSE strtoip6(s)

-----------------------------------------------------------------------------
\* Lists.

Died == <<[die |-> TRUE]>>   \* the program ends

\* server.c: addresses between commas, each with an interface behind a '%'.  Any other character
\* behind an address ends the program.
RECURSIVE server_ips(_, _, _)
server_ips(s, p, out) ==
  LET a == ip6_scan(s, p)
      comma == Min({i \in a.to..(Len(s) + 1) : CharAt(s, i) \in {COMMA, NUL}})
      end == IF CharAt(s, a.to) = PERCENT THEN comma ELSE a.to
      one == [ip |-> a.ip, with |-> IF end > a.to THEN s[a.to + 1] ELSE 0]
  IN CASE p > Len(s) -> out
       [] p <= Len(s) /\ (a = Unscanned \/ CharAt(s, end) \notin {COMMA, NUL}) -> Died
       [] OTHER -> server_ips(s, end + 1, Append(out, one))

\* The lines of a file, each with a newline behind it.
FileLines(s) == LET f == Splits(s, NL) IN SubSeq(f, 1, Len(f) - 1)

\* dnscache: every line of "ignoreip" must be an address.
ignoreip(s) ==
  LET lines == FileLines(s)
  IN IF \E i \in DOMAIN lines : ip6_scan(lines[i], 1) = Unscanned THEN Died
     ELSE [i \in DOMAIN lines |-> [ip |-> ip6_scan(lines[i], 1).ip, with |-> 0]]

\* roots.c: the first lines that are addresses; a newline is added to the file.
TakeUpTo(s, n) == SubSeq(s, 1, IF Len(s) < n THEN Len(s) ELSE n)
root_file(s) ==
  LET Readable(l) == ip6_scan(l, 1) # Unscanned
      lines == SelectSeq(FileLines(Append(s, NL)), Readable)
  IN TakeUpTo([i \in DOMAIN lines |-> [ip |-> ip6_scan(lines[i], 1).ip, with |-> 0]], DjbServers)

\* dq's roots.c: a line is an address, or an address, a bar and a key.  A server with a key is
\* entered once for each DNSCurve format in use.
Formats(curvetype) == CASE curvetype = "1" -> <<1>> [] curvetype = "2" -> <<2>> [] OTHER -> <<1, 2>>
Entry(l, curvetype) ==
  LET bars == {i \in DOMAIN l : l[i] = BAR}
      addr == strtoip(IF bars = {} THEN l ELSE SubSeq(l, 1, Min(bars) - 1))
      key == IF bars = {} THEN << >> ELSE SubSeq(l, Max(bars) + 1, Len(l))
  IN IF addr = << >> THEN << >>
     ELSE IF Len(key) = 1 /\ key[1] >= FirstKey
          THEN [k \in DOMAIN Formats(curvetype) |-> [ip |-> addr, with |-> <<Formats(curvetype)[k], key[1]>>]]
          ELSE <<[ip |-> addr, with |-> 0]>>
root_file_dq(s, curvetype) ==
  LET lines == FileLines(Append(s, NL))
  IN TakeUpTo(FlattenSeq([i \in DOMAIN lines |-> Entry(lines[i], curvetype)]), DqServers)

\* strtomultiip: what is too long is cut at the last separators; if no colon is left, every fourth
\* dot of a word is a separator too.
Separators == <<COMMA, SPACE, 24, NL>>
Cut(s, c) == IF \E i \in DOMAIN s : s[i] = c THEN SubSeq(s, 1, Max({i \in DOMAIN s : s[i] = c}) - 1) ELSE s
strtomultiip(s) ==
  LET short == IF Len(s) <= MultiMax THEN s
               ELSE FoldLeft(Cut, SubSeq(s, 1, MultiMax), Separators)
      Sep(i) == \E k \in DOMAIN Separators : short[i] = Separators[k]
      v4only == \A i \in DOMAIN short : short[i] # COLON
      DotsUpTo(i) == Cardinality({k \in 1..i : short[k] = DOT /\ \A m \in k..i : ~Sep(m)})
      data == [i \in DOMAIN short |-> IF Sep(i) \/ (v4only /\ short[i] = DOT /\ DotsUpTo(i) % 4 = 0) THEN NUL ELSE short[i]]
      IsIp(f) == strtoip(f) # << >>
      ips == SelectSeq(Splits(data, NUL), IsIp)
  IN TakeUpTo([i \in DOMAIN ips |-> [ip |-> strtoip(ips[i]), with |-> 0]], 16)

-----------------------------------------------------------------------------
\* A text is written by a program or by the administrator, and read.

EndsIn(s, c) == s # << >> /\ s[Len(s)] = c
EntryText(e) == IF e.ip = << >> THEN NoAddress ELSE iptostr(e.ip)
Mark == [server |-> PERCENT, dqroots |-> BAR]
With(e, kind) == IF e.with = 0 THEN << >> ELSE <<Mark[kind], e.with>>
Between(kind) == IF kind = "server" THEN COMMA ELSE IF kind = "dots" THEN DOT ELSE IF kind = "multi" THEN SPACE ELSE NL
ListText(l, kind) ==
  FlattenSeq([i \in DOMAIN l |-> EntryText(l[i]) \o With(l[i], kind)
                                \o (IF i < Len(l) \/ kind = "ignoreip" THEN <<Between(kind)>> ELSE << >>)])

ListKinds == {"server", "ignoreip", "roots", "dqroots", "dots", "multi"}
NoneWith(l) == \A i \in DOMAIN l : l[i].with = 0
AllV4(l) == \A i \in DOMAIN l : l[i].ip # << >> /\ V4mapped(l[i].ip)
Suits(l, kind) ==
  /\ kind \notin {"server", "dqroots"} => NoneWith(l)
  /\ kind = "dots" => AllV4(l) /\ Len(ListText(l, kind)) <= MultiMax
  /\ l # << >>

TextInit ==
  /\ \/ \E a \in TextAddrs, k \in {"ip6", "flat", "dq", "dqx"} : given = [kind |-> k, ip |-> a, list |-> << >>, setting |-> 0]
     \/ \E l \in Lists, k \in ListKinds, b \in 0..2 :
          /\ Suits(l, k) /\ (k # "dqroots" => b = 0)
          /\ given = [kind |-> k, ip |-> << >>, list |-> l, setting |-> b]
     \/ \E key \in Keys, k \in {"uz5", "hex", "env"}, b \in 0..1 :
          given = [kind |-> k, ip |-> << >>, list |-> <<key>>, setting |-> b]
     \/ \E box \in Boxes, key \in Keys, b \in 0..1 :
          given = [kind |-> "txt", ip |-> << >>, list |-> <<box, key>>, setting |-> b]
  /\ text = << >> /\ got = << >> /\ phase = "write"

\* Capitals are as good as small letters; resolvers may change names.
Recased(s) == IF given.setting = 0 THEN s ELSE [i \in DOMAIN s |-> s[i] + Upper]

write_address ==
  /\ phase = "write" /\ phase' = "read"
  /\ \E beyond \in Beyond : text' =
       CASE given.kind = "ip6" -> ip6_fmt(given.ip, beyond)
         [] given.kind = "flat" -> ip6_fmt_flat(given.ip)
         [] given.kind = "dq" -> iptostr(given.ip)
         [] given.kind = "dqx" -> iptostrx(given.ip)
         [] given.kind = "uz5" -> Recased(keygen(given.list[1], given.list[1]).dns)
         [] given.kind = "hex" -> Recased(keygen(given.list[1], given.list[1]).hexpublic)
         [] given.kind = "env" -> Recased(keygen(given.list[1], given.list[1]).hexprivate)
         [] given.kind = "txt" -> LET name == txtquery(given.list[1], given.list[2])
                                  IN [i \in DOMAIN name |-> [name[i] EXCEPT !.text = Recased(@)]]
         [] OTHER -> ListText(given.list, given.kind)
  /\ UNCHANGED <<given, got>>

Setting == <<"1", "2">>
read_address ==
  /\ phase = "read" /\ phase' = "done"
  /\ got' =
       CASE given.kind = "ip6" -> ip6_scan(text, 1)
         [] given.kind = "flat" -> ip6_scan_flat(text)
         [] given.kind \in {"dq", "dqx"} -> [to |-> Len(text) + 1, ip |-> strtoip(text)]
         [] given.kind \in {"uz5", "hex"} -> keyparse(text)
         [] given.kind = "env" -> misc_getenv_key(text)
         [] given.kind = "txt" -> parse_query_name(text)
         [] given.kind = "server" -> server_ips(text, 1, << >>)
         [] given.kind = "ignoreip" -> ignoreip(text)
         [] given.kind = "roots" -> root_file(text)
         [] given.kind = "dqroots" -> root_file_dq(text, IF given.setting = 0 THEN "mixed" ELSE Setting[given.setting])
         [] OTHER -> strtomultiip(text)
  /\ UNCHANGED <<given, text>>

TextNext == write_address \/ read_address

-----------------------------------------------------------------------------
\* The entries as they should be read.
AsIs(e) == [ip |-> BytesOf(e.ip), with |-> e.with]
InFormats(e) ==
  IF e.with < FirstKey THEN <<[ip |-> BytesOf(e.ip), with |-> 0]>>
  ELSE LET f == IF given.setting = 0 THEN <<1, 2>> ELSE <<given.setting>>
       IN [k \in DOMAIN f |-> [ip |-> BytesOf(e.ip), with |-> <<f[k], e.with>>]]
Legible(e) == e.ip # << >>
Legibles == SelectSeq(given.list, Legible)
AllLegible == [i \in DOMAIN Legibles |-> AsIs(Legibles[i])]

\* What one program writes another reads as the same address: ip6_fmt and ip6_scan (whatever lies
\* behind the address), the flat forms, and dq's iptostr and strtoip, with at most one "::".
\* ip6_scan takes all of the text, save the last colon of one that ends in "::".  A list is read as
\* its addresses, in order, each with its own interface or key and no other's: server.c refuses a
\* list with an unreadable address, or one that ends in "::"; dnscache refuses an unreadable line
\* of "ignoreip"; a root file gives its first 4 (dq: 16) readable ones; strtomultiip gives those
\* that fit, however separated.  A key that curvedns-keygen prints is read by dq and by curvedns as
\* that key, although base 32 has no room for its highest bit and the program cuts off what it wrote
\* for it; curvedns finds the box and the key in the name of dq's query, whatever case its letters
\* are in by then, and the labels take just the room that dq has allotted.
TextsRead == phase = "done" =>
  CASE given.kind \in {"ip6", "flat", "dq", "dqx"} ->
         /\ got.ip = BytesOf(given.ip)
         /\ got.to = Len(text) + 1 - (IF given.kind = "ip6" /\ EndsIn(text, COLON) THEN 1 ELSE 0)
    [] given.kind \in {"uz5", "hex", "env"} -> got = given.list[1]
    [] given.kind = "txt" ->
         LET labels == Front(text)
         IN /\ got = given.list
            /\ dns_base32_bytessize(Len(given.list[1])) =
                 Len(labels) + Len(FlattenSeq([i \in DOMAIN labels |-> labels[i].text]))
    [] given.kind = "server" ->
         got = IF \E i \in DOMAIN given.list : EndsIn(EntryText(given.list[i]), COLON) \/ ~Legible(given.list[i])
               THEN Died ELSE AllLegible
    [] given.kind = "ignoreip" -> got = IF Legibles # given.list THEN Died ELSE AllLegible
    [] given.kind = "roots" -> got = TakeUpTo(AllLegible, DjbServers)
    [] given.kind = "dqroots" ->
         got = TakeUpTo(FlattenSeq([i \in DOMAIN Legibles |-> InFormats(Legibles[i])]), DqServers)
    [] OTHER -> IsPrefix(got, AllLegible) /\ (Len(text) <= MultiMax => got = AllLegible)
=============================================================================
