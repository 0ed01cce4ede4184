------------------------------- MODULE Packet -------------------------------
(* Names and packets: dns_dfd.c, dns_dtda.c, dns_domain.c, dns_packet.c and  *)
(* response.c, with their counterparts in dq.  A server makes a response of  *)
(* names given as text, compresses them, and a client reads it back.         *)
(*                                                                           *)
(* Names and packets are sequences of bytes.  A 16-bit number is two bytes,  *)
(* the low one with Radix values (256), so that a pointer, which has 6 bits  *)
(* in its high byte, can name the first 64 * Radix positions.                *)
EXTENDS Integers, Sequences, SequencesExt

CONSTANTS
  Texts,         \* names as users write them: sequences of characters
  Types,         \* record types
  Fill,          \* lengths of data that is no name
  Radix,         \* 256
  MaxLabel,      \* 63
  MaxName,       \* 255
  NAMES,         \* 100: names remembered for compression
  MaxStored,     \* longest name remembered: 128, or 255 in dq
  LOOP,          \* 1000: bytes looked at for a name
  MaxPacket,     \* 512, or what the client announced
  MaxRecords     \* bound

VARIABLES
  side,          \* whose response.c it is: "djb" or "dq"
  resp,          \* response, name, name_ptr and tctarget
  put_in,        \* the question and the records put in
  stage          \* "query", "records", "failed" or "sent"

packet_vars == <<side, resp, put_in, stage>>

Bad == <<256>>   \* no name
Dot == 46
Backslash == 92
Lower(c) == IF c \in 65..90 THEN c + 32 ELSE c
Octal(s, i) == i <= Len(s) /\ s[i] \in 48..55
From(s, i) == SubSeq(s, i, Len(s))

----------------------------------------------------------------------------
(* dns_domain_fromdot *)

\* A backslash and up to three octal digits, or a backslash and a character.
Escape(s) ==
  LET n == IF ~Octal(s, 2) THEN 0 ELSE IF ~Octal(s, 3) THEN 1 ELSE IF ~Octal(s, 4) THEN 2 ELSE 3
      d(i) == s[i + 1] - 48
  IN CASE n = 0 -> [ch |-> s[2], rest |-> From(s, 3)]
       [] n = 1 -> [ch |-> d(1), rest |-> From(s, 3)]
       [] n = 2 -> [ch |-> 8 * d(1) + d(2), rest |-> From(s, 4)]
       [] OTHER -> [ch |-> (64 * d(1) + 8 * d(2) + d(3)) % 256, rest |-> From(s, 5)]
Character(s) == IF Head(s) = Backslash THEN Escape(s) ELSE [ch |-> Head(s), rest |-> Tail(s)]

\* A label put at the end of a name.
WithLabel(name, label) ==
  IF label = << >> THEN name
  ELSE IF Len(name) + Len(label) + 1 > MaxName THEN Bad
  ELSE Append(name, Len(label)) \o label
Closed(name) == IF name = Bad \/ Len(name) + 1 > MaxName THEN Bad ELSE Append(name, 0)

RECURSIVE FromDot(_, _, _)
FromDot(s, label, name) ==
  CASE name = Bad -> Bad
    [] name # Bad /\ s = << >> -> Closed(WithLabel(name, label))
    [] name # Bad /\ s # << >> /\ Head(s) = Dot -> FromDot(Tail(s), << >>, WithLabel(name, label))
    [] name # Bad /\ s = <<Backslash>> -> Closed(WithLabel(name, label))
    [] OTHER -> IF Len(label) >= MaxLabel THEN Bad
                ELSE FromDot(Character(s).rest, Append(label, Character(s).ch), name)
dns_domain_fromdot(s) == FromDot(s, << >>, << >>)
\* dq's: the same.
dns_domain_fromdot_dq(s) == FromDot(s, << >>, << >>)
dns_domain_fromdot_static(s) == FromDot(s, << >>, << >>)

----------------------------------------------------------------------------
(* dns_domain_todot_cat *)

Plain(c) == c \in 97..122 \/ c \in 48..57 \/ c \in {45, 95}
Written(c) ==
  IF Plain(Lower(c)) THEN <<Lower(c)>>
  ELSE <<Backslash, 48 + ((c \div 64) % 4), 48 + ((c \div 8) % 8), 48 + (c % 8)>>
RECURSIVE ToDot(_)
ToDot(d) ==
  LET n == Head(d)
      rest == From(d, n + 2)
      label == FlattenSeq([i \in 1..n |-> Written(d[i + 1])])
  IN IF Head(rest) = 0 THEN label ELSE label \o <<Dot>> \o ToDot(rest)
dns_domain_todot_cat(d) == IF Head(d) = 0 THEN <<Dot>> ELSE ToDot(d)

----------------------------------------------------------------------------
(* dns_domain.c: names end at their empty label; case is ignored *)

dns_domain_equal(d, e) == Len(d) = Len(e) /\ \A i \in 1..Len(d) : Lower(d[i]) = Lower(e[i])
dns_domain_equal_dq(d, e) == dns_domain_equal(d, e)
Parent(d) == From(d, Head(d) + 2)

----------------------------------------------------------------------------
(* response.c: r is the response, its length that of r.buf *)

uint16_pack_big(n) == <<(n \div Radix) % 256, n % Radix>>
uint16_unpack_big(s, i) == s[i] * Radix + s[i + 1]
MaxResponse == 256 * Radix - 1
Failed(r) == ~r.ok

response_addbytes(r, bytes) ==
  IF Failed(r) \/ Len(bytes) > MaxResponse - Len(r.buf) THEN [r EXCEPT !.ok = FALSE]
  ELSE [r EXCEPT !.buf = @ \o bytes]

\* Positions count from 0.
Known(r, d) == {i \in 1..Len(r.names) : dns_domain_equal(d, r.names[i].name)}
Pointer(r, d) ==
  192 * Radix + r.names[CHOOSE i \in Known(r, d) : \A j \in Known(r, d) : i <= j].ptr
\* Mutant: a name is remembered wherever it is.
Remember_far(r, d) ==
  IF Len(d) <= MaxStored[side] /\ Len(r.names) < NAMES
  THEN [r EXCEPT !.names = Append(@, [name |-> d, ptr |-> Len(r.buf)])] ELSE r
Remember(r, d) ==
  IF Len(d) <= MaxStored[side] /\ Len(r.buf) < 64 * Radix /\ Len(r.names) < NAMES
  THEN [r EXCEPT !.names = Append(@, [name |-> d, ptr |-> Len(r.buf)])] ELSE r

RECURSIVE response_addname(_, _)
response_addname(r, d) ==
  CASE Failed(r) -> r
    [] ~Failed(r) /\ Head(d) = 0 -> response_addbytes(r, <<0>>)
    [] ~Failed(r) /\ Head(d) # 0 /\ Known(r, d) # {} -> response_addbytes(r, uint16_pack_big(Pointer(r, d)))
    [] OTHER -> response_addname(response_addbytes(Remember(r, d), SubSeq(d, 1, Head(d) + 1)), Parent(d))
response_addname_dq(r, d) == response_addname(r, d)

Header == <<0, 0, 129, 128, 0, 1, 0, 0, 0, 0, 0, 0>>
response_query(q, type) ==
  LET r == response_addbytes([ok |-> TRUE, buf |-> << >>, names |-> << >>, tctarget |-> 0], Header)
      s == response_addbytes(response_addbytes(response_addname(r, q), type), <<0, 1>>)
  IN [s EXCEPT !.tctarget = Len(s.buf)]

\* The time to live is four zeros, the length of the data not yet known.
response_rstart(r, d, type) ==
  response_addbytes(response_addbytes(response_addname(r, d), type), <<0, 1, 0, 0, 0, 0, 0, 0>>)
\* dpos is where the data starts; x + 1 and x + 2 count the section's records.
response_rfinish(r, dpos, x) ==
  IF Failed(r) THEN r
  ELSE [r EXCEPT !.buf = [i \in 1..Len(@) |->
          CASE i \in {dpos - 1, dpos} -> uint16_pack_big(Len(@) - dpos)[i - dpos + 2]
            [] i = x + 2 -> (@[i] + 1) % Radix
            [] i = x + 1 /\ @[x + 2] + 1 = Radix -> (@[i] + 1) % 256
            [] OTHER -> @[i]]]
response_tc(r) == [r EXCEPT !.buf = [SubSeq(@, 1, r.tctarget) EXCEPT ![3] = @ + 2]]
\* In dq the counts go too.
response_tc_dq(r) ==
  [r EXCEPT !.buf = [i \in 1..r.tctarget |-> IF i \in 7..12 THEN 0 ELSE IF i = 3 THEN @[i] + 2 ELSE @[i]]]

----------------------------------------------------------------------------
(* dns_packet.c: buf[pos] of the code is buf[pos + 1] here *)

Unread == [pos |-> 0, name |-> Bad]

RECURSIVE GetName(_, _, _, _, _, _)
GetName(buf, pos, loop, state, first, name) ==
  LET ch == buf[pos + 1] IN
  IF pos >= Len(buf) \/ loop + 1 >= LOOP \/ Len(name) + 1 > MaxName THEN Unread
  ELSE IF state > 0 THEN GetName(buf, pos + 1, loop + 1, state - 1, first, Append(name, ch))
  ELSE IF ch >= 192 THEN
         IF pos + 1 >= Len(buf) THEN Unread
         ELSE GetName(buf, uint16_unpack_big(buf, pos + 1) - 192 * Radix, loop + 1, 0,
                      IF first = 0 THEN pos + 2 ELSE first, name)
  ELSE IF ch >= 64 THEN Unread
  ELSE IF ch = 0 THEN [pos |-> IF first = 0 THEN pos + 1 ELSE first, name |-> Append(name, 0)]
  ELSE GetName(buf, pos + 1, loop + 1, ch, first, Append(name, ch))
dns_packet_getname(buf, pos) == GetName(buf, pos, 0, 0, 0, << >>)
dns_packet_getname_dq(buf, pos) == GetName(buf, pos, 0, 0, 0, << >>)
dns_packet_getname_static(buf, pos) == GetName(buf, pos, 0, 0, 0, << >>)

RECURSIVE dns_packet_skipname(_, _)
dns_packet_skipname(buf, pos) ==
  IF pos >= Len(buf) THEN 0
  ELSE LET ch == buf[pos + 1] IN
       CASE ch >= 192 -> pos + 2
         [] ch >= 64 /\ ch < 192 -> 0
         [] ch = 0 -> pos + 1
         [] OTHER -> dns_packet_skipname(buf, pos + 1 + ch)
dns_packet_copy(buf, pos, n) ==
  IF pos + n > Len(buf) THEN [pos |-> 0, bytes |-> << >>] ELSE [pos |-> pos + n, bytes |-> SubSeq(buf, pos + 1, pos + n)]

----------------------------------------------------------------------------
(* A response is made, and sent *)

PacketInit ==
  /\ side \in {"djb", "dq"} /\ stage = "query"
  /\ resp = [ok |-> TRUE, buf |-> << >>, names |-> << >>, tctarget |-> 0] /\ put_in = << >>

NameOfText(s) == IF side = "dq" THEN dns_domain_fromdot_dq(s) ELSE dns_domain_fromdot(s)
AddName(r, d) == IF side = "dq" THEN response_addname_dq(r, d) ELSE response_addname(r, d)

\* A name that dns_domain_fromdot refuses is never asked about.
ask ==
  /\ stage = "query"
  /\ \E s \in Texts : \E t \in Types : \E d \in {IF side = "dq" THEN dns_domain_fromdot_static(s) ELSE dns_domain_fromdot(s)} :
       /\ d # Bad
       /\ \E r \in {response_query(d, t)} :
            /\ resp' = r /\ stage' = IF Failed(r) THEN "failed" ELSE "records"
       /\ put_in' = <<[section |-> 4, text |-> s, type |-> t, data |-> << >>, fill |-> 0]>>
  /\ UNCHANGED side

\* One record: response_rstart, its data, response_rfinish.  Data is a name
\* (response_cname, NS, ...) or n bytes.
record ==
  /\ stage = "records" /\ Len(put_in) <= MaxRecords
  /\ \E x \in {6, 8, 10} : \E s \in Texts : \E t \in Types : \E d \in {NameOfText(s)} :
       /\ x >= Last(put_in).section /\ d # Bad
       /\ \/ \E u \in Texts : \E e \in {NameOfText(u)} :
               /\ e # Bad
               /\ \E r \in {response_rstart(resp, d, t)} : \E f \in {response_rfinish(AddName(r, e), Len(r.buf), x)} :
                    resp' = f /\ stage' = IF Failed(f) THEN "failed" ELSE "records"
               /\ put_in' = Append(put_in, [section |-> x, text |-> s, type |-> t, data |-> u, fill |-> 0])
          \/ \E n \in Fill :
               /\ \E r \in {response_rstart(resp, d, t)} :
                  \E f \in {response_rfinish(response_addbytes(r, [i \in 1..n |-> 0]), Len(r.buf), x)} :
                    resp' = f /\ stage' = IF Failed(f) THEN "failed" ELSE "records"
               /\ put_in' = Append(put_in, [section |-> x, text |-> s, type |-> t, data |-> << >>, fill |-> n])
  /\ UNCHANGED side

\* server.c and dnscache.c: what does not fit is cut off after the question.
send ==
  /\ stage = "records" /\ stage' = "sent"
  /\ resp' = (CASE Len(resp.buf) > MaxPacket /\ side = "djb" -> response_tc(resp)
                [] Len(resp.buf) > MaxPacket /\ side = "dq" -> response_tc_dq(resp)
                [] OTHER -> resp)
  /\ UNCHANGED <<side, put_in>>

PacketNext == ask \/ record \/ send

----------------------------------------------------------------------------
\* What a user sees of a name: case gone, escapes in one form.
Seen(s) == dns_domain_todot_cat(NameOfText(s))
Getname(buf, pos) == IF side = "dq" THEN dns_packet_getname_dq(buf, pos) ELSE dns_packet_getname(buf, pos)

\* Where each record starts, if each is read by its name and length.
RECURSIVE Starts(_, _, _)
Starts(buf, pos, n) ==
  IF n = 0 THEN <<pos>>
  ELSE LET p == dns_packet_skipname(buf, pos)
           h == dns_packet_copy(buf, p, 10)
       IN IF p = 0 \/ h.pos = 0 THEN <<pos, 0>>
          ELSE <<pos>> \o Starts(buf, h.pos + uint16_unpack_big(h.bytes, 9), n - 1)

\* Reads a record at pos as what was put in.
Reads(buf, pos, r) ==
  LET n == Getname(buf, pos)
      data == n.pos + 10
  IN /\ n.name # Bad /\ dns_domain_todot_cat(n.name) = Seen(r.text)
     /\ n.pos = dns_packet_skipname(buf, pos)
     /\ dns_packet_copy(buf, n.pos, 2).bytes = r.type
     /\ IF r.fill > 0 THEN uint16_unpack_big(buf, data - 1) = r.fill
        ELSE Getname(buf, data).name # Bad /\ dns_domain_todot_cat(Getname(buf, data).name) = Seen(r.data)

\* A client that reads a response that was sent finds the question, and if
\* it was not cut off, in each section just the records that were put in,
\* with their names and those in their data as their owner wrote them, case
\* aside, however they were compressed (response_addname,
\* dns_packet_getname, dns_domain_fromdot, dns_domain_todot_cat).
Decodes == stage = "sent" =>
  LET buf == resp.buf
      q == IF side = "dq" THEN dns_packet_getname_static(buf, 12) ELSE dns_packet_getname(buf, 12)
      Count(x) == uint16_unpack_big(buf, x + 1)
      cut == Len(buf) = resp.tctarget /\ Len(put_in) > 1
      S == Starts(buf, q.pos + 4, Count(6) + Count(8) + Count(10))
  IN /\ q.name # Bad /\ dns_domain_todot_cat(q.name) = Seen(put_in[1].text)
     /\ ~cut => /\ \A x \in {6, 8, 10} : Count(x) = Len(SelectSeq(put_in, LAMBDA r : r.section = x))
                /\ Len(S) = Len(put_in) /\ Last(S) = Len(buf)
                /\ \A k \in 2..Len(put_in) : Reads(buf, S[k - 1], put_in[k])
     /\ cut /\ side = "dq" => S = <<Len(buf)>>
=============================================================================
