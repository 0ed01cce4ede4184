------------------------------ MODULE Dnstrace ------------------------------
(* dnstrace: follows all paths from the roots to a name.  It keeps tables of *)
(* questions, of zones with their servers, of addresses of servers and, in   *)
(* qt, of who is to be asked what; each new entry of one of the first three  *)
(* is joined at once with the others, and what comes of it added to qt.      *)
(*                                                                           *)
(* A name is a sequence of labels.  A packet is three sequences of records   *)
(* [owner, type, data] and an rcode, of which the first `good` records can   *)
(* be read.                                                                  *)
EXTENDS Integers, Sequences, SequencesExt

CONSTANTS
  Asked,       \* the questions it may be started with
  Roots,       \* addresses given as arguments
  Packets,     \* what servers may answer
  IpOf,        \* for names that look like an address, this address
  Odd,         \* the address that stands for localhost
  MaxAsked     \* bound: questions sent

\* The sections of a packet are sequences.
IsSequence(s) == Len(s) \in Nat /\ s = [i \in 1..Len(s) |-> s[i]]
ASSUME TraceAssumption ==
  /\ IsSequence(Roots)
  /\ \A p \in Packets : IsSequence(p.answer) /\ IsSequence(p.authority) /\ IsSequence(p.glue) /\ p.good \in Int

VARIABLES
  tab,         \* query, ns, address, qt
  next         \* how many entries of qt have been asked

trace_vars == <<tab, next>>

dns_domain_suffix(big, little) ==
  Len(little) <= Len(big) /\ SubSeq(big, Len(big) - Len(little) + 1, Len(big)) = little

----------------------------------------------------------------------------
(* The tables *)

Ask(q, control, ip) == [owner |-> q.owner, type |-> q.type, control |-> control, ip |-> ip]
qt_add(qt, x) == IF x.owner = << >> \/ Contains(qt, x) THEN qt ELSE Append(qt, x)

\* qt_add for what a loop from 1 to n finds: found[j] for some j.
Loop(qt, n, found) ==
  LET f[j \in 0..n] ==
        IF j = 0 THEN qt ELSE IF j \in DOMAIN found THEN qt_add(f[j - 1], found[j]) ELSE f[j - 1]
  IN f[n]
\* ... and for a loop from 1 to m around it.
Loops(qt, m, n, found) ==
  LET f[i \in 0..m] == IF i = 0 THEN qt ELSE Loop(f[i - 1], n, found[i])
  IN f[m]

\* Mutant: a new question is joined with the first address of a server only.
query_add_first(t, q) ==
  LET Fits(i) == {j \in 1..Len(t.address) : dns_domain_suffix(q.owner, t.ns[i].owner) /\ t.ns[i].ns = t.address[j].owner
                                             /\ \A k \in 1..(j - 1) : t.address[k].owner # t.address[j].owner}
      Found == [i \in 1..Len(t.ns) |-> [j \in Fits(i) |-> Ask(q, t.ns[i].owner, t.address[j].ip)]]
  IN IF Contains(t.query, q) THEN t
     ELSE [t EXCEPT !.query = Append(@, q), !.qt = Loops(@, Len(t.ns), Len(t.address), Found)]
query_add(t, q) ==
  LET Fits(i) == {j \in 1..Len(t.address) : dns_domain_suffix(q.owner, t.ns[i].owner) /\ t.ns[i].ns = t.address[j].owner}
      Found == [i \in 1..Len(t.ns) |-> [j \in Fits(i) |-> Ask(q, t.ns[i].owner, t.address[j].ip)]]
  IN IF Contains(t.query, q) THEN t
     ELSE [t EXCEPT !.query = Append(@, q), !.qt = Loops(@, Len(t.ns), Len(t.address), Found)]

\* The second half of ns_add.
ns_join(t, z) ==
  LET Fits(i) == {j \in 1..Len(t.address) : dns_domain_suffix(t.query[i].owner, z.owner) /\ z.ns = t.address[j].owner}
      Found == [i \in 1..Len(t.query) |-> [j \in Fits(i) |-> Ask(t.query[i], z.owner, t.address[j].ip)]]
  IN [t EXCEPT !.ns = Append(@, z), !.qt = Loops(@, Len(t.query), Len(t.address), Found)]
ns_add(t, z) ==
  IF Contains(t.ns, z) THEN t ELSE ns_join(query_add(t, [owner |-> z.ns, type |-> "A"]), z)

address_add(t, a) ==
  LET Fits(i) == {j \in 1..Len(t.query) : t.ns[i].ns = a.owner /\ dns_domain_suffix(t.query[j].owner, t.ns[i].owner)}
      Found == [i \in 1..Len(t.ns) |-> [j \in Fits(i) |-> Ask(t.query[j], t.ns[i].owner, a.ip)]]
  IN IF Contains(t.address, a) THEN t
     ELSE [t EXCEPT !.address = Append(@, a), !.qt = Loops(@, Len(t.ns), Len(t.query), Found)]

----------------------------------------------------------------------------
(* parsepacket *)

typematch(r, type) == r.type = type \/ type = "ANY"
Good(s, n) == SubSeq(s, 1, IF n < 0 THEN 0 ELSE IF n < Len(s) THEN n ELSE Len(s))
Whole(p) == p.good >= Len(p.answer) + Len(p.authority)

flagout(p, q) == \E i \in 1..Len(p.answer) : p.answer[i].owner = q.owner /\ typematch(p.answer[i], q.type)
\* The CNAME records looked at are those of other names than the one asked
\* about; the last one counts.
Cnames(p, q) == {i \in 1..Len(p.answer) : p.answer[i].owner # q.owner /\ p.answer[i].type = "CNAME"}
cname(p, q) == p.answer[CHOOSE i \in Cnames(p, q) : \A j \in Cnames(p, q) : j <= i].data
flagsoa(p) == \E i \in 1..Len(p.authority) : p.authority[i].type = "SOA"
Refers(p) == {i \in 1..Len(p.authority) : p.authority[i].type = "NS"}
referral(p) == p.authority[CHOOSE i \in Refers(p) : \A j \in Refers(p) : j <= i].owner
Lame(p, q) ==
  /\ Cnames(p, q) = {} /\ p.rcode = 0 /\ ~flagout(p, q) /\ Refers(p) # {} /\ ~flagsoa(p)
  /\ referral(p) = q.control \/ ~dns_domain_suffix(referral(p), q.control)

\* The records of the server's own zone.
Learn(t, r, control) ==
  CASE ~dns_domain_suffix(r.owner, control) -> t
    [] dns_domain_suffix(r.owner, control) /\ r.type = "NS" -> ns_add(t, [owner |-> r.owner, ns |-> r.data])
    [] dns_domain_suffix(r.owner, control) /\ r.type \in {"A", "AAAA"} -> address_add(t, [owner |-> r.owner, ip |-> r.data])
    [] OTHER -> t
LearnAll(t, s, control) ==
  LET f[i \in 0..Len(s)] == IF i = 0 THEN t ELSE Learn(f[i - 1], s[i], control) IN f[Len(s)]

parsepacket(t, p, q) ==
  LET all == p.answer \o p.authority \o p.glue
      u == LearnAll(t, Good(all, p.good), q.control)
  IN CASE ~Whole(p) \/ p.rcode \notin {0, 3} -> t
       [] Whole(p) /\ p.rcode \in {0, 3} /\ Lame(p, q) -> t
       [] Whole(p) /\ p.rcode \in {0, 3} /\ ~Lame(p, q) /\ p.good < Len(all) -> u
       [] OTHER -> IF Cnames(p, q) = {} THEN u ELSE query_add(u, [owner |-> cname(p, q), type |-> q.type])

----------------------------------------------------------------------------
(* main *)

Empty == [query |-> << >>, ns |-> << >>, address |-> << >>, qt |-> << >>]
Started(q) ==
  LET f[i \in 0..Len(Roots)] ==
        IF i = 0 THEN ns_add(query_add(Empty, q), [owner |-> << >>, ns |-> << >>])
        ELSE address_add(f[i - 1], [owner |-> << >>, ip |-> Roots[i]])
  IN f[Len(Roots)]

TraceInit == \E q \in Asked : tab = Started(q) /\ next = 0

Special(t, q) ==
  LET u == IF q.owner = <<"localhost">> THEN address_add(t, [owner |-> q.owner, ip |-> Odd]) ELSE t
  IN IF q.owner \in DOMAIN IpOf THEN address_add(u, [owner |-> q.owner, ip |-> IpOf[q.owner]]) ELSE u

\* The next entry of qt is sent, and answered or not.
turn ==
  /\ next < Len(tab.qt) /\ next < MaxAsked /\ next' = next + 1
  /\ LET q == tab.qt[next + 1] IN
       \/ tab' = Special(tab, q)
       \/ \E p \in Packets : tab' = Special(parsepacket(tab, p, q), q)

TraceNext == turn
TraceSpec == TraceInit /\ [][TraceNext]_trace_vars

----------------------------------------------------------------------------
\* All that is to be asked: each question of each server, by each of its
\* addresses, of each zone that the name is in.
Paths(t) ==
  LET Index == {w \in (1..Len(t.query)) \X (1..Len(t.ns)) \X (1..Len(t.address)) :
                  /\ t.query[w[1]].owner # << >>
                  /\ dns_domain_suffix(t.query[w[1]].owner, t.ns[w[2]].owner)
                  /\ t.ns[w[2]].ns = t.address[w[3]].owner}
  IN {Ask(t.query[w[1]], t.ns[w[2]].owner, t.address[w[3]].ip) : w \in Index}

\* In whatever order questions, servers and addresses become known, qt is
\* what all of them together give, nothing missing and nothing twice, so
\* each path is walked once (query_add, ns_add, address_add).
TracesAll ==
  /\ ToSet(tab.qt) = Paths(tab)
  /\ \A i, j \in DOMAIN tab.qt : i # j => tab.qt[i] # tab.qt[j]
=============================================================================
