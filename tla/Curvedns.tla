------------------------------ MODULE Curvedns ------------------------------
(* curvedns: a forwarder that speaks DNSCurve to clients and plain DNS to    *)
(* the server behind it.  An event loop (libev) calls back for every socket  *)
(* that is ready and every timer that has run out; each query or connection  *)
(* is an entry with its sockets, its watchers and what is known of the       *)
(* client's packet.                                                          *)
(*                                                                           *)
(* What arrives is chosen when it is read.  Text stands for the contents of  *)
(* a message without its id; a box for one under a shared secret and a nonce.*)
(* Sizes count pieces of a TCP message.                                      *)
EXTENDS Integers, SecretCache

CONSTANTS Packets,          \* what clients send
          Ids,              \* transaction ids the forwarder picks
          Slots,            \* entries there is memory for
          Listener,         \* local addresses, each with a UDP and a TCP socket
          Environments,     \* settings of CURVEDNS_UDP_TRIES and _TCP_NUMBER
          RecvResults,      \* of recvfrom on the socket to the server
          AcceptResults,    \* of accept
          Sizes, BufferLen, \* lengths of TCP messages, and of the buffer
          MaxReady          \* events of one turn of the loop

VARIABLES proc,        \* how far main has come, its privileges and settings
          entries,     \* of the slots in use
          conns,       \* event_tcp_number_connections
          accepting,   \* listeners whose TCP watcher is active
          queue,       \* events of this turn not yet handled
          table,       \* the cache of shared secrets, None once it is freed
          zero,        \* the socket that has descriptor 0, "stdin" at first
          out          \* the response just sent, with the packet it is for

vars == <<proc, entries, conns, accepting, queue, table, zero, out>>

----------------------------------------------------------------------------
(* curvedns.c, ip.c: start *)

Clamp(x, lo, hi) == IF x > hi THEN hi ELSE IF x < lo THEN lo ELSE x
Setting(env, default, lo, hi) == IF env = None THEN default ELSE Clamp(env, lo, hi)

Starting(pc) == proc.pc = pc /\ UNCHANGED <<entries, conns, queue, zero, out>>
Die == proc' = [proc EXCEPT !.pc = "exit", !.open = {}] /\ UNCHANGED <<accepting, table>>

\* The sockets of one address after the other; if one fails all are closed.
ip_init ==
  /\ Starting("sockets")
  /\ \/ \E l \in Listener \ proc.open :
          /\ proc' = [proc EXCEPT !.open = @ \cup {l}]
          /\ UNCHANGED <<accepting, table>>
     \/ proc.open = Listener /\ proc' = [proc EXCEPT !.pc = "privileges"] /\ UNCHANGED <<accepting, table>>
     \/ Die

drop_privileges ==
  /\ Starting("privileges")
  /\ \/ proc' = [proc EXCEPT !.pc = "options", !.root = FALSE] /\ UNCHANGED <<accepting, table>>
     \/ Die

getenvoptions == \E env \in Environments :
  /\ Starting("options")
  /\ proc' = [proc EXCEPT !.pc = "init", !.tries = Setting(env.tries, 2, 1, 50),
                          !.maxconns = Setting(env.conns, 25, 1, 500)]
  /\ UNCHANGED <<accepting, table>>

\* One bucket for 25 secrets, within bounds, gives NrBuckets.
dnscurve_init == cache_init

\* event_init, then dnscurve_init.
init ==
  /\ Starting("init")
  /\ \/ proc' = [proc EXCEPT !.pc = "loop"] /\ accepting' = Listener /\ table' = dnscurve_init
     \/ Die

----------------------------------------------------------------------------
(* The event loop *)

Live == DOMAIN entries
Spare == Slots \ Live
Running == proc.pc \in {"loop", "stopping"}

Ready == (UNION {{<<e, w>> : w \in entries[e].active} : e \in Live})
         \cup {<<l, "accept">> : l \in accepting} \cup {<<l, "udp">> : l \in Listener}
         \cup {<<0, "hup">>, <<0, "term">>}

ev_poll ==
  /\ proc.pc = "loop" /\ queue = {}
  /\ \E n \in 1..MaxReady : \E Q \in kSubset(n, Ready) : queue' = Q
  /\ out' = None /\ UNCHANGED <<proc, entries, conns, accepting, table, zero>>

Events(e) == {<<e, w>> : w \in {"read", "write", "timer"}}
\* A watcher that is stopped loses its event.
Handled(ev, stopped) == queue' = (queue \ {ev}) \ stopped
Keep(e, rec) == entries' = [x \in Live \cup {e} |-> IF x = e THEN rec ELSE entries[x]]
Free(e) == entries' = [x \in Live \ {e} |-> entries[x]]

\* The lowest free descriptor is given to the next socket.
Opened(e, which) == zero' = IF zero = None THEN <<e, which>> ELSE zero
Closed(e) == zero' = IF zero # None /\ zero # "stdin" /\ zero[1] = e THEN None ELSE zero

MayAccept(now) == IF now = proc.maxconns THEN Listener ELSE accepting

\* event_cleanup_entry: watchers, sockets, count and memory.
Stopped(e) == Events(e)
event_cleanup_entry(e, ev) ==
  /\ Free(e) /\ Closed(e)
  /\ Handled(ev, Stopped(e))
  /\ IF entries[e].proto = "tcp"
     THEN conns' = conns - 1 /\ accepting' = MayAccept(conns)
     ELSE UNCHANGED <<conns, accepting>>

----------------------------------------------------------------------------
(* dnscurve.c *)

\* crypto_box_beforenm: what the server and the owner of a key share.
Secret(key) == <<"shared with", key>>
Secrets == {Secret(key) : key \in Key}

ASSUME CurvednsAssumption ==
  /\ \A p \in Packets : /\ p.format \in {"short", "reply", "plain", "stream", "txt"}
                        /\ p.opens \in BOOLEAN /\ p.rd \in BOOLEAN
                        /\ p.format \in {"stream", "txt"} => p.key \in Key
  /\ Slots \subseteq Nat /\ IsFiniteSet(Slots)
  /\ AcceptResults \subseteq {"ok", "again", "error"}
  /\ \A env \in Environments : env.conns # None => env.conns \in Int
  /\ None \notin Tables(Secrets)   \* a null pointer is no table

dnscurve_get_shared_secret(t, key) ==
  IF t = None THEN [table |-> t, secret |-> None]
  ELSE LET e == cache_get(t, key)
       IN IF e # 0 THEN [table |-> t, secret |-> t.value[e]]
          ELSE [table |-> cache_set(t, key, Secret(key)), secret |-> Secret(key)]

NoDns == [type |-> "non", srctxid |-> None, dsttxid |-> None, srcinsidetxid |-> None,
          secret |-> None, nonce |-> None, qname |-> None]

\* Whether the name holds a box and a key.
dnscurve_parse_query_name(p) == p.format = "txt"

\* What becomes of the packet: dns is what is kept of earlier ones of the
\* connection.  A box that cannot be opened is forwarded as it is.
dnscurve_analyze_query(dns, t, p) ==
  LET plain  == [dns EXCEPT !.type = "non", !.srctxid = p.id]
      got    == dnscurve_get_shared_secret(t, p.key)
      keyed  == [plain EXCEPT !.secret = got.secret]
      opens  == p.opens /\ got.secret = Secret(p.key)
      As(d, text, t2) == [ok |-> TRUE, dns |-> d, text |-> text, table |-> t2]
      Fail(t2) == [ok |-> FALSE, dns |-> plain, text |-> p.text, table |-> t2]
      txt    == dnscurve_parse_query_name(p)
  IN CASE p.format \in {"short", "reply"} -> Fail(t)
       [] p.format = "plain" -> As(plain, p.text, t)
       [] (p.format = "stream" \/ txt) /\ ~opens -> As(keyed, p.text, got.table)
       [] p.format = "stream" /\ opens ->
            As([keyed EXCEPT !.type = "stream", !.nonce = p.nonce, !.srctxid = p.inner.id], p.inner.text, got.table)
       [] txt /\ opens ->
            IF p.inner = None THEN Fail(got.table)
            ELSE As([keyed EXCEPT !.type = IF p.rd THEN "txt_rd" ELSE "txt", !.nonce = p.nonce,
                                  !.qname = p.qname, !.srcinsidetxid = p.inner.id], p.inner.text, got.table)

Box(dns, id, text) == [secret |-> dns.secret, nonce |-> dns.nonce, id |-> id, text |-> text]
Reply(id, rd, qname, text, box) == [id |-> id, rd |-> rd, qname |-> qname, text |-> text, box |-> box]

\* The id the client knows the query by.
RestoredId_source(dns) == dns.srctxid   \* mutant: the outer id in every format
RestoredId(dns) == IF dns.type \in {"non", "stream"} THEN dns.srctxid ELSE dns.srcinsidetxid

\* The reply, None if it does not fit.
dnscurve_reply_streamlined_query(dns, text, big) ==
  IF big THEN None ELSE Reply(None, None, None, None, Box(dns, RestoredId(dns), text))
dnscurve_reply_txt_query(dns, text, big) ==
  IF big THEN None
  ELSE Reply(dns.srctxid, dns.type = "txt_rd", dns.qname, None, Box(dns, RestoredId(dns), text))

dns_reply_query_tcp(dns, text, big) ==
  CASE dns.type = "non" -> Reply(RestoredId(dns), None, None, text, None)
    [] dns.type = "stream" -> dnscurve_reply_streamlined_query(dns, text, big)
    [] OTHER -> dnscurve_reply_txt_query(dns, text, big)
\* Over UDP it is sent at once; a failure of sendto is not noticed.
dns_reply_query_udp(dns, text, big) == dns_reply_query_tcp(dns, text, big)

\* What comes back, from the server or (target) not.
Answers(entry) ==
  [id : Ids \cup {None}, text : {entry.text}, whole : BOOLEAN, big : BOOLEAN, target : BOOLEAN]
FromTarget(a) == a.target
dns_analyze_reply_query(dns, a) == a.whole /\ a.id = dns.dsttxid

----------------------------------------------------------------------------
(* event_udp.c *)

dns_forward_query_udp(entry, id) ==
  [entry EXCEPT !.state = "int_writing", !.retries = @ + 1, !.dns.dsttxid = id, !.sock = TRUE,
                !.active = {"read", "timer"}]

event_udp_ext_cb == \E l \in Listener, p \in Packets \cup {None} :
  LET ev == <<l, "udp">>
      got == IF p = None THEN None ELSE dnscurve_analyze_query(NoDns, table, p)
  IN /\ Running /\ ev \in queue /\ Handled(ev, {})
     /\ out' = None /\ UNCHANGED <<proc, conns, accepting>>
     /\ IF p = None \/ proc.pc = "stopping"   \* nothing to receive, or no memory
        THEN UNCHANGED <<entries, table, zero>>
        ELSE /\ Spare # {}
             /\ table' = got.table
             /\ \/ \E id \in Ids :
                     /\ got.ok
                     /\ Keep(Min(Spare), dns_forward_query_udp([proto |-> "udp", state |-> "ext_reading", retries |-> 0, sock |-> FALSE,
                                                    active |-> {}, dns |-> got.dns, text |-> got.text, asked |-> p], id))
                     /\ Opened(Min(Spare), "int")
                \/ UNCHANGED <<entries, zero>>   \* not a query, no socket, or sendto failed

RetriesLeft(entry) == entry.retries < proc.tries

event_udp_timeout_cb == \E e \in Live :
  LET ev == <<e, "timer">>
      entry == entries[e]
  IN /\ Running /\ ev \in queue /\ entry.proto = "udp"
     /\ out' = None /\ UNCHANGED <<proc, table>>
     /\ \/ event_cleanup_entry(e, ev)
        \/ \E id \in Ids :
             /\ entry.state = "int_writing" /\ RetriesLeft(entry)
             /\ Handled(ev, Events(e)) /\ Keep(e, dns_forward_query_udp(entry, id))
             /\ Opened(e, "int") /\ UNCHANGED <<conns, accepting>>

event_udp_int_cb == \E e \in Live, r \in RecvResults :
  LET ev == <<e, "read">>
      entry == entries[e]
  IN /\ Running /\ ev \in queue /\ entry.proto = "udp"
     /\ UNCHANGED <<proc, table>>
     /\ IF r = "none" /\ entry.state = "int_writing"
        THEN /\ Keep(e, [entry EXCEPT !.state = "int_reading", !.active = {}])
             /\ Handled(ev, Events(e)) /\ UNCHANGED <<conns, accepting, zero>> /\ out' = None
        ELSE /\ event_cleanup_entry(e, ev)
             /\ \E a \in Answers(entry) :
                  LET reply == dns_reply_query_udp(entry.dns, a.text, a.big)
                  IN out' = IF FromTarget(a) /\ dns_analyze_reply_query(entry.dns, a) /\ reply # None /\ proc.pc = "loop"
                            THEN [reply |-> reply, asked |-> entry.asked] ELSE None

----------------------------------------------------------------------------
(* event_tcp.c *)

StopsAccepting_own(now, l) == IF now >= proc.maxconns THEN accepting \ {l} ELSE accepting   \* mutant: only this listener
StopsAccepting(now, l) == IF now >= proc.maxconns THEN {} ELSE accepting

event_tcp_accept_cb == \E l \in Listener, r \in AcceptResults :
  LET ev == <<l, "accept">>
      e == Min(Spare)
  IN /\ Running /\ ev \in queue
     /\ out' = None /\ UNCHANGED <<proc, table>>
     /\ CASE r = "ok" /\ Spare # {} ->
            /\ conns' = conns + 1 /\ accepting' = StopsAccepting(conns + 1, l)
            /\ Handled(ev, {<<x, "accept">> : x \in accepting \ StopsAccepting(conns + 1, l)})
            /\ Opened(e, "ext")
            /\ Keep(e, [proto |-> "tcp", state |-> "reading_init", int |-> FALSE, at |-> 0, size |-> 0, sock |-> FALSE,
                        active |-> {"read", "timer"}, dns |-> NoDns, text |-> None, asked |-> None])
          [] r = "again" \/ (r = "ok" /\ Spare = {}) ->
            Handled(ev, {}) /\ UNCHANGED <<entries, conns, accepting, zero>>
          [] r = "error" ->   \* the entry counts as UDP, on descriptor 0
            Handled(ev, {}) /\ zero' = None /\ UNCHANGED <<entries, conns, accepting>>

event_tcp_timeout_cb == \E e \in Live :
  /\ Running /\ <<e, "timer">> \in queue /\ entries[e].proto = "tcp"
  /\ event_cleanup_entry(e, <<e, "timer">>)
  /\ out' = None /\ UNCHANGED <<proc, table>>

Again(e, rec, ev, stopped) ==
  Keep(e, rec) /\ Handled(ev, stopped) /\ UNCHANGED <<conns, accepting>>

\* sock is whether there is a socket to the server; int whether it is the
\* one the watchers are set on.
event_tcp_write_cb == \E e \in Live :
  LET ev == <<e, "write">>
      entry == entries[e]
      initial == entry.state = "writing_init"
      left == (IF initial THEN 2 ELSE entry.size) - entry.at
      Next_(n) == IF initial /\ n = left THEN [entry EXCEPT !.state = "writing_more", !.at = 0]
                  ELSE IF n < left THEN [entry EXCEPT !.at = @ + n]
                  ELSE [entry EXCEPT !.state = "reading_init", !.at = 0, !.size = 0, !.active = {"read", "timer"}]
  IN /\ Running /\ ev \in queue /\ entry.proto = "tcp"
     /\ out' = None /\ UNCHANGED <<proc, table>>
     /\ \/ /\ entry.at < BufferLen
           /\ \E n \in (IF left = 0 THEN {0} ELSE 1..left) :
                Again(e, Next_(n), ev, IF "write" \in Next_(n).active THEN {} ELSE {<<e, "write">>})
           /\ UNCHANGED zero
        \/ Handled(ev, {}) /\ UNCHANGED <<entries, conns, accepting, zero>>   \* EAGAIN
        \/ event_cleanup_entry(e, ev)

\* A part of a message, of its length at first.
read_part(e, ev) ==
  LET entry == entries[e]
      initial == entry.state = "reading_init"
      needed == (IF initial THEN 2 ELSE entry.size) - entry.at
  IN \/ \E n \in 1..(needed - 1) :
          Again(e, [entry EXCEPT !.at = @ + n], ev, {}) /\ UNCHANGED zero
     \/ \E size \in Sizes :
          /\ initial /\ size <= BufferLen
          /\ Again(e, [entry EXCEPT !.at = 0, !.size = size, !.state = "reading_more"], ev, {})
          /\ UNCHANGED zero
     \/ Handled(ev, {}) /\ UNCHANGED <<entries, conns, accepting, zero>>   \* EAGAIN
     \/ event_cleanup_entry(e, ev)   \* end of file, an error, or too long a message

dns_forward_query_tcp(entry, got, id) ==
  [entry EXCEPT !.int = TRUE, !.sock = TRUE, !.dns = [got.dns EXCEPT !.dsttxid = id], !.text = got.text]

\* A whole query from the client.
read_query(e, ev, p) ==
  LET entry == entries[e]
      got == dnscurve_analyze_query(entry.dns, table, p)
  IN /\ entry.state = "reading_more" /\ ~entry.int /\ entry.size > 0
     /\ table' = got.table
     /\ \/ \E id \in Ids :
             /\ got.ok
             /\ Again(e, [dns_forward_query_tcp(entry, got, id) EXCEPT
                             !.state = "writing_init", !.at = 0, !.active = {"write", "timer"}, !.asked = p], ev, Events(e))
             /\ Opened(e, "int")
        \/ event_cleanup_entry(e, ev)   \* not a query, or no connection

\* A whole answer from the server.
read_answer(e, ev) ==
  LET entry == entries[e]
  IN /\ entry.state = "reading_more" /\ entry.int /\ entry.size > 0
     /\ \E a \in Answers(entry) :
          LET reply == dns_reply_query_tcp(entry.dns, a.text, a.big)
          IN IF dns_analyze_reply_query(entry.dns, a) /\ reply # None
             THEN /\ out' = [reply |-> reply, asked |-> entry.asked]
                  /\ Again(e, [entry EXCEPT !.state = "writing_init", !.at = 0, !.int = FALSE, !.sock = FALSE,
                                            !.active = {"write", "timer"}, !.text = None, !.asked = None], ev, Events(e))
                  /\ zero' = IF zero # "stdin" /\ zero = <<e, "int">> THEN None ELSE zero
             ELSE event_cleanup_entry(e, ev) /\ out' = None

event_tcp_read_cb == \E e \in Live :
  LET ev == <<e, "read">>
  IN /\ Running /\ ev \in queue /\ entries[e].proto = "tcp" /\ entries[e].at < BufferLen
     /\ UNCHANGED proc
     /\ \/ read_part(e, ev) /\ out' = None /\ UNCHANGED table
        \/ \E p \in Packets : read_query(e, ev, p) /\ out' = None
        \/ read_answer(e, ev) /\ UNCHANGED table

----------------------------------------------------------------------------
(* event_main.c: signals *)

event_signal_cb == \E s \in {"hup", "term"} :
  LET ev == <<0, s>>
  IN /\ proc.pc = "loop" /\ ev \in queue /\ Handled(ev, {})
     /\ IF s = "hup" THEN table' = cache_empty(table) /\ UNCHANGED proc
        ELSE table' = None /\ proc' = [proc EXCEPT !.pc = "stopping", !.open = {}]
     /\ out' = None /\ UNCHANGED <<entries, conns, accepting, zero>>

\* The loop ends after this turn; entries that use what was freed may crash.
quit ==
  /\ proc.pc = "stopping"
  /\ queue = {} \/ \E ev \in queue : ev[2] = "read"
  /\ proc' = [proc EXCEPT !.pc = "exit"]
  /\ out' = None /\ UNCHANGED <<entries, conns, accepting, queue, table, zero>>

----------------------------------------------------------------------------

Init ==
  /\ proc = [pc |-> "sockets", root |-> TRUE, open |-> {}, tries |-> 2, maxconns |-> 25]
  /\ entries = << >> /\ conns = 0 /\ accepting = {} /\ queue = {}
  /\ table = None /\ zero = "stdin" /\ out = None

Next ==
  \/ ip_init \/ drop_privileges \/ getenvoptions \/ init
  \/ ev_poll \/ event_udp_ext_cb \/ event_udp_timeout_cb \/ event_udp_int_cb
  \/ event_tcp_accept_cb \/ event_tcp_timeout_cb \/ event_tcp_write_cb \/ event_tcp_read_cb
  \/ event_signal_cb \/ quit

Spec == Init /\ [][Next]_vars

----------------------------------------------------------------------------
(* Properties *)

Opens(p) == p.format \in {"stream", "txt"} /\ p.opens

\* Whoever asked can read the response: a plain query, or one in a box that
\* could not be opened, is answered under its own id; a streamlined one in a
\* box under the secret shared with its sender and its nonce, with the id
\* from inside its box; a TXT one also repeats its outer id, RD bit and name.
\* Connections ask several queries of different formats in turn, and ids are
\* replaced on the way to the server, at every retry.
AnswersAsker ==
  out # None =>
    LET p == out.asked
        box == [secret |-> Secret(p.key), nonce |-> p.nonce, id |-> p.inner.id, text |-> p.inner.text]
    IN out.reply = IF ~Opens(p) THEN Reply(p.id, None, None, p.text, None)
                   ELSE IF p.format = "stream" THEN Reply(None, None, None, None, box)
                   ELSE Reply(p.id, p.rd, p.qname, None, box)

\* A query whose recvfrom failed after both its watchers had been stopped
\* (event_udp.c:103-113): nothing calls back for it any more.
Abandoned(x) == x.proto = "udp" /\ x.state = "int_reading"

\* Whatever events one turn of the loop has, and whatever recvfrom and accept
\* say, while it runs: each entry is watched by a timer and by its socket, but
\* for those abandoned, of which no event is left; the socket to the server is
\* open exactly while it is waited for, no event is left of a watcher that was
\* stopped (its memory may be freed), the count of connections is that of the
\* TCP entries, and listeners accept, all of them, unless it is at its limit.
Accounted ==
  proc.pc = "loop" =>
    /\ ~proc.root /\ proc.open = Listener
    /\ conns = Cardinality({e \in Live : entries[e].proto = "tcp"})
    /\ accepting = IF conns >= proc.maxconns THEN {} ELSE Listener
    /\ \A e \in Live :
         /\ IF Abandoned(entries[e]) THEN entries[e].active = {}
            ELSE entries[e].active \in {{"read", "timer"}, {"write", "timer"}}
         /\ entries[e].sock = (entries[e].proto = "udp" \/ entries[e].int)
    /\ queue \subseteq Ready

\* What the comment at event_udp.c:111 says of a recvfrom that fails ("The
\* ready for reading event will again be triggered..."): every entry is still
\* called back, by its socket or at least by its timer.  Not an invariant: see
\* README 5.2.
AllWatched == proc.pc = "loop" => \A e \in Live : entries[e].active # {}

\* The table of shared secrets is sound, and holds for a key what the server
\* shares with its owner.
TableSound ==
  table # None => /\ Sound(table)
                  /\ \A e \in Entry : table.key[e] # None => table.value[e] = Secret(table.key[e])
=============================================================================
