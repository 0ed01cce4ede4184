------------------------------ MODULE Transmit ------------------------------
(***************************************************************************)
(* dns_transmit.c: one question asked of up to 16 servers, by UDP with     *)
(* four rounds of retries, by TCP when the answer is truncated or the      *)
(* question is too long, until one usable answer is in hand.               *)
(*                                                                         *)
(* The loops of thisudp and thistcp run one candidate server per step      *)
(* (pc = "udp", "tcp"); in between (pc = "wait") the caller sleeps in      *)
(* iopause and calls dns_transmit_get.  The network delivers the answer to *)
(* any query ever sent, late, repeatedly or never, to whatever socket is   *)
(* then connected to that server: the worst case of random local ports.    *)
(* Deadlines are abstract: a wait may time out at any moment.              *)
(***************************************************************************)
EXTENDS Integers, Sequences

CONSTANTS
  NSlots,       \* server slots: 16
  Question,     \* what may be asked (name and type)
  Id,           \* query ids (65536 of them)
  QueryLen,     \* length of the query with its two length bytes
  PacketLens,   \* lengths a TCP answer may announce
  MaxStarts,    \* bound on the number of questions asked
  None

ASSUME TransmitAssumption ==
  /\ NSlots \in Nat \ {0} /\ QueryLen \in Nat \ {0} /\ MaxStarts \in Nat
  /\ PacketLens \subseteq Nat
  /\ None \notin Question /\ None \notin [q : Question, id : Id]

Slots == 0..(NSlots - 1)
ROUNDS == 4    \* length of timeouts[]

VARIABLES
  pc,         \* "idle", "udp" (in thisudp), "tcp" (in thistcp), "wait"
  query,      \* None, or the allocated query: its question and current id
  s1,         \* whether a socket is open
  packet,     \* whether the answer's buffer is allocated
  packetlen,
  tcpstate, udploop, curserver, pos,
  servers,    \* the slots that hold an address
  ret,        \* outcome: "none" yet, "answer" (1); and -1 after
              \* "exhausted" (no server left) or "resource" (no memory, no socket)
  \* history
  sent,       \* every UDP query sent: server, id, question
  stream,     \* the query bytes written to the current TCP connection
  udptries, tcptries,   \* attempts for this question, by server
  firstloop,  \* udploop at the start
  answer,     \* the question the accepted answer is about
  asked       \* the question of the latest dns_transmit_start, and their number

vars == <<pc, query, s1, packet, packetlen, tcpstate, udploop, curserver, pos,
          servers, ret, sent, stream, udptries, tcptries, firstloop, answer, asked>>
history == <<sent, udptries, tcptries, firstloop, answer, asked>>

Init == /\ pc = "idle" /\ query = None /\ s1 = FALSE /\ packet = FALSE
        /\ packetlen = 0 /\ tcpstate = 0 /\ udploop = 0 /\ curserver = 0 /\ pos = 0
        /\ servers = {} /\ ret = "none"
        /\ sent = {} /\ stream = << >>
        /\ udptries = [s \in Slots |-> 0] /\ tcptries = [s \in Slots |-> 0]
        /\ firstloop = 0 /\ answer = None
        /\ asked = [n |-> 0, q |-> None]

----------------------------------------------------------------------------
(* Releasing and moving on *)

\* dns_transmit_free
FreeAll == query' = None /\ s1' = FALSE /\ packet' = FALSE

\* dns_transmit_free; return -1
Fail(why) == /\ FreeAll
             /\ ret' = why
             /\ pc' = "idle"
             /\ UNCHANGED <<packetlen, tcpstate, udploop, curserver, pos, servers, stream>>

\* firstudp and nextudp: thisudp begins by closing the socket.
StartUdp(slot) ==
  /\ curserver' = slot
  /\ s1' = FALSE
  /\ pc' = "udp"
  /\ UNCHANGED <<query, packet, packetlen, tcpstate, udploop, pos, servers, ret, stream>>

\* mutant: the buffer of a half-read answer is kept
StartTcp_keepsPacket(slot) ==
  /\ curserver' = slot
  /\ s1' = FALSE
  /\ pc' = "tcp"
  /\ UNCHANGED <<query, packet, packetlen, tcpstate, udploop, pos, servers, ret, stream>>

\* firsttcp and nexttcp: thistcp begins by closing the socket and freeing
\* the packet.
StartTcp(slot) ==
  /\ curserver' = slot
  /\ s1' = FALSE /\ packet' = FALSE
  /\ pc' = "tcp"
  /\ UNCHANGED <<query, packetlen, tcpstate, udploop, pos, servers, ret, stream>>

nextudp == StartUdp(curserver + 1) /\ UNCHANGED history
firsttcp == StartTcp(0) /\ UNCHANGED history
nexttcp == StartTcp(curserver + 1) /\ UNCHANGED history

----------------------------------------------------------------------------
(* dns_transmit_start *)

\* An unfinished question may be abandoned for a new one.  The length of the
\* question and the type ANY decide for TCP (usetcp).
dns_transmit_start ==
  \E q \in Question, srv \in SUBSET Slots, flagrecursive, usetcp \in BOOLEAN :
    /\ pc \in {"idle", "wait"}
    /\ asked.n < MaxStarts
    /\ asked' = [n |-> asked.n + 1, q |-> q]
    /\ packet' = FALSE /\ s1' = FALSE
    /\ udptries' = [s \in Slots |-> 0] /\ tcptries' = [s \in Slots |-> 0]
    /\ answer' = None
    /\ \/ /\ query' = None /\ ret' = "resource" /\ pc' = "idle"   \* alloc fails
          /\ UNCHANGED <<servers, udploop, firstloop, curserver>>
       \/ /\ servers' = srv
          /\ \E i \in Id : query' = [q |-> q, id |-> i]
          /\ ret' = "none"
          /\ udploop' = IF flagrecursive THEN 1 ELSE 0
          /\ firstloop' = udploop'
          /\ curserver' = 0
          /\ pc' = IF usetcp THEN "tcp" ELSE "udp"
    /\ UNCHANGED <<packetlen, tcpstate, pos, sent, stream>>

\* The caller drops the question, or the answer it has used (query.c: cleanup).
dns_transmit_free ==
  /\ pc \in {"idle", "wait"}
  /\ FreeAll
  /\ ret' = "none"
  /\ pc' = "idle"
  /\ UNCHANGED <<packetlen, tcpstate, udploop, curserver, pos, servers, stream>>
  /\ UNCHANGED history

----------------------------------------------------------------------------
(* thisudp *)

Candidate == curserver \in servers
MoreSlots == curserver < NSlots
Tried(tries) == [tries EXCEPT ![curserver] = @ + 1]

thisudp_resource ==
  /\ pc = "udp" /\ udploop < ROUNDS /\ Candidate
  /\ Fail("resource")
  /\ UNCHANGED history

thisudp_send == \E i \in Id :
  /\ pc = "udp" /\ udploop < ROUNDS /\ Candidate
  /\ query' = [query EXCEPT !.id = i]
  /\ udptries' = Tried(udptries)
  /\ \/ /\ s1' = TRUE
        /\ sent' = sent \cup {[server |-> curserver, id |-> i, q |-> query.q]}
        /\ tcpstate' = 0
        /\ pc' = "wait"
        /\ UNCHANGED curserver
     \/ /\ curserver' = curserver + 1      \* connect or send failed
        /\ UNCHANGED <<s1, sent, tcpstate, pc>>
  /\ UNCHANGED <<packet, packetlen, udploop, pos, servers, ret, stream,
                 tcptries, firstloop, answer, asked>>

thisudp_skip ==
  /\ pc = "udp" /\ udploop < ROUNDS /\ MoreSlots /\ ~Candidate
  /\ curserver' = curserver + 1
  /\ UNCHANGED <<pc, query, s1, packet, packetlen, tcpstate, udploop, pos,
                 servers, ret, stream>>
  /\ UNCHANGED history

RestartRound_late == 1   \* mutant: a round begins at the second slot
RestartRound == 0
NextRound_same == udploop   \* mutant: the rounds are not counted
NextRound == udploop + 1

thisudp_round ==
  /\ pc = "udp" /\ udploop < ROUNDS /\ ~MoreSlots
  /\ udploop' = NextRound
  /\ curserver' = RestartRound
  /\ UNCHANGED <<pc, query, s1, packet, packetlen, tcpstate, pos, servers, ret, stream>>
  /\ UNCHANGED history

thisudp_exhausted ==
  /\ pc = "udp" /\ udploop >= ROUNDS
  /\ Fail("exhausted")
  /\ UNCHANGED history

----------------------------------------------------------------------------
(* thistcp *)

thistcp_resource ==
  /\ pc = "tcp" /\ Candidate
  /\ Fail("resource")
  /\ UNCHANGED history

\* Where writing begins on a connection that was made at once.
FirstByte_stale == pos   \* mutant: pos is left from an earlier connection
FirstByte == 0

thistcp_connect == \E i \in Id :
  /\ pc = "tcp" /\ Candidate
  /\ query' = [query EXCEPT !.id = i]
  /\ tcptries' = Tried(tcptries)
  /\ stream' = << >>
  /\ \/ /\ s1' = TRUE /\ pos' = FirstByte /\ tcpstate' = 2 /\ pc' = "wait"
        /\ UNCHANGED curserver
     \/ /\ s1' = TRUE /\ tcpstate' = 1 /\ pc' = "wait"    \* in progress
        /\ UNCHANGED <<curserver, pos>>
     \/ /\ curserver' = curserver + 1                     \* refused
        /\ UNCHANGED <<s1, pos, tcpstate, pc>>
  /\ UNCHANGED <<packet, packetlen, udploop, servers, ret, sent, udptries,
                 firstloop, answer, asked>>

thistcp_skip ==
  /\ pc = "tcp" /\ MoreSlots /\ ~Candidate
  /\ curserver' = curserver + 1
  /\ UNCHANGED <<pc, query, s1, packet, packetlen, tcpstate, udploop, pos,
                 servers, ret, stream>>
  /\ UNCHANGED history

thistcp_exhausted ==
  /\ pc = "tcp" /\ ~MoreSlots
  /\ Fail("exhausted")
  /\ UNCHANGED history

----------------------------------------------------------------------------
(* dns_transmit_get *)

\* No event by the deadline.
get_timeout ==
  /\ pc = "wait"
  /\ IF tcpstate = 0 THEN nextudp ELSE nexttcp

\* recv failed: refused by the server, or another error.
get_udp_error == \E connrefused \in BOOLEAN :
  /\ pc = "wait" /\ tcpstate = 0
  /\ ~(connrefused /\ udploop = 2)     \* else return 0
  /\ nextudp

Kinds == {"garbled", "truncated", "failed", "good"}

\* An answer to m, of that kind, is not for the question under way.
irrelevant_anyQuestion(m, kind) == kind = "garbled" \/ m.id # query.id   \* mutant
irrelevant(m, kind) == kind = "garbled" \/ m.id # query.id \/ m.q # query.q

\* A datagram that arrives on the socket connected to curserver.  What is
\* oversized, irrelevant, or a failure in round 2 is ignored.
get_udp == \E m \in sent, kind \in Kinds :
  /\ pc = "wait" /\ tcpstate = 0
  /\ m.server = curserver
  /\ ~irrelevant(m, kind)
  /\ \/ kind = "truncated" /\ firsttcp
     \/ kind = "failed" /\ udploop # 2 /\ nextudp
     \/ /\ kind = "good"                   \* copied: no memory left
        /\ Fail("resource")
        /\ UNCHANGED history
     \/ /\ kind = "good"
        /\ s1' = FALSE /\ packet' = TRUE /\ query' = None
        /\ ret' = "answer" /\ answer' = m.q
        /\ pc' = "idle"
        /\ packetlen' \in PacketLens
        /\ UNCHANGED <<tcpstate, udploop, curserver, pos, servers, stream,
                       sent, udptries, tcptries, firstloop, asked>>

InTcp(state) == pc = "wait" /\ tcpstate = state
KeepTcp == UNCHANGED <<pc, query, s1, udploop, curserver, servers, ret>> /\ UNCHANGED history

\* Connected; otherwise nexttcp, as after any error on the connection.
get_tcp1 == /\ InTcp(1)
            /\ pos' = 0 /\ tcpstate' = 2
            /\ UNCHANGED <<packet, packetlen, stream>> /\ KeepTcp

\* r more bytes of the query are written.
get_tcp2 == \E r \in 1..(QueryLen - pos) :
            /\ InTcp(2)
            /\ stream' = stream \o [k \in 1..r |-> pos + k - 1]
            /\ pos' = pos + r
            /\ tcpstate' = IF pos + r = QueryLen THEN 3 ELSE 2
            /\ UNCHANGED <<packet, packetlen>> /\ KeepTcp

\* The first byte of the answer's length.
get_tcp3 == /\ InTcp(3)
            /\ tcpstate' = 4
            /\ UNCHANGED <<packet, packetlen, pos, stream>> /\ KeepTcp

\* The second one, and the buffer.
get_tcp4 == \E n \in PacketLens :
            /\ InTcp(4)
            /\ packetlen' = n
            /\ \/ /\ tcpstate' = 5 /\ pos' = 0 /\ packet' = TRUE
                  /\ UNCHANGED stream /\ KeepTcp
               \/ /\ FreeAll /\ ret' = "resource" /\ pc' = "idle"
                  /\ tcpstate' = 5 /\ pos' = 0
                  /\ UNCHANGED <<udploop, curserver, servers, stream>>
                  /\ UNCHANGED history

\* r more bytes of the answer, not yet all.
get_tcp5 == \E r \in 1..(packetlen - pos - 1) :
            /\ InTcp(5)
            /\ pos' = pos + r
            /\ UNCHANGED <<packet, packetlen, tcpstate, stream>> /\ KeepTcp

\* The answer is complete: used, or given up for the next server.
get_tcp5_done == \E kind \in Kinds :
  /\ InTcp(5) /\ pos < packetlen
  /\ IF kind = "good"
     THEN /\ s1' = FALSE /\ query' = None
          /\ pos' = packetlen
          /\ ret' = "answer" /\ answer' = query.q
          /\ pc' = "idle"
          /\ UNCHANGED <<packet, packetlen, tcpstate, udploop, curserver, servers, stream,
                         sent, udptries, tcptries, firstloop, asked>>
     ELSE nexttcp

\* connect, write or read failed, or the connection was closed.
get_tcp_error == pc = "wait" /\ tcpstate # 0 /\ nexttcp

dns_transmit_get ==
  \/ get_timeout \/ get_udp_error \/ get_udp
  \/ get_tcp1 \/ get_tcp2 \/ get_tcp3 \/ get_tcp4 \/ get_tcp5 \/ get_tcp5_done
  \/ get_tcp_error

Loops ==
  \/ thisudp_resource \/ thisudp_send \/ thisudp_skip \/ thisudp_round \/ thisudp_exhausted
  \/ thistcp_resource \/ thistcp_connect \/ thistcp_skip \/ thistcp_exhausted

Next == dns_transmit_start \/ dns_transmit_free \/ Loops \/ dns_transmit_get

Spec == Init /\ [][Next]_vars

\* The loops run to their end.  A wait that no event ends is ended by its
\* deadline: iopause returns without events, dns_transmit_get sees the time.
\* (A socket that always has an event can postpone the deadline for ever,
\* because dns_transmit_get looks at the clock only when there is none.)
Fairness == WF_vars(Loops) /\ WF_vars(get_timeout)

FairSpec == Spec /\ Fairness

----------------------------------------------------------------------------
(* Properties *)

\* Every variable stays in its range; curserver goes past the slots by one.
TypeOK ==
  /\ pc \in {"idle", "udp", "tcp", "wait"}
  /\ query \in {None} \cup [q : Question, id : Id]
  /\ s1 \in BOOLEAN /\ packet \in BOOLEAN /\ packetlen \in {0} \cup PacketLens
  /\ tcpstate \in 0..5 /\ udploop \in 0..ROUNDS /\ curserver \in 0..NSlots
  /\ pos \in Nat
  /\ servers \subseteq Slots
  /\ ret \in {"none", "answer", "exhausted", "resource"}
  /\ sent \subseteq [server : Slots, id : Id, q : Question]
  /\ stream \in Seq(Nat)
  /\ udptries \in [Slots -> Nat] /\ tcptries \in [Slots -> Nat]
  /\ firstloop \in {0, 1}
  /\ answer \in {None} \cup Question
  /\ asked.n \in 0..MaxStarts /\ asked.q \in {None} \cup Question

\* Nothing leaks and nothing is used after it is freed, whichever way a
\* question ends: the query exists exactly while the question is open, the
\* socket exactly while the caller waits, and the buffer only while an
\* answer is being read over TCP or has been handed over.
Ownership ==
  /\ pc = "wait" <=> s1
  /\ pc # "idle" <=> query # None
  /\ packet <=> ret = "answer" \/ (pc = "wait" /\ tcpstate = 5)
  /\ ret # "none" => pc = "idle"

\* An accepted answer is about the question last asked, whatever late or
\* repeated answers to earlier questions and earlier tries arrive.
AnswerFits == ret = "answer" => answer = asked.q

\* In tcpstate 2 the connection has the first pos bytes of the query, and
\* from tcpstate 3 on all of it from the first byte, however often earlier
\* connections broke off half-way (doc/README.dnstransmit.bug).
QueryWritten ==
  pc = "wait" =>
    /\ tcpstate = 2 => pos < QueryLen /\ stream = [k \in 1..pos |-> k - 1]
    /\ tcpstate \in 3..5 => stream = [k \in 1..QueryLen |-> k - 1]

\* Giving up means that every server was tried in every round by UDP, or
\* once by TCP; and no server is ever tried more often than that.
FairToServers ==
  /\ \A s \in Slots : udptries[s] <= ROUNDS - firstloop /\ tcptries[s] <= 1
  /\ ret = "exhausted" =>
       \/ \A s \in servers : udptries[s] = ROUNDS - firstloop
       \/ \A s \in servers : tcptries[s] = 1

\* Every question ends: with an answer, a failure or by being dropped.
Terminates == pc # "idle" ~> pc = "idle"
=============================================================================
