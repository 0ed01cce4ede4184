--------------------------- MODULE TransmitProofs ---------------------------
(***************************************************************************)
(* Machine-checked safety of dns_transmit.c for every number of servers,   *)
(* every set of questions and ids, and every behaviour of the network.     *)
(***************************************************************************)
EXTENDS Transmit, TLAPS

QueryRec == [q : Question, id : Id]

\* What ties the parts together: the query under way is the question last
\* asked, and the socket belongs to a server of the list.
Consistent ==
  /\ query # None => query.q = asked.q
  /\ pc = "wait" => curserver \in servers
  /\ pc = "idle" => query = None /\ s1 = FALSE
  /\ pc # "idle" => query \in QueryRec
  /\ pc = "wait" /\ tcpstate = 1 => stream = << >>

IInv == TypeOK /\ Ownership /\ Consistent /\ AnswerFits /\ QueryWritten

\* Writing the next r bytes of the query extends what was written before.
LEMMA WriteMore ==
  ASSUME NEW p \in Nat, NEW r \in Nat
  PROVE  [k \in 1..p |-> k - 1] \o [k \in 1..r |-> p + k - 1] = [k \in 1..(p + r) |-> k - 1]
<1> DEFINE a == [k \in 1..p |-> k - 1]
           b == [k \in 1..r |-> p + k - 1]
           c == [k \in 1..(p + r) |-> k - 1]
<1>1. a \in Seq(Nat) /\ Len(a) = p /\ b \in Seq(Nat) /\ Len(b) = r
  OBVIOUS
<1>2. c \in Seq(Nat) /\ Len(c) = p + r
  OBVIOUS
<1>3. Len(a \o b) = p + r /\ a \o b \in Seq(Nat)
  BY <1>1
<1>4. ASSUME NEW k \in 1..(p + r)
      PROVE  (a \o b)[k] = c[k]
  BY <1>1, <1>4
<1> QED
  BY <1>2, <1>3, <1>4

LEMMA TransmitInit == Init => IInv
<1> SUFFICES ASSUME Init PROVE IInv
  OBVIOUS
<1>1. TypeOK
  <2>1. stream \in Seq(Nat)
    BY DEF Init
  <2>2. udptries \in [Slots -> Nat] /\ tcptries \in [Slots -> Nat]
    BY DEF Init
  <2>3. asked.n \in 0..MaxStarts /\ asked.q \in {None} \cup Question
    BY TransmitAssumption DEF Init
  <2>4. tcpstate \in 0..5 /\ udploop \in 0..ROUNDS /\ curserver \in 0..NSlots /\ pos \in Nat
    BY TransmitAssumption DEF Init, ROUNDS
  <2>5. servers \subseteq Slots /\ sent \subseteq [server : Slots, id : Id, q : Question]
    BY DEF Init
  <2> QED
    BY <2>1, <2>2, <2>3, <2>4, <2>5 DEF Init, TypeOK
<1>2. Ownership /\ Consistent /\ AnswerFits /\ QueryWritten
  BY DEF Init, Ownership, Consistent, AnswerFits, QueryWritten
<1> QED
  BY <1>1, <1>2 DEF IInv

\* Giving up releases everything.
LEMMA FailStep ==
  ASSUME IInv, NEW why \in {"exhausted", "resource"}, Fail(why), UNCHANGED history
  PROVE  IInv'
<1> USE DEF history, Fail, FreeAll
<1>1. TypeOK'
  BY DEF IInv, TypeOK
<1>2. Ownership' /\ Consistent' /\ AnswerFits' /\ QueryWritten'
  BY DEF Ownership, Consistent, AnswerFits, QueryWritten
<1> QED
  BY <1>1, <1>2 DEF IInv

\* Moving on to a server, by UDP or by TCP, closes the socket and frees the
\* buffer of an unfinished answer.
LEMMA MoveOn ==
  ASSUME IInv, pc = "wait", NEW slot \in 0..NSlots, UNCHANGED history,
         StartTcp(slot) \/ (tcpstate = 0 /\ StartUdp(slot))
  PROVE  IInv'
<1> USE DEF history, StartTcp, StartUdp
<1>1. TypeOK'
  BY DEF IInv, TypeOK
<1>2. Ownership'
  BY DEF IInv, Ownership, TypeOK
<1>3. Consistent' /\ AnswerFits' /\ QueryWritten'
  BY DEF IInv, Consistent, AnswerFits, QueryWritten, Ownership
<1> QED
  BY <1>1, <1>2, <1>3 DEF IInv

LEMMA NextSlot ==
  ASSUME IInv, pc = "wait"
  PROVE  curserver + 1 \in 0..NSlots
BY TransmitAssumption DEF IInv, Consistent, TypeOK, Slots

LEMMA StartStep ==
  ASSUME IInv, dns_transmit_start
  PROVE  IInv'
<1>0. PICK q \in Question, srv \in SUBSET Slots, flagrecursive \in BOOLEAN, usetcp \in BOOLEAN :
    /\ asked.n < MaxStarts
    /\ asked' = [n |-> asked.n + 1, q |-> q]
    /\ packet' = FALSE /\ s1' = FALSE
    /\ udptries' = [s \in Slots |-> 0] /\ tcptries' = [s \in Slots |-> 0]
    /\ answer' = None
    /\ \/ /\ query' = None /\ ret' = "resource" /\ pc' = "idle"
          /\ UNCHANGED <<servers, udploop, firstloop, curserver>>
       \/ /\ servers' = srv
          /\ \E i \in Id : query' = [q |-> q, id |-> i]
          /\ ret' = "none"
          /\ udploop' = IF flagrecursive THEN 1 ELSE 0
          /\ firstloop' = udploop'
          /\ curserver' = 0
          /\ pc' = IF usetcp THEN "tcp" ELSE "udp"
    /\ UNCHANGED <<packetlen, tcpstate, pos, sent, stream>>
  BY DEF dns_transmit_start
<1>1. asked'.n \in 0..MaxStarts /\ asked'.q = q
  BY <1>0, TransmitAssumption DEF IInv, TypeOK
<1>2. query' = None \/ (query' \in QueryRec /\ query'.q = q /\ query' # None)
  BY <1>0, TransmitAssumption DEF QueryRec
<1>3. query' \in {None} \cup [q : Question, id : Id]
  BY <1>2 DEF QueryRec
<1>a. udploop' \in 0..ROUNDS /\ curserver' \in 0..NSlots /\ firstloop' \in {0, 1}
  BY <1>0, TransmitAssumption DEF IInv, TypeOK, ROUNDS
<1>d. servers' \subseteq Slots
  BY <1>0 DEF IInv, TypeOK
<1>b. udptries' \in [Slots -> Nat] /\ tcptries' \in [Slots -> Nat]
  BY <1>0
<1>c. pc' \in {"idle", "udp", "tcp", "wait"} /\ ret' \in {"none", "answer", "exhausted", "resource"}
  BY <1>0
<1>4. TypeOK'
  BY <1>0, <1>1, <1>3, <1>a, <1>b, <1>c, <1>d DEF IInv, TypeOK
<1>5. Ownership' /\ Consistent'
  BY <1>0, <1>1, <1>2, TransmitAssumption DEF Ownership, Consistent, QueryRec
<1>6. AnswerFits' /\ QueryWritten'
  BY <1>0 DEF AnswerFits, QueryWritten
<1> QED
  BY <1>4, <1>5, <1>6 DEF IInv

LEMMA FreeStep ==
  ASSUME IInv, dns_transmit_free
  PROVE  IInv'
<1> USE DEF history, dns_transmit_free, FreeAll
<1>1. TypeOK'
  BY DEF IInv, TypeOK
<1>2. Ownership' /\ Consistent' /\ AnswerFits' /\ QueryWritten'
  BY DEF Ownership, Consistent, AnswerFits, QueryWritten
<1> QED
  BY <1>1, <1>2 DEF IInv

\* A new id for the same question.
LEMMA NewId ==
  ASSUME IInv, pc # "idle", NEW i \in Id, query' = [query EXCEPT !.id = i]
  PROVE  query' \in QueryRec /\ query'.q = query.q /\ query.q = asked.q /\ query' # None
         /\ query.q \in Question
<1>1. query \in QueryRec /\ query # None /\ query.q = asked.q
  BY TransmitAssumption DEF IInv, Consistent, QueryRec
<1>2. query' \in QueryRec /\ query'.q = query.q
  BY <1>1 DEF QueryRec
<1> QED
  BY <1>1, <1>2, TransmitAssumption DEF QueryRec

LEMMA LoopStep ==
  ASSUME IInv, Loops
  PROVE  IInv'
<1> USE DEF MoreSlots, Candidate, history
<1>1. CASE thisudp_resource
  BY <1>1, FailStep DEF thisudp_resource
<1>2. CASE thisudp_exhausted
  BY <1>2, FailStep DEF thisudp_exhausted
<1>3. CASE thistcp_resource
  BY <1>3, FailStep DEF thistcp_resource
<1>4. CASE thistcp_exhausted
  BY <1>4, FailStep DEF thistcp_exhausted
<1>5. CASE thisudp_skip \/ thistcp_skip
  <2>1. curserver' \in 0..NSlots
    BY <1>5, TransmitAssumption DEF thisudp_skip, thistcp_skip, IInv, TypeOK
  <2>2. TypeOK'
    BY <1>5, <2>1 DEF thisudp_skip, thistcp_skip, IInv, TypeOK
  <2>3. Ownership' /\ Consistent' /\ AnswerFits' /\ QueryWritten'
    BY <1>5 DEF thisudp_skip, thistcp_skip, IInv, Ownership, Consistent, AnswerFits, QueryWritten
  <2> QED
    BY <2>2, <2>3 DEF IInv
<1>6. CASE thisudp_round
  <2>1. udploop' \in 0..ROUNDS /\ curserver' \in 0..NSlots
    BY <1>6, TransmitAssumption DEF thisudp_round, RestartRound, NextRound, IInv, TypeOK, ROUNDS
  <2>2. TypeOK'
    BY <1>6, <2>1 DEF thisudp_round, IInv, TypeOK
  <2>3. Ownership' /\ Consistent' /\ AnswerFits' /\ QueryWritten'
    BY <1>6 DEF thisudp_round, IInv, Ownership, Consistent, AnswerFits, QueryWritten
  <2> QED
    BY <2>2, <2>3 DEF IInv
<1>7. CASE thisudp_send
  <2>1. PICK i \in Id :
          /\ pc = "udp" /\ curserver \in servers
          /\ query' = [query EXCEPT !.id = i]
          /\ udptries' = Tried(udptries)
          /\ \/ /\ s1' = TRUE
                /\ sent' = sent \cup {[server |-> curserver, id |-> i, q |-> query.q]}
                /\ tcpstate' = 0
                /\ pc' = "wait"
                /\ UNCHANGED curserver
             \/ /\ curserver' = curserver + 1
                /\ UNCHANGED <<s1, sent, tcpstate, pc>>
          /\ UNCHANGED <<packet, packetlen, udploop, pos, servers, ret, stream,
                         tcptries, firstloop, answer, asked>>
    BY <1>7 DEF thisudp_send
  <2>2. /\ query' \in QueryRec /\ query'.q = query.q /\ query.q = asked.q /\ query' # None
        /\ query.q \in Question
    BY <2>1, NewId
  <2>3. curserver \in Slots /\ curserver' \in 0..NSlots
    BY <2>1, TransmitAssumption DEF IInv, TypeOK, Slots
  <2>4. sent' \subseteq [server : Slots, id : Id, q : Question]
    BY <2>1, <2>2, <2>3 DEF IInv, TypeOK
  <2>5. udptries' \in [Slots -> Nat]
    BY <2>1, <2>3 DEF IInv, TypeOK, Tried
  <2>a. query' \in {None} \cup [q : Question, id : Id]
    BY <2>2 DEF QueryRec
  <2>b. s1' \in BOOLEAN
    BY <2>1 DEF IInv, TypeOK
  <2>c. tcpstate' \in 0..5
    BY <2>1 DEF IInv, TypeOK
  <2>6. pc' \in {"idle", "udp", "tcp", "wait"}
    BY <2>1
  <2>7. TypeOK'
    BY <2>1, <2>3, <2>4, <2>5, <2>6, <2>a, <2>b, <2>c DEF IInv, TypeOK
  <2>8. ret = "none" /\ packet = FALSE /\ s1 = FALSE
    BY <2>1 DEF IInv, Ownership, TypeOK
  <2>9. Ownership' /\ Consistent'
    <3>1. \/ s1' = TRUE /\ pc' = "wait" /\ tcpstate' # 5 /\ curserver' = curserver
          \/ s1' = FALSE /\ pc' = "udp"
      BY <2>1, <2>8
    <3>2. ret' = "none" /\ packet' = FALSE /\ asked' = asked /\ servers' = servers
      BY <2>1, <2>8
    <3>3. Ownership'
      BY <2>2, <3>1, <3>2 DEF Ownership
    <3>4. Consistent'
      BY <2>1, <2>2, <3>1, <3>2 DEF Consistent
    <3> QED
      BY <3>3, <3>4
  <2>10. AnswerFits' /\ QueryWritten'
    BY <2>1, <2>8 DEF AnswerFits, QueryWritten
  <2> QED
    BY <2>7, <2>9, <2>10 DEF IInv
<1>8. CASE thistcp_connect
  <2>1. PICK i \in Id :
          /\ pc = "tcp" /\ curserver \in servers
          /\ query' = [query EXCEPT !.id = i]
          /\ tcptries' = Tried(tcptries)
          /\ stream' = << >>
          /\ \/ /\ s1' = TRUE /\ pos' = 0 /\ tcpstate' = 2 /\ pc' = "wait"
                /\ UNCHANGED curserver
             \/ /\ s1' = TRUE /\ tcpstate' = 1 /\ pc' = "wait"
                /\ UNCHANGED <<curserver, pos>>
             \/ /\ curserver' = curserver + 1
                /\ UNCHANGED <<s1, pos, tcpstate, pc>>
          /\ UNCHANGED <<packet, packetlen, udploop, servers, ret, sent, udptries,
                         firstloop, answer, asked>>
    BY <1>8 DEF thistcp_connect, FirstByte
  <2>2. /\ query' \in QueryRec /\ query'.q = query.q /\ query.q = asked.q /\ query' # None
    BY <2>1, NewId
  <2>3. curserver \in Slots /\ curserver' \in 0..NSlots
    BY <2>1, TransmitAssumption DEF IInv, TypeOK, Slots
  <2>4. tcptries' \in [Slots -> Nat]
    BY <2>1, <2>3 DEF IInv, TypeOK, Tried
  <2>5. stream' \in Seq(Nat)
    BY <2>1
  <2>a. query' \in {None} \cup [q : Question, id : Id]
    BY <2>2 DEF QueryRec
  <2>b. s1' \in BOOLEAN
    BY <2>1 DEF IInv, TypeOK
  <2>c. tcpstate' \in 0..5 /\ pos' \in Nat
    BY <2>1 DEF IInv, TypeOK
  <2>6. pc' \in {"idle", "udp", "tcp", "wait"}
    BY <2>1
  <2>7. TypeOK'
    BY <2>1, <2>3, <2>4, <2>5, <2>6, <2>a, <2>b, <2>c DEF IInv, TypeOK
  <2>8. ret = "none" /\ packet = FALSE /\ s1 = FALSE
    BY <2>1 DEF IInv, Ownership, TypeOK
  <2>9. Ownership' /\ Consistent'
    <3>1. \/ s1' = TRUE /\ pc' = "wait" /\ tcpstate' # 5 /\ curserver' = curserver
          \/ s1' = FALSE /\ pc' = "tcp"
      BY <2>1, <2>8
    <3>2. ret' = "none" /\ packet' = FALSE /\ asked' = asked /\ servers' = servers
      BY <2>1, <2>8
    <3>3. Ownership'
      BY <2>2, <3>1, <3>2 DEF Ownership
    <3>4. Consistent'
      BY <2>1, <2>2, <3>1, <3>2 DEF Consistent
    <3> QED
      BY <3>3, <3>4
  <2>10. << >> = [k \in 1..0 |-> k - 1]
    OBVIOUS
  <2>11. AnswerFits' /\ QueryWritten'
    BY <2>1, <2>8, <2>10, TransmitAssumption DEF AnswerFits, QueryWritten
  <2> QED
    BY <2>7, <2>9, <2>11 DEF IInv
<1> QED
  BY <1>1, <1>2, <1>3, <1>4, <1>5, <1>6, <1>7, <1>8 DEF Loops

\* An accepted UDP answer carries the id of the query under way and its
\* question; everything else is dropped or moves on to another server.
LEMMA GetUdp ==
  ASSUME IInv, get_udp
  PROVE  IInv'
<1>0. PICK m \in sent, kind \in Kinds :
        /\ pc = "wait" /\ tcpstate = 0
        /\ ~irrelevant(m, kind)
        /\ \/ kind = "truncated" /\ firsttcp
           \/ kind = "failed" /\ udploop # 2 /\ nextudp
           \/ kind = "good" /\ Fail("resource") /\ UNCHANGED history
           \/ /\ s1' = FALSE /\ packet' = TRUE /\ query' = None
              /\ ret' = "answer" /\ answer' = m.q
              /\ pc' = "idle"
              /\ packetlen' \in PacketLens
              /\ UNCHANGED <<tcpstate, udploop, curserver, pos, servers, stream,
                             sent, udptries, tcptries, firstloop, asked>>
  BY DEF get_udp
<1>1. CASE kind = "truncated" /\ firsttcp
  BY <1>0, <1>1, MoveOn, TransmitAssumption DEF firsttcp
<1>2. CASE kind = "failed" /\ udploop # 2 /\ nextudp
  BY <1>0, <1>2, MoveOn, NextSlot DEF nextudp
<1>3. CASE kind = "good" /\ Fail("resource") /\ UNCHANGED history
  BY <1>3, FailStep
<1>4. CASE /\ s1' = FALSE /\ packet' = TRUE /\ query' = None
           /\ ret' = "answer" /\ answer' = m.q
           /\ pc' = "idle"
           /\ packetlen' \in PacketLens
           /\ UNCHANGED <<tcpstate, udploop, curserver, pos, servers, stream,
                          sent, udptries, tcptries, firstloop, asked>>
  <2>1. m.q = query.q /\ m.q \in Question
    BY <1>0 DEF irrelevant, IInv, TypeOK
  <2>2. query.q = asked.q
    BY <1>0 DEF IInv, Ownership, Consistent
  <2>3. TypeOK'
    BY <1>4, <2>1 DEF IInv, TypeOK
  <2>4. Ownership' /\ Consistent' /\ AnswerFits' /\ QueryWritten'
    BY <1>4, <2>1, <2>2 DEF Ownership, Consistent, AnswerFits, QueryWritten
  <2> QED
    BY <2>3, <2>4 DEF IInv
<1> QED
  BY <1>0, <1>1, <1>2, <1>3, <1>4

\* The steps of a TCP exchange keep pos, the bytes written and the buffer
\* in step with tcpstate.
LEMMA GetTcp ==
  ASSUME IInv, get_tcp1 \/ get_tcp2 \/ get_tcp3 \/ get_tcp4 \/ get_tcp5 \/ get_tcp5_done
  PROVE  IInv'
<1> USE DEF InTcp, KeepTcp, history
<1>0. /\ pc = "wait" /\ ret = "none" /\ s1 = TRUE /\ query # None /\ curserver \in servers
      /\ query.q = asked.q /\ query \in QueryRec /\ pos \in Nat
      /\ packet <=> tcpstate = 5
  BY DEF get_tcp1, get_tcp2, get_tcp3, get_tcp4, get_tcp5, get_tcp5_done,
         IInv, TypeOK, Ownership, Consistent
<1>1. CASE get_tcp1
  <2>1. TypeOK'
    BY <1>1 DEF get_tcp1, IInv, TypeOK
  <2>2. Ownership'
    BY <1>0, <1>1 DEF get_tcp1, Ownership
  <2>3. Consistent' /\ AnswerFits'
    BY <1>0, <1>1 DEF get_tcp1, Consistent, AnswerFits
  <2>4. stream = [k \in 1..0 |-> k - 1]
    BY <1>1 DEF get_tcp1, IInv, Consistent
  <2>5. QueryWritten'
    BY <1>1, <2>4, TransmitAssumption DEF get_tcp1, QueryWritten
  <2> QED
    BY <2>1, <2>2, <2>3, <2>5 DEF IInv
<1>2. CASE get_tcp2
  <2>1. PICK r \in 1..(QueryLen - pos) :
          /\ stream' = stream \o [k \in 1..r |-> pos + k - 1]
          /\ pos' = pos + r
          /\ tcpstate' = IF pos + r = QueryLen THEN 3 ELSE 2
    BY <1>2 DEF get_tcp2
  <2>2. /\ tcpstate = 2 /\ UNCHANGED <<packet, packetlen>> /\ KeepTcp
    BY <1>2 DEF get_tcp2
  <2>3. pos < QueryLen /\ stream = [k \in 1..pos |-> k - 1]
    BY <1>0, <2>2 DEF IInv, QueryWritten
  <2>4. r \in Nat /\ pos + r \in Nat /\ pos + r <= QueryLen
    BY <1>0, <2>1, TransmitAssumption
  <2>5. stream' = [k \in 1..(pos + r) |-> k - 1]
    BY <1>0, <2>1, <2>3, <2>4, WriteMore
  <2>6. stream' \in Seq(Nat)
    BY <2>4, <2>5
  <2>a. tcpstate' \in 0..5 /\ pos' \in Nat
    BY <2>1, <2>4
  <2>7. TypeOK'
    BY <2>2, <2>6, <2>a DEF IInv, TypeOK
  <2>8. Ownership'
    BY <1>0, <2>1, <2>2 DEF Ownership
  <2>9. Consistent' /\ AnswerFits'
    BY <1>0, <2>1, <2>2 DEF Consistent, AnswerFits
  <2>10. QueryWritten'
    <3>1. pc' = "wait"
      BY <1>0, <2>2
    <3>2. CASE pos + r = QueryLen
      <4>1. tcpstate' = 3
        BY <2>1, <3>2
      <4>2. stream' = [k \in 1..QueryLen |-> k - 1]
        BY <2>5, <3>2
      <4> QED
        BY <4>1, <4>2 DEF QueryWritten
    <3>3. CASE pos + r # QueryLen
      <4>1. tcpstate' = 2 /\ pos' < QueryLen
        BY <2>1, <2>4, <3>3, TransmitAssumption
      <4>2. stream' = [k \in 1..pos' |-> k - 1]
        BY <2>1, <2>5
      <4> QED
        BY <3>1, <4>1, <4>2 DEF QueryWritten
    <3> QED
      BY <3>2, <3>3
  <2> QED
    BY <2>7, <2>8, <2>9, <2>10 DEF IInv
<1>3. CASE get_tcp3
  <2>1. TypeOK'
    BY <1>3 DEF get_tcp3, IInv, TypeOK
  <2>2. Ownership'
    BY <1>0, <1>3 DEF get_tcp3, Ownership
  <2>3. Consistent' /\ AnswerFits' /\ QueryWritten'
    BY <1>0, <1>3 DEF get_tcp3, IInv, Consistent, AnswerFits, QueryWritten
  <2> QED
    BY <2>1, <2>2, <2>3 DEF IInv
<1>4. CASE get_tcp4
  <2>1. CASE tcpstate' = 5 /\ pos' = 0 /\ packet' = TRUE /\ UNCHANGED stream /\ KeepTcp
    <3>1. TypeOK'
      BY <1>4, <2>1 DEF get_tcp4, IInv, TypeOK
    <3>2. Ownership'
      BY <1>0, <2>1 DEF Ownership
    <3>3. Consistent' /\ AnswerFits' /\ QueryWritten'
      BY <1>0, <1>4, <2>1 DEF get_tcp4, IInv, Consistent, AnswerFits, QueryWritten
    <3> QED
      BY <3>1, <3>2, <3>3 DEF IInv
  <2>2. CASE /\ FreeAll /\ ret' = "resource" /\ pc' = "idle"
             /\ tcpstate' = 5 /\ pos' = 0
             /\ UNCHANGED <<udploop, curserver, servers, stream>>
             /\ UNCHANGED history
    <3>a. packetlen' \in PacketLens
      BY <1>4 DEF get_tcp4
    <3>b. query' = None /\ s1' \in BOOLEAN /\ packet' \in BOOLEAN
      BY <2>2 DEF FreeAll
    <3>c. pc' \in {"idle", "udp", "tcp", "wait"} /\ ret' \in {"none", "answer", "exhausted", "resource"}
      BY <2>2
    <3>d. tcpstate' \in 0..5 /\ pos' \in Nat
      BY <2>2
    <3>1. TypeOK'
      BY <2>2, <3>a, <3>b, <3>c, <3>d DEF IInv, TypeOK
    <3>2. Ownership' /\ Consistent' /\ AnswerFits' /\ QueryWritten'
      BY <2>2 DEF FreeAll, Ownership, Consistent, AnswerFits, QueryWritten
    <3> QED
      BY <3>1, <3>2 DEF IInv
  <2> QED
    BY <1>4, <2>1, <2>2 DEF get_tcp4
<1>5. CASE get_tcp5
  <2>1. PICK r \in 1..(packetlen - pos - 1) : pos' = pos + r
    BY <1>5 DEF get_tcp5
  <2>2. tcpstate = 5 /\ UNCHANGED <<packet, packetlen, tcpstate, stream>> /\ KeepTcp
    BY <1>5 DEF get_tcp5
  <2>3. pos' \in Nat
    BY <1>0, <2>1
  <2>4. TypeOK'
    BY <2>2, <2>3 DEF IInv, TypeOK
  <2>5. Ownership'
    BY <1>0, <2>2 DEF Ownership
  <2>6. Consistent' /\ AnswerFits' /\ QueryWritten'
    BY <1>0, <2>2 DEF IInv, Consistent, AnswerFits, QueryWritten
  <2> QED
    BY <2>4, <2>5, <2>6 DEF IInv
<1>6. CASE get_tcp5_done
  <2>1. CASE nexttcp
    BY <1>0, <2>1, MoveOn, NextSlot DEF nexttcp
  <2>2. CASE /\ s1' = FALSE /\ query' = None
             /\ pos' = packetlen
             /\ ret' = "answer" /\ answer' = query.q
             /\ pc' = "idle"
             /\ UNCHANGED <<packet, packetlen, tcpstate, udploop, curserver, servers, stream,
                            sent, udptries, tcptries, firstloop, asked>>
    <3>1. packetlen \in Nat /\ query.q \in Question
      BY <1>0, TransmitAssumption DEF IInv, TypeOK, QueryRec
    <3>2. TypeOK'
      BY <2>2, <3>1 DEF IInv, TypeOK
    <3>3. packet = TRUE
      BY <1>0, <1>6 DEF get_tcp5_done, IInv, TypeOK
    <3>4. Ownership' /\ Consistent' /\ AnswerFits' /\ QueryWritten'
      BY <1>0, <2>2, <3>3 DEF Ownership, Consistent, AnswerFits, QueryWritten
    <3> QED
      BY <3>2, <3>4 DEF IInv
  <2> QED
    BY <1>6, <2>1, <2>2 DEF get_tcp5_done
<1> QED
  BY <1>1, <1>2, <1>3, <1>4, <1>5, <1>6

LEMMA TransmitStep == IInv /\ [Next]_vars => IInv'
<1> SUFFICES ASSUME IInv, [Next]_vars PROVE IInv'
  OBVIOUS
<1>1. CASE dns_transmit_start
  BY <1>1, StartStep
<1>2. CASE dns_transmit_free
  BY <1>2, FreeStep
<1>3. CASE Loops
  BY <1>3, LoopStep
<1>4. CASE get_timeout
  BY <1>4, MoveOn, NextSlot DEF get_timeout, nextudp, nexttcp
<1>5. CASE get_udp_error
  BY <1>5, MoveOn, NextSlot DEF get_udp_error, nextudp
<1>6. CASE get_udp
  BY <1>6, GetUdp
<1>7. CASE get_tcp1 \/ get_tcp2 \/ get_tcp3 \/ get_tcp4 \/ get_tcp5 \/ get_tcp5_done
  BY <1>7, GetTcp
<1>8. CASE get_tcp_error
  BY <1>8, MoveOn, NextSlot DEF get_tcp_error, nexttcp
<1>9. CASE UNCHANGED vars
  BY <1>9 DEF vars, IInv, TypeOK, Ownership, Consistent, AnswerFits, QueryWritten
<1> QED
  BY <1>1, <1>2, <1>3, <1>4, <1>5, <1>6, <1>7, <1>8, <1>9 DEF Next, dns_transmit_get

LEMMA TransmitIInv == Spec => []IInv
BY TransmitInit, TransmitStep, PTL DEF Spec

\* Every variable of dns_transmit.c keeps its range; in particular a round
\* never looks at a server slot past the last.
THEOREM TransmitTypeOK == Spec => []TypeOK
BY TransmitIInv, PTL DEF IInv

\* The query, the socket and the packet buffer of dns_transmit.c exist
\* exactly while their state of the exchange needs them: no leak, no use
\* after free, on any path.
THEOREM TransmitOwnership == Spec => []Ownership
BY TransmitIInv, PTL DEF IInv

\* dns_transmit.c only accepts an answer about the question last asked,
\* whatever the network delivers late or twice.
THEOREM TransmitAnswerFits == Spec => []AnswerFits
BY TransmitIInv, PTL DEF IInv

\* Every TCP connection gets the query from its first byte to its last.
THEOREM TransmitQueryWritten == Spec => []QueryWritten
BY TransmitIInv, PTL DEF IInv

----------------------------------------------------------------------------
(* Every server gets its turns *)

\* Slot s has had its turn in this round.
Behind(s) == s < curserver \/ (pc = "wait" /\ s = curserver)
ByUdp == pc = "udp" \/ (pc = "wait" /\ tcpstate = 0)
ByTcp == pc = "tcp" \/ (pc = "wait" /\ tcpstate # 0)

\* By UDP a server has been tried once in every round so far, and by TCP
\* once at most.
UdpCount ==
  ByUdp =>
    /\ firstloop <= udploop
    /\ udploop = ROUNDS => pc = "udp" /\ curserver = 0
    /\ \A s \in servers : udptries[s] = (udploop - firstloop) + (IF Behind(s) THEN 1 ELSE 0)
    /\ \A s \in Slots \ servers : udptries[s] = 0
    /\ \A s \in Slots : tcptries[s] = 0
TcpCount ==
  ByTcp => \A s \in Slots : tcptries[s] = IF s \in servers /\ Behind(s) THEN 1 ELSE 0

FairInv == IInv /\ UdpCount /\ TcpCount /\ FairToServers

\* What the steps below need of the types.
LEMMA TurnFacts ==
  ASSUME IInv
  PROVE  /\ NSlots \in Nat \ {0} /\ Slots = 0..(NSlots - 1) /\ ROUNDS = 4
         /\ curserver \in 0..NSlots /\ udploop \in 0..4 /\ firstloop \in {0, 1}
         /\ servers \subseteq Slots /\ tcpstate \in 0..5
         /\ udptries \in [Slots -> Nat] /\ tcptries \in [Slots -> Nat]
         /\ pc = "wait" => curserver \in servers
         /\ ret # "none" => pc = "idle"
BY TransmitAssumption DEF IInv, TypeOK, Slots, ROUNDS, Consistent, Ownership

LEMMA FairInit == Init => FairInv
<1> SUFFICES ASSUME Init PROVE FairInv
  OBVIOUS
<1>1. IInv
  BY TransmitInit
<1>2. UdpCount /\ TcpCount
  BY DEF Init, UdpCount, TcpCount, ByUdp, ByTcp
<1>3. FairToServers
  BY DEF Init, FairToServers, ROUNDS
<1> QED
  BY <1>1, <1>2, <1>3 DEF FairInv

\* A step after which no server is being asked, and that counts nothing.
LEMMA FairIdle ==
  ASSUME FairInv, IInv', pc' = "idle", ret' # "exhausted",
         UNCHANGED <<udptries, tcptries, firstloop>>
  PROVE  FairInv'
<1>1. UdpCount' /\ TcpCount'
  BY DEF UdpCount, TcpCount, ByUdp, ByTcp
<1>2. FairToServers'
  BY DEF FairInv, FairToServers
<1> QED
  BY <1>1, <1>2 DEF FairInv

\* One that goes on waiting for the same server in the same way.
LEMMA FairWait ==
  ASSUME FairInv, IInv', pc = "wait", pc' = "wait", tcpstate # 0, tcpstate' # 0,
         UNCHANGED <<curserver, servers, udptries, tcptries, firstloop, ret>>
  PROVE  FairInv'
<1>1. UdpCount' /\ TcpCount'
  BY DEF FairInv, UdpCount, TcpCount, ByUdp, ByTcp, Behind
<1>2. FairToServers'
  BY DEF FairInv, FairToServers
<1> QED
  BY <1>1, <1>2 DEF FairInv

\* nextudp, nexttcp and firsttcp.
LEMMA FairMove ==
  ASSUME FairInv, IInv', pc = "wait",
         (nextudp /\ tcpstate = 0) \/ (nexttcp /\ tcpstate # 0) \/ (firsttcp /\ tcpstate = 0)
  PROVE  FairInv'
<1> USE DEF history
<1>0. IInv
  BY DEF FairInv
<1>t. /\ curserver \in Int /\ Slots \subseteq Int /\ servers \subseteq Slots
      /\ ret = "none" /\ udploop \in 0..4 /\ ROUNDS = 4
  <2>1. Slots \subseteq Int /\ curserver \in Int
    BY <1>0, TurnFacts
  <2>2. ret \in {"none", "answer", "exhausted", "resource"} /\ (ret # "none" => pc = "idle")
    BY <1>0 DEF IInv, TypeOK, Ownership
  <2> QED
    BY <1>0, <2>1, <2>2, TurnFacts
<1>1. CASE nextudp /\ tcpstate = 0
  <2>1. /\ curserver' = curserver + 1 /\ pc' = "udp" /\ ret' = "none"
        /\ UNCHANGED <<tcpstate, udploop, servers, udptries, tcptries, firstloop>>
    BY <1>1, <1>t DEF nextudp, StartUdp
  <2>2. \A s \in Slots : Behind(s)' <=> Behind(s)
    BY <1>t, <2>1 DEF Behind
  <2>3. UdpCount'
    BY <1>1, <1>t, <2>1, <2>2 DEF FairInv, UdpCount, ByUdp
  <2>4. TcpCount' /\ FairToServers'
    BY <2>1 DEF FairInv, TcpCount, ByTcp, FairToServers
  <2> QED
    BY <2>3, <2>4 DEF FairInv
<1>2. CASE nexttcp /\ tcpstate # 0
  <2>1. /\ curserver' = curserver + 1 /\ pc' = "tcp" /\ ret' = "none"
        /\ UNCHANGED <<tcpstate, udploop, servers, udptries, tcptries, firstloop>>
    BY <1>2, <1>t DEF nexttcp, StartTcp
  <2>2. \A s \in Slots : Behind(s)' <=> Behind(s)
    BY <1>t, <2>1 DEF Behind
  <2>3. TcpCount'
    BY <1>2, <2>1, <2>2 DEF FairInv, TcpCount, ByTcp
  <2>4. UdpCount' /\ FairToServers'
    BY <2>1 DEF FairInv, UdpCount, ByUdp, FairToServers
  <2> QED
    BY <2>3, <2>4 DEF FairInv
<1>3. CASE firsttcp /\ tcpstate = 0
  <2>1. /\ curserver' = 0 /\ pc' = "tcp" /\ ret' = "none"
        /\ UNCHANGED <<tcpstate, udploop, servers, udptries, tcptries, firstloop>>
    BY <1>3, <1>t DEF firsttcp, StartTcp
  <2>2. \A s \in Slots : ~Behind(s)'
    BY <1>0, <2>1, TurnFacts DEF Behind
  <2>3. \A s \in Slots : tcptries[s] = 0
    BY <1>3 DEF FairInv, UdpCount, ByUdp
  <2>4. TcpCount'
    BY <2>1, <2>2, <2>3 DEF TcpCount
  <2>5. UdpCount' /\ FairToServers'
    BY <2>1 DEF FairInv, UdpCount, ByUdp, FairToServers
  <2> QED
    BY <2>4, <2>5 DEF FairInv
<1> QED
  BY <1>1, <1>2, <1>3

LEMMA FairStart ==
  ASSUME FairInv, IInv', dns_transmit_start
  PROVE  FairInv'
<1>1. /\ udptries' = [s \in Slots |-> 0] /\ tcptries' = [s \in Slots |-> 0]
      /\ \/ ret' = "resource" /\ pc' = "idle" /\ firstloop' = firstloop
         \/ ret' = "none" /\ udploop' \in {0, 1} /\ firstloop' = udploop' /\ curserver' = 0
            /\ pc' \in {"tcp", "udp"}
  BY DEF dns_transmit_start
<1>2. servers' \subseteq Slots /\ firstloop' \in {0, 1}
  BY DEF IInv, TypeOK
<1>3. curserver' = 0 /\ pc' # "wait" => \A s \in Slots : ~Behind(s)'
  BY TransmitAssumption DEF Behind, Slots
<1>4. FairToServers'
  <2>1. \A s \in Slots : udptries'[s] = 0 /\ tcptries'[s] = 0
    BY <1>1
  <2>2. 0 <= ROUNDS - firstloop'
    <3>1. firstloop' = 0 \/ firstloop' = 1
      BY <1>2
    <3> QED
      BY <3>1 DEF ROUNDS
  <2>3. ret' # "exhausted"
    BY <1>1
  <2> QED
    BY <2>1, <2>2, <2>3 DEF FairToServers
<1>5. UdpCount' /\ TcpCount'
  BY <1>1, <1>2, <1>3 DEF UdpCount, TcpCount, ByUdp, ByTcp, ROUNDS
<1> QED
  BY <1>4, <1>5 DEF FairInv

LEMMA FairLoops ==
  ASSUME FairInv, IInv', Loops
  PROVE  FairInv'
<1> USE DEF history, MoreSlots, Candidate
<1>0. IInv
  BY DEF FairInv
<1>t. /\ curserver \in 0..NSlots /\ NSlots \in Nat /\ Slots = 0..(NSlots - 1)
      /\ servers \subseteq Slots
      /\ udploop \in 0..4 /\ firstloop \in {0, 1} /\ ROUNDS = 4
      /\ udptries \in [Slots -> Nat] /\ tcptries \in [Slots -> Nat]
  BY <1>0, TurnFacts
<1>r. pc # "idle" => ret = "none"
  BY <1>0 DEF IInv, TypeOK, Ownership
<1>1. CASE thisudp_resource \/ thistcp_resource
  BY <1>1, FairIdle DEF thisudp_resource, thistcp_resource, Fail
<1>2. CASE thisudp_send
  <2>1. /\ pc = "udp" /\ udploop < ROUNDS /\ curserver \in servers /\ ret' = "none"
        /\ udptries' = [udptries EXCEPT ![curserver] = udptries[curserver] + 1]
        /\ \/ tcpstate' = 0 /\ pc' = "wait" /\ curserver' = curserver
           \/ pc' = "udp" /\ curserver' = curserver + 1
        /\ UNCHANGED <<udploop, servers, tcptries, firstloop>>
    BY <1>2, <1>r DEF thisudp_send, Tried
  <2>2. \A s \in Slots : Behind(s)' <=> Behind(s) \/ s = curserver
    BY <1>t, <2>1 DEF Behind
  <2>3. ~Behind(curserver)
    BY <1>t, <2>1 DEF Behind
  <2>4. /\ udptries'[curserver] = udptries[curserver] + 1
        /\ \A s \in Slots : s # curserver => udptries'[s] = udptries[s]
    BY <1>t, <2>1
  <2>5. /\ firstloop <= udploop /\ curserver \in Slots
        /\ \A s \in servers : udptries[s] = (udploop - firstloop) + (IF Behind(s) THEN 1 ELSE 0)
        /\ \A s \in Slots \ servers : udptries[s] = 0
        /\ \A s \in Slots : tcptries[s] = 0
    BY <1>t, <2>1 DEF FairInv, UdpCount, ByUdp
  <2>6. \A s \in servers : udptries'[s] = (udploop - firstloop) + (IF Behind(s)' THEN 1 ELSE 0)
    <3> SUFFICES ASSUME NEW s \in servers
                 PROVE  udptries'[s] = (udploop - firstloop) + (IF Behind(s)' THEN 1 ELSE 0)
      OBVIOUS
    <3>1. CASE s = curserver
      <4>1. Behind(s)' /\ ~Behind(s)
        BY <2>2, <2>3, <2>5, <3>1
      <4>2. udptries'[s] = (udploop - firstloop) + 0 + 1
        BY <2>4, <2>5, <3>1, <4>1
      <4> QED
        BY <1>t, <4>1, <4>2
    <3>2. CASE s # curserver
      BY <1>t, <2>2, <2>4, <2>5, <3>2
    <3> QED
      BY <3>1, <3>2
  <2>7. UdpCount'
    BY <1>t, <2>1, <2>4, <2>5, <2>6 DEF UdpCount
  <2>8. TcpCount'
    BY <2>1 DEF TcpCount, ByTcp
  <2>9. FairToServers'
    <3>1. \A s \in Slots : udptries'[s] <= ROUNDS - firstloop
      <4>1. SUFFICES ASSUME NEW s \in Slots PROVE udptries'[s] <= ROUNDS - firstloop
        OBVIOUS
      <4>2. CASE s \in servers
        <5>1. udptries'[s] = udploop - firstloop \/ udptries'[s] = (udploop - firstloop) + 1
          BY <1>t, <2>6, <4>2
        <5> QED
          BY <1>t, <2>1, <5>1
      <4>3. CASE s \notin servers
        <5>1. udptries'[s] = 0
          BY <2>1, <2>4, <2>5, <4>3
        <5> QED
          BY <1>t, <5>1
      <4> QED
        BY <4>2, <4>3
    <3> QED
      BY <2>1, <2>5, <3>1 DEF FairToServers
  <2> QED
    BY <2>7, <2>8, <2>9 DEF FairInv
<1>3. CASE thisudp_skip
  <2>1. /\ pc = "udp" /\ curserver \notin servers /\ curserver' = curserver + 1
        /\ udploop < ROUNDS
        /\ UNCHANGED <<pc, udploop, servers, udptries, tcptries, firstloop, ret>>
    BY <1>3 DEF thisudp_skip
  <2>2. \A s \in servers : Behind(s)' <=> Behind(s)
    BY <1>t, <2>1 DEF Behind
  <2>3. UdpCount'
    BY <1>t, <2>1, <2>2 DEF FairInv, UdpCount, ByUdp
  <2>4. TcpCount' /\ FairToServers'
    BY <2>1 DEF FairInv, TcpCount, ByTcp, FairToServers
  <2> QED
    BY <2>3, <2>4 DEF FairInv
<1>4. CASE thisudp_round
  <2>1. /\ pc = "udp" /\ ~(curserver < NSlots) /\ curserver' = 0
        /\ udploop < ROUNDS /\ udploop' = udploop + 1
        /\ UNCHANGED <<pc, servers, udptries, tcptries, firstloop, ret>>
    BY <1>4 DEF thisudp_round, NextRound, RestartRound
  <2>2. \A s \in servers : Behind(s) /\ ~Behind(s)'
    BY <1>t, <2>1 DEF Behind
  <2>3. \A s \in servers : udptries[s] = (udploop - firstloop) + 1
    BY <2>1, <2>2 DEF FairInv, UdpCount, ByUdp
  <2>4. \A s \in servers : udptries'[s] = (udploop' - firstloop') + 0
    BY <1>t, <2>1, <2>3
  <2>5. UdpCount'
    BY <1>t, <2>1, <2>2, <2>4 DEF FairInv, UdpCount, ByUdp
  <2>6. TcpCount' /\ FairToServers'
    BY <2>1 DEF FairInv, TcpCount, ByTcp, FairToServers
  <2> QED
    BY <2>5, <2>6 DEF FairInv
<1>5. CASE thisudp_exhausted
  <2>1. /\ pc = "udp" /\ udploop = ROUNDS
        /\ pc' = "idle" /\ UNCHANGED <<servers, udptries, tcptries, firstloop>>
    BY <1>5, <1>t DEF thisudp_exhausted, Fail
  <2>2. \A s \in servers : ~Behind(s)
    BY <1>t, <2>1 DEF FairInv, UdpCount, ByUdp, Behind
  <2>3. \A s \in servers : udptries[s] = (udploop - firstloop) + 0
    BY <2>1, <2>2 DEF FairInv, UdpCount, ByUdp
  <2>4. \A s \in servers : udptries[s] = ROUNDS - firstloop
    BY <1>t, <2>1, <2>3
  <2>5. FairToServers'
    BY <2>1, <2>4 DEF FairInv, FairToServers
  <2> QED
    BY <2>1, <2>5 DEF FairInv, UdpCount, TcpCount, ByUdp, ByTcp
<1>6. CASE thistcp_connect
  <2>1. /\ pc = "tcp" /\ curserver \in servers /\ ret' = "none"
        /\ tcptries' = [tcptries EXCEPT ![curserver] = tcptries[curserver] + 1]
        /\ \/ tcpstate' \in {1, 2} /\ pc' = "wait" /\ curserver' = curserver
           \/ pc' = "tcp" /\ curserver' = curserver + 1
        /\ UNCHANGED <<servers, udptries, firstloop>>
    BY <1>6, <1>r DEF thistcp_connect, Tried
  <2>2. \A s \in Slots : Behind(s)' <=> Behind(s) \/ s = curserver
    BY <1>t, <2>1 DEF Behind
  <2>3. ~Behind(curserver) /\ curserver \in Slots
    BY <1>t, <2>1 DEF Behind
  <2>4. /\ tcptries'[curserver] = tcptries[curserver] + 1
        /\ \A s \in Slots : s # curserver => tcptries'[s] = tcptries[s]
    BY <1>t, <2>1
  <2>5. \A s \in Slots : tcptries[s] = IF s \in servers /\ Behind(s) THEN 1 ELSE 0
    BY <2>1 DEF FairInv, TcpCount, ByTcp
  <2>6. \A s \in Slots : tcptries'[s] = IF s \in servers /\ Behind(s)' THEN 1 ELSE 0
    <3> SUFFICES ASSUME NEW s \in Slots
                 PROVE  tcptries'[s] = IF s \in servers /\ Behind(s)' THEN 1 ELSE 0
      OBVIOUS
    <3>1. CASE s = curserver
      <4>1. Behind(s)' /\ s \in servers
        BY <2>1, <2>2, <3>1
      <4>2. tcptries[s] = 0
        BY <2>3, <2>5, <3>1
      <4> QED
        BY <2>4, <3>1, <4>1, <4>2
    <3>2. CASE s # curserver
      BY <2>2, <2>4, <2>5, <3>2
    <3> QED
      BY <3>1, <3>2
  <2>7. TcpCount'
    BY <2>1, <2>6 DEF TcpCount
  <2>8. UdpCount'
    BY <2>1 DEF UdpCount, ByUdp
  <2>9. FairToServers'
    <3>1. \A s \in Slots : tcptries'[s] <= 1
      BY <2>6
    <3> QED
      BY <2>1, <3>1 DEF FairInv, FairToServers
  <2> QED
    BY <2>7, <2>8, <2>9 DEF FairInv
<1>7. CASE thistcp_skip
  <2>1. /\ pc = "tcp" /\ curserver \notin servers /\ curserver' = curserver + 1
        /\ UNCHANGED <<pc, servers, udptries, tcptries, firstloop, ret>>
    BY <1>7 DEF thistcp_skip
  <2>2. \A s \in servers : Behind(s)' <=> Behind(s)
    BY <1>t, <2>1 DEF Behind
  <2>3. TcpCount'
    BY <2>1, <2>2 DEF FairInv, TcpCount, ByTcp
  <2>4. UdpCount' /\ FairToServers'
    BY <2>1 DEF FairInv, UdpCount, ByUdp, FairToServers
  <2> QED
    BY <2>3, <2>4 DEF FairInv
<1>8. CASE thistcp_exhausted
  <2>1. /\ pc = "tcp" /\ ~(curserver < NSlots)
        /\ pc' = "idle" /\ UNCHANGED <<servers, udptries, tcptries, firstloop>>
    BY <1>8 DEF thistcp_exhausted, Fail
  <2>2. \A s \in servers : Behind(s)
    BY <1>t, <2>1 DEF Behind
  <2>3. \A s \in servers : tcptries[s] = 1
    BY <1>t, <2>1, <2>2 DEF FairInv, TcpCount, ByTcp
  <2>4. FairToServers'
    BY <2>1, <2>3 DEF FairInv, FairToServers
  <2> QED
    BY <2>1, <2>4 DEF FairInv, UdpCount, TcpCount, ByUdp, ByTcp
<1> QED
  BY <1>1, <1>2, <1>3, <1>4, <1>5, <1>6, <1>7, <1>8 DEF Loops

LEMMA FairGet ==
  ASSUME FairInv, IInv', dns_transmit_get
  PROVE  FairInv'
<1> USE DEF history, InTcp, KeepTcp
<1>1. CASE get_timeout \/ get_udp_error \/ get_tcp_error
  <2>1. pc = "wait"
    BY <1>1 DEF get_timeout, get_udp_error, get_tcp_error
  <2>2. (nextudp /\ tcpstate = 0) \/ (nexttcp /\ tcpstate # 0) \/ (firsttcp /\ tcpstate = 0)
    BY <1>1 DEF get_timeout, get_udp_error, get_tcp_error
  <2> QED
    BY <2>1, <2>2, FairMove
<1>2. CASE get_udp
  <2>1. pc = "wait" /\ tcpstate = 0
    BY <1>2 DEF get_udp
  <2>2. \/ firsttcp \/ nextudp
        \/ pc' = "idle" /\ ret' # "exhausted" /\ UNCHANGED <<udptries, tcptries, firstloop>>
    BY <1>2 DEF get_udp, Fail
  <2>3. CASE firsttcp \/ nextudp
    BY <2>1, <2>3, FairMove
  <2> QED
    BY <2>2, <2>3, FairIdle
<1>3. CASE get_tcp1 \/ get_tcp2 \/ get_tcp3 \/ get_tcp5
  BY <1>3, FairWait DEF get_tcp1, get_tcp2, get_tcp3, get_tcp5
<1>4. CASE get_tcp4
  <2>1. /\ pc = "wait" /\ tcpstate = 4 /\ UNCHANGED <<udptries, tcptries, firstloop>>
        /\ \/ tcpstate' = 5 /\ pc' = "wait" /\ UNCHANGED <<curserver, servers, ret>>
           \/ ret' = "resource" /\ pc' = "idle"
    BY <1>4 DEF get_tcp4
  <2> QED
    BY <2>1, FairWait, FairIdle
<1>5. CASE get_tcp5_done
  <2>1. pc = "wait" /\ tcpstate = 5
    BY <1>5 DEF get_tcp5_done
  <2>2. \/ nexttcp
        \/ pc' = "idle" /\ ret' = "answer" /\ UNCHANGED <<udptries, tcptries, firstloop>>
    BY <1>5 DEF get_tcp5_done
  <2>3. CASE nexttcp
    BY <2>1, <2>3, FairMove
  <2> QED
    BY <2>2, <2>3, FairIdle
<1> QED
  BY <1>1, <1>2, <1>3, <1>4, <1>5 DEF dns_transmit_get

LEMMA FairStep == FairInv /\ [Next]_vars => FairInv'
<1> SUFFICES ASSUME FairInv, [Next]_vars PROVE FairInv'
  OBVIOUS
<1>0. IInv'
  BY TransmitStep DEF FairInv
<1>1. CASE dns_transmit_start
  BY <1>0, <1>1, FairStart
<1>2. CASE dns_transmit_free
  BY <1>0, <1>2, FairIdle DEF dns_transmit_free, history
<1>3. CASE Loops
  BY <1>0, <1>3, FairLoops
<1>4. CASE dns_transmit_get
  BY <1>0, <1>4, FairGet
<1>5. CASE UNCHANGED vars
  BY <1>0, <1>5 DEF vars, FairInv, UdpCount, TcpCount, ByUdp, ByTcp, Behind, FairToServers
<1> QED
  BY <1>1, <1>2, <1>3, <1>4, <1>5 DEF Next

\* dns_transmit.c gives up only after it has tried every server in each of
\* its rounds by UDP, or once by TCP, and never tries one more often.
THEOREM TransmitFairToServers == Spec => []FairToServers
BY FairInit, FairStep, PTL DEF Spec, FairInv
=============================================================================
