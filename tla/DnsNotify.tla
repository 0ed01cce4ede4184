----------------------------- MODULE DnsNotify -----------------------------
(* dns-notify: tells a slave that zones have changed, one zone after the     *)
(* other, and waits for a reply to each.  The alarm that ends a wait jumps   *)
(* back into SendPacket; it is not cancelled when a reply comes, so it may   *)
(* go off at any place until the next wait sets it anew.                     *)
(*                                                                           *)
(* Here -t is not 0, and a packet is the zone it is about.                   *)
EXTENDS Integers, Sequences

CONSTANTS
  ZoneArgs,    \* lists of zones
  TooLong,     \* zones whose packet has MAXPACK bytes or more
  NRetries,    \* option -r: 3
  MaxTry       \* bound on try

ASSUME NotifyAssumption ==
  /\ NRetries \in Nat /\ MaxTry \in Nat /\ MaxTry > NRetries
  /\ \A a \in ZoneArgs : Len(a) \in Nat /\ DOMAIN a = 1..Len(a)

VARIABLES
  argv, optind,      \* the zones and the number of the one in hand
  sock,              \* "bound" if option -s is given, otherwise "stdin"
  try, alarm, blocked,   \* SIGALRM is due; it is blocked
  place,             \* what main or SendPacket does next
  told,              \* how often each zone was sent
  said,              \* the last thing said about each zone
  early              \* the handler ran before the packet of its try was out

notify_vars == <<argv, optind, sock, try, alarm, blocked, place, told, said, early>>

NotifyInit ==
  /\ argv \in ZoneArgs /\ optind = 0 /\ sock \in {"bound", "stdin"}
  /\ try = 0 /\ alarm = FALSE /\ blocked = FALSE
  /\ place = "main" /\ early = FALSE
  /\ told = [i \in DOMAIN argv |-> 0] /\ said = [i \in DOMAIN argv |-> "nothing"]

Die(code) == /\ place' = code
             /\ UNCHANGED <<argv, optind, sock, try, alarm, blocked, told, said, early>>

\* The next zone, or the end.
MakeNotifyPacket ==
  /\ place = "main"
  /\ IF optind = Len(argv) THEN Die("exit0")
     ELSE IF argv[optind + 1] \in TooLong THEN Die("exit100")
     ELSE /\ optind' = optind + 1 /\ place' = "SendPacket"
          /\ UNCHANGED <<argv, sock, try, alarm, blocked, told, said, early>>

\* Mutant: the tries of the zone before count.
FirstTry_kept == IF try = 0 THEN 1 ELSE try
FirstTry == 1

\* gethostbyname and try = 1.
SendPacket ==
  /\ place = "SendPacket"
  /\ \/ Die("exit111")
     \/ /\ try' = FirstTry /\ place' = "sigsetjmp"
        /\ UNCHANGED <<argv, optind, sock, alarm, blocked, told, said, early>>

\* From sigsetjmp on, the first time and after each jump.
sigsetjmp ==
  /\ place = "sigsetjmp"
  /\ alarm' = TRUE
  /\ place' = IF try <= NRetries THEN "sendto" ELSE "giveup"
  /\ UNCHANGED <<argv, optind, sock, try, blocked, told, said, early>>

\* Without -s, the socket is the standard input.
sendto ==
  /\ place = "sendto"
  /\ \/ Die("exit111")
     \/ /\ sock = "bound"
        /\ told' = [told EXCEPT ![optind] = @ + 1] /\ place' = "recvfrom"
        /\ UNCHANGED <<argv, optind, sock, try, alarm, blocked, said, early>>

\* Any packet is a reply, from whomever and about whatever; or an error.
recvfrom ==
  /\ place = "recvfrom"
  /\ \/ Die("exit111")
     \/ /\ place' = "reply"
        /\ UNCHANGED <<argv, optind, sock, try, alarm, blocked, told, said, early>>

\* It is printed, or that there was none, and SendPacket returns.
return ==
  /\ place \in {"reply", "giveup"}
  /\ said' = [said EXCEPT ![optind] = place] /\ place' = "main"
  /\ UNCHANGED <<argv, optind, sock, try, alarm, blocked, told, early>>

\* sigsetjmp(env, 1): the jump restores the mask, the signal is not blocked after it.
Unblocked == TRUE

\* The jump; when SendPacket has returned, and is perhaps called again, it
\* leads nowhere, or into what now lies where its frame was.
timeout_handler ==
  /\ alarm /\ ~blocked /\ try < MaxTry
  /\ place \in {"main", "SendPacket", "sigsetjmp", "sendto", "recvfrom", "reply", "giveup"}
  /\ LET returned == place \in {"main", "SendPacket"} IN
       /\ early' = (early \/ returned \/ place \in {"sigsetjmp", "sendto"})
       /\ place' \in {"sigsetjmp"} \cup IF returned THEN {"crash"} ELSE {}
  /\ try' = try + 1 /\ alarm' = FALSE /\ blocked' = ~Unblocked
  /\ UNCHANGED <<argv, optind, sock, told, said>>

NotifyNext ==
  \/ MakeNotifyPacket \/ SendPacket \/ sigsetjmp \/ sendto \/ recvfrom \/ return
  \/ timeout_handler

NotifySpec == NotifyInit /\ [][NotifyNext]_notify_vars

----------------------------------------------------------------------------
(* Properties *)

\* No zone is sent more often than -r says, though try and the alarm outlive
\* the zone they belong to; one is given up only after as many, unless an
\* alarm came before the packet it is for was out; and the program never
\* waits without an alarm that will end the wait, after any number of jumps.
TellsEach ==
  /\ \A i \in DOMAIN told : /\ told[i] <= NRetries
                            /\ said[i] = "giveup" /\ ~early => told[i] = NRetries
  /\ place = "recvfrom" => alarm /\ ~blocked
=============================================================================
