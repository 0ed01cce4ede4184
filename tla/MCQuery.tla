------------------------------ MODULE MCQuery ------------------------------
(* The root, com, a.com, in.com with a file of its own in servers/,         *)
(* localhost and ipv6-localhost.                                            *)
EXTENDS Query

MCName == {"root", "com", "a", "in", "localhost", "ipv6"}
MCAbove == [n \in MCName |->
              CASE n \in {"a", "in"} -> {"root", "com", n} [] OTHER -> {"root", n}]
MCConfigured == {"root", "in"}
MCConfiguredAddr == [z \in MCConfigured |-> IF z = "root" THEN {"ip1"} ELSE {"ip2"}]
MCGlobalIp == [n \in {"localhost"} |-> "ip1"]
MCAddr == {"ip1", "ip2", "bad"}

Record(owner, t, data) == [owner |-> owner, type |-> t, data |-> data]
MCRR == {Record("a", "A", "ip1"), Record("a", "CNAME", "in"), Record("com", "NS", "a"),
         Record("a", "AAAA", "ip2"), Record("in", "NS", "localhost"),
         Record("com", "SOA", "soa"), Record("a", "A", "bad")}

\* The model stops only when all questions have been asked and answered.
Finished == pc = "idle" /\ asked.n = MaxQueries /\ UNCHANGED vars
FairSpec == Init /\ [][Next \/ Finished]_vars /\ Fairness
=============================================================================
