------------------------------- MODULE MCDq -------------------------------
(* The root, com, a.com, in.com with a file of its own and a key, and a     *)
(* server whose name holds its key.                                         *)
EXTENDS DqQuery

MCName == {"root", "com", "a", "in", "uz5", "localhost", "rev", "v6"}
MCAbove == [n \in MCName |-> IF n \in {"a", "in", "uz5"} THEN {"root", "com", n} ELSE {"root", n}]
MCConfigured == {"root", "in"}
MCConfiguredAddr == [z \in MCConfigured |-> IF z = "root" THEN {"ip1", "ip2"} ELSE {"ip2"}]
MCConfiguredKey == [z \in MCConfigured |-> [a \in Addr |-> IF a = "ip2" THEN "k2" ELSE None]]
MCGlobalIp == [n \in {"localhost"} |-> "ip1"]
MCGlobalIp6 == [n \in {"localhost", "v6"} |-> "ip1"]
MCKeyOf == [n \in MCName |-> IF n = "uz5" THEN "k2" ELSE None]
MCKeyAt == [a \in Addr |-> IF a = "ip2" THEN "k2" ELSE None]

Record(owner, t, data) == [owner |-> owner, type |-> t, data |-> data]
MCRR == {Record("a", "A", "ip1"), Record("a", "CNAME", "in"), Record("com", "NS", "uz5"),
         Record("uz5", "A", "ip2"), Record("in", "NS", "localhost"), Record("com", "SOA", "soa")}

Finished == pc = "idle" /\ asked.n = MaxQueries /\ UNCHANGED dqvars
MCSpec == DqInit /\ [][DqNext \/ Finished]_dqvars
============================================================================
