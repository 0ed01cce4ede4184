------------------------------ MODULE Publish ------------------------------
(* How a change of the data reaches the servers.  On the master tinydns-edit *)
(* (or a person) changes data and tinydns-data compiles it into data.cdb;    *)
(* axfrdns sends the zone from data.cdb to axfr-get on a slave, which keeps  *)
(* it in the file fn.  Each program writes a temporary file, syncs it and    *)
(* renames it.  Processes may die between any two steps, connections break   *)
(* and machines crash.                                                       *)
(*                                                                           *)
(* A file has contents v, is durable or not, and whole or not: a file that   *)
(* is being written is not whole, and one that was not synced may not be     *)
(* after a crash.  A rename is atomic and lasting, as the programs take it   *)
(* to be.                                                                    *)
EXTENDS ZoneData

CONSTANTS Zone,         \* the zone transferred, in lower case
          ClientIp,     \* the slave's address
          FirstLines,   \* data to begin with
          Edits,        \* <<kind, target, ip>> given to tinydns-edit
          HandEdits,    \* runs of lines a person puts into data or takes out of it
          MaxEdits, MaxFaults, MaxNow

\* Name servers and mail exchangers of a name have names of their own, hosts
\* their own names and addresses.
Apart(l, m) == l.kind = m.kind =>
  /\ l.kind \in Lettered /\ low(l.fqdn) = low(m.fqdn) =>
       low(Completed(l, Middle(l.kind))) # low(Completed(m, Middle(l.kind)))
  /\ l.kind = "=" => low(l.fqdn) # low(m.fqdn) /\ l.ip # m.ip

\* Of lines that no person put in, no two clash.
Distinct(lines) ==
  LET own == {i \in DOMAIN lines : \A h \in HandEdits : lines[i] \notin ToSet(h)}
  IN \A i, j \in own : i < j => Apart(lines[i], lines[j])

IsSeq(s) == Len(s) \in Nat /\ s = [i \in 1..Len(s) |-> s[i]]

ASSUME PublishAssumption ==
  /\ IsSeq(FirstLines) /\ IsSeq(Letters) /\ \A h \in HandEdits : IsSeq(h)
  /\ Distinct(FirstLines)
  /\ \A e \in Edits : e[2] \in Seq(DOMAIN Lower)
  /\ \A l \in DOMAIN Lower : Lower[l] \in DOMAIN Lower /\ Lower[Lower[l]] = Lower[l]

VARIABLES disk,                          \* the files, None when they do not exist
          proc,                          \* the processes, None when they do not run
          now, lastmod, edits, faults    \* the time, that of the last modification of
                                         \* data, the modifications and faults so far

counters == <<now, lastmod, edits, faults>>
vars == <<disk, proc, counters>>

Master == {"data", "data.new", "data.tmp", "data.cdb"}
Slave == {"fn", "fn.tmp"}

\* of is a ghost: the data a file was made from.
NewFile(c) == [v |-> c, durable |-> FALSE, whole |-> TRUE, of |-> None]
Torn == [v |-> None, durable |-> FALSE, whole |-> FALSE, of |-> None]
Saved(c) == [v |-> c, durable |-> TRUE, whole |-> TRUE, of |-> None]
Put(f, file) == disk' = [disk EXCEPT ![f] = file]

Synced_not(f) == f   \* mutant: fsync is forgotten
Synced(f) == [f EXCEPT !.durable = TRUE]

At(p, pc) == proc[p] # None /\ proc[p].pc = pc
Goto(p, pc) == proc' = [proc EXCEPT ![p].pc = pc]
Exit(P) == proc' = [p \in DOMAIN proc |-> IF p \in P THEN None ELSE proc[p]]

\* The end of all three writers.
Fsync(p, tmp) ==
  /\ At(p, "fsync") /\ Goto(p, "rename")
  /\ disk' = [disk EXCEPT ![tmp] = Synced(@)]
  /\ UNCHANGED counters
Rename(p, tmp, fn) ==
  /\ At(p, "rename") /\ Exit({p})
  /\ disk' = [disk EXCEPT ![fn] = disk[tmp], ![tmp] = None]
  /\ UNCHANGED counters

Init ==
  /\ disk = [f \in Master \cup Slave |->
               IF f = "data" THEN Saved([lines |-> FirstLines, mtime |-> 1]) ELSE None]
  /\ proc = [p \in {"edit", "compile", "axfrdns", "get"} |-> None]
  /\ now = 1 /\ lastmod = 1 /\ edits = 0 /\ faults = 0

----------------------------------------------------------------------------
(* tinydns-edit *)

Lines == disk["data"].v.lines

edit_open == \E e \in Edits :
  /\ proc["edit"] = None /\ edits < MaxEdits
  /\ proc' = [proc EXCEPT !["edit"] = [pc |-> "put", lines |-> Lines, add |-> e]]
  /\ Put("data.new", Torn)
  /\ UNCHANGED counters

\* The lines are copied one by one and the new one is appended, or the
\* program stops and leaves data.new unfinished.
edit_put ==
  /\ At("edit", "put")
  /\ LET old == proc["edit"].lines
         kind == proc["edit"].add[1]  target == proc["edit"].add[2]  ip == proc["edit"].add[3]
     IN IF AlreadyUsed(old, kind, target, ip) \/ TooMany(old, kind, target)
        THEN Exit({"edit"}) /\ UNCHANGED <<disk, counters>>
        ELSE /\ now > lastmod   \* axfrdns.8: at most one modification per second
             /\ Put("data.new", NewFile([lines |-> Append(old, Added(old, kind, target, ip)), mtime |-> now]))
             /\ Goto("edit", "fsync")
             /\ lastmod' = now /\ edits' = edits + 1
             /\ UNCHANGED <<now, faults>>

edit_fsync == Fsync("edit", "data.new")
edit_rename == Rename("edit", "data.new", "data")

\* lines without the n after the first k
Without(lines, k, n) == [i \in 1..(Len(lines) - n) |-> lines[IF i <= k THEN i ELSE i + n]]

\* A person adds a run of lines to data or takes it out, and saves it properly.
hand_edit == \E h \in HandEdits :
  /\ edits < MaxEdits /\ now > lastmod
  /\ \E lines \in {Without(Lines, k, Len(h)) : k \in {j \in 0..(Len(Lines) - Len(h)) :
                                                 \A i \in DOMAIN h : Lines[j + i] = h[i]}}
                  \cup {Lines \o h : l \in {h[1]} \ ToSet(Lines)} :
       disk' = [disk EXCEPT !["data"] = Saved([lines |-> lines, mtime |-> now])]
  /\ lastmod' = now /\ edits' = edits + 1
  /\ UNCHANGED <<proc, now, faults>>

----------------------------------------------------------------------------
(* tinydns-data *)

\* make runs it when data has changed.
data_open ==
  /\ proc["compile"] = None
  /\ disk["data.cdb"] # None => disk["data.cdb"].of # disk["data"].v
  /\ proc' = [proc EXCEPT !["compile"] = [pc |-> "lines", of |-> disk["data"].v]]
  /\ Put("data.tmp", Torn)
  /\ UNCHANGED counters

\* A line that does not parse ends the program.
data_lines ==
  /\ At("compile", "lines") /\ UNCHANGED counters
  /\ LET of == proc["compile"].of
     IN IF \A i \in DOMAIN of.lines : Parses(of.lines[i])
        THEN /\ Goto("compile", "fsync")
             /\ disk' = [disk EXCEPT !["data.tmp"] =
                           [NewFile(Compiled(of.lines, of.mtime)) EXCEPT !.of = of]]
        ELSE Exit({"compile"}) /\ UNCHANGED disk

data_fsync == Fsync("compile", "data.tmp")
data_rename == Rename("compile", "data.tmp", "data.cdb")

----------------------------------------------------------------------------
(* axfr-get and axfrdns *)

Cdb == disk["data.cdb"].v
SerialOf(cdb, loc) == LET soas == Soas(cdb, Zone, loc, now)
                      IN IF soas = << >> THEN None ELSE soas[1].payload[1]

\* The serial number in the first line of fn, 0 without one.
Oldserial ==
  LET fn == disk["fn"]
  IN IF fn # None /\ fn.v # << >> /\ fn.v[1].kind = "#" THEN fn.v[1].num[1] ELSE 0

get_open ==
  /\ proc["get"] = None
  /\ proc' = [proc EXCEPT !["get"] = [pc |-> "soa", old |-> Oldserial, new |-> 0]]
  /\ UNCHANGED <<disk, counters>>

\* mutant: a slave that has no serial number yet is taken to be up to date
SkipTransfer_first(old, new) == new # 0 /\ (old = 0 \/ old = new)
SkipTransfer(old, new) == old # 0 /\ new # 0 /\ old = new

\* The SOA query and its answer, for which axfrdns takes data.cdb as it is.
\* Without an SOA record both programs stop.
get_soa ==
  /\ At("get", "soa") /\ UNCHANGED counters
  /\ LET new == IF disk["data.cdb"] = None THEN None
                ELSE SerialOf(Cdb, find_client_loc(Cdb, ClientIp))
     IN IF new = None \/ SkipTransfer(proc["get"].old, new)
        THEN Exit({"get"}) /\ UNCHANGED disk
        ELSE /\ proc' = [proc EXCEPT !["get"].pc = "axfr", !["get"].new = new]
             /\ Put("fn.tmp", Torn)

\* The AXFR query; axfrdns opens data.cdb for it.
get_axfr ==
  /\ At("get", "axfr")
  /\ proc' = [proc EXCEPT !["get"].pc = "recv",
                !["axfrdns"] = [pc |-> "loc", cdb |-> Cdb, loc |-> "", now |-> 0, out |-> << >>]]
  /\ UNCHANGED <<disk, counters>>

\* find_client_loc opens data.cdb once more, then the walk begins.
axfrdns_start ==
  /\ At("axfrdns", "loc") /\ UNCHANGED <<disk, counters>>
  /\ LET loc == find_client_loc(Cdb, ClientIp)
         cdb == proc["axfrdns"].cdb
     IN IF SerialOf(cdb, loc) = None
        THEN Exit({"axfrdns", "get"})
        ELSE proc' = [proc EXCEPT !["axfrdns"] = [pc |-> "send", cdb |-> cdb, loc |-> loc, now |-> now,
                                                   out |-> doaxfr(cdb, Zone, loc, now)]]

\* mutant: the serial number kept is that of the SOA query
SoaLines_asked(r) == <<SerialLine(proc["get"].new)>> \o Tail(LinesFor(r))
SoaLines(r) == LinesFor(r)

\* The lines made of message i: a record outside the zone is passed over,
\* and so is the second SOA record, which ends the transfer.
Received(msgs, i) ==
  CASE ~IsSuffix(Zone, msgs[i].name) -> << >>
    [] msgs[i].type = "SOA" -> SeqIf(\A j \in 1..(i - 1) : msgs[j].type # "SOA", SoaLines(msgs[i]))
    [] OTHER -> LinesFor(msgs[i])

\* The messages of the transfer, of which the first and the last are SOA
\* records, until all lines are written.  Nobody sees the program between two
\* of them; it may die instead.
get_records ==
  /\ At("get", "recv") /\ At("axfrdns", "send") /\ UNCHANGED counters
  /\ LET srv  == proc["axfrdns"]
         msgs == srv.out
         lines == FlattenSeq([i \in DOMAIN msgs |-> Received(msgs, i)])
     IN IF \E i \in DOMAIN msgs : Refused(msgs[i])
        THEN Exit({"get", "axfrdns"}) /\ UNCHANGED disk
        ELSE /\ proc' = [proc EXCEPT !["get"].pc = "fsync", !["axfrdns"] = None]
             /\ disk' = [disk EXCEPT !["fn.tmp"] =
                           [NewFile(lines) EXCEPT !.of = [cdb |-> srv.cdb, loc |-> srv.loc, now |-> srv.now]]]

get_fsync == Fsync("get", "fn.tmp")
get_rename == Rename("get", "fn.tmp", "fn")

----------------------------------------------------------------------------
(* Time and faults *)

Tick == now < MaxNow /\ now' = now + 1 /\ UNCHANGED <<disk, proc, lastmod, edits, faults>>

Fault == faults < MaxFaults /\ faults' = faults + 1 /\ UNCHANGED <<now, lastmod, edits>>

\* A process is killed, or one of its system calls fails.
die == \E P \in {{"edit"}, {"compile"}, {"axfrdns", "get"}} :
  /\ \E p \in P : proc[p] # None
  /\ Exit(P) /\ Fault /\ UNCHANGED disk

\* A machine crashes: what was not synced may be lost.
crash == \E m \in {Master, Slave} :
  /\ \E lost \in SUBSET {f \in m : disk[f] # None /\ ~disk[f].durable} :
       disk' = [f \in DOMAIN disk |-> IF f \in lost THEN Torn ELSE disk[f]]
  /\ Exit({"axfrdns", "get"} \cup IF m = Master THEN {"edit", "compile"} ELSE {})
  /\ Fault

edit_step == edit_put \/ edit_fsync \/ edit_rename
data_step == data_lines \/ data_fsync \/ data_rename
transfer_step == get_soa \/ get_axfr \/ axfrdns_start \/ get_records \/ get_fsync \/ get_rename

Next == \/ edit_open \/ edit_step \/ hand_edit
        \/ data_open \/ data_step
        \/ get_open \/ transfer_step
        \/ Tick \/ die \/ crash

Spec == Init /\ [][Next]_vars

\* tinydns-data and axfr-get are run again and again (by make and cron), and
\* once they run they go on.
FairSpec == Spec /\ WF_vars(data_open \/ data_step) /\ WF_vars(get_open \/ transfer_step)

----------------------------------------------------------------------------
(* Properties *)

\* What readers can see is always complete, whatever dies or crashes: data,
\* data.cdb and the slave's fn never are a file that was only partly written.
PublishedWhole ==
  \A f \in {"data", "data.cdb", "fn"} : disk[f] # None => disk[f].whole

\* A record as it was sent: what the transfer leaves out is the time and the
\* location, and a record about to end has a TTL of two seconds.
AsSent(r) == [r EXCEPT !.lo = "", !.ttd = 0, !.ttl = build(r).ttl]

\* A record as the slave comes to have it: priority, weight and port of a
\* service record have changed places, since axfr-get writes them in the order
\* of the record (axfr-get.c:227-232) and tinydns-data reads the port first.
AsKept(r) ==
  LET p == r.payload
  IN [AsSent(r) EXCEPT !.payload = IF r.type = "SRV" THEN <<p[2], p[3], p[1]>> ELSE p]

\* The records that were visible to the slave when fn was made, SOA first.
SentFor(fn) ==
  LET of == fn.of
  IN <<Soas(of.cdb, Zone, of.loc, of.now)[1]>> \o Body(of.cdb, Zone, of.loc, of.now)

\* Compiled on the slave, a new fn gives the records that were visible to the
\* slave when they were sent, each as AsKept says, none lost, added or moved,
\* under the serial number of the SOA record among them.
RoundTrip ==
  [][ disk'["fn"] # disk["fn"] =>
        LET fn   == disk'["fn"]
            sent == SentFor(fn)
        IN /\ Compiled(fn.v, 0).rrs = [i \in DOMAIN sent |-> AsKept(sent[i])]
           /\ fn.v[1].num[1] = sent[1].payload[1] ]_vars

\* What axfr-get.8:29 and doc/ChangeLog:15 promise (the results "can be used
\* as input to tinydns-data", SRV records "in native format"): compiled on the
\* slave, fn gives the very records the master sent.  Not an invariant: see
\* README 5.2.
ServesAlike ==
  disk["fn"] # None =>
    LET sent == SentFor(disk["fn"])
    IN Compiled(disk["fn"].v, 0).rrs = [i \in DOMAIN sent |-> AsSent(sent[i])]

\* When axfr-get would skip the transfer because the serial numbers agree, fn
\* has every untimed record the master now has for it, and only records of
\* the master, although data.cdb may have been replaced during the transfer.
SkipIsSafe ==
  LET loc  == find_client_loc(Cdb, ClientIp)
      mine == {r \in ToSet(Cdb.rrs) : /\ IsSuffix(Zone, r.name) /\ r.lo \in {"", loc}
                                      /\ r.type = "SOA" => r.name = Zone}
      have == ToSet(Compiled(disk["fn"].v, 0).rrs)
  IN (disk["fn"] # None /\ disk["data.cdb"] # None /\ SkipTransfer(Oldserial, SerialOf(Cdb, loc))) =>
       /\ \A r \in mine : (r.ttd = 0 /\ r.type # "SOA") => AsKept(r) \in have
       /\ \A s \in have : \E r \in mine : AsKept(r) = s

\* Once nobody changes data any more, and if it can be compiled and sent (a
\* name server of a wildcard cannot), the slave ends up with the serial number
\* of the last change, although any program may have died and any machine
\* crashed on the way.
Converges ==
  (<>[] \A i \in DOMAIN Lines : Parses(Lines[i]) /\ (Lines[i].kind = "&" => Lines[i].fqdn[1] # "*")) =>
    <>[](Oldserial = defaultsoa(disk["data"].v.mtime)[1])

\* Lines tinydns-edit adds do not collide: name servers and mail exchangers
\* of a name get letters of their own, hosts their own names and addresses.
EditsDistinct == Distinct(Lines)
=============================================================================
