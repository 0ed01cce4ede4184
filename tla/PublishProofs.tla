--------------------------- MODULE PublishProofs ---------------------------
(***************************************************************************)
(* Machine-checked safety of the three writers (tinydns-edit, tinydns-data *)
(* and axfr-get): for every zone, every sequence of edits, any number of   *)
(* crashes and deaths of processes and any interleaving, the files that    *)
(* readers open are whole, and lines added by tinydns-edit do not clash.   *)
(* Last, dns-notify, which tells the slaves that a zone has changed: for   *)
(* every list of zones and number of tries.                                *)
(***************************************************************************)
EXTENDS Publish, DnsNotify, TLAPS, WellFoundedInduction

Files == Master \cup Slave
Procs == {"edit", "compile", "axfrdns", "get"}
Published == {"data", "data.cdb", "fn"}

\* A file has its flags, a process its program counter.
IsFile(f) == "durable" \in DOMAIN f /\ "whole" \in DOMAIN f
IsProc(r) == "pc" \in DOMAIN r

DiskOK == /\ disk = [f \in Files |-> disk[f]]
          /\ \A f \in Files : disk[f] # None => IsFile(disk[f])
ProcOK == /\ proc = [p \in Procs |-> proc[p]]
          /\ \A p \in Procs : proc[p] # None => IsProc(proc[p])

\* What is published is whole and survives a crash.
Whole(f) == IsFile(f) /\ f.whole = TRUE
Lasting(f) == Whole(f) /\ f.durable = TRUE
PublishedSafe == \A f \in Published : disk[f] # None => Lasting(disk[f])

\* A writer about to sync its file has written all of it, and one about to
\* rename it has synced it.
WriterSafe(p, tmp) == /\ At(p, "fsync") => Whole(disk[tmp])
                      /\ At(p, "rename") => Lasting(disk[tmp])
WritersSafe == /\ WriterSafe("edit", "data.new")
               /\ WriterSafe("compile", "data.tmp")
               /\ WriterSafe("get", "fn.tmp")

PubInv == DiskOK /\ ProcOK /\ PublishedSafe /\ WritersSafe

----------------------------------------------------------------------------
(* Writing a file and moving a process *)

LEMMA FileFacts ==
  /\ Files = {"data", "data.new", "data.tmp", "data.cdb", "fn", "fn.tmp"}
  /\ Published \subseteq Files
BY DEF Files, Master, Slave, Published

\* The kinds of file the programs make.
LEMMA MadeFiles ==
  ASSUME NEW c
  PROVE  /\ Whole(NewFile(c)) /\ Lasting(Saved(c)) /\ IsFile(Torn)
         /\ \A of : Whole([NewFile(c) EXCEPT !.of = of])
BY DEF Whole, Lasting, IsFile, NewFile, Saved, Torn

LEMMA SyncedFile ==
  ASSUME NEW f, Whole(f)
  PROVE  Lasting(Synced(f))
BY DEF Whole, Lasting, IsFile, Synced

LEMMA WriteFile ==
  ASSUME DiskOK, NEW t \in Files, NEW F, F # None => IsFile(F),
         disk' = [disk EXCEPT ![t] = F]
  PROVE  /\ DiskOK'
         /\ disk'[t] = F
         /\ \A f \in Files : f # t => disk'[f] = disk[f]
<1>1. /\ disk'[t] = F
      /\ \A f \in Files : f # t => disk'[f] = disk[f]
      /\ disk' = [f \in Files |-> disk'[f]]
  BY DEF DiskOK
<1> QED
  BY <1>1 DEF DiskOK

LEMMA MoveProc ==
  ASSUME ProcOK, NEW p \in Procs, NEW r, r # None => IsProc(r),
         proc' = [proc EXCEPT ![p] = r]
  PROVE  /\ ProcOK'
         /\ proc'[p] = r
         /\ \A q \in Procs : q # p => proc'[q] = proc[q]
<1>1. /\ proc'[p] = r
      /\ \A q \in Procs : q # p => proc'[q] = proc[q]
      /\ proc' = [q \in Procs |-> proc'[q]]
  BY DEF ProcOK
<1> QED
  BY <1>1 DEF ProcOK

LEMMA GotoProc ==
  ASSUME ProcOK, NEW p \in Procs, NEW at, proc[p] # None, Goto(p, at)
  PROVE  /\ ProcOK'
         /\ proc'[p].pc = at
         /\ \A q \in Procs : q # p => proc'[q] = proc[q]
<1> DEFINE r == [proc[p] EXCEPT !.pc = at]
<1>1. IsProc(r) /\ r.pc = at
  BY DEF ProcOK, IsProc
<1>2. proc' = [proc EXCEPT ![p] = r]
  BY DEF Goto
<1> HIDE DEF r
<1> QED
  BY <1>1, <1>2, MoveProc

LEMMA ExitProcs ==
  ASSUME ProcOK, NEW P, Exit(P)
  PROVE  /\ ProcOK'
         /\ \A p \in Procs : proc'[p] = IF p \in P THEN None ELSE proc[p]
<1>1. DOMAIN proc = Procs
  BY DEF ProcOK
<1>2. proc' = [p \in Procs |-> IF p \in P THEN None ELSE proc[p]]
  BY <1>1 DEF Exit
<1> QED
  BY <1>2 DEF ProcOK

\* A step that changes at most the processes, and moves no writer to its last
\* two steps.
LEMMA QuietStep ==
  ASSUME PubInv, ProcOK', disk' = disk,
         \A p \in {"edit", "compile", "get"} :
            \/ proc'[p] = proc[p] \/ proc'[p] = None
            \/ proc'[p].pc \notin {"fsync", "rename"}
  PROVE  PubInv'
BY DEF PubInv, DiskOK, PublishedSafe, WritersSafe, WriterSafe, At

----------------------------------------------------------------------------
(* The steps *)

LEMMA PubInit == Init => PubInv
<1> SUFFICES ASSUME Init PROVE PubInv
  OBVIOUS
<1> DEFINE first == Saved([lines |-> FirstLines, mtime |-> 1])
<1>1. disk = [f \in Files |-> IF f = "data" THEN first ELSE None]
  BY DEF Init, Files
<1>2. Lasting(first)
  BY MadeFiles
<1> HIDE DEF first
<1>3. DiskOK /\ PublishedSafe
  BY <1>1, <1>2, FileFacts DEF DiskOK, PublishedSafe, Lasting, Whole
<1>4. proc = [p \in Procs |-> None]
  BY DEF Init, Procs
<1>5. ProcOK /\ WritersSafe
  BY <1>4 DEF ProcOK, WritersSafe, WriterSafe, At, Procs
<1> QED
  BY <1>3, <1>5 DEF PubInv

\* Beginning a temporary file: it is not whole, and its writer is not at its
\* end.
LEMMA OpenTmp ==
  ASSUME PubInv, NEW p \in {"edit", "compile", "get"}, NEW tmp,
         <<p, tmp>> \in {<<"edit", "data.new">>, <<"compile", "data.tmp">>, <<"get", "fn.tmp">>},
         Put(tmp, Torn), ProcOK',
         proc'[p].pc \notin {"fsync", "rename"},
         \A q \in Procs : q # p => proc'[q] = proc[q]
  PROVE  PubInv'
<1>1. tmp \in Files /\ tmp \notin Published
  BY FileFacts DEF Published
<1>2. /\ DiskOK'
      /\ \A f \in Files : f # tmp => disk'[f] = disk[f]
  BY <1>1, WriteFile, MadeFiles DEF Put, PubInv
<1>3. PublishedSafe'
  BY <1>1, <1>2, FileFacts DEF PublishedSafe, PubInv
<1>4. WritersSafe'
  BY <1>2, FileFacts DEF WritersSafe, WriterSafe, At, PubInv, Procs
<1> QED
  BY <1>2, <1>3, <1>4 DEF PubInv

\* Finishing it: the writer goes on to sync it.
LEMMA FinishTmp ==
  ASSUME PubInv, NEW p \in {"edit", "compile", "get"}, NEW tmp, NEW F,
         <<p, tmp>> \in {<<"edit", "data.new">>, <<"compile", "data.tmp">>, <<"get", "fn.tmp">>},
         Put(tmp, F), Whole(F), ProcOK',
         proc'[p].pc = "fsync",
         \A q \in {"edit", "compile", "get"} : q # p => proc'[q] = proc[q]
  PROVE  PubInv'
<1>1. tmp \in Files /\ tmp \notin Published
  BY FileFacts DEF Published
<1>2. /\ DiskOK' /\ disk'[tmp] = F
      /\ \A f \in Files : f # tmp => disk'[f] = disk[f]
  BY <1>1, WriteFile DEF PubInv, Whole, Put
<1>3. PublishedSafe'
  BY <1>1, <1>2, FileFacts DEF PublishedSafe, PubInv
<1>4. WritersSafe'
  BY <1>2, FileFacts DEF WritersSafe, WriterSafe, At, PubInv
<1> QED
  BY <1>2, <1>3, <1>4 DEF PubInv

\* fsync makes a whole file lasting.
LEMMA FsyncStep ==
  ASSUME PubInv, NEW p \in {"edit", "compile", "get"}, NEW tmp,
         <<p, tmp>> \in {<<"edit", "data.new">>, <<"compile", "data.tmp">>, <<"get", "fn.tmp">>},
         Fsync(p, tmp)
  PROVE  PubInv'
<1>1. tmp \in Files /\ tmp \notin Published /\ p \in Procs
  BY FileFacts DEF Published, Procs
<1>2. /\ At(p, "fsync") /\ Goto(p, "rename")
      /\ disk' = [disk EXCEPT ![tmp] = Synced(disk[tmp])]
  BY DEF Fsync
<1>3. Lasting(Synced(disk[tmp]))
  BY <1>2, SyncedFile DEF PubInv, WritersSafe, WriterSafe
<1>4. /\ DiskOK' /\ Lasting(disk'[tmp])
      /\ \A f \in Files : f # tmp => disk'[f] = disk[f]
  BY <1>1, <1>2, <1>3, WriteFile DEF PubInv, Lasting, Whole
<1>5. /\ ProcOK' /\ proc'[p].pc = "rename"
      /\ \A q \in Procs : q # p => proc'[q] = proc[q]
  BY <1>1, <1>2, GotoProc DEF PubInv, At
<1>6. PublishedSafe'
  BY <1>1, <1>4, FileFacts DEF PublishedSafe, PubInv
<1>7. WritersSafe'
  BY <1>4, <1>5, FileFacts DEF WritersSafe, WriterSafe, At, PubInv, Procs
<1> QED
  BY <1>4, <1>5, <1>6, <1>7 DEF PubInv

\* rename publishes a file that is whole and lasting.
LEMMA RenameStep ==
  ASSUME PubInv, NEW p \in {"edit", "compile", "get"}, NEW tmp, NEW fn \in Published,
         <<p, tmp>> \in {<<"edit", "data.new">>, <<"compile", "data.tmp">>, <<"get", "fn.tmp">>},
         Rename(p, tmp, fn)
  PROVE  PubInv'
<1>1. tmp \in Files /\ tmp \notin Published /\ fn \in Files /\ p \in Procs
  BY FileFacts DEF Published, Procs
<1>2. /\ At(p, "rename") /\ Exit({p})
      /\ disk' = [disk EXCEPT ![fn] = disk[tmp], ![tmp] = None]
  BY DEF Rename
<1>3. Lasting(disk[tmp])
  BY <1>2 DEF PubInv, WritersSafe, WriterSafe
<1>4. /\ disk' = [f \in Files |-> disk'[f]]
      /\ disk'[fn] = disk[tmp] /\ disk'[tmp] = None
      /\ \A f \in Files : f # tmp /\ f # fn => disk'[f] = disk[f]
  BY <1>1, <1>2 DEF PubInv, DiskOK
<1>5. DiskOK' /\ PublishedSafe'
  BY <1>1, <1>3, <1>4, FileFacts DEF PubInv, DiskOK, PublishedSafe, Lasting, Whole
<1>6. /\ ProcOK' /\ proc'[p] = None
      /\ \A q \in Procs : q # p => proc'[q] = proc[q]
  BY <1>1, <1>2, ExitProcs DEF PubInv
<1>7. WritersSafe'
  BY <1>1, <1>4, <1>6, FileFacts DEF WritersSafe, WriterSafe, At, PubInv, Procs, Published
<1> QED
  BY <1>5, <1>6, <1>7 DEF PubInv

LEMMA EditSteps ==
  ASSUME PubInv, edit_open \/ edit_step \/ hand_edit
  PROVE  PubInv'
<1>1. CASE edit_open
  <2>1. PICK e \in Edits :
          proc' = [proc EXCEPT !["edit"] = [pc |-> "put", lines |-> Lines, add |-> e]]
    BY <1>1 DEF edit_open
  <2> DEFINE r == [pc |-> "put", lines |-> Lines, add |-> e]
  <2>2. proc' = [proc EXCEPT !["edit"] = r] /\ IsProc(r) /\ r.pc = "put"
    BY <2>1 DEF IsProc
  <2> HIDE DEF r
  <2>3. /\ ProcOK' /\ proc'["edit"].pc = "put"
        /\ \A q \in Procs : q # "edit" => proc'[q] = proc[q]
    BY <2>2, MoveProc DEF PubInv, Procs
  <2> QED
    BY <1>1, <2>3, OpenTmp DEF edit_open
<1>2. CASE edit_put
  <2>1. At("edit", "put") /\ proc["edit"] # None
    BY <1>2 DEF edit_put, At
  <2>2. CASE Exit({"edit"}) /\ UNCHANGED disk
    BY <2>2, ExitProcs, QuietStep DEF PubInv, Procs
  <2>3. CASE Goto("edit", "fsync") /\ \E c : Put("data.new", NewFile(c))
    <3>1. PICK c : disk' = [disk EXCEPT !["data.new"] = NewFile(c)]
      BY <2>3 DEF Put
    <3> DEFINE F == NewFile(c)
    <3>2. Whole(F) /\ Put("data.new", F)
      BY <3>1, MadeFiles DEF Put
    <3> HIDE DEF F
    <3>3. /\ ProcOK' /\ proc'["edit"].pc = "fsync"
          /\ \A q \in {"edit", "compile", "get"} : q # "edit" => proc'[q] = proc[q]
      BY <2>1, <2>3, GotoProc DEF PubInv, Procs
    <3> QED
      BY <3>2, <3>3, FinishTmp
  <2> QED
    BY <1>2, <2>2, <2>3 DEF edit_put
<1>3. CASE edit_fsync
  BY <1>3, FsyncStep DEF edit_fsync
<1>4. CASE edit_rename
  BY <1>4, RenameStep DEF edit_rename, Published
<1>5. CASE hand_edit
  <2>1. PICK c : disk' = [disk EXCEPT !["data"] = Saved(c)]
    BY <1>5 DEF hand_edit
  <2>2. Lasting(Saved(c))
    BY MadeFiles
  <2>3. /\ DiskOK' /\ Lasting(disk'["data"])
        /\ \A f \in Files : f # "data" => disk'[f] = disk[f]
    BY <2>1, <2>2, FileFacts, WriteFile DEF PubInv, Lasting, Whole
  <2>4. proc' = proc
    BY <1>5 DEF hand_edit
  <2>5. PublishedSafe'
    BY <2>3, FileFacts DEF PublishedSafe, PubInv
  <2>6. WritersSafe' /\ ProcOK'
    BY <2>3, <2>4, FileFacts DEF WritersSafe, WriterSafe, At, PubInv, ProcOK
  <2> QED
    BY <2>3, <2>5, <2>6 DEF PubInv
<1> QED
  BY <1>1, <1>2, <1>3, <1>4, <1>5 DEF edit_step

LEMMA DataSteps ==
  ASSUME PubInv, data_open \/ data_step
  PROVE  PubInv'
<1>1. CASE data_open
  <2> DEFINE r == [pc |-> "lines", of |-> disk["data"].v]
  <2>1. proc' = [proc EXCEPT !["compile"] = r] /\ IsProc(r) /\ r.pc = "lines"
    BY <1>1 DEF data_open, IsProc
  <2> HIDE DEF r
  <2>2. /\ ProcOK' /\ proc'["compile"].pc = "lines"
        /\ \A q \in Procs : q # "compile" => proc'[q] = proc[q]
    BY <2>1, MoveProc DEF PubInv, Procs
  <2> QED
    BY <1>1, <2>2, OpenTmp DEF data_open
<1>2. CASE data_lines
  <2>1. proc["compile"] # None
    BY <1>2 DEF data_lines, At
  <2>2. CASE Exit({"compile"}) /\ UNCHANGED disk
    BY <2>2, ExitProcs, QuietStep DEF PubInv, Procs
  <2>3. CASE /\ Goto("compile", "fsync")
             /\ \E c, of : disk' = [disk EXCEPT !["data.tmp"] = [NewFile(c) EXCEPT !.of = of]]
    <3>1. PICK c, of : disk' = [disk EXCEPT !["data.tmp"] = [NewFile(c) EXCEPT !.of = of]]
      BY <2>3
    <3> DEFINE F == [NewFile(c) EXCEPT !.of = of]
    <3>2. Whole(F) /\ Put("data.tmp", F)
      BY <3>1, MadeFiles DEF Put
    <3> HIDE DEF F
    <3>3. /\ ProcOK' /\ proc'["compile"].pc = "fsync"
          /\ \A q \in {"edit", "compile", "get"} : q # "compile" => proc'[q] = proc[q]
      BY <2>1, <2>3, GotoProc DEF PubInv, Procs
    <3> QED
      BY <3>2, <3>3, FinishTmp
  <2> QED
    BY <1>2, <2>2, <2>3 DEF data_lines
<1>3. CASE data_fsync
  BY <1>3, FsyncStep DEF data_fsync
<1>4. CASE data_rename
  BY <1>4, RenameStep DEF data_rename, Published
<1> QED
  BY <1>1, <1>2, <1>3, <1>4 DEF data_step

LEMMA TransferSteps ==
  ASSUME PubInv, get_open \/ transfer_step
  PROVE  PubInv'
<1>0. ProcOK
  BY DEF PubInv
<1>1. CASE get_open
  <2> DEFINE r == [pc |-> "soa", old |-> Oldserial, new |-> 0]
  <2>1. proc' = [proc EXCEPT !["get"] = r] /\ IsProc(r) /\ r.pc = "soa" /\ disk' = disk
    BY <1>1 DEF get_open, IsProc
  <2> HIDE DEF r
  <2>2. /\ ProcOK' /\ proc'["get"].pc = "soa"
        /\ \A q \in Procs : q # "get" => proc'[q] = proc[q]
    BY <1>0, <2>1, MoveProc DEF Procs
  <2> QED
    BY <2>1, <2>2, QuietStep DEF Procs
<1>2. CASE get_soa
  <2>1. At("get", "soa")
    BY <1>2 DEF get_soa
  <2>2. CASE Exit({"get"}) /\ UNCHANGED disk
    BY <1>0, <2>2, ExitProcs, QuietStep DEF Procs
  <2>3. CASE /\ \E new : proc' = [proc EXCEPT !["get"].pc = "axfr", !["get"].new = new]
             /\ Put("fn.tmp", Torn)
    <3>1. PICK new : proc' = [proc EXCEPT !["get"].pc = "axfr", !["get"].new = new]
      BY <2>3
    <3> DEFINE r == [[proc["get"] EXCEPT !.pc = "axfr"] EXCEPT !.new = new]
    <3>2. IsProc(r) /\ r.pc = "axfr"
      BY <1>0, <2>1 DEF ProcOK, IsProc, At, Procs
    <3>3. proc' = [proc EXCEPT !["get"] = r]
      BY <3>1
    <3> HIDE DEF r
    <3>4. /\ ProcOK' /\ proc'["get"].pc = "axfr"
          /\ \A q \in Procs : q # "get" => proc'[q] = proc[q]
      BY <1>0, <3>2, <3>3, MoveProc DEF Procs
    <3>5. Put("fn.tmp", Torn) /\ proc'["get"].pc \notin {"fsync", "rename"}
      BY <2>3, <3>4
    <3> QED
      BY <3>4, <3>5, OpenTmp
  <2> QED
    BY <1>2, <2>2, <2>3 DEF get_soa
<1>3. CASE get_axfr
  <2>1. At("get", "axfr") /\ disk' = disk
    BY <1>3 DEF get_axfr
  <2> DEFINE r == [proc["get"] EXCEPT !.pc = "recv"]
             s == [pc |-> "loc", cdb |-> Cdb, loc |-> "", now |-> 0, out |-> << >>]
  <2>2. IsProc(r) /\ r.pc = "recv" /\ IsProc(s)
    BY <1>0, <2>1 DEF ProcOK, IsProc, At, Procs
  <2>3. proc' = [[proc EXCEPT !["get"] = r] EXCEPT !["axfrdns"] = s]
    BY <1>3 DEF get_axfr
  <2> HIDE DEF r, s
  <2>4. /\ proc' = [q \in Procs |-> proc'[q]]
        /\ proc'["get"] = r /\ proc'["axfrdns"] = s
        /\ proc'["edit"] = proc["edit"] /\ proc'["compile"] = proc["compile"]
    BY <1>0, <2>3 DEF ProcOK, Procs
  <2>5. ProcOK'
    BY <1>0, <2>2, <2>4 DEF ProcOK, Procs
  <2> QED
    BY <2>1, <2>2, <2>4, <2>5, QuietStep
<1>4. CASE axfrdns_start
  <2>1. disk' = disk
    BY <1>4 DEF axfrdns_start
  <2>2. CASE Exit({"axfrdns", "get"})
    BY <1>0, <2>1, <2>2, ExitProcs, QuietStep DEF Procs
  <2>3. CASE \E r : IsProc(r) /\ proc' = [proc EXCEPT !["axfrdns"] = r]
    <3>1. PICK r : IsProc(r) /\ proc' = [proc EXCEPT !["axfrdns"] = r]
      BY <2>3
    <3>2. ProcOK' /\ \A q \in Procs : q # "axfrdns" => proc'[q] = proc[q]
      BY <1>0, <3>1, MoveProc DEF Procs
    <3> QED
      BY <2>1, <3>2, QuietStep DEF Procs
  <2>4. Exit({"axfrdns", "get"}) \/ \E r : IsProc(r) /\ proc' = [proc EXCEPT !["axfrdns"] = r]
    <3> DEFINE cdb == proc["axfrdns"].cdb
               loc == find_client_loc(Cdb, ClientIp)
               out == doaxfr(cdb, Zone, loc, now)
               r   == [pc |-> "send", cdb |-> cdb, loc |-> loc, now |-> now, out |-> out]
    <3>1. IsProc(r)
      BY DEF IsProc
    <3>2. Exit({"axfrdns", "get"}) \/ proc' = [proc EXCEPT !["axfrdns"] = r]
      BY <1>4 DEF axfrdns_start
    <3> HIDE DEF r
    <3> QED
      BY <3>1, <3>2
  <2> QED
    BY <2>2, <2>3, <2>4
<1>5. CASE get_records
  <2>1. At("get", "recv")
    BY <1>5 DEF get_records
  <2>2. CASE Exit({"get", "axfrdns"}) /\ UNCHANGED disk
    BY <1>0, <2>2, ExitProcs, QuietStep DEF Procs
  <2>3. CASE /\ proc' = [proc EXCEPT !["get"].pc = "fsync", !["axfrdns"] = None]
             /\ \E c, of : disk' = [disk EXCEPT !["fn.tmp"] = [NewFile(c) EXCEPT !.of = of]]
    <3>1. PICK c, of : disk' = [disk EXCEPT !["fn.tmp"] = [NewFile(c) EXCEPT !.of = of]]
      BY <2>3
    <3> DEFINE F == [NewFile(c) EXCEPT !.of = of]
               r == [proc["get"] EXCEPT !.pc = "fsync"]
    <3>2. Whole(F) /\ Put("fn.tmp", F)
      BY <3>1, MadeFiles DEF Put
    <3>3. IsProc(r) /\ r.pc = "fsync"
      BY <1>0, <2>1 DEF ProcOK, IsProc, At, Procs
    <3>4. proc' = [[proc EXCEPT !["get"] = r] EXCEPT !["axfrdns"] = None]
      BY <2>3
    <3> HIDE DEF F, r
    <3>5. /\ proc' = [q \in Procs |-> proc'[q]]
          /\ proc'["get"] = r /\ proc'["axfrdns"] = None
          /\ proc'["edit"] = proc["edit"] /\ proc'["compile"] = proc["compile"]
      BY <1>0, <3>4 DEF ProcOK, Procs
    <3>6. ProcOK'
      BY <1>0, <3>3, <3>5 DEF ProcOK, Procs
    <3> QED
      BY <3>2, <3>3, <3>5, <3>6, FinishTmp
  <2>4. \/ Exit({"get", "axfrdns"}) /\ UNCHANGED disk
        \/ /\ proc' = [proc EXCEPT !["get"].pc = "fsync", !["axfrdns"] = None]
           /\ \E c, of : disk' = [disk EXCEPT !["fn.tmp"] = [NewFile(c) EXCEPT !.of = of]]
    BY <1>5, Zenon DEF get_records
  <2> QED
    BY <2>2, <2>3, <2>4
<1>6. CASE get_fsync
  BY <1>6, FsyncStep DEF get_fsync
<1>7. CASE get_rename
  BY <1>7, RenameStep DEF get_rename, Published
<1> QED
  BY <1>1, <1>2, <1>3, <1>4, <1>5, <1>6, <1>7 DEF transfer_step

\* A process that dies leaves the files as they are; a machine that crashes
\* takes its processes with it and spares the files that were synced.
LEMMA FaultSteps ==
  ASSUME PubInv, die \/ crash
  PROVE  PubInv'
<1>0. ProcOK
  BY DEF PubInv
<1>1. CASE die
  <2>1. PICK P : Exit(P) /\ disk' = disk
    BY <1>1 DEF die
  <2> QED
    BY <1>0, <2>1, ExitProcs, QuietStep DEF Procs
<1>2. CASE crash
  <2>1. PICK m \in {Master, Slave} :
          /\ \E lost \in SUBSET {f \in m : disk[f] # None /\ ~disk[f].durable} :
               disk' = [f \in DOMAIN disk |-> IF f \in lost THEN Torn ELSE disk[f]]
          /\ Exit({"axfrdns", "get"} \cup IF m = Master THEN {"edit", "compile"} ELSE {})
    BY <1>2 DEF crash
  <2>2. PICK lost \in SUBSET {f \in m : disk[f] # None /\ ~disk[f].durable} :
          disk' = [f \in DOMAIN disk |-> IF f \in lost THEN Torn ELSE disk[f]]
    BY <2>1
  <2>3. /\ disk' = [f \in Files |-> IF f \in lost THEN Torn ELSE disk[f]]
        /\ \A f \in Files : disk'[f] = IF f \in lost THEN Torn ELSE disk[f]
    BY <2>2 DEF PubInv, DiskOK
  <2>4. DiskOK'
    BY <2>3, MadeFiles DEF PubInv, DiskOK
  <2>5. PublishedSafe'
    <3>1. \A f \in Published : f \notin lost
      BY <2>2 DEF PubInv, PublishedSafe, Lasting
    <3> QED
      BY <2>3, <3>1, FileFacts DEF PubInv, PublishedSafe
  <2>6. /\ ProcOK' /\ proc'["get"] = None
        /\ m = Master => proc'["edit"] = None /\ proc'["compile"] = None
        /\ m # Master => proc'["edit"] = proc["edit"] /\ proc'["compile"] = proc["compile"]
    <3>1. \A p \in Procs : proc'[p] = IF p \in {"axfrdns", "get"} \cup IF m = Master THEN {"edit", "compile"} ELSE {}
                                      THEN None ELSE proc[p]
      BY <1>0, <2>1, ExitProcs
    <3>2. ProcOK'
      BY <1>0, <2>1, ExitProcs
    <3> QED
      BY <3>1, <3>2 DEF Procs
  <2>7. WritersSafe'
    <3>1. CASE m = Master
      BY <2>6, <3>1 DEF WritersSafe, WriterSafe, At
    <3>2. CASE m # Master
      <4>1. "data.new" \notin lost /\ "data.tmp" \notin lost
        BY <2>1, <2>2, <3>2 DEF Slave
      <4>2. disk'["data.new"] = disk["data.new"] /\ disk'["data.tmp"] = disk["data.tmp"]
        BY <2>3, <4>1, FileFacts
      <4> QED
        BY <2>6, <3>2, <4>2 DEF PubInv, WritersSafe, WriterSafe, At
    <3> QED
      BY <3>1, <3>2
  <2> QED
    BY <2>4, <2>5, <2>6, <2>7 DEF PubInv
<1> QED
  BY <1>1, <1>2

LEMMA PubStep == PubInv /\ [Next]_vars => PubInv'
<1> SUFFICES ASSUME PubInv, [Next]_vars PROVE PubInv'
  OBVIOUS
<1>1. CASE Tick \/ UNCHANGED vars
  <2>1. disk' = disk /\ proc' = proc
    BY <1>1 DEF Tick, vars
  <2> QED
    BY <2>1, QuietStep DEF PubInv, ProcOK
<1> QED
  BY <1>1, EditSteps, DataSteps, TransferSteps, FaultSteps DEF Next

\* The files that readers open (data, data.cdb and the slave's
\* fn) are never one that was only partly written, however many edits,
\* transfers, deaths and crashes there are and in whatever order
\* (tinydns-edit.c:278-281, tinydns-data.c:615-618, axfr-get.c:405-408).
THEOREM PublishWhole == Spec => []PublishedWhole
<1>1. PubInv => PublishedWhole
  BY DEF PubInv, PublishedSafe, PublishedWhole, Published, Lasting, Whole
<1> QED
  BY <1>1, PubInit, PubStep, PTL DEF Spec

----------------------------------------------------------------------------
(* The lines that tinydns-edit adds *)

IsLines(s) == \E S : s \in Seq(S)
Good(s) == IsLines(s) /\ Distinct(s)

LEMMA LinesOf ==
  ASSUME NEW s, IsSeq(s)
  PROVE  IsLines(s)
<1> DEFINE S == {s[i] : i \in 1..Len(s)}
<1>1. Len(s) \in Nat /\ s = [i \in 1..Len(s) |-> s[i]]
  BY DEF IsSeq
<1>2. \A i \in 1..Len(s) : s[i] \in S
  OBVIOUS
<1> HIDE DEF S
<1>3. s \in Seq(S)
  <2>1. s \in [1..Len(s) -> S]
    BY <1>1, <1>2
  <2> QED
    BY <1>1, <2>1
<1> QED
  BY <1>3 DEF IsLines

LEMMA LinesFacts ==
  ASSUME NEW s, IsLines(s)
  PROVE  /\ Len(s) \in Nat /\ DOMAIN s = 1..Len(s) /\ s = [i \in 1..Len(s) |-> s[i]]
BY DEF IsLines

\* A line at the end clashes with none if it is apart from each.
LEMMA DistinctAppend ==
  ASSUME NEW s, Good(s), NEW l, \A i \in DOMAIN s : Apart(s[i], l)
  PROVE  Good(Append(s, l))
<1>1. PICK S : s \in Seq(S)
  BY DEF Good, IsLines
<1> DEFINE a == Append(s, l)
<1>2. s \in Seq(S \cup {l}) /\ a \in Seq(S \cup {l}) /\ Len(a) = Len(s) + 1 /\ Len(s) \in Nat /\ a[Len(s) + 1] = l
      /\ DOMAIN s = 1..Len(s) /\ DOMAIN a = 1..(Len(s) + 1) /\ \A i \in 1..Len(s) : a[i] = s[i]
  BY <1>1
<1> HIDE DEF a
<1>3. ASSUME NEW i \in DOMAIN a, NEW j \in DOMAIN a, i < j,
             \A h \in HandEdits : a[i] \notin ToSet(h), \A h \in HandEdits : a[j] \notin ToSet(h)
      PROVE  Apart(a[i], a[j])
  <2>1. i \in 1..Len(s) /\ a[i] = s[i]
    BY <1>2, <1>3
  <2>2. CASE j = Len(s) + 1
    BY <1>2, <2>1, <2>2
  <2>3. CASE j \in 1..Len(s)
    BY <1>2, <1>3, <2>1, <2>3 DEF Good, Distinct
  <2> QED
    BY <1>2, <2>2, <2>3
<1>4. Distinct(a)
  BY <1>3 DEF Distinct
<1> QED
  BY <1>2, <1>4 DEF Good, IsLines, a

\* What a person puts in is not for tinydns-edit to keep apart.
LEMMA DistinctConcat ==
  ASSUME NEW s, Good(s), NEW h \in HandEdits
  PROVE  Good(s \o h)
<1>1. PICK S : s \in Seq(S)
  BY DEF Good, IsLines
<1>2. PICK T : h \in Seq(T)
  BY PublishAssumption, LinesOf DEF IsLines
<1> DEFINE a == s \o h
<1>3. s \in Seq(S \cup T) /\ h \in Seq(S \cup T)
  BY <1>1, <1>2
<1>4. /\ a \in Seq(S \cup T) /\ Len(a) = Len(s) + Len(h) /\ Len(s) \in Nat /\ Len(h) \in Nat
      /\ DOMAIN s = 1..Len(s) /\ DOMAIN h = 1..Len(h) /\ DOMAIN a = 1..(Len(s) + Len(h))
  BY <1>3
<1>5. /\ \A i \in 1..Len(s) : a[i] = s[i]
      /\ \A i \in (Len(s) + 1)..(Len(s) + Len(h)) : a[i] = h[i - Len(s)]
  BY <1>3
<1> HIDE DEF a
<1>6. ASSUME NEW i \in DOMAIN a, \A g \in HandEdits : a[i] \notin ToSet(g)
      PROVE  i \in 1..Len(s) /\ a[i] = s[i]
  <2>1. CASE i \in 1..Len(s)
    BY <1>5, <2>1
  <2>2. CASE i \notin 1..Len(s)
    <3>1. i \in (Len(s) + 1)..(Len(s) + Len(h)) /\ i - Len(s) \in DOMAIN h
      BY <1>4, <2>2
    <3>2. a[i] \in ToSet(h)
      BY <1>5, <3>1 DEF ToSet
    <3> QED
      BY <1>6, <3>2
  <2> QED
    BY <2>1, <2>2
<1>7. Distinct(a)
  BY <1>4, <1>6 DEF Good, Distinct
<1> QED
  BY <1>4, <1>7 DEF Good, IsLines, a

\* Taking lines out brings no two together that clash.
LEMMA DistinctWithout ==
  ASSUME NEW s, Good(s), NEW n \in Nat, NEW k \in 0..(Len(s) - n)
  PROVE  Good(Without(s, k, n))
<1>1. PICK S : s \in Seq(S)
  BY DEF Good, IsLines
<1>2. Len(s) \in Nat /\ DOMAIN s = 1..Len(s) /\ Len(s) - n \in Nat /\ \A i \in 1..Len(s) : s[i] \in S
  BY <1>1
<1> DEFINE m == Len(s) - n
           p(i) == IF i <= k THEN i ELSE i + n
           a == Without(s, k, n)
<1>3. \A i \in 1..m : p(i) \in 1..Len(s)
  BY <1>2
<1>4. \A i, j \in 1..m : i < j => p(i) < p(j)
  BY <1>2
<1>5. a = [i \in 1..m |-> s[p(i)]]
  BY DEF Without
<1> HIDE DEF p, a, m
<1>6. m \in Nat
  BY <1>2 DEF m
<1>7. a \in [1..m -> S]
  BY <1>2, <1>3, <1>5
<1>8. a \in Seq(S)
  BY <1>6, <1>7
<1>9. DOMAIN a = 1..m /\ \A i \in 1..m : a[i] = s[p(i)]
  BY <1>5
<1>10. ASSUME NEW i \in DOMAIN a, NEW j \in DOMAIN a, i < j,
              \A h \in HandEdits : a[i] \notin ToSet(h), \A h \in HandEdits : a[j] \notin ToSet(h)
       PROVE  Apart(a[i], a[j])
  <2>1. p(i) \in DOMAIN s /\ p(j) \in DOMAIN s /\ p(i) < p(j) /\ a[i] = s[p(i)] /\ a[j] = s[p(j)]
    BY <1>2, <1>3, <1>4, <1>9, <1>10
  <2> QED
    BY <1>10, <2>1 DEF Good, Distinct
<1>11. Distinct(a)
  BY <1>10 DEF Distinct
<1> QED
  BY <1>8, <1>11 DEF Good, IsLines, a

\* Lower case: of a name whose first labels are the same, and of one that is
\* in lower case already.
LEMMA LowTwice ==
  ASSUME NEW name \in Seq(DOMAIN Lower)
  PROVE  low(low(name)) = low(name)
<1>1. DOMAIN low(name) = DOMAIN name /\ \A i \in DOMAIN name : low(name)[i] = Lower[name[i]]
  BY DEF low
<1>2. \A i \in DOMAIN name : name[i] \in DOMAIN Lower
  OBVIOUS
<1>3. \A i \in DOMAIN name : Lower[low(name)[i]] = Lower[name[i]]
  BY <1>1, <1>2, PublishAssumption
<1> QED
  BY <1>1, <1>3 DEF low

LEMMA LowPrefix ==
  ASSUME NEW target \in Seq(DOMAIN Lower), NEW c, NEW middle
  PROVE  low(<<c>> \o <<middle>> \o low(target)) = low(<<c, middle>> \o target)
<1> DEFINE S == DOMAIN Lower \cup {Lower[l] : l \in DOMAIN Lower} \cup {c, middle}
           n == Len(target)
           t == low(target)
           a == (<<c>> \o <<middle>>) \o t
           b == <<c, middle>> \o target
<1>1. n \in Nat /\ DOMAIN target = 1..n /\ \A i \in 1..n : target[i] \in DOMAIN Lower
  OBVIOUS
<1>2. t = [i \in 1..n |-> Lower[target[i]]]
  BY <1>1 DEF low
<1> HIDE DEF t
<1>3. t \in [1..n -> S]
  BY <1>1, <1>2
<1>4. t \in Seq(S) /\ Len(t) = n /\ <<c>> \in Seq(S) /\ <<middle>> \in Seq(S) /\ <<c, middle>> \in Seq(S) /\ target \in Seq(S)
  BY <1>1, <1>3
<1> HIDE DEF S
<1> DEFINE d == <<c>> \o <<middle>>
<1>5. d \in Seq(S) /\ Len(d) = 2 /\ d[1] = c /\ d[2] = middle
  BY <1>4
<1> HIDE DEF d
<1>6. DOMAIN a = 1..(2 + n) /\ DOMAIN b = 1..(2 + n)
  BY <1>1, <1>4, <1>5 DEF d
<1>7. a[1] = c /\ b[1] = c /\ a[2] = middle /\ b[2] = middle
  BY <1>1, <1>4, <1>5 DEF d
<1>8. \A i \in 3..(2 + n) : a[i] = t[i - 2] /\ b[i] = target[i - 2]
  BY <1>1, <1>4, <1>5 DEF d
<1>9. \A j \in 1..n : Lower[t[j]] = Lower[target[j]]
  BY <1>1, <1>2, PublishAssumption
<1>10. ASSUME NEW i \in 1..(2 + n) PROVE Lower[a[i]] = Lower[b[i]]
  <2> HIDE DEF a, b
  <2>1. CASE i \in 1..2
    BY <1>7, <2>1
  <2>2. CASE i \in 3..(2 + n)
    <3>1. i - 2 \in 1..n
      BY <1>1, <2>2
    <3> QED
      BY <1>8, <1>9, <2>2, <3>1
  <2> QED
    BY <1>1, <2>1, <2>2
<1> HIDE DEF a, b
<1>11. low(a) = [i \in 1..(2 + n) |-> Lower[a[i]]] /\ low(b) = [i \in 1..(2 + n) |-> Lower[b[i]]]
  BY <1>6 DEF low
<1>12. low(a) = low(b)
  BY <1>10, <1>11
<1> QED
  BY <1>12 DEF a, b, t

\* The first of the letters that are free.
LEMMA FreeLetter ==
  ASSUME NEW used, \E i \in DOMAIN Letters : Letters[i] \notin used
  PROVE  \E i \in DOMAIN Letters : Letters[i] \notin used /\ \A j \in 1..(i - 1) : Letters[j] \in used
<1> DEFINE T == {i \in DOMAIN Letters : Letters[i] \notin used}
<1>1. DOMAIN Letters = 1..Len(Letters) /\ Len(Letters) \in Nat
  BY PublishAssumption DEF IsSeq
<1>2. T \in SUBSET Nat /\ T # {} /\ \A i \in T : i \in 1..Len(Letters)
  BY <1>1
<1>3. PICK x \in T : \A y \in T : ~(<<y, x>> \in OpToRel(<, Nat))
  <2> HIDE DEF T
  <2> QED
    BY <1>2, NatLessThanWellFounded, WFMin
<1>4. ASSUME NEW j \in 1..(x - 1) PROVE Letters[j] \in used
  <2>1. j \in Nat /\ x \in Nat /\ j < x /\ j \in 1..Len(Letters)
    BY <1>2
  <2>2. j \notin T
    BY <1>3, <2>1 DEF OpToRel
  <2> QED
    BY <1>1, <2>1, <2>2
<1> QED
  BY <1>3, <1>4

\* The new line is apart from every line that is there.
LEMMA AddedApart ==
  ASSUME NEW e \in Edits, NEW old, ~AlreadyUsed(old, e[1], e[2], e[3]), ~TooMany(old, e[1], e[2]), NEW i \in DOMAIN old
  PROVE  Apart(old[i], Added(old, e[1], e[2], e[3]))
<1> DEFINE kind == e[1]
           target == e[2]
           ip == e[3]
           l == old[i]
           new == Added(old, kind, target, ip)
           used == UsedLetters(old, kind, target)
           first == CHOOSE k \in DOMAIN Letters : Letters[k] \notin used /\ \A j \in 1..(k - 1) : Letters[j] \in used
<1>1. target \in Seq(DOMAIN Lower)
  BY PublishAssumption
<1>2. /\ new.kind = kind /\ new.fqdn = low(target) /\ new.ip = ip
      /\ ~new.dot /\ (kind \in Lettered => new.x = <<<<Letters[first]>>>>)
  BY DEF Added, SeqIf
<1>3. low(low(target)) = low(target)
  BY <1>1, LowTwice
<1>4. ASSUME l.kind = kind, kind \in Lettered, low(l.fqdn) = low(target),
             low(Completed(l, Middle(kind))) = low(Completed(new, Middle(kind)))
      PROVE  FALSE
  <2>1. \E k \in DOMAIN Letters : Letters[k] \notin used
    <3>1. used \subseteq ToSet(Letters) /\ used # ToSet(Letters)
      BY <1>4 DEF TooMany, UsedLetters
    <3> QED
      BY <3>1 DEF ToSet
  <2>2. first \in DOMAIN Letters /\ Letters[first] \notin used
    <3> HIDE DEF used
    <3> QED
      BY <2>1, FreeLetter
  <2> DEFINE c == Letters[first]
  <2> HIDE DEF first
  <2>3. Completed(new, Middle(kind)) = <<c>> \o <<Middle(kind)>> \o low(target)
    <3>1. new.x[1] = <<c>>
      BY <1>2, <1>4
    <3> HIDE DEF new, c
    <3>2. Completed(new, Middle(kind)) = new.x[1] \o <<Middle(kind)>> \o new.fqdn
      BY <1>2, Zenon DEF Completed
    <3> QED
      BY <1>2, <3>1, <3>2
  <2>4. low(Completed(l, Middle(kind))) = low(<<c, Middle(kind)>> \o target)
    BY <1>1, <1>4, <2>3, LowPrefix
  <2>5. c \in ToSet(Letters)
    BY <2>2 DEF ToSet
  <2>6. c \in used
    <3> HIDE DEF c
    <3> QED
      BY <1>4, <2>4, <2>5 DEF UsedLetters
  <2> QED
    BY <2>2, <2>6
<1>5. ASSUME l.kind = kind, kind = "=" PROVE low(l.fqdn) # low(target) /\ l.ip # ip
  BY <1>5 DEF AlreadyUsed
<1> HIDE DEF new, used, first
<1> QED
  BY <1>2, <1>3, <1>4, <1>5 DEF Apart, new

\* The inductive invariant of the lines: those in data, those tinydns-edit has
\* read, and those of the file it is about to rename.
Finishing == At("edit", "fsync") \/ At("edit", "rename")
EditInv ==
  /\ Good(Lines)
  /\ At("edit", "put") => Good(proc["edit"].lines) /\ proc["edit"].add \in Edits
  /\ Finishing => Good(disk["data.new"].v.lines)

LEMMA EditInitially == Init => EditInv
<1> SUFFICES ASSUME Init PROVE EditInv
  OBVIOUS
<1>1. disk["data"] = Saved([lines |-> FirstLines, mtime |-> 1])
  BY FileFacts DEF Init, Files
<1>2. Saved([lines |-> FirstLines, mtime |-> 1]).v.lines = FirstLines
  BY DEF Saved
<1>3. proc["edit"] = None
  BY DEF Init
<1>4. Good(FirstLines)
  BY PublishAssumption, LinesOf DEF Good
<1> QED
  BY <1>1, <1>2, <1>3, <1>4 DEF EditInv, Lines, Finishing, At

\* A step that leaves data and tinydns-edit with data.new alone, or ends it.
LEMMA EditQuiet ==
  ASSUME EditInv, disk'["data"] = disk["data"],
         \/ proc'["edit"] = None
         \/ proc'["edit"] = proc["edit"] /\ disk'["data.new"] = disk["data.new"]
  PROVE  EditInv'
<1>1. Good(Lines)'
  BY DEF EditInv, Good, IsLines, Distinct, Lines
<1>2. (At("edit", "put") => Good(proc["edit"].lines) /\ proc["edit"].add \in Edits)'
  BY DEF EditInv, Good, IsLines, Distinct, At
<1>3. (Finishing => Good(disk["data.new"].v.lines))'
  BY DEF EditInv, Good, IsLines, Distinct, At, Finishing
<1> QED
  BY <1>1, <1>2, <1>3 DEF EditInv

LEMMA EditOpenStep == ASSUME PubInv, EditInv, edit_open PROVE EditInv'
<1>0. DOMAIN disk = Files /\ DOMAIN proc = Procs
  BY DEF PubInv, DiskOK, ProcOK
<1>1. PICK e \in Edits : proc' = [proc EXCEPT !["edit"] = [pc |-> "put", lines |-> Lines, add |-> e]]
  BY DEF edit_open
<1>2. proc'["edit"] = [pc |-> "put", lines |-> Lines, add |-> e]
  BY <1>0, <1>1 DEF Procs
<1>3. disk'["data"] = disk["data"]
  BY <1>0, FileFacts DEF edit_open, Put
<1>4. Good(Lines)' /\ Lines' = Lines
  BY <1>3 DEF EditInv, Good, IsLines, Distinct, Lines
<1>5. proc'["edit"].pc = "put" /\ proc'["edit"].lines = Lines /\ proc'["edit"].add = e
  BY <1>2
<1>6. Good(proc["edit"].lines)'
  BY <1>5 DEF EditInv, Good, IsLines, Distinct
<1>7. ~Finishing'
  BY <1>5 DEF Finishing, At
<1> QED
  BY <1>4, <1>5, <1>6, <1>7 DEF EditInv

LEMMA EditPutStep == ASSUME PubInv, EditInv, edit_put PROVE EditInv'
<1>0. DOMAIN disk = Files /\ DOMAIN proc = Procs
  BY DEF PubInv, DiskOK, ProcOK
<1> DEFINE old == proc["edit"].lines
           e == proc["edit"].add
           new == Append(old, Added(old, e[1], e[2], e[3]))
<1>1. At("edit", "put") /\ Good(old) /\ e \in Edits
  BY DEF edit_put, EditInv
<1>2. CASE AlreadyUsed(old, e[1], e[2], e[3]) \/ TooMany(old, e[1], e[2])
  <2>1. Exit({"edit"}) /\ UNCHANGED disk
    BY <1>2 DEF edit_put
  <2>2. proc'["edit"] = None
    BY <1>0, <2>1 DEF Exit, Procs
  <2> QED
    BY <2>1, <2>2, EditQuiet
<1>3. CASE ~(AlreadyUsed(old, e[1], e[2], e[3]) \/ TooMany(old, e[1], e[2]))
  <2>1. Put("data.new", NewFile([lines |-> new, mtime |-> now])) /\ Goto("edit", "fsync")
    BY <1>3 DEF edit_put
  <2>2. Good(new)
    <3>1. \A i \in DOMAIN old : Apart(old[i], Added(old, e[1], e[2], e[3]))
      <4> HIDE DEF old, e
      <4> QED
        BY <1>1, <1>3, AddedApart
    <3> HIDE DEF old, e
    <3> QED
      BY <1>1, <3>1, DistinctAppend
  <2> HIDE DEF new
  <2>3. disk'["data.new"] = NewFile([lines |-> new, mtime |-> now]) /\ disk'["data"] = disk["data"]
    BY <1>0, <2>1, FileFacts DEF Put
  <2>4. disk'["data.new"].v.lines = new
    BY <2>3 DEF NewFile
  <2>5. Good(disk["data.new"].v.lines)'
    BY <2>2, <2>4 DEF Good, IsLines, Distinct
  <2>6. proc'["edit"].pc = "fsync"
    BY <1>0, <1>1, <2>1, GotoProc DEF PubInv, Procs, At
  <2>7. ~At("edit", "put")'
    BY <2>6 DEF At
  <2>8. Good(Lines)'
    BY <2>3 DEF EditInv, Good, IsLines, Distinct, Lines
  <2> QED
    BY <2>5, <2>7, <2>8 DEF EditInv
<1> QED
  BY <1>2, <1>3

LEMMA EditSyncStep == ASSUME PubInv, EditInv, edit_fsync PROVE EditInv'
<1>0. DOMAIN disk = Files /\ DOMAIN proc = Procs
  BY DEF PubInv, DiskOK, ProcOK
<1>1. At("edit", "fsync") /\ Goto("edit", "rename") /\ disk' = [disk EXCEPT !["data.new"] = Synced(disk["data.new"])]
  BY DEF edit_fsync, Fsync
<1>2. disk'["data.new"] = Synced(disk["data.new"]) /\ disk'["data"] = disk["data"]
  BY <1>0, <1>1, FileFacts
<1>3. disk'["data.new"].v = disk["data.new"].v
  BY <1>2 DEF Synced
<1>4. Good(disk["data.new"].v.lines)' /\ Good(Lines)'
  BY <1>1, <1>2, <1>3 DEF EditInv, Finishing, Good, IsLines, Distinct, Lines
<1>5. proc'["edit"].pc = "rename"
  BY <1>0, <1>1, GotoProc DEF PubInv, Procs, At
<1> QED
  BY <1>4, <1>5 DEF EditInv, At

LEMMA EditRenameStep == ASSUME PubInv, EditInv, edit_rename PROVE EditInv'
<1>0. DOMAIN disk = Files /\ DOMAIN proc = Procs
  BY DEF PubInv, DiskOK, ProcOK
<1>1. At("edit", "rename") /\ Exit({"edit"}) /\ disk' = [disk EXCEPT !["data"] = disk["data.new"], !["data.new"] = None]
  BY DEF edit_rename, Rename
<1>2. disk'["data"] = disk["data.new"] /\ proc'["edit"] = None
  BY <1>0, <1>1, FileFacts DEF Exit, Procs
<1>3. Good(Lines)'
  BY <1>1, <1>2 DEF EditInv, Finishing, Good, IsLines, Distinct, Lines
<1> QED
  BY <1>2, <1>3 DEF EditInv, At, Finishing

LEMMA HandEditStep == ASSUME PubInv, EditInv, hand_edit PROVE EditInv'
<1>0. DOMAIN disk = Files
  BY DEF PubInv, DiskOK
<1>1. PICK h \in HandEdits :
        \E lines \in {Without(Lines, k, Len(h)) : k \in {j \in 0..(Len(Lines) - Len(h)) :
                                                 \A i \in DOMAIN h : Lines[j + i] = h[i]}}
                  \cup {Lines \o h : l \in {h[1]} \ ToSet(Lines)} :
          disk' = [disk EXCEPT !["data"] = Saved([lines |-> lines, mtime |-> now])]
  BY DEF hand_edit
<1>2. PICK lines : /\ lines = Lines \o h \/ \E k \in 0..(Len(Lines) - Len(h)) : lines = Without(Lines, k, Len(h))
                   /\ disk' = [disk EXCEPT !["data"] = Saved([lines |-> lines, mtime |-> now])]
  BY <1>1
<1>3. Good(lines)
  <2>1. Len(h) \in Nat /\ Good(Lines)
    BY PublishAssumption DEF IsSeq, EditInv
  <2>2. CASE lines = Lines \o h
    BY <2>1, <2>2, DistinctConcat
  <2>3. CASE \E k \in 0..(Len(Lines) - Len(h)) : lines = Without(Lines, k, Len(h))
    BY <2>1, <2>3, DistinctWithout
  <2> QED
    BY <1>2, <2>2, <2>3
<1>4. disk'["data"] = Saved([lines |-> lines, mtime |-> now]) /\ disk'["data.new"] = disk["data.new"]
  BY <1>0, <1>2, FileFacts
<1>5. disk'["data"].v.lines = lines
  BY <1>4 DEF Saved
<1>6. Good(Lines)'
  BY <1>3, <1>5 DEF Good, IsLines, Distinct, Lines
<1>7. proc' = proc
  BY DEF hand_edit
<1>8. (At("edit", "put") => Good(proc["edit"].lines) /\ proc["edit"].add \in Edits)'
  BY <1>7 DEF EditInv, Good, IsLines, Distinct, At
<1>9. (Finishing => Good(disk["data.new"].v.lines))'
  BY <1>4, <1>7 DEF EditInv, Good, IsLines, Distinct, At, Finishing
<1> QED
  BY <1>6, <1>8, <1>9 DEF EditInv

\* The other programs write other files and move other processes.
Elsewhere == proc'["edit"] = proc["edit"] /\ disk'["data.new"] = disk["data.new"] /\ disk'["data"] = disk["data"]

LEMMA WriterElsewhere ==
  ASSUME PubInv, NEW p \in {"compile", "get"}, NEW tmp \in {"data.tmp", "fn.tmp"}, NEW fn \in {"data.cdb", "fn"},
         Fsync(p, tmp) \/ Rename(p, tmp, fn)
  PROVE  Elsewhere
<1>0. DOMAIN disk = Files /\ DOMAIN proc = Procs
  BY DEF PubInv, DiskOK, ProcOK
<1> QED
  BY <1>0, FileFacts DEF Fsync, Rename, Goto, Exit, Procs, Elsewhere

LEMMA DataElsewhere == ASSUME PubInv, data_open \/ data_step PROVE Elsewhere
<1>0. DOMAIN disk = Files /\ DOMAIN proc = Procs
  BY DEF PubInv, DiskOK, ProcOK
<1>1. CASE data_open
  BY <1>0, <1>1, FileFacts DEF data_open, Put, Procs, Elsewhere
<1>2. CASE data_lines
  BY <1>0, <1>2, FileFacts DEF data_lines, Goto, Exit, Procs, Elsewhere
<1>3. CASE data_fsync \/ data_rename
  BY <1>3, WriterElsewhere DEF data_fsync, data_rename
<1> QED
  BY <1>1, <1>2, <1>3 DEF data_step

LEMMA TransferElsewhere == ASSUME PubInv, get_open \/ transfer_step PROVE Elsewhere
<1>0. DOMAIN disk = Files /\ DOMAIN proc = Procs
  BY DEF PubInv, DiskOK, ProcOK
<1>1. CASE get_open
  BY <1>0, <1>1, FileFacts DEF get_open, Procs, Elsewhere
<1>2. CASE get_soa
  BY <1>0, <1>2, FileFacts DEF get_soa, Put, Exit, Procs, Elsewhere
<1>3. CASE get_axfr
  BY <1>0, <1>3, FileFacts DEF get_axfr, Procs, Elsewhere
<1>4. CASE axfrdns_start
  BY <1>0, <1>4, FileFacts DEF axfrdns_start, Exit, Procs, Elsewhere
<1>5. CASE get_records
  BY <1>0, <1>5, FileFacts DEF get_records, Exit, Procs, Elsewhere
<1>6. CASE get_fsync \/ get_rename
  BY <1>6, WriterElsewhere DEF get_fsync, get_rename
<1> QED
  BY <1>1, <1>2, <1>3, <1>4, <1>5, <1>6 DEF transfer_step

\* A crash tears what was not synced: never data, and data.new only together
\* with the end of tinydns-edit.
LEMMA CrashKeeps == ASSUME PubInv, EditInv, die \/ crash PROVE EditInv'
<1>0. DOMAIN disk = Files /\ DOMAIN proc = Procs
  BY DEF PubInv, DiskOK, ProcOK
<1>1. CASE die
  <2>1. PICK P : Exit(P) /\ UNCHANGED disk
    BY <1>1 DEF die
  <2>2. proc'["edit"] = None \/ proc'["edit"] = proc["edit"]
    BY <1>0, <2>1 DEF Exit, Procs
  <2> QED
    BY <2>1, <2>2, EditQuiet
<1>2. CASE crash
  <2>1. PICK m \in {Master, Slave} :
          /\ \E lost \in SUBSET {f \in m : disk[f] # None /\ ~disk[f].durable} :
               disk' = [f \in DOMAIN disk |-> IF f \in lost THEN Torn ELSE disk[f]]
          /\ Exit({"axfrdns", "get"} \cup IF m = Master THEN {"edit", "compile"} ELSE {})
    BY <1>2 DEF crash
  <2>2. PICK lost \in SUBSET {f \in m : disk[f] # None /\ ~disk[f].durable} :
          disk' = [f \in DOMAIN disk |-> IF f \in lost THEN Torn ELSE disk[f]]
    BY <2>1
  <2>3. "data" \notin lost
    BY <2>2 DEF PubInv, PublishedSafe, Lasting, Published
  <2>4. disk'["data"] = disk["data"]
    BY <1>0, <2>2, <2>3, FileFacts
  <2>5. CASE m = Master
    <3>1. proc'["edit"] = None
      BY <1>0, <2>1, <2>5 DEF Exit, Procs
    <3> QED
      BY <2>4, <3>1, EditQuiet
  <2>6. CASE m # Master
    <3>1. proc'["edit"] = proc["edit"]
      BY <1>0, <2>1, <2>6 DEF Exit, Procs
    <3>2. "data.new" \notin lost
      BY <2>1, <2>2, <2>6 DEF Slave
    <3>3. disk'["data.new"] = disk["data.new"]
      BY <1>0, <2>2, <3>2, FileFacts
    <3> QED
      BY <2>4, <3>1, <3>3, EditQuiet
  <2> QED
    BY <2>5, <2>6
<1> QED
  BY <1>1, <1>2

LEMMA EditInductive == PubInv /\ EditInv /\ [Next]_vars => EditInv'
<1> SUFFICES ASSUME PubInv, EditInv, [Next]_vars PROVE EditInv'
  OBVIOUS
<1>1. CASE Tick \/ UNCHANGED vars
  <2>1. disk' = disk /\ proc' = proc
    BY <1>1 DEF Tick, vars
  <2> QED
    BY <2>1, EditQuiet
<1>2. CASE data_open \/ data_step \/ get_open \/ transfer_step
  <2>1. Elsewhere
    BY <1>2, DataElsewhere, TransferElsewhere
  <2> QED
    BY <2>1, EditQuiet DEF Elsewhere
<1>3. CASE edit_step
  BY <1>3, EditPutStep, EditSyncStep, EditRenameStep DEF edit_step
<1> QED
  BY <1>1, <1>2, <1>3, EditOpenStep, HandEditStep, CrashKeeps DEF Next

\* However tinydns-edit, people and crashes interleave, the lines that
\* tinydns-edit has added clash neither with each other nor with those that
\* were there to begin with: of a name, no two name servers or mail exchangers get one letter, and
\* no host or address is used twice (tinydns-edit.c:171-262).
THEOREM EditsApart == Spec => []EditsDistinct
<1>1. Init => PubInv /\ EditInv
  BY PubInit, EditInitially
<1>2. PubInv /\ EditInv /\ [Next]_vars => (PubInv /\ EditInv)'
  BY PubStep, EditInductive
<1>3. PubInv /\ EditInv => EditsDistinct
  BY DEF EditInv, Good, EditsDistinct
<1> QED
  BY <1>1, <1>2, <1>3, PTL DEF Spec

----------------------------------------------------------------------------
(* dns-notify *)

Active == {"sigsetjmp", "sendto", "recvfrom", "reply", "giveup"}
Waiting == {"main", "SendPacket"} \cup Active
Zones == 1..Len(argv)

NotifyTypeOK ==
  /\ argv \in ZoneArgs /\ optind \in 0..Len(argv) /\ (place \in Waiting \ {"main"} => optind > 0)
  /\ sock \in {"bound", "stdin"} /\ try \in Nat /\ alarm \in BOOLEAN /\ early \in BOOLEAN
  /\ place \in Waiting \cup {"crash", "exit0", "exit100", "exit111"}
  /\ told \in [Zones -> Nat] /\ said \in [Zones -> {"nothing", "reply", "giveup"}]

\* What the tries so far have sent of the zone in hand.  An alarm at
\* "giveup" counts a try too many, and one that comes early counts a try
\* that sent nothing.
Sent(n) ==
  /\ place \in {"recvfrom", "reply"} => n <= try /\ try <= NRetries /\ (~early => n = try)
  /\ place = "sendto" => n < try /\ try <= NRetries /\ (~early => n = try - 1)
  /\ place = "sigsetjmp" => n < try /\ n <= NRetries
                            /\ (~early => n = NRetries \/ (n = try - 1 /\ try <= NRetries))
  /\ place = "giveup" => n <= NRetries /\ n < try /\ try > NRetries /\ (~early => n = NRetries)
  /\ place = "main" => n <= try /\ n <= NRetries

\* Zones to come are untouched, and of the one in hand nothing has been said,
\* as long as no alarm brings the program back to a zone it has done.
Untouched ==
  /\ \A i \in Zones : i > optind => told[i] = 0 /\ said[i] = "nothing"
  /\ place = "SendPacket" => told[optind] = 0 /\ said[optind] = "nothing"
  /\ place \in Active /\ ~early => said[optind] = "nothing"
  /\ alarm => optind > 0

\* The inductive invariant of dns-notify.
NotifyInv ==
  /\ NotifyTypeOK /\ TellsEach /\ Untouched /\ blocked = FALSE
  /\ place \in {"recvfrom", "sendto"} => alarm
  /\ optind > 0 => Sent(told[optind])

LEMMA NotifyInitially == NotifyInit => NotifyInv
<1> SUFFICES ASSUME NotifyInit PROVE NotifyInv
  OBVIOUS
<1>1. Len(argv) \in Nat /\ DOMAIN argv = Zones
  BY NotifyAssumption DEF NotifyInit, Zones
<1>2. told = [i \in Zones |-> 0] /\ said = [i \in Zones |-> "nothing"]
  BY <1>1 DEF NotifyInit
<1>3. NotifyTypeOK
  <2>1. told \in [Zones -> Nat] /\ said \in [Zones -> {"nothing", "reply", "giveup"}]
    BY <1>2
  <2>2. argv \in ZoneArgs /\ optind \in 0..Len(argv) /\ try \in Nat /\ sock \in {"bound", "stdin"}
    BY <1>1 DEF NotifyInit
  <2>3. place = "main" /\ alarm \in BOOLEAN /\ early \in BOOLEAN
    BY DEF NotifyInit
  <2> QED
    BY <2>1, <2>2, <2>3 DEF NotifyTypeOK, Waiting, Active
<1>4. TellsEach
  BY <1>1, <1>2, NotifyAssumption DEF NotifyInit, TellsEach
<1>5. Untouched
  BY <1>2 DEF NotifyInit, Untouched, Active
<1> QED
  BY <1>3, <1>4, <1>5 DEF NotifyInit, NotifyInv, Sent

\* A step that leaves the records of the zones alone.
LEMMA NotifyQuiet ==
  ASSUME NotifyInv, NotifyTypeOK', UNCHANGED <<argv, optind, told, said, blocked>>, early => early',
         place' \in Active /\ ~early' => said[optind] = "nothing",
         place' \in {"recvfrom", "sendto"} => alarm', alarm' => optind > 0,
         place' = "SendPacket" => told[optind] = 0 /\ said[optind] = "nothing",
         optind > 0 => Sent(told[optind])'
  PROVE  NotifyInv'
<1> USE DEF Zones, NotifyInv
<1>1. TellsEach'
  BY DEF TellsEach
<1>2. Untouched'
  BY DEF Untouched
<1> QED
  BY <1>1, <1>2

LEMMA NotifyDies ==
  ASSUME NotifyInv, NEW c \in {"exit0", "exit100", "exit111"}, Die(c)
  PROVE  NotifyInv'
<1> USE DEF Zones, NotifyInv, Die, Waiting, Active
<1>1. NotifyTypeOK' /\ Sent(told[optind])'
  BY DEF NotifyTypeOK, Sent
<1> QED
  BY <1>1, NotifyQuiet DEF Untouched, NotifyTypeOK

\* However many alarms come and wherever they jump back to: no zone is sent
\* more often than -r says, one is given up only after as many tries, and the
\* program never waits without an alarm (SendPacket and timeout_handler in
\* dns-notify.c).
THEOREM NotifyTellsEach == NotifySpec => []TellsEach
<1>2. NotifyInv /\ [NotifyNext]_notify_vars => NotifyInv'
  <2> SUFFICES ASSUME NotifyInv, [NotifyNext]_notify_vars PROVE NotifyInv'
    OBVIOUS
  <2>i. /\ NotifyTypeOK /\ TellsEach /\ Untouched /\ blocked = FALSE
        /\ place \in {"recvfrom", "sendto"} => alarm
    BY DEF NotifyInv
  <2>s. optind > 0 => Sent(told[optind])
    BY DEF NotifyInv
  <2> USE DEF Active, Waiting, Zones
  <2>0. /\ Len(argv) \in Nat /\ DOMAIN told = Zones /\ DOMAIN said = Zones
        /\ optind > 0 => optind \in Zones /\ told[optind] \in Nat
        /\ try \in Nat /\ optind \in Nat /\ early \in BOOLEAN /\ alarm \in BOOLEAN /\ blocked = FALSE
        /\ place \in {"recvfrom", "sendto"} => alarm
        /\ place \in Waiting \ {"main"} => optind \in Zones
        /\ NRetries \in Nat
    BY <2>i, NotifyAssumption DEF NotifyTypeOK, Zones
  <2>1. CASE MakeNotifyPacket
    <3> USE <2>1, <2>i, NotifyDies DEF MakeNotifyPacket
    <3>1. CASE \E c \in {"exit0", "exit100"} : Die(c)
      BY <3>1
    <3>2. CASE /\ optind # Len(argv) /\ optind' = optind + 1 /\ place' = "SendPacket"
               /\ UNCHANGED <<argv, sock, try, alarm, blocked, told, said, early>>
      <4>1. NotifyTypeOK'
        BY <2>i, <2>0, <3>2 DEF NotifyTypeOK
      <4>2. TellsEach'
        BY <2>i, <2>0, <3>2 DEF TellsEach
      <4>3. Untouched' /\ Sent(told[optind])'
        BY <2>i, <2>s, <2>0, <3>2, <4>1 DEF Untouched, Sent, NotifyTypeOK
      <4> QED
        BY <2>0, <3>2, <4>1, <4>2, <4>3 DEF NotifyInv
    <3> QED
      BY <2>1, <3>1, <3>2 DEF MakeNotifyPacket
  <2>2. CASE SendPacket
    <3>1. CASE Die("exit111")
      BY <2>i, <3>1, NotifyDies
    <3>2. CASE /\ place = "SendPacket" /\ try' = FirstTry /\ place' = "sigsetjmp"
               /\ UNCHANGED <<argv, optind, sock, alarm, blocked, told, said, early>>
      <4>1. NotifyTypeOK'
        BY <2>i, <2>0, <3>2 DEF NotifyTypeOK, FirstTry
      <4>2. Sent(told[optind])'
        BY <2>i, <2>s, <2>0, <3>2 DEF FirstTry, Sent, Untouched, NotifyTypeOK
      <4> QED
        BY <2>i, <2>0, <3>2, <4>1, <4>2, NotifyQuiet DEF Untouched
    <3> QED
      BY <2>2, <3>1, <3>2 DEF SendPacket
  <2>3. CASE sigsetjmp
    <3>1. NotifyTypeOK'
      BY <2>i, <2>0, <2>3 DEF sigsetjmp, NotifyTypeOK
    <3>2. Sent(told[optind])'
      BY <2>i, <2>s, <2>0, <2>3 DEF sigsetjmp, Sent, NotifyTypeOK
    <3> QED
      BY <2>i, <2>0, <2>3, <3>1, <3>2, NotifyQuiet DEF sigsetjmp, Untouched, NotifyTypeOK
  <2>4. CASE sendto
    <3>1. CASE Die("exit111")
      BY <2>i, <3>1, NotifyDies
    <3>2. CASE /\ place = "sendto" /\ told' = [told EXCEPT ![optind] = @ + 1] /\ place' = "recvfrom"
               /\ UNCHANGED <<argv, optind, sock, try, alarm, blocked, said, early>>
      <4>0. /\ optind \in Zones /\ told' = [told EXCEPT ![optind] = @ + 1] /\ told'[optind] = told[optind] + 1
            /\ UNCHANGED <<argv, optind, sock, try, alarm, blocked, said, early>> /\ place' = "recvfrom" /\ place = "sendto"
        BY <2>i, <2>0, <3>2 DEF NotifyTypeOK
      <4>1. NotifyTypeOK'
        BY <2>i, <2>0, <4>0 DEF NotifyTypeOK
      <4>2. Sent(told[optind])'
        BY <2>i, <2>s, <2>0, <4>0 DEF Sent
      <4>3. TellsEach'
        <5>1. early \/ said[optind] = "nothing"
          BY <2>i, <2>s, <2>0, <4>0 DEF Sent, Untouched
        <5>2. told[optind] + 1 <= NRetries
          BY <2>i, <2>s, <2>0, <4>0 DEF Sent
        <5> QED
          BY <2>i, <2>0, <4>0, <5>1, <5>2 DEF TellsEach, NotifyTypeOK
      <4>4. Untouched'
        BY <2>i, <2>0, <4>0 DEF Untouched, NotifyTypeOK
      <4> QED
        BY <2>0, <4>0, <4>1, <4>2, <4>3, <4>4 DEF NotifyInv
    <3> QED
      BY <2>4, <3>1, <3>2 DEF sendto
  <2>5. CASE recvfrom
    <3>1. CASE Die("exit111")
      BY <2>i, <3>1, NotifyDies
    <3>2. CASE /\ place = "recvfrom" /\ place' = "reply"
               /\ UNCHANGED <<argv, optind, sock, try, alarm, blocked, told, said, early>>
      <4>1. NotifyTypeOK'
        BY <2>i, <2>0, <3>2 DEF NotifyTypeOK
      <4>2. Sent(told[optind])'
        BY <2>i, <2>s, <2>0, <3>2 DEF Sent, NotifyTypeOK
      <4> QED
        BY <2>i, <2>0, <3>2, <4>1, <4>2, NotifyQuiet DEF Untouched, NotifyTypeOK
    <3> QED
      BY <2>5, <3>1, <3>2 DEF recvfrom
  <2>6. CASE return
    <3>0. /\ optind \in Zones /\ place \in {"reply", "giveup"} /\ place' = "main"
          /\ said' = [said EXCEPT ![optind] = place] /\ said'[optind] = place
          /\ UNCHANGED <<argv, optind, sock, try, alarm, blocked, told, early>>
      BY <2>i, <2>0, <2>6 DEF return, NotifyTypeOK
    <3>1. NotifyTypeOK'
      BY <2>i, <2>0, <3>0 DEF NotifyTypeOK
    <3>2. Sent(told[optind])'
      BY <2>i, <2>s, <2>0, <3>0 DEF Sent
    <3>3. TellsEach'
      BY <2>i, <2>s, <2>0, <3>0 DEF TellsEach, Sent, NotifyTypeOK
    <3>4. Untouched'
      BY <2>i, <2>0, <3>0 DEF Untouched, NotifyTypeOK
    <3> QED
      BY <2>0, <3>0, <3>1, <3>2, <3>3, <3>4 DEF NotifyInv
  <2>7. CASE timeout_handler
    <3>0. /\ optind \in Zones /\ place' \in {"sigsetjmp", "crash"} /\ try' = try + 1 /\ alarm' = FALSE /\ blocked' = FALSE
          /\ place \in {"main", "SendPacket"} \cup Active
          /\ UNCHANGED <<argv, optind, sock, told, said>>
      BY <2>i, <2>0, <2>7 DEF timeout_handler, Unblocked, Untouched
    <3>e. early' = (early \/ place \in {"main", "SendPacket", "sigsetjmp", "sendto"})
      BY <2>7 DEF timeout_handler
    <3>b. early' \in BOOLEAN
      BY <3>e, Zenon
    <3>1. NotifyTypeOK'
      <4>1. UNCHANGED Zones
        BY <3>0
      <4>2. (told \in [Zones -> Nat] /\ said \in [Zones -> {"nothing", "reply", "giveup"}])'
        BY <2>i, <3>0, <4>1 DEF NotifyTypeOK
      <4>3. (argv \in ZoneArgs /\ optind \in 0..Len(argv) /\ sock \in {"bound", "stdin"})'
        BY <2>i, <3>0 DEF NotifyTypeOK
      <4>4. optind' > 0 /\ try' \in Nat /\ alarm' \in BOOLEAN
        <5>1. try' = try + 1 /\ try \in Nat
          BY <2>0, <3>0
        <5>2. optind' = optind /\ optind \in Nat /\ optind > 0
          BY <2>0, <3>0
        <5>3. alarm' = FALSE
          BY <3>0
        <5>4. alarm' \in BOOLEAN
          BY <5>3, Zenon
        <5>5. try' \in Nat
          BY <5>1
        <5>6. optind' > 0
          BY <5>2
        <5> QED
          BY <5>4, <5>5, <5>6
      <4>5. place' \in {"sigsetjmp", "crash"}
        BY <3>0
      <4> HIDE <2>i, <2>0, <3>0
      <4> QED
        BY <3>b, <4>2, <4>3, <4>4, <4>5 DEF NotifyTypeOK
    <3>2. ~early' => ~early /\ place \in {"recvfrom", "reply", "giveup"}
      <4> DEFINE P == place \in {"main", "SendPacket", "sigsetjmp", "sendto"}
      <4>0. early' = (early \/ P)
        BY <3>e
      <4> HIDE DEF P
      <4>1. ~early' => ~early /\ ~P
        BY <4>0
      <4> USE DEF P
      <4>2. place \in {"recvfrom", "reply", "giveup"} \/ place \in {"main", "SendPacket", "sigsetjmp", "sendto"}
        BY <3>0
      <4> QED
        BY <4>1, <4>2
    <3>3. Sent(told[optind])'
      BY <2>i, <2>s, <2>0, <3>0, <3>2 DEF Sent, Untouched, NotifyTypeOK
    <3> QED
      BY <2>i, <2>0, <3>0, <3>1, <3>2, <3>3, <3>b, NotifyQuiet DEF Untouched, NotifyTypeOK
  <2>8. CASE UNCHANGED notify_vars
    BY <2>i, <2>8 DEF notify_vars, NotifyInv, TellsEach, Untouched, Sent, NotifyTypeOK
  <2> QED
    BY <2>1, <2>2, <2>3, <2>4, <2>5, <2>6, <2>7, <2>8 DEF NotifyNext
<1>3. NotifyInv => TellsEach
  BY DEF NotifyInv
<1> QED
  BY <1>2, <1>3, NotifyInitially, PTL DEF NotifySpec
=============================================================================
