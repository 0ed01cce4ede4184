------------------------------- MODULE DqDump -------------------------------
(* cache.c of dq, and the signals by which dqcache keeps its cache on disk   *)
(* from one run to the next.                                                 *)
(*                                                                           *)
(* The ring and its hash chains are those of dnscache (see Cache).  Here the *)
(* ring is two queues of entries, oldest first: old, from oldest to unused,  *)
(* and new, from hsize to writer; how many entries fit is any number up to   *)
(* Room.  What a handler sees of the pointers while cache_set moves them     *)
(* depends on the order of the stores, which the compiler may choose.  The   *)
(* process may be killed at any step, and started again.  tmp and file are   *)
(* dump/dnsdata.tmp and dump/dnsdata.                                        *)
EXTENDS Integers, Sequences, SequencesExt, FiniteSets

CONSTANTS
  Key,          \* keys that queries use
  Kind,         \* of each: "rr"; "AXFR" (secrets, failures), "ANY" (no such name)
  Room,         \* entries that fit
  TTLs, MaxTTL, \* arguments of cache_set; 604800
  MaxNow, MaxStarts,   \* bounds on the clock and on the number of starts
  Nil

ASSUME DumpAssumption ==
  /\ Room \in Nat \ {0} /\ TTLs \subseteq Nat /\ MaxTTL \in Nat
  /\ Kind \in [Key -> {"rr", "AXFR", "ANY"}] /\ Nil \notin Key

VARIABLES
  at,        \* main: "off"; "init": before cache_load; "load": in it; "run": in doit
  old, new,  \* the cache
  arg,       \* the entry that a cache_set under way will add, or Nil
  stage,     \* of its moves: "wrap", "evict", "flush", else "none"
  toload,    \* entries left to load
  loadtime,  \* the time when cache_load started
  handlers,  \* the signals in whose handlers the process is, the last one innermost
  walk,      \* what they find in the cache
  todump, writing,   \* of the innermost dump: what is left of walk; in allwrite
  below,     \* the same of the dump that it interrupted, or Nil
  lost,      \* since that has gone on, the buffer is not its own
  tmp, file, \* the two files: entries, or Nil
  now,
  \* history
  starts,
  struck,    \* the dump began amid moves, or went on with what another one spoilt
  kept,      \* the entries to be found in file, by their places; Nil if its dump was struck
  slack      \* seconds spent in cache_load

cache == <<old, new, arg, stage>>
dumping == <<handlers, walk, todump, writing, below, lost, struck>>
files == <<tmp, file, kept>>
dumpvars == <<at, cache, toload, loadtime, dumping, files, now, starts, slack>>

DumpInit ==
  /\ at = "off" /\ old = << >> /\ new = << >> /\ arg = Nil /\ stage = "none" /\ toload = << >> /\ loadtime = 0
  /\ handlers = << >> /\ walk = << >> /\ todump = << >> /\ writing = FALSE
  /\ below = Nil /\ lost = FALSE /\ struck = FALSE
  /\ tmp = Nil /\ file = Nil /\ kept = << >>
  /\ now = 0 /\ starts = 0 /\ slack = 0

seconds ==
  /\ now < MaxNow /\ now' = now + 1
  /\ slack' = IF at = "load" THEN slack + 1 ELSE slack
  /\ UNCHANGED <<at, cache, toload, loadtime, dumping, files, starts>>

----------------------------------------------------------------------------
(* cache_set and cache_get *)

Capped(ttl) == IF ttl > MaxTTL THEN MaxTTL ELSE ttl

\* The entry that cache_set is to make; for one that is loaded, with the time
\* to which it was kept when it was new.
Arg(k, ttl, until) == arg' = [key |-> k, ttl |-> Capped(ttl), until |-> until]

\* A step of main, which stands still while handlers run.
Main == handlers = << >> /\ UNCHANGED <<loadtime, dumping, files, now, slack>>
InSet == Main /\ arg # Nil /\ UNCHANGED <<at, toload, starts>>

cache_set_start == \E k \in Key, ttl \in TTLs :
  /\ Main /\ at = "run" /\ arg = Nil /\ ttl > 0
  /\ Arg(k, ttl, Nil)
  /\ UNCHANGED <<at, old, new, stage, toload, starts>>

\* Room must be made and nothing is left of old: what is new becomes old ...
cache_set_wrap ==
  /\ InSet /\ stage = "none" /\ old = << >> /\ new # << >>
  /\ stage' = "wrap"
  /\ UNCHANGED <<old, new, arg>>
cache_set_wrapped ==
  /\ InSet /\ stage = "wrap"
  /\ old' = new /\ new' = << >> /\ stage' = "evict"
  /\ UNCHANGED arg

\* ... or there is nothing to make room of, and the entry is too large.
cache_set_giveup ==
  /\ InSet /\ stage = "none" /\ old = << >> /\ new = << >>
  /\ arg' = Nil
  /\ UNCHANGED <<old, new, stage>>

\* The oldest entry goes with the store to oldest; if it was the last one of
\* old, oldest and unused go to the end.
cache_set_evict ==
  /\ InSet /\ stage \in {"none", "evict"} /\ old # << >>
  /\ IF Len(old) > 1 THEN old' = Tail(old) /\ stage' = "none" ELSE stage' = "flush" /\ UNCHANGED old
  /\ UNCHANGED <<new, arg>>
cache_set_flushed ==
  /\ InSet /\ stage = "flush"
  /\ old' = << >> /\ stage' = "none"
  /\ UNCHANGED <<new, arg>>

\* A handler sees an entry when writer has passed it, which is the last store.
cache_set_insert ==
  /\ InSet /\ stage = "none" /\ Len(old) + Len(new) < Room
  /\ new' = Append(new, [key |-> arg.key, expire |-> now + arg.ttl,
                          until |-> IF arg.until = Nil THEN now + arg.ttl ELSE arg.until])
  /\ arg' = Nil
  /\ UNCHANGED <<old, stage>>

\* What a query finds: the newest entry of its key, if not expired.
q == old \o new
cache_get(k) ==
  LET I == {i \in 1..Len(q) : q[i].key = k}
      e == q[CHOOSE i \in I : \A j \in I : j <= i]
  IN IF I = {} \/ e.expire <= now THEN Nil ELSE e

----------------------------------------------------------------------------
(* Start and end of the process *)

NoHandler ==
  /\ handlers' = << >> /\ walk' = << >> /\ todump' = << >> /\ writing' = FALSE
  /\ below' = Nil /\ lost' = FALSE /\ struck' = FALSE
Off == at' = "off" /\ old' = << >> /\ new' = << >> /\ arg' = Nil /\ stage' = "none" /\ toload' = << >> /\ NoHandler

\* The handlers are set before cache_init.
main ==
  /\ Main /\ at = "off" /\ starts < MaxStarts
  /\ starts' = starts + 1 /\ at' = "init"
  /\ UNCHANGED <<cache, toload>>

cache_load_start ==
  /\ at = "init" /\ handlers = << >>
  /\ at' = "load" /\ loadtime' = now
  /\ toload' = IF file = Nil THEN << >> ELSE file
  /\ UNCHANGED <<cache, dumping, files, now, starts, slack>>

\* What is no entry: bytes of which a part may look like one.
Junk == [key |-> Nil, expire |-> 0, until |-> 0]

Remaining_late(e) == e.expire - loadtime + 1   \* mutant: an entry that expires now is kept
Remaining(e) == e.expire - loadtime
Loading == Main /\ at = "load" /\ arg = Nil /\ UNCHANGED <<at, old, new, stage, starts>>

\* An entry that has not expired by the time of the start is set.
cache_load ==
  /\ Loading /\ toload # << >> /\ Head(toload) # Junk
  /\ toload' = Tail(toload)
  /\ LET e == Head(toload) IN
       IF Remaining(e) > 0 THEN Arg(e.key, Remaining(e), e.until) ELSE UNCHANGED arg

\* Junk gives an entry or none, more of them, none of the rest, or takes what
\* follows for a part of it.
cache_load_junk ==
  /\ Loading /\ toload # << >> /\ Head(toload) = Junk
  /\ \/ toload' \in {toload, Tail(toload), << >>}
     \/ Len(toload) > 1 /\ toload' = [Tail(toload) EXCEPT ![1] = Junk]
  /\ UNCHANGED arg \/ \E k \in Key, ttl \in TTLs : ttl > 0 /\ Arg(k, ttl, Nil)

cache_load_end ==
  /\ Main /\ at = "load" /\ arg = Nil /\ toload = << >>
  /\ at' = "run"
  /\ UNCHANGED <<cache, toload, starts>>

\* Killed, or the system stops; or cache_impossible, or a bad address.  What is
\* left of dump/dnsdata.tmp is never used, since the next dump truncates it.
Crash ==
  /\ at # "off" /\ Off
  /\ tmp' = Nil
  /\ UNCHANGED <<loadtime, file, kept, now, starts, slack>>

\* SIGINT: cache_clean.
clean ==
  /\ at # "off" /\ Off
  /\ file' = Nil /\ tmp' = Nil /\ kept' = << >>
  /\ UNCHANGED <<loadtime, now, starts, slack>>

----------------------------------------------------------------------------
(* cache_dump *)

\* Secrets, failures and names that do not exist stay in memory.
Dumped(e) == e = Junk \/ Kind[e.key] \notin {"AXFR", "ANY"}

\* What lies from oldest to unused and then from hsize to writer.  While new
\* becomes old it may seem empty, or to be there twice, or to go on to the end
\* of the block; while the last of old goes, what is unused may seem in use.
Found ==
  CASE at = "init" -> {<< >>, <<Junk>>}
    [] stage = "wrap" -> {new, new \o new, Append(new, Junk), << >>}
    [] stage = "flush" -> {q, new, <<Junk>> \o new, Append(old, Junk) \o new}
    [] OTHER -> {q}
Unharmed == {q} \cup (IF stage = "flush" THEN {new} ELSE {})

OpenTrunc_inPlace == tmp' = << >> /\ file' = << >>   \* mutant: dump/dnsdata itself is written
OpenTrunc == tmp' = << >> /\ UNCHANGED file

\* SIGALRM, or SIGTERM (exitasap).  A signal is blocked in its own handler
\* only.  What SIGTERM interrupts is not gone on with.
dump == \E sig \in {"ALRM", "TERM"} :
  /\ at # "off" /\ \A i \in DOMAIN handlers : handlers[i] # sig
  /\ handlers' = Append(handlers, sig)
  /\ IF handlers = << >> THEN walk' \in Found /\ struck' = (walk' \notin Unharmed) ELSE UNCHANGED <<walk, struck>>
  /\ todump' = walk' /\ writing' = FALSE /\ lost' = FALSE
  /\ below' = IF handlers = <<"TERM">> THEN [todump |-> todump, writing |-> writing] ELSE Nil
  /\ OpenTrunc
  /\ UNCHANGED <<at, cache, toload, loadtime, kept, now, starts, slack>>

Dumping == handlers # << >> /\ UNCHANGED <<at, cache, toload, loadtime, handlers, walk, below, lost, now, starts, slack>>

\* buffer_put.  Into a buffer that is not its own it can put nothing that a
\* later write would not fail with.
cache_dump_entry ==
  /\ Dumping /\ ~writing /\ todump # << >>
  /\ LET e == Head(todump) IN
       IF ~Dumped(e) THEN UNCHANGED tmp ELSE ~lost /\ tmp' = Append(tmp, e)
  /\ todump' = Tail(todump)
  /\ UNCHANGED <<writing, struck, file, kept>>

\* buffer_flush has noted that the buffer is empty, and not yet written it.
buffer_flush ==
  /\ Dumping /\ ~writing /\ ~lost
  /\ writing' = TRUE
  /\ UNCHANGED <<todump, struck, files>>

\* What another dump left in the buffer falls somewhere into a file.
Spoilt(f) == {[f EXCEPT ![i] = Junk] : i \in DOMAIN f} \cup {Append(f, Junk)}

\* If the other dump has been renamed, that is dump/dnsdata; no harm is done if
\* one buffer was enough for all.
buffer_write ==
  /\ Dumping /\ writing /\ writing' = FALSE
  /\ \/ (~lost \/ tmp = Nil) /\ UNCHANGED <<files, struck>>
     \/ lost /\ tmp = Nil /\ file # Nil /\ file' \in Spoilt(file) /\ kept' = Nil /\ UNCHANGED <<tmp, struck>>
     \/ lost /\ tmp # Nil /\ tmp' \in Spoilt(tmp) /\ struck' = TRUE /\ UNCHANGED <<file, kept>>
  /\ UNCHANGED todump

\* The process ends, or what was interrupted goes on: the dump for SIGTERM, or
\* main.
Return ==
  /\ handlers # << >>
  /\ \/ Last(handlers) = "TERM" /\ Off
     \/ /\ handlers = <<"TERM", "ALRM">>
        /\ handlers' = <<"TERM">> /\ todump' = below.todump /\ writing' = below.writing
        /\ below' = Nil /\ lost' = TRUE
        /\ UNCHANGED <<at, cache, toload, walk>>
     \/ handlers = <<"ALRM">> /\ NoHandler /\ UNCHANGED <<at, cache, toload>>
  /\ UNCHANGED <<loadtime, now, starts, slack>>

\* A write, the fsync, close, chmod or rename fails.  The dump for SIGTERM then
\* may find a part of dump/dnsdata.tmp.
cache_dump_fail ==
  /\ Return /\ UNCHANGED <<file, kept>>
  /\ IF handlers # <<"TERM", "ALRM">> THEN tmp' = Nil
     ELSE \E n \in 0..Len(tmp) :
            /\ tmp' = SubSeq(tmp, 1, n)
            /\ struck' = (struck \/ todump # << >> \/ n < Len(tmp))

\* The records of what a handler finds, by their places.
Records(w) == [i \in {j \in DOMAIN w : w[j] # Junk /\ Kind[w[j].key] = "rr"} |-> w[i]]

\* All is on disk, and renamed.
cache_dump_rename ==
  /\ todump = << >> /\ ~writing /\ tmp # Nil
  /\ Return /\ (handlers = <<"TERM", "ALRM">> => UNCHANGED struck)
  /\ file' = tmp /\ tmp' = Nil
  /\ kept' = IF struck THEN Nil ELSE Records(walk)

----------------------------------------------------------------------------
cache_set == cache_set_start \/ cache_set_wrap \/ cache_set_wrapped \/ cache_set_giveup
             \/ cache_set_evict \/ cache_set_flushed \/ cache_set_insert
cache_dump == dump \/ cache_dump_entry \/ buffer_flush \/ buffer_write \/ cache_dump_fail \/ cache_dump_rename
DumpNext ==
  \/ seconds \/ main \/ cache_load_start \/ cache_load \/ cache_load_junk \/ cache_load_end
  \/ cache_set \/ cache_dump \/ Crash \/ clean
DumpSpec == DumpInit /\ [][DumpNext]_dumpvars

----------------------------------------------------------------------------
(* Properties *)

\* f has the entries of s, in their order.
InOrder(f, s) ==
  /\ Len(f) = Cardinality(DOMAIN s)
  /\ \A i \in DOMAIN s : f[Cardinality(DOMAIN s \cap (1..i))] = s[i]

\* Whenever the process is killed, dump/dnsdata is missing or is everything
\* that the cache held when its dump began, without the secrets, whatever
\* signals came before, during and after that dump, other dumps failing or not;
\* unless one struck at the places marked by struck: amid the moves of
\* cache_set, between the two halves of buffer_flush of a dump for SIGTERM, or
\* in such a dump with a failure half-way (cache_dump).
DumpWhole == file # Nil /\ kept # Nil => InOrder(file, kept)

\* No number of dumps, deaths and restarts keeps an entry for longer than it
\* was meant to last when it was new, but for the seconds that loading took
\* (cache_set, cache_dump, cache_load).
NoneProlonged == \A k \in Key : cache_get(k) # Nil => cache_get(k).expire <= cache_get(k).until + slack

\* What cache_dump and cache_load make of the cache between two runs.
DiskSound == DumpWhole /\ NoneProlonged

\* The comment at cache.c:38-46: what lies between hsize and writer and what lies
\* between oldest and unused are apart, so that cache_dump, which relies on it,
\* finds nothing twice that is not in the cache twice.  Refuted amid the moves of
\* cache_set: see README 5.2.
WalksEntries == IsInjective(q) => IsInjective(walk)
=============================================================================
