# A verification project for tinydnssec

tinydnssec is djbdns with DNSSEC and IPv6 support: a caching resolver (dnscache),
authoritative servers (tinydns, axfrdns, rbldns, walldns, pickdns), tools for zone data,
client programs, and the curvedns forwarder. All file names below are relative to
`src/tinydnssec-x/`.

This directory holds TLA+ modules translated from the C code, TLC configurations that check
them on small instances, and TLAPS proofs of the main invariants of the resolver for every value
of the constants. Modelled are the resolver dnscache, the authoritative server tinydns with the
programs that make, sign and transfer its data, the second cache in the repository (dqcache of
dq), the forwarder curvedns, the stub resolvers and client programs, and the small servers.

## 1. The system

### 1.1 How the resolver's parts interact

    clients --- dnscache.c  --- query.c --- dns_transmit.c --- name servers
              (tables u, t)       |  \
                                  |   roots.c (files in servers/), dd.c, response.c
                               cache.c

dnscache is one thread. Its loop builds an `iopause` set from every slot of its tables,
sleeps, then walks the slots: `query_get` for each query under way, `t_rw` for each
connection, `u_new` and `t_new` for the listening sockets. A slot's query has its own
`struct query` with its own `struct dns_transmit`; all queries share the cache, the
configured servers and the response buffer. There are no locks and no preemption; what
makes the code hard is that a resolution is cut into pieces at every wait, that it keeps
pointers and names from before the wait, and that slots, buffers and counters are reused by
the next query whichever way the last one ended.

### 1.2 The other parts

    tinydns-edit, editor -> data -> tinydns-data -> data.cdb -> tinydns -> clients
                             |                        |
                        tinydns-sign               axfrdns -> axfr-get -> fn (slave)

The programs on the left meet only through files: each writes a temporary file, syncs it and
renames it over the old one, and tinydns opens `data.cdb` again once it has held it for a second.
rbldns, pickdns and walldns are built the same way. dqcache is a descendant of dnscache that
encrypts its questions to servers with a DNSCurve key, limits queries for the same name, and
keeps its cache on disk, written by signal handlers. curvedns is an event loop (libev) between
DNSCurve clients and a plain server. The client programs are single-threaded users of the stub
resolver, except dnsfilter and dnstrace, which have many questions under way, and dns-notify,
whose retries are driven by an alarm and a long jump.

### 1.3 Inventory

| Component | State | Operations | What is hard | What makes it correct |
|---|---|---|---|---|
| **cache** `cache.c` | one block: hash heads, a ring of variable-length entries, `writer`, `oldest`, `unused` | `cache_init`, `cache_set`, `cache_get` | xor links that can only be unlinked at the tail; wrap of the ring; entries bigger than the ring | entries tile the ring, chains are exactly the live entries, a hit is the newest unexpired entry, evictions in FIFO order |
| **dns_transmit** `dns_transmit.c` | query, socket, packet buffer, `tcpstate`, `udploop`, `curserver`, `pos` | `start`, `io`, `get`, `free` | late and repeated answers, partial reads and writes, retries, errors at every byte | every resource released once; only an answer to the present question taken; every server gets its tries; it ends |
| **query** `query.c`, `dd.c` | per level: `name`, `control`, `ns`, `servers`, `ipv6`; `alias`, `loop`, `level` | `query_start`, `query_get` (both `doit`) | gotos between the labels of `doit`, nested look-ups of server names, aliases, referrals, bailiwick | zones stay above the names asked; nothing foreign enters the cache; the response fits the question; it ends |
| **dnscache** `dnscache.c` | `u[200]`, `t[20]`, `uactive`, `tactive`, `soaactive`, `numqueries` | `u_new`, `u_respond`, `u_drop`, `t_new`, `t_rw`, `t_respond`, `t_drop`, `t_close`, `t_free`, `t_timeout` | tables at their limit, eviction in mid-flight, buffers with five connection states, stale slot contents | each query settled once, to its asker; counters right; buffers owned once |
| **roots** `roots.c` | the table read from `servers/` | `roots_init`, `roots`, `roots_same` | nearest ancestor with a file | see query |
| **tinydns, tdlookup** `server.c`, `tdlookup.c`, `clientloc.c`, `edns0.c` | open `data.cdb`, the response | `respond` for each packet | wildcards, delegation, location, times, NSEC3 and RRSIG choice, alias loops, truncation, data replaced meanwhile | the answer is what the data hold for the name; denials are true and proven; data at most a second old |
| **tinydns-sign** | the lines of a zone | hashes, references, lists, signatures | what it writes must be where tdlookup looks | tdlookup finds it (see 5.1) |
| **data compilers** `tinydns-data.c`, `tinydns-edit.c` | temporary file | compile, edit, rename | death or crash between any two calls; letters chosen from a shared file | published files are whole; added lines do not collide |
| **axfrdns, axfr-get** | one version of `data.cdb`; serial, temporary file | transfer; fetch, write, rename | data replaced between the serial and the zone, broken transfers | the slave has exactly what it was sent; a skipped transfer is safe; the slave catches up |
| **dqcache and dq** `dq-20161210/dq/` | as dnscache, with keys and secrets per server; the cache on disk; the counter of nonces | as dnscache; signals TERM, ALRM, HUP | formats and keys mixed per round, duplicates, dumps in signal handlers | answers come from the server asked; bailiwick; the dump is whole; no nonce twice |
| **curvedns** `curvedns-0.88/` | UDP and TCP entries, shared-secret table, number of connections | libev callbacks | several events in one turn, retries with fresh ids, several queries on a connection, limit of connections | each client can read its answer; entries, sockets, watchers and listeners accounted for; table sound |
| **stub resolver** `dns_rcip.c`, `dns_rcrw.c`, `dns_resolve.c`, `dns_ip*.c`, `dns_mx.c`, `dns_name*.c`, `dns_txt.c` | servers and rewrite rules, kept for ten minutes or ten thousand uses | one call per argument | configuration that changes or is unreadable, rewriting in place | configuration at most ten minutes old; results belong to the name returned |
| **packets and names** `dns_packet.c`, `dns_domain.c`, `dns_dfd.c`, `dns_dtda.c`, `response.c` | response buffer, compression table | parse, compare, convert, compress | pointers, limits, truncation | a reader gets back what was written |
| **dnsfilter, dnstrace** | window of lines; tables of questions, servers, addresses | pieces of input and answers in any order | order | lines in order; every path once |
| **small servers** `rbldns.c`, `walldns.c`, `pickdns.c`, their compilers | `data.cdb` | `respond`; compile | masks, grouping, locations, death of a compiler | answers as the last complete compilation says |
| **address text** `ip4_*.c`, `ip6_*.c`, `iptostr.c`, `strtoip.c`, `strtomultiip.c` | none | format, scan, read lists | `::`, embedded IPv4, lists cut short | what is written is read back; lists keep what fits, in order |
| **dns-notify** `dns-notify.c` | `try`, the alarm | one zone after the other | an alarm that is not cancelled | bounded tries; no wait without alarm |
| **random numbers and hashes**, **logging and printing**, **dnsq, dnsqr, tinydns-get**, **sockets**, **set-up programs**, **cryptography** | | | | not modelled, section 6 |

The hazards of the code, each at its line and with the properties that would show it going
wrong, are in `PROJECT.json` under `hazards`.

## 2. Modules

| Module | Models | Extends |
|---|---|---|
| `CacheSpec` | what a user of the cache may rely on: a FIFO store | - |
| `Cache` | `cache.c` | instantiates `CacheSpec` |
| `CacheProofs` | proofs | `Cache` |
| `Transmit` | `dns_transmit.c` | - |
| `TransmitProofs` | proofs | `Transmit` |
| `Query` | `query.c`, `dd.c`, the look-ups of `roots.c` | - |
| `QueryProofs` | proofs, of `DqQuery` and `Nonce` too | `DqQuery`, `Nonce` |
| `Dnscache` | `dnscache.c` | - |
| `DnscacheProofs` | proofs, of `Dqcache` and `DqDump` too | `Dqcache`, `DqDump` |
| `ZoneData` | what lines of `data` become in `tinydns-data.c`, `axfrdns.c`, `axfr-get.c`, `tinydns-edit.c` | - |
| `Publish` | these programs as processes on files | `ZoneData` |
| `PublishProofs` | proofs, of `DnsNotify` too | `Publish`, `DnsNotify` |
| `Sign` | `tinydns-sign` | `ZoneData` |
| `Tinydns` | `server.c`, `edns0.c`, `tdlookup.c` | `Sign` |
| `TinydnsProofs` | proofs | `Tinydns` |
| `DqTransmit` | `dns_transmit.c`, `dns_sortip.c` of dq | - |
| `DqQuery` | `query.c`, `roots.c` of dq | `Query`; instantiates `DqTransmit` |
| `Dqcache` | `dqcache.c` | `Dnscache` |
| `DqDump` | `cache.c` of dq and the signals of `dqcache.c` | - |
| `Nonce` | `dns_nonce.c` of dq, the processes that share a key, the clock | - |
| `SecretCache` | `cache_hashtable.c` of curvedns | - |
| `Curvedns` | the rest of curvedns | `SecretCache` |
| `CurvednsProofs` | proofs | `Curvedns` |
| `Stub` | the stub resolvers of both packages and their programs | - |
| `Packet` | names, packets and responses of both packages | - |
| `Dnsfilter`, `Dnstrace`, `DnsNotify` | the programs of these names | - |
| `ToolsProofs` | proofs | `Stub`, `Dnsfilter`, `Dnstrace` |
| `SmallServers` | rbldns, pickdns, walldns and compilers | - |
| `AddressText` | addresses as text, lists of addresses | - |
| `KeyText` | keys and boxes as text, in dq and curvedns | - |
| `MCCache`, `MCTransmit`, `MCQuery`, `MCDnscache`, `MCPublish`, `MCTinydns`, `MCCurvedns`, `MCDq` | instances for TLC | the module of the same name (`MCDq`: `DqQuery`) |
| `MCDqcache` | the tables of dnscache and dqcache, the cache on disk and the nonces, each behaviour about one of them | `Dqcache`, `DqDump`, `Nonce` |
| `MCTools` | the client programs and small servers, each behaviour about one of them | their modules |

Operators with a suffix such as `u_new_evict_quiet` and the comment "mutant" are deliberately
wrong versions of the definition that follows them; they show that a property notices the
error and are used by nothing else.

### 2.1 Cache

State: the C variables `size, hsize, writer, oldest, unused`, the table of head links `head`
and the entries `ent`, a function from byte positions to records. `pc` says in which call and
at which loop the code is: `cache_init` (doubling `hsize`), `cache_set` (one eviction per
step, then the insertion), `cache_get` (one entry of the chain per step, with its counter
`loop`). Positions and lengths are the code's own, with its 20-byte header and 4-byte
heads.

A link in the code is the xor of two positions. Here it is the set of the non-zero positions
xor-ed into it and xor is symmetric difference. That is sound as long as every link followed
decodes to a single position, and a link that does not leads to `pc = "impossible"`, as do the
code's calls of `cache_impossible` and any use of an entry that has been overwritten or
evicted; so `NeverImpossible` is also what justifies the abstraction.

### 2.2 Transmit

State: the fields of `struct dns_transmit`, with allocation of query, socket and packet as
flags, and as history the queries sent, the bytes written to the TCP connection, the tries
per server. The loops of `thisudp` and `thistcp` are one candidate server per step; each
branch of `dns_transmit_get` is an action. The network may deliver the answer to any UDP
query ever sent by this client, at any time and any number of times. The deadline is
nondeterministic: a wait may time out whenever it lasts.
`dns_transmit_io` fills in the poll entry and changes nothing else; it appears only as the
premise that a wait ends by an event or by its deadline.

### 2.3 Query

State: the fields of `struct query`, by level. `pc` is the label of `doit` that comes next;
`"wait"` is the return value 0, while dns_transmit works. An action is one passage from a
label to the next, including every effect on the way. Abstractions:

* The cache is shared with the other queries and forgets whatever it likes, so at each
  look-up it may miss or hit with any data. `StoredFromZone` says what can get into it.
* A packet is a set of records per section, and any packet made of the records in `RR` may
  come. The code sorts records to bring equal owners and types together; sets need no order.
* `ns` and `servers` are sets: the code shuffles them, and empty places are skipped.
* Times to live are left out; where a TTL of 0, or an entry too large, keeps data out of the
  cache, the model lists the entry as stored, so what is proved of entries is proved of more
  entries than the code makes.
* The limits `maxlevel, maxalias, maxns, maxloop` come from the environment and are
  constants. The arrays of `struct query` have fixed sizes, and the code does not compare;
  the model takes the arrays to be as large as the limits.

### 2.4 Dnscache

State: the slots of `u` and `t`, the counters, and `pc`, `k`: the place in the loop of
`doit` and the slot in hand. The handlers are cut where one step of several may fail: choosing
a slot, receiving, starting the query. Resolving is external here: `query_start` and
`query_get` fail, respond or go on. As history every query has its last log line, its asker
and, for the blocks of TCP buffers, an allocation count.

### 2.5 Authoritative side

`ZoneData` has one operator per kind of line and per conversion, pure functions of the line.
`Publish` has the files (contents, durable or not, whole or not) and one process for each program with
its place; steps are open, lines, fsync, rename, and a fault is the death of a process, a broken
connection, or a crash that tears whatever was not synced. `Tinydns` has the job in hand (the
query, the names followed, the response so far) and the version of `data.cdb` that is open;
`doit` is one step per name of an alias chain, so that the data may be replaced, and time pass,
between packets but not within one, as in the code. Sections are sets; sizes are counted in
records for truncation. Hashes are an arbitrary injective function.

### 2.6 dq

`DqQuery` reuses the flow between levels of `Query` where the code does and has its own actions for
everything else; the exchange is a variable `dt`, a record of `DqTransmit`, so questions, retries
and keys are seen together. `Dqcache` takes its steps on the tables from `Dnscache` and adds the
limit on duplicates. `DqDump` runs `main` step by step. A signal may come at any step, be it one of start-up, of the stores by which `cache_set`
moves `writer`, `oldest` and `unused` (`stage`), or of the dump of the other signal: each handler blocks
only its own signal, and both use one buffer and one temporary file. What a handler sees amid those moves
depends on the order of the stores, which the compiler may choose, so `Found` is a set; what is no entry is
`Junk`, and loading it gives any entry or none. Otherwise the ring of `cache.c` is two queues there, because `Cache`
shows that it is a queue. A dump that began amid the moves, or that went on after another one had used
its buffer or file and lost something by it, is `struck`, and `kept` is what the file should have
if it is not. `Nonce` has the counter of
each process, the wall clock, and as history every nonce with its key; a clock may be set back, and
processes end and are started again.

### 2.7 curvedns

The state is the entries in use with their watchers, the events still to be handled in this
turn (`queue`), the listeners, and the table of secrets with its three kinds of links. Up to
`MaxReady` watchers are ready in one turn; a handler may stop the watcher of a later one. A box
is a record of secret, nonce and contents.

### 2.8 Client programs

`Stub` has the configuration and its copies in the library with their deadlines and use counts, a
call with its names under rewriting, and the exchange as an oracle. `Packet` works on bytes, with a
small radix so that pointers run out. `Dnsfilter` keeps `inbuf`, `partial` and the window `x`;
`Dnstrace` its four tables; `DnsNotify` the place in `SendPacket`, `try` and the alarm.
`SmallServers` has `data`, `data.tmp`, `data.cdb` and the compiler's line; `AddressText` writes an
address or a list and reads it back, and `KeyText` does the same with keys, boxes and the names that
carry them from dq to curvedns.

## 3. What TLC checks

Every run takes less than four minutes with two workers; those that show a disagreement (the
last row) take seconds. Deadlock is checked except where the programs end: curvedns (SIGTERM), the cache on disk and the client programs.

| Run | Instance | Shows |
|---|---|---|
| `cache` | 128 bytes with two buckets, and no cache; 3 keys (one too long), 4 lengths (two that fit, one larger than the block, one refused); a clock up to 2, chain limit 1 | `Linked`: the ring's layout and the chains; `NeverImpossible`, `MissHasReason`; `ImplementsCacheSpec`: cache.c implements the FIFO store; `CallsReturn` |
| `transmit` | 2 server slots, 2 questions after each other, 1 id | `Ownership`, `AnswerFits`, `QueryWritten`, `FairToServers`, `Terminates` |
| `query` | 6 names, 2 configured, 3 levels, loop limit 5, packets with a record per section | `ZonesCover`, `StoredFromZone`, `ResponseFits`, `Progress`, `Terminates` |
| `dnscache` | dnscache and dqcache: 2 UDP slots, one connection, 2 clients, 3 arrivals, MAXSOA 1, duplicates 1; disk: 3 keys (one is a secret), 2 entries, signals and handlers at any store of one process; the same with one record at a time, 2 starts and a clock up to 2; nonces: 3 processes, two of which share a key, 2 start-ups, 2 nonces | `ServesAsker`: every query settled once, to its asker, counters, buffers and poll entries right; `DiskSound`: the file on disk is whole (`DumpWhole`) and keeps no entry longer than it was meant to last (`NoneProlonged`); `NonceOnce` |
| `dnscache_live` | one slot of each kind | `AllEnds`: queries are settled, connections closed |
| `publish` | 2 modifications by tinydns-edit or by hand, 1 fault, 3 seconds | `PublishedWhole`, `SkipIsSafe`, `EditsDistinct`, `RoundTrip`, `Converges` |
| `tinydns` | two versions of a zone, unsigned and signed, 19 names, 4 seconds | `RightAnswer`, `LoopsEnd`, `FreshData`, `Proven` |
| `curvedns` | 2 entries, 2 listeners, 1 connection at a time, 2 tries, 2 secrets, 2 events per turn | `AnswersAsker`, `Accounted`, `TableSound` |
| `dq` | 2 levels, loop limit 4, 2 rounds, both formats, servers with and without keys | `AcceptsOwn`, `Inside` |
| `tools` | the client programs and small servers | `LooksUp` (stub: `ConfigFresh` and `LineFits`), `LinesInOrder` (dnsfilter), `TracesAll` (dnstrace), `Decodes` (packets), `ServesData` (small servers), `TextsRead` (addresses and keys), `TellsEach` (dns-notify) |
| `dnscache_soa`, `sign_lists` | as `dnscache_live` with 2 slots; as `tinydns` with a zone as tinydns-sign signs it | bugs, section 5.1 |

### 3.1 Why the bounds are enough

* Cache: keys collide and do not; two lengths that fit several times reach every relation of
  `writer`, `oldest`, `unused` and `size`, including a wrap that leaves an unused tail; the large
  entry empties the ring. The chain limit 1 makes the give-up after `MaxLoop` entries reachable.
  The ring and chain invariants are also proved for all sizes.
* Transmit: a second question is what makes answers late, and a single id makes every late answer
  have the id of the second; two slots make "next server" and "next round" differ. Two bytes are
  enough for a partial write; lengths 0 and 2 cover an empty and a partial packet.
* Query: cached NS sets are only used below level 2 (`level < 2`), so three levels show both
  cases. Four loops are enough for alias, referral, nested look-up and answer. The names
  give a zone with its own file below one without (`in` under `com`), a name without file, and
  the names answered locally. The invariants are proved for all names and limits. For dq, two
  levels and two rounds are what a key must survive: a nested look-up and a retry.
* Dnscache: two slots are the least for which "oldest" means something; arrivals exceed the
  slots, so that tables overflow and slots are reused.
* Cache on disk: two places for entries are the least for which the order in the file, and entries that are there twice,
  can show; one record that stays in memory tells which are left out. The limit on TTLs, two seconds, is below one of them, so that
  it is cut. Two starts are a death and what is loaded after it. The two questions are parts of `MCDqcache` with bounds
  of their own (`Signals`, `Restarts`); that signals nest only in the first is a bound, too. `DumpWhole` and `NoneProlonged` are proved for all numbers.
* Publish: a second modification is what can come between serial and transfer, and one fault may
  fall between any two steps. Tinydns: two versions are what a reload can confuse, two seconds
  apart at least once; the zone has each kind of name that a lookup tells apart (see
  `MCTinydns`), and nine addresses exceed the limit of eight.
* Curvedns: two events are the least for which one handler can spoil another, two listeners for
  which "all" differs from "one's own"; two entries of the table in two buckets with three keys
  give chains of one and two, and evictions from each. `recvfrom` may fail; `accept` may have nothing, and what it does
  when it fails otherwise (AcceptResults with `"error"`) is covered by the theorem only. Nothing tells one listener
  from the other, so they are symmetric.
* Tools: sizes such as a read buffer of 3 tokens, 2 look-ups, 4 compressed names and a radix of 2
  bring every limit within reach of a few lines or records. The 96 characters of a text that rbldns keeps are 2 here.

### 3.2 Fairness

* Cache: a call, once made, runs to its end (weak fairness of the steps inside calls); nothing
  forces a caller to call.
* Transmit: the loops run to their end, and a wait that no event ends is ended by its deadline.
  `dns_transmit_get` looks at the clock only when the socket has no event. Over TCP every event
  moves the exchange on, so this costs nothing; over UDP weak fairness of `get_timeout` is an
  assumption about the network: useless packets do not arrive without a pause for ever.
* Query: `doit` is called again when dns_transmit is done, which it always is (`Terminates`
  of Transmit).
* Dnscache: the loop goes on (weak fairness of `doit`), time passes (weak fairness of `Expire`),
  and a query that is asked about again and again ends (strong fairness of `u_end`, `t_end`:
  `Terminates` of Query and Transmit). Arrivals are bounded, which stands for the
  assumption that a client does not keep a connection busy for ever.
* Publish: tinydns-data is run again while `data` is newer (a Makefile does that), axfr-get is run
  again and again (cron), and either goes on once started; faults are bounded, edits too.

## 4. What is proved

`CacheProofs`, `TransmitProofs`, `QueryProofs`, `DnscacheProofs`, `PublishProofs`, `TinydnsProofs`,
`CurvednsProofs` and `ToolsProofs` are checked by TLAPS without gaps. Each proves `Spec => []IInv` for an inductive invariant and draws the
theorems from it, for every value of the constants. The constants have only the assumptions named in
the modules (`LenAssumption`, `NumAssumption`, `NoneAssumption`, `TransmitAssumption`, ...), which TLC
evaluates on every run. Where a proof goes along a sequence or the rounds of a loop, the induction is over
its counter, as a fact about the set of numbers for which it holds (`UpTo` in `ToolsProofs` and its like), and the loop
is a recursive function.

**CacheProofs.** In three layers. `RingIInv == TypeOK /\ Sizing /\ RingInv /\ Tiled`: pointer
order alone is not inductive, because an eviction moves `oldest` by the length found in the
entry, so it must be known that the entries tile the two parts of the ring without gaps; and
`Sizing` carries the bounds of `hsize` through the loop of `cache_init`. This gives `CacheTypeOK`
and `CacheRing`. Then `IInv == RingIInv /\ ChainsLinked /\ WalkOnCourse /\ NeverImpossible`: the
oldest entry of the ring is last in `Before` (`VictimIsOldest`), hence the tail of its chain, so
its link is just its predecessor and the two xors of the eviction code unlink it (`ChainsEvict`);
a new entry is first in `Before`, hence the new head (`ChainsInsert`); a walk that knows an entry
and its predecessor gets the successor (`WalkStep`). `CacheLinked`, `CacheNeverImpossible` and
`CacheWalk` follow.

The third layer is the refinement, `CacheImplements`. `Queue`, what the ring is for `CacheSpec`, is
defined by ranks: the number of entries that are newer. `RankFacts` shows that the ranks are the
numbers from 0 on, without gap or repetition, and `QueueFacts` that `Queue` is the entries in that
order; `QueueForgets` and `QueueStores` then say that an eviction takes the last of the queue and
an insertion puts one in front, and `AbstractStep` puts together, action by action, that a step of
`cache.c` is a step of `CacheSpec` or a stutter. The invariant this needs is `RInv == IInv /\
WalkCounts /\ Fresh`: `loop` is the number of entries of the bucket that a look-up has passed (so
that one that gives up has passed more than `MaxLoop`), and no entry expires later than `MaxTTL`
from now. `CacheMissHasReason` is an action property of the same invariant.

**TransmitProofs.** `IInv == TypeOK /\ Ownership /\ Consistent /\ AnswerFits /\ QueryWritten`.
`Consistent` says that the query under way is the question last asked, that a wait is for a
server of the list, and that a connection in state 1 has had nothing written. `MoveOn` and
`FailStep` are the two ways out that nearly every branch takes. The step for writing rests on
`WriteMore`: the next bytes extend a prefix of the query to a longer prefix. `TransmitFairToServers`
needs more, `FairInv`: by UDP a server has been tried `udploop - firstloop` times, and once more if
`curserver` has passed it in this round; by TCP once if it has been passed, else never; and a list that
fell back from UDP to TCP starts again with none tried. Only from these equations does it follow that giving up
(`udploop` at its limit, or `curserver` past the list) means that all have had their turns.

**QueryProofs.** `IInv == TypeOK /\ Named /\ ControlInName /\ AsksInside /\ ChainKept /\
ResponseFits`, together with `Running` (the loop counter is below its limit while a query is
under way). `Named` says that each level in use has a name and that level 0 is never left
downwards; `ChainKept` is what `rqa` would write now. The lemma `FileZone` shows that the nearest
file of a name is the nearest file of that file's own zone, and `Between` that a name between
two which share their nearest file shares it too: the reason why a referral keeps `AsksInside`. The assumption
needed about names is that among some ancestors of a name one is the nearest. There is one
lemma for each way a label ends (`EndStep`, `UseZoneStep`, `CNAMEStep`, ...), and the actions are
put together from them. `QueryStored` (nothing foreign enters the cache, negative entries
included) follows from the invariant before the step; `QueryProgress` is an action
property and the safety half of termination.

`QueryZones` states both parts of `ZonesCover`.

The flow between levels is the same in dq, so `InvIn(A)` states the invariant with what servers are (addresses
here, in dq addresses with a key, a format and a zone) as its parameter, and `DqInv == InvIn(Server) /\ Running /\
(pc = "wait" => Goes(dt, servers[level], d))` adds the exchange: `Goes` says that the query on its way was made for the server
`curserver` names, with its kind and key, that an answer taken from a server with a key was sealed with that key, and
what the name of the exchange is (`Sound`). The name stays the caller's as long as it is not in the buffer that a query in a box
overwrites. It gets there with a plain query; in the first pass (`First`) only servers without a key are left then,
because `dns_sortipkey` puts these last, and a list without keys never overwrites anything (`~Both`). In a later pass over a
list with both, the name may be `Garbled`. `DqAcceptsOwn` is that for the
answer taken: it is for the name asked unless servers of both kinds are asked a second time, and then for the name or for
what is left of it; `DqInside` and `DqResponse` are the bailiwick and the response as for dnscache. `DqAssumption` has types only.

`NonceNeverTwice` rests on `NonceInv`, made of types, `Clocks` (a process is not behind its own nonces, and
neither it nor they are ahead of the clock unless that was set back) and `Grows` (later nonces of a process have higher
counters). Two processes with one key differ in the first bits, which `$NONCESTART` fixes; that is an assumption
about the settings, the one dqcache.8 asks for.

**DnscacheProofs.** `IInv == TypeOK /\ LogInv /\ UInv /\ TInv /\ PollInv /\ Bounded`. `LogInv` states
over functions, not sets of holders, that the slots in use have different queries, that those are just the
queries logged and not settled, and what the log says of each (`Settling`); an action then only has to say
which slot takes or loses a query. `UInv` and `TInv` have the counters, as cardinalities of
the slots in use, and what is known of the slot in hand between two parts of a handler: `u_recv` begins
with a free slot (why the sender's address may go there), and `t_query` with a query read whole. `SoaCounted`
is proved under its condition that no query was refused before its type was noted, the bug of 5.1.
`DqcacheImplements` is a refinement without a mapping: each step of dqcache is one of dnscache on the tables,
so all this holds of dqcache, too.

`DqDiskSound`, from `DqDumpWhole` and `DqNoneProlonged`, is about the cache on disk. `DumpInv == DumpTypeOK /\ Times /\ Under /\ DumpWhole`.
`Times` says of every place where an entry may be (the cache, a walk, what is left to dump or to load, both files) that it is
`OnTime`: it expires no later than it was meant to when it was new, plus the seconds loading has taken, or is `Junk`.
`Under` is about a dump that is not struck (`Going`): its walk has no `Junk`, and what is in its file is `Partial`, the
records of what it has passed; once another dump has used the buffer (`lost`), which can only be so for SIGTERM's, the file has all
of them already. `InOrder` and `Partial` state the selection by a map of places, not by a recursion.

**PublishProofs.** `PubInv == DiskOK /\ ProcOK /\ PublishedSafe /\ WritersSafe`: a published file is whole
*and durable*, for a crash tears what is not; and a writer about to rename has synced a whole file.
The temporary file belongs to one writer, which is why no other step disturbs this.

`EditsApart` follows from `EditInv` on top of it: what tinydns-edit has read, what it has put together and
what is in its temporary file clash no more than `data`, and the letter chosen differs from all that were *seen*. That those were all there are needs
that only one tinydns-edit runs; lines added by hand are not counted as its own. `PublishAssumption` says that the data to begin
with has no clash, that a name is a sequence of letters and that `Lower` is idempotent.

`NotifyTellsEach` rests on `NotifyInv`: zones not reached are untouched, the present one was sent as often as `try` counts, the alarm is
set wherever dns-notify waits and is not blocked when it looks. `NotifyAssumption` bounds the model's `try` above the option -r.

**TinydnsProofs.** `TinydnsFresh` relates the version that is open to the clock: it was in `data.cdb` at most a second before
it stops being valid, and a query in hand was read while it was (`JobFresh`).

**CurvednsProofs.** `Inv == Started /\ Stored /\ Mem /\ AnswersAsker`, with `Mem == Held /\ Counted /\
Queued`. What `Sound` says of the table of secrets, over walks along three kinds of links, is not inductive
by itself. `Laid` says instead how the table is laid out: the used entries are a sequence in the order of
their age, the unused ones another, and every link is a function of the two (the list of a bucket is the part
of the first sequence that hashes there, newest first). `InsertLaid`, `TakeHalf`, `EvictHalf` and `EmptyTable`
are then about moving the ends of the sequences, and `ListWalk` and `ChainMembers`, by induction along
the sequence, bring back what the code's walks reach. That an evicted entry is the last of its bucket, so
that `cache_set` may cut the chain there, follows from the order of age and nowhere in the code.
`AnswersAsker` needs `Held`: what is kept of a query *fits* it, which `Analyzed` shows for every format
whatever an earlier query of the connection left in the fields, and which a new id (`FitsAgain`) does
not disturb; or else the query came after SIGTERM had freed the table, and then no event of its entry is left. `Accounted`
is proved for whatever `recvfrom` and `accept` say. An entry whose `recvfrom` failed (`Abandoned`) has no watcher and
none of its events is left; `Watched` says that all others have a timer and their socket. That the abandoned ones stay for ever is
the bug shown by `AllWatched` (5.2).

**ToolsProofs.** *dnstrace.* `AllTraced`: the list `qt` has each entry once, and its entries are exactly the paths that the
three tables give (`Paths`): a question, a server of a zone above its name, an address of the server. Each table may be the last
to learn what makes a path, so `query_add`, `ns_add` and `address_add` each run through the other two; `LoopAll` and its like
prove by induction over the counters that a loop adds exactly the paths that go through the new row. That `main` asks only
servers of zones above the name follows, so the test of `dnstrace.c:488` is redundant. `TraceAssumption` says that lists
are sequences.

*The stub resolver.* `StubInv == StubTypeOK /\ FreshInv /\ NameInv /\ AskInv /\ FoundInv /\ LineFits`. `FreshInv`: while a loaded copy is
not expired the file said so within the last ten minutes. `NameInv`: the buffer in which the alternatives are put
together has been changed only between the first plus and the present one, so what is to be copied next is as it
was; and the alternatives before this one had nothing. `AskInv`: what has come is what the questions answered so far give,
in the order in which they are asked, or an exchange has failed. `StubAssumption` says that names and rules are
sequences, that the empty name is no IPv6 address, and that a configuration read always gives servers and rules, as
`init` of `dns_rcip.c` and of `dns_rcrw.c` do (127.0.0.1, and the domain of the host, if there is nothing else).

*dnsfilter.* `LinesInOrder` compares what is printed with the lines of the whole input, which the program never holds.
`FilterInv` gives the text in memory its place in the input (`Placed`): there are a <= b <= r such that `partial` goes from a to b,
`inbuf` from b to r, the unread rest from r on, a is 0 or the end of a line, and between a and b there is no newline; the lines
printed and in the window are together as many as end up to a (`Taken`), and each is what its line of the input gives (`Listed`).
A word is looked up if it is an address or only begins with one, for `ip4_scan` takes a prefix (`Filtered`;
`rts.exp:189` expects the name of 131.193.178.100 after `131.193.178.100+one`).
`LineIs` then says that the text from a to the next end is the next line, which is what `take` puts into the window, and `PlacedLines`
that nothing is missing once nothing is left. `FilterAssumption` says that inputs are sequences and `maxactive` is a number,
`LookupAssumption` that an address is neither a space nor a newline and that a name is not empty; no property of
`xmax` or of the size of the buffer is needed.

Only model-checked, and why:

* liveness (`CallsReturn`, `Terminates`, `AllEnds`, `Converges`), which is beyond the prover;
* properties whose reference is itself computed by a recursion over a list of records, a name or a text: `RoundTrip`, `SkipIsSafe`,
  `RightAnswer`, `Proven`, `LoopsEnd`, `Decodes`, `TextsRead`, `ServesData`. They would need induction over data, or their
  modules declare RECURSIVE operators.

## 5. Where code and documentation, or two programs, disagree

### 5.1 Shown by a run

* `dnscache_soa` (bug, `dnscache.c:85`): `query_start` refuses AXFR before it notes the type of
  the query, so `u_drop` goes by the type of the slot's previous query. If that was SOA,
  `soaactive` is lowered for nothing, and afterwards more than MAXSOA SOA queries get in.
  `SoaCounted`, a part of `ServesAsker`, shows that the counter is right as long as this has not happened.
* `sign_lists` (bug, `tdlookup.c:234`): tinydns looks for the lists of hashes under the letter 'A'
  plus the nibble, tinydns-sign writes them under the hex digit; a DNSSEC query for a name that
  does not exist gets no response. The `tinydns` run has the lists where tinydns looks.
### 5.2 Shown by changing a run

Each of the following is an invariant that the documentation, a comment or a test says there should be, stated in the module but not
true of the code. Put in place of the properties of the run's configuration, TLC finds it violated in seconds.

| Invariant, run | Code | What says otherwise |
|---|---|---|
| `AddressesFromZone`, `query` | `query.c:1238`: in the look-up of a server's address, A records count only for the name asked, AAAA records for any owner, outside the zone of who sent them too | `dnscache.8:212-223`: records outside a server's bailiwick are not cached or passed along |
| `ForwardsOnly`, `query` with `flagforwardonly = TRUE` | `query.c:1320`: a referral from a configured cache is followed to the servers it names | `dnscache.8:108-117`: queries go to those caches "rather than contacting a chain of servers according to NS records" |
| `WalksEntries`, `dnscache` | cache.c:177 of dq: `cache_set` moves `writer`, `oldest` and `unused` one by one with no signal blocked, so that a dump may find entries twice, or memory that holds none | the comment at cache.c:38-46 of dq, which `cache_dump` relies on |
| `ServesAlike`, `publish` | `axfr-get.c:227`: the numbers of an SRV record are written in another order than `tinydns-data.c:450-458` reads; a slave serves other numbers than its master | `axfr-get.8:29`: results can be used as input to tinydns-data; `doc/ChangeLog:15` |
| `WildcardsApply`, `tinydns` | `tdlookup.c:541`: the search for a wildcard stops at the first name that exists, so a wildcard does not apply below a name with records of its own | `tinydns-data.8:641-663` and the test at `rts.exp:646-650`, "handles overrides sanely" |
| `CaseIgnored`, `tinydns` | `tdlookup.c:562`: the name an alias points to is looked up as it is spelled in `data`, the keys of `data.cdb` are in lower case; an alias of `WWW.ex` gets a denial of a name that exists | `CHANGES:50`: tinydns-data allows any case in domain names |
| `AllWatched`, `curvedns` | event_udp.c:103-113 of curvedns: timer and read watcher are stopped before `recvfrom`; if that fails nothing starts them again and the entry stays for ever | the comment at line 111: the event will be triggered again |
| `AsksName`, `dq` | dns_transmit.c:53 of dq: with servers with and without a key in one list, a query in a box overwrites the name that a plain one left in the buffer, and later queries ask for what is left | the comment at dns_transmit.c:505-506 of dq |
| `TextWhole`, `tools` | `rbldns.c:54`: a text of more than 96 characters (`MaxText`) is cut before its last character is looked at, so a `$` at its end is lost | `rbldns-data.8:79-86`: a `$` that ends the text is replaced by the address |
| `RejectsOutside`, `tools` | `walldns.c:26`: names made of an address outside in-addr.arpa get an A record, as `rts.exp:803` expects | `walldns.8:55-60`: queries for domains outside in-addr.arpa are rejected |

What the runs check leaves none of these cases out, and says what the code does in them. `DumpWhole` says what the file is unless
its dump was `struck`; `RoundTrip` expects the three numbers in the order in which a slave reads them, and all else
of a zone, `S` lines included, unchanged. `RightAnswer` takes the code's rule for
wildcards (`WildStop`) and names as they are spelled, and `Proven` leaves out the denial of an alias's target in capital letters.
`Accounted` says that an entry without watchers has no event left, and that all others are watched; `AcceptsOwn` says when an
answer may be for an overwritten name. `ServesData` takes the text as cut, and says exactly which names walldns
answers, in either form, and with what.

### 5.3 Observations from reading

dnscache: `dnscache-log.5:185` speaks of 400 UDP queries (MAXUDP is 200) and of another query being
received, while `u_new` drops the oldest query before it receives; `dnscache.8:236` says SOA records
are not cached, but `query.c:1009-1035` stores those of answers; the comment at `dns_transmit.c:259`
counts `udploop` tries, but a recursive question starts with `udploop = 1`. The start times of
slots come from the wall clock, so after it is set back another slot than the oldest is taken. The
limits from the environment (`dnscache.c:464`) are not compared with the array sizes.

tinydns and its data: with hashes in `byNibble` the smallest hash of a nibble above 0 lacks the hash
before it, so a digest that is smaller gets the wrong proof (the `tinydns` run has
hashes in nibble 0), and if all are in nibble 0 the loop at `tinydns-sign:257` does not end; `tinydns-sign`
ignores `S` and `_` lines and shifts the fields of the `Z` line it makes of a `.` line; answers by a wildcard CNAME lack the proof that the
name does not exist; names without records of their own are denied in unsigned zones and do not stop wildcards;
`response_tc` leaves the counts in the header; the limit on aliases compares a signed char;
the client's location comes from `data.cdb` as it is now, the records from the version that is open;
after the clock is set back the open version stays; two runs of tinydns-data, or of axfr-get for a
zone, share a temporary file; a record with a time of death lives on at a slave; expired signatures
are left out of answers.

dq: stale poll results after a signal (`dqcache.c:386`) call handlers for nothing; a signal during
start-up overwrites the dump with what was loaded so far; ALRM's handler amid TERM's dump shares its buffer and temporary file
(both in `DqDump`); SIGHUP replaces the roots while searches use
them; duplicates are counted by the present (aliased) name; loading prolongs entries by the time
it takes (`slack`); a failed look-up is stored under the type of the client (`query.c:391`); after a
lame answer a secret may be made of a secret (`dns_transmit.c:506`); `flagds` is
never cleared (`dns_rcrw.c:79`).

curvedns: a failing accept closes descriptor 0 (`event_tcp.c:384`), EAGAIN leaks the entry; the name of a
second TXT query on a connection leaks; the length check of streamlined replies allows 32 bytes where 48
are added; SIGTERM frees what events of the same turn may still use; a packet from another
address ends a UDP query.

Client programs: `dns_ip6.c:98` returns 0 either way; dnsip6 refuses names that begin like an IPv4
address; `dns_rcip.c` and `roots.c` keep four servers; the ip6 scanner returns one less for a text
that ends in `::`, so server.c refuses such an `$IP`; `ip6_fmt` reads two bytes behind the address
(without effect); rbldns-data takes prefixes below 8 and addresses with host bits, which are never found;
`pickdns.c:54` lower-cases three bytes too many; dnstrace follows aliases of other names (`dnstrace.c:330`).
dns-notify takes any packet for a reply, sends the header in host byte order and bit-field layout, writes to
descriptor 0 without `-s`, waits for ever with `-t 0`, and jumps into a call that has
returned if the alarm goes off between two zones.

## 6. Not modelled

* Random numbers and hashes (`dns_random.c`, `siphash.c`, `sha1.c`, `base32hex.c`) and cryptography
  (nacl, `dq-20161210/crypto`): arithmetic on bit strings; ids are any member of a set, hashes any
  function, boxes values that open with the right key.
* Logging and printing: formatting only.
* dnsq, dnsqr, tinydns-get, random-ip, cachetest: argument parsing around one call that is modelled.
* Sockets: one system call each; what can fail is a choice in the calling module.
* Set-up programs: one-shot creation of files, and privilege dropping.

Within modelled components: `cache_motion` (a statistic), log text, times to live in Query and DqQuery
(where a TTL keeps data out of the cache the model lists it as stored), the start-up of dnscache,
`okclient` and `packetquery` (a packet is acceptable or not), `malloc` failures inside Query
other than as a general failure; field syntax of data lines; keys and signature arithmetic of tinydns-sign;
axfrdns's TCP reads; curvedns's settings beyond their clamping, its base32 and key generator; accept failures of
curvedns other than EAGAIN (in no run, but in the theorems); the bytes of dns-notify's packet.

## 7. Plan

Proofs: `LoopsEnd` of tinydns; the lines of `ZoneData` as
functions of positions, so that `RoundTrip` and `SkipIsSafe` can be stated without recursion.

Models: the composition of Dnscache with Query, and of Query with Transmit and Cache, replacing the
nondeterministic environment of each by the abstract specification of the other.
