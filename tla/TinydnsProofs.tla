--------------------------- MODULE TinydnsProofs ---------------------------
(***************************************************************************)
(* Machine-checked freshness of the data of tinydns: for every data file,  *)
(* query and time of a replacement.                                        *)
(***************************************************************************)
EXTENDS Tinydns, TLAPS

Versioned == DOMAIN Versions \cup {0}

TinydnsTypeOK ==
  /\ now \in Nat /\ held \in [Versioned -> Nat]
  /\ DOMAIN cdbs = DOMAIN Versions /\ file \in Versioned
  /\ srv.c \in Versioned /\ srv.valid \in Nat /\ {"c", "valid", "loc"} = DOMAIN srv

\* An error, or a query that respond works on.
JobFresh ==
  job # None =>
    \/ job.pc = "send" /\ "cur" \notin DOMAIN job
    \/ /\ {"pc", "cur"} \subseteq DOMAIN job
       /\ job.pc \in {"doit", "send"} => job.cur \in Nat /\ held[srv.c] >= job.cur - 1

\* What the server has open was in data.cdb a second before it stops being
\* valid.
TinydnsFresh ==
  /\ TinydnsTypeOK /\ JobFresh
  /\ held[file] = now /\ \A v \in Versioned : held[v] <= now
  /\ srv.valid >= now => held[srv.c] >= srv.valid - 1

LEMMA TinydnsInit == Init => TinydnsFresh
<1> SUFFICES ASSUME Init PROVE TinydnsFresh
  OBVIOUS
<1>1. /\ DOMAIN cdbs = DOMAIN Versions /\ file = 0 /\ now = 1 /\ job = None
      /\ held = [v \in Versioned |-> IF v = 0 THEN 1 ELSE 0]
  BY Zenon DEF Init, Versioned
<1>2. srv.c = 0 /\ srv.valid = 0 /\ {"c", "valid", "loc"} = DOMAIN srv
  BY Zenon DEF Init
<1>3. held \in [Versioned -> Nat] /\ held[0] = 1
  BY <1>1 DEF Versioned
<1> QED
  BY <1>1, <1>2, <1>3 DEF TinydnsFresh, TinydnsTypeOK, JobFresh, Versioned

\* A step of doit ends the query, or keeps its time.
Ongoing ==
  \/ job' = None
  \/ \E resp, links : job' = [job EXCEPT !.pc = "send", !.resp = resp, !.links = links]
  \/ \E resp, q, links : job' = [job EXCEPT !.resp = resp, !.q = q, !.links = links]

LEMMA DoneKeeps ==
  ASSUME NEW resp, Done(resp)
  PROVE  Ongoing
BY Zenon DEF Done, Ongoing

LEMMA ProceedKeeps ==
  ASSUME NEW s, NEW q, NEW control, NEW auth, NEW w, NEW found, NEW cnames, NEW gave, NEW resp,
         Proceed(s, q, control, auth, w, found, cnames, gave, resp)
  PROVE  Ongoing
BY DoneKeeps, Zenon DEF Proceed, Ongoing

LEMMA DoitKeeps == doit => Ongoing
<1> SUFFICES ASSUME doit PROVE Ongoing
  OBVIOUS
<1> QED
  BY DoneKeeps, ProceedKeeps, ZenonT(60) DEF doit

\* Whatever time and data.cdb do, what is open grows no older than it is.
LEMMA HeldGrows ==
  ASSUME TinydnsFresh, UNCHANGED <<cdbs, srv, job>>,
         now' \in Nat, now' >= now, file' \in Versioned, held' \in [Versioned -> Nat], held'[file'] = now',
         \A v \in Versioned : held'[v] >= held[v] /\ held'[v] <= now'
  PROVE  TinydnsFresh'
<1> USE DEF TinydnsFresh, TinydnsTypeOK, Versioned
<1>1. TinydnsTypeOK'
  OBVIOUS
<1>2. JobFresh'
  BY DEF JobFresh
<1>3. (srv.valid >= now => held[srv.c] >= srv.valid - 1)'
  OBVIOUS
<1> HIDE DEF TinydnsTypeOK, Versioned
<1> QED
  BY <1>1, <1>2, <1>3

LEMMA TinydnsStep == TinydnsFresh /\ [Next]_vars => TinydnsFresh'
<1> SUFFICES ASSUME TinydnsFresh, [Next]_vars PROVE TinydnsFresh'
  OBVIOUS
<1>0. /\ now \in Nat /\ held \in [Versioned -> Nat] /\ DOMAIN cdbs = DOMAIN Versions /\ file \in Versioned
      /\ held[file] = now /\ (\A v \in Versioned : held[v] <= now) /\ DOMAIN Versions \subseteq Versioned
  BY DEF TinydnsFresh, TinydnsTypeOK, Versioned
<1>j. UNCHANGED <<cdbs, file, held, now, srv>> /\ JobFresh' => TinydnsFresh'
  BY DEF TinydnsFresh, TinydnsTypeOK
<1>1. CASE receive
  <2>1. PICK q \in Queries : job' = None \/ (\E rcode : job' = Reply(q, rcode)) \/ job' = Accepted(q)
    BY <1>1, Zenon DEF receive
  <2>2. JobFresh'
    BY <2>1 DEF JobFresh, Reply, Accepted
  <2> QED
    BY <1>1, <1>j, <2>2 DEF receive
<1>2. CASE send
  BY <1>2, <1>j DEF send, JobFresh
<1>3. CASE locate
  <2>1. job # None /\ job.pc = "locate" /\ job' = [job EXCEPT !.pc = "open"] /\ UNCHANGED <<cdbs, file, held, now>>
    BY <1>3 DEF locate
  <2>2. \E loc : srv' = srv \/ srv' = [srv EXCEPT !.loc = loc]
    BY <1>3, Zenon DEF locate
  <2>3. TinydnsTypeOK' /\ UNCHANGED <<srv.c, srv.valid>>
    BY <2>1, <2>2 DEF TinydnsFresh, TinydnsTypeOK
  <2>4. JobFresh'
    BY <2>1 DEF TinydnsFresh, JobFresh
  <2> QED
    BY <2>1, <2>3, <2>4 DEF TinydnsFresh
<1>4. CASE open
  <2> DEFINE Started == [job EXCEPT !.pc = "doit", !.cur = now]
  <2>1. job # None /\ job.pc = "open" /\ {"pc", "cur"} \subseteq DOMAIN job /\ UNCHANGED <<cdbs, file, held, now>>
    BY <1>4 DEF open, TinydnsFresh, JobFresh
  <2>2. \/ srv.valid < now /\ srv' = [srv EXCEPT !.c = 0] /\ job' = None /\ file = 0
        \/ srv' = [srv EXCEPT !.c = file, !.valid = now + 1] /\ job' = Started
        \/ ~(srv.valid < now) /\ srv' = srv /\ job' = Started
    BY <1>4 DEF open, NotValid
  <2>s. srv.c \in Versioned /\ srv.valid \in Nat /\ {"c", "valid", "loc"} = DOMAIN srv /\ 0 \in Versioned
    BY DEF TinydnsFresh, TinydnsTypeOK, Versioned
  <2>3. TinydnsTypeOK'
    <3>1. (srv.c \in Versioned /\ srv.valid \in Nat /\ {"c", "valid", "loc"} = DOMAIN srv)'
      <4>1. CASE srv' = [srv EXCEPT !.c = 0]
        BY <2>s, <4>1, <2>1, <1>0 DEF Versioned
      <4>2. CASE srv' = [srv EXCEPT !.c = file, !.valid = now + 1]
        BY <1>0, <2>1, <2>s, <4>2 DEF Versioned
      <4>3. CASE srv' = srv
        BY <2>s, <4>3 DEF Versioned
      <4> QED
        BY <2>2, <4>1, <4>2, <4>3
    <3> QED
      BY <1>0, <2>1, <3>1 DEF TinydnsTypeOK, Versioned
  <2>4. (srv.valid >= now => held[srv.c] >= srv.valid - 1)'
    <3>1. CASE srv.valid < now /\ srv' = [srv EXCEPT !.c = 0]
      BY <1>0, <2>1, <2>s, <3>1
    <3>2. CASE srv' = [srv EXCEPT !.c = file, !.valid = now + 1]
      BY <1>0, <2>1, <2>s, <3>2
    <3>3. CASE srv' = srv
      BY <2>1, <3>3 DEF TinydnsFresh
    <3> QED
      BY <2>2, <3>1, <3>2, <3>3
  <2>5. JobFresh'
    <3>1. CASE job' = None
      BY <3>1 DEF JobFresh
    <3>n. SUFFICES ASSUME job' # None PROVE JobFresh'
      BY <3>1
    <3>2. CASE job' = Started
      <4>1. job'.cur = now /\ DOMAIN job' = DOMAIN job
        BY <2>1, <3>2
      <4>2. held'[srv'.c] >= now - 1
        <5>1. srv'.valid >= now
          <6>1. CASE srv' = [srv EXCEPT !.c = file, !.valid = now + 1]
            BY <1>0, <2>s, <6>1
          <6>2. CASE ~(srv.valid < now) /\ srv' = srv
            BY <1>0, <2>s, <6>2
          <6> QED
            BY <2>2, <3>n, <6>1, <6>2
        <5>2. held'[srv'.c] >= srv'.valid - 1 /\ held'[srv'.c] \in Nat /\ srv'.valid \in Nat
          BY <1>0, <2>1, <2>3, <2>4, <5>1 DEF TinydnsTypeOK
        <5> QED
          BY <1>0, <5>1, <5>2
      <4> QED
        BY <1>0, <2>1, <4>1, <4>2 DEF JobFresh
    <3> QED
      BY <2>2, <3>1, <3>2
  <2> QED
    BY <1>0, <2>1, <2>3, <2>4, <2>5 DEF TinydnsFresh
<1>5. CASE doit
  <2>1. job # None /\ job.pc = "doit" /\ UNCHANGED <<cdbs, file, held, now, srv>>
    BY <1>5 DEF doit
  <2>2. {"pc", "cur"} \subseteq DOMAIN job /\ job.cur \in Nat /\ held[srv.c] >= job.cur - 1
    BY <2>1 DEF TinydnsFresh, JobFresh
  <2>3. job' = None \/ (DOMAIN job' = DOMAIN job /\ job'.cur = job.cur)
    BY <1>5, <2>2, DoitKeeps DEF Ongoing
  <2>4. JobFresh'
    BY <2>1, <2>2, <2>3 DEF JobFresh
  <2> QED
    BY <1>j, <2>1, <2>4
<1>6. CASE replace
  <2>1. PICK v \in DOMAIN cdbs : file' = v /\ held' = [held EXCEPT ![v] = now] /\ UNCHANGED <<cdbs, now, srv, job>>
    BY <1>6 DEF replace
  <2>2. v \in Versioned /\ held[v] <= now
    <3>1. v \in Versioned
      BY <1>0
    <3> QED
      BY <3>1 DEF TinydnsFresh
  <2>3. held' \in [Versioned -> Nat] /\ held'[file'] = now' /\ now' >= now
    BY <1>0, <2>1, <2>2
  <2>4. ASSUME NEW x \in Versioned PROVE held'[x] >= held[x] /\ held'[x] <= now'
    BY <1>0, <2>1, <2>2
  <2> QED
    BY <1>0, <2>1, <2>2, <2>3, <2>4, HeldGrows
<1>7. CASE tick
  <2>1. now' = now + 1 /\ held' = [held EXCEPT ![file] = now + 1] /\ UNCHANGED <<cdbs, file, srv, job>>
    BY <1>7 DEF tick
  <2>2. now' \in Nat /\ now' >= now /\ held' \in [Versioned -> Nat] /\ held'[file'] = now'
    BY <1>0, <2>1
  <2>3. ASSUME NEW v \in Versioned PROVE held'[v] >= held[v] /\ held'[v] <= now'
    BY <1>0, <2>1
  <2> QED
    BY <1>0, <2>1, <2>2, <2>3, HeldGrows
<1>8. CASE UNCHANGED vars
  BY <1>8, <1>0, <1>j DEF vars, TinydnsFresh, JobFresh
<1> QED
  BY <1>1, <1>2, <1>3, <1>4, <1>5, <1>6, <1>7, <1>8 DEF Next

\* The data that a response comes from was in data.cdb at most a second
\* before the time that the query is answered for, however often data.cdb is
\* replaced (respond and doit in server.c and tdlookup.c).
THEOREM TinydnsFreshData == Spec => []FreshData
<1>1. TinydnsFresh => FreshData
  BY DEF TinydnsFresh, JobFresh, FreshData
<1> QED
  BY <1>1, TinydnsInit, TinydnsStep, PTL DEF Spec
=============================================================================
