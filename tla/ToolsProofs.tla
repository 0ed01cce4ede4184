---------------------------- MODULE ToolsProofs ----------------------------
(***************************************************************************)
(* Machine-checked correctness of client programs.  The stub resolver: for *)
(* every configuration and every change of it, each look-up uses what the  *)
(* configuration held not long ago, and returns what belongs to the first  *)
(* name the rules give that has anything.  dnstrace: for every list of     *)
(* roots and whatever servers answer, qt is what questions, servers and    *)
(* addresses together give.  dnsfilter: for every input, it prints the     *)
(* lines in order, each with the name of its own address.                  *)
(***************************************************************************)
EXTENDS Stub, Dnsfilter, Dnstrace, TLAPS, WellFoundedInduction, FiniteSetTheorems

\* Induction over the numbers up to k, as a fact about sets.
LEMMA UpTo ==
  ASSUME NEW S, NEW k \in Nat, 0 \in S,
         \A n \in 0..(k - 1) : n \in S => n + 1 \in S
  PROVE  0..k \subseteq S
<1> DEFINE T == {n \in Nat : n <= k /\ n \notin S}
<1> SUFFICES ASSUME T # {} PROVE FALSE
  OBVIOUS
<1>1. PICK m \in T : \A y \in T : ~(<<y, m>> \in OpToRel(<, Nat))
  BY NatLessThanWellFounded, WFMin, T \in SUBSET Nat
<1>2. m \in Nat /\ m # 0 /\ m - 1 \in Nat /\ m - 1 < m /\ m - 1 \in 0..(k - 1)
  OBVIOUS
<1>3. m - 1 \notin T
  BY <1>1, <1>2 DEF OpToRel
<1>4. m - 1 \in S
  BY <1>2, <1>3
<1> QED
  BY <1>2, <1>4

----------------------------------------------------------------------------
(* dns_resolve and the qualify functions *)

Ops == Qualified \cup {"ip4", "ip6", "mx", "name4", "name6", "namex", "txt", "dq_ip"}
CallFields == {"op", "arg", "rules", "buf", "len", "plus", "i", "asks", "servers", "at", "max", "out", "lost"}
Says == [c \in Conf |-> IF lib = "dq" THEN Servers_dq(c) ELSE Servers(c)]
SaysRules == [c \in Conf |-> IF lib = "dq" THEN Rules_dq(c) ELSE Rules(c)]

StubTypeOK ==
  /\ conf \in Conf /\ now \in Int
  /\ past \in Seq([conf : Conf, until : Int])
  /\ pc # "idle" =>
       /\ call = [f \in CallFields |-> call[f]]
       /\ call.op \in Ops /\ call.arg \in Arg \cup InAddr \cup DOMAIN Ip6Int
       /\ Base(call.op) = "name6" => call.op = "name6" /\ call.arg \in InAddr \cup DOMAIN Ip6Int
       /\ pc = "rules" \/ call.rules # None => call.op \in Qualified
       /\ call.lost \in BOOLEAN

\* A loaded configuration was right no more than LIFE before its deadline.
LoadedOK(s, says) ==
  /\ s = [f \in {"ok", "uses", "deadline", "data"} |-> s[f]]
  /\ s.ok => s.deadline \in Int /\ s.deadline <= now + LIFE /\ FreshAt(s.deadline, s.data, says)
FreshInv ==
  /\ LoadedOK(ip, Says) /\ LoadedOK(rw, SaysRules)
  /\ pc \notin {"idle", "rules"} /\ (call.rules # None \/ call.servers # None) =>
       call.at \in Int /\ call.at <= now
  /\ pc \notin {"idle", "rules"} /\ call.servers # None => FreshAt(call.at, call.servers, Says)
  /\ pc \notin {"idle", "rules"} /\ call.rules # None /\ call.servers = None => FreshAt(call.at, call.rules, SaysRules)
  /\ (pc = "rules" => call.servers = None) /\ (pc = "wait" => call.servers # None)

\* The name under work is the word, or the alternative after its "+" at a;
\* those before had nothing.
AtAlternative(w, a) ==
  /\ w[a] = "+"
  /\ \A b \in 1..(a - 1) : w[b] = "+" => Wanted(Base(call.op), Alternative(w, b)) = {{}} \/ call.lost
  /\ IF pc = "alternative" THEN call.i = a + 1 ELSE call.i = Plus(w, a + 1) /\ fqdn = Alternative(w, a)
\* Of the word only the letters from plus on and before i have changed.
Untouched(buf, w, plus, i) == \A k \in 1..Len(w) : k < plus \/ k >= i => buf[k] = w[k]
NameInv == pc \in {"alternative", "name", "resolve", "wait", "found"} =>
  LET w == Rewriting(call) IN
  /\ IsText(w) /\ IsText(call.buf) /\ Len(call.buf) = Len(w)
  /\ IF call.rules = None \/ call.plus > Len(w)
     THEN call.buf = w /\ call.len = Len(w) /\ pc # "alternative"
     ELSE \E a \in 1..Len(w) : AtAlternative(w, a)
  /\ call.rules # None => call.plus = Plus(w, 1) /\ Untouched(call.buf, w, call.plus, call.i)

\* What has come so far is what the questions answered give.
Wants(o, n) == ToSet(Asks(o, n))
Come(o, n, asks) == OfType(Records(n), Wants(o, n) \ ToSet(asks))
Asking(o, n, p, asks, out, lost) ==
  /\ ~IsAddress(o, n)
  /\ o \in {"name4", "name6"} =>
       /\ out = {}
       /\ \/ asks = Asks(o, n)
          \/ o = "name6" /\ n \notin InAddr /\ asks = <<"PTR">> /\ OfType(Records(n), {"PTR"}) = {}
  /\ o \notin {"name4", "name6"} =>
       /\ \/ asks = Asks(o, n)
          \/ o \in {"ip6", "dq_ip"} /\ asks = <<"A">>
          \/ o = "dq_ip" /\ p = "wait" /\ asks = <<"AAAA">>
       /\ out \subseteq Come(o, n, asks) /\ (out = Come(o, n, asks) \/ lost)
AskInv == pc \in {"resolve", "wait"} => Asking(Base(call.op), fqdn, pc, call.asks, call.out, call.lost)

\* What is returned belongs to the name.
Belongs(o, n, out, lost) == \E w1 \in Wanted(o, n) : out = w1 \/ (lost /\ out \subseteq w1)
FoundInv ==
  /\ pc \in {"rules", "alternative", "name"} => call.out = {}
  /\ pc = "found" => Belongs(Base(call.op), fqdn, call.out, call.lost)

StubInv == StubTypeOK /\ FreshInv /\ NameInv /\ AskInv /\ FoundInv /\ LineFits

----------------------------------------------------------------------------
(* The configuration *)

LEMMA SaysAre ==
  /\ \A c \in Conf : Says[c] = IF lib = "dq" THEN Servers_dq(c) ELSE Servers(c)
  /\ \A c \in Conf : SaysRules[c] = IF lib = "dq" THEN Rules_dq(c) ELSE Rules(c)
  /\ \A c \in Conf : Says[c] # None /\ IsRules(SaysRules[c])
BY StubAssumption DEF Says, SaysRules

\* The past is longer by the configuration that ends now.
LEMMA EditKeeps ==
  ASSUME StubTypeOK, edit, NEW says, NEW t \in Int, t <= now + LIFE, NEW d, FreshAt(t, d, says)
  PROVE  \/ d = says[conf']
         \/ \E i \in 1..Len(past') : past'[i].until >= t - LIFE /\ d = says[past'[i].conf]
<1> DEFINE T == [conf : Conf, until : Int]
           e == [conf |-> conf, until |-> now]
<1>1. past \in Seq(T) /\ e \in T /\ LIFE \in Int /\ now \in Int
  BY StubAssumption DEF StubTypeOK
<1>2. past' = Append(past, e)
  BY DEF edit
<1> HIDE DEF T
<1>3. /\ Len(past') = Len(past) + 1 /\ Len(past) \in Nat /\ past'[Len(past) + 1] = e
      /\ \A i \in 1..Len(past) : past'[i] = past[i]
  BY <1>1, <1>2
<1>4. CASE d = says[conf]
  <2>1. e.until >= t - LIFE /\ e.conf = conf
    BY <1>1
  <2> HIDE DEF e
  <2> QED
    BY <1>3, <1>4, <2>1
<1>5. CASE \E i \in 1..Len(past) : past[i].until >= t - LIFE /\ d = says[past[i].conf]
  BY <1>3, <1>5
<1> QED
  BY <1>4, <1>5 DEF FreshAt

LEMMA EditType == ASSUME StubTypeOK, edit PROVE StubTypeOK'
<1>1. past' \in Seq([conf : Conf, until : Int])
  <2> DEFINE T == [conf : Conf, until : Int]
  <2>1. past \in Seq(T) /\ [conf |-> conf, until |-> now] \in T
    BY DEF StubTypeOK
  <2>2. past' = Append(past, [conf |-> conf, until |-> now])
    BY DEF edit
  <2> HIDE DEF T
  <2>3. past' \in Seq(T)
    BY <2>1, <2>2
  <2> QED
    BY <2>3 DEF T
<1> QED
  BY <1>1 DEF StubTypeOK, edit

LEMMA EditFresh == ASSUME StubTypeOK, FreshInv, edit PROVE FreshInv'
<1>1. UNCHANGED <<lib, now, ip, rw, pc, call>>
  BY DEF edit
<1>2. Says' = Says /\ SaysRules' = SaysRules
  BY <1>1 DEF Says, SaysRules
<1>3. ASSUME NEW s, NEW says, LoadedOK(s, says), s.ok
      PROVE  s.deadline \in Int /\ s.deadline <= now + LIFE
             /\ (s.data = says[conf'] \/ \E i \in 1..Len(past') : past'[i].until >= s.deadline - LIFE /\ s.data = says[past'[i].conf])
  BY <1>3, EditKeeps DEF LoadedOK
<1>4. LoadedOK(ip, Says)' /\ LoadedOK(rw, SaysRules)'
  <2>1. LoadedOK(ip, Says) /\ LoadedOK(rw, SaysRules)
    BY DEF FreshInv
  <2> HIDE DEF Says, SaysRules
  <2>2. LoadedOK(ip, Says)'
    BY <1>1, <1>2, <1>3, <2>1 DEF LoadedOK, FreshAt
  <2>3. LoadedOK(rw, SaysRules)'
    BY <1>1, <1>2, <1>3, <2>1 DEF LoadedOK, FreshAt
  <2> QED
    BY <2>2, <2>3
<1>5. LIFE \in Nat /\ now \in Int
  BY StubAssumption DEF StubTypeOK
<1>6. pc \notin {"idle", "rules"} /\ call.servers # None => FreshAt(call.at, call.servers, Says)'
  <2> SUFFICES ASSUME pc \notin {"idle", "rules"}, call.servers # None PROVE FreshAt(call.at, call.servers, Says)'
    OBVIOUS
  <2>1. call.at \in Int /\ call.at <= now /\ FreshAt(call.at, call.servers, Says)
    BY DEF FreshInv, StubTypeOK
  <2>2. call.at <= now + LIFE
    BY <1>5, <2>1
  <2>3. \/ call.servers = Says[conf']
        \/ \E i \in 1..Len(past') : past'[i].until >= call.at - LIFE /\ call.servers = Says[past'[i].conf]
    BY <2>1, <2>2, EditKeeps
  <2> QED
    BY <1>1, <1>2, <2>3 DEF FreshAt
<1>7. pc \notin {"idle", "rules"} /\ call.rules # None /\ call.servers = None => FreshAt(call.at, call.rules, SaysRules)'
  <2> SUFFICES ASSUME pc \notin {"idle", "rules"}, call.rules # None, call.servers = None PROVE FreshAt(call.at, call.rules, SaysRules)'
    OBVIOUS
  <2>1. call.at \in Int /\ call.at <= now /\ FreshAt(call.at, call.rules, SaysRules)
    BY DEF FreshInv, StubTypeOK
  <2>2. call.at <= now + LIFE
    BY <1>5, <2>1
  <2>3. \/ call.rules = SaysRules[conf']
        \/ \E i \in 1..Len(past') : past'[i].until >= call.at - LIFE /\ call.rules = SaysRules[past'[i].conf]
    BY <2>1, <2>2, EditKeeps
  <2> QED
    BY <1>1, <1>2, <2>3 DEF FreshAt
<1> QED
  BY <1>1, <1>4, <1>6, <1>7 DEF FreshInv

----------------------------------------------------------------------------
(* Names under rewriting *)

LEMMA TextIs ==
  ASSUME NEW s
  PROVE  /\ IsText(s) => s \in Seq(ToSet(s))
         /\ \A S : s \in Seq(S) => IsText(s)
<1>1. IsText(s) => s \in Seq(ToSet(s))
  BY DEF IsText, ToSet
<1>2. \A S : s \in Seq(S) => IsText(s)
  BY DEF IsText
<1> QED
  BY <1>1, <1>2

LEMMA PartText ==
  ASSUME NEW s, IsText(s), NEW m \in 1..(Len(s) + 1), NEW n \in (m - 1)..Len(s)
  PROVE  /\ IsText(SubSeq(s, m, n)) /\ Len(SubSeq(s, m, n)) = n - m + 1
         /\ \A k \in 1..(n - m + 1) : SubSeq(s, m, n)[k] = s[m + k - 1]
<1>1. s \in Seq(ToSet(s)) /\ Len(s) \in Nat
  BY TextIs DEF IsText
<1> DEFINE S == ToSet(s)
<1> HIDE DEF S
<1>2. s \in Seq(S) /\ Len(s) \in Nat /\ m \in Int /\ n \in Int /\ 1 <= m /\ m <= n + 1 /\ n <= Len(s)
  BY <1>1 DEF S
<1>3. SubSeq(s, m, n) \in Seq(S) /\ Len(SubSeq(s, m, n)) = n - m + 1
  BY <1>2
<1>4. \A k \in 1..(n - m + 1) : SubSeq(s, m, n)[k] = s[m + k - 1]
  BY <1>2
<1> QED
  BY <1>3, <1>4, TextIs

LEMMA PrefixText ==
  ASSUME NEW s, IsText(s), NEW n \in 0..Len(s)
  PROVE  IsText(SubSeq(s, 1, n)) /\ Len(SubSeq(s, 1, n)) = n /\ \A k \in 1..n : SubSeq(s, 1, n)[k] = s[k]
<1>1. 1 \in 1..(Len(s) + 1) /\ n \in (1 - 1)..Len(s) /\ n \in Int
  BY DEF IsText
<1>2. /\ IsText(SubSeq(s, 1, n)) /\ Len(SubSeq(s, 1, n)) = n - 1 + 1
      /\ \A k \in 1..(n - 1 + 1) : SubSeq(s, 1, n)[k] = s[1 + k - 1]
  BY <1>1, PartText
<1>3. n - 1 + 1 = n /\ \A k \in Int : 1 + k - 1 = k
  BY <1>1
<1> QED
  BY <1>2, <1>3

LEMMA JoinText ==
  ASSUME NEW s, IsText(s), NEW t, IsText(t)
  PROVE  /\ IsText(s \o t) /\ Len(s \o t) = Len(s) + Len(t)
         /\ \A k \in 1..Len(s) : (s \o t)[k] = s[k]
         /\ \A k \in 1..Len(t) : (s \o t)[Len(s) + k] = t[k]
<1> DEFINE S == ToSet(s) \cup ToSet(t)
<1>1. s \in Seq(S) /\ t \in Seq(S)
  <2>1. s \in Seq(ToSet(s)) /\ t \in Seq(ToSet(t))
    BY TextIs
  <2>2. ASSUME NEW A, NEW e \in Seq(A), A \subseteq S PROVE e \in Seq(S)
    BY <2>2
  <2> QED
    BY <2>1, <2>2
<1> HIDE DEF S
<1>2. s \o t \in Seq(S)
  BY <1>1
<1>3. IsText(s \o t)
  BY <1>2, TextIs
<1> QED
  BY <1>1, <1>3

\* Texts with the same letters are the same.
LEMMA SameText ==
  ASSUME NEW s, IsText(s), NEW t, IsText(t), Len(s) = Len(t), \A k \in 1..Len(s) : s[k] = t[k]
  PROVE  s = t
BY DEF IsText

IsPlus(s, i, p) == p \in i..(Len(s) + 1) /\ (p <= Len(s) => s[p] = "+") /\ \A j \in i..(p - 1) : s[j] # "+"

LEMMA PlusIs ==
  ASSUME NEW s, IsText(s), NEW i \in 1..(Len(s) + 1)
  PROVE  IsPlus(s, i, Plus(s, i))
<1> DEFINE P == {j \in i..Len(s) : s[j] = "+"} \cup {Len(s) + 1}
           least == CHOOSE m \in P : \A y \in P : m <= y
<1>1. Len(s) \in Nat /\ P \in SUBSET Nat /\ P # {}
  BY DEF IsText
<1>2. PICK m \in P : \A y \in P : ~(<<y, m>> \in OpToRel(<, Nat))
  <2> HIDE DEF P
  <2> QED
    BY <1>1, NatLessThanWellFounded, WFMin
<1>3. \A y \in P : m <= y
  <2> SUFFICES ASSUME NEW y \in P PROVE m <= y
    OBVIOUS
  <2>1. y \in Nat /\ m \in Nat
    BY <1>1
  <2> HIDE DEF P
  <2>2. ~(y < m)
    BY <1>2, <2>1 DEF OpToRel
  <2> QED
    BY <2>1, <2>2
<1>4. Plus(s, i) = least
  BY DEF Plus, Min
<1>5. least \in P /\ \A y \in P : least <= y
  <2> HIDE DEF P
  <2> QED
    BY <1>3
<1> HIDE DEF least
<1> QED
  BY <1>1, <1>4, <1>5 DEF IsPlus

LEMMA PlusOnly ==
  ASSUME NEW s, IsText(s), NEW i \in 1..(Len(s) + 1), NEW p, IsPlus(s, i, p), NEW q, IsPlus(s, i, q)
  PROVE  p = q
BY DEF IsPlus, IsText

\* What comes before i does not matter.
LEMMA PlusSame ==
  ASSUME NEW s, IsText(s), NEW t, IsText(t), Len(s) = Len(t), NEW i \in 1..(Len(s) + 1), \A k \in i..Len(s) : s[k] = t[k]
  PROVE  Plus(s, i) = Plus(t, i)
<1>1. IsPlus(s, i, Plus(s, i)) /\ IsPlus(t, i, Plus(t, i))
  BY PlusIs
<1>2. IsPlus(t, i, Plus(s, i))
  BY <1>1 DEF IsPlus, IsText
<1> QED
  BY <1>1, <1>2, PlusOnly

LEMMA ApplyText ==
  ASSUME NEW r, IsText(r.from), IsText(r.to), NEW w, IsText(w), NEW op
  PROVE  IsText(Apply(r, w, op))
<1>1. CASE ~Applies(r, w, op)
  BY <1>1 DEF Apply
<1>2. CASE Applies(r, w, op)
  <2> DEFINE s == IF r.ch = "-" THEN << >> ELSE SubSeq(w, 1, Len(w) - Len(r.from))
  <2>1. IsText(<< >>)
    BY DEF IsText
  <2>2. Len(w) >= Len(r.from) /\ Len(w) \in Nat /\ Len(r.from) \in Nat
    BY <1>2 DEF Applies, IsText
  <2>3. IsText(SubSeq(w, 1, Len(w) - Len(r.from)))
    BY <2>2, PartText
  <2>4. IsText(s)
    BY <2>1, <2>3
  <2>5. Apply(r, w, op) = s \o r.to
    BY <1>2 DEF Apply
  <2> HIDE DEF s
  <2> QED
    BY <2>4, <2>5, JoinText
<1> QED
  BY <1>1, <1>2

LEMMA RewrittenText ==
  ASSUME NEW w, IsText(w), NEW rules, IsRules(rules), NEW op
  PROVE  IsText(Rewritten(w, rules, op))
<1> DEFINE n == Len(rules)
           Part(f, k) == f[0] = w /\ \A i \in 1..k : f[i] = Apply(rules[i], f[i - 1], op)
           S == {k \in Nat : \E f : Part(f, k)}
           R(f) == f = [i \in 0..n |-> IF i = 0 THEN w ELSE Apply(rules[i], f[i - 1], op)]
<1>0. n \in Nat /\ DOMAIN rules = 1..n
  BY DEF IsRules, IsText
<1>1. Rewritten(w, rules, op) = (CHOOSE g : R(g))[n]
  BY DEF Rewritten
<1> HIDE DEF n
<1>2. n \in S
  <2>1. 0 \in S
    <3>1. Part([i \in {0} |-> w], 0)
      OBVIOUS
    <3> QED
      BY <3>1
  <2>2. ASSUME NEW k \in 0..(n - 1), k \in S PROVE k + 1 \in S
    <3>1. PICK f : Part(f, k)
      BY <2>2
    <3>2. k \in Nat /\ k + 1 \in Nat
      BY <1>0
    <3> DEFINE last == Apply(rules[k + 1], f[k], op)
               g == [i \in 0..(k + 1) |-> IF i = k + 1 THEN last ELSE f[i]]
    <3>3. g[0] = f[0] /\ g[k + 1] = last /\ \A i \in 0..k : g[i] = f[i]
      BY <3>2
    <3> HIDE DEF g
    <3>4. ASSUME NEW i \in 1..(k + 1) PROVE g[i] = Apply(rules[i], g[i - 1], op)
      <4>1. CASE i = k + 1
        <5>1. g[k] = f[k] /\ (k + 1) - 1 = k
          BY <3>2, <3>3
        <5> QED
          BY <3>3, <4>1, <5>1
      <4>2. CASE i # k + 1
        <5>1. i \in 1..k /\ i \in 0..k /\ i - 1 \in 0..k
          BY <3>2, <4>2
        <5>2. f[i] = Apply(rules[i], f[i - 1], op) /\ g[i] = f[i] /\ g[i - 1] = f[i - 1]
          BY <3>1, <3>3, <5>1
        <5> QED
          BY <5>2
      <4> QED
        BY <4>1, <4>2
    <3>5. Part(g, k + 1)
      BY <3>1, <3>3, <3>4
    <3> QED
      BY <3>2, <3>5
  <2> HIDE DEF S
  <2>3. 0..n \subseteq S
    BY <1>0, <2>1, <2>2, UpTo
  <2> QED
    BY <1>0, <2>3
<1>3. PICK f : Part(f, n)
  BY <1>2
<1> DEFINE h == [i \in 0..n |-> f[i]]
<1>4. R(h)
  BY <1>0, <1>3
<1> DEFINE c == CHOOSE g : R(g)
<1> HIDE DEF R
<1>5. R(c)
  BY <1>4, Zenon
<1> HIDE DEF c
<1> USE DEF R
<1>6. c[0] = w /\ \A i \in 1..n : c[i] = Apply(rules[i], c[i - 1], op)
  BY <1>0, <1>5
<1> HIDE DEF R
<1> DEFINE G == {k \in Nat : IsText(c[k])}
<1>7. 0 \in G
  BY <1>6
<1>8. ASSUME NEW k \in 0..(n - 1), k \in G PROVE k + 1 \in G
  <2>1. k + 1 \in 1..n /\ (k + 1) - 1 = k /\ k + 1 \in Nat
    BY <1>0
  <2>2. c[k + 1] = Apply(rules[k + 1], c[k], op)
    BY <1>6, <2>1
  <2>3. IsText(rules[k + 1].from) /\ IsText(rules[k + 1].to)
    BY <1>0, <2>1 DEF IsRules
  <2> QED
    BY <1>8, <2>1, <2>2, <2>3, ApplyText
<1> HIDE DEF G
<1>9. 0..n \subseteq G
  BY <1>0, <1>7, <1>8, UpTo
<1>10. n \in G
  BY <1>0, <1>9
<1> QED
  BY <1>1, <1>10 DEF G, c

LEMMA FunText == ASSUME NEW n \in Nat, NEW f, f = [k \in 1..n |-> f[k]] PROVE IsText(f) /\ Len(f) = n
<1>1. f \in Seq({f[k] : k \in 1..n}) /\ Len(f) = n
  OBVIOUS
<1> QED
  BY <1>1, TextIs

IsJoined(s, l, r) ==
  /\ IsText(s) /\ IsText(l) /\ IsText(r) /\ Len(s) = Len(l) + Len(r)
  /\ \A k \in 1..Len(l) : s[k] = l[k]
  /\ \A k \in 1..Len(r) : s[Len(l) + k] = r[k]

LEMMA JoinIs == ASSUME NEW s, NEW l, NEW r, IsJoined(s, l, r) PROVE s = l \o r
<1> USE DEF IsJoined
<1>1. /\ IsText(l \o r) /\ Len(l \o r) = Len(l) + Len(r)
      /\ \A k \in 1..Len(l) : (l \o r)[k] = l[k]
      /\ \A k \in 1..Len(r) : (l \o r)[Len(l) + k] = r[k]
  BY JoinText
<1>2. Len(l) \in Nat /\ Len(r) \in Nat
  BY DEF IsText
<1> DEFINE t == l \o r
<1> HIDE DEF t
<1>3. ASSUME NEW k \in 1..Len(s) PROVE s[k] = t[k]
  <2>1. CASE k \in 1..Len(l)
    BY <1>1, <2>1 DEF t
  <2>2. CASE k \notin 1..Len(l)
    <3>1. PICK m \in 1..Len(r) : k = Len(l) + m
      <4>1. k - Len(l) \in 1..Len(r) /\ k = Len(l) + (k - Len(l))
        BY <1>2, <2>2
      <4> QED
        BY <4>1
    <3> QED
      BY <1>1, <3>1 DEF t
  <2> QED
    BY <2>1, <2>2
<1> QED
  BY <1>1, <1>3, SameText DEF t

\* The text before plus and the j letters after a.
IsAlternative(c, w, plus, a, j) ==
  /\ IsText(w) /\ IsText(c) /\ Len(c) = Len(w)
  /\ a \in 1..Len(w) /\ plus \in 1..a /\ j \in 0..(Len(w) - a)
  /\ \A k \in 1..(plus - 1) : c[k] = w[k]
  /\ \A m \in 1..j : c[plus + m - 1] = w[a + m]
IsSpliced(c, w, plus, a, j) == SubSeq(c, 1, plus + j - 1) = SubSeq(w, 1, plus - 1) \o SubSeq(w, a + 1, a + j)
LEMMA AlternativeIs ==
  ASSUME NEW w, NEW c, NEW a, NEW plus, NEW j, IsAlternative(c, w, plus, a, j)
  PROVE  IsSpliced(c, w, plus, a, j)
<1> DEFINE s == SubSeq(c, 1, plus + j - 1)
           l == SubSeq(w, 1, plus - 1)
           r == SubSeq(w, a + 1, a + j)
<1> USE DEF IsAlternative
<1>0. Len(w) \in Nat
  BY DEF IsText
<1>1. IsText(s) /\ Len(s) = plus + j - 1 /\ \A k \in 1..(plus + j - 1) : s[k] = c[k]
  <2>1. plus + j - 1 \in 0..Len(c)
    BY <1>0
  <2> QED
    BY <2>1, PrefixText
<1>2. IsText(l) /\ Len(l) = plus - 1 /\ \A k \in 1..(plus - 1) : l[k] = w[k]
  <2>1. plus - 1 \in 0..Len(w)
    BY <1>0
  <2> QED
    BY <2>1, PrefixText
<1>3. IsText(r) /\ Len(r) = j /\ \A k \in 1..j : r[k] = w[a + k]
  <2>1. a + 1 \in 1..(Len(w) + 1) /\ a + j \in ((a + 1) - 1)..Len(w) /\ a \in Int /\ j \in Int
    BY <1>0
  <2>2. IsText(r) /\ Len(r) = (a + j) - (a + 1) + 1 /\ \A k \in 1..((a + j) - (a + 1) + 1) : r[k] = w[(a + 1) + k - 1]
    BY <2>1, PartText
  <2> HIDE DEF r
  <2>3. (a + j) - (a + 1) + 1 = j /\ \A k \in Int : (a + 1) + k - 1 = a + k
    BY <2>1
  <2> QED
    BY <2>2, <2>3
<1> HIDE DEF s, l, r
<1>4. Len(s) = Len(l) + Len(r)
  BY <1>0, <1>1, <1>2, <1>3
<1>5. \A k \in 1..Len(l) : s[k] = l[k]
  BY <1>0, <1>1, <1>2
<1>6. \A m \in 1..Len(r) : s[Len(l) + m] = r[m]
  <2> SUFFICES ASSUME NEW m \in 1..j PROVE s[Len(l) + m] = r[m]
    BY <1>3
  <2>1. Len(l) + m = plus + m - 1 /\ plus + m - 1 \in 1..(plus + j - 1)
    BY <1>0, <1>2
  <2> QED
    BY <1>1, <1>3, <2>1
<1>7. s = l \o r
  <2>1. IsJoined(s, l, r)
    BY <1>1, <1>2, <1>3, <1>4, <1>5, <1>6 DEF IsJoined
  <2> QED
    BY <2>1, JoinIs
<1> QED
  BY <1>7 DEF s, l, r, IsSpliced

LEMMA CopiedLetters ==
  ASSUME NEW n \in Nat, NEW buf, Len(buf) = n, NEW plus \in Nat, NEW i \in Int, NEW j \in Nat, NEW c, c = Copied(buf, plus, i, j)
  PROVE  /\ IsText(c) /\ Len(c) = n
         /\ \A k \in 1..n : c[k] = IF k \in plus..(plus + j - 1) THEN buf[i + k - plus] ELSE buf[k]
<1>1. c = [k \in 1..n |-> IF k \in plus..(plus + j - 1) THEN buf[i + k - plus] ELSE buf[k]]
  BY DEF Copied
<1>2. \A k \in 1..n : c[k] = IF k \in plus..(plus + j - 1) THEN buf[i + k - plus] ELSE buf[k]
  BY <1>1
<1>3. c = [k \in 1..n |-> c[k]]
  BY <1>1, <1>2
<1> QED
  BY <1>2, <1>3, FunText

\* What a move of letters leaves: behind the moved ones the text is w still,
\* and the moved ones are those behind a.
LEMMA MovedLetters ==
  ASSUME NEW n \in Nat, NEW a \in 1..n, NEW plus \in 1..a, NEW j \in 0..(n - a), NEW w, NEW buf, NEW c,
         \A k \in 1..n : k < plus \/ k >= a + 1 => buf[k] = w[k],
         \A k \in 1..n : c[k] = IF k \in plus..(plus + j - 1) THEN buf[a + 1 + k - plus] ELSE buf[k]
  PROVE  /\ \A k \in 1..n : k < plus \/ k >= a + 1 + j => c[k] = w[k]
         /\ \A k \in 1..(plus - 1) : c[k] = w[k]
         /\ \A m \in 1..j : c[plus + m - 1] = w[a + m]
<1>1. ASSUME NEW k \in 1..n, k < plus \/ k >= a + 1 + j PROVE c[k] = w[k]
  <2>1. k \notin plus..(plus + j - 1) /\ (k < plus \/ k >= a + 1)
    BY <1>1
  <2>2. c[k] = buf[k]
    BY <2>1
  <2> QED
    BY <2>1, <2>2
<1>2. ASSUME NEW k \in 1..(plus - 1) PROVE c[k] = w[k]
  <2>1. k \in 1..n /\ k < plus
    OBVIOUS
  <2> QED
    BY <1>1, <2>1
<1>3. ASSUME NEW m \in 1..j PROVE c[plus + m - 1] = w[a + m]
  <2>1. /\ plus + m - 1 \in 1..n /\ plus + m - 1 \in plus..(plus + j - 1)
        /\ a + 1 + (plus + m - 1) - plus = a + m /\ a + m \in 1..n /\ a + m >= a + 1
    OBVIOUS
  <2>2. c[plus + m - 1] = buf[a + m]
    BY <2>1
  <2> QED
    BY <2>1, <2>2
<1> QED
  BY <1>1, <1>2, <1>3

\* One run of the copying loop, for the "+" at a.
IsCopy(w, buf, plus, a, j, c) ==
  /\ Len(buf) = Len(w) /\ plus = Plus(w, 1) /\ a \in 1..Len(w) /\ w[a] = "+"
  /\ Untouched(buf, w, plus, a + 1)
  /\ j = Plus(buf, a + 1) - (a + 1) /\ c = Copied(buf, plus, a + 1, j)

\* Where a loop of dns_ip4_qualify_rules has copied the text after the "+" at
\* a, the name is that alternative, and what comes later is as it was.
LEMMA CopiedText ==
  ASSUME NEW w, IsText(w), NEW buf, IsText(buf), NEW plus, NEW a, NEW j, NEW c, IsCopy(w, buf, plus, a, j, c)
  PROVE  /\ IsText(c) /\ Len(c) = Len(w) /\ a + 1 + j = Plus(w, a + 1)
         /\ Untouched(c, w, plus, a + 1 + j)
         /\ SubSeq(c, 1, plus + j - 1) = Alternative(w, a)
<1> DEFINE n == Len(w)
           p == Plus(w, a + 1)
<1>1. n \in Nat /\ Len(buf) = n /\ a \in 1..n /\ w[a] = "+" /\ a + 1 \in 1..(n + 1)
  BY DEF IsCopy, IsText
<1>2. IsPlus(w, 1, Plus(w, 1)) /\ plus = Plus(w, 1) /\ IsPlus(w, a + 1, p)
  BY <1>1, PlusIs DEF IsCopy
<1>3. plus \in 1..a /\ p \in (a + 1)..(n + 1)
  BY <1>1, <1>2 DEF IsPlus
<1> HIDE DEF n
<1>4. \A k \in 1..n : k < plus \/ k >= a + 1 => buf[k] = w[k]
  BY DEF IsCopy, Untouched, n
<1>5. p = Plus(buf, a + 1)
  <2>1. \A k \in (a + 1)..n : w[k] = buf[k]
    BY <1>1, <1>4
  <2> QED
    BY <1>1, <2>1, PlusSame DEF n
<1> HIDE DEF p
<1>6. j = p - (a + 1)
  BY <1>5 DEF IsCopy
<1>7. j \in 0..(n - a) /\ a + 1 + j = p /\ a + j = p - 1 /\ plus \in Nat /\ j \in Nat /\ a + 1 \in Int
  BY <1>1, <1>3, <1>6
<1>8. c = Copied(buf, plus, a + 1, j)
  BY DEF IsCopy
<1>9. /\ IsText(c) /\ Len(c) = n
      /\ \A k \in 1..n : c[k] = IF k \in plus..(plus + j - 1) THEN buf[a + 1 + k - plus] ELSE buf[k]
  <2> DEFINE i == a + 1
  <2>1. i \in Int /\ c = Copied(buf, plus, i, j)
    BY <1>7, <1>8
  <2> HIDE DEF i
  <2>2. /\ IsText(c) /\ Len(c) = n
        /\ \A k \in 1..n : c[k] = IF k \in plus..(plus + j - 1) THEN buf[i + k - plus] ELSE buf[k]
    BY <1>1, <1>7, <2>1, CopiedLetters
  <2> QED
    BY <2>2 DEF i
<1>10. /\ \A k \in 1..n : k < plus \/ k >= a + 1 + j => c[k] = w[k]
       /\ \A k \in 1..(plus - 1) : c[k] = w[k]
       /\ \A m \in 1..j : c[plus + m - 1] = w[a + m]
  BY <1>1, <1>3, <1>4, <1>7, <1>9, MovedLetters
<1>11. SubSeq(c, 1, plus + j - 1) = SubSeq(w, 1, plus - 1) \o SubSeq(w, a + 1, a + j)
  <2>1. IsAlternative(c, w, plus, a, j)
    BY <1>1, <1>3, <1>7, <1>9, <1>10 DEF IsAlternative, n
  <2>2. IsSpliced(c, w, plus, a, j)
    BY <2>1, AlternativeIs
  <2> QED
    BY <2>2 DEF IsSpliced
<1>12. Alternative(w, a) = SubSeq(w, 1, plus - 1) \o SubSeq(w, a + 1, p - 1)
  BY <1>2 DEF Alternative, p
<1>13. SubSeq(c, 1, plus + j - 1) = Alternative(w, a)
  BY <1>7, <1>11, <1>12
<1>14. Untouched(c, w, plus, a + 1 + j)
  BY <1>10 DEF Untouched, n
<1> QED
  BY <1>7, <1>9, <1>13, <1>14 DEF n, p

----------------------------------------------------------------------------
(* Steps *)

\* What most steps keep of the call.
SameName ==
  /\ call'.op = call.op /\ call'.arg = call.arg /\ call'.rules = call.rules /\ call'.buf = call.buf
  /\ call'.len = call.len /\ call'.plus = call.plus /\ call'.i = call.i /\ (call.lost => call'.lost)
SameConf == call'.rules = call.rules /\ call'.servers = call.servers /\ call'.at = call.at
IsCall == call' = [f \in CallFields |-> call'[f]] /\ call'.lost \in BOOLEAN
Working == {"name", "resolve", "wait", "found"}

LEMMA SaysKept == ASSUME lib' = lib PROVE Says' = Says /\ SaysRules' = SaysRules
BY DEF Says, SaysRules

LEMMA FreshKept == ASSUME UNCHANGED <<conf, past>>, NEW t, NEW d, NEW says, FreshAt(t, d, says) PROVE FreshAt(t, d, says)'
BY DEF FreshAt

\* The two loaded configurations, when they stay.
LEMMA LoadedKept ==
  ASSUME StubTypeOK, NEW s, NEW says, UNCHANGED <<conf, past>>, now' \in Int, now' >= now, LoadedOK(s, says)
  PROVE  LoadedOK(s, says)'
<1>1. LIFE \in Nat /\ now \in Int
  BY StubAssumption DEF StubTypeOK
<1>2. s.ok => s.deadline \in Int /\ s.deadline <= now' + LIFE
  BY <1>1 DEF LoadedOK
<1>3. s.ok => FreshAt(s.deadline, s.data, says)'
  BY FreshKept DEF LoadedOK
<1> QED
  BY <1>2, <1>3 DEF LoadedOK

LEMMA PastIs == ASSUME StubTypeOK PROVE \A i \in 1..Len(past) : past[i].conf \in Conf /\ past[i].until \in Int
<1> DEFINE T == [conf : Conf, until : Int]
<1>1. past \in Seq(T)
  BY DEF StubTypeOK
<1>2. \A e \in T : e.conf \in Conf /\ e.until \in Int
  OBVIOUS
<1> HIDE DEF T
<1>3. \A i \in 1..Len(past) : past[i] \in T
  BY <1>1
<1> QED
  BY <1>2, <1>3

\* Used: what is used was said within LIFE.
LEMMA UsedFresh ==
  ASSUME StubTypeOK, NEW s, NEW says, LoadedOK(s, says), NEW u, u = Used(s, says[conf])
  PROVE  LoadedOK(u, says) /\ FreshAt(now, u.data, says)
<1>1. LIFE \in Nat /\ now \in Int
  BY StubAssumption DEF StubTypeOK
<1>2. CASE Expired(s)
  <2>1. u = [ok |-> TRUE, uses |-> USES - 1, deadline |-> now + LIFE, data |-> says[conf]]
    BY <1>2 DEF Used
  <2>2. u = [f \in {"ok", "uses", "deadline", "data"} |-> u[f]] /\ u.deadline = now + LIFE /\ u.data = says[conf]
    BY <2>1
  <2>3. FreshAt(u.deadline, u.data, says) /\ FreshAt(now, u.data, says)
    BY <2>2 DEF FreshAt
  <2> QED
    BY <1>1, <2>2, <2>3 DEF LoadedOK
<1>3. CASE ~Expired(s)
  <2>1. u = [s EXCEPT !.uses = @ - 1] /\ s.ok /\ ~(s.deadline < now)
    BY <1>3 DEF Used, Expired
  <2>2. s = [f \in {"ok", "uses", "deadline", "data"} |-> s[f]] /\ s.deadline \in Int /\ s.deadline <= now + LIFE /\ FreshAt(s.deadline, s.data, says)
    BY <2>1 DEF LoadedOK
  <2>3. u = [f \in {"ok", "uses", "deadline", "data"} |-> u[f]] /\ u.deadline = s.deadline /\ u.data = s.data
    BY <2>1, <2>2
  <2>4. LoadedOK(u, says)
    BY <2>2, <2>3 DEF LoadedOK
  <2>5. FreshAt(now, s.data, says)
    <3>1. CASE s.data = says[conf]
      BY <3>1 DEF FreshAt
    <3>2. CASE \E i \in 1..Len(past) : past[i].until >= s.deadline - LIFE /\ s.data = says[past[i].conf]
      <4>1. PICK i \in 1..Len(past) : past[i].until >= s.deadline - LIFE /\ s.data = says[past[i].conf]
        BY <3>2
      <4>2. past[i].until \in Int
        BY <4>1, PastIs
      <4>3. past[i].until >= now - LIFE
        BY <1>1, <2>1, <2>2, <4>1, <4>2
      <4> QED
        BY <4>1, <4>3 DEF FreshAt
    <3> QED
      BY <2>2, <3>1, <3>2 DEF FreshAt
  <2> QED
    BY <2>3, <2>4, <2>5
<1> QED
  BY <1>2, <1>3

\* A configuration that cannot be read is not used.
LEMMA UnusedOK == ASSUME NEW s, NEW says, LoadedOK(s, says), NEW u, u = [s EXCEPT !.ok = FALSE] PROVE LoadedOK(u, says)
<1>1. s = [f \in {"ok", "uses", "deadline", "data"} |-> s[f]]
  BY DEF LoadedOK
<1>2. u = [f \in {"ok", "uses", "deadline", "data"} |-> u[f]] /\ ~u.ok
  BY <1>1
<1> QED
  BY <1>2 DEF LoadedOK

\* What was fresh was said by some configuration.
LEMMA FreshSaid ==
  ASSUME StubTypeOK, NEW t, NEW d, NEW says, FreshAt(t, d, says)
  PROVE  \E c \in Conf : d = says[c]
<1> QED
  BY PastIs DEF FreshAt, StubTypeOK

\* A step inside dns_ip4 and the others, the name being made.
LEMMA WorkKeeps ==
  ASSUME StubInv, UNCHANGED <<lib, conf, past, now, rw>>, LoadedOK(ip, Says)', pc \in Working, pc' \in Working, SameName, IsCall,
         \/ SameConf
         \/ call'.at = now /\ call'.servers # None /\ FreshAt(now, call'.servers, Says),
         pc' = "wait" => call'.servers # None
  PROVE  StubTypeOK' /\ FreshInv' /\ NameInv' /\ fqdn' = fqdn /\ Base(call.op)' = Base(call.op)
<1>1. Says' = Says /\ SaysRules' = SaysRules
  BY SaysKept
<1>2. StubTypeOK'
  BY DEF StubInv, StubTypeOK, SameName, IsCall, Working
<1>3. fqdn' = fqdn /\ Base(call.op)' = Base(call.op) /\ Rewriting(call)' = Rewriting(call)
  BY DEF SameName, fqdn, Rewriting
<1>4. NameInv'
  <2> DEFINE w == Rewriting(call)
  <2>1. /\ IsText(w) /\ IsText(call.buf) /\ Len(call.buf) = Len(w)
        /\ IF call.rules = None \/ call.plus > Len(w)
           THEN call.buf = w /\ call.len = Len(w) /\ pc # "alternative"
           ELSE \E a \in 1..Len(w) : AtAlternative(w, a)
        /\ call.rules # None => call.plus = Plus(w, 1) /\ Untouched(call.buf, w, call.plus, call.i)
    BY DEF StubInv, NameInv, Working
  <2>2. ASSUME NEW a, AtAlternative(w, a) PROVE AtAlternative(w, a)'
    BY <1>3, <2>2 DEF AtAlternative, Working, SameName
  <2>3. w' = w
    BY <1>3
  <2> HIDE DEF w
  <2>4. /\ IsText(w)' /\ IsText(call'.buf) /\ Len(call'.buf) = Len(w)
        /\ IF call'.rules = None \/ call'.plus > Len(w)
           THEN call'.buf = w /\ call'.len = Len(w) /\ pc' # "alternative"
           ELSE \E a \in 1..Len(w) : AtAlternative(w, a)'
        /\ call'.rules # None => call'.plus = Plus(w, 1) /\ Untouched(call'.buf, w, call'.plus, call'.i)
    BY <2>1, <2>2, <2>3 DEF SameName, Working
  <2> QED
    BY <2>3, <2>4 DEF NameInv, Untouched, w
<1>5. FreshInv'
  <2>1. FreshInv /\ StubTypeOK /\ now \in Int
    BY DEF StubInv, StubTypeOK
  <2>2. LoadedOK(rw, SaysRules)'
    BY <1>1, <2>1, LoadedKept DEF FreshInv
  <2>3. CASE SameConf
    <3>1. pc \notin {"idle", "rules"} /\ pc' \notin {"idle", "rules"}
      BY DEF Working
    <3>2. call'.servers # None => FreshAt(call.at, call.servers, Says)'
      BY <1>1, <2>1, <2>3, <3>1, FreshKept DEF FreshInv, SameConf
    <3>3. call'.rules # None /\ call'.servers = None => FreshAt(call.at, call.rules, SaysRules)'
      BY <1>1, <2>1, <2>3, <3>1, FreshKept DEF FreshInv, SameConf
    <3>4. call'.rules # None \/ call'.servers # None => call'.at \in Int /\ call'.at <= now
      BY <2>1, <2>3, <3>1 DEF FreshInv, SameConf
    <3> QED
      BY <1>1, <2>2, <3>1, <3>2, <3>3, <3>4 DEF FreshInv
  <2>4. CASE call'.at = now /\ call'.servers # None /\ FreshAt(now, call'.servers, Says)
    <3>1. pc' \notin {"idle", "rules"}
      BY DEF Working
    <3>2. FreshAt(now, call'.servers, Says')
      BY <1>1, <2>4
    <3>3. FreshAt(call.at, call.servers, Says)'
      BY <2>4, <3>2 DEF FreshAt
    <3> QED
      BY <1>1, <2>1, <2>2, <2>4, <3>1, <3>3 DEF FreshInv
  <2> QED
    BY <2>3, <2>4
<1> QED
  BY <1>2, <1>3, <1>4, <1>5

LEMMA LineKept == ASSUME StubInv, UNCHANGED line PROVE LineFits'
<1>1. LineFits
  BY DEF StubInv
<1> QED
  BY <1>1 DEF LineFits

\* A call that ends, its line being l.
LEMMA ReturnKeeps ==
  ASSUME StubInv, UNCHANGED <<lib, conf, past, now>>, LoadedOK(ip, Says)', LoadedOK(rw, SaysRules)', NEW l, Return(l), LineFits'
  PROVE  StubInv'
<1>1. pc' = "idle"
  BY DEF Return
<1> QED
  BY <1>1 DEF StubInv, StubTypeOK, FreshInv, NameInv, AskInv, FoundInv

LEMMA FailKeeps ==
  ASSUME StubInv, UNCHANGED <<lib, conf, past, now>>, LoadedOK(ip, Says)', LoadedOK(rw, SaysRules)', fail
  PROVE  StubInv'
<1>1. Return(None)
  BY DEF fail
<1>2. LineFits'
  BY <1>1 DEF Return, LineFits
<1> QED
  BY <1>1, <1>2, ReturnKeeps

LEMMA LoadedSame ==
  ASSUME StubInv, UNCHANGED <<lib, conf, past, now>>
  PROVE  /\ ip' = ip => LoadedOK(ip, Says)'
         /\ rw' = rw => LoadedOK(rw, SaysRules)'
<1>1. Says' = Says /\ SaysRules' = SaysRules /\ StubTypeOK /\ now \in Int
  BY SaysKept DEF StubInv, StubTypeOK
<1>2. LoadedOK(ip, Says) /\ LoadedOK(rw, SaysRules)
  BY DEF StubInv, FreshInv
<1>3. ip' = ip => LoadedOK(ip, Says)'
  BY <1>1, <1>2 DEF LoadedOK, FreshAt
<1>4. rw' = rw => LoadedOK(rw, SaysRules)'
  BY <1>1, <1>2 DEF LoadedOK, FreshAt
<1> QED
  BY <1>3, <1>4

LEMMA TickStep == ASSUME StubInv, tick PROVE StubInv'
<1>1. UNCHANGED <<lib, conf, past, ip, rw, pc, call, line>> /\ now' = now + 1
  BY DEF tick
<1>2. Says' = Says /\ SaysRules' = SaysRules /\ StubTypeOK /\ FreshInv /\ now \in Int
  BY <1>1, SaysKept DEF StubInv, StubTypeOK
<1>3. StubTypeOK'
  BY <1>1, <1>2 DEF StubTypeOK
<1>4. LoadedOK(ip, Says)' /\ LoadedOK(rw, SaysRules)'
  <2>1. LoadedOK(ip, Says) /\ LoadedOK(rw, SaysRules) /\ LIFE \in Nat
    BY <1>2, StubAssumption DEF FreshInv
  <2>2. LoadedOK(ip, Says)'
    BY <1>1, <1>2, <2>1 DEF LoadedOK, FreshAt
  <2>3. LoadedOK(rw, SaysRules)'
    BY <1>1, <1>2, <2>1 DEF LoadedOK, FreshAt
  <2> QED
    BY <2>2, <2>3
<1>5. FreshInv'
  BY <1>1, <1>2, <1>4 DEF FreshInv, FreshAt
<1>6. NameInv' /\ AskInv' /\ FoundInv'
  <2>1. fqdn' = fqdn /\ Rewriting(call)' = Rewriting(call)
    BY <1>1 DEF fqdn, Rewriting
  <2>2. \A w, a : AtAlternative(w, a)' = AtAlternative(w, a)
    BY <1>1, <2>1 DEF AtAlternative
  <2> QED
    BY <1>1, <2>1, <2>2 DEF StubInv, NameInv, AskInv, FoundInv
<1>7. LineFits'
  BY <1>1, LineKept
<1> QED
  BY <1>3, <1>5, <1>6, <1>7 DEF StubInv

LEMMA EditStep == ASSUME StubInv, edit PROVE StubInv'
<1>1. UNCHANGED <<lib, now, ip, rw, pc, call, line>>
  BY DEF edit
<1>2. StubTypeOK' /\ FreshInv'
  BY EditType, EditFresh DEF StubInv
<1>3. NameInv' /\ AskInv' /\ FoundInv'
  <2>1. fqdn' = fqdn /\ Rewriting(call)' = Rewriting(call)
    BY <1>1 DEF fqdn, Rewriting
  <2>2. \A w, a : AtAlternative(w, a)' = AtAlternative(w, a)
    BY <1>1, <2>1 DEF AtAlternative
  <2> QED
    BY <1>1, <2>1, <2>2 DEF StubInv, NameInv, AskInv, FoundInv
<1>4. LineFits'
  BY <1>1, LineKept
<1> QED
  BY <1>2, <1>3, <1>4 DEF StubInv

LEMMA CallStep ==
  ASSUME StubInv, NEW library, NEW op \in Ops, NEW args, Call(library, op, args),
         args \subseteq Arg \cup InAddr \cup DOMAIN Ip6Int, op = "name6" => args \subseteq InAddr \cup DOMAIN Ip6Int
  PROVE  StubInv'
<1>1. PICK a \in args : call' = CallOf(op, a) /\ pc' = IF op \in Qualified THEN "rules" ELSE "name"
  BY DEF Call
<1>2. UNCHANGED <<lib, conf, past, now, ip, rw>> /\ line' = None
  BY DEF Call
<1>3. call' = [op |-> op, arg |-> a, rules |-> None, buf |-> a, len |-> Len(a), plus |-> 0, i |-> 0,
               asks |-> << >>, servers |-> None, at |-> 0, max |-> 0, out |-> {}, lost |-> FALSE]
  BY <1>1 DEF CallOf
<1>4. /\ call' = [f \in CallFields |-> call'[f]] /\ call'.op = op /\ call'.arg = a /\ call'.rules = None /\ call'.buf = a
      /\ call'.len = Len(a) /\ call'.servers = None /\ call'.out = {} /\ call'.lost = FALSE
  BY <1>3 DEF CallFields
<1>5. IsText(a)
  BY StubAssumption
<1>6. Base(op) = "name6" => op = "name6"
  BY DEF Base
<1>7. StubTypeOK'
  BY <1>1, <1>2, <1>4, <1>6 DEF StubInv, StubTypeOK
<1>8. FreshInv'
  BY <1>1, <1>2, <1>4, LoadedSame DEF FreshInv
<1>9. NameInv'
  <2>1. Rewriting(call)' = a
    BY <1>4 DEF Rewriting
  <2> QED
    BY <1>1, <1>4, <1>5, <2>1 DEF NameInv
<1>10. AskInv' /\ FoundInv' /\ LineFits'
  BY <1>1, <1>2, <1>4 DEF AskInv, FoundInv, LineFits
<1> QED
  BY <1>7, <1>8, <1>9, <1>10 DEF StubInv

LEMMA BeginStep == ASSUME StubInv, begin PROVE StubInv'
<1>1. /\ {"ip4", "ip6", "ip4q", "ip6q", "mx", "name4", "name6", "namex", "txt", "dq_ip", "dq_ipq", "dq_ip4q", "dq_ip6q"} \subseteq Ops
      /\ Arg \subseteq Arg \cup InAddr \cup DOMAIN Ip6Int /\ InAddr \subseteq Arg \cup InAddr \cup DOMAIN Ip6Int
      /\ InAddr \cup DOMAIN Ip6Int \subseteq Arg \cup InAddr \cup DOMAIN Ip6Int
  BY DEF Ops, Qualified
<1>2. CASE dnsip
  BY <1>1, <1>2, CallStep DEF dnsip
<1>3. CASE dnsip6
  BY <1>1, <1>3, CallStep DEF dnsip6
<1>4. CASE dnsipq
  BY <1>1, <1>4, CallStep DEF dnsipq
<1>5. CASE dnsip6q
  BY <1>1, <1>5, CallStep DEF dnsip6q
<1>6. CASE dnsmx
  BY <1>1, <1>6, CallStep DEF dnsmx
<1>7. CASE dnsname
  BY <1>1, <1>7, CallStep DEF dnsname
<1>8. CASE dnsnamex
  BY <1>1, <1>8, CallStep DEF dnsnamex
<1>9. CASE dnstxt
  BY <1>1, <1>9, CallStep DEF dnstxt
<1>10. CASE dns_ip
  BY <1>1, <1>10, CallStep DEF dns_ip
<1>11. CASE dns_ip_qualify
  BY <1>1, <1>11, CallStep DEF dns_ip_qualify
<1>12. CASE dns_ip4_qualify
  BY <1>1, <1>12, CallStep DEF dns_ip4_qualify
<1>13. CASE dns_ip6_qualify
  BY <1>1, <1>13, CallStep DEF dns_ip6_qualify
<1> QED
  BY <1>2, <1>3, <1>4, <1>5, <1>6, <1>7, <1>8, <1>9, <1>10, <1>11, <1>12, <1>13 DEF begin

LEMMA RulesStep == ASSUME StubInv, dns_resolvconfrewrite PROVE StubInv'
<1>1. pc = "rules" /\ UNCHANGED <<lib, conf, past, now, ip>>
  BY DEF dns_resolvconfrewrite
<1>2. /\ StubTypeOK /\ LoadedOK(rw, SaysRules) /\ Says' = Says /\ SaysRules' = SaysRules
      /\ now \in Int /\ conf \in Conf /\ call.servers = None /\ call.out = {}
      /\ call = [f \in CallFields |-> call[f]] /\ call.op \in Ops
  BY <1>1, SaysKept DEF StubInv, StubTypeOK, FreshInv, FoundInv
<1>3. CASE Unreadable(rw)
  <2>1. rw' = [rw EXCEPT !.ok = FALSE] /\ fail
    BY <1>3 DEF dns_resolvconfrewrite
  <2>2. LoadedOK(rw', SaysRules)
    BY <1>2, <2>1, UnusedOK
  <2>3. LoadedOK(rw, SaysRules)'
    BY <1>1, <1>2, <2>2 DEF LoadedOK, FreshAt
  <2> QED
    BY <1>1, <2>1, <2>3, LoadedSame, FailKeeps
<1>4. CASE ~Unreadable(rw)
  <2>1. PICK s, w :
          /\ s = Used(rw, SaysRules[conf]) /\ w = Rewritten(call.arg, s.data, call.op)
          /\ rw' = s
          /\ call' = [call EXCEPT !.rules = s.data, !.at = now, !.buf = w, !.len = Len(w),
                                  !.plus = Plus(w, 1), !.i = Plus(w, 1) + 1]
          /\ pc' = IF Plus(w, 1) > Len(w) THEN "name" ELSE "alternative"
          /\ UNCHANGED line
    BY <1>2, <1>4, SaysAre DEF dns_resolvconfrewrite
  <2>2. LoadedOK(s, SaysRules) /\ FreshAt(now, s.data, SaysRules)
    BY <1>2, <2>1, UsedFresh
  <2>3. IsRules(s.data) /\ s.data # None
    BY <1>2, <2>2, FreshSaid, SaysAre DEF IsRules
  <2>4. IsText(call.arg)
    BY <1>1, <1>2, StubAssumption DEF StubTypeOK
  <2>5. IsText(w)
    BY <2>1, <2>3, <2>4, RewrittenText
  <2>6. /\ call' = [f \in CallFields |-> call'[f]] /\ call'.op = call.op /\ call'.arg = call.arg /\ call'.rules = s.data
        /\ call'.at = now /\ call'.buf = w /\ call'.len = Len(w) /\ call'.plus = Plus(w, 1) /\ call'.i = Plus(w, 1) + 1
        /\ call'.servers = None /\ call'.out = {} /\ call'.lost = call.lost
    BY <1>2, <2>1 DEF CallFields
  <2>7. pc' \in {"name", "alternative"}
    BY <2>1
  <2>8. IsPlus(w, 1, Plus(w, 1)) /\ Len(w) \in Nat
    BY <2>5, PlusIs DEF IsText
  <2>9. call.op \in Qualified
    BY <1>1 DEF StubInv, StubTypeOK
  <2>10. StubTypeOK'
    BY <1>1, <1>2, <2>6, <2>7, <2>9 DEF StubTypeOK
  <2>11. LoadedOK(rw, SaysRules)' /\ FreshAt(call.at, call.rules, SaysRules)'
    <3>1. LoadedOK(rw', SaysRules) /\ FreshAt(call'.at, call'.rules, SaysRules)
      BY <2>1, <2>2, <2>6
    <3> QED
      BY <1>1, <1>2, <3>1 DEF LoadedOK, FreshAt
  <2>12. FreshInv'
    BY <1>1, <1>2, <2>6, <2>7, <2>11, LoadedSame DEF FreshInv
  <2>13. NameInv'
    <3>1. Rewriting(call)' = w
      BY <2>1, <2>3, <2>6 DEF Rewriting
    <3>2. CASE Plus(w, 1) > Len(w)
      <4>1. IsText(call'.buf) /\ Len(call'.buf) = Len(w) /\ call'.buf = w /\ call'.len = Len(w) /\ call'.plus > Len(w)
        BY <2>5, <2>6, <3>2
      <4>2. pc' # "alternative"
        BY <2>1, <3>2
      <4>3. call'.plus = Plus(w, 1) /\ Untouched(call'.buf, w, call'.plus, call'.i)
        BY <2>6 DEF Untouched
      <4> QED
        BY <2>5, <3>1, <4>1, <4>2, <4>3 DEF NameInv
    <3>3. CASE ~(Plus(w, 1) > Len(w))
      <4>0. PICK a : a = Plus(w, 1)
        OBVIOUS
      <4>1. a \in 1..Len(w) /\ w[a] = "+" /\ \A b \in 1..(a - 1) : w[b] # "+"
        BY <2>8, <3>3, <4>0 DEF IsPlus
      <4>2. AtAlternative(w, a)'
        BY <2>1, <2>6, <3>3, <4>0, <4>1 DEF AtAlternative
      <4> QED
        <5>1. IsText(call'.buf) /\ Len(call'.buf) = Len(w) /\ call'.rules # None /\ ~(call'.plus > Len(w))
          BY <2>3, <2>5, <2>6, <3>3
        <5>2. call'.plus = Plus(w, 1) /\ Untouched(call'.buf, w, call'.plus, call'.i)
          BY <2>6 DEF Untouched
        <5>3. \E b \in 1..Len(w) : AtAlternative(w, b)'
          BY <4>1, <4>2
        <5> QED
          BY <2>5, <3>1, <5>1, <5>2, <5>3 DEF NameInv
    <3> QED
      BY <3>2, <3>3
  <2>14. AskInv' /\ FoundInv'
    BY <2>6, <2>7 DEF AskInv, FoundInv
  <2>15. LineFits'
    BY <2>1, LineKept
  <2> QED
    BY <2>10, <2>12, <2>13, <2>14, <2>15 DEF StubInv
<1> QED
  BY <1>3, <1>4

LEMMA QualifyStep == ASSUME StubInv, qualify PROVE StubInv'
<1>0. PICK w, j, c :
        w = Rewriting(call) /\ j = Plus(call.buf, call.i) - call.i /\ c = Copied(call.buf, call.plus, call.i, j)
  OBVIOUS
<1>1. pc = "alternative" /\ pc' = "name" /\ UNCHANGED <<lib, conf, past, now, ip, rw, line>>
  BY DEF qualify
<1>2. StubTypeOK /\ call = [f \in CallFields |-> call[f]] /\ call.out = {} /\ Says' = Says /\ SaysRules' = SaysRules
  BY <1>1, SaysKept DEF StubInv, StubTypeOK, FoundInv
<1>3. /\ IsText(w) /\ IsText(call.buf) /\ Len(call.buf) = Len(w) /\ call.rules # None /\ call.plus = Plus(w, 1)
      /\ ~(call.plus > Len(w))
      /\ \E a \in 1..Len(w) : AtAlternative(w, a)
      /\ Untouched(call.buf, w, call.plus, call.i)
  BY <1>0, <1>1 DEF StubInv, NameInv
<1>4. call' = [call EXCEPT !.buf = c, !.len = call.plus + j - 1, !.i = call.i + j]
  BY <1>0 DEF qualify
<1>5. /\ call' = [f \in CallFields |-> call'[f]] /\ call'.op = call.op /\ call'.arg = call.arg /\ call'.rules = call.rules
      /\ call'.at = call.at /\ call'.buf = c /\ call'.len = call.plus + j - 1 /\ call'.plus = call.plus /\ call'.i = call.i + j
      /\ call'.servers = call.servers /\ call'.out = {} /\ call'.lost = call.lost
  BY <1>2, <1>4 DEF CallFields
<1>6. PICK a \in 1..Len(w) : AtAlternative(w, a)
  BY <1>3
<1>7. w[a] = "+" /\ call.i = a + 1
  BY <1>1, <1>6 DEF AtAlternative
<1>8. /\ IsText(c) /\ Len(c) = Len(w) /\ a + 1 + j = Plus(w, a + 1)
      /\ Untouched(c, w, call.plus, a + 1 + j)
      /\ SubSeq(c, 1, call.plus + j - 1) = Alternative(w, a)
  <2>1. j = Plus(call.buf, a + 1) - (a + 1) /\ c = Copied(call.buf, call.plus, a + 1, j)
    BY <1>0, <1>7
  <2>2. Untouched(call.buf, w, call.plus, a + 1)
    BY <1>3, <1>7
  <2>3. IsCopy(w, call.buf, call.plus, a, j, c)
    BY <1>3, <1>6, <1>7, <2>1, <2>2 DEF IsCopy
  <2> QED
    BY <1>3, <1>6, <1>7, <2>3, CopiedText
<1>9. Rewriting(call)' = w /\ Base(call.op)' = Base(call.op)
  BY <1>0, <1>5 DEF Rewriting
<1>10. fqdn' = Alternative(w, a)
  BY <1>5, <1>8 DEF fqdn
<1>11. NameInv'
  <2>1. AtAlternative(w, a)'
    BY <1>1, <1>5, <1>6, <1>7, <1>8, <1>9, <1>10 DEF AtAlternative
  <2> QED
    BY <1>1, <1>3, <1>5, <1>7, <1>8, <1>9, <2>1 DEF NameInv
<1>12. StubTypeOK'
  BY <1>1, <1>2, <1>5 DEF StubTypeOK
<1>13. FreshInv'
  <2>1. FreshInv
    BY DEF StubInv
  <2> QED
    BY <1>1, <1>2, <1>5, <2>1, LoadedSame, FreshKept DEF FreshInv
<1>14. AskInv' /\ FoundInv' /\ LineFits'
  BY <1>1, <1>5, LineKept DEF AskInv, FoundInv
<1> QED
  BY <1>11, <1>12, <1>13, <1>14 DEF StubInv

----------------------------------------------------------------------------
(* Answers *)

BaseOps == {"ip4", "ip6", "mx", "name4", "name6", "namex", "txt", "dq_ip", "dq_ip4", "dq_ip6"}
Kinds(o) ==
  CASE o = "ip4" -> {"A"} [] o = "ip6" -> {"AAAA", "A"} [] o = "mx" -> {"MX"} [] o = "txt" -> {"TXT"}
    [] o \in {"name4", "name6", "namex"} -> {"PTR"}
    [] o = "dq_ip4" -> {"A"} [] o = "dq_ip6" -> {"AAAA"} [] o = "dq_ip" -> {"AAAA", "A"}

LEMMA BaseIs == ASSUME NEW op \in Ops PROVE Base(op) \in BaseOps
BY DEF Ops, Base, Qualified, BaseOps

LEMMA Tuples ==
  /\ \A s : ToSet(<<s>>) = {s} /\ Len(<<s>>) = 1 /\ Head(<<s>>) = s /\ Tail(<<s>>) = << >> /\ <<s>> # << >>
  /\ ToSet(<< >>) = {}
  /\ \A s, t : ToSet(<<s, t>>) = {s, t} /\ Len(<<s, t>>) = 2 /\ Head(<<s, t>>) = s /\ Tail(<<s, t>>) = <<t>>
BY DEF ToSet

LEMMA WantsAre == ASSUME NEW o \in BaseOps, NEW n PROVE Wants(o, n) = Kinds(o)
<1>1. CASE o \in {"ip6", "dq_ip"}
  <2>1. Asks(o, n) = <<"AAAA", "A">> /\ Kinds(o) = {"AAAA", "A"}
    BY <1>1 DEF Asks, Kinds
  <2> QED
    BY <2>1, Tuples DEF Wants
<1>2. CASE o \in {"ip4", "mx", "namex", "name4", "txt", "dq_ip4", "dq_ip6"}
  <2>1. PICK t : Asks(o, n) = <<t>> /\ Kinds(o) = {t}
    BY <1>2 DEF Asks, Kinds
  <2> QED
    BY <2>1, Tuples DEF Wants
<1>3. CASE o = "name6"
  <2>1. (Asks(o, n) = <<"PTR">> \/ Asks(o, n) = <<"PTR", "PTR">>) /\ Kinds(o) = {"PTR"}
    BY <1>3 DEF Asks, Kinds
  <2> QED
    BY <2>1, Tuples DEF Wants
<1> QED
  BY <1>1, <1>2, <1>3 DEF BaseOps

LEMMA TakeIs ==
  ASSUME NEW o \in BaseOps, NEW m, NEW t \in Kinds(o)
  PROVE  Outcomes(o, Answer(m, t)) =
           IF o \in {"name4", "name6"} THEN First1(OfType(Records(m), {"PTR"})) ELSE {OfType(Records(m), {t})}
<1> DEFINE rs == Records(m)
<1>1. Answer(m, t) = {r \in rs : r.type \in {t, "CNAME"}}
  BY DEF Answer
<1> HIDE DEF rs
<1>2. \A S : t \in S /\ "CNAME" \notin S => OfType(Answer(m, t), S) = OfType(rs, {t})
  BY <1>1 DEF OfType
<1>3. CASE o \in {"ip4", "ip6", "mx", "txt"}
  BY <1>2, <1>3 DEF Kinds, Outcomes, dns_ip4_packet, dns_ip6_packet_add, dns_mx_packet, dns_txt_packet, rs
<1>4. CASE o \in {"name4", "name6", "namex"}
  BY <1>2, <1>4 DEF Kinds, Outcomes, dns_name_packet, dns_name_packet_multi, rs
<1>5. CASE o \in {"dq_ip", "dq_ip4", "dq_ip6"}
  BY <1>2, <1>5 DEF Kinds, Outcomes, ip_packet, rs
<1> QED
  BY <1>3, <1>4, <1>5 DEF BaseOps

Ptr(n) == OfType(Records(n), {"PTR"})
LEMMA WantedIs ==
  ASSUME NEW o \in BaseOps, NEW n, ~IsAddress(o, n)
  PROVE  /\ o \notin {"name4", "name6"} => Wanted(o, n) = {Come(o, n, << >>)}
         /\ o = "name4" => Wanted(o, n) = First1(Ptr(n))
         /\ o = "name6" => Wanted(o, n) = First1(Ptr(IF n \notin InAddr /\ Ptr(n) = {} THEN Ip6Int[n] ELSE n))
<1> DEFINE W(m) == IF o \in {"name4", "name6"} THEN First1(OfType(Records(m), Kinds(o))) ELSE {OfType(Records(m), Kinds(o))}
<1>1. \A m : {r \in Records(m) : r.type \in ToSet(Asks(o, m))} = OfType(Records(m), Kinds(o))
  BY WantsAre DEF Wants, OfType
<1>2. Wanted(o, n) = IF o = "name6" /\ n \notin InAddr /\ OfType(Records(n), Kinds(o)) = {} THEN W(Ip6Int[n]) ELSE W(n)
  BY <1>1 DEF Wanted
<1>3. o \in {"name4", "name6"} => Kinds(o) = {"PTR"}
  BY DEF Kinds
<1>4. Come(o, n, << >>) = OfType(Records(n), Kinds(o))
  BY WantsAre, Tuples DEF Come
<1> QED
  BY <1>2, <1>3, <1>4 DEF Ptr

LEMMA WantedEmpty == ASSUME NEW o, NEW n, {} \in Wanted(o, n) PROVE Wanted(o, n) = {{}}
<1>1. \A rs : {} \in First1(rs) => First1(rs) = {{}}
  BY DEF First1
<1> DEFINE R(m) == {r \in Records(m) : r.type \in ToSet(Asks(o, m))}
           W(m) == IF o \in {"name4", "name6"} THEN First1(R(m)) ELSE {R(m)}
<1>2. Wanted(o, n) = {Addresses(o, n)} \/ Wanted(o, n) = W(Ip6Int[n]) \/ Wanted(o, n) = W(n)
  BY DEF Wanted
<1> QED
  BY <1>1, <1>2

\* One more question answered.
OneLess(asks, t, rest) == t \in ToSet(asks) /\ ToSet(rest) = ToSet(asks) \ {t}
ComesTo(o, n, asks, t, rest) == Come(o, n, rest) = Come(o, n, asks) \cup OfType(Records(n), {t})
LEMMA ComeMore ==
  ASSUME NEW o \in BaseOps, NEW n, NEW asks, NEW t \in Kinds(o), NEW rest, OneLess(asks, t, rest)
  PROVE  ComesTo(o, n, asks, t, rest)
<1> USE DEF OneLess, ComesTo
<1>1. Wants(o, n) \ ToSet(rest) = (Wants(o, n) \ ToSet(asks)) \cup {t}
  BY WantsAre
<1> QED
  BY <1>1 DEF Come, OfType

LEMMA ComeSome ==
  ASSUME NEW o \in BaseOps, NEW n, NEW asks
  PROVE  Come(o, n, asks) \subseteq Come(o, n, << >>)
BY Tuples DEF Come, OfType

LEMMA FitsAll ==
  ASSUME NEW o \in BaseOps, NEW n, ~IsAddress(o, n), o \notin {"name4", "name6"}, NEW out, NEW lost \in BOOLEAN,
         out \subseteq Come(o, n, << >>), out = Come(o, n, << >>) \/ lost
  PROVE  Belongs(o, n, out, lost)
BY WantedIs DEF Belongs

\* A question of two, or the last, and what is left then.
LEMMA AsksAre ==
  ASSUME NEW o \in BaseOps, NEW n, NEW p, NEW asks, NEW out, NEW lost, Asking(o, n, p, asks, out, lost), o \notin {"name4", "name6"}
  PROVE  /\ (\E t : asks = <<t>>) \/ (o \in {"ip6", "dq_ip"} /\ asks = <<"AAAA", "A">>)
         /\ ToSet(asks) \subseteq Kinds(o)
<1>1. \/ asks = Asks(o, n)
      \/ o \in {"ip6", "dq_ip"} /\ asks = <<"A">>
      \/ o = "dq_ip" /\ asks = <<"AAAA">>
  BY DEF Asking
<1>2. o \in {"ip4", "ip6", "mx", "namex", "txt", "dq_ip", "dq_ip4", "dq_ip6"}
  BY DEF BaseOps
<1>3. (\E t : asks = <<t>>) \/ (o \in {"ip6", "dq_ip"} /\ asks = <<"AAAA", "A">>)
  BY <1>1, <1>2 DEF Asks
<1>4. ToSet(asks) \subseteq Kinds(o)
  BY <1>1, <1>2, Tuples, WantsAre DEF Wants, Kinds
<1> QED
  BY <1>3, <1>4

----------------------------------------------------------------------------
(* The steps of an exchange *)

LEMMA WorkStep ==
  ASSUME StubInv, UNCHANGED <<lib, conf, past, now, rw, line>>, LoadedOK(ip, Says)', pc \in Working, pc' \in Working, SameName, IsCall,
         \/ SameConf
         \/ call'.at = now /\ call'.servers # None /\ FreshAt(now, call'.servers, Says),
         pc' = "wait" => call'.servers # None,
         pc' \in {"resolve", "wait"} => Asking(Base(call.op), fqdn, pc', call'.asks, call'.out, call'.lost),
         pc' = "found" => Belongs(Base(call.op), fqdn, call'.out, call'.lost), pc' # "name"
  PROVE  StubInv'
<1>1. StubTypeOK' /\ FreshInv' /\ NameInv' /\ fqdn' = fqdn /\ Base(call.op)' = Base(call.op)
  BY WorkKeeps
<1>2. LineFits'
  BY LineKept
<1>3. AskInv'
  BY <1>1 DEF AskInv
<1>4. FoundInv'
  BY <1>1 DEF FoundInv, Working
<1> QED
  BY <1>1, <1>2, <1>3, <1>4 DEF StubInv

LEMMA CallIs ==
  ASSUME StubInv, pc # "idle"
  PROVE  /\ call = [f \in CallFields |-> call[f]] /\ call.lost \in BOOLEAN /\ Base(call.op) \in BaseOps
         /\ StubTypeOK /\ FreshInv /\ NameInv /\ AskInv /\ FoundInv
         /\ UNCHANGED <<lib, conf, past, now>> =>
              (ip' = ip => LoadedOK(ip, Says)') /\ (rw' = rw => LoadedOK(rw, SaysRules)')
BY BaseIs, LoadedSame DEF StubInv, StubTypeOK

LEMMA NameStep == ASSUME StubInv, name PROVE StubInv'
<1>1. pc = "name" /\ UNCHANGED <<lib, conf, past, now, ip, rw>>
  BY DEF name
<1>2. PICK o, n : o = Base(call.op) /\ n = fqdn
  OBVIOUS
<1>3. /\ call = [f \in CallFields |-> call[f]] /\ call.lost \in BOOLEAN /\ o \in BaseOps
      /\ LoadedOK(ip, Says)' /\ LoadedOK(rw, SaysRules)'
  BY <1>1, <1>2, CallIs
<1>4. CASE o = "ip6" /\ BeginsIp4(n) /\ ~IsIp4(n)
  <2>1. fail
    BY <1>2, <1>4 DEF name
  <2> QED
    BY <1>1, <1>3, <2>1, FailKeeps
<1>5. CASE ~(o = "ip6" /\ BeginsIp4(n) /\ ~IsIp4(n)) /\ IsAddress(o, n) /\ (o = "ip6" => IsIp4(n) \/ ~BeginsIp4(n))
  <2>1. call' = [call EXCEPT !.out = Addresses(o, n)] /\ pc' = "found" /\ UNCHANGED line
    BY <1>2, <1>5 DEF name
  <2>2. IsCall /\ SameName /\ SameConf /\ call'.out = Addresses(o, n)
    BY <1>3, <2>1 DEF IsCall, SameName, SameConf, CallFields
  <2>3. Belongs(o, n, call'.out, call'.lost)
    <3>1. o # "name6"
      BY <1>5 DEF IsAddress
    <3>2. Wanted(o, n) = {Addresses(o, n)}
      BY <1>5, <3>1 DEF Wanted
    <3> QED
      BY <2>2, <3>2 DEF Belongs
  <2> QED
    BY <1>1, <1>2, <1>3, <2>1, <2>2, <2>3, WorkStep DEF Working
<1>6. CASE ~(o = "ip6" /\ BeginsIp4(n) /\ ~IsIp4(n)) /\ ~(IsAddress(o, n) /\ (o = "ip6" => IsIp4(n) \/ ~BeginsIp4(n)))
  <2>1. call' = [call EXCEPT !.out = {}, !.asks = Asks(o, n)] /\ pc' = "resolve" /\ UNCHANGED line
    BY <1>2, <1>6 DEF name
  <2>2. IsCall /\ SameName /\ SameConf /\ call'.out = {} /\ call'.asks = Asks(o, n)
    BY <1>3, <2>1 DEF IsCall, SameName, SameConf, CallFields
  <2>3. ~IsAddress(o, n)
    BY <1>6
  <2>4. Come(o, n, Asks(o, n)) = {}
    BY DEF Come, Wants, OfType
  <2>5. Asking(o, n, "resolve", call'.asks, call'.out, call'.lost)
    BY <2>2, <2>3, <2>4 DEF Asking
  <2> QED
    BY <1>1, <1>2, <1>3, <2>1, <2>2, <2>5, WorkStep DEF Working
<1> QED
  BY <1>4, <1>5, <1>6

\* An answer, got, to the first question, all of it unless it is lost.
Answers(o, n, p, asks, out, lost, got, later) ==
  /\ o \in BaseOps \ {"name4", "name6"} /\ Asking(o, n, p, asks, out, lost)
  /\ got \subseteq OfType(Records(n), {Head(asks)}) /\ (got = OfType(Records(n), {Head(asks)}) \/ later)
  /\ later \in BOOLEAN /\ (lost => later)
LEMMA TailMore ==
  ASSUME NEW o, NEW n, NEW p, NEW asks, NEW out, NEW lost, NEW got, NEW later, Answers(o, n, p, asks, out, lost, got, later),
         NEW more, more = out \cup got
  PROVE  /\ Tail(asks) = << >> => Belongs(o, n, more, later)
         /\ Tail(asks) # << >> => o \in {"ip6", "dq_ip"} /\ \A q : Asking(o, n, q, Tail(asks), more, later)
         /\ Tail(asks) = << >> <=> Len(asks) = 1
         /\ Len(asks) \in {1, 2}
<1> USE DEF Answers
<1>1. /\ (\E t : asks = <<t>>) \/ (o \in {"ip6", "dq_ip"} /\ asks = <<"AAAA", "A">>)
      /\ ToSet(asks) \subseteq Kinds(o)
  BY AsksAre
<1>2. /\ Head(asks) \in ToSet(asks) /\ ToSet(Tail(asks)) = ToSet(asks) \ {Head(asks)}
      /\ (Tail(asks) = << >> <=> Len(asks) = 1) /\ Len(asks) \in {1, 2}
      /\ Tail(asks) # << >> => o \in {"ip6", "dq_ip"} /\ Tail(asks) = <<"A">>
  <2>1. CASE \E t : asks = <<t>>
    <3>1. PICK t : asks = <<t>>
      BY <2>1
    <3>2. Head(asks) = t /\ ToSet(asks) = {t} /\ Tail(asks) = << >> /\ Len(asks) = 1 /\ ToSet(<< >>) = {}
      BY <3>1, Tuples
    <3> QED
      BY <3>2
  <2>2. CASE o \in {"ip6", "dq_ip"} /\ asks = <<"AAAA", "A">>
    <3>1. /\ Head(asks) = "AAAA" /\ ToSet(asks) = {"AAAA", "A"} /\ Tail(asks) = <<"A">> /\ Len(asks) = 2
          /\ ToSet(Tail(asks)) = {"A"} /\ Tail(asks) # << >>
      BY <2>2, Tuples
    <3> QED
      BY <2>2, <3>1
  <2> QED
    BY <1>1, <2>1, <2>2
<1>3. Come(o, n, Tail(asks)) = Come(o, n, asks) \cup OfType(Records(n), {Head(asks)})
  <2>1. Head(asks) \in Kinds(o)
    BY <1>1, <1>2
  <2> QED
    <3>1. OneLess(asks, Head(asks), Tail(asks)) /\ o \in BaseOps
      BY <1>2 DEF OneLess
    <3>2. ComesTo(o, n, asks, Head(asks), Tail(asks))
      BY <2>1, <3>1, ComeMore
    <3> QED
      BY <3>2 DEF ComesTo
<1>4. out \subseteq Come(o, n, asks) /\ (out = Come(o, n, asks) \/ lost) /\ ~IsAddress(o, n)
  BY DEF Asking
<1>5. more \subseteq Come(o, n, Tail(asks)) /\ (more = Come(o, n, Tail(asks)) \/ later)
  BY <1>3, <1>4
<1>6. Tail(asks) = << >> => Belongs(o, n, more, later)
  BY <1>4, <1>5, FitsAll
<1>7. Tail(asks) # << >> => \A q : Asking(o, n, q, Tail(asks), more, later)
  BY <1>2, <1>4, <1>5 DEF Asking
<1> QED
  BY <1>2, <1>6, <1>7

\* A question that nobody answers.
LEMMA TailLost ==
  ASSUME NEW o \in BaseOps, NEW n, NEW p, NEW asks, NEW out, NEW lost, Asking(o, n, p, asks, out, lost), o = "ip6"
  PROVE  /\ Tail(asks) = << >> => Belongs(o, n, out, TRUE)
         /\ Tail(asks) # << >> => \A q : Asking(o, n, q, Tail(asks), out, TRUE)
         /\ Tail(asks) = << >> <=> Len(asks) = 1
         /\ Len(asks) \in {1, 2}
<1>1. out = out \cup {} /\ {} \subseteq OfType(Records(n), {Head(asks)}) /\ o \notin {"name4", "name6"} /\ TRUE \in BOOLEAN
  OBVIOUS
<1>2. Answers(o, n, p, asks, out, lost, {}, TRUE)
  BY <1>1 DEF Answers
<1> QED
  BY <1>1, <1>2, TailMore

LEMMA ResolveStep == ASSUME StubInv, dns_resolve PROVE StubInv'
<1>1. pc = "resolve" /\ UNCHANGED <<lib, conf, past, now, rw>>
  BY DEF dns_resolve
<1>2. PICK o, n : o = Base(call.op) /\ n = fqdn
  OBVIOUS
<1>3. /\ call = [f \in CallFields |-> call[f]] /\ call.lost \in BOOLEAN /\ o \in BaseOps /\ LoadedOK(rw, SaysRules)'
      /\ Asking(o, n, "resolve", call.asks, call.out, call.lost) /\ StubTypeOK /\ LoadedOK(ip, Says) /\ Says' = Says /\ conf \in Conf
  BY <1>1, <1>2, CallIs, SaysKept DEF AskInv, FreshInv, StubTypeOK
<1>4. CASE Unreadable(ip)
  <2>1. ip' = [ip EXCEPT !.ok = FALSE]
    BY <1>4 DEF dns_resolve
  <2>2. LoadedOK(ip', Says)
    BY <1>3, <2>1, UnusedOK
  <2>3. LoadedOK(ip, Says)'
    BY <1>1, <1>3, <2>2 DEF LoadedOK, FreshAt
  <2>4. CASE o = "ip6"
    <3>1. /\ Tail(call.asks) = << >> => Belongs(o, n, call.out, TRUE)
          /\ Tail(call.asks) # << >> => \A q : Asking(o, n, q, Tail(call.asks), call.out, TRUE)
          /\ Tail(call.asks) = << >> <=> Len(call.asks) = 1
          /\ Len(call.asks) \in {1, 2}
      BY <1>3, <2>4, TailLost
    <3>3. CASE Len(call.asks) = 2
      <4>1. call' = [call EXCEPT !.asks = Tail(@), !.lost = TRUE] /\ UNCHANGED <<pc, line>>
        BY <1>2, <1>4, <2>4, <3>3 DEF dns_resolve
      <4>2. IsCall /\ SameName /\ SameConf /\ call'.out = call.out /\ call'.asks = Tail(call.asks) /\ call'.lost = TRUE
        BY <1>3, <4>1 DEF IsCall, SameName, SameConf, CallFields
      <4>3. Asking(o, n, pc', call'.asks, call'.out, call'.lost)
        <5>1. Tail(call.asks) # << >>
          BY <3>1, <3>3
        <5> QED
          BY <3>1, <4>2, <5>1
      <4> QED
        BY <1>1, <1>2, <1>3, <2>3, <4>1, <4>2, <4>3, WorkStep DEF Working
    <3>4. CASE Len(call.asks) # 2
      <4>1. call' = [call EXCEPT !.lost = TRUE] /\ pc' = "found" /\ UNCHANGED line
        BY <1>2, <1>4, <2>4, <3>4 DEF dns_resolve
      <4>2. IsCall /\ SameName /\ SameConf /\ call'.out = call.out /\ call'.lost = TRUE
        BY <1>3, <4>1 DEF IsCall, SameName, SameConf, CallFields
      <4>3. Len(call.asks) = 1
        BY <3>1, <3>4
      <4>4. Belongs(o, n, call'.out, call'.lost)
        BY <3>1, <4>2, <4>3
      <4> QED
        BY <1>1, <1>2, <1>3, <2>3, <4>1, <4>2, <4>4, WorkStep DEF Working
    <3> QED
      BY <3>3, <3>4
  <2>5. CASE o # "ip6"
    <3>1. fail
      BY <1>2, <1>4, <2>5 DEF dns_resolve
    <3> QED
      BY <1>1, <1>3, <2>3, <3>1, FailKeeps
  <2> QED
    BY <2>4, <2>5
<1>5. CASE ~Unreadable(ip)
  <2>1. PICK s : /\ s = Used(ip, Says[conf]) /\ ip' = s
                 /\ call' = [call EXCEPT !.servers = s.data, !.at = now] /\ pc' = "wait" /\ UNCHANGED line
    BY <1>3, <1>5, SaysAre DEF dns_resolve
  <2>2. LoadedOK(s, Says) /\ FreshAt(now, s.data, Says)
    BY <1>3, <2>1, UsedFresh
  <2>3. s.data # None
    BY <1>3, <2>2, FreshSaid, SaysAre
  <2>4. /\ IsCall /\ SameName /\ call'.servers = s.data /\ call'.at = now
        /\ call'.out = call.out /\ call'.asks = call.asks /\ call'.lost = call.lost
    BY <1>3, <2>1 DEF IsCall, SameName, CallFields
  <2>5. LoadedOK(ip, Says)'
    BY <1>1, <1>3, <2>1, <2>2 DEF LoadedOK, FreshAt
  <2>6. Asking(o, n, "wait", call'.asks, call'.out, call'.lost)
    BY <1>3, <2>4 DEF Asking
  <2> QED
    BY <1>1, <1>2, <2>1, <2>2, <2>3, <2>4, <2>5, <2>6, WorkStep DEF Working
<1> QED
  BY <1>4, <1>5

LEMMA FailsStep == ASSUME StubInv, dns_transmit_fails PROVE StubInv'
<1>1. pc = "wait" /\ UNCHANGED <<lib, conf, past, now, ip, rw>>
  BY DEF dns_transmit_fails
<1>2. PICK o, n : o = Base(call.op) /\ n = fqdn
  OBVIOUS
<1>3. /\ call = [f \in CallFields |-> call[f]] /\ call.lost \in BOOLEAN /\ o \in BaseOps
      /\ LoadedOK(ip, Says)' /\ LoadedOK(rw, SaysRules)' /\ Asking(o, n, "wait", call.asks, call.out, call.lost)
  BY <1>1, <1>2, CallIs DEF AskInv
<1>4. CASE o = "ip6"
  <2>1. /\ call' = [call EXCEPT !.asks = Tail(@), !.lost = TRUE] /\ UNCHANGED line
        /\ pc' = (IF Len(call.asks) = 1 THEN "found" ELSE "resolve")
    BY <1>2, <1>4 DEF dns_transmit_fails
  <2>2. IsCall /\ SameName /\ SameConf /\ call'.out = call.out /\ call'.asks = Tail(call.asks) /\ call'.lost = TRUE
    BY <1>3, <2>1 DEF IsCall, SameName, SameConf, CallFields
  <2>3. /\ Tail(call.asks) = << >> => Belongs(o, n, call.out, TRUE)
        /\ Tail(call.asks) # << >> => \A q : Asking(o, n, q, Tail(call.asks), call.out, TRUE)
        /\ Tail(call.asks) = << >> <=> Len(call.asks) = 1
    BY <1>3, <1>4, TailLost
  <2> QED
    BY <1>1, <1>2, <1>3, <2>1, <2>2, <2>3, WorkStep DEF Working
<1>5. CASE o # "ip6"
  <2>1. fail
    BY <1>2, <1>5 DEF dns_transmit_fails
  <2> QED
    BY <1>1, <1>3, <2>1, FailKeeps
<1> QED
  BY <1>4, <1>5

LEMMA WholeText == ASSUME NEW s, IsText(s) PROVE SubSeq(s, 1, Len(s)) = s /\ (Len(s) = 0 => s = << >>)
<1>1. Len(s) \in Nat /\ s = [i \in 1..Len(s) |-> s[i]]
  BY DEF IsText
<1>2. IsText(SubSeq(s, 1, Len(s))) /\ Len(SubSeq(s, 1, Len(s))) = Len(s) /\ \A k \in 1..Len(s) : SubSeq(s, 1, Len(s))[k] = s[k]
  BY <1>1, PrefixText
<1>3. SubSeq(s, 1, Len(s)) = s
  BY <1>2, SameText
<1>4. Len(s) = 0 => s = << >>
  <2>1. IsText(<< >>) /\ Len(<< >>) = 0
    BY DEF IsText
  <2> QED
    BY <2>1, SameText
<1> QED
  BY <1>3, <1>4

\* dns_name6 asks for the ip6.int domain when the other has no name.
LEMMA AskedIs ==
  ASSUME StubInv, pc = "wait"
  PROVE  AskedName = IF Base(call.op) = "name6" /\ call.asks = <<"PTR">> /\ fqdn \notin InAddr THEN Ip6Int[fqdn] ELSE fqdn
<1>1. CASE Base(call.op) # "name6"
  BY <1>1 DEF AskedName
<1>2. CASE Base(call.op) = "name6"
  <2>1. call.op = "name6" /\ call.arg \in InAddr \cup DOMAIN Ip6Int /\ call.rules = None
    BY <1>2 DEF StubInv, StubTypeOK, Qualified
  <2>2. call.buf = call.arg /\ call.len = Len(call.arg) /\ IsText(call.arg)
    BY <2>1 DEF StubInv, NameInv, Rewriting
  <2>3. fqdn = call.arg /\ (Len(call.arg) = 0 => call.arg = << >>)
    BY <2>2, WholeText DEF fqdn
  <2>4. call.arg \notin InAddr => call.len > 0
    <3>1. call.len \in Nat
      BY <2>2 DEF IsText
    <3> QED
      BY <2>1, <2>2, <2>3, <3>1, StubAssumption
  <2>5. Asking("name6", call.arg, "wait", call.asks, call.out, call.lost)
    BY <1>2, <2>3 DEF StubInv, AskInv
  <2>6. call.arg \notin InAddr => (Len(call.asks) = 1 <=> call.asks = <<"PTR">>)
    <3>1. call.arg \notin InAddr => call.asks = <<"PTR", "PTR">> \/ call.asks = <<"PTR">>
      BY <2>5 DEF Asking, Asks
    <3>2. Len(<<"PTR", "PTR">>) = 2 /\ Len(<<"PTR">>) = 1 /\ <<"PTR", "PTR">> # <<"PTR">>
      OBVIOUS
    <3> QED
      BY <3>1, <3>2
  <2> QED
    BY <1>2, <2>3, <2>4, <2>6 DEF AskedName
<1> QED
  BY <1>1, <1>2

LEMMA NameAnswered ==
  ASSUME NEW o \in {"name4", "name6"}, NEW n, NEW asks, NEW out, NEW lost, Asking(o, n, "wait", asks, out, lost),
         NEW m, m = IF o = "name6" /\ asks = <<"PTR">> /\ n \notin InAddr THEN Ip6Int[n] ELSE n, NEW got \in First1(Ptr(m))
  PROVE  /\ Tail(asks) # << >> /\ got = {} => \A q : Asking(o, n, q, Tail(asks), got, lost)
         /\ ~(Tail(asks) # << >> /\ got = {}) => Belongs(o, n, got, lost)
         /\ Head(asks) = "PTR" /\ out = {}
<1>1. /\ ~IsAddress(o, n) /\ out = {}
      /\ asks = Asks(o, n) \/ (o = "name6" /\ n \notin InAddr /\ asks = <<"PTR">> /\ Ptr(n) = {})
  BY DEF Asking, Ptr
<1>2. o \in BaseOps /\ {} \notin {{r} : r \in Ptr(n)}
  BY DEF BaseOps
<1>3. /\ o = "name4" => Wanted(o, n) = First1(Ptr(n))
      /\ o = "name6" => Wanted(o, n) = First1(Ptr(IF n \notin InAddr /\ Ptr(n) = {} THEN Ip6Int[n] ELSE n))
  BY <1>1, <1>2, WantedIs
<1>4. CASE o = "name6" /\ n \notin InAddr /\ asks = Asks(o, n)
  <2>1. asks = <<"PTR", "PTR">>
    BY <1>4 DEF Asks
  <2>2. Tail(asks) = <<"PTR">> /\ Tail(asks) # << >> /\ Head(asks) = "PTR" /\ m = n
    BY <2>1, Tuples
  <2>3. CASE got = {}
    <3>1. Ptr(n) = {}
      BY <1>2, <2>2, <2>3 DEF First1
    <3> QED
      BY <1>1, <1>4, <2>2, <2>3, <3>1 DEF Asking, Ptr
  <2>4. CASE got # {}
    <3>1. Ptr(n) # {}
      BY <2>2, <2>4 DEF First1
    <3>2. got \in Wanted(o, n)
      BY <1>3, <1>4, <2>2, <3>1
    <3> QED
      BY <1>1, <2>2, <2>4, <3>2 DEF Belongs
  <2> QED
    BY <2>3, <2>4
<1>5. CASE o = "name6" /\ n \notin InAddr /\ asks # Asks(o, n)
  <2>1. asks = <<"PTR">> /\ Ptr(n) = {} /\ m = Ip6Int[n]
    BY <1>1, <1>5
  <2>2. Tail(asks) = << >> /\ Head(asks) = "PTR"
    BY <2>1, Tuples
  <2>3. got \in Wanted(o, n)
    BY <1>3, <1>5, <2>1
  <2> QED
    BY <1>1, <2>2, <2>3 DEF Belongs
<1>6. CASE o = "name4" \/ n \in InAddr
  <2>1. asks = <<"PTR">> /\ m = n
    BY <1>1, <1>6 DEF Asks
  <2>2. Tail(asks) = << >> /\ Head(asks) = "PTR"
    BY <2>1, Tuples
  <2>3. got \in Wanted(o, n)
    BY <1>3, <1>6, <2>1
  <2> QED
    BY <1>1, <2>2, <2>3 DEF Belongs
<1> QED
  BY <1>4, <1>5, <1>6

LEMMA AnswerStep == ASSUME StubInv, answer PROVE StubInv'
<1>1. PICK all, got, c :
        /\ all \in BOOLEAN /\ pc = "wait" /\ Base(call.op) # "dq_ip"
        /\ got \in IF all THEN Take(Head(call.asks)) ELSE UNION {SUBSET g : g \in Take(Head(call.asks))}
        /\ c = [call EXCEPT !.out = @ \cup got, !.asks = Tail(@), !.lost = @ \/ ~all]
        /\ CASE Base(call.op) = "ip6" ->
                  call' = c /\ pc' = (IF c.asks = << >> THEN "found" ELSE "resolve") /\ UNCHANGED line
             [] Base(call.op) # "ip6" /\ ~all -> fail
             [] OTHER -> /\ call' = c /\ UNCHANGED line
                         /\ pc' = IF c.asks # << >> /\ c.out = {} THEN "resolve" ELSE "found"
        /\ UNCHANGED <<lib, conf, past, now, ip, rw>>
  BY ZenonT(60) DEF answer
<1>2. PICK o, n : o = Base(call.op) /\ n = fqdn
  OBVIOUS
<1>3. /\ call = [f \in CallFields |-> call[f]] /\ call.lost \in BOOLEAN /\ o \in BaseOps
      /\ LoadedOK(ip, Says)' /\ LoadedOK(rw, SaysRules)' /\ Asking(o, n, "wait", call.asks, call.out, call.lost)
  BY <1>1, <1>2, CallIs DEF AskInv
<1>4. CASE o # "ip6" /\ ~all
  <2>1. fail
    BY <1>1, <1>2, <1>4
  <2> QED
    BY <1>1, <1>3, <2>1, FailKeeps
<1>5. CASE o = "ip6" \/ all
  <2>1. /\ call' = c /\ UNCHANGED line
        /\ pc' = IF o = "ip6" THEN (IF c.asks = << >> THEN "found" ELSE "resolve")
                 ELSE IF c.asks # << >> /\ c.out = {} THEN "resolve" ELSE "found"
    BY <1>1, <1>2, <1>5
  <2>2. /\ IsCall /\ SameName /\ SameConf /\ call'.out = call.out \cup got /\ call'.asks = Tail(call.asks)
        /\ call'.lost = (call.lost \/ ~all)
    BY <1>1, <1>3, <2>1 DEF IsCall, SameName, SameConf, CallFields
  <2>3. pc' \in {"found", "resolve"} /\ pc' \in Working /\ pc \in Working
    BY <1>1, <2>1 DEF Working
  <2>4. PICK m : m = AskedName /\ m = IF o = "name6" /\ call.asks = <<"PTR">> /\ n \notin InAddr THEN Ip6Int[n] ELSE n
    BY <1>1, <1>2, AskedIs
  <2>5. CASE o \in {"name4", "name6"}
    <3>2. Head(call.asks) = "PTR" /\ call.out = {}
      <4>1. call.asks = <<"PTR">> \/ call.asks = <<"PTR", "PTR">>
        BY <1>3, <2>5 DEF Asking, Asks
      <4>2. call.out = {}
        BY <1>3, <2>5 DEF Asking
      <4> QED
        BY <4>1, <4>2, Tuples
    <3>3. all /\ got \in First1(Ptr(m))
      <4>1. Take("PTR") = First1(Ptr(m))
        BY <1>2, <1>3, <2>4, <2>5, TakeIs DEF Take, Kinds, Ptr
      <4> QED
        BY <1>1, <1>5, <2>5, <3>2, <4>1
    <3>1. /\ Tail(call.asks) # << >> /\ got = {} => \A q : Asking(o, n, q, Tail(call.asks), got, call.lost)
          /\ ~(Tail(call.asks) # << >> /\ got = {}) => Belongs(o, n, got, call.lost)
      BY <1>3, <2>4, <2>5, <3>3, NameAnswered
    <3>4. call'.out = got /\ call'.lost = call.lost
      BY <1>3, <2>2, <3>2, <3>3
    <3>5. pc' = IF Tail(call.asks) # << >> /\ got = {} THEN "resolve" ELSE "found"
      BY <2>1, <2>2, <2>5, <3>4
    <3>6. pc' = "resolve" => Asking(o, n, pc', call'.asks, call'.out, call'.lost)
      BY <2>2, <3>1, <3>3, <3>4, <3>5
    <3>7. pc' = "found" => Belongs(o, n, call'.out, call'.lost)
      BY <3>1, <3>3, <3>4, <3>5
    <3> QED
      BY <1>1, <1>2, <1>3, <2>1, <2>2, <2>3, <3>6, <3>7, WorkStep
  <2>6. CASE o \notin {"name4", "name6"}
    <3>1. Head(call.asks) \in Kinds(o)
      <4>1. /\ (\E t : call.asks = <<t>>) \/ (o \in {"ip6", "dq_ip"} /\ call.asks = <<"AAAA", "A">>)
            /\ ToSet(call.asks) \subseteq Kinds(o)
        BY <1>3, <2>6, AsksAre
      <4>2. CASE \E t : call.asks = <<t>>
        <5>1. PICK t : call.asks = <<t>>
          BY <4>2
        <5>2. Head(call.asks) = t /\ ToSet(call.asks) = {t}
          BY <5>1, Tuples
        <5> QED
          BY <4>1, <5>2
      <4>3. CASE o \in {"ip6", "dq_ip"} /\ call.asks = <<"AAAA", "A">>
        BY <4>3 DEF Kinds
      <4> QED
        BY <4>1, <4>2, <4>3
    <3>2. Take(Head(call.asks)) = {OfType(Records(n), {Head(call.asks)})}
      BY <1>2, <1>3, <2>4, <2>6, <3>1, TakeIs DEF Take
    <3>3. got \subseteq OfType(Records(n), {Head(call.asks)}) /\ (got = OfType(Records(n), {Head(call.asks)}) \/ ~all)
      <4>1. got \in IF all THEN Take(Head(call.asks)) ELSE UNION {SUBSET g : g \in Take(Head(call.asks))}
        BY <1>1
      <4> QED
        BY <3>2, <4>1
    <3>4. call'.lost \in BOOLEAN /\ (call.lost => call'.lost) /\ (~all => call'.lost)
      BY <1>3, <2>2
    <3>5. /\ Tail(call.asks) = << >> => Belongs(o, n, call'.out, call'.lost)
          /\ Tail(call.asks) # << >> => o \in {"ip6", "dq_ip"} /\ \A q : Asking(o, n, q, Tail(call.asks), call'.out, call'.lost)
      <4>1. PICK asks, out, later, more : asks = call.asks /\ out = call.out /\ later = call'.lost /\ more = call'.out
        OBVIOUS
      <4>2. Answers(o, n, "wait", asks, out, call.lost, got, later) /\ more = out \cup got
        BY <1>3, <2>2, <2>6, <3>3, <3>4, <4>1 DEF Answers
      <4>3. /\ Tail(asks) = << >> => Belongs(o, n, more, later)
            /\ Tail(asks) # << >> => o \in {"ip6", "dq_ip"} /\ \A q : Asking(o, n, q, Tail(asks), more, later)
        BY <4>2, TailMore
      <4> QED
        BY <4>1, <4>3
    <3>6. pc' = IF Tail(call.asks) = << >> THEN "found" ELSE "resolve"
      BY <1>1, <1>2, <2>1, <2>2, <3>5
    <3>7. pc' = "resolve" => Asking(o, n, pc', call'.asks, call'.out, call'.lost)
      BY <2>2, <3>5, <3>6
    <3>8. pc' = "found" => Belongs(o, n, call'.out, call'.lost)
      BY <3>5, <3>6
    <3> QED
      BY <1>1, <1>2, <1>3, <2>1, <2>2, <2>3, <3>7, <3>8, WorkStep
  <2> QED
    BY <2>5, <2>6
<1> QED
  BY <1>4, <1>5

LEMMA OneText == ASSUME NEW s, IsText(s), Len(s) = 1 PROVE s = <<s[1]>>
<1>1. PICK t : t = <<s[1]>>
  OBVIOUS
<1>2. IsText(t) /\ Len(t) = 1 /\ t[1] = s[1]
  BY <1>1 DEF IsText
<1>3. \A k \in 1..Len(s) : s[k] = t[k]
  BY <1>2
<1> QED
  BY <1>1, <1>2, <1>3, SameText

LEMMA Removed ==
  /\ \A s : RemoveAt(<<s>>, 1) = << >>
  /\ \A s, t : RemoveAt(<<s, t>>, 1) = <<t>> /\ RemoveAt(<<s, t>>, 2) = <<s>>
<1>1. ASSUME NEW s PROVE RemoveAt(<<s>>, 1) = << >>
  <2>1. RemoveAt(<<s>>, 1) = SubSeq(<<s>>, 1, 0) \o SubSeq(<<s>>, 2, 1)
    BY DEF RemoveAt
  <2>2. SubSeq(<<s>>, 1, 0) = << >> /\ SubSeq(<<s>>, 2, 1) = << >>
    OBVIOUS
  <2>3. << >> \o << >> = << >>
    OBVIOUS
  <2> QED
    BY <2>1, <2>2, <2>3
<1>2. ASSUME NEW s, NEW t PROVE RemoveAt(<<s, t>>, 1) = <<t>> /\ RemoveAt(<<s, t>>, 2) = <<s>>
  <2>1. /\ RemoveAt(<<s, t>>, 1) = SubSeq(<<s, t>>, 1, 0) \o SubSeq(<<s, t>>, 2, 2)
        /\ RemoveAt(<<s, t>>, 2) = SubSeq(<<s, t>>, 1, 1) \o SubSeq(<<s, t>>, 3, 2)
    BY DEF RemoveAt
  <2>2. /\ SubSeq(<<s, t>>, 1, 0) = << >> /\ SubSeq(<<s, t>>, 2, 2) = <<t>>
        /\ SubSeq(<<s, t>>, 1, 1) = <<s>> /\ SubSeq(<<s, t>>, 3, 2) = << >>
    <3>1. PICK u : u = <<s, t>>
      OBVIOUS
    <3>2. IsText(u) /\ Len(u) = 2 /\ u[1] = s /\ u[2] = t
      BY <3>1 DEF IsText
    <3>3. IsText(SubSeq(u, 1, 0)) /\ Len(SubSeq(u, 1, 0)) = 0
      BY <3>2, PrefixText
    <3>4. IsText(SubSeq(u, 1, 1)) /\ Len(SubSeq(u, 1, 1)) = 1 /\ SubSeq(u, 1, 1)[1] = s
      BY <3>2, PrefixText
    <3>5. IsText(SubSeq(u, 2, 2)) /\ Len(SubSeq(u, 2, 2)) = 1 /\ SubSeq(u, 2, 2)[1] = t
      <4>1. /\ IsText(SubSeq(u, 2, 2)) /\ Len(SubSeq(u, 2, 2)) = 2 - 2 + 1
            /\ \A k \in 1..(2 - 2 + 1) : SubSeq(u, 2, 2)[k] = u[2 + k - 1]
        BY <3>2, PartText
      <4> QED
        BY <3>2, <4>1
    <3>6. IsText(SubSeq(u, 3, 2)) /\ Len(SubSeq(u, 3, 2)) = 0
      <4>1. 3 \in 1..(Len(u) + 1) /\ 2 \in (3 - 1)..Len(u) /\ 2 - 3 + 1 = 0
        BY <3>2
      <4> QED
        BY <3>2, <4>1, PartText
    <3>7. IsText(<< >>) /\ Len(<< >>) = 0
      BY DEF IsText
    <3>8. SubSeq(u, 1, 0) = << >> /\ SubSeq(u, 3, 2) = << >>
      BY <3>3, <3>6, <3>7, SameText
    <3>9. SubSeq(u, 1, 1) = <<s>> /\ SubSeq(u, 2, 2) = <<t>>
      BY <3>4, <3>5, OneText
    <3> QED
      BY <3>1, <3>8, <3>9
  <2>3. << >> \o <<t>> = <<t>> /\ <<s>> \o << >> = <<s>>
    OBVIOUS
  <2> QED
    BY <2>1, <2>2, <2>3
<1> QED
  BY <1>1, <1>2

\* One of the questions of resolve2 answered.
LEMMA OneMore ==
  ASSUME NEW n, NEW asks, NEW out, NEW lost \in BOOLEAN, Asking("dq_ip", n, "wait", asks, out, lost), NEW i \in 1..Len(asks),
         NEW got, got = OfType(Records(n), {asks[i]}), NEW more, more = out \cup got
  PROVE  /\ Len(asks) = 1 => Belongs("dq_ip", n, more, lost)
         /\ Len(asks) # 1 => Asking("dq_ip", n, "wait", RemoveAt(asks, i), more, lost)
         /\ asks[i] \in Kinds("dq_ip")
<1>1. /\ "dq_ip" \in BaseOps /\ Kinds("dq_ip") = {"AAAA", "A"} /\ Asks("dq_ip", n) = <<"AAAA", "A">>
      /\ asks \in {<<"AAAA", "A">>, <<"AAAA">>, <<"A">>}
      /\ out \subseteq Come("dq_ip", n, asks) /\ (out = Come("dq_ip", n, asks) \/ lost) /\ ~IsAddress("dq_ip", n)
  BY DEF Asking, BaseOps, Kinds, Asks
<1>2. asks[i] \in ToSet(asks) /\ ToSet(RemoveAt(asks, i)) = ToSet(asks) \ {asks[i]} /\ ToSet(asks) \subseteq Kinds("dq_ip")
  <2>1. CASE asks = <<"AAAA", "A">>
    <3>1. /\ ToSet(asks) = {"AAAA", "A"}
          /\ \/ asks[i] = "AAAA" /\ RemoveAt(asks, i) = <<"A">>
             \/ asks[i] = "A" /\ RemoveAt(asks, i) = <<"AAAA">>
      BY <2>1, Tuples, Removed
    <3> QED
      BY <1>1, <3>1, Tuples
  <2>2. CASE asks = <<"AAAA">>
    <3>1. ToSet(asks) = {"AAAA"} /\ asks[i] = "AAAA" /\ RemoveAt(asks, i) = << >>
      BY <2>2, Tuples, Removed
    <3> QED
      BY <1>1, <3>1, Tuples
  <2>3. CASE asks = <<"A">>
    <3>1. ToSet(asks) = {"A"} /\ asks[i] = "A" /\ RemoveAt(asks, i) = << >>
      BY <2>3, Tuples, Removed
    <3> QED
      BY <1>1, <3>1, Tuples
  <2> QED
    BY <1>1, <2>1, <2>2, <2>3
<1>3. /\ Len(asks) = 1 => RemoveAt(asks, i) = << >>
      /\ Len(asks) # 1 => RemoveAt(asks, i) \in {<<"AAAA">>, <<"A">>}
  <2>1. CASE asks = <<"AAAA", "A">>
    <3>1. Len(asks) = 2 /\ RemoveAt(asks, i) \in {<<"A">>, <<"AAAA">>}
      BY <2>1, Removed
    <3> QED
      BY <3>1
  <2>2. CASE asks = <<"AAAA">> \/ asks = <<"A">>
    <3>1. Len(asks) = 1 /\ i = 1
      BY <2>2
    <3> QED
      BY <2>2, <3>1, Removed
  <2> QED
    BY <1>1, <2>1, <2>2
<1>4. Come("dq_ip", n, RemoveAt(asks, i)) = Come("dq_ip", n, asks) \cup got
  <2>1. PICK o, t, rest : o = "dq_ip" /\ t = asks[i] /\ rest = RemoveAt(asks, i)
    OBVIOUS
  <2>2. t \in Kinds(o) /\ OneLess(asks, t, rest) /\ o \in BaseOps
    BY <1>1, <1>2, <2>1 DEF OneLess
  <2>3. ComesTo(o, n, asks, t, rest)
    BY <2>2, ComeMore
  <2> QED
    BY <2>1, <2>3 DEF ComesTo
<1>5. more \subseteq Come("dq_ip", n, RemoveAt(asks, i)) /\ (more = Come("dq_ip", n, RemoveAt(asks, i)) \/ lost)
  BY <1>1, <1>4
<1>6. Len(asks) = 1 => Belongs("dq_ip", n, more, lost)
  <2> SUFFICES ASSUME Len(asks) = 1 PROVE Belongs("dq_ip", n, more, lost)
    OBVIOUS
  <2>1. more \subseteq Come("dq_ip", n, << >>) /\ (more = Come("dq_ip", n, << >>) \/ lost)
    BY <1>3, <1>5
  <2> QED
    BY <1>1, <2>1, FitsAll
<1>7. Len(asks) # 1 => Asking("dq_ip", n, "wait", RemoveAt(asks, i), more, lost)
  BY <1>1, <1>3, <1>5 DEF Asking
<1> QED
  BY <1>2, <1>6, <1>7

LEMMA AnswersStep == ASSUME StubInv, resolve2_answer PROVE StubInv'
<1>1. PICK i \in 1..Len(call.asks) : \E got \in Take(call.asks[i]) :
        /\ call' = [call EXCEPT !.out = @ \cup got, !.asks = RemoveAt(@, i), !.max = now + PATIENCE]
        /\ pc' = IF Len(call.asks) = 1 THEN "found" ELSE "wait"
  BY DEF resolve2_answer
<1>2. pc = "wait" /\ Base(call.op) = "dq_ip" /\ UNCHANGED <<lib, conf, past, now, ip, rw, line>>
  BY DEF resolve2_answer
<1>3. PICK n : n = fqdn
  OBVIOUS
<1>4. /\ call = [f \in CallFields |-> call[f]] /\ call.lost \in BOOLEAN /\ "dq_ip" \in BaseOps
      /\ LoadedOK(ip, Says)' /\ LoadedOK(rw, SaysRules)' /\ Asking("dq_ip", n, "wait", call.asks, call.out, call.lost)
      /\ call.servers # None
  BY <1>2, <1>3, CallIs DEF AskInv, FreshInv
<1>0. PICK got \in Take(call.asks[i]) :
        /\ call' = [call EXCEPT !.out = @ \cup got, !.asks = RemoveAt(@, i), !.max = now + PATIENCE]
        /\ pc' = IF Len(call.asks) = 1 THEN "found" ELSE "wait"
  BY <1>1
<1>5. IsCall /\ SameName /\ SameConf /\ call'.out = call.out \cup got /\ call'.asks = RemoveAt(call.asks, i) /\ call'.lost = call.lost
  BY <1>0, <1>4 DEF IsCall, SameName, SameConf, CallFields
<1>6. call.asks[i] \in Kinds("dq_ip")
  BY <1>4, OneMore
<1>7. got = OfType(Records(n), {call.asks[i]})
  <2>1. AskedName = n
    BY <1>2, <1>3 DEF AskedName
  <2> QED
    BY <1>2, <1>4, <1>6, <2>1, TakeIs DEF Take
<1>8. PICK asks, out, lost, more : asks = call.asks /\ out = call.out /\ lost = call.lost /\ more = call'.out
  OBVIOUS
<1>9. /\ Len(asks) = 1 => Belongs("dq_ip", n, more, lost)
      /\ Len(asks) # 1 => Asking("dq_ip", n, "wait", RemoveAt(asks, i), more, lost)
  <2>1. /\ lost \in BOOLEAN /\ Asking("dq_ip", n, "wait", asks, out, lost) /\ i \in 1..Len(asks)
        /\ got = OfType(Records(n), {asks[i]}) /\ more = out \cup got
    BY <1>4, <1>5, <1>7, <1>8
  <2> QED
    BY <2>1, OneMore
<1>10. pc' = "found" => Belongs("dq_ip", n, call'.out, call'.lost)
  BY <1>0, <1>5, <1>8, <1>9
<1>11. pc' = "wait" => Asking("dq_ip", n, "wait", call'.asks, call'.out, call'.lost)
  BY <1>0, <1>5, <1>8, <1>9
<1>12. pc \in Working /\ pc' \in {"found", "wait"} /\ pc' \in Working /\ call'.servers # None
  BY <1>0, <1>2, <1>4, <1>5 DEF Working, SameConf
<1> QED
  BY <1>2, <1>3, <1>4, <1>5, <1>10, <1>11, <1>12, WorkStep

LEMMA LateStep == ASSUME StubInv, resolve2_late PROVE StubInv'
<1>1. /\ pc = "wait" /\ Base(call.op) = "dq_ip" /\ pc' = "found" /\ UNCHANGED <<lib, conf, past, now, ip, rw, line>>
      /\ call' = [call EXCEPT !.lost = TRUE]
  BY DEF resolve2_late
<1>2. PICK n, o : n = fqdn /\ o = Base(call.op)
  OBVIOUS
<1>3. /\ call = [f \in CallFields |-> call[f]] /\ call.lost \in BOOLEAN /\ o \in BaseOps \ {"name4", "name6"}
      /\ LoadedOK(ip, Says)' /\ LoadedOK(rw, SaysRules)' /\ Asking(o, n, "wait", call.asks, call.out, call.lost)
  BY <1>1, <1>2, CallIs DEF AskInv
<1>4. IsCall /\ SameName /\ SameConf /\ call'.out = call.out /\ call'.lost = TRUE
  BY <1>1, <1>3 DEF IsCall, SameName, SameConf, CallFields
<1>5. Belongs(o, n, call.out, TRUE)
  <2>1. call.out \subseteq Come(o, n, call.asks) /\ ~IsAddress(o, n)
    BY <1>3 DEF Asking
  <2>2. call.out \subseteq Come(o, n, << >>)
    BY <1>3, <2>1, ComeSome
  <2> QED
    BY <1>3, <2>1, <2>2, FitsAll
<1>6. pc \in Working /\ pc' \in Working
  BY <1>1 DEF Working
<1> QED
  BY <1>1, <1>2, <1>3, <1>4, <1>5, <1>6, WorkStep

----------------------------------------------------------------------------
(* The answer of a call *)

\* The next "+" after that of a is the next alternative.
LEMMA FoundAlternative ==
  ASSUME StubInv, found, call.rules # None, call.plus <= Len(call.buf), call.out = {}, call.i <= Len(call.buf)
  PROVE  StubInv'
<1>1. /\ pc = "found" /\ pc' = "alternative" /\ UNCHANGED <<lib, conf, past, now, ip, rw, line>>
      /\ call' = [call EXCEPT !.i = @ + 1]
  BY DEF found
<1>2. PICK w, n, o : w = Rewriting(call) /\ n = fqdn /\ o = Base(call.op)
  OBVIOUS
<1>3. /\ call = [f \in CallFields |-> call[f]] /\ call.lost \in BOOLEAN /\ o \in BaseOps
      /\ StubTypeOK /\ FreshInv /\ LoadedOK(ip, Says)' /\ LoadedOK(rw, SaysRules)' /\ Says' = Says /\ SaysRules' = SaysRules
      /\ Belongs(o, n, call.out, call.lost)
  BY <1>1, <1>2, CallIs, SaysKept DEF FoundInv
<1>4. /\ call' = [f \in CallFields |-> call'[f]] /\ call'.op = call.op /\ call'.arg = call.arg /\ call'.rules = call.rules
      /\ call'.at = call.at /\ call'.buf = call.buf /\ call'.len = call.len /\ call'.plus = call.plus /\ call'.i = call.i + 1
      /\ call'.servers = call.servers /\ call'.out = call.out /\ call'.lost = call.lost
  BY <1>1, <1>3 DEF CallFields
<1>5. /\ IsText(w) /\ IsText(call.buf) /\ Len(call.buf) = Len(w) /\ call.plus = Plus(w, 1) /\ Untouched(call.buf, w, call.plus, call.i)
      /\ (call.plus > Len(w) \/ \E a \in 1..Len(w) : AtAlternative(w, a))
  BY <1>1, <1>2 DEF StubInv, NameInv
<1>6. Len(w) \in Nat /\ IsPlus(w, 1, call.plus)
  BY <1>5, PlusIs DEF IsText
<1>7. PICK a \in 1..Len(w) : AtAlternative(w, a)
  BY <1>5, <1>6 DEF IsPlus
<1>8. /\ w[a] = "+" /\ call.i = Plus(w, a + 1) /\ n = Alternative(w, a)
      /\ \A b \in 1..(a - 1) : w[b] = "+" => Wanted(o, Alternative(w, b)) = {{}} \/ call.lost
  BY <1>1, <1>2, <1>7 DEF AtAlternative
<1>9. IsPlus(w, a + 1, call.i)
  BY <1>5, <1>6, <1>8, PlusIs
<1>10. PICK i : i = call.i
  OBVIOUS
<1>11. i \in 1..Len(w) /\ a < i /\ w[i] = "+" /\ \A b \in (a + 1)..(i - 1) : w[b] # "+"
  BY <1>5, <1>6, <1>9, <1>10 DEF IsPlus
<1>12. Wanted(o, n) = {{}} \/ call.lost
  <2>1. {} \in Wanted(o, n) \/ call.lost
    BY <1>3 DEF Belongs
  <2> QED
    BY <2>1, WantedEmpty
<1>13. ASSUME NEW b \in 1..(i - 1), w[b] = "+" PROVE Wanted(o, Alternative(w, b)) = {{}} \/ call.lost
  <2>1. b \in 1..(a - 1) \/ b = a \/ b \in (a + 1)..(i - 1)
    BY <1>6, <1>11
  <2> QED
    BY <1>8, <1>11, <1>12, <1>13, <2>1
<1>14. Rewriting(call)' = w /\ Base(call.op)' = o
  BY <1>2, <1>4 DEF Rewriting
<1>15. AtAlternative(w, i)'
  BY <1>1, <1>4, <1>10, <1>11, <1>13, <1>14 DEF AtAlternative
<1>16. NameInv'
  <2>1. Untouched(call'.buf, w, call'.plus, call'.i)
    BY <1>4, <1>5, <1>6, <1>10, <1>11 DEF Untouched
  <2>2. ~(call'.plus > Len(w))
    BY <1>4, <1>5, <1>6 DEF IsPlus
  <2> QED
    BY <1>1, <1>4, <1>5, <1>11, <1>14, <1>15, <2>1, <2>2 DEF NameInv
<1>17. StubTypeOK'
  BY <1>1, <1>3, <1>4 DEF StubTypeOK
<1>18. FreshInv'
  BY <1>1, <1>3, <1>4, FreshKept DEF FreshInv
<1>19. AskInv' /\ FoundInv' /\ LineFits'
  BY <1>1, <1>4, LineKept DEF AskInv, FoundInv
<1> QED
  BY <1>16, <1>17, <1>18, <1>19 DEF StubInv

LEMMA FoundLine ==
  ASSUME StubInv, found, ~(call.rules # None /\ call.plus <= Len(call.buf) /\ call.out = {} /\ call.i <= Len(call.buf))
  PROVE  StubInv'
<1> DEFINE l == [op |-> call.op, arg |-> call.arg, rules |-> call.rules, name |-> fqdn, out |-> call.out, lost |-> call.lost]
<1>1. /\ pc = "found" /\ Return(l) /\ UNCHANGED <<lib, conf, past, now, ip, rw>>
  BY DEF found
<1>2. PICK w, n, o : w = Rewriting(call) /\ n = fqdn /\ o = Base(call.op)
  OBVIOUS
<1>3. /\ LoadedOK(ip, Says)' /\ LoadedOK(rw, SaysRules)' /\ Belongs(o, n, call.out, call.lost)
  BY <1>1, <1>2, CallIs DEF FoundInv
<1>4. /\ IsText(w) /\ Len(call.buf) = Len(w) /\ (call.rules # None => call.plus = Plus(w, 1))
      /\ IF call.rules = None \/ call.plus > Len(w) THEN call.buf = w /\ call.len = Len(w)
         ELSE \E a \in 1..Len(w) : AtAlternative(w, a)
  BY <1>1, <1>2 DEF StubInv, NameInv
<1>5. line' = l
  BY <1>1 DEF Return
<1>6. /\ line'.op = call.op /\ line'.rules = call.rules /\ line'.name = n /\ line'.out = call.out /\ line'.lost = call.lost
      /\ Base(line'.op) = o /\ Rewriting(line') = w
  BY <1>2, <1>5 DEF Rewriting
<1>7. Len(w) \in Nat /\ (call.rules # None => IsPlus(w, 1, call.plus))
  BY <1>4, PlusIs DEF IsText
<1> DEFINE P == IF call.rules = None THEN {} ELSE {b \in 1..Len(w) : w[b] = "+"}
<1>8. CASE call.rules = None \/ call.plus > Len(w)
  <2>1. n = w
    BY <1>2, <1>4, <1>8, WholeText DEF fqdn
  <2>2. P = {}
    BY <1>7, <1>8 DEF IsPlus
  <2> QED
    BY <2>1, <2>2, <1>1, <1>3, <1>6, ReturnKeeps DEF LineFits, Belongs
<1>9. CASE ~(call.rules = None \/ call.plus > Len(w))
  <2>1. PICK a \in 1..Len(w) : AtAlternative(w, a)
    BY <1>4, <1>9
  <2>2. /\ w[a] = "+" /\ call.i = Plus(w, a + 1) /\ n = Alternative(w, a)
        /\ \A b \in 1..(a - 1) : w[b] = "+" => Wanted(o, Alternative(w, b)) = {{}} \/ call.lost
    BY <1>1, <1>2, <2>1 DEF AtAlternative
  <2>3. IsPlus(w, a + 1, call.i)
    BY <1>4, <1>7, <2>2, PlusIs
  <2>4. a \in P /\ P # {}
    BY <1>9, <2>2
  <2>5. \A b \in P : b < a => Wanted(o, Alternative(w, b)) = {{}} \/ call.lost
    BY <1>7, <2>2
  <2>6. call.out = {} => \A b \in P : b <= a
    <3>1. call.out = {} => call.i > Len(w)
      BY <1>4, <1>7, <1>9, <2>3 DEF IsPlus
    <3> QED
      BY <1>7, <2>3, <3>1 DEF IsPlus
  <2>7. LineFits'
    <3>1. \E w1 \in Wanted(o, n) : line'.out = w1 \/ (line'.lost /\ line'.out \subseteq w1)
      BY <1>3, <1>6 DEF Belongs
    <3> HIDE DEF P
    <3>2. \E i \in P : /\ n = Alternative(w, i)
                       /\ \A j \in P : j < i => Wanted(o, Alternative(w, j)) = {{}} \/ line'.lost
                       /\ line'.out = {} => \A j \in P : j <= i
      BY <1>6, <2>2, <2>4, <2>5, <2>6
    <3> USE DEF P
    <3> QED
      BY <1>6, <2>4, <3>1, <3>2 DEF LineFits
  <2> QED
    BY <1>1, <1>3, <2>7, ReturnKeeps
<1> QED
  BY <1>8, <1>9

LEMMA FoundStep == ASSUME StubInv, found PROVE StubInv'
BY FoundAlternative, FoundLine

----------------------------------------------------------------------------
(* Theorems *)

LEMMA StubStart == Init => StubInv
<1> SUFFICES ASSUME Init PROVE StubInv
  OBVIOUS
<1>1. past = << >> /\ pc = "idle" /\ line = None /\ now = 1 /\ conf \in Conf /\ ip = NotLoaded /\ rw = NotLoaded
  BY DEF Init
<1>2. past \in Seq([conf : Conf, until : Int])
  BY <1>1
<1>3. NotLoaded = [f \in {"ok", "uses", "deadline", "data"} |-> NotLoaded[f]] /\ ~NotLoaded.ok
  BY DEF NotLoaded
<1>4. StubTypeOK /\ FreshInv
  BY <1>1, <1>2, <1>3 DEF StubTypeOK, FreshInv, LoadedOK
<1>5. NameInv /\ AskInv /\ FoundInv /\ LineFits
  BY <1>1 DEF NameInv, AskInv, FoundInv, LineFits
<1> QED
  BY <1>4, <1>5 DEF StubInv

LEMMA StubStep == StubInv /\ [Next]_vars => StubInv'
<1> SUFFICES ASSUME StubInv, [Next]_vars PROVE StubInv'
  OBVIOUS
<1>1. CASE tick
  BY <1>1, TickStep
<1>2. CASE edit
  BY <1>2, EditStep
<1>3. CASE begin
  BY <1>3, BeginStep
<1>4. CASE dns_resolvconfrewrite
  BY <1>4, RulesStep
<1>5. CASE qualify
  BY <1>5, QualifyStep
<1>6. CASE name
  BY <1>6, NameStep
<1>7. CASE dns_resolve
  BY <1>7, ResolveStep
<1>8. CASE answer
  BY <1>8, AnswerStep
<1>9. CASE dns_transmit_fails
  BY <1>9, FailsStep
<1>10. CASE resolve2_answer
  BY <1>10, AnswersStep
<1>11. CASE resolve2_late
  BY <1>11, LateStep
<1>12. CASE found
  BY <1>12, FoundStep
<1>13. CASE UNCHANGED vars
  <2>1. UNCHANGED <<lib, conf, past, now, ip, rw, pc, call, line>>
    BY <1>13 DEF vars
  <2>2. fqdn' = fqdn /\ Rewriting(call)' = Rewriting(call) /\ Says' = Says /\ SaysRules' = SaysRules
    BY <2>1, SaysKept DEF fqdn, Rewriting
  <2>3. \A w, a : AtAlternative(w, a)' = AtAlternative(w, a)
    BY <2>1, <2>2 DEF AtAlternative
  <2>4. FreshInv'
    BY <2>1, <2>2, LoadedSame, FreshKept DEF StubInv, FreshInv
  <2> QED
    BY <2>1, <2>2, <2>3, <2>4, ZenonT(60) DEF StubInv, StubTypeOK, NameInv, AskInv, FoundInv, LineFits
<1> QED
  BY <1>1, <1>2, <1>3, <1>4, <1>5, <1>6, <1>7, <1>8, <1>9, <1>10, <1>11, <1>12, <1>13 DEF Next

\* Every look-up uses servers and rules the configuration held within the last
\* LIFE, and returns what belongs to the name it returns, which is the first of
\* those the rules give that has anything (dns_resolve, dns_ip4_qualify_rules).
THEOREM StubLooksUp == Spec => []LooksUp
<1>1. StubInv => LooksUp
  <2> SUFFICES ASSUME StubInv PROVE LooksUp
    OBVIOUS
  <2>1. pc = "wait" => FreshAt(call.at, call.servers, Says)
    BY DEF StubInv, FreshInv
  <2>2. pc = "name" /\ call.rules # None /\ call.servers = None => FreshAt(call.at, call.rules, SaysRules)
    BY DEF StubInv, FreshInv
  <2>3. ConfigFresh
    BY <2>1, <2>2 DEF ConfigFresh, Says, SaysRules
  <2> QED
    BY <2>3 DEF StubInv, LooksUp
<1> QED
  BY <1>1, StubStart, StubStep, PTL DEF Spec

----------------------------------------------------------------------------
(* dnstrace *)

IsList(s) == \E S : s \in Seq(S)
Once(s) == \A i, j \in DOMAIN s : i # j => s[i] # s[j]

\* qt_add adds a question unless it is there, or is about the root.
LEMMA QtAdd ==
  ASSUME NEW qt, IsList(qt), Once(qt), NEW e
  PROVE  /\ IsList(qt_add(qt, e)) /\ Once(qt_add(qt, e))
         /\ \A y : y \in ToSet(qt_add(qt, e)) <=> y \in ToSet(qt) \/ (y = e /\ e.owner # << >>)
<1>1. PICK S : qt \in Seq(S)
  BY DEF IsList
<1>2. qt \in Seq(S \cup {e}) /\ Len(qt) \in Nat /\ DOMAIN qt = 1..Len(qt)
  BY <1>1
<1>3. CASE e.owner = << >> \/ Contains(qt, e)
  <2>1. qt_add(qt, e) = qt
    BY <1>3 DEF qt_add
  <2>2. Contains(qt, e) => e \in ToSet(qt)
    BY <1>2 DEF Contains, ToSet
  <2> QED
    BY <1>3, <2>1, <2>2
<1>4. CASE ~(e.owner = << >> \/ Contains(qt, e))
  <2> DEFINE a == Append(qt, e)
  <2>1. qt_add(qt, e) = a
    BY <1>4 DEF qt_add
  <2>2. a \in Seq(S \cup {e}) /\ DOMAIN a = 1..(Len(qt) + 1) /\ a[Len(qt) + 1] = e /\ \A i \in 1..Len(qt) : a[i] = qt[i]
    BY <1>2
  <2> HIDE DEF a
  <2>3. \A i \in 1..Len(qt) : qt[i] # e
    BY <1>4 DEF Contains
  <2>4. Once(a)
    BY <1>2, <2>2, <2>3 DEF Once
  <2>5. \A y : y \in ToSet(a) <=> y \in ToSet(qt) \/ y = e
    BY <1>2, <2>2 DEF ToSet
  <2> QED
    BY <1>4, <2>1, <2>2, <2>4, <2>5 DEF IsList
<1> QED
  BY <1>3, <1>4

\* What qt is when a loop has come to j.
Grown(new, qt, X) ==
  /\ IsList(new) /\ Once(new)
  /\ \A y : y \in ToSet(new) <=> y \in ToSet(qt) \/ (y \in X /\ y.owner # << >>)

LEMMA LoopIs ==
  ASSUME NEW qt, IsList(qt), Once(qt), NEW n \in Nat, NEW hits
  PROVE  Grown(Loop(qt, n, hits), qt, {hits[j] : j \in (1..n) \cap DOMAIN hits})
<1> DEFINE next1(f, j) == IF j \in DOMAIN hits THEN qt_add(f[j - 1], hits[j]) ELSE f[j - 1]
           Part(f, k) == f[0] = qt /\ \A j \in 1..k : f[j] = next1(f, j)
           S == {k \in Nat : \E f : Part(f, k)}
           R(f) == f = [j \in 0..n |-> IF j = 0 THEN qt ELSE next1(f, j)]
<1>1. n \in S
  <2>1. 0 \in S
    <3>1. Part([j \in {0} |-> qt], 0)
      OBVIOUS
    <3> QED
      BY <3>1
  <2>2. ASSUME NEW k \in 0..(n - 1), k \in S PROVE k + 1 \in S
    <3>1. PICK f : Part(f, k)
      BY <2>2
    <3> DEFINE last == IF k + 1 \in DOMAIN hits THEN qt_add(f[k], hits[k + 1]) ELSE f[k]
               g == [j \in 0..(k + 1) |-> IF j = k + 1 THEN last ELSE f[j]]
    <3>2. g[0] = f[0] /\ g[k + 1] = last /\ \A j \in 0..k : g[j] = f[j]
      OBVIOUS
    <3> HIDE DEF g
    <3>3. ASSUME NEW j \in 1..(k + 1) PROVE g[j] = next1(g, j)
      <4>1. CASE j = k + 1
        <5>1. g[k] = f[k] /\ (k + 1) - 1 = k
          BY <3>2
        <5> QED
          BY <3>2, <4>1, <5>1
      <4>2. CASE j # k + 1
        <5>1. j \in 1..k /\ j \in 0..k /\ j - 1 \in 0..k
          BY <4>2
        <5>2. f[j] = next1(f, j) /\ g[j] = f[j] /\ g[j - 1] = f[j - 1]
          BY <3>1, <3>2, <5>1
        <5> QED
          BY <5>2
      <4> QED
        BY <4>1, <4>2
    <3>4. Part(g, k + 1)
      BY <3>1, <3>2, <3>3
    <3> QED
      BY <3>4
  <2> HIDE DEF S
  <2>3. 0..n \subseteq S
    BY <2>1, <2>2, UpTo
  <2> QED
    BY <2>3
<1>2. PICK f : Part(f, n)
  BY <1>1
<1> DEFINE h == [j \in 0..n |-> f[j]]
<1>3. R(h)
  BY <1>2
<1>4. Loop(qt, n, hits) = (CHOOSE g : R(g))[n]
  BY DEF Loop
<1> DEFINE c == CHOOSE g : R(g)
<1> HIDE DEF R
<1>5. R(c)
  BY <1>3, Zenon
<1> HIDE DEF c
<1> USE DEF R
<1>6. c[0] = qt /\ \A j \in 1..n : c[j] = next1(c, j)
  BY <1>5
<1> HIDE DEF R
<1> DEFINE X(k) == {hits[j] : j \in (1..k) \cap DOMAIN hits}
           G == {k \in Nat : Grown(c[k], qt, X(k))}
<1>7. 0 \in G
  BY <1>6 DEF Grown
<1>8. ASSUME NEW k \in 0..(n - 1), k \in G PROVE k + 1 \in G
  <2>1. k + 1 \in 1..n /\ (k + 1) - 1 = k /\ k + 1 \in Nat
    OBVIOUS
  <2>2. c[k + 1] = IF k + 1 \in DOMAIN hits THEN qt_add(c[k], hits[k + 1]) ELSE c[k]
    BY <1>6, <2>1
  <2>3. Grown(c[k], qt, X(k))
    BY <1>8
  <2>4. CASE k + 1 \in DOMAIN hits
    <3>1. X(k + 1) = X(k) \cup {hits[k + 1]}
      BY <2>1, <2>4
    <3> HIDE DEF X
    <3>2. IsList(c[k]) /\ Once(c[k])
      BY <2>3 DEF Grown
    <3>3. Grown(qt_add(c[k], hits[k + 1]), qt, X(k + 1))
      BY <2>3, <3>1, <3>2, QtAdd DEF Grown
    <3> QED
      BY <2>1, <2>2, <2>4, <3>3
  <2>5. CASE k + 1 \notin DOMAIN hits
    <3>1. X(k + 1) = X(k)
      BY <2>1, <2>5
    <3> QED
      BY <2>1, <2>2, <2>3, <2>5, <3>1
  <2> QED
    BY <2>4, <2>5
<1> HIDE DEF G
<1>9. 0..n \subseteq G
  BY <1>7, <1>8, UpTo
<1>10. n \in G
  BY <1>9
<1> QED
  BY <1>4, <1>10 DEF G, c

\* The questions of row i.
Row(hits, n, i) == {hits[i][j] : j \in (1..n) \cap DOMAIN hits[i]}

LEMMA LoopsIs ==
  ASSUME NEW qt, IsList(qt), Once(qt), NEW m \in Nat, NEW n \in Nat, NEW hits
  PROVE  Grown(Loops(qt, m, n, hits), qt, UNION {Row(hits, n, i) : i \in 1..m})
<1> DEFINE Part(f, k) == f[0] = qt /\ \A i \in 1..k : f[i] = Loop(f[i - 1], n, hits[i])
           S == {k \in Nat : \E f : Part(f, k)}
           R(f) == f = [i \in 0..m |-> IF i = 0 THEN qt ELSE Loop(f[i - 1], n, hits[i])]
<1>1. m \in S
  <2>1. 0 \in S
    <3>1. Part([i \in {0} |-> qt], 0)
      OBVIOUS
    <3> QED
      BY <3>1
  <2>2. ASSUME NEW k \in 0..(m - 1), k \in S PROVE k + 1 \in S
    <3>1. PICK f : Part(f, k)
      BY <2>2
    <3> DEFINE last == Loop(f[k], n, hits[k + 1])
               g == [i \in 0..(k + 1) |-> IF i = k + 1 THEN last ELSE f[i]]
    <3>2. g[0] = f[0] /\ g[k + 1] = last /\ \A i \in 0..k : g[i] = f[i]
      OBVIOUS
    <3> HIDE DEF g
    <3>3. ASSUME NEW i \in 1..(k + 1) PROVE g[i] = Loop(g[i - 1], n, hits[i])
      <4>1. CASE i = k + 1
        <5>1. g[k] = f[k] /\ (k + 1) - 1 = k
          BY <3>2
        <5> QED
          BY <3>2, <4>1, <5>1
      <4>2. CASE i # k + 1
        <5>1. i \in 1..k /\ i \in 0..k /\ i - 1 \in 0..k
          BY <4>2
        <5>2. f[i] = Loop(f[i - 1], n, hits[i]) /\ g[i] = f[i] /\ g[i - 1] = f[i - 1]
          BY <3>1, <3>2, <5>1
        <5> QED
          BY <5>2
      <4> QED
        BY <4>1, <4>2
    <3>4. Part(g, k + 1)
      BY <3>1, <3>2, <3>3
    <3> QED
      BY <3>4
  <2> HIDE DEF S
  <2>3. 0..m \subseteq S
    BY <2>1, <2>2, UpTo
  <2> QED
    BY <2>3
<1>2. PICK f : Part(f, m)
  BY <1>1
<1> DEFINE h == [i \in 0..m |-> f[i]]
<1>3. R(h)
  BY <1>2
<1>4. Loops(qt, m, n, hits) = (CHOOSE g : R(g))[m]
  BY DEF Loops
<1> DEFINE c == CHOOSE g : R(g)
<1> HIDE DEF R
<1>5. R(c)
  BY <1>3, Zenon
<1> HIDE DEF c
<1> USE DEF R
<1>6. c[0] = qt /\ \A i \in 1..m : c[i] = Loop(c[i - 1], n, hits[i])
  BY <1>5
<1> HIDE DEF R
<1> DEFINE X(k) == UNION {Row(hits, n, i) : i \in 1..k}
           G == {k \in Nat : Grown(c[k], qt, X(k))}
<1>7. 0 \in G
  <2>1. X(0) = {}
    OBVIOUS
  <2> QED
    BY <1>6, <2>1 DEF Grown
<1>8. ASSUME NEW k \in 0..(m - 1), k \in G PROVE k + 1 \in G
  <2>1. k + 1 \in 1..m /\ (k + 1) - 1 = k /\ k + 1 \in Nat
    OBVIOUS
  <2>2. c[k + 1] = Loop(c[k], n, hits[k + 1])
    BY <1>6, <2>1
  <2>3. Grown(c[k], qt, X(k))
    BY <1>8
  <2>4. X(k + 1) = X(k) \cup Row(hits, n, k + 1)
    <3>1. 1..(k + 1) = (1..k) \cup {k + 1}
      OBVIOUS
    <3> QED
      BY <3>1, Zenon
  <2> HIDE DEF X
  <2>5. Grown(Loop(c[k], n, hits[k + 1]), c[k], Row(hits, n, k + 1))
    BY <2>3, LoopIs DEF Grown, Row
  <2>6. Grown(Loop(c[k], n, hits[k + 1]), qt, X(k + 1))
    BY <2>3, <2>4, <2>5, Zenon DEF Grown
  <2> QED
    BY <2>1, <2>2, <2>6
<1> HIDE DEF G
<1>9. 0..m \subseteq G
  BY <1>7, <1>8, UpTo
<1>10. m \in G
  BY <1>9
<1> QED
  BY <1>4, <1>10 DEF G, c

----------------------------------------------------------------------------
(* The tables *)

IsTable(t) ==
  /\ t = [i \in {"query", "ns", "address", "qt"} |-> t[i]]
  /\ IsList(t.query) /\ IsList(t.ns) /\ IsList(t.address) /\ IsList(t.qt)

\* Question i of the table, asked of server j of a zone at address k.
IsPath(t, e, i, j, k) ==
  /\ t.query[i].owner # << >> /\ dns_domain_suffix(t.query[i].owner, t.ns[j].owner)
  /\ t.ns[j].ns = t.address[k].owner
  /\ e = Ask(t.query[i], t.ns[j].owner, t.address[k].ip)
LEMMA PathsIs ==
  ASSUME NEW t, NEW e
  PROVE  e \in Paths(t) <=> \E i \in 1..Len(t.query), j \in 1..Len(t.ns), k \in 1..Len(t.address) : IsPath(t, e, i, j, k)
<1>1. ASSUME e \in Paths(t)
      PROVE  \E i \in 1..Len(t.query), j \in 1..Len(t.ns), k \in 1..Len(t.address) : IsPath(t, e, i, j, k)
  <2>1. PICK w \in (1..Len(t.query)) \X (1..Len(t.ns)) \X (1..Len(t.address)) :
          /\ t.query[w[1]].owner # << >> /\ dns_domain_suffix(t.query[w[1]].owner, t.ns[w[2]].owner)
          /\ t.ns[w[2]].ns = t.address[w[3]].owner
          /\ e = Ask(t.query[w[1]], t.ns[w[2]].owner, t.address[w[3]].ip)
    BY <1>1 DEF Paths
  <2>2. w[1] \in 1..Len(t.query) /\ w[2] \in 1..Len(t.ns) /\ w[3] \in 1..Len(t.address)
    BY <2>1
  <2>3. IsPath(t, e, w[1], w[2], w[3])
    BY <2>1 DEF IsPath
  <2> QED
    BY <2>2, <2>3
<1>2. ASSUME NEW i \in 1..Len(t.query), NEW j \in 1..Len(t.ns), NEW k \in 1..Len(t.address), IsPath(t, e, i, j, k)
      PROVE  e \in Paths(t)
  <2> DEFINE w == <<i, j, k>>
  <2>1. w \in (1..Len(t.query)) \X (1..Len(t.ns)) \X (1..Len(t.address)) /\ w[1] = i /\ w[2] = j /\ w[3] = k
    OBVIOUS
  <2> HIDE DEF w
  <2> QED
    BY <1>2, <2>1 DEF IsPath, Paths
<1> QED
  BY <1>1, <1>2

AllTraced(t) == IsTable(t) /\ Once(t.qt) /\ \A e : e \in ToSet(t.qt) <=> e \in Paths(t)

LEMMA Appended ==
  ASSUME NEW s, IsList(s), NEW e
  PROVE  /\ Len(s) \in Nat /\ IsList(Append(s, e)) /\ Len(Append(s, e)) = Len(s) + 1 /\ Append(s, e)[Len(s) + 1] = e
         /\ \A i \in 1..Len(s) : Append(s, e)[i] = s[i]
<1>1. PICK S : s \in Seq(S)
  BY DEF IsList
<1>2. s \in Seq(S \cup {e}) /\ Append(s, e) \in Seq(S \cup {e})
  BY <1>1
<1> QED
  BY <1>1, <1>2 DEF IsList

LEMMA QueryAdded ==
  ASSUME NEW t, AllTraced(t), NEW q
  PROVE  AllTraced(query_add(t, q))
<1>1. CASE Contains(t.query, q)
  BY <1>1 DEF query_add
<1>2. CASE ~Contains(t.query, q)
  <2> DEFINE Fits(i) == {j \in 1..Len(t.address) : dns_domain_suffix(q.owner, t.ns[i].owner) /\ t.ns[i].ns = t.address[j].owner}
             Found == [i \in 1..Len(t.ns) |-> [j \in Fits(i) |-> Ask(q, t.ns[i].owner, t.address[j].ip)]]
             new == Loops(t.qt, Len(t.ns), Len(t.address), Found)
             more == Append(t.query, q)
             u == [t EXCEPT !.query = more, !.qt = new]
  <2>1. query_add(t, q) = u
    BY <1>2 DEF query_add
  <2>2. u.query = more /\ u.qt = new /\ u.ns = t.ns /\ u.address = t.address
        /\ u = [f \in {"query", "ns", "address", "qt"} |-> u[f]]
    <3>1. t = [f \in {"query", "ns", "address", "qt"} |-> t[f]]
      BY DEF AllTraced, IsTable
    <3> HIDE DEF more, new
    <3> QED
      BY <3>1
  <2> HIDE DEF u
  <2>3. Len(t.ns) \in Nat /\ Len(t.address) \in Nat
    BY Appended DEF AllTraced, IsTable
  <2>4. Grown(new, t.qt, UNION {Row(Found, Len(t.address), i) : i \in 1..Len(t.ns)})
    <3> HIDE DEF Found
    <3> QED
      BY <2>3, LoopsIs DEF AllTraced, IsTable
  <2>5. ASSUME NEW e
        PROVE  e \in UNION {Row(Found, Len(t.address), i) : i \in 1..Len(t.ns)}
               <=> \E i \in 1..Len(t.ns), j \in 1..Len(t.address) : j \in Fits(i) /\ e = Ask(q, t.ns[i].owner, t.address[j].ip)
    <3>1. \A i \in 1..Len(t.ns) : /\ DOMAIN Found[i] = Fits(i)
                                   /\ \A j \in Fits(i) : Found[i][j] = Ask(q, t.ns[i].owner, t.address[j].ip)
      OBVIOUS
    <3>2. \A i \in 1..Len(t.ns) : Fits(i) \subseteq 1..Len(t.address)
      OBVIOUS
    <3> HIDE DEF Found, Fits
    <3> QED
      BY <3>1, <3>2 DEF Row
  <2> HIDE DEF new, Found
  <2>6. ASSUME NEW e PROVE e \in Paths(u) <=> e \in Paths(t) \/ (e \in UNION {Row(Found, Len(t.address), i) : i \in 1..Len(t.ns)} /\ e.owner # << >>)
    <3>1. /\ Len(t.query) \in Nat /\ Len(more) = Len(t.query) + 1 /\ more[Len(t.query) + 1] = q
          /\ \A i \in 1..Len(t.query) : more[i] = t.query[i]
      BY Appended DEF AllTraced, IsTable
    <3> HIDE DEF more
    <3>2. ASSUME NEW i \in 1..Len(t.query), NEW j, NEW k PROVE IsPath(u, e, i, j, k) <=> IsPath(t, e, i, j, k)
      BY <2>2, <3>1 DEF IsPath
    <3>3. ASSUME NEW j \in 1..Len(t.ns), NEW k \in 1..Len(t.address)
          PROVE  IsPath(u, e, Len(t.query) + 1, j, k) <=> k \in Fits(j) /\ e = Ask(q, t.ns[j].owner, t.address[k].ip) /\ e.owner # << >>
      BY <2>2, <3>1 DEF IsPath, Ask
    <3> HIDE DEF Fits
    <3>4. 1..Len(u.query) = (1..Len(t.query)) \cup {Len(t.query) + 1}
      BY <2>2, <3>1
    <3>5. e \in Paths(u) <=> \E i \in 1..Len(u.query), j \in 1..Len(t.ns), k \in 1..Len(t.address) : IsPath(u, e, i, j, k)
      BY <2>2, PathsIs
    <3>6. e \in Paths(t) <=> \E i \in 1..Len(t.query), j \in 1..Len(t.ns), k \in 1..Len(t.address) : IsPath(t, e, i, j, k)
      BY PathsIs
    <3>7. e \in Paths(u) <=> \/ \E i \in 1..Len(t.query), j \in 1..Len(t.ns), k \in 1..Len(t.address) : IsPath(u, e, i, j, k)
                             \/ \E j \in 1..Len(t.ns), k \in 1..Len(t.address) : IsPath(u, e, Len(t.query) + 1, j, k)
      BY <3>4, <3>5, Zenon
    <3> QED
      BY <2>5, <3>2, <3>3, <3>6, <3>7, ZenonT(30)
  <2>7. IsList(u.query)
    BY <2>2, Appended DEF AllTraced, IsTable
  <2> HIDE DEF more
  <2> QED
    BY <2>1, <2>2, <2>4, <2>6, <2>7 DEF AllTraced, IsTable, Grown
<1> QED
  BY <1>1, <1>2

LEMMA NsJoined ==
  ASSUME NEW t, AllTraced(t), NEW z
  PROVE  AllTraced(ns_join(t, z))
<1> DEFINE Fits(i) == {j \in 1..Len(t.address) : dns_domain_suffix(t.query[i].owner, z.owner) /\ z.ns = t.address[j].owner}
           Found == [i \in 1..Len(t.query) |-> [j \in Fits(i) |-> Ask(t.query[i], z.owner, t.address[j].ip)]]
           new == Loops(t.qt, Len(t.query), Len(t.address), Found)
           more == Append(t.ns, z)
           u == [t EXCEPT !.ns = more, !.qt = new]
<1>1. ns_join(t, z) = u
  BY DEF ns_join
<1>2. u.ns = more /\ u.qt = new /\ u.query = t.query /\ u.address = t.address
      /\ u = [f \in {"query", "ns", "address", "qt"} |-> u[f]]
  <2>1. t = [f \in {"query", "ns", "address", "qt"} |-> t[f]]
    BY DEF AllTraced, IsTable
  <2> HIDE DEF more, new
  <2> QED
    BY <2>1
<1> HIDE DEF u
<1>3. Len(t.query) \in Nat /\ Len(t.address) \in Nat
  BY Appended DEF AllTraced, IsTable
<1>4. Grown(new, t.qt, UNION {Row(Found, Len(t.address), i) : i \in 1..Len(t.query)})
  <2> HIDE DEF Found
  <2> QED
    BY <1>3, LoopsIs DEF AllTraced, IsTable
<1>5. ASSUME NEW e
      PROVE  e \in UNION {Row(Found, Len(t.address), i) : i \in 1..Len(t.query)}
             <=> \E i \in 1..Len(t.query), j \in 1..Len(t.address) : j \in Fits(i) /\ e = Ask(t.query[i], z.owner, t.address[j].ip)
  <2>1. \A i \in 1..Len(t.query) : /\ DOMAIN Found[i] = Fits(i)
                                 /\ \A j \in Fits(i) : Found[i][j] = Ask(t.query[i], z.owner, t.address[j].ip)
    OBVIOUS
  <2>2. \A i \in 1..Len(t.query) : Fits(i) \subseteq 1..Len(t.address)
    OBVIOUS
  <2> HIDE DEF Found, Fits
  <2> QED
    BY <2>1, <2>2 DEF Row
<1> HIDE DEF new, Found
<1>6. ASSUME NEW e PROVE e \in Paths(u) <=> e \in Paths(t) \/ (e \in UNION {Row(Found, Len(t.address), i) : i \in 1..Len(t.query)} /\ e.owner # << >>)
  <2>1. /\ Len(t.ns) \in Nat /\ Len(more) = Len(t.ns) + 1 /\ more[Len(t.ns) + 1] = z
        /\ \A i \in 1..Len(t.ns) : more[i] = t.ns[i]
    BY Appended DEF AllTraced, IsTable
  <2> HIDE DEF more
  <2>2. ASSUME NEW i, NEW j \in 1..Len(t.ns), NEW k PROVE IsPath(u, e, i, j, k) <=> IsPath(t, e, i, j, k)
    BY <1>2, <2>1 DEF IsPath
  <2>3. ASSUME NEW i \in 1..Len(t.query), NEW k \in 1..Len(t.address)
        PROVE  IsPath(u, e, i, Len(t.ns) + 1, k) <=> k \in Fits(i) /\ e = Ask(t.query[i], z.owner, t.address[k].ip) /\ e.owner # << >>
    BY <1>2, <2>1 DEF IsPath, Ask
  <2> HIDE DEF Fits
  <2>4. 1..Len(u.ns) = (1..Len(t.ns)) \cup {Len(t.ns) + 1}
    BY <1>2, <2>1
  <2>5. e \in Paths(u) <=> \E i \in 1..Len(t.query), j \in 1..Len(u.ns), k \in 1..Len(t.address) : IsPath(u, e, i, j, k)
    BY <1>2, PathsIs
  <2>6. e \in Paths(t) <=> \E i \in 1..Len(t.query), j \in 1..Len(t.ns), k \in 1..Len(t.address) : IsPath(t, e, i, j, k)
    BY PathsIs
  <2>7. e \in Paths(u) <=> \/ \E i \in 1..Len(t.query), j \in 1..Len(t.ns), k \in 1..Len(t.address) : IsPath(u, e, i, j, k)
                           \/ \E i \in 1..Len(t.query), k \in 1..Len(t.address) : IsPath(u, e, i, Len(t.ns) + 1, k)
    BY <2>4, <2>5, Zenon
  <2>8. (\E i \in 1..Len(t.query), j \in 1..Len(t.ns), k \in 1..Len(t.address) : IsPath(u, e, i, j, k)) <=> e \in Paths(t)
    BY <2>2, <2>6
  <2>9. (\E i \in 1..Len(t.query), k \in 1..Len(t.address) : IsPath(u, e, i, Len(t.ns) + 1, k))
        <=> e \in UNION {Row(Found, Len(t.address), i) : i \in 1..Len(t.query)} /\ e.owner # << >>
    BY <1>5, <2>3
  <2> QED
    BY <2>7, <2>8, <2>9
<1>7. IsList(u.ns)
  BY <1>2, Appended DEF AllTraced, IsTable
<1> HIDE DEF more
<1> QED
  BY <1>1, <1>2, <1>4, <1>6, <1>7 DEF AllTraced, IsTable, Grown

LEMMA AddressAdded ==
  ASSUME NEW t, AllTraced(t), NEW d
  PROVE  AllTraced(address_add(t, d))
<1>1. CASE Contains(t.address, d)
  BY <1>1 DEF address_add
<1>2. CASE ~Contains(t.address, d)
  <2> DEFINE Fits(i) == {j \in 1..Len(t.query) : t.ns[i].ns = d.owner /\ dns_domain_suffix(t.query[j].owner, t.ns[i].owner)}
             Found == [i \in 1..Len(t.ns) |-> [j \in Fits(i) |-> Ask(t.query[j], t.ns[i].owner, d.ip)]]
             new == Loops(t.qt, Len(t.ns), Len(t.query), Found)
             more == Append(t.address, d)
             u == [t EXCEPT !.address = more, !.qt = new]
  <2>1. address_add(t, d) = u
    BY <1>2 DEF address_add
  <2>2. u.address = more /\ u.qt = new /\ u.ns = t.ns /\ u.query = t.query
        /\ u = [f \in {"query", "ns", "address", "qt"} |-> u[f]]
    <3>1. t = [f \in {"query", "ns", "address", "qt"} |-> t[f]]
      BY DEF AllTraced, IsTable
    <3> HIDE DEF more, new
    <3> QED
      BY <3>1
  <2> HIDE DEF u
  <2>3. Len(t.ns) \in Nat /\ Len(t.query) \in Nat
    BY Appended DEF AllTraced, IsTable
  <2>4. Grown(new, t.qt, UNION {Row(Found, Len(t.query), i) : i \in 1..Len(t.ns)})
    <3> HIDE DEF Found
    <3> QED
      BY <2>3, LoopsIs DEF AllTraced, IsTable
  <2>5. ASSUME NEW e
        PROVE  e \in UNION {Row(Found, Len(t.query), i) : i \in 1..Len(t.ns)}
               <=> \E i \in 1..Len(t.ns), j \in 1..Len(t.query) : j \in Fits(i) /\ e = Ask(t.query[j], t.ns[i].owner, d.ip)
    <3>1. \A i \in 1..Len(t.ns) : /\ DOMAIN Found[i] = Fits(i)
                                   /\ \A j \in Fits(i) : Found[i][j] = Ask(t.query[j], t.ns[i].owner, d.ip)
      OBVIOUS
    <3>2. \A i \in 1..Len(t.ns) : Fits(i) \subseteq 1..Len(t.query)
      OBVIOUS
    <3> HIDE DEF Found, Fits
    <3> QED
      BY <3>1, <3>2 DEF Row
  <2> HIDE DEF new, Found
  <2>6. ASSUME NEW e PROVE e \in Paths(u) <=> e \in Paths(t) \/ (e \in UNION {Row(Found, Len(t.query), i) : i \in 1..Len(t.ns)} /\ e.owner # << >>)
    <3>1. /\ Len(t.address) \in Nat /\ Len(more) = Len(t.address) + 1 /\ more[Len(t.address) + 1] = d
          /\ \A i \in 1..Len(t.address) : more[i] = t.address[i]
      BY Appended DEF AllTraced, IsTable
    <3> HIDE DEF more
    <3>2. ASSUME NEW i, NEW j, NEW k \in 1..Len(t.address) PROVE IsPath(u, e, i, j, k) <=> IsPath(t, e, i, j, k)
      BY <2>2, <3>1 DEF IsPath
    <3>3. ASSUME NEW i \in 1..Len(t.query), NEW j \in 1..Len(t.ns)
          PROVE  IsPath(u, e, i, j, Len(t.address) + 1) <=> i \in Fits(j) /\ e = Ask(t.query[i], t.ns[j].owner, d.ip) /\ e.owner # << >>
      BY <2>2, <3>1 DEF IsPath, Ask
    <3> HIDE DEF Fits
    <3>4. 1..Len(u.address) = (1..Len(t.address)) \cup {Len(t.address) + 1}
      BY <2>2, <3>1
    <3>5. e \in Paths(u) <=> \E i \in 1..Len(t.query), j \in 1..Len(t.ns), k \in 1..Len(u.address) : IsPath(u, e, i, j, k)
      BY <2>2, PathsIs
    <3>6. e \in Paths(t) <=> \E i \in 1..Len(t.query), j \in 1..Len(t.ns), k \in 1..Len(t.address) : IsPath(t, e, i, j, k)
      BY PathsIs
    <3>7. e \in Paths(u) <=> \/ \E i \in 1..Len(t.query), j \in 1..Len(t.ns), k \in 1..Len(t.address) : IsPath(u, e, i, j, k)
                             \/ \E i \in 1..Len(t.query), j \in 1..Len(t.ns) : IsPath(u, e, i, j, Len(t.address) + 1)
      BY <3>4, <3>5, Zenon
    <3> QED
      BY <2>5, <3>2, <3>3, <3>6, <3>7, ZenonT(30)
  <2>7. IsList(u.address)
    BY <2>2, Appended DEF AllTraced, IsTable
  <2> HIDE DEF more
  <2> QED
    BY <2>1, <2>2, <2>4, <2>6, <2>7 DEF AllTraced, IsTable, Grown
<1> QED
  BY <1>1, <1>2

LEMMA NsAdded ==
  ASSUME NEW t, AllTraced(t), NEW z
  PROVE  AllTraced(ns_add(t, z))
<1>1. AllTraced(query_add(t, [owner |-> z.ns, type |-> "A"]))
  BY QueryAdded
<1> QED
  BY <1>1, NsJoined DEF ns_add

LEMMA Learned ==
  ASSUME NEW t, AllTraced(t), NEW r, NEW control
  PROVE  AllTraced(Learn(t, r, control))
<1>1. AllTraced(ns_add(t, [owner |-> r.owner, ns |-> r.data])) /\ AllTraced(address_add(t, [owner |-> r.owner, ip |-> r.data]))
  BY NsAdded, AddressAdded
<1> QED
  BY <1>1 DEF Learn

LEMMA AllLearned ==
  ASSUME NEW t, AllTraced(t), NEW s, Len(s) \in Nat, NEW control
  PROVE  AllTraced(LearnAll(t, s, control))
<1> DEFINE n == Len(s)
           Part(f, k) == f[0] = t /\ \A i \in 1..k : f[i] = Learn(f[i - 1], s[i], control)
           S == {k \in Nat : \E f : Part(f, k)}
           R(f) == f = [i \in 0..n |-> IF i = 0 THEN t ELSE Learn(f[i - 1], s[i], control)]
<1>0. n \in Nat
  BY Zenon
<1>1. LearnAll(t, s, control) = (CHOOSE g : R(g))[n]
  BY DEF LearnAll
<1> HIDE DEF n
<1>2. n \in S
  <2>1. 0 \in S
    <3>1. Part([i \in {0} |-> t], 0)
      OBVIOUS
    <3> QED
      BY <3>1
  <2>2. ASSUME NEW k \in 0..(n - 1), k \in S PROVE k + 1 \in S
    <3>1. PICK f : Part(f, k)
      BY <2>2
    <3>2. k \in Nat /\ k + 1 \in Nat
      BY <1>0
    <3> DEFINE last == Learn(f[k], s[k + 1], control)
               g == [i \in 0..(k + 1) |-> IF i = k + 1 THEN last ELSE f[i]]
    <3>3. g[0] = f[0] /\ g[k + 1] = last /\ \A i \in 0..k : g[i] = f[i]
      BY <3>2
    <3> HIDE DEF g
    <3>4. ASSUME NEW i \in 1..(k + 1) PROVE g[i] = Learn(g[i - 1], s[i], control)
      <4>1. CASE i = k + 1
        <5>1. g[k] = f[k] /\ (k + 1) - 1 = k
          BY <3>2, <3>3
        <5> QED
          BY <3>3, <4>1, <5>1
      <4>2. CASE i # k + 1
        <5>1. i \in 1..k /\ i \in 0..k /\ i - 1 \in 0..k
          BY <3>2, <4>2
        <5>2. f[i] = Learn(f[i - 1], s[i], control) /\ g[i] = f[i] /\ g[i - 1] = f[i - 1]
          BY <3>1, <3>3, <5>1
        <5> QED
          BY <5>2
      <4> QED
        BY <4>1, <4>2
    <3>5. Part(g, k + 1)
      BY <3>1, <3>3, <3>4
    <3> QED
      BY <3>2, <3>5
  <2> HIDE DEF S
  <2>3. 0..n \subseteq S
    BY <1>0, <2>1, <2>2, UpTo
  <2> QED
    BY <1>0, <2>3
<1>3. PICK f : Part(f, n)
  BY <1>2
<1> DEFINE h == [i \in 0..n |-> f[i]]
<1>4. R(h)
  BY <1>0, <1>3
<1> DEFINE c == CHOOSE g : R(g)
<1> HIDE DEF R
<1>5. R(c)
  BY <1>4, Zenon
<1> HIDE DEF c
<1> USE DEF R
<1>6. c[0] = t /\ \A i \in 1..n : c[i] = Learn(c[i - 1], s[i], control)
  BY <1>0, <1>5
<1> HIDE DEF R
<1> DEFINE G == {k \in Nat : AllTraced(c[k])}
<1>7. 0 \in G
  BY <1>6
<1>8. ASSUME NEW k \in 0..(n - 1), k \in G PROVE k + 1 \in G
  <2>1. k + 1 \in 1..n /\ (k + 1) - 1 = k /\ k + 1 \in Nat
    BY <1>0
  <2>2. c[k + 1] = Learn(c[k], s[k + 1], control)
    BY <1>6, <2>1
  <2> QED
    BY <1>8, <2>1, <2>2, Learned
<1> HIDE DEF G
<1>9. 0..n \subseteq G
  BY <1>0, <1>7, <1>8, UpTo
<1>10. n \in G
  BY <1>0, <1>9
<1> QED
  BY <1>1, <1>10 DEF G, c

LEMMA EmptyTraced == AllTraced(Empty)
<1> DEFINE e == Empty
<1>1. e.query = << >> /\ e.ns = << >> /\ e.address = << >> /\ e.qt = << >>
      /\ e = [f \in {"query", "ns", "address", "qt"} |-> e[f]]
  BY DEF Empty
<1>2. IsList(<< >>) /\ Len(<< >>) = 0 /\ ToSet(<< >>) = {} /\ Once(<< >>)
  <2>1. << >> \in Seq({}) /\ DOMAIN << >> = {} /\ Len(<< >>) = 0
    OBVIOUS
  <2> QED
    BY <2>1 DEF IsList, ToSet, Once
<1> HIDE DEF e
<1>3. \A i : i \notin Paths(e)
  <2>1. 1..Len(e.query) = {}
    BY <1>1, <1>2
  <2> QED
    BY <2>1, PathsIs
<1>4. IsTable(e) /\ Once(e.qt) /\ ToSet(e.qt) = {}
  BY <1>1, <1>2 DEF IsTable
<1>5. AllTraced(e)
  BY <1>3, <1>4 DEF AllTraced
<1> QED
  BY <1>5 DEF e

LEMMA AllStarted ==
  ASSUME NEW q
  PROVE  AllTraced(Started(q))
<1> DEFINE n == Len(Roots)
           first == ns_add(query_add(Empty, q), [owner |-> << >>, ns |-> << >>])
           Part(f, k) == f[0] = first /\ \A i \in 1..k : f[i] = address_add(f[i - 1], [owner |-> << >>, ip |-> Roots[i]])
           S == {k \in Nat : \E f : Part(f, k)}
           R(f) == f = [i \in 0..n |-> IF i = 0 THEN first ELSE address_add(f[i - 1], [owner |-> << >>, ip |-> Roots[i]])]
<1>0. n \in Nat
  BY TraceAssumption DEF IsSequence
<1>11. AllTraced(first)
  BY EmptyTraced, QueryAdded, NsAdded
<1>1. Started(q) = (CHOOSE g : R(g))[n]
  BY DEF Started
<1> HIDE DEF n, first
<1>2. n \in S
  <2>1. 0 \in S
    <3>1. Part([i \in {0} |-> first], 0)
      OBVIOUS
    <3> QED
      BY <3>1
  <2>2. ASSUME NEW k \in 0..(n - 1), k \in S PROVE k + 1 \in S
    <3>1. PICK f : Part(f, k)
      BY <2>2
    <3>2. k \in Nat /\ k + 1 \in Nat
      BY <1>0
    <3> DEFINE last == address_add(f[k], [owner |-> << >>, ip |-> Roots[k + 1]])
               g == [i \in 0..(k + 1) |-> IF i = k + 1 THEN last ELSE f[i]]
    <3>3. g[0] = f[0] /\ g[k + 1] = last /\ \A i \in 0..k : g[i] = f[i]
      BY <3>2
    <3> HIDE DEF g
    <3>4. ASSUME NEW i \in 1..(k + 1) PROVE g[i] = address_add(g[i - 1], [owner |-> << >>, ip |-> Roots[i]])
      <4>1. CASE i = k + 1
        <5>1. g[k] = f[k] /\ (k + 1) - 1 = k
          BY <3>2, <3>3
        <5> QED
          BY <3>3, <4>1, <5>1
      <4>2. CASE i # k + 1
        <5>1. i \in 1..k /\ i \in 0..k /\ i - 1 \in 0..k
          BY <3>2, <4>2
        <5>2. f[i] = address_add(f[i - 1], [owner |-> << >>, ip |-> Roots[i]]) /\ g[i] = f[i] /\ g[i - 1] = f[i - 1]
          BY <3>1, <3>3, <5>1
        <5> QED
          BY <5>2
      <4> QED
        BY <4>1, <4>2
    <3>5. Part(g, k + 1)
      BY <3>1, <3>3, <3>4
    <3> QED
      BY <3>2, <3>5
  <2> HIDE DEF S
  <2>3. 0..n \subseteq S
    BY <1>0, <2>1, <2>2, UpTo
  <2> QED
    BY <1>0, <2>3
<1>3. PICK f : Part(f, n)
  BY <1>2
<1> DEFINE h == [i \in 0..n |-> f[i]]
<1>4. R(h)
  BY <1>0, <1>3
<1> DEFINE c == CHOOSE g : R(g)
<1> HIDE DEF R
<1>5. R(c)
  BY <1>4, Zenon
<1> HIDE DEF c
<1> USE DEF R
<1>6. c[0] = first /\ \A i \in 1..n : c[i] = address_add(c[i - 1], [owner |-> << >>, ip |-> Roots[i]])
  BY <1>0, <1>5
<1> HIDE DEF R
<1> DEFINE G == {k \in Nat : AllTraced(c[k])}
<1>7. 0 \in G
  BY <1>6, <1>11
<1>8. ASSUME NEW k \in 0..(n - 1), k \in G PROVE k + 1 \in G
  <2>1. k + 1 \in 1..n /\ (k + 1) - 1 = k /\ k + 1 \in Nat
    BY <1>0
  <2>2. c[k + 1] = address_add(c[k], [owner |-> << >>, ip |-> Roots[k + 1]])
    BY <1>6, <2>1
  <2> QED
    BY <1>8, <2>1, <2>2, AddressAdded
<1> HIDE DEF G
<1>9. 0..n \subseteq G
  BY <1>0, <1>7, <1>8, UpTo
<1>10. n \in G
  BY <1>0, <1>9
<1> QED
  BY <1>1, <1>10 DEF G, c

LEMMA Parsed ==
  ASSUME NEW t, AllTraced(t), NEW p \in Packets, NEW q
  PROVE  AllTraced(parsepacket(t, p, q))
<1> DEFINE all == p.answer \o p.authority \o p.glue
           u == LearnAll(t, Good(all, p.good), q.control)
           S == ToSet(p.answer) \cup ToSet(p.authority) \cup ToSet(p.glue)
<1>1. p.answer \in Seq(S) /\ p.authority \in Seq(S) /\ p.glue \in Seq(S) /\ p.good \in Int
  <2>1. ASSUME NEW s, IsSequence(s) PROVE s \in Seq(ToSet(s))
    BY <2>1 DEF IsSequence, ToSet
  <2>2. p.answer \in Seq(ToSet(p.answer)) /\ p.authority \in Seq(ToSet(p.authority)) /\ p.glue \in Seq(ToSet(p.glue))
    BY <2>1, TraceAssumption
  <2>3. ASSUME NEW A, NEW s \in Seq(A), A \subseteq S PROVE s \in Seq(S)
    BY <2>3
  <2>4. ToSet(p.answer) \subseteq S /\ ToSet(p.authority) \subseteq S /\ ToSet(p.glue) \subseteq S
    OBVIOUS
  <2> HIDE DEF S
  <2> QED
    BY <2>2, <2>3, <2>4, TraceAssumption
<1> HIDE DEF S
<1>2. all \in Seq(S)
  BY <1>1
<1> HIDE DEF all
<1>3. Len(Good(all, p.good)) \in Nat
  BY <1>1, <1>2 DEF Good
<1>4. AllTraced(u)
  BY <1>3, AllLearned
<1> HIDE DEF u
<1>5. AllTraced(query_add(u, [owner |-> cname(p, q), type |-> q.type]))
  BY <1>4, QueryAdded
<1>6. parsepacket(t, p, q) \in {t, u, query_add(u, [owner |-> cname(p, q), type |-> q.type])}
  BY Zenon DEF parsepacket, u, all
<1> QED
  BY <1>4, <1>5, <1>6

LEMMA SpecialTraced ==
  ASSUME NEW t, AllTraced(t), NEW q
  PROVE  AllTraced(Special(t, q))
<1> DEFINE u == IF q.owner = <<"localhost">> THEN address_add(t, [owner |-> q.owner, ip |-> Odd]) ELSE t
<1>1. AllTraced(u)
  BY AddressAdded
<1>2. Special(t, q) \in {u, address_add(u, [owner |-> q.owner, ip |-> IpOf[q.owner]])}
  BY Zenon DEF Special
<1> HIDE DEF u
<1> QED
  BY <1>1, <1>2, AddressAdded

\* Whatever servers answer, and in whatever order dnstrace learns of questions,
\* servers and addresses, qt is what all of them together give, nothing missing
\* and nothing twice (query_add, ns_add, address_add, parsepacket).
THEOREM DnstraceTracesAll == TraceSpec => []TracesAll
<1>1. TraceInit => AllTraced(tab)
  BY AllStarted DEF TraceInit
<1>2. AllTraced(tab) /\ [TraceNext]_trace_vars => AllTraced(tab)'
  <2> SUFFICES ASSUME AllTraced(tab), [TraceNext]_trace_vars PROVE AllTraced(tab')
    BY Zenon DEF AllTraced, IsTable, Once, IsList, ToSet, Paths, Ask, dns_domain_suffix
  <2>1. CASE UNCHANGED trace_vars
    BY <2>1 DEF trace_vars
  <2>2. CASE turn
    <3> DEFINE q == tab.qt[next + 1]
    <3>1. tab' = Special(tab, q) \/ \E p \in Packets : tab' = Special(parsepacket(tab, p, q), q)
      BY <2>2 DEF turn
    <3> HIDE DEF q
    <3> QED
      BY <3>1, Parsed, SpecialTraced
  <2> QED
    BY <2>1, <2>2 DEF TraceNext
<1>3. AllTraced(tab) => TracesAll
  BY DEF AllTraced, TracesAll, Once
<1> QED
  BY <1>1, <1>2, <1>3, PTL DEF TraceSpec

----------------------------------------------------------------------------
(* dnsfilter: parts of a text *)

\* The letters of a text behind place a and up to b.
Piece(s, a, b) == SubSeq(s, a + 1, b)

LEMMA PieceIs ==
  ASSUME NEW s, IsText(s), NEW b \in 0..Len(s), NEW a \in 0..b
  PROVE  IsText(Piece(s, a, b)) /\ Len(Piece(s, a, b)) = b - a /\ \A k \in 1..(b - a) : Piece(s, a, b)[k] = s[a + k]
<1> DEFINE m == a + 1
           t == SubSeq(s, m, b)
<1>1. Len(s) \in Nat /\ m \in 1..(Len(s) + 1) /\ b \in (m - 1)..Len(s) /\ b - m + 1 = b - a /\ \A k \in Int : m + k - 1 = a + k
  BY DEF IsText
<1> HIDE DEF m
<1>2. IsText(t) /\ Len(t) = b - m + 1 /\ \A k \in 1..(b - m + 1) : t[k] = s[m + k - 1]
  BY <1>1, PartText, ZenonT(30)
<1> HIDE DEF t
<1>3. IsText(t) /\ Len(t) = b - a /\ \A k \in 1..(b - a) : t[k] = s[a + k]
  BY <1>1, <1>2
<1>4. Piece(s, a, b) = t
  BY DEF Piece, t, m
<1> QED
  BY <1>3, <1>4, Zenon

LEMMA PieceJoin ==
  ASSUME NEW s, IsText(s), NEW c \in 0..Len(s), NEW b \in 0..c, NEW a \in 0..b
  PROVE  Piece(s, a, b) \o Piece(s, b, c) = Piece(s, a, c)
<1>1. Len(s) \in Nat /\ b \in 0..Len(s) /\ a \in 0..c
  BY DEF IsText
<1> DEFINE p == Piece(s, a, b)
           q == Piece(s, b, c)
           w == Piece(s, a, c)
<1>2. IsText(p) /\ Len(p) = b - a /\ \A k \in 1..(b - a) : p[k] = s[a + k]
  BY <1>1, PieceIs
<1>3. IsText(q) /\ Len(q) = c - b /\ \A k \in 1..(c - b) : q[k] = s[b + k]
  BY <1>1, PieceIs
<1>4. IsText(w) /\ Len(w) = c - a /\ \A k \in 1..(c - a) : w[k] = s[a + k]
  BY <1>1, PieceIs
<1> HIDE DEF p, q, w
<1>5. \A k \in 1..Len(q) : w[Len(p) + k] = q[k]
  <2> SUFFICES ASSUME NEW k \in 1..Len(q) PROVE w[Len(p) + k] = q[k]
    OBVIOUS
  <2>1. b - a + k \in 1..(c - a) /\ a + (b - a + k) = b + k
    BY <1>1, <1>3
  <2> QED
    BY <1>2, <1>3, <1>4, <2>1
<1>6. \A k \in 1..Len(p) : w[k] = p[k]
  BY <1>1, <1>2, <1>4
<1>7. Len(w) = Len(p) + Len(q)
  BY <1>1, <1>2, <1>3, <1>4
<1>8. IsJoined(w, p, q)
  BY <1>2, <1>3, <1>4, <1>5, <1>6, <1>7 DEF IsJoined
<1>9. w = p \o q
  BY <1>8, JoinIs
<1> QED
  BY <1>9 DEF p, q, w

LEMMA PieceCut ==
  ASSUME NEW s, IsText(s), NEW c \in 0..Len(s), NEW b \in 0..c, NEW a \in 0..b
  PROVE  /\ SubSeq(Piece(s, a, c), 1, b - a) = Piece(s, a, b)
         /\ SubSeq(Piece(s, a, c), b - a + 1, Len(Piece(s, a, c))) = Piece(s, b, c)
<1>1. Len(s) \in Nat /\ b \in 0..Len(s) /\ a \in 0..c
  BY DEF IsText
<1> DEFINE w == Piece(s, a, c)
<1>2. IsText(w) /\ Len(w) = c - a /\ \A k \in 1..(c - a) : w[k] = s[a + k]
  BY <1>1, PieceIs
<1> HIDE DEF w
<1>3. SubSeq(w, 1, b - a) = Piece(s, a, b)
  <2>0. b - a \in 0..Len(w)
    BY <1>1, <1>2
  <2>1. IsText(SubSeq(w, 1, b - a)) /\ Len(SubSeq(w, 1, b - a)) = b - a /\ \A k \in 1..(b - a) : SubSeq(w, 1, b - a)[k] = w[k]
    BY <1>2, <2>0, PrefixText
  <2>2. IsText(Piece(s, a, b)) /\ Len(Piece(s, a, b)) = b - a /\ \A k \in 1..(b - a) : Piece(s, a, b)[k] = s[a + k]
    BY <1>1, PieceIs
  <2>3. \A k \in 1..(b - a) : SubSeq(w, 1, b - a)[k] = Piece(s, a, b)[k]
    BY <1>1, <1>2, <2>1, <2>2
  <2> QED
    BY <2>1, <2>2, <2>3, SameText
<1>4. SubSeq(w, b - a + 1, c - a) = Piece(s, b, c)
  <2> DEFINE t == SubSeq(w, b - a + 1, c - a)
             m == b - a + 1
  <2>1. m \in 1..(Len(w) + 1) /\ c - a \in (m - 1)..Len(w) /\ c - a - m + 1 = c - b
    BY <1>1, <1>2
  <2>2. IsText(t) /\ Len(t) = c - b /\ \A k \in 1..(c - b) : t[k] = w[m + k - 1]
    BY <1>2, <2>1, PartText
  <2>3. IsText(Piece(s, b, c)) /\ Len(Piece(s, b, c)) = c - b /\ \A k \in 1..(c - b) : Piece(s, b, c)[k] = s[b + k]
    BY <1>1, PieceIs
  <2> HIDE DEF t
  <2>4. \A k \in 1..(c - b) : t[k] = Piece(s, b, c)[k]
    <3> SUFFICES ASSUME NEW k \in 1..(c - b) PROVE t[k] = Piece(s, b, c)[k]
      OBVIOUS
    <3>1. m + k - 1 \in 1..(c - a) /\ a + (m + k - 1) = b + k
      BY <1>1
    <3> QED
      BY <1>2, <2>2, <2>3, <3>1
  <2> QED
    BY <2>2, <2>3, <2>4, SameText DEF t
<1> QED
  BY <1>2, <1>3, <1>4 DEF w

IsFirst(s, c, p) == p \in 1..(Len(s) + 1) /\ (p <= Len(s) => s[p] = c) /\ \A j \in 1..(p - 1) : s[j] # c

LEMMA ByteChr == ASSUME NEW s, IsText(s), NEW c PROVE IsFirst(s, c, byte_chr(s, c))
<1>1. Len(s) \in Nat /\ DOMAIN s = 1..Len(s)
  BY DEF IsText
<1> DEFINE P == {j \in 1..Len(s) : s[j] = c}
           F == {i \in 1..Len(s) : s[i] = c /\ \A j \in 1..(i - 1) : s[j] # c}
<1>2. CASE P = {}
  <2>1. byte_chr(s, c) = Len(s) + 1
    BY <1>1, <1>2 DEF byte_chr
  <2> QED
    BY <1>1, <1>2, <2>1 DEF IsFirst
<1>3. CASE P # {}
  <2>1. PICK m \in P : \A y \in P : ~(<<y, m>> \in OpToRel(<, Nat))
    <3>1. P \in SUBSET Nat
      BY <1>1
    <3> HIDE DEF P
    <3> QED
      BY <1>3, <3>1, NatLessThanWellFounded, WFMin
  <2>2. ASSUME NEW j \in 1..(m - 1) PROVE s[j] # c
    <3>1. j \in Nat /\ m \in Nat /\ j < m /\ j \in 1..Len(s)
      BY <1>1
    <3>2. j \notin P
      BY <2>1, <3>1 DEF OpToRel
    <3> QED
      BY <3>1, <3>2
  <2>3. byte_chr(s, c) = CHOOSE i \in 1..Len(s) : s[i] = c /\ \A j \in 1..(i - 1) : s[j] # c
    BY <1>1, <1>3 DEF byte_chr
  <2>4. m \in 1..Len(s) /\ s[m] = c /\ \A j \in 1..(m - 1) : s[j] # c
    BY <2>2
  <2>5. byte_chr(s, c) \in 1..Len(s) /\ s[byte_chr(s, c)] = c /\ \A j \in 1..(byte_chr(s, c) - 1) : s[j] # c
    BY <2>3, <2>4
  <2> QED
    BY <1>1, <2>5 DEF IsFirst
<1> QED
  BY <1>2, <1>3

LEMMA SplitIs ==
  ASSUME NEW s, IsText(s)
  PROVE  \E i \in 0..Len(s) :
           /\ Split(s) = [left |-> SubSeq(s, 1, i), middle |-> "", right |-> SubSeq(s, i + 1, Len(s)), active |-> FALSE]
           /\ IsWord(s, i)
<1> DEFINE p == byte_chr(s, "nl")
           q == byte_chr(s, "sp")
<1>1. IsFirst(s, "nl", p) /\ IsFirst(s, "sp", q) /\ Len(s) \in Nat
  BY ByteChr DEF IsText
<1>2. Split(s) = [left |-> SubSeq(s, 1, Min({p, q}) - 1), middle |-> "", right |-> SubSeq(s, Min({p, q}) - 1 + 1, Len(s)), active |-> FALSE]
  BY DEF Split
<1> HIDE DEF p, q
<1>3. p \in Int /\ q \in Int
  BY <1>1 DEF IsFirst
<1>4. Min({p, q}) \in {p, q}
  <2>1. \E m \in {p, q} : \A y \in {p, q} : m <= y
    BY <1>3
  <2> QED
    BY <2>1 DEF Min
<1> DEFINE i == Min({p, q}) - 1
<1>5. i \in 0..Len(s) /\ (i < Len(s) => s[i + 1] \in {"nl", "sp"})
  BY <1>1, <1>4 DEF IsFirst
<1>6. ASSUME NEW j \in 1..i PROVE s[j] \notin {"nl", "sp"}
  <2>1. \A m \in {p, q} : Min({p, q}) <= m
    <3>1. \E m \in {p, q} : \A y \in {p, q} : m <= y
      BY <1>3
    <3> QED
      BY <3>1 DEF Min
  <2>2. j \in 1..(p - 1) /\ j \in 1..(q - 1)
    BY <1>3, <1>4, <2>1
  <2> QED
    BY <1>1, <2>2 DEF IsFirst
<1>7. IsWord(s, i)
  BY <1>5, <1>6 DEF IsWord
<1> QED
  BY <1>2, <1>5, <1>7

\* A text is what is before a place and what is behind it.
LEMMA SplitText == ASSUME NEW s, IsText(s), NEW i \in 0..Len(s) PROVE SubSeq(s, 1, i) \o SubSeq(s, i + 1, Len(s)) = s
<1>1. 0 \in 0..i /\ Len(s) \in 0..Len(s) /\ i \in 0..Len(s)
  BY DEF IsText
<1>2. Piece(s, 0, i) \o Piece(s, i, Len(s)) = Piece(s, 0, Len(s))
  BY <1>1, PieceJoin
<1>3. SubSeq(s, 1, Len(s)) = s
  BY WholeText
<1>4. Piece(s, 0, i) = SubSeq(s, 1, i) /\ Piece(s, 0, Len(s)) = SubSeq(s, 1, Len(s))
  <2>1. 0 + 1 = 1
    OBVIOUS
  <2>2. \A n : Piece(s, 0, n) = SubSeq(s, 0 + 1, n)
    BY Zenon DEF Piece
  <2> QED
    BY <2>1, <2>2, Zenon
<1>5. Piece(s, i, Len(s)) = SubSeq(s, i + 1, Len(s))
  BY Zenon DEF Piece
<1> QED
  BY <1>2, <1>3, <1>4, <1>5, Zenon

----------------------------------------------------------------------------
(* What may be printed *)

\* A line whose look-up is under way.
Looked(l, s) ==
  /\ IsText(s) /\ Len(s) > 0 /\ s[1] \in Address /\ l.middle = ""
  /\ \E i \in 1..Len(s) : IsWord(s, i) /\ l.left = SubSeq(s, 1, i) /\ l.right = SubSeq(s, i + 1, Len(s))
IsLine(l) == {"left", "middle", "right", "active"} \subseteq DOMAIN l
IsOf(l, s) ==
  /\ IsLine(l) /\ l.active \in BOOLEAN
  /\ ~l.active => Done(l) \in Filtered(s)
  /\ l.active => Looked(l, s)

\* Letters are put behind a text one by one or together.
LEMMA Words ==
  ASSUME NEW t, IsText(t), NEW u, NEW v
  PROVE  IsText(Append(t, u)) /\ Append(t, u) \o <<v>> = t \o <<u, v>>
<1> DEFINE m == Append(t, u)
           r == t \o <<u, v>>
<1>1. PICK S : t \in Seq(S) /\ u \in S /\ v \in S
  <2>1. t \in Seq(ToSet(t))
    BY TextIs
  <2>2. t \in Seq(ToSet(t) \cup {u, v})
    BY <2>1
  <2> QED
    BY <2>2
<1>2. m \in Seq(S) /\ m \o <<v>> = r
  BY <1>1
<1>3. IsText(m)
  BY <1>2, TextIs
<1> QED
  BY <1>2, <1>3

LEMMA DoneBare == ASSUME NEW l, l.middle = "" PROVE Done(l) = (l.left \o << >>) \o l.right
BY Zenon DEF Done
LEMMA DoneNamed == ASSUME NEW l, l.middle # "" PROVE Done(l) = (l.left \o <<l.middle>>) \o l.right
BY Zenon DEF Done
LEMMA DoneFailed == ASSUME NEW l, l.middle = ":error" PROVE Done(l) = (l.left \o <<":error">>) \o l.right
<1>1. l.middle # ""
  OBVIOUS
<1>2. Done(l) = (l.left \o <<l.middle>>) \o l.right
  BY <1>1, DoneNamed
<1> QED
  BY <1>2

LEMMA NothingMore == ASSUME NEW s, IsText(s) PROVE s \o << >> = s
<1>1. s \in Seq(ToSet(s))
  BY TextIs
<1> QED
  BY <1>1

\* A line without an address is printed as it is.
LEMMA Itself == ASSUME NEW s, s[1] \notin Address PROVE s \in Filtered(s)
BY Zenon DEF Filtered

\* What a look-up makes of it.
LEMMA NamedLine ==
  ASSUME NEW l, NEW s, Looked(l, s)
  PROVE  /\ IsText(l.left) /\ l.left[1] = s[1]
         /\ \A note \in Notes(s[1]) : (l.left \o note) \o l.right \in Filtered(s)
<1>1. PICK i \in 1..Len(s) : IsWord(s, i) /\ l.left = SubSeq(s, 1, i) /\ l.right = SubSeq(s, i + 1, Len(s))
  BY DEF Looked
<1>2. IsText(s) /\ Len(s) \in Nat /\ i \in 0..Len(s) /\ 0 \in 0..i /\ Len(s) \in 0..Len(s) /\ s[1] \in Address /\ 1 \in 1..i
  <2>1. IsText(s) /\ s[1] \in Address
    BY DEF Looked
  <2>2. Len(s) \in Nat
    BY <2>1 DEF IsText
  <2> QED
    BY <2>1, <2>2
<1>3. IsText(SubSeq(s, 1, i)) /\ SubSeq(s, 1, i)[1] = s[1]
  BY <1>2, PrefixText
<1>5. \A note \in Notes(s[1]) : \A t \in Noted(s, note) : t \in Filtered(s)
  BY <1>2, Zenon DEF Filtered
<1>6. \A note : (SubSeq(s, 1, i) \o note) \o SubSeq(s, i + 1, Len(s)) \in Noted(s, note)
  <2>1. i \in {k \in 0..Len(s) : IsWord(s, k)}
    BY <1>1, <1>2
  <2> QED
    BY <2>1, Zenon DEF Noted
<1> QED
  BY <1>1, <1>3, <1>5, <1>6, Zenon

LEMMA GotIs ==
  ASSUME NEW l, NEW s, IsOf(l, s), l.active, NEW r \in {"wait", "fail", "bad", "name"}
  PROVE  IsOf(Got(l, r), s) /\ (Got(l, r).active <=> r = "wait")
<1> DEFINE g == Got(l, r)
<1>6. g = Got(l, r)
  OBVIOUS
<1> SUFFICES IsOf(g, s) /\ (g.active <=> r = "wait")
  OBVIOUS
<1> HIDE DEF g
<1>1. IsLine(l) /\ l.active \in BOOLEAN /\ Looked(l, s) /\ l.middle = ""
  BY DEF IsOf, Looked
<1>7. /\ IsText(l.left) /\ l.left[1] = s[1]
      /\ \A note \in Notes(s[1]) : (l.left \o note) \o l.right \in Filtered(s)
  BY <1>1, NamedLine
<1>8. /\ <<":error">> \in Notes(s[1]) /\ <<"=", ":error">> \in Notes(s[1])
      /\ s[1] \in DOMAIN NameOf => <<"=", NameOf[s[1]]>> \in Notes(s[1])
      /\ s[1] \notin DOMAIN NameOf => << >> \in Notes(s[1])
  BY Zenon DEF Notes
<1>2. CASE r = "wait"
  <2>1. g = l
    BY <1>2, <1>6 DEF Got
  <2> QED
    BY <1>2, <2>1
<1>3. CASE r = "fail"
  <2>1. g = [l EXCEPT !.middle = ":error", !.active = FALSE]
    BY <1>3, <1>6 DEF Got
  <2>2. IsLine(g) /\ g.left = l.left /\ g.middle = ":error" /\ g.active = FALSE /\ g.right = l.right
    BY <1>1, <2>1 DEF IsLine
  <2>3. Done(g) = (l.left \o <<":error">>) \o l.right
    <3>1. Done(g) = (g.left \o <<":error">>) \o g.right
      BY <2>2, DoneFailed
    <3> QED
      BY <2>2, <3>1, Zenon
  <2>4. Done(g) \in Filtered(s)
    BY <1>7, <1>8, <2>3, Zenon
  <2> QED
    BY <1>3, <2>2, <2>4 DEF IsOf
<1>4. CASE r = "bad"
  <2>1. g = [l EXCEPT !.left = Append(@, "="), !.middle = ":error", !.active = FALSE]
    BY <1>4, <1>6 DEF Got
  <2>2. IsLine(g) /\ g.left = Append(l.left, "=") /\ g.middle = ":error" /\ g.active = FALSE /\ g.right = l.right
    BY <1>1, <2>1 DEF IsLine
  <2>3. Done(g) = (l.left \o <<"=", ":error">>) \o l.right
    <3>1. Done(g) = (g.left \o <<":error">>) \o g.right
      BY <2>2, DoneFailed
    <3>2. Append(l.left, "=") \o <<":error">> = l.left \o <<"=", ":error">>
      BY <1>7, Words
    <3> QED
      BY <2>2, <3>1, <3>2, Zenon
  <2>4. Done(g) \in Filtered(s)
    BY <1>7, <1>8, <2>3, Zenon
  <2> QED
    BY <1>4, <2>2, <2>4 DEF IsOf
<1>5. CASE r = "name"
  <2> DEFINE m == Middle(l)
  <2>2. m = IF s[1] \in DOMAIN NameOf THEN NameOf[s[1]] ELSE ""
    BY <1>7 DEF Middle
  <2>3. g = [l EXCEPT !.left = IF m = "" THEN @ ELSE Append(@, "="), !.middle = m, !.active = FALSE]
    BY <1>5, <1>6 DEF Got
  <2> HIDE DEF m
  <2>4. IsLine(g) /\ g.left = (IF m = "" THEN l.left ELSE Append(l.left, "=")) /\ g.middle = m /\ g.active = FALSE /\ g.right = l.right
    BY <1>1, <2>3 DEF IsLine
  <2>5. Done(g) \in Filtered(s)
    <3>1. CASE m = ""
      <4>1. g.left = l.left /\ g.middle = "" /\ g.right = l.right
        BY <2>4, <3>1
      <4>2. Done(g) = (g.left \o << >>) \o g.right
        BY <4>1, DoneBare
      <4>3. << >> \in Notes(s[1])
        BY <1>8, <2>2, <3>1, LookupAssumption
      <4>4. (l.left \o << >>) \o l.right \in Filtered(s)
        BY <1>7, <4>3, Zenon
      <4> QED
        BY <4>1, <4>2, <4>4, Zenon
    <3>2. CASE m # ""
      <4>1. g.left = Append(l.left, "=") /\ g.middle = m /\ g.right = l.right
        BY <2>4, <3>2
      <4>2. Done(g) = (g.left \o <<g.middle>>) \o g.right
        BY <3>2, <4>1, DoneNamed
      <4>3. Append(l.left, "=") \o <<m>> = l.left \o <<"=", m>>
        BY <1>7, Words
      <4>4. <<"=", m>> \in Notes(s[1])
        BY <1>8, <2>2, <3>2, Zenon
      <4>5. (l.left \o <<"=", m>>) \o l.right \in Filtered(s)
        BY <1>7, <4>4, Zenon
      <4> QED
        BY <4>1, <4>2, <4>3, <4>5, Zenon
    <3> QED
      BY <3>1, <3>2
  <2> QED
    BY <1>5, <2>4, <2>5 DEF IsOf
<1> QED
  BY <1>2, <1>3, <1>4, <1>5

\* The line as it is when it is taken.
Looks(l) == ~(l.left = << >> \/ Head(l.left) \notin Address)
IsSplit(l, s) == l = Split(s)
IsMarked(l, a) == a = [l EXCEPT !.active = TRUE]
IsFailed(l, e) == e = [l EXCEPT !.middle = ":error"]
LEMMA Marks == ASSUME NEW l, IsLine(l), NEW a, IsMarked(l, a) PROVE IsLine(a) /\ a.left = l.left /\ a.middle = l.middle /\ a.right = l.right /\ a.active = TRUE
BY DEF IsLine, IsMarked
LEMMA Fails == ASSUME NEW l, IsLine(l), NEW e, IsFailed(l, e) PROVE IsLine(e) /\ e.left = l.left /\ e.middle = ":error" /\ e.right = l.right /\ e.active = l.active
BY DEF IsLine, IsFailed
LEMMA SplitLine ==
  ASSUME NEW s, IsText(s), Len(s) > 0, NEW l, IsSplit(l, s), NEW a, NEW e, IsMarked(l, a), IsFailed(l, e)
  PROVE  /\ ~l.active /\ (~Looks(l) => IsOf(l, s))
         /\ Looks(l) => IsOf(a, s) /\ a.active /\ IsOf(e, s) /\ ~e.active
<1>1. PICK i \in 0..Len(s) :
        /\ l = [left |-> SubSeq(s, 1, i), middle |-> "", right |-> SubSeq(s, i + 1, Len(s)), active |-> FALSE]
        /\ IsWord(s, i)
  BY SplitIs DEF IsSplit
<1>2. Len(s) \in Nat /\ 0 \in 0..i /\ i \in 0..Len(s) /\ Len(s) \in 0..Len(s)
  BY DEF IsText
<1>3. IsText(SubSeq(s, 1, i)) /\ Len(SubSeq(s, 1, i)) = i /\ \A k \in 1..i : SubSeq(s, 1, i)[k] = s[k]
  BY <1>2, PrefixText
<1>4. IsLine(l) /\ l.left = SubSeq(s, 1, i) /\ l.middle = "" /\ l.right = SubSeq(s, i + 1, Len(s)) /\ l.active = FALSE
  <2> DEFINE f == SubSeq(s, 1, i)
             r == SubSeq(s, i + 1, Len(s))
  <2>1. l = [left |-> f, middle |-> "", right |-> r, active |-> FALSE]
    BY <1>1
  <2> HIDE DEF f, r
  <2>2. IsLine(l) /\ l.left = f /\ l.middle = "" /\ l.right = r /\ l.active = FALSE
    BY <2>1 DEF IsLine
  <2> QED
    BY <2>2 DEF f, r
<1>5. Done(l) = s
  <2>1. Done(l) = (SubSeq(s, 1, i) \o << >>) \o SubSeq(s, i + 1, Len(s))
    <3>1. Done(l) = (l.left \o << >>) \o l.right
      BY <1>4, DoneBare
    <3> QED
      BY <1>4, <3>1, Zenon
  <2>2. SubSeq(s, 1, i) \o << >> = SubSeq(s, 1, i)
    BY <1>3, NothingMore
  <2>3. SubSeq(s, 1, i) \o SubSeq(s, i + 1, Len(s)) = s
    BY <1>2, SplitText
  <2> QED
    BY <2>1, <2>2, <2>3
<1>6. i # 0 => l.left # << >> /\ Head(l.left) = s[1]
  <2> SUFFICES ASSUME i # 0 PROVE l.left # << >> /\ Head(l.left) = s[1]
    OBVIOUS
  <2> DEFINE f == SubSeq(s, 1, i)
  <2>1. 1 \in 1..i /\ i > 0
    BY <1>2
  <2>2. IsText(f) /\ Len(f) > 0 /\ f[1] = s[1] /\ l.left = f
    BY <1>3, <1>4, <2>1
  <2> HIDE DEF f
  <2>3. f \in Seq(ToSet(f))
    BY <2>2, TextIs
  <2>4. f # << >> /\ Head(f) = f[1]
    BY <2>2, <2>3
  <2> QED
    BY <2>2, <2>4, Zenon
<1>7. ASSUME ~Looks(l) PROVE IsOf(l, s)
  <2>1. s[1] \notin Address
    <3>1. CASE i = 0
      <4>1. i < Len(s) /\ i + 1 = 1
        BY <1>2, <3>1
      <4>2. s[i + 1] \in {"nl", "sp"}
        BY <1>1, <4>1, Zenon DEF IsWord
      <4> QED
        BY <4>1, <4>2, LookupAssumption
    <3>2. CASE i # 0
      BY <1>6, <1>7, <3>2, Zenon DEF Looks
    <3> QED
      BY <3>1, <3>2
  <2>2. s \in Filtered(s)
    BY <2>1, Itself
  <2> QED
    BY <1>4, <1>5, <2>2 DEF IsOf
<1>8. ASSUME Looks(l) PROVE IsOf(a, s) /\ a.active /\ IsOf(e, s) /\ ~e.active
  <2>1. i # 0
    <3>1. IsText(<< >>) /\ Len(<< >>) = 0
      BY DEF IsText
    <3>2. i = 0 => SubSeq(s, 1, i) = << >>
      <4> SUFFICES ASSUME i = 0 PROVE SubSeq(s, 1, i) = << >>
        OBVIOUS
      <4> DEFINE t == SubSeq(s, 1, i)
      <4>1. IsText(t) /\ Len(t) = 0
        BY <1>3
      <4> HIDE DEF t
      <4>2. t = << >>
        BY <3>1, <4>1, SameText
      <4> QED
        BY <4>2 DEF t
    <3> QED
      BY <1>4, <1>8, <3>2 DEF Looks
  <2>2. i \in 1..Len(s) /\ 1 \in 1..i
    BY <1>2, <2>1
  <2>3. s[1] \in Address
    BY <1>6, <1>8, <2>1, Zenon DEF Looks
  <2>4. /\ IsLine(a) /\ a.left = l.left /\ a.middle = l.middle /\ a.right = l.right /\ a.active = TRUE
        /\ IsLine(e) /\ e.left = l.left /\ e.middle = ":error" /\ e.right = l.right /\ e.active = FALSE
    <3>1. IsMarked(l, a) /\ IsFailed(l, e) /\ IsLine(l)
      BY <1>4
    <3>2. IsLine(a) /\ a.left = l.left /\ a.middle = l.middle /\ a.right = l.right /\ a.active = TRUE
      BY <3>1, Marks
    <3>3. IsLine(e) /\ e.left = l.left /\ e.middle = ":error" /\ e.right = l.right /\ e.active = l.active
      BY <3>1, Fails
    <3> QED
      BY <1>4, <3>2, <3>3, Zenon
  <2>5. Looked(a, s)
    <3>1. IsWord(s, i) /\ a.left = SubSeq(s, 1, i) /\ a.right = SubSeq(s, i + 1, Len(s)) /\ a.middle = ""
      BY <1>1, <1>4, <2>4, Zenon
    <3> QED
      BY <2>2, <2>3, <3>1 DEF Looked
  <2>6. Done(e) = (a.left \o <<":error">>) \o a.right
    <3>1. Done(e) = (e.left \o <<":error">>) \o e.right
      BY <2>4, DoneFailed
    <3> QED
      BY <2>4, <3>1, Zenon
  <2>7. Done(e) \in Filtered(s)
    <3>1. <<":error">> \in Notes(s[1])
      BY Zenon DEF Notes
    <3>2. \A note \in Notes(s[1]) : (a.left \o note) \o a.right \in Filtered(s)
      BY <2>5, NamedLine
    <3> QED
      BY <2>6, <3>1, <3>2, Zenon
  <2> QED
    BY <2>4, <2>5, <2>7 DEF IsOf
<1> QED
  BY <1>4, <1>7, <1>8

----------------------------------------------------------------------------
(* The lines of the input *)

LEMMA EndsAre == ASSUME NEW s, IsText(s) PROVE Ends(s) \subseteq 1..Len(s) /\ IsFiniteSet(Ends(s)) /\ Cardinality(Ends(s)) \in Nat
<1>1. Len(s) \in Nat /\ Ends(s) \in SUBSET (1..Len(s))
  BY DEF IsText, Ends
<1>2. IsFiniteSet(1..Len(s))
  BY <1>1, FS_Interval
<1>3. IsFiniteSet(Ends(s))
  BY <1>1, <1>2, FS_Subset
<1> QED
  BY <1>1, <1>3, FS_CardinalityType

\* The number of an end is how many there are before it.
Before(E, i) == {j \in E : j < i}
EndAt(E, n) == CHOOSE i \in E : Cardinality(Before(E, i)) = n
LEMMA EndIs ==
  ASSUME NEW E, E \subseteq Nat, IsFiniteSet(E), NEW e \in E
  PROVE  EndAt(E, Cardinality(Before(E, e))) = e
<1>1. ASSUME NEW i \in E, NEW k \in E, i < k PROVE Cardinality(Before(E, i)) # Cardinality(Before(E, k))
  <2>0. i \in Nat /\ k \in Nat /\ \A j \in E : j \in Nat
    OBVIOUS
  <2>1. Before(E, k) \in SUBSET E /\ Before(E, i) \in SUBSET Before(E, k) /\ i \in Before(E, k) /\ i \notin Before(E, i)
    <3>1. \A j \in Before(E, i) : j \in Before(E, k)
      BY <1>1, <2>0 DEF Before
    <3>2. Before(E, k) \subseteq E /\ i \in Before(E, k) /\ i \notin Before(E, i)
      BY <1>1, <2>0 DEF Before
    <3> QED
      BY <3>1, <3>2
  <2>2. IsFiniteSet(Before(E, k))
    BY <2>1, FS_Subset
  <2> QED
    BY <2>1, <2>2, FS_Subset
<1>2. \A i \in E : Cardinality(Before(E, i)) = Cardinality(Before(E, e)) => i = e
  <2> SUFFICES ASSUME NEW i \in E, Cardinality(Before(E, i)) = Cardinality(Before(E, e)) PROVE i = e
    OBVIOUS
  <2>1. ~(i < e) /\ ~(e < i)
    BY <1>1
  <2> QED
    BY <2>1
<1> QED
  BY <1>2 DEF EndAt

LEMMA LinesAre ==
  ASSUME NEW s, IsText(s)
  PROVE  /\ LinesOf(s) = [k \in 1..Cardinality(Ends(s)) |->
                             SubSeq(s, 1 + (IF k = 1 THEN 0 ELSE EndAt(Ends(s), k - 2)), EndAt(Ends(s), k - 1))]
         /\ Len(LinesOf(s)) = Cardinality(Ends(s))
<1> DEFINE E == Ends(s)
           g == LinesOf(s)
           G(k) == SubSeq(s, 1 + (IF k = 1 THEN 0 ELSE EndAt(E, k - 2)), EndAt(E, k - 1))
<1>1. g = [k \in 1..Cardinality(E) |-> G(k)]
  BY Zenon DEF LinesOf, EndAt, Before
<1>2. Len(g) = Cardinality(E)
  <2>1. Cardinality(E) \in Nat
    BY EndsAre
  <2> HIDE DEF g, G, E
  <2>2. g = [k \in 1..Cardinality(E) |-> g[k]]
    BY <1>1
  <2> QED
    BY <2>1, <2>2, FunText
<1> QED
  BY <1>1, <1>2

\* A line goes from behind one end, or the beginning, to the next end.
Taken(s, a) == Cardinality({j \in Ends(s) : j <= a})
IsNextEnd(s, a, e) ==
  /\ a \in Nat /\ (a = 0 \/ a \in Ends(s))
  /\ e \in Ends(s) /\ a < e /\ \A j \in Ends(s) : j < e => j <= a
LEMMA LineIs ==
  ASSUME NEW s, IsText(s), NEW a, NEW e, IsNextEnd(s, a, e), NEW n, n = Taken(s, a)
  PROVE  /\ n \in Nat /\ n + 1 <= Len(LinesOf(s)) /\ Taken(s, e) = n + 1
         /\ LinesOf(s)[n + 1] = Piece(s, a, e)
<1> USE DEF IsNextEnd, Taken
<1> DEFINE E == Ends(s)
<1>1. E \subseteq 1..Len(s) /\ IsFiniteSet(E) /\ Cardinality(E) \in Nat /\ E \subseteq Nat
  BY EndsAre
<1>2. e \in E /\ (a = 0 \/ a \in E)
  OBVIOUS
<1>3. {j \in E : j <= a} = Before(E, e)
  BY <1>1, <1>2 DEF Before
<1>4. {j \in E : j <= e} = Before(E, e) \cup {e}
  BY <1>1, <1>2 DEF Before
<1>5. IsFiniteSet(Before(E, e)) /\ Cardinality(Before(E, e)) \in Nat
  <2>1. Before(E, e) \in SUBSET E
    BY DEF Before
  <2> HIDE DEF E
  <2> QED
    BY <1>1, <2>1, FS_Subset, FS_CardinalityType
<1>6. n = Cardinality(Before(E, e)) /\ n \in Nat
  BY <1>3, <1>5
<1>7. Cardinality({j \in E : j <= e}) = n + 1
  <2>1. e \notin Before(E, e)
    BY <1>1, <1>2 DEF Before
  <2> HIDE DEF E
  <2>2. Cardinality(Before(E, e) \cup {e}) = n + 1
    BY <1>5, <1>6, <2>1, FS_AddElement
  <2> QED
    BY <1>4, <2>2
<1>8. n + 1 <= Cardinality(E)
  <2>1. {j \in E : j <= e} \in SUBSET E
    OBVIOUS
  <2> HIDE DEF E
  <2> QED
    BY <1>1, <1>7, <2>1, FS_Subset
<1>9. EndAt(E, n) = e
  <2> HIDE DEF E
  <2> QED
    BY <1>1, <1>2, <1>6, EndIs
<1>10. n = 0 => a = 0
  <2>1. n = 0 => {j \in E : j <= a} = {}
    <3> HIDE DEF E
    <3> QED
      BY <1>3, <1>5, <1>6, FS_EmptySet
  <2>2. a \in E => a \in {j \in E : j <= a}
    BY <1>1
  <2> QED
    BY <1>2, <2>1, <2>2
<1>11. n # 0 => a \in E /\ EndAt(E, n - 1) = a
  <2> SUFFICES ASSUME n # 0 PROVE a \in E /\ EndAt(E, n - 1) = a
    OBVIOUS
  <2>1. a \in E
    <3>1. CASE a = 0
      <4>1. {j \in E : j <= a} = {}
        BY <1>1, <3>1
      <4> HIDE DEF E
      <4> QED
        BY <1>3, <1>6, <4>1, FS_EmptySet
    <3> QED
      BY <1>2, <3>1
  <2>2. Before(E, e) = Before(E, a) \cup {a} /\ a \notin Before(E, a) /\ Before(E, a) \in SUBSET E
    BY <1>1, <1>3, <2>1 DEF Before
  <2> HIDE DEF E
  <2>3. IsFiniteSet(Before(E, a)) /\ Cardinality(Before(E, a)) \in Nat
    BY <1>1, <2>2, FS_Subset, FS_CardinalityType
  <2>4. Cardinality(Before(E, e)) = Cardinality(Before(E, a)) + 1
    BY <2>2, <2>3, FS_AddElement
  <2>5. n - 1 = Cardinality(Before(E, a))
    BY <1>6, <2>3, <2>4
  <2>6. EndAt(E, Cardinality(Before(E, a))) = a
    BY <1>1, <2>1, EndIs
  <2> QED
    BY <2>1, <2>5, <2>6
<1> DEFINE G(k) == SubSeq(s, 1 + (IF k = 1 THEN 0 ELSE EndAt(E, k - 2)), EndAt(E, k - 1))
<1>12. LinesOf(s) = [k \in 1..Cardinality(E) |-> G(k)]
  BY LinesAre
<1> HIDE DEF E
<1>13. Len(LinesOf(s)) = Cardinality(E)
  BY LinesAre DEF E
<1>14. LinesOf(s)[n + 1] = SubSeq(s, 1 + (IF n = 0 THEN 0 ELSE EndAt(E, n - 1)), EndAt(E, n))
  <2>1. n + 1 \in 1..Cardinality(E) /\ (n + 1) - 1 = n /\ (n + 1) - 2 = n - 1 /\ (n + 1 = 1 <=> n = 0)
    BY <1>1, <1>6, <1>8
  <2>2. LinesOf(s)[n + 1] = G(n + 1)
    <3> HIDE DEF G
    <3> QED
      BY <1>12, <2>1
  <2>3. LinesOf(s)[n + 1] = SubSeq(s, 1 + (IF n + 1 = 1 THEN 0 ELSE EndAt(E, (n + 1) - 2)), EndAt(E, (n + 1) - 1))
    BY <2>2, Zenon
  <2>4. (IF n + 1 = 1 THEN 0 ELSE EndAt(E, (n + 1) - 2)) = IF n = 0 THEN 0 ELSE EndAt(E, n - 1)
    BY <2>1
  <2> QED
    BY <2>1, <2>3, <2>4, Zenon
<1>15. 1 + (IF n = 0 THEN 0 ELSE EndAt(E, n - 1)) = a + 1
  BY <1>10, <1>11
<1>16. LinesOf(s)[n + 1] = Piece(s, a, e)
  BY <1>9, <1>14, <1>15 DEF Piece
<1> QED
  BY <1>6, <1>7, <1>8, <1>13, <1>16 DEF E

LEMMA AllLines ==
  ASSUME NEW s, IsText(s)
  PROVE  /\ Len(LinesOf(s)) = Cardinality(Ends(s)) /\ Len(LinesOf(s)) \in Nat
         /\ Taken(s, Len(s)) = Len(LinesOf(s))
         /\ \A a : Taken(s, a) <= Len(LinesOf(s))
<1> USE DEF Taken
<1> DEFINE E == Ends(s)
<1>1. E \subseteq 1..Len(s) /\ IsFiniteSet(E) /\ Cardinality(E) \in Nat
  BY EndsAre
<1>3. Len(LinesOf(s)) = Cardinality(E)
  BY LinesAre
<1>4. {j \in E : j <= Len(s)} = E
  BY <1>1
<1>5. ASSUME NEW a PROVE Cardinality({j \in E : j <= a}) <= Cardinality(E)
  <2>1. {j \in E : j <= a} \in SUBSET E
    OBVIOUS
  <2> HIDE DEF E
  <2> QED
    BY <1>1, <2>1, FS_Subset
<1> QED
  BY <1>1, <1>3, <1>4, <1>5

----------------------------------------------------------------------------
(* The places in the input: what has been taken as lines ends at a, what is *)
(* gathered of the next line at b, what has been read at r.                 *)

Cut(T, inp, ib, pa, n, a, b, r) ==
  /\ r \in 0..Len(T) /\ b \in 0..r /\ a \in 0..b
  /\ pa = Piece(T, a, b) /\ ib = Piece(T, b, r) /\ inp = Piece(T, r, Len(T))
  /\ a = 0 \/ a \in Ends(T)
  /\ \A j \in (a + 1)..b : T[j] # "nl"
  /\ n = Taken(T, a)
Placed(T, inp, ib, pa, n) == \E a, b, r : Cut(T, inp, ib, pa, n, a, b, r)

LEMMA CutTexts ==
  ASSUME NEW T, IsText(T), NEW inp, NEW ib, NEW pa, NEW n, NEW a, NEW b, NEW r, Cut(T, inp, ib, pa, n, a, b, r)
  PROVE  /\ Len(T) \in Nat /\ r \in Nat /\ b \in Nat /\ a \in Nat /\ n \in Nat
         /\ IsText(inp) /\ Len(inp) = Len(T) - r
         /\ IsText(ib) /\ Len(ib) = r - b /\ \A k \in 1..(r - b) : ib[k] = T[b + k]
         /\ IsText(pa) /\ Len(pa) = b - a
<1>1. /\ r \in 0..Len(T) /\ b \in 0..r /\ a \in 0..b /\ Len(T) \in 0..Len(T) /\ Len(T) \in Nat
      /\ pa = Piece(T, a, b) /\ ib = Piece(T, b, r) /\ inp = Piece(T, r, Len(T))
  BY DEF Cut, IsText
<1>2. b \in 0..Len(T)
  BY <1>1
<1>3. n \in Nat
  <2> DEFINE E == {j \in Ends(T) : j <= a}
  <2>1. IsFiniteSet(Ends(T)) /\ E \in SUBSET Ends(T) /\ n = Cardinality(E)
    BY EndsAre DEF Cut, Taken
  <2> HIDE DEF E
  <2> QED
    BY <2>1, FS_Subset, FS_CardinalityType
<1>4. IsText(pa) /\ Len(pa) = b - a
  BY <1>1, <1>2, PieceIs
<1>5. IsText(ib) /\ Len(ib) = r - b /\ \A k \in 1..(r - b) : ib[k] = T[b + k]
  BY <1>1, PieceIs
<1>6. IsText(inp) /\ Len(inp) = Len(T) - r
  BY <1>1, PieceIs
<1> QED
  BY <1>1, <1>3, <1>4, <1>5, <1>6

\* read moves r.
LEMMA ReadMore ==
  ASSUME NEW T, IsText(T), NEW inp, NEW ib, NEW pa, NEW n, Placed(T, inp, ib, pa, n), NEW m \in 1..Len(inp)
  PROVE  Placed(T, SubSeq(inp, m + 1, Len(inp)), ib \o SubSeq(inp, 1, m), pa, n)
<1>1. PICK a, b, r : Cut(T, inp, ib, pa, n, a, b, r)
  BY DEF Placed
<1>2. Len(T) \in Nat /\ r \in Nat /\ b \in Nat /\ a \in Nat /\ Len(inp) = Len(T) - r
  BY <1>1, CutTexts
<1>3. /\ r \in 0..Len(T) /\ b \in 0..r /\ a \in 0..b
      /\ pa = Piece(T, a, b) /\ ib = Piece(T, b, r) /\ inp = Piece(T, r, Len(T))
  BY <1>1 DEF Cut
<1> DEFINE q == r + m
<1>4. q \in 0..Len(T) /\ b \in 0..q /\ r \in 0..q /\ q - r = m /\ Len(T) \in 0..Len(T)
  BY <1>2, <1>3
<1> HIDE DEF q
<1>5. SubSeq(inp, 1, m) = Piece(T, r, q) /\ SubSeq(inp, m + 1, Len(inp)) = Piece(T, q, Len(T))
  BY <1>3, <1>4, PieceCut
<1>6. ib \o SubSeq(inp, 1, m) = Piece(T, b, q)
  BY <1>3, <1>4, <1>5, PieceJoin
<1>7. Cut(T, SubSeq(inp, m + 1, Len(inp)), ib \o SubSeq(inp, 1, m), pa, n, a, b, q)
  BY <1>1, <1>3, <1>4, <1>5, <1>6 DEF Cut
<1> QED
  BY <1>7 DEF Placed

\* Gathering moves b to r.
LEMMA GatherMore ==
  ASSUME NEW T, IsText(T), NEW inp, NEW ib, NEW pa, NEW n, Placed(T, inp, ib, pa, n), \A k \in 1..Len(ib) : ib[k] # "nl"
  PROVE  Placed(T, inp, << >>, pa \o ib, n)
<1>1. PICK a, b, r : Cut(T, inp, ib, pa, n, a, b, r)
  BY DEF Placed
<1>2. /\ Len(T) \in Nat /\ r \in Nat /\ b \in Nat /\ a \in Nat
      /\ Len(ib) = r - b /\ \A k \in 1..(r - b) : ib[k] = T[b + k]
  BY <1>1, CutTexts
<1>3. /\ r \in 0..Len(T) /\ b \in 0..r /\ a \in 0..b
      /\ pa = Piece(T, a, b) /\ ib = Piece(T, b, r) /\ inp = Piece(T, r, Len(T))
      /\ \A j \in (a + 1)..b : T[j] # "nl"
  BY <1>1 DEF Cut
<1>4. pa \o ib = Piece(T, a, r)
  BY <1>3, PieceJoin
<1>5. Piece(T, r, r) = << >>
  <2>1. r \in 0..r
    BY <1>2
  <2>2. IsText(Piece(T, r, r)) /\ Len(Piece(T, r, r)) = 0
    BY <1>2, <1>3, <2>1, PieceIs
  <2> QED
    BY <2>2, WholeText
<1>6. \A j \in (a + 1)..r : T[j] # "nl"
  <2> SUFFICES ASSUME NEW j \in (a + 1)..r PROVE T[j] # "nl"
    OBVIOUS
  <2>1. CASE j <= b
    BY <1>2, <1>3, <2>1
  <2>2. CASE j > b
    <3>1. j - b \in 1..(r - b) /\ b + (j - b) = j /\ j - b \in 1..Len(ib)
      BY <1>2, <2>2
    <3>2. ib[j - b] # "nl" /\ ib[j - b] = T[b + (j - b)]
      BY <1>2, <3>1
    <3> QED
      BY <3>1, <3>2
  <2> QED
    BY <1>2, <2>1, <2>2
<1>7. r \in 0..r /\ a \in 0..r
  BY <1>2, <1>3
<1>8. Cut(T, inp, << >>, pa \o ib, n, a, r, r)
  BY <1>1, <1>3, <1>4, <1>5, <1>6, <1>7 DEF Cut
<1> QED
  BY <1>8 DEF Placed

\* Taking a line: m letters of inbuf, up to a newline, or the last line.
IsNext(T, inp, ib, pa, m) ==
  \/ m \in 1..Len(ib) /\ ib[m] = "nl" /\ \A j \in 1..(m - 1) : ib[j] # "nl"
  \/ m = 0 /\ ib = << >> /\ inp = << >> /\ pa # << >>
IsTaken(s, pa, ib, m) == s = pa \o SubSeq(ib, 1, m)
LEMMA TakeMore ==
  ASSUME NEW T, IsText(T), NEW inp, NEW ib, NEW pa, NEW n, Placed(T, inp, ib, pa, n), NEW m, IsNext(T, inp, ib, pa, m),
         NEW s, IsTaken(s, pa, ib, m)
  PROVE  /\ IsText(s) /\ Len(s) > 0 /\ n \in Nat /\ n + 1 <= Len(LinesOf(T)) /\ LinesOf(T)[n + 1] = s
         /\ Placed(T, inp, SubSeq(ib, m + 1, Len(ib)), << >>, n + 1)
<1>1. PICK a, b, r : Cut(T, inp, ib, pa, n, a, b, r)
  BY DEF Placed
<1>2. /\ Len(T) \in Nat /\ r \in Nat /\ b \in Nat /\ a \in Nat /\ n \in Nat /\ Len(inp) = Len(T) - r
      /\ Len(ib) = r - b /\ \A k \in 1..(r - b) : ib[k] = T[b + k]
      /\ IsText(pa) /\ Len(pa) = b - a
  BY <1>1, CutTexts
<1>3. /\ r \in 0..Len(T) /\ b \in 0..r /\ a \in 0..b
      /\ pa = Piece(T, a, b) /\ ib = Piece(T, b, r) /\ inp = Piece(T, r, Len(T))
      /\ \A j \in (a + 1)..b : T[j] # "nl"
      /\ a = 0 \/ a \in Ends(T)
      /\ n = Taken(T, a)
  BY <1>1 DEF Cut
<1> DEFINE e == b + m
<1>4. m \in 0..(r - b) /\ e \in Ends(T) /\ a < e
  <2>1. CASE m \in 1..Len(ib) /\ ib[m] = "nl"
    <3>1. m \in 1..(r - b) /\ T[b + m] = "nl" /\ b + m \in 1..Len(T) /\ a < b + m
      BY <1>2, <1>3, <2>1
    <3> QED
      BY <1>2, <3>1 DEF Ends
  <2>2. CASE m = 0 /\ ib = << >> /\ inp = << >> /\ pa # << >>
    <3>1. Len(<< >>) = 0
      OBVIOUS
    <3>2. r = b /\ r = Len(T)
      BY <1>2, <2>2, <3>1
    <3>3. Len(pa) # 0
      BY <1>2, <2>2, WholeText
    <3>4. a < b /\ b + m = Len(T) /\ m \in 0..(r - b) /\ Len(T) \in 1..Len(T)
      BY <1>2, <1>3, <2>2, <3>2, <3>3
    <3>5. b + m \in Ends(T)
      BY <3>4 DEF Ends
    <3> QED
      BY <1>2, <2>2, <3>4, <3>5
  <2> QED
    BY <2>1, <2>2 DEF IsNext
<1>5. \A j \in Ends(T) : j < e => j <= a
  <2> SUFFICES ASSUME NEW j \in Ends(T), j < e, ~(j <= a) PROVE FALSE
    OBVIOUS
  <2>1. j \in 1..Len(T) /\ (T[j] = "nl" \/ j = Len(T)) /\ e \in 1..Len(T)
    BY <1>4 DEF Ends
  <2>2. T[j] = "nl" /\ j \in Nat /\ e \in Nat
    BY <1>2, <2>1
  <2>3. j > b
    <3>1. j \in (a + 1)..b => T[j] # "nl"
      BY <1>3
    <3> QED
      BY <1>2, <2>2, <3>1
  <2>4. j - b \in 1..(m - 1) /\ j - b \in 1..(r - b) /\ b + (j - b) = j
    BY <1>2, <1>4, <2>2, <2>3
  <2>5. ib[j - b] = "nl"
    <3>1. ib[j - b] = T[b + (j - b)]
      BY <1>2, <2>4
    <3> QED
      BY <2>2, <2>4, <3>1
  <2>6. m # 0
    BY <1>4, <2>4
  <2> QED
    BY <2>4, <2>5, <2>6 DEF IsNext
<1>6. e \in 0..r /\ b \in 0..e /\ a \in 0..e /\ e - b = m /\ e \in 0..Len(T)
  BY <1>2, <1>3, <1>4
<1> HIDE DEF e
<1>7. SubSeq(ib, 1, m) = Piece(T, b, e) /\ SubSeq(ib, m + 1, Len(ib)) = Piece(T, e, r)
  BY <1>3, <1>6, PieceCut
<1>8. s = Piece(T, a, e)
  BY <1>3, <1>6, <1>7, PieceJoin DEF IsTaken
<1>9. IsText(s) /\ Len(s) > 0
  <2>1. IsText(Piece(T, a, e)) /\ Len(Piece(T, a, e)) = e - a
    BY <1>6, PieceIs
  <2> QED
    <3>1. e - a > 0
      BY <1>2, <1>4, <1>6
    <3> QED
      BY <1>8, <2>1, <3>1
<1>10. /\ n + 1 <= Len(LinesOf(T)) /\ Taken(T, e) = n + 1
       /\ LinesOf(T)[n + 1] = Piece(T, a, e)
  <2>1. IsNextEnd(T, a, e)
    BY <1>2, <1>3, <1>4, <1>5 DEF IsNextEnd
  <2> QED
    BY <1>3, <2>1, LineIs
<1>11. Piece(T, e, e) = << >>
  <2>1. e \in 0..e
    BY <1>2, <1>6
  <2>2. IsText(Piece(T, e, e)) /\ Len(Piece(T, e, e)) = 0
    BY <1>6, <2>1, PieceIs
  <2> QED
    BY <2>2, WholeText
<1>12. e \in 0..e /\ \A j \in (e + 1)..e : T[j] # "nl"
  BY <1>2, <1>6
<1>13. Cut(T, inp, SubSeq(ib, m + 1, Len(ib)), << >>, n + 1, e, e, r)
  BY <1>3, <1>4, <1>6, <1>7, <1>10, <1>11, <1>12 DEF Cut
<1> QED
  BY <1>2, <1>8, <1>9, <1>10, <1>13 DEF Placed

LEMMA PlacedLines ==
  ASSUME NEW T, IsText(T), NEW inp, NEW ib, NEW pa, NEW n, Placed(T, inp, ib, pa, n)
  PROVE  /\ n <= Len(LinesOf(T))
         /\ inp = << >> /\ ib = << >> /\ pa = << >> => n = Len(LinesOf(T))
<1>1. PICK a, b, r : Cut(T, inp, ib, pa, n, a, b, r)
  BY DEF Placed
<1>2. /\ Len(T) \in Nat /\ r \in Nat /\ b \in Nat /\ a \in Nat /\ n \in Nat
      /\ Len(inp) = Len(T) - r /\ Len(ib) = r - b /\ Len(pa) = b - a
  BY <1>1, CutTexts
<1>3. n = Taken(T, a)
  BY <1>1 DEF Cut
<1>4. n <= Len(LinesOf(T))
  BY <1>3, AllLines
<1>5. ASSUME inp = << >>, ib = << >>, pa = << >> PROVE n = Len(LinesOf(T))
  <2>1. Len(<< >>) = 0
    OBVIOUS
  <2>2. a = Len(T)
    BY <1>2, <1>5, <2>1
  <2> QED
    BY <1>3, <2>2, AllLines
<1> QED
  BY <1>4, <1>5

----------------------------------------------------------------------------
(* The window *)

\* Lines printed and lines in the window are the next lines of the input.
Listed(out, xs, L) ==
  /\ IsText(out) /\ IsText(xs)
  /\ \A k \in 1..Len(out) : out[k] \in Filtered(L[k])
  /\ \A i \in 1..Len(xs) : IsOf(xs[i], L[Len(out) + i])
Active(xs) == {i \in DOMAIN xs : xs[i].active}
Counted(xs, n) == n = Cardinality(Active(xs)) /\ n \in Nat /\ n <= maxactive

\* The strengthening of LinesInOrder: lines printed and lines in the window are
\* as many as there are before the place a where the start of a line, partial,
\* begins; inbuf and input go on from there.
FilterInv ==
  /\ whole \in Inputs /\ flag0 \in BOOLEAN /\ (flag0 \/ input = << >>)
  /\ at # "fatal" => Placed(whole, input, inbuf, partial, Len(output) + Len(x))
  /\ Len(output) + Len(x) <= Len(LinesOf(whole))
  /\ Listed(output, x, LinesOf(whole)) /\ Counted(x, numactive)
  /\ at = "exit" => Len(output) = Len(LinesOf(whole))

LEMMA ActiveAre == ASSUME NEW xs, IsText(xs) PROVE Active(xs) \subseteq 1..Len(xs) /\ IsFiniteSet(Active(xs)) /\ Cardinality(Active(xs)) \in Nat
<1>1. Len(xs) \in Nat /\ Active(xs) \in SUBSET (1..Len(xs))
  BY DEF IsText, Active
<1>2. IsFiniteSet(1..Len(xs))
  BY <1>1, FS_Interval
<1>3. IsFiniteSet(Active(xs))
  BY <1>1, <1>2, FS_Subset
<1> QED
  BY <1>1, <1>3, FS_CardinalityType

LEMMA RemovedFirst ==
  ASSUME NEW s, IsText(s), Len(s) > 0
  PROVE  IsText(RemoveAt(s, 1)) /\ Len(RemoveAt(s, 1)) = Len(s) - 1 /\ \A k \in 1..(Len(s) - 1) : RemoveAt(s, 1)[k] = s[k + 1]
<1>1. Len(s) \in Nat /\ 1 \in 0..Len(s) /\ Len(s) \in 0..Len(s) /\ 0 \in 0..Len(s)
  BY DEF IsText
<1>2. /\ IsText(Piece(s, 1, Len(s))) /\ Len(Piece(s, 1, Len(s))) = Len(s) - 1
      /\ \A k \in 1..(Len(s) - 1) : Piece(s, 1, Len(s))[k] = s[1 + k]
  BY <1>1, PieceIs
<1>3. RemoveAt(s, 1) = SubSeq(s, 1, 0) \o Piece(s, 1, Len(s))
  BY DEF RemoveAt, Piece
<1>4. IsText(SubSeq(s, 1, 0)) /\ Len(SubSeq(s, 1, 0)) = 0
  BY <1>1, PrefixText
<1> DEFINE p == SubSeq(s, 1, 0)
           q == Piece(s, 1, Len(s))
<1>5. /\ IsText(p \o q) /\ Len(p \o q) = Len(p) + Len(q)
      /\ \A k \in 1..Len(q) : (p \o q)[Len(p) + k] = q[k]
  BY <1>2, <1>4, JoinText
<1> HIDE DEF p, q
<1>6. Len(p) = 0 /\ Len(q) = Len(s) - 1 /\ \A k \in 1..(Len(s) - 1) : q[k] = s[k + 1]
  BY <1>1, <1>2, <1>4 DEF p, q
<1>7. \A k \in 1..(Len(s) - 1) : (p \o q)[k] = s[k + 1]
  BY <1>1, <1>5, <1>6
<1>8. RemoveAt(s, 1) = p \o q
  BY <1>3 DEF p, q
<1>9. Len(p \o q) = Len(s) - 1
  BY <1>1, <1>5, <1>6
<1> QED
  BY <1>5, <1>7, <1>8, <1>9

\* The first line is printed.
LEMMA PutKeeps ==
  ASSUME NEW out, NEW xs, NEW L, Listed(out, xs, L), NEW n, Counted(xs, n), Len(xs) > 0, ~xs[1].active
  PROVE  /\ Listed(Append(out, Done(xs[1])), RemoveAt(xs, 1), L) /\ Counted(RemoveAt(xs, 1), n)
         /\ Len(Append(out, Done(xs[1]))) + Len(RemoveAt(xs, 1)) = Len(out) + Len(xs)
<1> DEFINE o == Append(out, Done(xs[1]))
           y == RemoveAt(xs, 1)
<1>1. IsText(out) /\ IsText(xs) /\ Len(out) \in Nat /\ Len(xs) \in Nat /\ 1 \in 1..Len(xs)
  BY DEF Listed, IsText
<1>2. IsText(y) /\ Len(y) = Len(xs) - 1 /\ \A k \in 1..(Len(xs) - 1) : y[k] = xs[k + 1]
  BY <1>1, RemovedFirst
<1>3. IsText(o) /\ Len(o) = Len(out) + 1 /\ o[Len(out) + 1] = Done(xs[1]) /\ \A k \in 1..Len(out) : o[k] = out[k]
  <2>1. IsList(out)
    BY <1>1, TextIs DEF IsList
  <2>2. IsList(o) /\ Len(o) = Len(out) + 1 /\ o[Len(out) + 1] = Done(xs[1]) /\ \A k \in 1..Len(out) : o[k] = out[k]
    BY <2>1, Appended
  <2> HIDE DEF o
  <2> QED
    BY <2>2, TextIs DEF IsList
<1> HIDE DEF o, y
<1>4. Done(xs[1]) \in Filtered(L[Len(out) + 1])
  BY <1>1 DEF Listed, IsOf
<1>5. \A k \in 1..Len(o) : o[k] \in Filtered(L[k])
  <2> SUFFICES ASSUME NEW k \in 1..Len(o) PROVE o[k] \in Filtered(L[k])
    OBVIOUS
  <2>1. CASE k \in 1..Len(out)
    BY <1>3, <2>1 DEF Listed
  <2>2. CASE k = Len(out) + 1
    BY <1>3, <1>4, <2>2
  <2> QED
    BY <1>1, <1>3, <2>1, <2>2
<1>6. \A i \in 1..Len(y) : IsOf(y[i], L[Len(o) + i])
  <2> SUFFICES ASSUME NEW i \in 1..Len(y) PROVE IsOf(y[i], L[Len(o) + i])
    OBVIOUS
  <2>1. i + 1 \in 1..Len(xs) /\ y[i] = xs[i + 1] /\ Len(out) + (i + 1) = Len(o) + i
    BY <1>1, <1>2, <1>3
  <2>2. IsOf(xs[i + 1], L[Len(out) + (i + 1)])
    BY <2>1 DEF Listed
  <2> QED
    BY <2>1, <2>2
<1>7. Listed(o, y, L)
  BY <1>2, <1>3, <1>5, <1>6 DEF Listed
<1>8. Cardinality(Active(y)) = Cardinality(Active(xs))
  <2> DEFINE f == [i \in Active(y) |-> i + 1]
             A == Active(y)
             B == Active(xs)
  <2>1. DOMAIN xs = 1..Len(xs) /\ DOMAIN y = 1..Len(y)
    BY <1>1, <1>2 DEF IsText
  <2>2. \A i \in A : i \in Int /\ i + 1 \in B
    BY <1>1, <1>2, <2>1 DEF Active
  <2>3. \A j \in B : j \in Int /\ j - 1 \in A /\ j - 1 + 1 = j
    <3> SUFFICES ASSUME NEW j \in B PROVE j \in Int /\ j - 1 \in A /\ j - 1 + 1 = j
      OBVIOUS
    <3>1. j \in 1..Len(xs) /\ xs[j].active /\ j # 1
      BY <2>1 DEF Active
    <3>2. j - 1 \in 1..Len(y) /\ j - 1 + 1 = j /\ y[j - 1] = xs[j - 1 + 1]
      BY <1>1, <1>2, <3>1
    <3> QED
      BY <2>1, <3>1, <3>2 DEF Active
  <2>4. IsFiniteSet(A)
    BY <1>2, ActiveAre
  <2> HIDE DEF A, B
  <2> DEFINE g == [i \in A |-> i + 1]
  <2>5. g \in [A -> B] /\ (\A i, j \in A : g[i] = g[j] => i = j) /\ \A j \in B : \E i \in A : g[i] = j
    <3>1. g \in [A -> B]
      BY <2>2
    <3>2. \A i, j \in A : g[i] = g[j] => i = j
      BY <2>2
    <3>3. ASSUME NEW j \in B PROVE \E i \in A : g[i] = j
      <4>1. g[j - 1] = j /\ j - 1 \in A
        BY <2>3
      <4> QED
        BY <4>1
    <3> QED
      BY <3>1, <3>2, <3>3
  <2> HIDE DEF g
  <2>6. g \in Bijection(A, B)
    <3>1. DOMAIN g = A
      BY <2>5
    <3>2. IsInjective(g)
      BY <2>5, <3>1 DEF IsInjective
    <3> QED
      BY <2>5, <3>2 DEF Bijection, Injection, Surjection
  <2>7. ExistsBijection(A, B)
    BY <2>6 DEF ExistsBijection
  <2> QED
    BY <2>4, <2>7, FS_Bijection DEF A, B
<1>9. Counted(y, n) /\ Len(o) + Len(y) = Len(out) + Len(xs)
  BY <1>1, <1>2, <1>3, <1>8 DEF Counted
<1> QED
  BY <1>7, <1>9 DEF o, y

\* A line is added.
LEMMA AddKeeps ==
  ASSUME NEW out, NEW xs, NEW L, Listed(out, xs, L), NEW l, IsOf(l, L[Len(out) + Len(xs) + 1])
  PROVE  /\ Listed(out, Append(xs, l), L) /\ Len(out) + Len(Append(xs, l)) = Len(out) + Len(xs) + 1
         /\ \A n : Counted(xs, n) /\ ~l.active => Counted(Append(xs, l), n)
         /\ \A n : Counted(xs, n) /\ l.active /\ n < maxactive => Counted(Append(xs, l), n + 1)
<1> DEFINE y == Append(xs, l)
<1>1. IsText(out) /\ IsText(xs) /\ Len(out) \in Nat /\ Len(xs) \in Nat
  BY DEF Listed, IsText
<1>2. IsText(y) /\ Len(y) = Len(xs) + 1 /\ y[Len(xs) + 1] = l /\ \A k \in 1..Len(xs) : y[k] = xs[k]
  <2>1. IsList(xs)
    BY <1>1, TextIs DEF IsList
  <2>2. IsList(y) /\ Len(y) = Len(xs) + 1 /\ y[Len(xs) + 1] = l /\ \A k \in 1..Len(xs) : y[k] = xs[k]
    BY <2>1, Appended
  <2> HIDE DEF y
  <2> QED
    BY <2>2, TextIs DEF IsList
<1> HIDE DEF y
<1>3. \A i \in 1..Len(y) : IsOf(y[i], L[Len(out) + i])
  <2> SUFFICES ASSUME NEW i \in 1..Len(y) PROVE IsOf(y[i], L[Len(out) + i])
    OBVIOUS
  <2>1. CASE i \in 1..Len(xs)
    BY <1>2, <2>1 DEF Listed
  <2>2. CASE i = Len(xs) + 1
    <3>1. Len(out) + i = Len(out) + Len(xs) + 1
      BY <1>1, <2>2
    <3> QED
      BY <1>2, <2>2, <3>1
  <2> QED
    BY <1>1, <1>2, <2>1, <2>2
<1>4. Listed(out, y, L)
  BY <1>2, <1>3 DEF Listed
<1>5. DOMAIN xs = 1..Len(xs) /\ DOMAIN y = 1..Len(y)
  BY <1>1, <1>2 DEF IsText
<1>6. IsFiniteSet(Active(xs)) /\ Active(xs) \subseteq 1..Len(xs)
  BY <1>1, ActiveAre
<1>7. ~l.active => Active(y) = Active(xs)
  BY <1>1, <1>2, <1>5 DEF Active
<1>8. l.active => Active(y) = Active(xs) \cup {Len(xs) + 1} /\ Len(xs) + 1 \notin Active(xs)
  BY <1>1, <1>2, <1>5 DEF Active
<1>9. l.active => Cardinality(Active(y)) = Cardinality(Active(xs)) + 1
  BY <1>6, <1>8, FS_AddElement
<1>10. \A n : Counted(xs, n) /\ ~l.active => Counted(y, n)
  BY <1>7 DEF Counted
<1>11. \A n : Counted(xs, n) /\ l.active /\ n < maxactive => Counted(y, n + 1)
  BY <1>9, FilterAssumption DEF Counted
<1>12. Len(out) + Len(y) = Len(out) + Len(xs) + 1
  BY <1>1, <1>2
<1> QED
  BY <1>4, <1>10, <1>11, <1>12 DEF y

\* Look-ups end.
LEMMA GotKeeps ==
  ASSUME NEW out, NEW xs, NEW L, Listed(out, xs, L), NEW n, Counted(xs, n),
         NEW got \in [Active(xs) -> {"wait", "fail", "bad", "name"}],
         NEW y, y = [i \in DOMAIN xs |-> IF i \in DOMAIN got THEN Got(xs[i], got[i]) ELSE xs[i]]
  PROVE  Listed(out, y, L) /\ Len(y) = Len(xs) /\ Counted(y, n - Cardinality({i \in DOMAIN got : got[i] # "wait"}))
<1>1. IsText(xs) /\ Len(xs) \in Nat /\ DOMAIN xs = 1..Len(xs) /\ IsText(out)
  BY DEF Listed, IsText
<1>2. IsText(y) /\ Len(y) = Len(xs) /\ DOMAIN y = 1..Len(xs)
  <2>1. y = [i \in 1..Len(xs) |-> y[i]]
    BY <1>1
  <2> QED
    BY <1>1, <2>1, FunText
<1>3. DOMAIN got = Active(xs) /\ Active(xs) \subseteq 1..Len(xs) /\ IsFiniteSet(Active(xs)) /\ Cardinality(Active(xs)) \in Nat
  BY <1>1, ActiveAre
<1>4. ASSUME NEW i \in 1..Len(xs)
      PROVE  IsOf(y[i], L[Len(out) + i]) /\ (y[i].active <=> i \in Active(xs) /\ got[i] = "wait")
  <2>1. IsOf(xs[i], L[Len(out) + i])
    BY DEF Listed
  <2>2. CASE i \in Active(xs)
    <3>1. y[i] = Got(xs[i], got[i]) /\ got[i] \in {"wait", "fail", "bad", "name"} /\ xs[i].active
      BY <1>1, <1>3, <2>2 DEF Active
    <3>2. IsOf(Got(xs[i], got[i]), L[Len(out) + i]) /\ (Got(xs[i], got[i]).active <=> got[i] = "wait")
      BY <2>1, <3>1, GotIs
    <3> QED
      BY <2>2, <3>1, <3>2
  <2>3. CASE i \notin Active(xs)
    <3>1. y[i] = xs[i] /\ ~xs[i].active
      BY <1>1, <1>3, <2>3 DEF Active
    <3> QED
      BY <2>1, <2>3, <3>1
  <2> QED
    BY <2>2, <2>3
<1>5. Listed(out, y, L)
  BY <1>1, <1>2, <1>4 DEF Listed
<1> DEFINE D == {i \in DOMAIN got : got[i] # "wait"}
<1>6. D \in SUBSET Active(xs) /\ Active(y) = Active(xs) \ D
  <2>1. D \in SUBSET Active(xs)
    BY <1>3
  <2>2. \A i : i \in Active(y) <=> i \in Active(xs) \ D
    BY <1>2, <1>3, <1>4 DEF Active
  <2> QED
    BY <2>1, <2>2
<1> HIDE DEF D
<1>7. IsFiniteSet(D) /\ Cardinality(D) \in Nat /\ Cardinality(D) <= Cardinality(Active(xs))
  BY <1>3, <1>6, FS_Subset, FS_CardinalityType
<1>8. Cardinality(Active(y)) = Cardinality(Active(xs)) - Cardinality(D)
  <2>1. Active(xs) \cap D = D
    BY <1>6
  <2> QED
    BY <1>3, <1>6, <2>1, FS_Difference, ZenonT(60)
<1>9. Counted(y, n - Cardinality(D))
  BY <1>3, <1>7, <1>8, FilterAssumption DEF Counted
<1> QED
  BY <1>2, <1>5, <1>9 DEF D

----------------------------------------------------------------------------
(* dnsfilter: every step *)

LEMMA FilterStart == FilterInit => FilterInv
<1> SUFFICES ASSUME FilterInit PROVE FilterInv
  OBVIOUS
<1>1. /\ whole \in Inputs /\ input = whole /\ flag0 = TRUE /\ inbuf = << >> /\ partial = << >> /\ x = << >>
      /\ numactive = 0 /\ output = << >> /\ at = "pause"
  BY DEF FilterInit
<1>2. IsText(whole) /\ Len(whole) \in Nat
  BY <1>1, FilterAssumption DEF IsText
<1>3. Placed(whole, input, inbuf, partial, 0)
  <2>1. /\ IsText(Piece(whole, 0, 0)) /\ Len(Piece(whole, 0, 0)) = 0
        /\ IsText(Piece(whole, 0, Len(whole))) /\ Len(Piece(whole, 0, Len(whole))) = Len(whole)
        /\ \A k \in 1..Len(whole) : Piece(whole, 0, Len(whole))[k] = whole[k]
    <3>1. /\ 0 \in 0..Len(whole) /\ 0 \in 0..0 /\ Len(whole) \in 0..Len(whole) /\ 0 \in 0..Len(whole)
          /\ 0 - 0 = 0 /\ Len(whole) - 0 = Len(whole) /\ \A k \in Int : 0 + k = k
      BY <1>2
    <3>2. IsText(Piece(whole, 0, 0)) /\ Len(Piece(whole, 0, 0)) = 0 - 0
      BY <1>2, <3>1, PieceIs
    <3>3. /\ IsText(Piece(whole, 0, Len(whole))) /\ Len(Piece(whole, 0, Len(whole))) = Len(whole) - 0
          /\ \A k \in 1..(Len(whole) - 0) : Piece(whole, 0, Len(whole))[k] = whole[0 + k]
      BY <1>2, <3>1, PieceIs
    <3> QED
      BY <3>1, <3>2, <3>3
  <2>2. Piece(whole, 0, 0) = << >>
    <3>1. PICK t : t = << >>
      OBVIOUS
    <3>2. IsText(t) /\ Len(t) = 0
      BY <3>1 DEF IsText
    <3>3. Piece(whole, 0, 0) = t
      BY <2>1, <3>2, SameText
    <3> QED
      BY <3>1, <3>3
  <2>3. Piece(whole, 0, Len(whole)) = whole
    BY <1>2, <2>1, SameText
  <2>4. Taken(whole, 0) = 0
    <3>1. {j \in Ends(whole) : j <= 0} = {}
      BY <1>2 DEF Ends
    <3> QED
      BY <3>1, FS_EmptySet DEF Taken
  <2>5. Cut(whole, input, inbuf, partial, 0, 0, 0, 0)
    BY <1>1, <1>2, <2>2, <2>3, <2>4 DEF Cut
  <2> QED
    BY <2>5 DEF Placed
<1>4. Len(output) = 0 /\ Len(x) = 0 /\ IsText(output) /\ IsText(x) /\ Len(output) + Len(x) = 0
  BY <1>1 DEF IsText
<1>5. Listed(output, x, LinesOf(whole))
  BY <1>4 DEF Listed
<1>6. Counted(x, numactive)
  <2>1. Active(x) = {}
    BY <1>1 DEF Active
  <2> QED
    <3>1. Cardinality(Active(x)) = 0
      BY <2>1, FS_EmptySet
    <3> QED
      BY <1>1, <3>1, FilterAssumption DEF Counted
<1>7. Len(LinesOf(whole)) \in Nat
  BY <1>2, AllLines
<1> QED
  BY <1>1, <1>3, <1>4, <1>5, <1>6, <1>7 DEF FilterInv

\* What FilterInv says of the sizes.
LEMMA FilterSizes ==
  ASSUME FilterInv
  PROVE  /\ IsText(whole) /\ IsText(output) /\ IsText(x)
         /\ Len(output) \in Nat /\ Len(x) \in Nat /\ Len(LinesOf(whole)) \in Nat /\ numactive \in Nat
<1>1. IsText(whole)
  BY FilterAssumption DEF FilterInv, IsText
<1>2. IsText(output) /\ IsText(x) /\ Len(output) \in Nat /\ Len(x) \in Nat /\ numactive \in Nat
  BY DEF FilterInv, Listed, Counted, IsText
<1> QED
  BY <1>1, <1>2, AllLines

\* Input is read, or not.
LEMMA InputKeeps ==
  ASSUME FilterInv, at = "pause", (flag0 /\ Len(inbuf) < InbufSize /\ \E n \in 0..InbufSize : Read(n)) \/ NoRead
  PROVE  flag0' \in BOOLEAN /\ (flag0' \/ input' = << >>) /\ Placed(whole, input', inbuf', partial, Len(output) + Len(x))
<1>1. /\ flag0 \in BOOLEAN /\ (flag0 \/ input = << >>) /\ IsText(whole)
      /\ Placed(whole, input, inbuf, partial, Len(output) + Len(x))
  BY FilterSizes DEF FilterInv
<1>2. CASE NoRead
  BY <1>1, <1>2 DEF NoRead
<1>3. CASE flag0 /\ \E n \in 0..InbufSize : Read(n)
  <2>1. PICK n \in 0..InbufSize : Read(n)
    BY <1>3
  <2>2. CASE n = 0
    <3>1. input = << >> /\ flag0' = FALSE /\ input' = input /\ inbuf' = inbuf
      BY <2>1, <2>2 DEF Read
    <3> QED
      BY <1>1, <3>1
  <2>3. CASE n # 0
    <3>1. /\ n <= Len(input) /\ flag0' = flag0
          /\ inbuf' = inbuf \o SubSeq(input, 1, n) /\ input' = SubSeq(input, n + 1, Len(input))
      BY <2>1, <2>3 DEF Read
    <3>2. IsText(input)
      <4>1. PICK a, b, r : Cut(whole, input, inbuf, partial, Len(output) + Len(x), a, b, r)
        BY <1>1 DEF Placed
      <4> QED
        BY <1>1, <4>1, CutTexts
    <3>3. n \in 1..Len(input)
      BY <2>3, <3>1, <3>2 DEF IsText
    <3>4. Placed(whole, SubSeq(input, n + 1, Len(input)), inbuf \o SubSeq(input, 1, n), partial, Len(output) + Len(x))
      BY <1>1, <3>3, ReadMore
    <3> QED
      BY <1>1, <1>3, <3>1, <3>4
  <2> QED
    BY <2>2, <2>3
<1> QED
  BY <1>2, <1>3

LEMMA PauseKeeps == FilterInv /\ pause => FilterInv'
<1> SUFFICES ASSUME FilterInv, pause PROVE FilterInv'
  OBVIOUS
<1>1. /\ at = "pause" /\ at' = "loop" /\ whole' = whole /\ partial' = partial /\ output' = output
      /\ (flag0 /\ Len(inbuf) < InbufSize /\ \E n \in 0..InbufSize : Read(n)) \/ NoRead
  BY DEF pause
<1>2. flag0' \in BOOLEAN /\ (flag0' \/ input' = << >>) /\ Placed(whole, input', inbuf', partial, Len(output) + Len(x))
  BY <1>1, InputKeeps
<1>3. PICK got \in [Active(x) -> {"wait", "fail", "bad", "name"}] :
        /\ x' = [i \in DOMAIN x |-> IF i \in DOMAIN got THEN Got(x[i], got[i]) ELSE x[i]]
        /\ numactive' = numactive - Cardinality({i \in DOMAIN got : got[i] # "wait"})
  BY DEF pause, Active
<1>4. /\ Listed(output, x', LinesOf(whole)) /\ Len(x') = Len(x)
      /\ Counted(x', numactive - Cardinality({i \in DOMAIN got : got[i] # "wait"}))
  <2>1. Listed(output, x, LinesOf(whole)) /\ Counted(x, numactive)
    BY DEF FilterInv
  <2> QED
    BY <1>3, <2>1, GotKeeps
<1>5. whole \in Inputs /\ Len(output) + Len(x) <= Len(LinesOf(whole))
  BY DEF FilterInv
<1>6. Counted(x', numactive')
  BY <1>3, <1>4
<1>7. at' # "exit"
  BY <1>1
<1> QED
  BY <1>1, <1>2, <1>4, <1>5, <1>6, <1>7 DEF FilterInv

LEMMA PutStep == FilterInv /\ put => FilterInv'
<1> SUFFICES ASSUME FilterInv, put PROVE FilterInv'
  OBVIOUS
<1>1. PICK i \in Printable : output' = Append(output, Done(x[i])) /\ x' = RemoveAt(x, i)
  BY DEF put
<1>2. /\ at = "loop" /\ at' = at /\ whole' = whole /\ input' = input /\ flag0' = flag0 /\ inbuf' = inbuf
      /\ partial' = partial /\ numactive' = numactive
  BY DEF put
<1>3. i = 1 /\ Len(x) > 0 /\ ~x[1].active
  <2>1. i \in DOMAIN x \cap {1} /\ ~x[1].active
    BY DEF Printable
  <2>2. Len(x) \in Nat /\ DOMAIN x = 1..Len(x)
    BY FilterSizes DEF IsText
  <2> QED
    BY <2>1, <2>2
<1>4. /\ Listed(output', x', LinesOf(whole)) /\ Counted(x', numactive)
      /\ Len(output') + Len(x') = Len(output) + Len(x)
  <2>1. Listed(output, x, LinesOf(whole)) /\ Counted(x, numactive)
    BY DEF FilterInv
  <2>2. output' = Append(output, Done(x[1])) /\ x' = RemoveAt(x, 1)
    BY <1>1, <1>3
  <2> QED
    BY <1>3, <2>1, <2>2, PutKeeps
<1>5. at # "fatal" /\ at' # "exit"
  BY <1>2
<1> QED
  BY <1>2, <1>4, <1>5 DEF FilterInv

LEMMA GatherStep == FilterInv /\ gather => FilterInv'
<1> SUFFICES ASSUME FilterInv, gather PROVE FilterInv'
  OBVIOUS
<1>1. /\ at = "loop" /\ at' = at /\ whole' = whole /\ input' = input /\ flag0' = flag0 /\ x' = x
      /\ output' = output /\ numactive' = numactive /\ partial' = partial \o inbuf /\ inbuf' = << >> /\ ~HasLine
  BY DEF gather
<1>2. at # "fatal" /\ at' # "exit"
  BY <1>1
<1>3. Placed(whole, input, inbuf, partial, Len(output) + Len(x)) /\ IsText(whole)
  BY <1>2, FilterSizes DEF FilterInv
<1>4. \A k \in 1..Len(inbuf) : inbuf[k] # "nl"
  <2>1. IsText(inbuf)
    <3>1. PICK a, b, r : Cut(whole, input, inbuf, partial, Len(output) + Len(x), a, b, r)
      BY <1>3 DEF Placed
    <3> QED
      BY <1>3, <3>1, CutTexts
  <2>2. IsFirst(inbuf, "nl", byte_chr(inbuf, "nl"))
    BY <2>1, ByteChr
  <2>3. Len(inbuf) \in Nat /\ ~(byte_chr(inbuf, "nl") <= Len(inbuf))
    BY <1>1, <2>1 DEF HasLine, IsText
  <2> QED
    BY <2>2, <2>3 DEF IsFirst
<1>5. Placed(whole, input, << >>, partial \o inbuf, Len(output) + Len(x))
  BY <1>3, <1>4, GatherMore
<1> QED
  BY <1>1, <1>2, <1>5 DEF FilterInv

LEMMA AgainStep == FilterInv /\ again => FilterInv'
<1> SUFFICES ASSUME FilterInv, again PROVE FilterInv'
  OBVIOUS
<1>1. /\ at = "loop" /\ whole' = whole /\ input' = input /\ flag0' = flag0 /\ x' = x
      /\ output' = output /\ numactive' = numactive /\ partial' = partial /\ inbuf' = inbuf
      /\ at' = IF flag0 \/ inbuf # << >> \/ partial # << >> \/ x # << >> THEN "pause" ELSE "exit"
  BY DEF again
<1>2. at # "fatal"
  BY <1>1
<1>3. Placed(whole, input, inbuf, partial, Len(output) + Len(x)) /\ IsText(whole)
  BY <1>2, FilterSizes DEF FilterInv
<1>4. at' = "exit" => Len(output) = Len(LinesOf(whole))
  <2> SUFFICES ASSUME at' = "exit" PROVE Len(output) = Len(LinesOf(whole))
    OBVIOUS
  <2>1. ~flag0 /\ inbuf = << >> /\ partial = << >> /\ x = << >>
    BY <1>1
  <2>2. input = << >>
    BY <2>1 DEF FilterInv
  <2>3. Len(output) + Len(x) = Len(LinesOf(whole))
    BY <1>3, <2>1, <2>2, PlacedLines
  <2>4. Len(output) \in Nat /\ Len(x) = 0
    BY <2>1, FilterSizes
  <2> QED
    BY <2>3, <2>4
<1> QED
  BY <1>1, <1>2, <1>4 DEF FilterInv

\* What becomes of the line taken.
Starts(l) ==
  IF l.left = << >> \/ Head(l.left) \notin Address
  THEN x' = Append(x, l) /\ UNCHANGED <<numactive, at>>
  ELSE \/ x' = Append(x, [l EXCEPT !.active = TRUE]) /\ numactive' = numactive + 1 /\ UNCHANGED at
       \/ x' = Append(x, [l EXCEPT !.middle = ":error"]) /\ UNCHANGED <<numactive, at>>
       \/ at' = "fatal" /\ UNCHANGED <<x, numactive>>

LEMMA StartKeeps ==
  ASSUME FilterInv, at = "loop", numactive < maxactive, NEW s, IsText(s), Len(s) > 0,
         LinesOf(whole)[Len(output) + Len(x) + 1] = s, NEW l, IsSplit(l, s), Starts(l)
  PROVE  /\ Listed(output, x', LinesOf(whole)) /\ Counted(x', numactive') /\ at' \in {"loop", "fatal"}
         /\ at' = "fatal" => Len(output) + Len(x') = Len(output) + Len(x)
         /\ at' # "fatal" => Len(output) + Len(x') = Len(output) + Len(x) + 1
<1> DEFINE L == LinesOf(whole)
           a == [l EXCEPT !.active = TRUE]
           e == [l EXCEPT !.middle = ":error"]
<1>1. Listed(output, x, L) /\ Counted(x, numactive)
  BY DEF FilterInv
<1>2. /\ ~l.active /\ (~Looks(l) => IsOf(l, s))
      /\ Looks(l) => IsOf(a, s) /\ a.active /\ IsOf(e, s) /\ ~e.active
  <2>1. IsMarked(l, a) /\ IsFailed(l, e)
    BY DEF IsMarked, IsFailed
  <2> HIDE DEF a, e
  <2> QED
    BY <2>1, SplitLine
<1>3. \/ ~Looks(l) /\ x' = Append(x, l) /\ numactive' = numactive /\ at' = at
      \/ Looks(l) /\ x' = Append(x, a) /\ numactive' = numactive + 1 /\ at' = at
      \/ Looks(l) /\ x' = Append(x, e) /\ numactive' = numactive /\ at' = at
      \/ at' = "fatal" /\ x' = x /\ numactive' = numactive
  BY DEF Starts, Looks
<1> HIDE DEF a, e, L
<1>4. (~Looks(l) => IsOf(l, L[Len(output) + Len(x) + 1])) /\ (Looks(l) => IsOf(a, L[Len(output) + Len(x) + 1]) /\ IsOf(e, L[Len(output) + Len(x) + 1]))
  BY <1>2 DEF L
<1>5. CASE ~Looks(l) /\ x' = Append(x, l) /\ numactive' = numactive /\ at' = at
  <2>1. Listed(output, x', L) /\ Counted(x', numactive') /\ Len(output) + Len(x') = Len(output) + Len(x) + 1
    BY <1>1, <1>2, <1>4, <1>5, AddKeeps
  <2> QED
    BY <1>5, <2>1 DEF L
<1>6. CASE Looks(l) /\ x' = Append(x, a) /\ numactive' = numactive + 1 /\ at' = at
  <2>1. Listed(output, x', L) /\ Counted(x', numactive') /\ Len(output) + Len(x') = Len(output) + Len(x) + 1
    BY <1>1, <1>2, <1>4, <1>6, AddKeeps
  <2> QED
    BY <1>6, <2>1 DEF L
<1>7. CASE Looks(l) /\ x' = Append(x, e) /\ numactive' = numactive /\ at' = at
  <2>1. Listed(output, x', L) /\ Counted(x', numactive') /\ Len(output) + Len(x') = Len(output) + Len(x) + 1
    BY <1>1, <1>2, <1>4, <1>7, AddKeeps
  <2> QED
    BY <1>7, <2>1 DEF L
<1>8. CASE at' = "fatal" /\ x' = x /\ numactive' = numactive
  BY <1>1, <1>8 DEF L
<1> QED
  BY <1>3, <1>5, <1>6, <1>7, <1>8

LEMMA TakeStep == FilterInv /\ take => FilterInv'
<1> SUFFICES ASSUME FilterInv, take PROVE FilterInv'
  OBVIOUS
<1> DEFINE n == IF HasLine THEN byte_chr(inbuf, "nl") ELSE 0
           s == partial \o SubSeq(inbuf, 1, n)
<1>1. /\ at = "loop" /\ numactive < maxactive /\ whole' = whole /\ input' = input /\ flag0' = flag0 /\ output' = output
      /\ HasLine \/ (~flag0 /\ partial # << >> /\ inbuf = << >>)
      /\ inbuf' = SubSeq(inbuf, n + 1, Len(inbuf)) /\ partial' = << >> /\ Starts(Split(s))
  BY DEF take, Room, Starts
<1>2. Placed(whole, input, inbuf, partial, Len(output) + Len(x)) /\ IsText(whole) /\ whole \in Inputs
  BY <1>1, FilterSizes DEF FilterInv
<1>3. IsNext(whole, input, inbuf, partial, n)
  <2>1. CASE HasLine
    <3>1. IsText(inbuf)
      <4>1. PICK a, b, r : Cut(whole, input, inbuf, partial, Len(output) + Len(x), a, b, r)
        BY <1>2 DEF Placed
      <4> QED
        BY <1>2, <4>1, CutTexts
    <3>2. IsFirst(inbuf, "nl", byte_chr(inbuf, "nl")) /\ byte_chr(inbuf, "nl") <= Len(inbuf) /\ Len(inbuf) \in Nat
      BY <2>1, <3>1, ByteChr DEF HasLine, IsText
    <3> QED
      BY <2>1, <3>2 DEF IsNext, IsFirst
  <2>2. CASE ~HasLine
    <3>1. input = << >>
      BY <1>1, <2>2 DEF FilterInv
    <3> QED
      BY <1>1, <2>2, <3>1 DEF IsNext
  <2> QED
    BY <2>1, <2>2
<1>4. IsTaken(s, partial, inbuf, n)
  BY DEF IsTaken
<1> HIDE DEF n, s
<1>5. /\ IsText(s) /\ Len(s) > 0 /\ Len(output) + Len(x) + 1 <= Len(LinesOf(whole))
      /\ LinesOf(whole)[Len(output) + Len(x) + 1] = s
      /\ Placed(whole, input, SubSeq(inbuf, n + 1, Len(inbuf)), << >>, Len(output) + Len(x) + 1)
  BY <1>2, <1>3, <1>4, TakeMore
<1>6. /\ Listed(output, x', LinesOf(whole)) /\ Counted(x', numactive') /\ at' \in {"loop", "fatal"}
      /\ at' = "fatal" => Len(output) + Len(x') = Len(output) + Len(x)
      /\ at' # "fatal" => Len(output) + Len(x') = Len(output) + Len(x) + 1
  <2>1. IsSplit(Split(s), s)
    BY DEF IsSplit
  <2> QED
    BY <1>1, <1>5, <2>1, StartKeeps
<1>7. flag0' \in BOOLEAN /\ (flag0' \/ input' = << >>) /\ Len(output) + Len(x) <= Len(LinesOf(whole))
  BY <1>1 DEF FilterInv
<1>8. at' # "exit"
  BY <1>6
<1>9. at' # "fatal" => Placed(whole', input', inbuf', partial', Len(output') + Len(x'))
  BY <1>1, <1>5, <1>6
<1>10. Len(output') + Len(x') <= Len(LinesOf(whole'))
  BY <1>1, <1>5, <1>6, <1>7
<1> QED
  BY <1>1, <1>2, <1>6, <1>7, <1>8, <1>9, <1>10 DEF FilterInv

LEMMA FilterStays == FilterInv /\ UNCHANGED filter_vars => FilterInv'
BY DEF FilterInv, filter_vars, Placed, Cut, Listed, Counted

LEMMA FilterGives == FilterInv => LinesInOrder
<1> SUFFICES ASSUME FilterInv PROVE LinesInOrder
  OBVIOUS
<1>1. IsText(output) /\ Len(output) \in Nat /\ Len(x) \in Nat /\ DOMAIN output = 1..Len(output)
  BY FilterSizes DEF IsText
<1>2. \A k \in DOMAIN output : k <= Len(LinesOf(whole)) /\ output[k] \in Filtered(LinesOf(whole)[k])
  <2>1. Len(output) + Len(x) <= Len(LinesOf(whole)) /\ Len(LinesOf(whole)) \in Nat
    BY FilterSizes DEF FilterInv
  <2>2. \A k \in 1..Len(output) : output[k] \in Filtered(LinesOf(whole)[k])
    BY DEF FilterInv, Listed
  <2> QED
    BY <1>1, <2>1, <2>2
<1>3. numactive = Cardinality({i \in DOMAIN x : x[i].active}) /\ numactive <= maxactive
  BY DEF FilterInv, Counted, Active
<1>4. at = "exit" => Len(output) = Len(LinesOf(whole))
  BY DEF FilterInv
<1> QED
  BY <1>2, <1>3, <1>4 DEF LinesInOrder

\* For every input, however it is cut into reads, in whatever order look-ups
\* end and whatever they answer, dnsfilter prints the lines of the input in
\* their order, each bare or with the name of its own address or an error, has
\* printed all when it exits, and never has more than maxactive look-ups under
\* way (the loop of main, dnsfilter.c).
THEOREM FilterLinesInOrder == FilterSpec => []LinesInOrder
<1>1. FilterInv /\ [FilterNext]_filter_vars => FilterInv'
  BY PauseKeeps, PutStep, GatherStep, TakeStep, AgainStep, FilterStays DEF FilterNext
<1> QED
  BY <1>1, FilterStart, FilterGives, PTL DEF FilterSpec
=============================================================================
