--------------------------- MODULE CurvednsProofs ---------------------------
(* curvedns keeps its table of shared secrets sound, answers whoever asked,  *)
(* and accounts for its sockets, watchers and connections: for any number of *)
(* clients, keys, entries, listeners and buckets.                            *)
(*                                                                           *)
(* A table is laid out by two finite sequences that no entry is in twice:    *)
(* the used entries u[lo..hi] in the order of their age, each with its       *)
(* bucket in h, and the unused ones v[a..b].  All its links follow from      *)
(* them.  Evicting moves lo up, inserting moves hi up, and a SIGHUP puts the *)
(* used entries, reversed, before the unused ones.                           *)
EXTENDS Curvedns, TLAPS, FiniteSetTheorems, WellFoundedInduction

----------------------------------------------------------------------------
(* Induction, and what a walk along the links of a table reaches. *)

\* Induction over the numbers up to k, as a fact about sets.
LEMMA Induct ==
  ASSUME NEW S, NEW k \in Nat, 0 \in S,
         \A n \in 0..(k - 1) : n \in S => n + 1 \in S
  PROVE  0..k \subseteq S
<1> DEFINE T == {n \in Nat : n <= k /\ n \notin S}
<1> SUFFICES ASSUME T # {} PROVE FALSE
  OBVIOUS
<1>1. PICK x \in T : \A y \in T : ~(<<y, x>> \in OpToRel(<, Nat))
  BY NatLessThanWellFounded, WFMin, T \in SUBSET Nat
<1>2. x \in Nat /\ x # 0 /\ x - 1 \in Nat /\ x - 1 < x /\ x - 1 \in 0..(k - 1)
  OBVIOUS
<1>3. x - 1 \notin T
  BY <1>1, <1>2 DEF OpToRel
<1>4. x - 1 \in S
  BY <1>2, <1>3
<1> QED
  BY <1>2, <1>4

\* What the assumptions say of entries and pointers.
LEMMA Numbers == NrEntries \in Nat /\ NrEntries > 1 /\ 0 \in Pointer /\ Entry \subseteq Pointer /\ 0 \notin Entry
BY HashAssumption DEF Pointer, Entry

\* What Walk is: where it starts, and how it goes on until a null pointer.
IsWalk(at, e, link) ==
  /\ at \in [Pointer -> Pointer] /\ at[0] = e
  /\ \A n \in 1..NrEntries : at[n] = IF at[n - 1] = 0 THEN 0 ELSE link[at[n - 1]]

\* The recursion of Walk has a solution, so Walk is one.
LEMMA WalkIs ==
  ASSUME NEW e \in Pointer, NEW link \in [Entry -> Pointer]
  PROVE  IsWalk(Walk(e, link), e, link)
<1> DEFINE Part(f, k) == /\ f[0] = e
                         /\ \A n \in 1..k : f[n] = IF f[n - 1] = 0 THEN 0 ELSE link[f[n - 1]]
           S == {k \in Pointer : \E f \in [0..k -> Pointer] : Part(f, k)}
<1>1. 0 \in S
  <2>1. [n \in 0..0 |-> e] \in [0..0 -> Pointer] /\ Part([n \in 0..0 |-> e], 0)
    OBVIOUS
  <2> QED
    BY <2>1, Numbers
<1>2. ASSUME NEW k \in 0..(NrEntries - 1), k \in S PROVE k + 1 \in S
  <2>1. PICK f \in [0..k -> Pointer] : Part(f, k)
    BY <1>2
  <2>2. k \in Nat /\ k + 1 \in Pointer /\ k \in 0..k /\ 0 \in 0..k
    BY Numbers DEF Pointer
  <2> DEFINE step == IF f[k] = 0 THEN 0 ELSE link[f[k]]
             g == [n \in 0..(k + 1) |-> IF n = k + 1 THEN step ELSE f[n]]
  <2>3. step \in Pointer
    <3>1. f[k] \in Pointer
      BY <2>1, <2>2
    <3> QED
      BY <3>1, Numbers DEF Pointer, Entry
  <2>4. \A n \in 0..k : g[n] = f[n] /\ f[n] \in Pointer
    BY <2>1, <2>2
  <2>5. g[k + 1] = step
    BY <2>2
  <2>6. g \in [0..(k + 1) -> Pointer]
    BY <2>1, <2>2, <2>3
  <2> HIDE DEF g
  <2>7. Part(g, k + 1)
    <3>1. g[0] = e
      BY <2>1, <2>2, <2>4
    <3>2. ASSUME NEW n \in 1..(k + 1)
          PROVE  g[n] = IF g[n - 1] = 0 THEN 0 ELSE link[g[n - 1]]
      <4>1. CASE n = k + 1
        BY <2>2, <2>4, <2>5, <4>1
      <4>2. CASE n # k + 1
        <5>1. n \in 1..k /\ n \in 0..k /\ n - 1 \in 0..k
          BY <2>2, <4>2
        <5> QED
          BY <2>1, <2>4, <5>1
      <4> QED
        BY <4>1, <4>2
    <3> QED
      BY <3>1, <3>2
  <2> QED
    BY <2>2, <2>6, <2>7
<1>3. NrEntries \in S
  <2>1. NrEntries \in Nat /\ NrEntries \in 0..NrEntries
    BY Numbers
  <2> QED
    BY <1>1, <1>2, <2>1, Induct
<1>4. PICK f \in [0..NrEntries -> Pointer] : Part(f, NrEntries)
  BY <1>3
<1> DEFINE R(at) == at = [n \in 0..NrEntries |-> IF n = 0 THEN e ELSE IF at[n - 1] = 0 THEN 0 ELSE link[at[n - 1]]]
<1>5. R(f)
  BY <1>4, Numbers
<1>6. Walk(e, link) = CHOOSE at : R(at)
  BY DEF Walk
<1> HIDE DEF R
<1>7. R(Walk(e, link))
  BY <1>5, <1>6, Zenon
<1> USE DEF R
<1> DEFINE w == Walk(e, link)
           T == {n \in Pointer : w[n] \in Pointer}
<1>8. DOMAIN w = 0..NrEntries /\ w = [n \in 0..NrEntries |-> w[n]]
  BY <1>7
<1>9. w[0] = e /\ \A n \in 1..NrEntries : w[n] = IF w[n - 1] = 0 THEN 0 ELSE link[w[n - 1]]
  BY <1>7, Numbers
<1> HIDE DEF w
<1>10. 0..NrEntries \subseteq T
  <2>1. 0 \in T
    BY <1>9, Numbers
  <2>2. ASSUME NEW n \in 0..(NrEntries - 1), n \in T PROVE n + 1 \in T
    <3>1. n + 1 \in 1..NrEntries /\ (n + 1) - 1 = n /\ n + 1 \in Pointer
      BY Numbers DEF Pointer
    <3>2. w[n + 1] = IF w[n] = 0 THEN 0 ELSE link[w[n]]
      BY <1>9, <3>1
    <3>3. w[n] = 0 \/ w[n] \in Entry
      BY <2>2 DEF Pointer, Entry
    <3> QED
      BY <3>1, <3>2, <3>3, Numbers
  <2> QED
    BY <2>1, <2>2, Numbers, Induct
<1>11. w \in [Pointer -> Pointer]
  BY <1>8, <1>10 DEF Pointer
<1> QED
  BY <1>9, <1>11 DEF IsWalk, w
----------------------------------------------------------------------------
\* The links string s[lo..hi] together, and end there.
Strung(f, s, lo, hi) == \A i \in lo..hi : f[s[i]] = IF i < hi THEN s[i + 1] ELSE 0
\* Where such a list starts.
First(s, lo, hi) == IF lo <= hi THEN s[lo] ELSE 0
Run(s, lo, hi) == {s[i] : i \in lo..hi}

\* Walking along a list visits its entries in order, then stays at 0.
LEMMA ListWalk ==
  ASSUME NEW f \in [Entry -> Pointer], NEW s \in [Int -> Entry], NEW lo \in Int, NEW hi \in Int,
         lo <= hi + 1, hi - lo < NrEntries, Strung(f, s, lo, hi)
  PROVE  \A n \in 0..NrEntries : Walk(First(s, lo, hi), f)[n] = IF lo + n <= hi THEN s[lo + n] ELSE 0
<1> DEFINE e == First(s, lo, hi)
           w == Walk(e, f)
           S == {n \in Pointer : w[n] = IF lo + n <= hi THEN s[lo + n] ELSE 0}
<1>1. e \in Pointer
  BY Numbers DEF First
<1> HIDE DEF e
<1>2. IsWalk(w, e, f)
  BY <1>1, WalkIs
<1> HIDE DEF w
<1>3. 0 \in S
  <2>1. w[0] = e /\ 0 \in Pointer
    BY <1>2, Numbers DEF IsWalk
  <2>2. e = IF lo + 0 <= hi THEN s[lo + 0] ELSE 0
    BY DEF First, e
  <2> QED
    BY <2>1, <2>2
<1>4. ASSUME NEW n \in 0..(NrEntries - 1), n \in S PROVE n + 1 \in S
  <2>1. n + 1 \in 1..NrEntries /\ (n + 1) - 1 = n /\ n + 1 \in Pointer /\ n \in Nat
    BY Numbers DEF Pointer
  <2>2. w[n + 1] = IF w[n] = 0 THEN 0 ELSE f[w[n]]
    BY <1>2, <2>1 DEF IsWalk
  <2>3. CASE lo + n <= hi
    <3>1. lo + n \in lo..hi /\ s[lo + n] \in Entry /\ w[n] = s[lo + n]
      BY <1>4, <2>1, <2>3
    <3>2. w[n + 1] = f[s[lo + n]]
      BY <2>2, <3>1, Numbers
    <3>3. f[s[lo + n]] = IF lo + n < hi THEN s[(lo + n) + 1] ELSE 0
      BY <3>1 DEF Strung
    <3>4. (lo + n) + 1 = lo + (n + 1) /\ (lo + n < hi <=> lo + (n + 1) <= hi)
      BY <2>1
    <3> QED
      BY <2>1, <3>2, <3>3, <3>4
  <2>4. CASE ~(lo + n <= hi)
    <3>1. w[n] = 0 /\ ~(lo + (n + 1) <= hi)
      BY <1>4, <2>1, <2>4
    <3> QED
      BY <2>1, <2>2, <3>1
  <2> QED
    BY <2>3, <2>4
<1>5. 0..NrEntries \subseteq S
  BY <1>3, <1>4, Numbers, Induct
<1> QED
  BY <1>5 DEF w, e

\* So the entries of a list are its sequence.
LEMMA ListMembers ==
  ASSUME NEW f \in [Entry -> Pointer], NEW s \in [Int -> Entry], NEW lo \in Int, NEW hi \in Int,
         lo <= hi + 1, hi - lo < NrEntries, Strung(f, s, lo, hi)
  PROVE  Members(First(s, lo, hi), f) = Run(s, lo, hi)
<1> DEFINE w == Walk(First(s, lo, hi), f)
<1>1. \A n \in 0..NrEntries : w[n] = IF lo + n <= hi THEN s[lo + n] ELSE 0
  BY ListWalk
<1>2. First(s, lo, hi) \in Pointer
  BY Numbers DEF First
<1>3. DOMAIN w = 0..NrEntries
  BY <1>2, WalkIs DEF IsWalk, Pointer
<1> HIDE DEF w
<1>4. ASSUME NEW x \in Range(w), x # 0 PROVE x \in Run(s, lo, hi)
  <2>1. PICK n \in 0..NrEntries : x = w[n]
    BY <1>3, <1>4 DEF Range
  <2>2. lo + n <= hi /\ x = s[lo + n] /\ lo + n \in lo..hi
    BY <1>1, <1>4, <2>1, Numbers
  <2> QED
    BY <2>2 DEF Run
<1>5. ASSUME NEW x \in Run(s, lo, hi) PROVE x \in Range(w) /\ x # 0
  <2>1. PICK i \in lo..hi : x = s[i]
    BY DEF Run
  <2>2. i - lo \in 0..NrEntries /\ lo + (i - lo) = i /\ i <= hi
    BY <2>1, Numbers
  <2>3. w[i - lo] = x
    BY <1>1, <2>1, <2>2
  <2>4. x \in Entry
    BY <2>1
  <2> QED
    BY <1>3, <2>2, <2>3, <2>4, Numbers DEF Range
<1>6. Members(First(s, lo, hi), f) = Range(w) \ {0}
  BY DEF Members, w
<1> QED
  BY <1>4, <1>5, <1>6

----------------------------------------------------------------------------
\* x is the last of u[lo..k] in bucket c, 0 if there is none.
LastOf(x, u, h, lo, k, c) ==
  \/ \E j \in lo..k : h[j] = c /\ x = u[j] /\ \A m \in (j + 1)..k : h[m] # c
  \/ x = 0 /\ \A m \in lo..k : h[m] # c
\* x is the first of u[k..hi] in bucket c, 0 if there is none.
FirstOf(x, u, h, k, hi, c) ==
  \/ \E j \in k..hi : h[j] = c /\ x = u[j] /\ \A m \in k..(j - 1) : h[m] # c
  \/ x = 0 /\ \A m \in k..hi : h[m] # c
\* Every used entry links to the next older one of its bucket.
Chain(next, u, h, lo, hi) == \A i \in lo..hi : LastOf(next[u[i]], u, h, lo, i - 1, h[i])
InBucket(u, h, lo, hi, c) == {u[i] : i \in {i \in lo..hi : h[i] = c}}

\* The chain from the newest entry of a bucket has all its entries, by
\* induction from the newest to the oldest.
LEMMA ChainMembers ==
  ASSUME NEW next \in [Entry -> Pointer], NEW u \in [Int -> Entry], NEW h, NEW c,
         NEW lo \in Int, NEW hi \in Int, lo <= hi + 1, hi - lo < NrEntries,
         \A i, j \in lo..hi : u[i] = u[j] => i = j,
         Chain(next, u, h, lo, hi), NEW e \in Pointer, LastOf(e, u, h, lo, hi, c)
  PROVE  Members(e, next) = InBucket(u, h, lo, hi, c)
<1> DEFINE w == Walk(e, next)
           B == InBucket(u, h, lo, hi, c)
<1>1. IsWalk(w, e, next)
  BY WalkIs
<1> HIDE DEF w
<1>2. 0 \notin B
  BY Numbers DEF InBucket
<1>3. 0..NrEntries \subseteq {n \in Pointer : w[n] \in B \cup {0}}
  <2> DEFINE S == {n \in Pointer : w[n] \in B \cup {0}}
  <2>1. 0 \in S
    BY <1>1, Numbers DEF IsWalk, LastOf, InBucket
  <2>2. ASSUME NEW n \in 0..(NrEntries - 1), n \in S PROVE n + 1 \in S
    <3>1. n + 1 \in 1..NrEntries /\ (n + 1) - 1 = n /\ n + 1 \in Pointer
      BY Numbers DEF Pointer
    <3>2. w[n + 1] = IF w[n] = 0 THEN 0 ELSE next[w[n]]
      BY <1>1, <3>1 DEF IsWalk
    <3>3. CASE w[n] = 0
      BY <3>1, <3>2, <3>3
    <3>4. CASE w[n] # 0
      <4>1. PICK i \in lo..hi : h[i] = c /\ w[n] = u[i]
        BY <2>2, <3>4 DEF InBucket
      <4>2. LastOf(next[u[i]], u, h, lo, i - 1, c)
        BY <4>1 DEF Chain
      <4>3. lo..(i - 1) \subseteq lo..hi
        BY <4>1
      <4>4. next[u[i]] \in B \cup {0}
        BY <4>2, <4>3 DEF LastOf, InBucket
      <4> QED
        BY <3>1, <3>2, <3>4, <4>1, <4>4
    <3> QED
      BY <3>3, <3>4
  <2> QED
    BY <2>1, <2>2, Numbers, Induct
<1>4. \A i \in lo..hi : h[i] = c => \E n \in 0..(hi - i) : w[n] = u[i]
  <2> DEFINE S == {d \in Nat : \A i \in lo..hi : hi - i <= d /\ h[i] = c => \E n \in 0..(hi - i) : w[n] = u[i]}
  <2>1. CASE lo <= hi
    <3>1. ASSUME NEW i \in lo..hi, h[i] = c, \A m \in (i + 1)..hi : h[m] # c
          PROVE  w[0] = u[i]
      <4>1. e = w[0]
        BY <1>1 DEF IsWalk
      <4>2. PICK j \in lo..hi : h[j] = c /\ e = u[j] /\ \A m \in (j + 1)..hi : h[m] # c
        BY <3>1 DEF LastOf
      <4>3. i = j
        <5>1. ~(i < j)
          <6> SUFFICES ASSUME i < j PROVE FALSE OBVIOUS
          <6>1. j \in (i + 1)..hi
            OBVIOUS
          <6> QED
            BY <3>1, <4>2, <6>1
        <5>2. ~(j < i)
          <6> SUFFICES ASSUME j < i PROVE FALSE OBVIOUS
          <6>1. i \in (j + 1)..hi
            OBVIOUS
          <6> QED
            BY <3>1, <4>2, <6>1
        <5> QED
          BY <5>1, <5>2
      <4> QED
        BY <4>1, <4>2, <4>3
    <3>2. 0 \in S
      <4> SUFFICES ASSUME NEW i \in lo..hi, hi - i <= 0, h[i] = c PROVE \E n \in 0..(hi - i) : w[n] = u[i]
        OBVIOUS
      <4>1. i = hi /\ (i + 1)..hi = {} /\ 0 \in 0..(hi - i)
        OBVIOUS
      <4> QED
        BY <3>1, <4>1
    <3>3. ASSUME NEW d \in 0..((hi - lo) - 1), d \in S PROVE d + 1 \in S
      <4> SUFFICES ASSUME NEW i \in lo..hi, hi - i <= d + 1, h[i] = c PROVE \E n \in 0..(hi - i) : w[n] = u[i]
        OBVIOUS
      <4>1. CASE \A m \in (i + 1)..hi : h[m] # c
        <5>1. 0 \in 0..(hi - i)
          OBVIOUS
        <5> QED
          BY <3>1, <4>1, <5>1
      <4>2. CASE \E m \in (i + 1)..hi : h[m] = c
        <5>1. PICK k \in (i + 1)..hi : h[k] = c /\ \A m \in (i + 1)..(k - 1) : h[m] # c
          <6> DEFINE T == {m \in 1..(hi - i) : h[i + m] = c}
          <6>1. PICK m \in (i + 1)..hi : h[m] = c
            BY <4>2
          <6>2. m - i \in 1..(hi - i) /\ i + (m - i) = m
            OBVIOUS
          <6>3. T # {} /\ T \in SUBSET Nat
            <7>1. h[i + (m - i)] = c
              BY <6>1, <6>2
            <7>2. m - i \in T
              BY <6>2, <7>1
            <7>3. 1..(hi - i) \subseteq Nat
              OBVIOUS
            <7>4. T \in SUBSET Nat
              BY <7>3
            <7> QED
              BY <7>2, <7>4
          <6>4. PICK x \in T : \A y \in T : ~(<<y, x>> \in OpToRel(<, Nat))
            BY <6>3, NatLessThanWellFounded, WFMin
          <6>5. i + x \in (i + 1)..hi /\ h[i + x] = c
            OBVIOUS
          <6>6. ASSUME NEW y \in (i + 1)..((i + x) - 1) PROVE h[y] # c
            <7>1. y - i \in Nat /\ y - i < x /\ y - i \in 1..(hi - i) /\ i + (y - i) = y /\ x \in Nat
              OBVIOUS
            <7>2. y - i \notin T
              BY <6>4, <7>1 DEF OpToRel
            <7> QED
              BY <7>1, <7>2
          <6> QED
            BY <6>5, <6>6
        <5>2. k \in lo..hi /\ hi - k <= d
          OBVIOUS
        <5>3. PICK n \in 0..(hi - k) : w[n] = u[k]
          BY <3>3, <5>1, <5>2
        <5>4. n \in Nat /\ n + 1 \in 0..(hi - i) /\ n + 1 \in 1..NrEntries /\ (n + 1) - 1 = n
          BY <5>2, Numbers
        <5>5. w[n + 1] = next[u[k]]
          <6>1. w[n + 1] = IF w[n] = 0 THEN 0 ELSE next[w[n]]
            BY <1>1, <5>4 DEF IsWalk
          <6>2. u[k] # 0
            BY <5>2, Numbers
          <6> QED
            BY <5>3, <6>1, <6>2
        <5>6. LastOf(next[u[k]], u, h, lo, k - 1, c)
          BY <5>1, <5>2 DEF Chain
        <5>7. i \in lo..(k - 1) /\ lo..(k - 1) \subseteq lo..hi
          BY <5>1, <5>2
        <5>8. PICK j \in lo..(k - 1) : h[j] = c /\ next[u[k]] = u[j] /\ \A m \in (j + 1)..(k - 1) : h[m] # c
          BY <5>6, <5>7 DEF LastOf
        <5>9. ~(i < j)
          <6> SUFFICES ASSUME i < j PROVE FALSE OBVIOUS
          <6>1. j \in (i + 1)..(k - 1)
            OBVIOUS
          <6> QED
            BY <5>1, <5>8, <6>1
        <5>10. ~(j < i)
          <6> SUFFICES ASSUME j < i PROVE FALSE OBVIOUS
          <6>1. i \in (j + 1)..(k - 1)
            BY <5>7
          <6> QED
            BY <5>8, <6>1
        <5>11. i = j
          BY <5>9, <5>10
        <5> QED
          BY <5>4, <5>5, <5>8, <5>11
      <4> QED
        BY <4>1, <4>2
    <3>4. hi - lo \in Nat
      BY <2>1
    <3> HIDE DEF S
    <3>5. 0..(hi - lo) \subseteq S
      BY <3>2, <3>3, <3>4, Induct
    <3>6. hi - lo \in S
      BY <3>4, <3>5
    <3> QED
      BY <3>6 DEF S
  <2>2. CASE hi < lo
    BY <2>2
  <2> QED
    BY <2>1, <2>2
<1>5. ASSUME NEW x \in B PROVE x \in Range(w)
  <2>1. PICK i \in lo..hi : h[i] = c /\ x = u[i]
    BY DEF InBucket
  <2>2. PICK n \in 0..(hi - i) : w[n] = u[i]
    BY <1>4, <2>1
  <2>3. n \in Pointer
    BY <2>2, Numbers DEF Pointer
  <2> QED
    BY <1>1, <2>1, <2>2, <2>3 DEF IsWalk, Range
<1>6. ASSUME NEW x \in Range(w), x # 0 PROVE x \in B
  <2>1. PICK n \in Pointer : x = w[n]
    BY <1>1, <1>6 DEF IsWalk, Range
  <2> QED
    BY <1>3, <1>6, <2>1 DEF Pointer
<1>7. Members(e, next) = Range(w) \ {0}
  BY DEF Members, w
<1> HIDE DEF B
<1> QED
  BY <1>2, <1>5, <1>6, <1>7 DEF B

----------------------------------------------------------------------------
(* How a table is laid out. *)

\* The used and the unused entries: no entry twice, none in both.
Lists(u, lo, hi, v, a, b) ==
  /\ lo \in Int /\ hi \in Int /\ a \in Int /\ b \in Int /\ lo <= hi + 1 /\ a <= b + 1
  /\ u \in [Int -> Entry] /\ v \in [Int -> Entry]
  /\ \A i, j \in lo..hi : u[i] = u[j] => i = j
  /\ \A i, j \in a..b : v[i] = v[j] => i = j
  /\ \A i \in lo..hi, j \in a..b : u[i] # v[j]
\* Every entry but those in X is in one of the two.
Covered(u, lo, hi, v, a, b, X) == \A e \in Entry \ X : e \in Run(u, lo, hi) \/ e \in Run(v, a, b)
\* nexttable and the three ends of the lists.
Listed(t, u, lo, hi, v, a, b) ==
  /\ Strung(t.nexttable, u, lo, hi) /\ Strung(t.nexttable, v, a, b)
  /\ t.lastused = (IF lo <= hi THEN u[hi] ELSE 0) /\ t.headunused = First(v, a, b)
\* The keys and values of used entries; no key twice, no key in an unused
\* entry.
Keyed(t, u, h, lo, hi, v, a, b) ==
  /\ h \in [Int -> Bucket]
  /\ \A i \in lo..hi : t.key[u[i]] \in Key /\ h[i] = cache_hash[t.key[u[i]]] /\ t.value[u[i]] = Secret(t.key[u[i]])
  /\ \A i, j \in lo..hi : t.key[u[i]] = t.key[u[j]] => i = j
  /\ \A j \in a..b : t.key[v[j]] = None
\* The buckets, and the links both ways in them.
Chained(t, u, h, lo, hi) ==
  /\ \A c \in Bucket : LastOf(t.buckets[c], u, h, lo, hi, c)
  /\ Chain(t.next, u, h, lo, hi)
  /\ \A i \in lo..hi : FirstOf(t.prev[u[i]], u, h, i + 1, hi, h[i])

\* A table as it is between two calls.
Laid(t, u, h, lo, hi, v, a, b) ==
  /\ t \in Tables(Secrets)
  /\ Lists(u, lo, hi, v, a, b) /\ Covered(u, lo, hi, v, a, b, {})
  /\ (hi - lo + 1) + (b - a + 1) = NrEntries /\ t.nrused = hi - lo + 1
  /\ Listed(t, u, lo, hi, v, a, b) /\ t.headused = First(u, lo, hi)
  /\ Keyed(t, u, h, lo, hi, v, a, b) /\ Chained(t, u, h, lo, hi)
IsTable(t) == \E u, h, lo, hi, v, a, b : Laid(t, u, h, lo, hi, v, a, b)

\* A set of numbers that is not empty has a least element.
LEMMA MinIn ==
  ASSUME NEW S \in SUBSET Nat, S # {}
  PROVE  Min(S) \in S
<1>1. PICK x \in S : \A y \in S : ~(<<y, x>> \in OpToRel(<, Nat))
  BY NatLessThanWellFounded, WFMin
<1>2. ASSUME NEW y \in S PROVE x <= y
  <2>1. x \in Nat /\ y \in Nat
    OBVIOUS
  <2>2. ~(y < x)
    BY <1>1, <2>1 DEF OpToRel
  <2> QED
    BY <2>1, <2>2
<1> QED
  BY <1>2 DEF Min

\* The types of a table's fields.
LEMMA Fields ==
  ASSUME NEW t \in Tables(Secrets)
  PROVE  /\ t.next \in [Entry -> Pointer] /\ t.prev \in [Entry -> Pointer] /\ t.nexttable \in [Entry -> Pointer]
         /\ t.key \in [Entry -> Key \cup {None}] /\ t.value \in [Entry -> Secrets \cup {None}]
         /\ t.buckets \in [Bucket -> Pointer] /\ t.headunused \in Pointer /\ t.headused \in Pointer
         /\ t.lastused \in Pointer /\ t.nrused \in Nat
BY DEF Tables

\* A table that is laid out is sound: it is what Sound says of walks.
LEMMA LaidSound ==
  ASSUME NEW t, NEW u, NEW h, NEW lo, NEW hi, NEW v, NEW a, NEW b, Laid(t, u, h, lo, hi, v, a, b)
  PROVE  Sound(t)
<1>1. Lists(u, lo, hi, v, a, b) /\ t \in Tables(Secrets) /\ Listed(t, u, lo, hi, v, a, b) /\ t.headused = First(u, lo, hi)
      /\ Keyed(t, u, h, lo, hi, v, a, b) /\ Chained(t, u, h, lo, hi) /\ Covered(u, lo, hi, v, a, b, {}) /\ t.nrused = hi - lo + 1
  BY DEF Laid
<1>2. lo \in Int /\ hi \in Int /\ a \in Int /\ b \in Int /\ lo <= hi + 1 /\ a <= b + 1 /\ u \in [Int -> Entry] /\ v \in [Int -> Entry]
  BY <1>1 DEF Lists
<1>3. hi - lo < NrEntries /\ b - a < NrEntries
  BY <1>2, Numbers DEF Laid
<1>4. Members(t.headused, t.nexttable) = Run(u, lo, hi)
  BY <1>1, <1>2, <1>3, Fields, ListMembers DEF Listed
<1>5. Members(t.headunused, t.nexttable) = Run(v, a, b)
  BY <1>1, <1>2, <1>3, Fields, ListMembers DEF Listed
<1>6. Run(u, lo, hi) \cap Run(v, a, b) = {} /\ Run(u, lo, hi) \cup Run(v, a, b) = Entry
  <2>1. Run(u, lo, hi) \subseteq Entry /\ Run(v, a, b) \subseteq Entry
    BY <1>2 DEF Run
  <2>2. Run(u, lo, hi) \cap Run(v, a, b) = {}
    BY <1>1 DEF Run, Lists
  <2> QED
    BY <1>1, <2>1, <2>2 DEF Covered
<1>7. Cardinality(Run(u, lo, hi)) = t.nrused
  <2> DEFINE f == [i \in lo..hi |-> u[i]]
  <2>1. f \in Bijection(lo..hi, Run(u, lo, hi))
    <3>1. f \in [lo..hi -> Run(u, lo, hi)]
      BY DEF Run
    <3>2. \A i, j \in lo..hi : f[i] = f[j] => i = j
      BY <1>1 DEF Lists
    <3>3. \A x \in Run(u, lo, hi) : \E i \in lo..hi : f[i] = x
      BY DEF Run
    <3> QED
      BY <3>1, <3>2, <3>3 DEF Bijection, Injection, Surjection, IsInjective
  <2>2. IsFiniteSet(lo..hi) /\ Cardinality(lo..hi) = hi - lo + 1
    BY <1>2, FS_Interval
  <2>3. Cardinality(Run(u, lo, hi)) = Cardinality(lo..hi)
    BY <2>1, <2>2, FS_Bijection DEF ExistsBijection
  <2> QED
    BY <1>1, <2>2, <2>3
<1>8. t.nrused > 0 => t.lastused \in Run(u, lo, hi) /\ t.nexttable[t.lastused] = 0
  <2> SUFFICES ASSUME t.nrused > 0 PROVE t.lastused \in Run(u, lo, hi) /\ t.nexttable[t.lastused] = 0
    OBVIOUS
  <2>1. lo <= hi /\ hi \in lo..hi /\ ~(hi < hi)
    BY <1>1, <1>2
  <2>2. t.lastused = u[hi]
    BY <1>1, <2>1 DEF Listed
  <2>3. t.nexttable[u[hi]] = 0
    BY <1>1, <2>1 DEF Listed, Strung
  <2> QED
    BY <2>1, <2>2, <2>3 DEF Run
<1>9. ASSUME NEW c \in Bucket
      PROVE  Members(t.buckets[c], t.next) = {e \in Run(u, lo, hi) : cache_hash[t.key[e]] = c}
  <2>1. LastOf(t.buckets[c], u, h, lo, hi, c) /\ Chain(t.next, u, h, lo, hi)
    BY <1>1 DEF Chained
  <2>2. t.buckets[c] \in Pointer /\ t.next \in [Entry -> Pointer]
    BY <1>1, Fields
  <2>3. Members(t.buckets[c], t.next) = InBucket(u, h, lo, hi, c)
    BY <1>1, <1>2, <1>3, <2>1, <2>2, ChainMembers DEF Lists
  <2>4. \A i \in lo..hi : h[i] = cache_hash[t.key[u[i]]]
    BY <1>1 DEF Keyed
  <2> QED
    BY <2>3, <2>4 DEF InBucket, Run
<1>10. ASSUME NEW c \in Bucket, t.buckets[c] # 0 PROVE t.prev[t.buckets[c]] = 0
  <2>1. LastOf(t.buckets[c], u, h, lo, hi, c)
    BY <1>1 DEF Chained
  <2>2. PICK j \in lo..hi : h[j] = c /\ t.buckets[c] = u[j] /\ \A m \in (j + 1)..hi : h[m] # c
    BY <1>10, <2>1 DEF LastOf
  <2>3. FirstOf(t.prev[u[j]], u, h, j + 1, hi, c)
    BY <1>1, <2>2 DEF Chained
  <2> QED
    BY <2>2, <2>3 DEF FirstOf
<1> DEFINE Age(e) == CHOOSE n \in 0..NrEntries : Walk(t.headused, t.nexttable)[n] = e
<1>11. ASSUME NEW i \in lo..hi PROVE Age(u[i]) = i - lo
  <2> DEFINE w == Walk(t.headused, t.nexttable)
  <2>1. \A n \in 0..NrEntries : w[n] = IF lo + n <= hi THEN u[lo + n] ELSE 0
    BY <1>1, <1>2, <1>3, Fields, ListWalk DEF Listed
  <2> HIDE DEF w
  <2>2. i - lo \in 0..NrEntries /\ lo + (i - lo) = i /\ i <= hi /\ u[i] # 0
    BY <1>2, <1>3, Numbers
  <2>3. w[i - lo] = u[i]
    BY <2>1, <2>2
  <2>4. ASSUME NEW n \in 0..NrEntries, w[n] = u[i] PROVE n = i - lo
    <3>1. lo + n <= hi /\ u[lo + n] = u[i]
      BY <2>1, <2>2, <2>4
    <3>2. lo + n \in lo..hi
      BY <1>2, <3>1, Numbers
    <3>3. lo + n = i
      BY <1>1, <3>1, <3>2 DEF Lists
    <3> QED
      BY <1>2, <3>3, Numbers
  <2>5. Age(u[i]) = CHOOSE n \in 0..NrEntries : w[n] = u[i]
    BY DEF w
  <2> HIDE DEF Age
  <2> QED
    BY <2>2, <2>3, <2>4, <2>5
<1> HIDE DEF Age
<1>12. ASSUME NEW e \in Run(u, lo, hi), t.next[e] # 0 PROVE t.prev[t.next[e]] = e /\ Age(t.next[e]) < Age(e)
  <2>1. PICK i \in lo..hi : e = u[i]
    BY DEF Run
  <2>2. LastOf(t.next[u[i]], u, h, lo, i - 1, h[i])
    BY <1>1 DEF Chained, Chain
  <2>3. PICK j \in lo..(i - 1) : h[j] = h[i] /\ t.next[u[i]] = u[j] /\ \A m \in (j + 1)..(i - 1) : h[m] # h[i]
    BY <1>12, <2>1, <2>2 DEF LastOf
  <2>4. j \in lo..hi /\ j < i /\ i \in (j + 1)..hi
    BY <1>2
  <2>5. FirstOf(t.prev[u[j]], u, h, j + 1, hi, h[i])
    BY <1>1, <2>3, <2>4 DEF Chained
  <2>6. PICK k \in (j + 1)..hi : h[k] = h[i] /\ t.prev[u[j]] = u[k] /\ \A m \in (j + 1)..(k - 1) : h[m] # h[i]
    BY <2>4, <2>5 DEF FirstOf
  <2>7. ~(k < i)
    <3> SUFFICES ASSUME k < i PROVE FALSE
      OBVIOUS
    <3>1. k \in (j + 1)..(i - 1)
      BY <1>2
    <3> QED
      BY <2>3, <2>6, <3>1
  <2>8. ~(i < k)
    <3> SUFFICES ASSUME i < k PROVE FALSE
      OBVIOUS
    <3>1. i \in (j + 1)..(k - 1)
      BY <1>2, <2>4
    <3> QED
      BY <2>6, <3>1
  <2>9. k = i
    BY <1>2, <2>7, <2>8
  <2>10. Age(u[j]) < Age(u[i])
    BY <1>2, <1>11, <2>4
  <2> QED
    BY <2>1, <2>3, <2>6, <2>9, <2>10
<1>13. \A e, f \in Run(u, lo, hi) : t.key[e] = t.key[f] => e = f
  BY <1>1 DEF Keyed, Run
<1> QED
  BY <1>4, <1>5, <1>6, <1>7, <1>8, <1>9, <1>10, <1>12, <1>13 DEF Sound, Age

\* cache_get finds the secret of the key, or there is no entry with the key.
LEMMA GetRight ==
  ASSUME NEW t, NEW u, NEW h, NEW lo, NEW hi, NEW v, NEW a, NEW b, Laid(t, u, h, lo, hi, v, a, b), NEW key \in Key
  PROVE  /\ cache_get(t, key) # 0 => t.value[cache_get(t, key)] = Secret(key)
         /\ cache_get(t, key) = 0 => \A i \in lo..hi : t.key[u[i]] # key
<1>1. Lists(u, lo, hi, v, a, b) /\ t \in Tables(Secrets) /\ Keyed(t, u, h, lo, hi, v, a, b) /\ Chained(t, u, h, lo, hi)
      /\ t.nrused = hi - lo + 1
  BY DEF Laid
<1>2. lo \in Int /\ hi \in Int /\ a \in Int /\ b \in Int /\ lo <= hi + 1 /\ a <= b + 1 /\ u \in [Int -> Entry]
  BY <1>1 DEF Lists
<1>3. hi - lo < NrEntries
  BY <1>2, Numbers DEF Laid
<1> DEFINE c == cache_hash[key]
           e == t.buckets[c]
           w == Walk(e, t.next)
           hits == {n \in 0..NrEntries : w[n] # 0 /\ t.key[w[n]] = key}
<1>4. c \in Bucket
  BY HashAssumption
<1> HIDE DEF c
<1>5. e \in Pointer /\ t.next \in [Entry -> Pointer] /\ LastOf(e, u, h, lo, hi, c) /\ Chain(t.next, u, h, lo, hi)
  BY <1>1, <1>4, Fields DEF Chained
<1> HIDE DEF e
<1>6. Members(e, t.next) = InBucket(u, h, lo, hi, c)
  BY <1>1, <1>2, <1>3, <1>5, ChainMembers DEF Lists
<1>7. DOMAIN w = 0..NrEntries
  BY <1>5, WalkIs DEF IsWalk, Pointer
<1>8. Members(e, t.next) = Range(w) \ {0}
  BY DEF Members
<1>9. cache_get(t, key) = IF t.nrused = 0 \/ hits = {} THEN 0 ELSE w[Min(hits)]
  BY DEF cache_get, w, e, c
<1> HIDE DEF w
<1>10. ASSUME NEW i \in lo..hi, t.key[u[i]] = key PROVE hits # {} /\ t.nrused # 0
  <2>1. h[i] = c
    BY <1>1, <1>10 DEF Keyed, c
  <2>2. u[i] \in Range(w) /\ u[i] # 0
    BY <1>6, <1>8, <2>1 DEF InBucket
  <2>3. PICK n \in 0..NrEntries : w[n] = u[i]
    BY <1>7, <2>2 DEF Range
  <2>4. lo <= hi
    BY <1>2
  <2> QED
    BY <1>1, <1>2, <1>10, <2>2, <2>3, <2>4
<1>11. ASSUME hits # {} PROVE Min(hits) \in hits
  <2>1. hits \in SUBSET Nat
    BY Numbers
  <2> QED
    BY <1>11, <2>1, MinIn
<1>12. ASSUME NEW n \in hits PROVE t.value[w[n]] = Secret(key)
  <2>1. w[n] \in Range(w) /\ w[n] # 0 /\ t.key[w[n]] = key
    BY <1>7 DEF Range
  <2>2. w[n] \in InBucket(u, h, lo, hi, c)
    BY <1>6, <1>8, <2>1
  <2>3. PICK i \in lo..hi : w[n] = u[i]
    BY <2>2 DEF InBucket
  <2> QED
    BY <1>1, <2>1, <2>3 DEF Keyed
<1> DEFINE g == cache_get(t, key)
<1> HIDE DEF hits
<1>13. g # 0 => t.value[g] = Secret(key)
  BY <1>9, <1>11, <1>12
<1>14. ASSUME g = 0 PROVE \A i \in lo..hi : t.key[u[i]] # key
  <2>1. ASSUME hits # {}, t.nrused # 0 PROVE FALSE
    <3>1. w[Min(hits)] = 0 /\ Min(hits) \in hits
      BY <1>9, <1>11, <1>14, <2>1
    <3> QED
      BY <3>1 DEF hits
  <2> QED
    BY <1>10, <2>1
<1> QED
  BY <1>13, <1>14

----------------------------------------------------------------------------
(* A new table; an entry taken for a new key, unused or the oldest. *)

\* A table while cache_set works on it: entry x is in neither list.
Half(t, u, h, lo, hi, v, a, b, x) ==
  /\ t \in Tables(Secrets) /\ x \in Entry
  /\ Lists(u, lo, hi, v, a, b) /\ x \notin Run(u, lo, hi) /\ x \notin Run(v, a, b) /\ Covered(u, lo, hi, v, a, b, {x})
  /\ (hi - lo + 1) + (b - a + 1) + 1 = NrEntries /\ t.nrused = hi - lo + 2
  /\ Listed(t, u, lo, hi, v, a, b) /\ t.headused = (IF lo <= hi THEN u[lo] ELSE x)
  /\ Keyed(t, u, h, lo, hi, v, a, b) /\ Chained(t, u, h, lo, hi)

\* cache_init: all entries unused.
LEMMA InitLaid == IsTable(cache_init)
<1> DEFINE t == cache_init
           v == [i \in Int |-> IF i \in Entry THEN i ELSE 1]
           h == [i \in Int |-> 0]
<1>0. NrEntries \in Nat /\ NrEntries > 1 /\ 1 \in Entry /\ 0 \in Bucket /\ Entry = 1..NrEntries /\ Pointer = 0..NrEntries
  BY HashAssumption DEF Entry, Bucket, Pointer
<1>1. /\ t.next = [e \in Entry |-> 0] /\ t.prev = [e \in Entry |-> 0] /\ t.key = [e \in Entry |-> None]
      /\ t.nexttable = [e \in Entry |-> IF e < NrEntries THEN e + 1 ELSE 0] /\ t.value = [e \in Entry |-> None]
      /\ t.buckets = [c \in Bucket |-> 0] /\ t.headunused = 1 /\ t.headused = 0 /\ t.lastused = 0 /\ t.nrused = 0
  BY DEF cache_init
<1>2. t \in Tables(Secrets)
  <2>1. [e \in Entry |-> IF e < NrEntries THEN e + 1 ELSE 0] \in [Entry -> Pointer]
    BY <1>0
  <2>2. [e \in Entry |-> 0] \in [Entry -> Pointer] /\ [c \in Bucket |-> 0] \in [Bucket -> Pointer] /\ 1 \in Pointer /\ 0 \in Pointer
    BY <1>0
  <2> QED
    BY <2>1, <2>2 DEF cache_init, Tables
<1> HIDE DEF t
<1>3. v \in [Int -> Entry] /\ h \in [Int -> Bucket] /\ \A i \in 1..NrEntries : v[i] = i
  BY <1>0
<1> HIDE DEF v, h
<1>4. Lists(v, 1, 0, v, 1, NrEntries)
  BY <1>0, <1>3 DEF Lists
<1>5. Covered(v, 1, 0, v, 1, NrEntries, {})
  BY <1>0, <1>3 DEF Covered, Run
<1>6. Listed(t, v, 1, 0, v, 1, NrEntries) /\ t.headused = First(v, 1, 0)
  <2>1. Strung(t.nexttable, v, 1, NrEntries)
    <3> SUFFICES ASSUME NEW i \in 1..NrEntries
                 PROVE t.nexttable[v[i]] = IF i < NrEntries THEN v[i + 1] ELSE 0
      BY DEF Strung
    <3>1. v[i] = i /\ i \in Entry /\ (i < NrEntries => v[i + 1] = i + 1)
      BY <1>0, <1>3
    <3> QED
      BY <1>1, <3>1
  <2>2. Strung(t.nexttable, v, 1, 0)
    BY DEF Strung
  <2>3. First(v, 1, NrEntries) = 1 /\ First(v, 1, 0) = 0
    BY <1>0, <1>3 DEF First
  <2> QED
    BY <1>1, <2>1, <2>2, <2>3 DEF Listed
<1>7. Keyed(t, v, h, 1, 0, v, 1, NrEntries)
  BY <1>0, <1>1, <1>3 DEF Keyed
<1>8. Chained(t, v, h, 1, 0)
  BY <1>1 DEF Chained, Chain, LastOf
<1>9. Laid(t, v, h, 1, 0, v, 1, NrEntries)
  <2>1. (0 - 1 + 1) + (NrEntries - 1 + 1) = NrEntries /\ t.nrused = 0 - 1 + 1
    BY <1>0, <1>1
  <2> QED
    BY <1>2, <1>4, <1>5, <1>6, <1>7, <1>8, <2>1 DEF Laid
<1> QED
  BY <1>9 DEF IsTable, t

\* The first unused entry is taken.
LEMMA TakeHalf ==
  ASSUME NEW t, NEW u, NEW h, NEW lo, NEW hi, NEW v, NEW a, NEW b, Laid(t, u, h, lo, hi, v, a, b), a <= b
  PROVE  Half(Take(t), u, h, lo, hi, v, a + 1, b, v[a]) /\ t.headunused = v[a]
<1> DEFINE r == Take(t)
<1>1. Lists(u, lo, hi, v, a, b) /\ t \in Tables(Secrets) /\ Listed(t, u, lo, hi, v, a, b) /\ t.headused = First(u, lo, hi)
      /\ Keyed(t, u, h, lo, hi, v, a, b) /\ Chained(t, u, h, lo, hi) /\ Covered(u, lo, hi, v, a, b, {}) /\ t.nrused = hi - lo + 1
  BY DEF Laid
<1>2. lo \in Int /\ hi \in Int /\ a \in Int /\ b \in Int /\ lo <= hi + 1 /\ u \in [Int -> Entry] /\ v \in [Int -> Entry]
      /\ a \in a..b /\ (a + 1)..b \subseteq a..b /\ a + 1 <= b + 1 /\ v[a] \in Entry
  BY <1>1 DEF Lists
<1>3. t.headunused = v[a] /\ t.nexttable[v[a]] = IF a < b THEN v[a + 1] ELSE 0
  BY <1>1, <1>2 DEF Listed, First, Strung
<1>4. t.headused = 0 <=> ~(lo <= hi)
  BY <1>1, <1>2, Numbers DEF First
<1>5. /\ r.next = t.next /\ r.prev = t.prev /\ r.key = t.key /\ r.value = t.value /\ r.buckets = t.buckets
      /\ r.nexttable = t.nexttable /\ r.lastused = t.lastused
      /\ r.nrused = t.nrused + 1 /\ r.headunused = t.nexttable[t.headunused]
      /\ r.headused = (IF t.headused = 0 THEN t.headunused ELSE t.headused)
  BY <1>1 DEF Take, Tables
<1>6. r \in Tables(Secrets)
  <2>1. t.nexttable[t.headunused] \in Pointer /\ t.headunused \in Pointer
    BY <1>1, <1>2, <1>3, Fields
  <2>2. (IF t.headused = 0 THEN t.headunused ELSE t.headused) \in Pointer
    BY <1>1, <2>1, Fields
  <2>3. t.nrused + 1 \in Nat /\ t \in Tables(Secrets)
    BY <1>1, Fields
  <2> QED
    BY <2>1, <2>2, <2>3 DEF Take, Tables
<1> HIDE DEF r
<1>7. Lists(u, lo, hi, v, a + 1, b)
  BY <1>1, <1>2 DEF Lists
<1>8. v[a] \notin Run(u, lo, hi) /\ v[a] \notin Run(v, a + 1, b)
  <2>1. \A i \in lo..hi : u[i] # v[a]
    BY <1>1, <1>2 DEF Lists
  <2>2. \A j \in (a + 1)..b : v[j] # v[a]
    <3> SUFFICES ASSUME NEW j \in (a + 1)..b, v[j] = v[a] PROVE FALSE
      OBVIOUS
    <3>1. j \in a..b /\ j # a
      BY <1>2
    <3> QED
      BY <1>1, <1>2, <3>1 DEF Lists
  <2> QED
    BY <2>1, <2>2 DEF Run
<1>9. Covered(u, lo, hi, v, a + 1, b, {v[a]})
  <2> SUFFICES ASSUME NEW e \in Entry, e # v[a], e \notin Run(u, lo, hi) PROVE e \in Run(v, a + 1, b)
    BY DEF Covered
  <2>1. PICK j \in a..b : e = v[j]
    BY <1>1 DEF Covered, Run
  <2>2. j \in (a + 1)..b
    BY <1>2, <2>1
  <2> QED
    BY <2>1, <2>2 DEF Run
<1>10. Listed(r, u, lo, hi, v, a + 1, b)
  <2>1. Strung(t.nexttable, v, a + 1, b)
    BY <1>1, <1>2 DEF Listed, Strung
  <2>2. t.nexttable[v[a]] = First(v, a + 1, b)
    BY <1>2, <1>3 DEF First
  <2> QED
    BY <1>1, <1>3, <1>5, <2>1, <2>2 DEF Listed
<1>11. Keyed(r, u, h, lo, hi, v, a + 1, b)
  BY <1>1, <1>2, <1>5 DEF Keyed
<1>12. Chained(r, u, h, lo, hi)
  BY <1>1, <1>5 DEF Chained
<1>13. r.headused = IF lo <= hi THEN u[lo] ELSE v[a]
  BY <1>1, <1>3, <1>4, <1>5 DEF First
<1>14. (hi - lo + 1) + (b - (a + 1) + 1) + 1 = NrEntries /\ r.nrused = hi - lo + 2
  BY <1>1, <1>2, <1>5 DEF Laid
<1> QED
  BY <1>2, <1>3, <1>6, <1>7, <1>8, <1>9, <1>10, <1>11, <1>12, <1>13, <1>14 DEF Half, r

\* The oldest entry is taken: it is the last of its chain, and the first of
\* its bucket to have been inserted, so its bucket or the next newer entry of
\* it ends there.
LEMMA EvictHalf ==
  ASSUME NEW t, NEW u, NEW h, NEW lo, NEW hi, NEW v, NEW a, NEW b, Laid(t, u, h, lo, hi, v, a, b), b < a
  PROVE  Half(Evict(t), u, h, lo + 1, hi, v, a, b, u[lo]) /\ t.headused = u[lo]
<1> DEFINE r == Evict(t)
           x == u[lo]
           p == t.prev[x]
<1>1. Lists(u, lo, hi, v, a, b) /\ t \in Tables(Secrets) /\ Listed(t, u, lo, hi, v, a, b) /\ t.headused = First(u, lo, hi)
      /\ Keyed(t, u, h, lo, hi, v, a, b) /\ Chained(t, u, h, lo, hi) /\ Covered(u, lo, hi, v, a, b, {}) /\ t.nrused = hi - lo + 1
      /\ (hi - lo + 1) + (b - a + 1) = NrEntries
  BY DEF Laid
<1>2. lo \in Int /\ hi \in Int /\ a \in Int /\ b \in Int /\ a <= b + 1 /\ u \in [Int -> Entry] /\ v \in [Int -> Entry] /\ b - a + 1 = 0
  BY <1>1 DEF Lists
<1>3. lo < hi /\ lo \in lo..hi /\ (lo + 1)..hi \subseteq lo..hi /\ lo + 1 <= hi + 1 /\ x \in Entry
  BY <1>1, <1>2, Numbers
<1>4. t.headused = x /\ t.nexttable[x] = u[lo + 1]
  BY <1>1, <1>2, <1>3 DEF Listed, First, Strung
<1>5. cache_hash[t.key[x]] = h[lo] /\ h \in [Int -> Bucket]
  BY <1>1, <1>3 DEF Keyed
<1>6. FirstOf(p, u, h, lo + 1, hi, h[lo]) /\ p \in Pointer
  BY <1>1, <1>3, Fields DEF Chained
<1> HIDE DEF p
<1>7. /\ r.prev = t.prev /\ r.key = t.key /\ r.value = t.value
      /\ r.nexttable = t.nexttable /\ r.lastused = t.lastused
      /\ r.nrused = t.nrused /\ r.headunused = t.headunused
      /\ r.headused = t.nexttable[x]
      /\ r.next = (IF p # 0 THEN [t.next EXCEPT ![p] = 0] ELSE t.next)
      /\ r.buckets = (IF p # 0 THEN t.buckets ELSE [t.buckets EXCEPT ![h[lo]] = 0])
  BY <1>1, <1>4, <1>5 DEF Evict, Tables, p
<1>8. r \in Tables(Secrets)
  <2>1. t.nexttable[x] \in Pointer /\ 0 \in Pointer
    BY <1>1, <1>3, Fields, Numbers
  <2>2. (IF p # 0 THEN [t.next EXCEPT ![p] = 0] ELSE t.next) \in [Entry -> Pointer]
    BY <1>1, <2>1, Fields
  <2>3. (IF p # 0 THEN t.buckets ELSE [t.buckets EXCEPT ![h[lo]] = 0]) \in [Bucket -> Pointer]
    BY <1>1, <2>1, Fields
  <2> QED
    BY <1>1, <1>4, <1>5, <2>1, <2>2, <2>3 DEF Evict, Tables, p
<1> HIDE DEF r
<1>9. \A i \in (lo + 1)..hi : i \in lo..hi /\ i # lo /\ u[i] # x /\ u[i] \in Entry /\ u[i] # 0
  <2> SUFFICES ASSUME NEW i \in (lo + 1)..hi PROVE i \in lo..hi /\ i # lo /\ u[i] # x /\ u[i] \in Entry /\ u[i] # 0
    OBVIOUS
  <2>1. i \in lo..hi /\ i # lo /\ u[i] \in Entry
    BY <1>2, <1>3
  <2>2. u[i] # x
    BY <1>1, <1>3, <2>1 DEF Lists
  <2> QED
    BY <2>1, <2>2, Numbers
<1>10. Lists(u, lo + 1, hi, v, a, b)
  BY <1>1, <1>2, <1>3 DEF Lists
<1>11. x \notin Run(u, lo + 1, hi) /\ x \notin Run(v, a, b)
  BY <1>2, <1>9 DEF Run
<1>12. Covered(u, lo + 1, hi, v, a, b, {x})
  <2> SUFFICES ASSUME NEW e \in Entry, e # x, e \notin Run(v, a, b) PROVE e \in Run(u, lo + 1, hi)
    BY DEF Covered
  <2>1. PICK i \in lo..hi : e = u[i]
    BY <1>1 DEF Covered, Run
  <2>2. i \in (lo + 1)..hi
    BY <1>2, <2>1
  <2> QED
    BY <2>1, <2>2 DEF Run
<1>13. Listed(r, u, lo + 1, hi, v, a, b)
  <2>1. Strung(t.nexttable, u, lo + 1, hi)
    BY <1>1, <1>3 DEF Listed, Strung
  <2> QED
    BY <1>1, <1>2, <1>3, <1>7, <2>1 DEF Listed
<1>14. Keyed(r, u, h, lo + 1, hi, v, a, b)
  BY <1>1, <1>3, <1>7 DEF Keyed
<1>15. ASSUME NEW c \in Bucket PROVE LastOf(r.buckets[c], u, h, lo + 1, hi, c)
  <2>1. LastOf(t.buckets[c], u, h, lo, hi, c)
    BY <1>1 DEF Chained
  <2>2. CASE c = h[lo] /\ p = 0
    <3>1. r.buckets[c] = 0
      BY <1>1, <1>7, <2>2, Fields
    <3>2. \A m \in (lo + 1)..hi : h[m] # c
      BY <1>6, <1>9, <2>2 DEF FirstOf
    <3> QED
      BY <3>1, <3>2 DEF LastOf
  <2>3. CASE ~(c = h[lo] /\ p = 0)
    <3>1. r.buckets[c] = t.buckets[c]
      BY <1>1, <1>7, <2>3, Fields
    <3>2. CASE t.buckets[c] = 0 /\ \A m \in lo..hi : h[m] # c
      BY <1>3, <3>1, <3>2 DEF LastOf
    <3>3. CASE \E j \in lo..hi : h[j] = c /\ t.buckets[c] = u[j] /\ \A m \in (j + 1)..hi : h[m] # c
      <4>1. PICK j \in lo..hi : h[j] = c /\ t.buckets[c] = u[j] /\ \A m \in (j + 1)..hi : h[m] # c
        BY <3>3
      <4>2. j # lo
        <5> SUFFICES ASSUME j = lo PROVE FALSE
          OBVIOUS
        <5>1. p # 0
          BY <2>3, <4>1
        <5>2. PICK k \in (lo + 1)..hi : h[k] = h[lo]
          BY <1>6, <5>1 DEF FirstOf
        <5> QED
          BY <4>1, <5>2
      <4>3. j \in (lo + 1)..hi
        BY <1>2, <4>2
      <4> QED
        BY <3>1, <4>1, <4>3 DEF LastOf
    <3> QED
      BY <2>1, <3>2, <3>3 DEF LastOf
  <2> QED
    BY <2>2, <2>3
<1>16. ASSUME NEW i \in (lo + 1)..hi PROVE LastOf(r.next[u[i]], u, h, lo + 1, i - 1, h[i])
  <2>1. LastOf(t.next[u[i]], u, h, lo, i - 1, h[i])
    BY <1>1, <1>9 DEF Chained, Chain
  <2>2. CASE p = u[i]
    <3>1. p # 0
      BY <1>9, <2>2
    <3>2. r.next[u[i]] = 0
      BY <1>1, <1>7, <1>9, <2>2, <3>1, Fields
    <3>3. PICK k \in (lo + 1)..hi : h[k] = h[lo] /\ p = u[k] /\ \A m \in (lo + 1)..(k - 1) : h[m] # h[lo]
      BY <1>6, <3>1 DEF FirstOf
    <3>4. k = i
      BY <1>1, <1>9, <2>2, <3>3 DEF Lists
    <3> QED
      BY <3>2, <3>3, <3>4 DEF LastOf
  <2>3. CASE p # u[i]
    <3>1. r.next[u[i]] = t.next[u[i]]
      BY <1>1, <1>7, <1>9, <2>3, Fields
    <3>2. CASE t.next[u[i]] = 0 /\ \A m \in lo..(i - 1) : h[m] # h[i]
      <4>1. (lo + 1)..(i - 1) \subseteq lo..(i - 1)
        BY <1>2
      <4> QED
        BY <3>1, <3>2, <4>1 DEF LastOf
    <3>3. CASE \E j \in lo..(i - 1) : h[j] = h[i] /\ t.next[u[i]] = u[j] /\ \A m \in (j + 1)..(i - 1) : h[m] # h[i]
      <4>1. PICK j \in lo..(i - 1) : h[j] = h[i] /\ t.next[u[i]] = u[j] /\ \A m \in (j + 1)..(i - 1) : h[m] # h[i]
        BY <3>3
      <4>2. j # lo
        <5> SUFFICES ASSUME j = lo PROVE FALSE
          OBVIOUS
        <5>1. PICK k \in (lo + 1)..hi : h[k] = h[lo] /\ p = u[k] /\ \A m \in (lo + 1)..(k - 1) : h[m] # h[lo]
          BY <1>6, <4>1 DEF FirstOf
        <5>2. ~(k < i)
          <6> SUFFICES ASSUME k < i PROVE FALSE
            OBVIOUS
          <6>1. k \in (j + 1)..(i - 1)
            BY <1>2
          <6> QED
            BY <4>1, <5>1, <6>1
        <5>3. ~(i < k)
          <6> SUFFICES ASSUME i < k PROVE FALSE
            OBVIOUS
          <6>1. i \in (lo + 1)..(k - 1)
            BY <1>2
          <6> QED
            BY <4>1, <5>1, <6>1
        <5>4. k = i
          BY <1>2, <5>2, <5>3
        <5> QED
          BY <2>3, <5>1, <5>4
      <4>3. j \in (lo + 1)..(i - 1)
        BY <1>2, <4>2
      <4> QED
        BY <3>1, <4>1, <4>3 DEF LastOf
    <3> QED
      BY <2>1, <3>2, <3>3 DEF LastOf
  <2> QED
    BY <2>2, <2>3
<1>17. Chained(r, u, h, lo + 1, hi)
  <2>1. \A i \in (lo + 1)..hi : FirstOf(r.prev[u[i]], u, h, i + 1, hi, h[i])
    BY <1>1, <1>7, <1>9 DEF Chained
  <2> QED
    BY <1>15, <1>16, <2>1 DEF Chained, Chain
<1>18. r.headused = IF lo + 1 <= hi THEN u[lo + 1] ELSE x
  BY <1>2, <1>3, <1>4, <1>7
<1>19. (hi - (lo + 1) + 1) + (b - a + 1) + 1 = NrEntries /\ r.nrused = hi - (lo + 1) + 2
  BY <1>1, <1>2, <1>7
<1> QED
  BY <1>3, <1>4, <1>8, <1>10, <1>11, <1>12, <1>13, <1>14, <1>17, <1>18, <1>19 DEF Half, r

----------------------------------------------------------------------------
(* The entry taken becomes the newest. *)

\* LastOf looks at the sequence up to k only.
LEMMA LastSame ==
  ASSUME NEW x, NEW u, NEW h, NEW w, NEW g, NEW lo \in Int, NEW k \in Int, NEW c,
         LastOf(x, u, h, lo, k, c), \A i \in lo..k : w[i] = u[i] /\ g[i] = h[i]
  PROVE  LastOf(x, w, g, lo, k, c)
<1>1. CASE x = 0 /\ \A m \in lo..k : h[m] # c
  BY <1>1 DEF LastOf
<1>2. CASE \E j \in lo..k : h[j] = c /\ x = u[j] /\ \A m \in (j + 1)..k : h[m] # c
  <2>1. PICK j \in lo..k : h[j] = c /\ x = u[j] /\ \A m \in (j + 1)..k : h[m] # c
    BY <1>2
  <2>2. (j + 1)..k \subseteq lo..k
    OBVIOUS
  <2>3. \A m \in (j + 1)..k : g[m] # c
    BY <2>1, <2>2
  <2> QED
    BY <2>1, <2>3 DEF LastOf
<1> QED
  BY <1>1, <1>2 DEF LastOf

\* The entry taken becomes the newest of the table and of its bucket: all
\* links again follow from the order of age.
LEMMA InsertLaid ==
  ASSUME NEW t, NEW u, NEW h, NEW lo, NEW hi, NEW v, NEW a, NEW b, NEW x, NEW key \in Key,
         Half(t, u, h, lo, hi, v, a, b, x), \A i \in lo..hi : t.key[u[i]] # key
  PROVE  Laid(Insert(t, x, key, Secret(key)), [u EXCEPT ![hi + 1] = x], [h EXCEPT ![hi + 1] = cache_hash[key]],
              lo, hi + 1, v, a, b)
<1> DEFINE r == Insert(t, x, key, Secret(key))
           c == cache_hash[key]
           first == t.buckets[c]
           last == t.lastused
           w == [u EXCEPT ![hi + 1] = x]
           g == [h EXCEPT ![hi + 1] = c]
           n == hi + 1
<1>1. /\ t \in Tables(Secrets) /\ x \in Entry /\ Lists(u, lo, hi, v, a, b) /\ Listed(t, u, lo, hi, v, a, b)
      /\ x \notin Run(u, lo, hi) /\ x \notin Run(v, a, b) /\ Covered(u, lo, hi, v, a, b, {x})
      /\ (hi - lo + 1) + (b - a + 1) + 1 = NrEntries /\ t.nrused = hi - lo + 2
      /\ Keyed(t, u, h, lo, hi, v, a, b) /\ Chained(t, u, h, lo, hi)
      /\ t.headused = (IF lo <= hi THEN u[lo] ELSE x)
  BY DEF Half
<1>2. lo \in Int /\ hi \in Int /\ a \in Int /\ b \in Int /\ lo <= hi + 1 /\ a <= b + 1
      /\ u \in [Int -> Entry] /\ v \in [Int -> Entry] /\ h \in [Int -> Bucket]
  BY <1>1 DEF Lists, Keyed
<1>3. c \in Bucket /\ first \in Pointer /\ last \in Pointer /\ (last # 0 => last \in Entry)
  <2>1. c \in Bucket
    BY HashAssumption
  <2>2. first \in Pointer /\ last \in Pointer
    BY <1>1, <2>1, Fields
  <2> QED
    BY <2>1, <2>2, Numbers DEF Pointer, Entry
<1>4. last = (IF lo <= hi THEN u[hi] ELSE 0) /\ (lo <= hi => hi \in lo..hi)
  BY <1>1, <1>2 DEF Listed
<1>5. LastOf(first, u, h, lo, hi, c)
  BY <1>1, <1>3 DEF Chained
<1> DEFINE chained == [t.nexttable EXCEPT ![x] = 0]
<1>6. /\ r.key = [t.key EXCEPT ![x] = key] /\ r.value = [t.value EXCEPT ![x] = Secret(key)] /\ r.lastused = x
      /\ r.nexttable = (IF last = 0 THEN chained ELSE [chained EXCEPT ![last] = x])
      /\ r.next = [t.next EXCEPT ![x] = first]
      /\ r.prev = [y \in Entry |-> IF y = x THEN 0 ELSE IF y = first THEN x ELSE t.prev[y]]
      /\ r.buckets = [t.buckets EXCEPT ![c] = x]
      /\ r.headused = t.headused /\ r.headunused = t.headunused /\ r.nrused = t.nrused
  BY <1>1, SMTT(40) DEF Insert, Tables
<1> HIDE DEF c
<1>7. r \in Tables(Secrets)
  <2>1. x \in Pointer /\ 0 \in Pointer /\ Secret(key) \in Secrets
    BY <1>1, Numbers DEF Secrets
  <2>2. chained \in [Entry -> Pointer]
    BY <1>1, <2>1, Fields
  <2>3. (IF last = 0 THEN chained ELSE [chained EXCEPT ![last] = x]) \in [Entry -> Pointer]
    BY <2>1, <2>2
  <2>4. [t.next EXCEPT ![x] = first] \in [Entry -> Pointer] /\ [t.buckets EXCEPT ![c] = x] \in [Bucket -> Pointer]
    BY <1>1, <1>3, <2>1, Fields
  <2>5. [y \in Entry |-> IF y = x THEN 0 ELSE IF y = first THEN x ELSE t.prev[y]] \in [Entry -> Pointer]
    BY <1>1, <2>1, Fields
  <2>6. [t.key EXCEPT ![x] = key] \in [Entry -> Key \cup {None}] /\ [t.value EXCEPT ![x] = Secret(key)] \in [Entry -> Secrets \cup {None}]
    BY <1>1, <2>1, Fields
  <2>7. t.headused \in Pointer /\ t.headunused \in Pointer /\ t.nrused \in Nat /\ t \in Tables(Secrets)
    BY <1>1, Fields
  <2> QED
    BY <2>1, <2>3, <2>4, <2>5, <2>6, <2>7 DEF Insert, Tables, c
<1>8. /\ w \in [Int -> Entry] /\ g \in [Int -> Bucket] /\ w[n] = x /\ g[n] = c /\ n \in Int /\ n \in lo..n
      /\ \A i \in lo..hi : w[i] = u[i] /\ g[i] = h[i] /\ i \in lo..n /\ i # n /\ u[i] # x /\ u[i] \in Entry
      /\ \A i \in lo..n : i = n \/ i \in lo..hi
  <2>1. w \in [Int -> Entry] /\ g \in [Int -> Bucket] /\ w[n] = x /\ g[n] = c /\ n \in Int /\ n \in lo..n
    BY <1>1, <1>2, <1>3
  <2>2. \A i \in lo..hi : w[i] = u[i] /\ g[i] = h[i] /\ i \in lo..n /\ i # n /\ u[i] \in Entry
    BY <1>2
  <2>3. \A i \in lo..hi : u[i] # x
    BY <1>1 DEF Run
  <2>4. \A i \in lo..n : i = n \/ i \in lo..hi
    BY <1>2
  <2> QED
    BY <2>1, <2>2, <2>3, <2>4
<1>9. \A j \in a..b : v[j] # x /\ v[j] \in Entry /\ \A i \in lo..hi : v[j] # u[i]
  BY <1>1, <1>2 DEF Run, Lists
<1> HIDE DEF r, w, g
<1>10. Lists(w, lo, n, v, a, b)
  <2>1. ASSUME NEW i \in lo..n, NEW j \in lo..n, w[i] = w[j] PROVE i = j
    <3>1. CASE i \in lo..hi /\ j \in lo..hi
      BY <1>1, <1>8, <2>1, <3>1 DEF Lists
    <3>2. CASE i = n \/ j = n
      BY <1>8, <2>1, <3>2
    <3> QED
      BY <1>8, <3>1, <3>2
  <2>2. \A i \in lo..n, j \in a..b : w[i] # v[j]
    BY <1>8, <1>9
  <2>3. \A i, j \in a..b : v[i] = v[j] => i = j
    BY <1>1 DEF Lists
  <2>4. lo <= n + 1
    BY <1>2
  <2> QED
    BY <1>2, <1>8, <2>1, <2>2, <2>3, <2>4 DEF Lists
<1>11. Covered(w, lo, n, v, a, b, {})
  <2> SUFFICES ASSUME NEW e \in Entry, e \notin Run(v, a, b) PROVE e \in Run(w, lo, n)
    BY DEF Covered
  <2>1. CASE e = x
    BY <1>8, <2>1 DEF Run
  <2>2. CASE e # x
    <3>1. PICK i \in lo..hi : e = u[i]
      BY <1>1, <2>2 DEF Covered, Run
    <3>2. i \in lo..n /\ e = w[i]
      BY <1>8, <3>1
    <3> QED
      BY <3>2 DEF Run
  <2> QED
    BY <2>1, <2>2
<1>12. Listed(r, w, lo, n, v, a, b)
  <2>1. chained \in [Entry -> Pointer] /\ r.nexttable \in [Entry -> Pointer]
        /\ \A e \in Entry : r.nexttable[e] = IF last # 0 /\ e = last THEN x ELSE IF e = x THEN 0 ELSE t.nexttable[e]
    <3>1. t.nexttable \in [Entry -> Pointer] /\ 0 \in Pointer
      BY <1>1, Fields, Numbers
    <3>2. chained \in [Entry -> Pointer] /\ \A e \in Entry : chained[e] = IF e = x THEN 0 ELSE t.nexttable[e]
      BY <1>1, <3>1
    <3>3. r.nexttable \in [Entry -> Pointer]
      BY <1>7, Fields
    <3> HIDE DEF chained
    <3> QED
      BY <1>6, <3>2, <3>3
  <2>2. ASSUME NEW i \in lo..n PROVE r.nexttable[w[i]] = IF i < n THEN w[i + 1] ELSE 0
    <3>1. CASE i = n
      <4>1. x # last
        BY <1>4, <1>8, <1>1, Numbers
      <4> QED
        BY <1>1, <1>2, <1>8, <2>1, <3>1, <4>1
    <3>2. CASE i = hi /\ i \in lo..hi
      <4>1. last = u[hi] /\ last # 0 /\ w[i] = last /\ u[hi] \in Entry
        BY <1>2, <1>4, <1>8, <3>2, Numbers
      <4>2. i < n /\ i + 1 = n
        BY <1>2, <3>2
      <4> QED
        BY <1>8, <2>1, <4>1, <4>2
    <3>3. CASE i # hi /\ i \in lo..hi
      <4>1. i < hi /\ i < n /\ i + 1 \in lo..hi /\ lo <= hi /\ hi \in lo..hi
        BY <1>2, <3>3
      <4>2. u[i] # last
        BY <1>1, <1>4, <3>3, <4>1 DEF Lists
      <4>3. t.nexttable[u[i]] = u[i + 1]
        BY <1>1, <3>3, <4>1 DEF Listed, Strung
      <4> QED
        BY <1>8, <2>1, <3>3, <4>1, <4>2, <4>3
    <3> QED
      BY <1>8, <3>1, <3>2, <3>3
  <2>3. ASSUME NEW j \in a..b PROVE r.nexttable[v[j]] = IF j < b THEN v[j + 1] ELSE 0
    <3>1. v[j] # x /\ v[j] \in Entry /\ (last # 0 => v[j] # last)
      BY <1>4, <1>9
    <3>2. t.nexttable[v[j]] = IF j < b THEN v[j + 1] ELSE 0
      BY <1>1 DEF Listed, Strung
    <3> QED
      BY <2>1, <3>1, <3>2
  <2>4. r.lastused = (IF lo <= n THEN w[n] ELSE 0) /\ r.headunused = First(v, a, b)
    BY <1>1, <1>2, <1>6, <1>8 DEF Listed
  <2> QED
    BY <2>2, <2>3, <2>4 DEF Listed, Strung
<1>13. r.headused = First(w, lo, n)
  <2>1. CASE lo <= hi
    <3>1. lo \in lo..hi /\ lo <= n
      BY <1>2, <2>1
    <3> QED
      BY <1>1, <1>6, <1>8, <2>1, <3>1 DEF First
  <2>2. CASE ~(lo <= hi)
    <3>1. lo = n
      BY <1>2, <2>2
    <3> QED
      BY <1>1, <1>2, <1>6, <1>8, <2>2, <3>1 DEF First
  <2> QED
    BY <2>1, <2>2
<1>14. Keyed(r, w, g, lo, n, v, a, b)
  <2>1. /\ r.key[x] = key /\ r.value[x] = Secret(key)
        /\ \A e \in Entry \ {x} : r.key[e] = t.key[e] /\ r.value[e] = t.value[e]
    BY <1>1, <1>6, Fields
  <2>2. \A i \in lo..hi : r.key[w[i]] = t.key[u[i]] /\ r.value[w[i]] = t.value[u[i]]
    BY <1>8, <2>1
  <2>3. ASSUME NEW i \in lo..n
        PROVE  r.key[w[i]] \in Key /\ g[i] = cache_hash[r.key[w[i]]] /\ r.value[w[i]] = Secret(r.key[w[i]])
    <3>1. CASE i = n
      BY <1>8, <2>1, <3>1 DEF c
    <3>2. CASE i \in lo..hi
      BY <1>1, <1>8, <2>2, <3>2 DEF Keyed
    <3> QED
      BY <1>8, <3>1, <3>2
  <2>4. ASSUME NEW i \in lo..n, NEW j \in lo..n, r.key[w[i]] = r.key[w[j]] PROVE i = j
    <3>1. CASE i \in lo..hi /\ j \in lo..hi
      BY <1>1, <2>2, <2>4, <3>1 DEF Keyed
    <3>2. CASE i = n /\ j \in lo..hi
      BY <1>8, <2>1, <2>2, <2>4, <3>2
    <3>3. CASE j = n /\ i \in lo..hi
      BY <1>8, <2>1, <2>2, <2>4, <3>3
    <3> QED
      BY <1>8, <3>1, <3>2, <3>3
  <2>5. \A j \in a..b : r.key[v[j]] = None
    BY <1>1, <1>9, <2>1 DEF Keyed
  <2> QED
    BY <1>8, <2>3, <2>4, <2>5 DEF Keyed
<1>15. ASSUME NEW d \in Bucket PROVE LastOf(r.buckets[d], w, g, lo, n, d)
  <2>1. CASE d = c
    <3>1. r.buckets[d] = x
      BY <1>1, <1>3, <1>6, <2>1, Fields
    <3>2. (n + 1)..n = {}
      BY <1>8
    <3> QED
      BY <1>8, <2>1, <3>1, <3>2 DEF LastOf
  <2>2. CASE d # c
    <3>1. r.buckets[d] = t.buckets[d]
      BY <1>1, <1>6, <2>2, Fields
    <3>2. LastOf(t.buckets[d], w, g, lo, hi, d)
      <4>1. LastOf(t.buckets[d], u, h, lo, hi, d)
        BY <1>1 DEF Chained
      <4> QED
        BY <1>2, <1>8, <4>1, LastSame
    <3>3. CASE t.buckets[d] = 0 /\ \A m \in lo..hi : g[m] # d
      BY <1>8, <2>2, <3>1, <3>3 DEF LastOf
    <3>4. CASE \E j \in lo..hi : g[j] = d /\ t.buckets[d] = w[j] /\ \A m \in (j + 1)..hi : g[m] # d
      <4>1. PICK j \in lo..hi : g[j] = d /\ t.buckets[d] = w[j] /\ \A m \in (j + 1)..hi : g[m] # d
        BY <3>4
      <4>2. \A m \in (j + 1)..n : m = n \/ m \in (j + 1)..hi
        BY <1>2
      <4>3. j \in lo..n /\ \A m \in (j + 1)..n : g[m] # d
        BY <1>8, <2>2, <4>1, <4>2
      <4> QED
        BY <3>1, <4>1, <4>3 DEF LastOf
    <3> QED
      BY <3>2, <3>3, <3>4 DEF LastOf
  <2> QED
    BY <2>1, <2>2
<1>16. ASSUME NEW i \in lo..n PROVE LastOf(r.next[w[i]], w, g, lo, i - 1, g[i])
  <2>1. CASE i = n
    <3>1. r.next[w[i]] = first /\ g[i] = c /\ i - 1 = hi
      BY <1>1, <1>2, <1>6, <1>8, <2>1, Fields
    <3>2. LastOf(first, w, g, lo, hi, c)
      BY <1>2, <1>5, <1>8, LastSame
    <3> QED
      BY <3>1, <3>2
  <2>2. CASE i \in lo..hi
    <3>1. r.next[w[i]] = t.next[u[i]] /\ g[i] = h[i]
      BY <1>1, <1>6, <1>8, <2>2, Fields
    <3>2. LastOf(t.next[u[i]], u, h, lo, i - 1, h[i])
      BY <1>1, <2>2 DEF Chained, Chain
    <3>3. lo..(i - 1) \subseteq lo..hi /\ i - 1 \in Int
      BY <1>2, <2>2
    <3>4. \A m \in lo..(i - 1) : w[m] = u[m] /\ g[m] = h[m]
      BY <1>8, <3>3
    <3>5. LastOf(t.next[u[i]], w, g, lo, i - 1, h[i])
      BY <1>2, <3>2, <3>3, <3>4, LastSame
    <3> QED
      BY <3>1, <3>5
  <2> QED
    BY <1>8, <2>1, <2>2
<1>17. ASSUME NEW i \in lo..n PROVE FirstOf(r.prev[w[i]], w, g, i + 1, n, g[i])
  <2>1. CASE i = n
    <3>1. r.prev[w[i]] = 0 /\ (i + 1)..n = {}
      BY <1>1, <1>6, <1>8, <2>1
    <3> QED
      BY <3>1 DEF FirstOf
  <2>2. CASE i \in lo..hi
    <3>1. g[i] = h[i] /\ w[i] = u[i] /\ u[i] # x /\ u[i] \in Entry /\ i + 1 \in Int /\ (i + 1)..hi \subseteq lo..hi
      BY <1>2, <1>8, <2>2
    <3>2. \A m \in (i + 1)..hi : w[m] = u[m] /\ g[m] = h[m]
      BY <1>8, <3>1
    <3>3. \A m \in (i + 1)..(n - 1) : m \in (i + 1)..hi
      BY <1>2
    <3>4. n \in (i + 1)..n /\ (i + 1)..hi \subseteq (i + 1)..n
      BY <1>2, <2>2
    <3>5. CASE u[i] = first
      <4>1. r.prev[w[i]] = x
        BY <1>6, <3>1, <3>5
      <4>2. PICK j \in lo..hi : h[j] = c /\ first = u[j] /\ \A m \in (j + 1)..hi : h[m] # c
        BY <1>5, <3>1, <3>5, Numbers DEF LastOf
      <4>3. i = j
        BY <1>1, <2>2, <3>5, <4>2 DEF Lists
      <4>4. g[n] = g[i] /\ x = w[n] /\ \A m \in (i + 1)..(n - 1) : g[m] # g[i]
        BY <1>8, <3>1, <3>2, <3>3, <4>2, <4>3
      <4> QED
        BY <3>4, <4>1, <4>4 DEF FirstOf
    <3>6. CASE u[i] # first
      <4>1. r.prev[w[i]] = t.prev[u[i]]
        BY <1>6, <3>1, <3>6
      <4>2. FirstOf(t.prev[u[i]], u, h, i + 1, hi, h[i])
        BY <1>1, <2>2 DEF Chained
      <4>3. CASE \E j \in (i + 1)..hi : h[j] = h[i] /\ t.prev[u[i]] = u[j] /\ \A m \in (i + 1)..(j - 1) : h[m] # h[i]
        <5>1. PICK j \in (i + 1)..hi : h[j] = h[i] /\ t.prev[u[i]] = u[j] /\ \A m \in (i + 1)..(j - 1) : h[m] # h[i]
          BY <4>3
        <5>2. (i + 1)..(j - 1) \subseteq (i + 1)..hi
          BY <1>2, <3>1
        <5>3. g[j] = g[i] /\ t.prev[u[i]] = w[j] /\ \A m \in (i + 1)..(j - 1) : g[m] # g[i]
          BY <3>1, <3>2, <5>1, <5>2
        <5> QED
          BY <3>4, <4>1, <5>3 DEF FirstOf
      <4>4. CASE t.prev[u[i]] = 0 /\ \A m \in (i + 1)..hi : h[m] # h[i]
        <5>1. h[i] # c
          <6> SUFFICES ASSUME h[i] = c PROVE FALSE
            OBVIOUS
          <6>1. PICK j \in lo..hi : h[j] = c /\ first = u[j] /\ \A m \in (j + 1)..hi : h[m] # c
            BY <1>5, <2>2 DEF LastOf
          <6>2. ~(i < j)
            <7> SUFFICES ASSUME i < j PROVE FALSE
              OBVIOUS
            <7>1. j \in (i + 1)..hi
              BY <1>2
            <7> QED
              BY <4>4, <6>1, <7>1
          <6>3. ~(j < i)
            <7> SUFFICES ASSUME j < i PROVE FALSE
              OBVIOUS
            <7>1. i \in (j + 1)..hi
              BY <1>2, <2>2
            <7> QED
              BY <6>1, <7>1
          <6>4. i = j
            BY <1>2, <2>2, <6>2, <6>3
          <6> QED
            BY <3>6, <6>1, <6>4
        <5>2. \A m \in (i + 1)..n : m = n \/ m \in (i + 1)..hi
          BY <1>2
        <5>3. \A m \in (i + 1)..n : g[m] # g[i]
          BY <1>8, <3>1, <3>2, <4>4, <5>1, <5>2
        <5> QED
          BY <4>1, <4>4, <5>3 DEF FirstOf
      <4> QED
        BY <4>2, <4>3, <4>4 DEF FirstOf
    <3> QED
      BY <3>5, <3>6
  <2> QED
    BY <1>8, <2>1, <2>2
<1>18. (n - lo + 1) + (b - a + 1) = NrEntries /\ r.nrused = n - lo + 1
  BY <1>1, <1>2, <1>6
<1>19. Chained(r, w, g, lo, n)
  BY <1>15, <1>16, <1>17 DEF Chained, Chain
<1> HIDE DEF n
<1>20. Laid(r, w, g, lo, n, v, a, b)
  BY <1>7, <1>10, <1>11, <1>12, <1>13, <1>14, <1>18, <1>19 DEF Laid
<1> QED
  BY <1>20 DEF r, w, g, n, c

----------------------------------------------------------------------------
(* What the cache is told to do keeps a table laid out. *)

\* cache_set of a key that cache_get did not find.
LEMMA SetTable ==
  ASSUME NEW t, IsTable(t), NEW key \in Key, cache_get(t, key) = 0
  PROVE  IsTable(cache_set(t, key, Secret(key)))
<1>1. PICK u, h, lo, hi, v, a, b : Laid(t, u, h, lo, hi, v, a, b)
  BY DEF IsTable
<1>2. \A i \in lo..hi : t.key[u[i]] # key
  BY <1>1, GetRight
<1>3. /\ lo \in Int /\ hi \in Int /\ a \in Int /\ b \in Int /\ a <= b + 1 /\ v \in [Int -> Entry]
      /\ (hi - lo + 1) + (b - a + 1) = NrEntries /\ t.nrused = hi - lo + 1 /\ t.headunused = First(v, a, b)
      /\ NrEntries \in Nat
  BY <1>1, Numbers DEF Laid, Lists, Listed
<1>4. CASE t.nrused >= NrEntries /\ t.headunused # 0
  BY <1>4 DEF cache_set
<1>5. CASE t.nrused >= NrEntries /\ t.headunused = 0
  <2>1. b < a
    BY <1>3, <1>5
  <2> DEFINE r == Evict(t)
  <2>2. Half(r, u, h, lo + 1, hi, v, a, b, u[lo]) /\ t.headused = u[lo]
    BY <1>1, <2>1, EvictHalf
  <2>3. r.key = t.key
    <3>1. t \in Tables(Secrets)
      BY <1>1 DEF Laid
    <3> QED
      BY <3>1 DEF Evict, Tables
  <2>4. \A i \in (lo + 1)..hi : r.key[u[i]] # key
    <3>1. (lo + 1)..hi \subseteq lo..hi
      BY <1>3
    <3> QED
      BY <1>2, <2>3, <3>1
  <2>5. cache_set(t, key, Secret(key)) = Insert(r, u[lo], key, Secret(key))
    BY <1>5, <2>2 DEF cache_set
  <2> HIDE DEF r
  <2>6. IsTable(Insert(r, u[lo], key, Secret(key)))
    <3>1. Laid(Insert(r, u[lo], key, Secret(key)), [u EXCEPT ![hi + 1] = u[lo]], [h EXCEPT ![hi + 1] = cache_hash[key]],
               lo + 1, hi + 1, v, a, b)
      BY <2>2, <2>4, InsertLaid
    <3> QED
      BY <3>1 DEF IsTable
  <2> QED
    BY <2>5, <2>6
<1>6. CASE ~(t.nrused >= NrEntries)
  <2>1. a <= b
    BY <1>3, <1>6
  <2> DEFINE r == Take(t)
  <2>2. Half(r, u, h, lo, hi, v, a + 1, b, v[a]) /\ t.headunused = v[a]
    BY <1>1, <2>1, TakeHalf
  <2>3. r.key = t.key
    <3>1. t \in Tables(Secrets)
      BY <1>1 DEF Laid
    <3> QED
      BY <3>1 DEF Take, Tables
  <2>4. \A i \in lo..hi : r.key[u[i]] # key
    BY <1>2, <2>3
  <2>5. cache_set(t, key, Secret(key)) = Insert(r, v[a], key, Secret(key))
    BY <1>6, <2>2 DEF cache_set
  <2> HIDE DEF r
  <2>6. IsTable(Insert(r, v[a], key, Secret(key)))
    <3>1. Laid(Insert(r, v[a], key, Secret(key)), [u EXCEPT ![hi + 1] = v[a]], [h EXCEPT ![hi + 1] = cache_hash[key]],
               lo, hi + 1, v, a + 1, b)
      BY <2>2, <2>4, InsertLaid
    <3> QED
      BY <3>1 DEF IsTable
  <2> QED
    BY <2>5, <2>6
<1> QED
  BY <1>4, <1>5, <1>6

\* cache_empty: the used entries, the newest first, before the unused ones.
LEMMA EmptyTable ==
  ASSUME NEW t, IsTable(t)
  PROVE  IsTable(cache_empty(t))
<1>1. PICK u, h, lo, hi, v, a, b : Laid(t, u, h, lo, hi, v, a, b)
  BY DEF IsTable
<1> DEFINE r == cache_empty(t)
           at == Walk(t.headused, t.nexttable)
           used == {at[n] : n \in 0..NrEntries} \ {0}
           Before(e) == LET n == CHOOSE n \in 0..NrEntries : at[n] = e
                        IN IF n = 0 THEN t.headunused ELSE at[n - 1]
           A == a - (hi - lo + 1)
           w == [k \in Int |-> IF k \in A..(a - 1) THEN u[lo + (a - 1 - k)] ELSE v[k]]
<1>2. /\ t \in Tables(Secrets) /\ Lists(u, lo, hi, v, a, b) /\ Listed(t, u, lo, hi, v, a, b)
      /\ Covered(u, lo, hi, v, a, b, {}) /\ Keyed(t, u, h, lo, hi, v, a, b) /\ Chained(t, u, h, lo, hi)
      /\ (hi - lo + 1) + (b - a + 1) = NrEntries /\ t.headused = First(u, lo, hi) /\ t.headunused = First(v, a, b)
  BY <1>1 DEF Laid, Listed
<1>3. /\ lo \in Int /\ hi \in Int /\ a \in Int /\ b \in Int /\ lo <= hi + 1 /\ a <= b + 1
      /\ u \in [Int -> Entry] /\ v \in [Int -> Entry] /\ h \in [Int -> Bucket] /\ NrEntries \in Nat /\ hi - lo < NrEntries
  BY <1>2, Numbers DEF Lists, Keyed
<1>4. \A n \in 0..NrEntries : at[n] = IF lo + n <= hi THEN u[lo + n] ELSE 0
  BY <1>2, <1>3, Fields, ListWalk DEF Listed
<1>5. /\ r.nexttable = [e \in Entry |-> IF e \in used THEN Before(e) ELSE t.nexttable[e]]
      /\ r.next = [e \in Entry |-> IF e \in used THEN 0 ELSE t.next[e]]
      /\ r.prev = [e \in Entry |-> IF e \in used THEN 0 ELSE t.prev[e]]
      /\ r.key = [e \in Entry |-> IF e \in used THEN None ELSE t.key[e]]
      /\ r.value = [e \in Entry |-> IF e \in used THEN None ELSE t.value[e]]
      /\ r.headunused = (IF used = {} THEN t.headunused ELSE CHOOSE e \in used : t.nexttable[e] = 0)
      /\ r.buckets = [c \in Bucket |-> 0]
      /\ r.headused = 0 /\ r.lastused = 0 /\ r.nrused = 0
  BY <1>2 DEF cache_empty, Tables
<1> HIDE DEF at
<1>6. used = Run(u, lo, hi)
  <2>1. ASSUME NEW e \in used PROVE e \in Run(u, lo, hi)
    <3>1. PICK n \in 0..NrEntries : e = at[n] /\ e # 0
      OBVIOUS
    <3>2. lo + n <= hi /\ e = u[lo + n] /\ lo + n \in lo..hi
      BY <1>3, <1>4, <3>1
    <3> QED
      BY <3>2 DEF Run
  <2>2. ASSUME NEW e \in Run(u, lo, hi) PROVE e \in used
    <3>1. PICK i \in lo..hi : e = u[i]
      BY DEF Run
    <3>2. i - lo \in 0..NrEntries /\ lo + (i - lo) = i /\ i <= hi /\ u[i] # 0
      BY <1>3, <3>1, Numbers
    <3>3. at[i - lo] = e
      BY <1>4, <3>1, <3>2
    <3> QED
      BY <3>1, <3>2, <3>3
  <2> QED
    BY <2>1, <2>2
<1>7. ASSUME NEW i \in lo..hi PROVE Before(u[i]) = IF i = lo THEN t.headunused ELSE u[i - 1]
  <2> DEFINE m == CHOOSE n \in 0..NrEntries : at[n] = u[i]
  <2>1. i - lo \in 0..NrEntries /\ lo + (i - lo) = i /\ i <= hi /\ u[i] # 0
    BY <1>3, Numbers
  <2>2. at[i - lo] = u[i]
    BY <1>4, <2>1
  <2>3. m \in 0..NrEntries /\ at[m] = u[i]
    BY <2>1, <2>2
  <2>4. Before(u[i]) = IF m = 0 THEN t.headunused ELSE at[m - 1]
    OBVIOUS
  <2> HIDE DEF m
  <2>5. lo + m <= hi /\ u[lo + m] = u[i] /\ lo + m \in lo..hi
    BY <1>3, <1>4, <2>1, <2>3
  <2>6. lo + m = i
    BY <1>2, <2>5 DEF Lists
  <2>7. CASE i = lo
    BY <1>3, <2>3, <2>4, <2>6, <2>7
  <2>8. CASE i # lo
    <3>1. m # 0 /\ m - 1 \in 0..NrEntries /\ lo + (m - 1) = i - 1 /\ i - 1 <= hi
      BY <1>3, <2>3, <2>6, <2>8
    <3>2. at[m - 1] = u[i - 1]
      BY <1>4, <3>1
    <3> QED
      BY <2>4, <2>8, <3>1, <3>2
  <2> QED
    BY <2>7, <2>8
<1> HIDE DEF Before, used, r
<1>8. A \in Int /\ b - A + 1 = NrEntries /\ A <= a /\ A <= b + 1 /\ A <= b
  BY <1>2, <1>3, Numbers
<1>9. /\ w \in [Int -> Entry]
      /\ \A k \in A..(a - 1) : w[k] = u[lo + (a - 1 - k)] /\ lo + (a - 1 - k) \in lo..hi
      /\ \A k \in a..b : w[k] = v[k] /\ k \notin A..(a - 1)
      /\ \A k \in A..b : k \in A..(a - 1) \/ k \in a..b
  <2>1. \A k \in A..(a - 1) : w[k] = u[lo + (a - 1 - k)] /\ lo + (a - 1 - k) \in lo..hi
    BY <1>3
  <2>2. w \in [Int -> Entry]
    <3> SUFFICES ASSUME NEW k \in Int PROVE (IF k \in A..(a - 1) THEN u[lo + (a - 1 - k)] ELSE v[k]) \in Entry
      OBVIOUS
    <3>1. lo + (a - 1 - k) \in Int
      BY <1>3
    <3> QED
      BY <1>3, <3>1
  <2>3. \A k \in a..b : w[k] = v[k] /\ k \notin A..(a - 1)
    BY <1>3, <1>8
  <2>4. \A k \in A..b : k \in A..(a - 1) \/ k \in a..b
    BY <1>3, <1>8
  <2> QED
    BY <2>1, <2>2, <2>3, <2>4
<1> HIDE DEF w
<1>10. ASSUME NEW i \in lo..hi PROVE a - 1 - (i - lo) \in A..(a - 1) /\ a - 1 - (i - lo) \in A..b /\ w[a - 1 - (i - lo)] = u[i]
  <2>1. a - 1 - (i - lo) \in A..(a - 1) /\ a - 1 - (i - lo) \in A..b
    BY <1>3
  <2>2. lo + (a - 1 - (a - 1 - (i - lo))) = i
    BY <1>3
  <2> QED
    BY <1>9, <2>1, <2>2
<1>11. Lists(u, hi + 1, hi, w, A, b)
  <2>1. ASSUME NEW j \in A..b, NEW k \in A..b, w[j] = w[k] PROVE j = k
    <3>1. CASE j \in A..(a - 1) /\ k \in A..(a - 1)
      <4>1. lo + (a - 1 - j) = lo + (a - 1 - k)
        BY <1>2, <1>9, <2>1, <3>1 DEF Lists
      <4> QED
        BY <1>3, <4>1
    <3>2. CASE j \in a..b /\ k \in a..b
      BY <1>2, <1>9, <2>1, <3>2 DEF Lists
    <3>3. CASE j \in A..(a - 1) /\ k \in a..b
      BY <1>2, <1>9, <2>1, <3>3 DEF Lists
    <3>4. CASE k \in A..(a - 1) /\ j \in a..b
      BY <1>2, <1>9, <2>1, <3>4 DEF Lists
    <3> QED
      BY <1>9, <3>1, <3>2, <3>3, <3>4
  <2>2. (hi + 1)..hi = {} /\ hi + 1 \in Int /\ hi + 1 <= hi + 1
    BY <1>3
  <2> QED
    BY <1>3, <1>8, <1>9, <2>1, <2>2 DEF Lists
<1>12. Covered(u, hi + 1, hi, w, A, b, {})
  <2> SUFFICES ASSUME NEW e \in Entry PROVE e \in Run(w, A, b)
    BY DEF Covered
  <2>1. CASE e \in Run(u, lo, hi)
    BY <1>10, <2>1 DEF Run
  <2>2. CASE e \in Run(v, a, b)
    <3>1. PICK j \in a..b : e = v[j]
      BY <2>2 DEF Run
    <3>2. j \in A..b /\ w[j] = e
      BY <1>3, <1>8, <1>9, <3>1
    <3> QED
      BY <3>2 DEF Run
  <2> QED
    BY <1>2, <2>1, <2>2 DEF Covered
<1>13. \A j \in a..b : v[j] \notin used /\ v[j] \in Entry
  BY <1>2, <1>3, <1>6 DEF Run, Lists
<1>14. \A i \in lo..hi : u[i] \in used /\ u[i] \in Entry
  BY <1>3, <1>6 DEF Run
<1>15. t.headunused = IF a <= b THEN w[a] ELSE 0
  BY <1>2, <1>3, <1>9 DEF First
<1>16. Strung(r.nexttable, w, A, b)
  <2> SUFFICES ASSUME NEW k \in A..b PROVE r.nexttable[w[k]] = IF k < b THEN w[k + 1] ELSE 0
    BY DEF Strung
  <2>1. CASE k \in a..b
    <3>1. r.nexttable[w[k]] = t.nexttable[v[k]]
      BY <1>5, <1>9, <1>13, <2>1
    <3>2. t.nexttable[v[k]] = IF k < b THEN v[k + 1] ELSE 0
      BY <1>2, <2>1 DEF Listed, Strung
    <3>3. k < b => k + 1 \in a..b
      BY <1>3, <2>1
    <3> QED
      BY <1>9, <3>1, <3>2, <3>3
  <2>2. CASE k \in A..(a - 1)
    <3> DEFINE i == lo + (a - 1 - k)
    <3>1. i \in lo..hi /\ w[k] = u[i]
      BY <1>9, <2>2
    <3>2. r.nexttable[w[k]] = IF i = lo THEN t.headunused ELSE u[i - 1]
      BY <1>5, <1>7, <1>14, <3>1
    <3>3. CASE k = a - 1
      <4>1. i = lo /\ k + 1 = a /\ (k < b <=> a <= b)
        BY <1>3, <3>3
      <4> QED
        BY <1>15, <3>2, <4>1
    <3>4. CASE k # a - 1
      <4>1. i # lo /\ k + 1 \in A..(a - 1) /\ lo + (a - 1 - (k + 1)) = i - 1 /\ k < b
        BY <1>3, <1>8, <2>2, <3>4
      <4>2. w[k + 1] = u[i - 1]
        BY <1>9, <4>1
      <4> QED
        BY <3>2, <4>1, <4>2
    <3> QED
      BY <3>3, <3>4
  <2> QED
    BY <1>9, <2>1, <2>2
<1>17. r.headunused = First(w, A, b)
  <2>1. CASE lo <= hi
    <3>1. hi \in lo..hi /\ a - 1 - (hi - lo) = A
      BY <1>3, <2>1
    <3>2. w[A] = u[hi]
      BY <1>10, <3>1
    <3>3. \A i \in lo..hi : t.nexttable[u[i]] = 0 <=> i = hi
      <4> SUFFICES ASSUME NEW i \in lo..hi PROVE t.nexttable[u[i]] = 0 <=> i = hi
        OBVIOUS
      <4>1. t.nexttable[u[i]] = IF i < hi THEN u[i + 1] ELSE 0
        BY <1>2 DEF Listed, Strung
      <4>2. i < hi => u[i + 1] # 0
        BY <1>3, Numbers
      <4>3. i < hi <=> i # hi
        BY <1>3
      <4> QED
        BY <4>1, <4>2, <4>3
    <3> DEFINE s == CHOOSE e \in used : t.nexttable[e] = 0
    <3>4. u[hi] \in used /\ t.nexttable[u[hi]] = 0
      BY <1>14, <3>1, <3>3
    <3>5. s \in used /\ t.nexttable[s] = 0
      BY <3>4
    <3>6. r.headunused = s
      BY <1>5, <3>4
    <3> HIDE DEF s
    <3>7. s = u[hi]
      BY <1>6, <3>3, <3>5 DEF Run
    <3> QED
      BY <1>8, <3>2, <3>6, <3>7 DEF First
  <2>2. CASE ~(lo <= hi)
    <3>1. used = {} /\ A = a
      BY <1>3, <1>6, <2>2 DEF Run
    <3> QED
      BY <1>5, <1>15, <3>1 DEF First
  <2> QED
    BY <2>1, <2>2
<1>18. Listed(r, u, hi + 1, hi, w, A, b) /\ r.headused = First(u, hi + 1, hi)
  <2>1. (hi + 1)..hi = {} /\ ~(hi + 1 <= hi)
    BY <1>3
  <2>2. Strung(r.nexttable, u, hi + 1, hi)
    BY <2>1 DEF Strung
  <2> QED
    BY <1>5, <1>16, <1>17, <2>1, <2>2 DEF Listed, First
<1>19. Keyed(r, u, h, hi + 1, hi, w, A, b)
  <2>1. (hi + 1)..hi = {}
    BY <1>3
  <2>2. ASSUME NEW k \in A..b PROVE r.key[w[k]] = None
    <3>1. CASE k \in a..b
      BY <1>2, <1>5, <1>9, <1>13, <3>1 DEF Keyed
    <3>2. CASE k \in A..(a - 1)
      BY <1>5, <1>9, <1>14, <3>2
    <3> QED
      BY <1>9, <3>1, <3>2
  <2> QED
    BY <1>3, <2>1, <2>2 DEF Keyed
<1>20. Chained(r, u, h, hi + 1, hi)
  <2>1. (hi + 1)..hi = {}
    BY <1>3
  <2> QED
    BY <1>5, <2>1 DEF Chained, Chain, LastOf
<1>21. r \in Tables(Secrets)
  <2>1. 0 \in Pointer /\ r.headunused \in Pointer
    BY <1>8, <1>9, <1>17, Numbers DEF First
  <2>2. r.nexttable \in [Entry -> Pointer]
    <3> SUFFICES ASSUME NEW e \in Entry PROVE (IF e \in used THEN Before(e) ELSE t.nexttable[e]) \in Pointer
      BY <1>5
    <3>1. CASE e \in used
      <4>1. PICK i \in lo..hi : e = u[i]
        BY <1>6, <3>1 DEF Run
      <4>2. i # lo => u[i - 1] \in Entry
        BY <1>3
      <4>3. t.headunused \in Pointer
        BY <1>2, Fields
      <4> QED
        BY <1>7, <3>1, <4>1, <4>2, <4>3, Numbers
    <3>2. CASE e \notin used
      BY <1>2, <3>2, Fields
    <3> QED
      BY <3>1, <3>2
  <2>3. r.next \in [Entry -> Pointer] /\ r.prev \in [Entry -> Pointer] /\ r.buckets \in [Bucket -> Pointer]
    BY <1>2, <1>5, <2>1, Fields
  <2>4. r.key \in [Entry -> Key \cup {None}] /\ r.value \in [Entry -> Secrets \cup {None}]
    BY <1>2, <1>5, Fields
  <2>5. r = [t EXCEPT !.nexttable = r.nexttable, !.next = r.next, !.prev = r.prev, !.key = r.key, !.value = r.value,
                      !.headunused = r.headunused, !.buckets = r.buckets, !.headused = 0, !.lastused = 0, !.nrused = 0]
    BY <1>2, <1>5 DEF r, cache_empty, Tables
  <2> DEFINE n1 == r.nexttable
             n2 == r.next
             n3 == r.prev
             n4 == r.key
             n5 == r.value
             n6 == r.headunused
             n7 == r.buckets
  <2>6. r = [t EXCEPT !.nexttable = n1, !.next = n2, !.prev = n3, !.key = n4, !.value = n5,
                      !.headunused = n6, !.buckets = n7, !.headused = 0, !.lastused = 0, !.nrused = 0]
    BY <2>5
  <2>7. n1 \in [Entry -> Pointer] /\ n2 \in [Entry -> Pointer] /\ n3 \in [Entry -> Pointer]
        /\ n4 \in [Entry -> Key \cup {None}] /\ n5 \in [Entry -> Secrets \cup {None}] /\ n6 \in Pointer
        /\ n7 \in [Bucket -> Pointer]
    BY <2>1, <2>2, <2>3, <2>4
  <2> HIDE DEF n1, n2, n3, n4, n5, n6, n7
  <2> QED
    BY <1>2, <2>1, <2>6, <2>7 DEF Tables
<1>22. (hi - (hi + 1) + 1) + (b - A + 1) = NrEntries /\ r.nrused = hi - (hi + 1) + 1
  BY <1>3, <1>5, <1>8
<1> HIDE DEF A
<1>23. Laid(r, u, h, hi + 1, hi, w, A, b)
  BY <1>11, <1>12, <1>18, <1>19, <1>20, <1>21, <1>22 DEF Laid
<1>24. IsTable(r)
  BY <1>23 DEF IsTable
<1> QED
  BY <1>24 DEF r

----------------------------------------------------------------------------
(* What the forwarder keeps of a query, and the invariant. *)

\* dnscurve_get_shared_secret gives the right secret, and a table.
LEMMA GetSecret ==
  ASSUME NEW t, IsTable(t), NEW key \in Key
  PROVE  LET got == dnscurve_get_shared_secret(t, key)
         IN IsTable(got.table) /\ t # None /\ got.secret = Secret(key)
<1>1. t # None
  BY CurvednsAssumption DEF IsTable, Laid
<1>2. PICK u, h, lo, hi, v, a, b : Laid(t, u, h, lo, hi, v, a, b)
  BY DEF IsTable
<1> DEFINE e == cache_get(t, key)
<1>3. e # 0 => t.value[e] = Secret(key)
  BY <1>2, GetRight
<1>4. e = 0 => IsTable(cache_set(t, key, Secret(key)))
  BY SetTable
<1>5. dnscurve_get_shared_secret(t, key) =
        IF e # 0 THEN [table |-> t, secret |-> t.value[e]]
        ELSE [table |-> cache_set(t, key, Secret(key)), secret |-> Secret(key)]
  BY <1>1 DEF dnscurve_get_shared_secret
<1> HIDE DEF e
<1>6. CASE e # 0
  BY <1>1, <1>3, <1>5, <1>6
<1>7. CASE e = 0
  BY <1>1, <1>4, <1>5, <1>7
<1> QED
  BY <1>6, <1>7

----------------------------------------------------------------------------
\* The response AnswersAsker asks for.
Expected(p) ==
  LET box == [secret |-> Secret(p.key), nonce |-> p.nonce, id |-> p.inner.id, text |-> p.inner.text]
  IN IF ~Opens(p) THEN Reply(p.id, None, None, p.text, None)
     ELSE IF p.format = "stream" THEN Reply(None, None, None, None, box)
     ELSE Reply(p.id, p.rd, p.qname, None, box)

\* What is kept of a query gives that response, or none if it is too big.
Fits(dns, text, p) == \A big \in BOOLEAN : dns_reply_query_tcp(dns, text, big) \in {None, Expected(p)}

\* What is kept of a query has all its fields.
Dns(d) == DOMAIN d = {"type", "srctxid", "dsttxid", "srcinsidetxid", "secret", "nonce", "qname"}
\* An entry of event_udp.c: always with a socket to the server.
Udp(x) ==
  /\ DOMAIN x = {"proto", "state", "retries", "sock", "active", "dns", "text", "asked"}
  /\ x.proto = "udp" /\ x.sock
\* An entry of event_tcp.c: with such a socket while it waits for the server.
Tcp(x) ==
  /\ DOMAIN x = {"proto", "state", "int", "at", "size", "sock", "active", "dns", "text", "asked"}
  /\ x.proto = "tcp" /\ x.int \in BOOLEAN /\ x.sock = x.int
\* A timer and the socket; none of them after recvfrom had nothing to read.
Watched(x) ==
  \/ x.active \in {{"read", "timer"}, {"write", "timer"}} /\ ~Abandoned(x)
  \/ x.active = {} /\ Abandoned(x)
\* What every entry is.
Good(x) == (Udp(x) \/ Tcp(x)) /\ Dns(x.dns) /\ Watched(x)
\* Whether an entry may get an answer from the server.
Waits(x) == x.proto = "udp" \/ x.int

\* If so, it can answer its client.
Answerable(x) == Waits(x) => Fits(x.dns, x.text, x.asked)
\* Or it never will: after SIGTERM only the events of this turn are left, and
\* none of them is of this entry.
Lost(e) == proc.pc # "loop" /\ queue \cap Events(e) = {}
\* The entries.
Held == \A e \in Live : e \in Slots /\ Good(entries[e]) /\ (Answerable(entries[e]) \/ Lost(e))
Conns == {e \in Live : entries[e].proto = "tcp"}
\* The count of connections, its limit, and who accepts.
Counted ==
  proc.pc = "loop" =>
    /\ conns = Cardinality(Conns) /\ conns <= proc.maxconns
    /\ accepting = IF conns >= proc.maxconns THEN {} ELSE Listener
\* No event is left of a watcher that was stopped.
Queued == proc.pc = "loop" => queue \subseteq Ready
\* How far the start has come.
Started ==
  /\ DOMAIN proc = {"pc", "root", "open", "tries", "maxconns"}
  /\ proc.maxconns \in Nat /\ proc.maxconns > 0 /\ proc.open \subseteq Listener
  /\ proc.pc \in {"sockets", "privileges", "options", "init"} => entries = << >> /\ conns = 0 /\ queue = {} /\ out = None
  /\ proc.pc \in {"privileges", "options", "init", "loop"} => proc.open = Listener
  /\ proc.pc \in {"options", "init", "loop"} => ~proc.root
\* There is a table until SIGTERM.
Stored == (table = None \/ IsTable(table)) /\ (proc.pc = "loop" => table # None)
Mem == Held /\ Counted /\ Queued
\* The inductive invariant.
Inv == Started /\ Stored /\ Mem /\ AnswersAsker

\* dnscurve_analyze_query, for every format and whatever was kept of an
\* earlier query: what it keeps fits the query, if the secret is there.
LEMMA Analyzed ==
  ASSUME NEW d, Dns(d), NEW t, t = None \/ IsTable(t), NEW p \in Packets
  PROVE  LET got == dnscurve_analyze_query(d, t, p)
         IN /\ got.table = None \/ IsTable(got.table)
            /\ t # None => got.table # None
            /\ got.ok => Dns(got.dns)
            /\ got.ok /\ t # None => Fits(got.dns, got.text, p)
<1> DEFINE got == dnscurve_analyze_query(d, t, p)
           found == dnscurve_get_shared_secret(t, p.key)
           plain == [d EXCEPT !.type = "non", !.srctxid = p.id]
           keyed == [plain EXCEPT !.secret = found.secret]
           opens == p.opens /\ found.secret = Secret(p.key)
           As(x, text, t2) == [ok |-> TRUE, dns |-> x, text |-> text, table |-> t2]
           Fail(t2) == [ok |-> FALSE, dns |-> plain, text |-> p.text, table |-> t2]
<1>1. /\ p.format \in {"short", "reply", "plain", "stream", "txt"} /\ p.opens \in BOOLEAN /\ p.rd \in BOOLEAN
      /\ p.format \in {"stream", "txt"} => p.key \in Key
  BY CurvednsAssumption
<1>2. p.format \in {"stream", "txt"} =>
        /\ found.table = None \/ IsTable(found.table)
        /\ t # None => found.table # None /\ found.secret = Secret(p.key)
  <2> SUFFICES ASSUME p.key \in Key
               PROVE  /\ found.table = None \/ IsTable(found.table)
                      /\ t # None => found.table # None /\ found.secret = Secret(p.key)
    BY <1>1
  <2>1. CASE t = None
    BY <2>1 DEF dnscurve_get_shared_secret
  <2>2. CASE t # None
    <3>1. IsTable(found.table) /\ found.secret = Secret(p.key)
      BY <2>2, GetSecret
    <3>2. found.table # None
      BY <3>1, CurvednsAssumption DEF IsTable, Laid
    <3> QED
      BY <3>1, <3>2
  <2> QED
    BY <2>1, <2>2
<1> HIDE DEF found
<1>3. Dns(plain) /\ plain.type = "non" /\ plain.srctxid = p.id
  BY DEF Dns
<1>4. Dns(keyed) /\ keyed.type = "non" /\ keyed.srctxid = p.id /\ keyed.secret = found.secret
  BY <1>3 DEF Dns
<1> HIDE DEF plain, keyed
<1>5. CASE p.format \in {"short", "reply"}
  <2>1. got = Fail(t)
    BY <1>5 DEF dnscurve_analyze_query, dnscurve_parse_query_name, plain
  <2> QED
    BY <2>1
<1>6. CASE p.format = "plain"
  <2>1. got = As(plain, p.text, t)
    BY <1>6 DEF dnscurve_analyze_query, dnscurve_parse_query_name, plain
  <2>2. Fits(plain, p.text, p)
    BY <1>3, <1>6 DEF Fits, Expected, Opens, dns_reply_query_tcp, RestoredId
  <2> QED
    BY <1>3, <2>1, <2>2
<1>7. CASE p.format \in {"stream", "txt"} /\ ~opens
  <2>1. got = As(keyed, p.text, found.table)
    BY <1>7 DEF dnscurve_analyze_query, dnscurve_parse_query_name, plain, keyed, found
  <2>2. t # None => Fits(keyed, p.text, p)
    <3> SUFFICES ASSUME t # None PROVE Fits(keyed, p.text, p)
      OBVIOUS
    <3>1. ~p.opens
      BY <1>2, <1>7
    <3> QED
      BY <1>4, <3>1 DEF Fits, Expected, Opens, dns_reply_query_tcp, RestoredId
  <2> QED
    BY <1>2, <1>4, <1>7, <2>1, <2>2
<1>8. CASE p.format = "stream" /\ opens
  <2> DEFINE x == [keyed EXCEPT !.type = "stream", !.nonce = p.nonce, !.srctxid = p.inner.id]
  <2>1. got = As(x, p.inner.text, found.table)
    BY <1>8 DEF dnscurve_analyze_query, dnscurve_parse_query_name, plain, keyed, found
  <2>2. Dns(x) /\ x.type = "stream" /\ x.srctxid = p.inner.id /\ x.nonce = p.nonce /\ x.secret = Secret(p.key)
    BY <1>4, <1>8 DEF Dns
  <2> HIDE DEF x
  <2>3. Fits(x, p.inner.text, p)
    BY <1>8, <2>2 DEF Fits, Expected, Opens, dns_reply_query_tcp, dnscurve_reply_streamlined_query, Box, RestoredId
  <2> QED
    BY <1>2, <1>8, <2>1, <2>2, <2>3
<1>9. CASE p.format = "txt" /\ opens /\ p.inner = None
  <2>1. got = Fail(found.table)
    BY <1>9 DEF dnscurve_analyze_query, dnscurve_parse_query_name, plain, keyed, found
  <2> QED
    BY <1>2, <1>9, <2>1
<1>10. CASE p.format = "txt" /\ opens /\ p.inner # None
  <2> DEFINE x == [keyed EXCEPT !.type = IF p.rd THEN "txt_rd" ELSE "txt", !.nonce = p.nonce,
                                !.qname = p.qname, !.srcinsidetxid = p.inner.id]
  <2>1. got = As(x, p.inner.text, found.table)
    BY <1>10 DEF dnscurve_analyze_query, dnscurve_parse_query_name, plain, keyed, found
  <2>2. Dns(x) /\ x.type = (IF p.rd THEN "txt_rd" ELSE "txt") /\ x.srctxid = p.id /\ x.nonce = p.nonce
        /\ x.qname = p.qname /\ x.srcinsidetxid = p.inner.id /\ x.secret = Secret(p.key)
    BY <1>4, <1>10 DEF Dns
  <2> HIDE DEF x
  <2>3. Fits(x, p.inner.text, p)
    <3>1. (x.type = "txt_rd") = p.rd /\ x.type \notin {"non", "stream"}
      BY <1>1, <2>2
    <3>2. Box(x, RestoredId(x), p.inner.text) =
            [secret |-> Secret(p.key), nonce |-> p.nonce, id |-> p.inner.id, text |-> p.inner.text]
      BY <2>2, <3>1 DEF Box, RestoredId
    <3>3. ASSUME NEW big \in BOOLEAN PROVE dns_reply_query_tcp(x, p.inner.text, big) \in {None, Expected(p)}
      <4>1. dns_reply_query_tcp(x, p.inner.text, big) = dnscurve_reply_txt_query(x, p.inner.text, big)
        BY <3>1 DEF dns_reply_query_tcp
      <4>2. Opens(p) /\ p.format # "stream"
        BY <1>10 DEF Opens
      <4> QED
        BY <2>2, <3>1, <3>2, <4>1, <4>2 DEF dnscurve_reply_txt_query, Expected
    <3> QED
      BY <3>3 DEF Fits
  <2> QED
    BY <1>2, <1>10, <2>1, <2>2, <2>3
<1> HIDE DEF got, opens
<1>11. p.format \in {"short", "reply"} \/ p.format = "plain" \/ (p.format \in {"stream", "txt"} /\ ~opens)
       \/ (p.format = "stream" /\ opens) \/ (p.format = "txt" /\ opens /\ p.inner = None)
       \/ (p.format = "txt" /\ opens /\ p.inner # None)
  BY <1>1
<1> QED
  BY <1>5, <1>6, <1>7, <1>8, <1>9, <1>10, <1>11

----------------------------------------------------------------------------
(* What a callback may do to the entries, the queue and the counts. *)

\* What Keep does.
LEMMA Kept ==
  ASSUME NEW e, NEW rec, Keep(e, rec)
  PROVE  Live' = Live \cup {e} /\ entries'[e] = rec /\ \A x \in Live \ {e} : entries'[x] = entries[x]
BY DEF Keep, Live

\* What Free does.
LEMMA Freed ==
  ASSUME NEW e, Free(e)
  PROVE  Live' = Live \ {e} /\ \A x \in Live \ {e} : entries'[x] = entries[x]
BY DEF Free, Live

\* Held, if every entry is as before or good again.
LEMMA HeldStep ==
  ASSUME Held, proc' = proc, queue' \subseteq queue,
         \A x \in Live' : \/ x \in Live /\ entries'[x] = entries[x]
                          \/ x \in Slots /\ Good(entries'[x]) /\ (Answerable(entries'[x]) \/ Lost(x)')
  PROVE  Held'
<1> SUFFICES ASSUME NEW x \in Live'
             PROVE  x \in Slots /\ Good(entries'[x]) /\ (Answerable(entries'[x]) \/ Lost(x)')
  BY DEF Held
<1>1. CASE x \in Live /\ entries'[x] = entries[x]
  <2>1. x \in Slots /\ Good(entries[x]) /\ (Answerable(entries[x]) \/ Lost(x))
    BY <1>1 DEF Held
  <2>2. Lost(x) => Lost(x)'
    BY DEF Lost, Events
  <2> QED
    BY <1>1, <2>1, <2>2
<1> QED
  BY <1>1

ReadyOf(es, acc) ==
  (UNION {{<<e, w>> : w \in es[e].active} : e \in DOMAIN es})
  \cup {<<l, "accept">> : l \in acc} \cup {<<l, "udp">> : l \in Listener} \cup {<<0, "hup">>, <<0, "term">>}
\* The events that may be ready, one kind after the other.
Event(q, es, acc) ==
  \/ \E x \in DOMAIN es : \E w \in es[x].active : q = <<x, w>>
  \/ \E l \in acc : q = <<l, "accept">>
  \/ \E l \in Listener : q = <<l, "udp">>
  \/ q \in {<<0, "hup">>, <<0, "term">>}

\* Membership in Ready.
LEMMA ReadyIs == ASSUME NEW es, NEW acc, NEW q PROVE q \in ReadyOf(es, acc) <=> Event(q, es, acc)
<1> DEFINE Of(e) == {<<e, w>> : w \in es[e].active}
           A == UNION {Of(e) : e \in DOMAIN es}
           B == {<<l, "accept">> : l \in acc}
           C == {<<l, "udp">> : l \in Listener}
           D == {<<0, "hup">>, <<0, "term">>}
<1>1. ReadyOf(es, acc) = A \cup B \cup C \cup D
  BY DEF ReadyOf
<1>2. q \in A <=> \E x \in DOMAIN es : q \in Of(x)
  OBVIOUS
<1>3. \A x \in DOMAIN es : q \in Of(x) <=> \E w \in es[x].active : q = <<x, w>>
  OBVIOUS
<1>4. q \in B <=> \E l \in acc : q = <<l, "accept">>
  OBVIOUS
<1>5. q \in C <=> \E l \in Listener : q = <<l, "udp">>
  OBVIOUS
<1> HIDE DEF A, B, C, D, Of
<1>6. q \in ReadyOf(es, acc) <=> q \in A \/ q \in B \/ q \in C \/ q \in D
  BY <1>1
<1> QED
  BY <1>2, <1>3, <1>4, <1>5, <1>6 DEF Event, D

\* Queued, if what stays in the queue stays watched.
LEMMA QueuedStep ==
  ASSUME Queued, proc' = proc, queue' \subseteq queue,
         \A x \in Live : \A w \in entries[x].active : <<x, w>> \in queue' => x \in Live' /\ w \in entries'[x].active,
         \A l \in accepting : <<l, "accept">> \in queue' => l \in accepting'
  PROVE  Queued'
<1> SUFFICES ASSUME proc.pc = "loop", NEW q \in queue' PROVE q \in Ready'
  BY DEF Queued
<1>1. Ready = ReadyOf(entries, accepting) /\ Ready' = ReadyOf(entries', accepting')
  BY DEF Ready, ReadyOf, Live
<1>2. Event(q, entries, accepting)
  BY <1>1, ReadyIs DEF Queued
<1>3. ASSUME NEW x \in Live, NEW w \in entries[x].active, q = <<x, w>> PROVE Event(q, entries', accepting')
  BY <1>3 DEF Event, Live
<1>4. ASSUME NEW l \in accepting, q = <<l, "accept">> PROVE Event(q, entries', accepting')
  BY <1>4 DEF Event
<1>5. Event(q, entries', accepting')
  BY <1>2, <1>3, <1>4 DEF Event, Live
<1> QED
  BY <1>1, <1>5, ReadyIs

\* Connections can be counted.
LEMMA Finite == ASSUME Held PROVE IsFiniteSet(Conns) /\ Cardinality(Conns) \in Nat
<1>1. Conns \subseteq Slots
  BY DEF Held, Conns
<1>2. IsFiniteSet(Conns)
  BY <1>1, CurvednsAssumption, FS_Subset
<1> QED
  BY <1>2, FS_CardinalityType

\* A callback that changes no entry.
LEMMA Idle ==
  ASSUME Mem, proc' = proc, queue' \subseteq queue, UNCHANGED <<entries, conns, accepting>>
  PROVE  Mem'
<1>0. Held /\ Counted /\ Queued
  BY DEF Mem
<1>1. Live' = Live /\ entries' = entries
  BY DEF Live
<1>2. Held'
  BY <1>0, <1>1, HeldStep
<1>3. Queued'
  BY <1>0, <1>1, QueuedStep
<1>4. Counted'
  BY <1>0 DEF Counted, Conns, Live
<1> QED
  BY <1>2, <1>3, <1>4 DEF Mem

\* event_cleanup_entry: its events leave the queue with it, and the count and
\* the listeners follow.
LEMMA Cleaned ==
  ASSUME Started, Mem, proc' = proc, NEW e \in Live, NEW ev, event_cleanup_entry(e, ev)
  PROVE  Mem' /\ queue' \subseteq queue
<1>0. Held /\ Counted /\ Queued
  BY DEF Mem
<1>1. Live' = Live \ {e} /\ \A x \in Live \ {e} : entries'[x] = entries[x]
  BY Freed DEF event_cleanup_entry
<1>2. queue' = (queue \ {ev}) \ Events(e)
  BY DEF event_cleanup_entry, Handled, Stopped
<1>3. Held'
  BY <1>0, <1>1, <1>2, HeldStep
<1>4. ASSUME NEW w \in entries[e].active PROVE <<e, w>> \in Events(e)
  <2>1. Watched(entries[e])
    BY <1>0 DEF Held, Good
  <2> QED
    BY <2>1 DEF Watched, Events
<1>5. (entries[e].proto = "tcp" /\ conns' = conns - 1 /\ accepting' = MayAccept(conns))
      \/ (entries[e].proto # "tcp" /\ conns' = conns /\ accepting' = accepting)
  BY DEF event_cleanup_entry
<1>6. proc.pc = "loop" => accepting \subseteq accepting'
  BY <1>0, <1>5 DEF Counted, MayAccept
<1>7. Queued'
  <2>1. CASE proc.pc = "loop"
    <3>1. \A x \in Live : \A w \in entries[x].active : <<x, w>> \in queue' => x \in Live' /\ w \in entries'[x].active
      BY <1>1, <1>2, <1>4
    <3> QED
      BY <1>0, <1>2, <1>6, <2>1, <3>1, QueuedStep
  <2>2. CASE proc.pc # "loop"
    BY <2>2 DEF Queued
  <2> QED
    BY <2>1, <2>2
<1>8. Counted'
  <2> SUFFICES ASSUME proc.pc = "loop"
               PROVE  /\ conns' = Cardinality(Conns') /\ conns' <= proc.maxconns
                      /\ accepting' = IF conns' >= proc.maxconns THEN {} ELSE Listener
    BY DEF Counted
  <2>1. conns = Cardinality(Conns) /\ conns <= proc.maxconns /\ accepting = IF conns >= proc.maxconns THEN {} ELSE Listener
    BY <1>0 DEF Counted
  <2>2. IsFiniteSet(Conns) /\ conns \in Nat /\ proc.maxconns \in Nat
    BY <1>0, <2>1, Finite DEF Started
  <2>3. CASE entries[e].proto = "tcp"
    <3>1. Conns' = Conns \ {e} /\ e \in Conns
      BY <1>1, <2>3 DEF Conns
    <3>2. Cardinality(Conns') = conns - 1
      BY <2>1, <2>2, <3>1, FS_RemoveElement
    <3>3. conns' = conns - 1 /\ accepting' = IF conns = proc.maxconns THEN Listener ELSE accepting
      BY <1>5, <2>3 DEF MayAccept
    <3>4. conns' = Cardinality(Conns') /\ conns' <= proc.maxconns /\ ~(conns' >= proc.maxconns)
      BY <2>1, <2>2, <3>2, <3>3
    <3>5. accepting' = Listener
      <4>1. conns # proc.maxconns => ~(conns >= proc.maxconns)
        BY <2>1, <2>2
      <4> QED
        BY <2>1, <3>3, <4>1
    <3> QED
      BY <3>4, <3>5
  <2>4. CASE entries[e].proto # "tcp"
    <3>1. Conns' = Conns
      BY <1>1, <2>4 DEF Conns
    <3> QED
      BY <1>5, <2>1, <2>4, <3>1
  <2> QED
    BY <2>3, <2>4
<1> QED
  BY <1>2, <1>3, <1>7, <1>8 DEF Mem

\* A callback that changes its own entry.
LEMMA Changed ==
  ASSUME Mem, proc' = proc, NEW e \in Live, NEW rec, Keep(e, rec), UNCHANGED <<conns, accepting>>, queue' \subseteq queue,
         rec.proto = entries[e].proto, Good(rec), Answerable(rec) \/ Lost(e)',
         \A w \in entries[e].active : <<e, w>> \in queue' => w \in rec.active
  PROVE  Mem'
<1>0. Held /\ Counted /\ Queued
  BY DEF Mem
<1>1. Live' = Live /\ entries'[e] = rec /\ \A x \in Live \ {e} : entries'[x] = entries[x]
  BY Kept
<1>2. Held'
  <2>1. e \in Slots
    BY <1>0 DEF Held
  <2> QED
    BY <1>0, <1>1, <2>1, HeldStep
<1>3. Queued'
  <2>1. \A x \in Live : \A w \in entries[x].active : <<x, w>> \in queue' => x \in Live' /\ w \in entries'[x].active
    BY <1>1
  <2> QED
    BY <1>0, <2>1, QueuedStep
<1>4. Conns' = Conns
  BY <1>1 DEF Conns
<1>5. Counted'
  BY <1>0, <1>4 DEF Counted
<1> QED
  BY <1>2, <1>3, <1>5 DEF Mem

\* A new entry is not in use.
LEMMA Spared ==
  ASSUME Held, Spare # {}
  PROVE  Min(Spare) \in Slots /\ Min(Spare) \notin Live
<1>1. Min(Spare) \in Spare
  BY CurvednsAssumption, MinIn DEF Spare
<1> QED
  BY <1>1 DEF Spare

----------------------------------------------------------------------------
(* Start, the turns of the loop, and signals. *)

\* What a callback has to keep.
LEMMA Done ==
  ASSUME Inv, Running, proc' = proc, Mem', AnswersAsker', table' = None \/ IsTable(table'),
         proc.pc = "loop" => table' # None
  PROVE  Inv'
<1>1. Started'
  BY DEF Inv, Started, Running
<1>2. Stored'
  BY DEF Stored
<1> QED
  BY <1>1, <1>2 DEF Inv

\* What a step of the start has to keep.
LEMMA Start ==
  ASSUME Inv, proc.pc \in {"sockets", "privileges", "options", "init"}, UNCHANGED <<entries, conns, queue, out>>,
         Started', Stored', proc'.pc = "loop" => accepting' = Listener
  PROVE  Inv'
<1>1. entries' = << >> /\ conns' = 0 /\ queue' = {} /\ out' = None /\ proc'.maxconns \in Nat /\ proc'.maxconns > 0
  BY DEF Inv, Started
<1>2. Live' = {}
  BY <1>1 DEF Live
<1>3. Held' /\ Queued' /\ AnswersAsker'
  BY <1>1, <1>2 DEF Held, Queued, AnswersAsker
<1>4. Counted'
  <2>1. Conns' = {}
    BY <1>2 DEF Conns
  <2>2. Cardinality(Conns') = 0
    BY <2>1, FS_EmptySet
  <2>3. conns' <= proc'.maxconns /\ ~(conns' >= proc'.maxconns)
    BY <1>1
  <2> QED
    BY <1>1, <2>2, <2>3 DEF Counted
<1> QED
  BY <1>3, <1>4 DEF Inv, Mem

\* A step of the start that fails.
LEMMA Died ==
  ASSUME Inv, proc.pc \in {"sockets", "privileges", "options", "init"}, UNCHANGED <<entries, conns, queue, out>>, Die
  PROVE  Inv'
<1>1. proc' = [proc EXCEPT !.pc = "exit", !.open = {}] /\ table' = table
  BY DEF Die
<1>2. DOMAIN proc = {"pc", "root", "open", "tries", "maxconns"}
  BY DEF Inv, Started
<1>3. proc'.pc = "exit" /\ proc'.open = {} /\ proc'.maxconns = proc.maxconns
      /\ DOMAIN proc' = {"pc", "root", "open", "tries", "maxconns"}
  BY <1>1, <1>2
<1>4. Started' /\ Stored'
  BY <1>1, <1>3 DEF Inv, Started, Stored
<1> QED
  BY <1>3, <1>4, Start

\* The invariant holds at first.
LEMMA InitInv == Init => Inv
<1> SUFFICES ASSUME Init PROVE Inv
  OBVIOUS
<1> USE DEF Init
<1>1. Live = {}
  BY DEF Live
<1>2. Started
  BY DEF Started
<1> QED
  BY <1>1, <1>2 DEF Inv, Stored, Mem, Held, Counted, Queued, AnswersAsker

\* Start: sockets, privileges, options, loop and table.
LEMMA Starts == Inv /\ (ip_init \/ drop_privileges \/ getenvoptions \/ init) => Inv'
<1> SUFFICES ASSUME Inv, ip_init \/ drop_privileges \/ getenvoptions \/ init PROVE Inv'
  OBVIOUS
<1>0. /\ DOMAIN proc = {"pc", "root", "open", "tries", "maxconns"} /\ Started /\ Stored
      /\ proc.maxconns \in Nat /\ proc.maxconns > 0 /\ proc.open \subseteq Listener
  BY DEF Inv, Started
<1> DEFINE Same == UNCHANGED <<entries, conns, queue, out>>
<1>1. ASSUME NEW l \in Listener, proc.pc = "sockets", Same, proc' = [proc EXCEPT !.open = @ \cup {l}],
             UNCHANGED <<accepting, table>>
      PROVE  Inv'
  <2>1. proc'.pc = "sockets" /\ proc'.open = proc.open \cup {l} /\ proc'.maxconns = proc.maxconns
        /\ DOMAIN proc' = {"pc", "root", "open", "tries", "maxconns"}
    BY <1>0, <1>1
  <2>2. Started' /\ Stored'
    BY <1>0, <1>1, <2>1 DEF Started, Stored
  <2> QED
    BY <1>1, <2>1, <2>2, Start
<1>2. ASSUME proc.pc = "sockets", Same, proc.open = Listener, proc' = [proc EXCEPT !.pc = "privileges"],
             UNCHANGED <<accepting, table>>
      PROVE  Inv'
  <2>1. proc'.pc = "privileges" /\ proc'.open = Listener /\ proc'.maxconns = proc.maxconns
        /\ DOMAIN proc' = {"pc", "root", "open", "tries", "maxconns"}
    BY <1>0, <1>2
  <2>2. Started' /\ Stored'
    BY <1>0, <1>2, <2>1 DEF Started, Stored
  <2> QED
    BY <1>2, <2>1, <2>2, Start
<1>3. CASE ip_init
  <2>1. Same /\ proc.pc = "sockets"
    BY <1>3 DEF ip_init, Starting
  <2>2. (\E l \in Listener \ proc.open : proc' = [proc EXCEPT !.open = @ \cup {l}] /\ UNCHANGED <<accepting, table>>)
        \/ (proc.open = Listener /\ proc' = [proc EXCEPT !.pc = "privileges"] /\ UNCHANGED <<accepting, table>>)
        \/ Die
    BY <1>3 DEF ip_init
  <2> HIDE DEF Same
  <2> QED
    BY <1>1, <1>2, <2>1, <2>2, Died DEF Same
<1>4. CASE drop_privileges
  <2>1. Same /\ proc.pc = "privileges"
    BY <1>4 DEF drop_privileges, Starting
  <2>2. CASE proc' = [proc EXCEPT !.pc = "options", !.root = FALSE] /\ UNCHANGED <<accepting, table>>
    <3>1. proc'.pc = "options" /\ ~proc'.root /\ proc'.open = proc.open /\ proc'.maxconns = proc.maxconns
          /\ DOMAIN proc' = {"pc", "root", "open", "tries", "maxconns"}
      BY <1>0, <2>2
    <3>2. Started' /\ Stored'
      BY <1>0, <2>1, <2>2, <3>1 DEF Started, Stored
    <3> QED
      BY <2>1, <3>1, <3>2, Start
  <2> QED
    BY <1>4, <2>1, <2>2, Died DEF drop_privileges
<1>5. CASE getenvoptions
  <2>1. Same /\ proc.pc = "options"
    BY <1>5 DEF getenvoptions, Starting
  <2>2. PICK env \in Environments :
          /\ proc' = [proc EXCEPT !.pc = "init", !.tries = Setting(env.tries, 2, 1, 50), !.maxconns = Setting(env.conns, 25, 1, 500)]
          /\ UNCHANGED <<accepting, table>>
    BY <1>5 DEF getenvoptions
  <2>3. Setting(env.conns, 25, 1, 500) \in Nat /\ Setting(env.conns, 25, 1, 500) > 0
    BY CurvednsAssumption DEF Setting, Clamp
  <2> DEFINE m == Setting(env.conns, 25, 1, 500)
             tries == Setting(env.tries, 2, 1, 50)
  <2> HIDE DEF m, tries
  <2>4. proc' = [proc EXCEPT !.pc = "init", !.tries = tries, !.maxconns = m] /\ m \in Nat /\ m > 0
    BY <2>2, <2>3 DEF m, tries
  <2>5. proc'.pc = "init" /\ proc'.root = proc.root /\ proc'.open = proc.open /\ proc'.maxconns = m
        /\ DOMAIN proc' = {"pc", "root", "open", "tries", "maxconns"}
    BY <1>0, <2>4
  <2>6. Started' /\ Stored'
    BY <1>0, <2>1, <2>2, <2>4, <2>5 DEF Started, Stored
  <2> QED
    BY <2>1, <2>5, <2>6, Start
<1>6. CASE init
  <2>1. Same /\ proc.pc = "init"
    BY <1>6 DEF init, Starting
  <2>2. CASE proc' = [proc EXCEPT !.pc = "loop"] /\ accepting' = Listener /\ table' = dnscurve_init
    <3>1. proc'.pc = "loop" /\ proc'.root = proc.root /\ proc'.open = proc.open /\ proc'.maxconns = proc.maxconns
          /\ DOMAIN proc' = {"pc", "root", "open", "tries", "maxconns"}
      BY <1>0, <2>2
    <3>2. IsTable(table')
      BY <2>2, InitLaid DEF dnscurve_init
    <3>3. table' # None
      BY <3>2, CurvednsAssumption DEF IsTable, Laid
    <3>4. Started' /\ Stored'
      BY <1>0, <2>1, <2>2, <3>1, <3>2, <3>3 DEF Started, Stored
    <3> QED
      BY <2>1, <2>2, <3>1, <3>4, Start
  <2> QED
    BY <1>6, <2>1, <2>2, Died DEF init
<1> QED
  BY <1>3, <1>4, <1>5, <1>6

\* A turn of the loop begins with what is ready.
LEMMA Polls == Inv /\ ev_poll => Inv'
<1> SUFFICES ASSUME Inv, ev_poll PROVE Inv'
  OBVIOUS
<1>1. proc.pc = "loop" /\ queue' \subseteq Ready /\ out' = None
      /\ UNCHANGED <<proc, entries, conns, accepting, table>>
  BY DEF ev_poll, kSubset
<1>2. Held /\ Counted /\ Stored
  BY DEF Inv, Mem
<1>3. Held'
  BY <1>1, <1>2 DEF Held, Lost, Live
<1>4. Counted' /\ Queued'
  BY <1>1, <1>2 DEF Counted, Conns, Live, Queued, Ready
<1>5. Mem' /\ AnswersAsker'
  BY <1>1, <1>3, <1>4 DEF Mem, AnswersAsker
<1> QED
  BY <1>1, <1>2, <1>5, Done DEF Running, Stored

\* SIGHUP empties the table; SIGTERM frees it.
LEMMA Signals == Inv /\ (event_signal_cb \/ quit) => Inv'
<1> SUFFICES ASSUME Inv, event_signal_cb \/ quit PROVE Inv'
  OBVIOUS
<1>0. Started /\ Stored /\ Mem /\ Held /\ Counted /\ Queued /\ DOMAIN proc = {"pc", "root", "open", "tries", "maxconns"}
  BY DEF Inv, Mem, Started
<1>1. ASSUME proc'.pc \notin {"sockets", "privileges", "options", "init", "loop"}, proc.pc \in {"loop", "stopping"},
             DOMAIN proc' = DOMAIN proc, proc'.maxconns = proc.maxconns, proc'.open \subseteq proc.open,
             queue' \subseteq queue, table' \in {None, table}, out' = None, entries' = entries
      PROVE  Inv'
  <2>1. Started'
    BY <1>0, <1>1 DEF Started
  <2>2. Stored' /\ AnswersAsker'
    BY <1>0, <1>1 DEF Stored, AnswersAsker
  <2>3. Held'
    BY <1>0, <1>1 DEF Held, Lost, Live, Events
  <2>4. Mem'
    BY <1>1, <2>3 DEF Mem, Counted, Queued
  <2> QED
    BY <2>1, <2>2, <2>4 DEF Inv
<1>2. CASE event_signal_cb
  <2>1. PICK s \in {"hup", "term"} :
          /\ proc.pc = "loop" /\ queue' \subseteq queue /\ out' = None /\ UNCHANGED <<entries, conns, accepting>>
          /\ IF s = "hup" THEN table' = cache_empty(table) /\ UNCHANGED proc
             ELSE table' = None /\ proc' = [proc EXCEPT !.pc = "stopping", !.open = {}]
    BY <1>2 DEF event_signal_cb, Handled
  <2>2. CASE s = "hup"
    <3>1. IsTable(table) /\ proc' = proc
      BY <1>0, <2>1, <2>2 DEF Stored
    <3>2. IsTable(table')
      BY <2>1, <2>2, <3>1, EmptyTable
    <3>3. table' # None
      BY <3>2, CurvednsAssumption DEF IsTable, Laid
    <3>4. Mem' /\ AnswersAsker'
      BY <1>0, <2>1, <3>1, Idle DEF AnswersAsker
    <3> QED
      BY <2>1, <3>1, <3>2, <3>3, <3>4, Done DEF Running
  <2>3. CASE s # "hup"
    <3>1. proc'.pc = "stopping" /\ DOMAIN proc' = DOMAIN proc /\ proc'.maxconns = proc.maxconns /\ proc'.open = {}
      BY <1>0, <2>1, <2>3
    <3> QED
      BY <1>1, <2>1, <2>3, <3>1
  <2> QED
    BY <2>2, <2>3
<1>3. CASE quit
  <2>1. proc.pc = "stopping" /\ proc' = [proc EXCEPT !.pc = "exit"] /\ out' = None
        /\ UNCHANGED <<entries, conns, accepting, queue, table>>
    BY <1>3 DEF quit
  <2>2. proc'.pc = "exit" /\ DOMAIN proc' = DOMAIN proc /\ proc'.maxconns = proc.maxconns /\ proc'.open = proc.open
    BY <1>0, <2>1
  <2> QED
    BY <1>1, <2>1, <2>2
<1> QED
  BY <1>2, <1>3

----------------------------------------------------------------------------
(* event_udp.c *)

\* A response that is the expected one.
LEMMA Answered ==
  ASSUME NEW p, out' = None \/ out' = [reply |-> Expected(p), asked |-> p]
  PROVE  AnswersAsker'
<1>1. CASE out' = None
  BY <1>1 DEF AnswersAsker
<1>2. CASE out' = [reply |-> Expected(p), asked |-> p]
  <2>1. out'.asked = p /\ out'.reply = Expected(p)
    BY <1>2
  <2> QED
    BY <2>1 DEF AnswersAsker, Expected
<1> QED
  BY <1>1, <1>2

\* The id sent to the server is not part of the response.
LEMMA FitsAgain ==
  ASSUME NEW d, Dns(d), NEW id, NEW text, NEW p
  PROVE  LET d2 == [d EXCEPT !.dsttxid = id]
         IN Dns(d2) /\ (Fits(d, text, p) => Fits(d2, text, p))
<1> DEFINE d2 == [d EXCEPT !.dsttxid = id]
<1>1. /\ Dns(d2) /\ d2.type = d.type /\ d2.srctxid = d.srctxid /\ d2.srcinsidetxid = d.srcinsidetxid
      /\ d2.secret = d.secret /\ d2.nonce = d.nonce /\ d2.qname = d.qname
  BY DEF Dns
<1> HIDE DEF d2
<1>2. RestoredId(d2) = RestoredId(d)
  BY <1>1 DEF RestoredId
<1>3. Box(d2, RestoredId(d2), text) = Box(d, RestoredId(d), text)
  BY <1>1, <1>2 DEF Box
<1>4. ASSUME NEW big \in BOOLEAN PROVE dns_reply_query_tcp(d2, text, big) = dns_reply_query_tcp(d, text, big)
  BY <1>1, <1>2, <1>3 DEF dns_reply_query_tcp, dnscurve_reply_streamlined_query, dnscurve_reply_txt_query
<1>5. Fits(d, text, p) => Fits(d2, text, p)
  BY <1>4 DEF Fits
<1> QED
  BY <1>1, <1>5 DEF d2

\* A query is forwarded, at first or once more, under a new id.
LEMMA Forwarded ==
  ASSUME NEW x, DOMAIN x = {"proto", "state", "retries", "sock", "active", "dns", "text", "asked"},
         x.proto = "udp", Dns(x.dns), NEW id
  PROVE  LET y == dns_forward_query_udp(x, id)
         IN /\ Good(y) /\ y.proto = "udp" /\ y.active = {"read", "timer"}
            /\ Fits(x.dns, x.text, x.asked) => Answerable(y)
<1> DEFINE y == dns_forward_query_udp(x, id)
           d2 == [x.dns EXCEPT !.dsttxid = id]
<1>1. /\ DOMAIN y = DOMAIN x /\ y.proto = "udp" /\ y.active = {"read", "timer"} /\ y.sock = TRUE
      /\ y.dns = d2 /\ y.text = x.text /\ y.asked = x.asked /\ y.state = "int_writing"
  BY DEF dns_forward_query_udp
<1>2. Dns(d2) /\ (Fits(x.dns, x.text, x.asked) => Fits(d2, x.text, x.asked))
  BY FitsAgain
<1> HIDE DEF y, d2
<1>3. Good(y)
  BY <1>1, <1>2 DEF Good, Udp, Watched, Abandoned
<1>4. Fits(x.dns, x.text, x.asked) => Answerable(y)
  BY <1>1, <1>2 DEF Answerable
<1> QED
  BY <1>1, <1>3, <1>4 DEF y

\* An entry with an event in the queue that waits for the server can answer.
LEMMA Awaited ==
  ASSUME Held, NEW e \in Live, Waits(entries[e]), NEW w \in {"read", "write", "timer"}, <<e, w>> \in queue
  PROVE  Fits(entries[e].dns, entries[e].text, entries[e].asked)
<1>1. Answerable(entries[e]) \/ Lost(e)
  BY DEF Held
<1>2. ~Lost(e)
  BY DEF Lost, Events
<1> QED
  BY <1>1, <1>2 DEF Answerable

\* A callback that ends its entry, or does nothing, and sends nothing.
LEMMA Ends ==
  ASSUME Inv, Running, proc' = proc, table' = None \/ IsTable(table'), proc.pc = "loop" => table' # None, out' = None,
         \/ UNCHANGED <<entries, conns, accepting>> /\ queue' \subseteq queue
         \/ \E e \in Live : \E w \in {"read", "write", "timer"} : event_cleanup_entry(e, <<e, w>>)
  PROVE  Inv'
<1>1. Started /\ Mem
  BY DEF Inv
<1>2. Mem'
  BY <1>1, Idle, Cleaned
<1> QED
  BY <1>2, Done DEF AnswersAsker

\* A query over UDP.
LEMMA UdpQueries == Inv /\ event_udp_ext_cb => Inv'
<1> SUFFICES ASSUME Inv, event_udp_ext_cb PROVE Inv'
  OBVIOUS
<1>0. Started /\ Stored /\ Mem /\ Held /\ Counted /\ Queued
  BY DEF Inv, Mem
<1>1. PICK l \in Listener, p \in Packets \cup {None} :
        /\ Running /\ queue' \subseteq queue /\ out' = None /\ UNCHANGED <<proc, conns, accepting>>
        /\ IF p = None \/ proc.pc = "stopping"
           THEN UNCHANGED <<entries, table, zero>>
           ELSE LET got == dnscurve_analyze_query(NoDns, table, p)
                IN /\ Spare # {} /\ table' = got.table
                   /\ \/ \E id \in Ids :
                           /\ got.ok
                           /\ Keep(Min(Spare), dns_forward_query_udp([proto |-> "udp", state |-> "ext_reading", retries |-> 0, sock |-> FALSE,
                                                          active |-> {}, dns |-> got.dns, text |-> got.text, asked |-> p], id))
                           /\ Opened(Min(Spare), "int")
                      \/ UNCHANGED <<entries, zero>>
  BY DEF event_udp_ext_cb, Handled
<1>2. CASE p = None \/ proc.pc = "stopping"
  <2>1. table' = table /\ UNCHANGED <<entries, conns, accepting>>
    BY <1>1, <1>2
  <2> QED
    BY <1>0, <1>1, <2>1, Ends DEF Stored
<1>3. CASE ~(p = None \/ proc.pc = "stopping")
  <2> DEFINE got == dnscurve_analyze_query(NoDns, table, p)
  <2>1. p \in Packets /\ proc.pc = "loop" /\ Dns(NoDns)
    BY <1>1, <1>3 DEF Running, Dns, NoDns
  <2>2. /\ got.table = None \/ IsTable(got.table)
        /\ table # None => got.table # None
        /\ got.ok => Dns(got.dns)
        /\ got.ok /\ table # None => Fits(got.dns, got.text, p)
    BY <1>0, <2>1, Analyzed DEF Stored
  <2>3. table # None /\ table' = got.table /\ Spare # {}
    BY <1>0, <1>1, <1>3, <2>1 DEF Stored
  <2>4. (\E id \in Ids : got.ok /\ Keep(Min(Spare), dns_forward_query_udp([proto |-> "udp", state |-> "ext_reading", retries |-> 0, sock |-> FALSE,
                              active |-> {}, dns |-> got.dns, text |-> got.text, asked |-> p], id)))
        \/ UNCHANGED entries
    BY <1>1, <1>3
  <2> HIDE DEF got
  <2>5. CASE UNCHANGED entries
    BY <1>1, <2>2, <2>3, <2>5, Ends
  <2>6. ASSUME NEW id \in Ids, got.ok, 
               Keep(Min(Spare), dns_forward_query_udp([proto |-> "udp", state |-> "ext_reading", retries |-> 0, sock |-> FALSE,
                              active |-> {}, dns |-> got.dns, text |-> got.text, asked |-> p], id))
        PROVE  Inv'
    <3> DEFINE x == [proto |-> "udp", state |-> "ext_reading", retries |-> 0, sock |-> FALSE,
                     active |-> {}, dns |-> got.dns, text |-> got.text, asked |-> p]
               y == dns_forward_query_udp(x, id)
               e == Min(Spare)
    <3>1. DOMAIN x = {"proto", "state", "retries", "sock", "active", "dns", "text", "asked"}
          /\ x.proto = "udp" /\ x.dns = got.dns /\ x.text = got.text /\ x.asked = p
      OBVIOUS
    <3>2. Keep(e, y)
      BY <2>6
    <3> HIDE DEF x, e
    <3>3. Good(y) /\ y.proto = "udp" /\ Answerable(y)
      BY <2>2, <2>3, <2>6, <3>1, Forwarded
    <3> HIDE DEF y
    <3>4. e \in Slots /\ e \notin Live
      BY <1>0, <2>3, Spared DEF e
    <3>5. Live' = Live \cup {e} /\ entries'[e] = y /\ \A z \in Live : entries'[z] = entries[z]
      BY <3>2, <3>4, Kept
    <3>6. Held'
      BY <1>0, <1>1, <3>3, <3>4, <3>5, HeldStep
    <3>7. Queued'
      <4>1. \A z \in Live : \A w \in entries[z].active : <<z, w>> \in queue' => z \in Live' /\ w \in entries'[z].active
        BY <3>5
      <4> QED
        BY <1>0, <1>1, <4>1, QueuedStep
    <3>8. Conns' = Conns
      BY <3>3, <3>4, <3>5 DEF Conns
    <3>9. Counted'
      BY <1>0, <1>1, <3>8 DEF Counted
    <3> QED
      BY <1>1, <2>2, <2>3, <3>6, <3>7, <3>9, Done DEF Mem, AnswersAsker
  <2> QED
    BY <2>4, <2>5, <2>6
<1> QED
  BY <1>2, <1>3

\* The server has not answered: once more, or the end.
LEMMA UdpTimeouts == Inv /\ event_udp_timeout_cb => Inv'
<1> SUFFICES ASSUME Inv, event_udp_timeout_cb PROVE Inv'
  OBVIOUS
<1>0. Started /\ Stored /\ Mem /\ Held
  BY DEF Inv, Mem
<1>1. PICK e \in Live :
        /\ Running /\ <<e, "timer">> \in queue /\ entries[e].proto = "udp" /\ out' = None /\ UNCHANGED <<proc, table>>
        /\ \/ event_cleanup_entry(e, <<e, "timer">>)
           \/ \E id \in Ids :
                /\ Handled(<<e, "timer">>, Events(e)) /\ Keep(e, dns_forward_query_udp(entries[e], id))
                /\ UNCHANGED <<conns, accepting>>
  BY DEF event_udp_timeout_cb
<1>2. CASE event_cleanup_entry(e, <<e, "timer">>)
  BY <1>0, <1>1, <1>2, Ends DEF Stored
<1>3. ASSUME NEW id \in Ids, Handled(<<e, "timer">>, Events(e)), Keep(e, dns_forward_query_udp(entries[e], id)),
             UNCHANGED <<conns, accepting>>
      PROVE  Inv'
  <2> DEFINE y == dns_forward_query_udp(entries[e], id)
  <2>1. Good(entries[e])
    BY <1>0 DEF Held
  <2>2. DOMAIN entries[e] = {"proto", "state", "retries", "sock", "active", "dns", "text", "asked"} /\ Dns(entries[e].dns)
    BY <1>1, <2>1 DEF Good, Udp, Tcp
  <2>3. Fits(entries[e].dns, entries[e].text, entries[e].asked)
    BY <1>0, <1>1, Awaited DEF Waits
  <2>4. Good(y) /\ y.proto = "udp" /\ y.active = {"read", "timer"} /\ Answerable(y)
    BY <1>1, <2>2, <2>3, Forwarded
  <2>5. Keep(e, y)
    BY <1>3
  <2> HIDE DEF y
  <2>6. queue' \subseteq queue /\ \A w \in entries[e].active : <<e, w>> \in queue' => w \in y.active
    <3>1. queue' = (queue \ {<<e, "timer">>}) \ Events(e)
      BY <1>3 DEF Handled
    <3>2. Watched(entries[e])
      BY <2>1 DEF Good
    <3>3. \A w \in entries[e].active : <<e, w>> \in Events(e)
      BY <3>2 DEF Watched, Events
    <3> QED
      BY <3>1, <3>3
  <2>7. Mem'
    BY <1>0, <1>1, <1>3, <2>4, <2>5, <2>6, Changed
  <2> QED
    BY <1>0, <1>1, <2>7, Done DEF Stored, AnswersAsker
<1> QED
  BY <1>1, <1>2, <1>3

\* An answer of the server, or what looked like one.
LEMMA UdpAnswers == Inv /\ event_udp_int_cb => Inv'
<1> SUFFICES ASSUME Inv, event_udp_int_cb PROVE Inv'
  OBVIOUS
<1>0. Started /\ Stored /\ Mem /\ Held
  BY DEF Inv, Mem
<1>1. PICK e \in Live, r \in RecvResults :
        /\ Running /\ <<e, "read">> \in queue /\ entries[e].proto = "udp" /\ UNCHANGED <<proc, table>>
        /\ IF r = "none" /\ entries[e].state = "int_writing"
           THEN /\ Keep(e, [entries[e] EXCEPT !.state = "int_reading", !.active = {}])
                /\ Handled(<<e, "read">>, Events(e)) /\ UNCHANGED <<conns, accepting, zero>> /\ out' = None
           ELSE /\ event_cleanup_entry(e, <<e, "read">>)
                /\ \E a \in Answers(entries[e]) :
                     LET reply == dns_reply_query_udp(entries[e].dns, a.text, a.big)
                     IN out' = IF FromTarget(a) /\ dns_analyze_reply_query(entries[e].dns, a) /\ reply # None /\ proc.pc = "loop"
                               THEN [reply |-> reply, asked |-> entries[e].asked] ELSE None
  BY DEF event_udp_int_cb
<1>2. Good(entries[e])
  BY <1>0 DEF Held
<1>3. Fits(entries[e].dns, entries[e].text, entries[e].asked)
  BY <1>0, <1>1, Awaited DEF Waits
<1>4. CASE r = "none" /\ entries[e].state = "int_writing"
  <2> DEFINE y == [entries[e] EXCEPT !.state = "int_reading", !.active = {}]
  <2>1. Keep(e, y) /\ Handled(<<e, "read">>, Events(e)) /\ UNCHANGED <<conns, accepting>> /\ out' = None
    BY <1>1, <1>4
  <2>2. Udp(entries[e]) /\ Dns(entries[e].dns)
    BY <1>1, <1>2 DEF Good, Tcp
  <2>3. /\ DOMAIN y = DOMAIN entries[e] /\ y.proto = "udp" /\ y.active = {} /\ y.sock = entries[e].sock
        /\ y.state = "int_reading"
        /\ y.dns = entries[e].dns /\ y.text = entries[e].text /\ y.asked = entries[e].asked
    BY <2>2 DEF Udp
  <2> HIDE DEF y
  <2>4. Good(y) /\ Answerable(y)
    BY <1>3, <1>4, <2>2, <2>3 DEF Good, Udp, Watched, Abandoned, Answerable
  <2>5. queue' \subseteq queue /\ \A w \in entries[e].active : <<e, w>> \in queue' => w \in y.active
    <3>1. queue' = (queue \ {<<e, "read">>}) \ Events(e)
      BY <2>1 DEF Handled
    <3>2. \A w \in entries[e].active : <<e, w>> \in Events(e)
      BY <1>2 DEF Good, Watched, Events
    <3> QED
      BY <3>1, <3>2
  <2>6. Mem'
    BY <1>0, <1>1, <2>1, <2>3, <2>4, <2>5, Changed
  <2> QED
    BY <1>0, <1>1, <2>1, <2>6, Done DEF Stored, AnswersAsker
<1>5. CASE ~(r = "none" /\ entries[e].state = "int_writing")
  <2>1. event_cleanup_entry(e, <<e, "read">>)
    BY <1>1, <1>5
  <2>2. PICK a \in Answers(entries[e]) :
          LET reply == dns_reply_query_udp(entries[e].dns, a.text, a.big)
          IN out' = None \/ (reply # None /\ out' = [reply |-> reply, asked |-> entries[e].asked])
    BY <1>1, <1>5
  <2>3. a.text = entries[e].text /\ a.big \in BOOLEAN
    BY DEF Answers
  <2>4. dns_reply_query_udp(entries[e].dns, a.text, a.big) \in {None, Expected(entries[e].asked)}
    BY <1>3, <2>3 DEF Fits, dns_reply_query_udp
  <2>5. AnswersAsker'
    BY <2>2, <2>4, Answered
  <2>6. Mem'
    BY <1>0, <1>1, <2>1, Cleaned
  <2> QED
    BY <1>0, <1>1, <2>5, <2>6, Done DEF Stored
<1> QED
  BY <1>4, <1>5

----------------------------------------------------------------------------
(* event_tcp.c, and the theorems *)

\* A new connection: at the limit every listener stops.
LEMMA Accepts == Inv /\ event_tcp_accept_cb => Inv'
<1> SUFFICES ASSUME Inv, event_tcp_accept_cb PROVE Inv'
  OBVIOUS
<1>0. Started /\ Stored /\ Mem /\ Held /\ Counted /\ Queued
  BY DEF Inv, Mem
<1> DEFINE e == Min(Spare)
           y == [proto |-> "tcp", state |-> "reading_init", int |-> FALSE, at |-> 0, size |-> 0, sock |-> FALSE,
                 active |-> {"read", "timer"}, dns |-> NoDns, text |-> None, asked |-> None]
<1>1. PICK l \in Listener, r \in AcceptResults :
        /\ Running /\ <<l, "accept">> \in queue /\ out' = None /\ UNCHANGED <<proc, table>>
        /\ CASE r = "ok" /\ Spare # {} ->
               /\ conns' = conns + 1 /\ accepting' = StopsAccepting(conns + 1, l)
               /\ Handled(<<l, "accept">>, {<<x, "accept">> : x \in accepting \ StopsAccepting(conns + 1, l)})
               /\ Opened(e, "ext")
               /\ Keep(e, y)
             [] r = "again" \/ (r = "ok" /\ Spare = {}) ->
               Handled(<<l, "accept">>, {}) /\ UNCHANGED <<entries, conns, accepting, zero>>
             [] r = "error" ->
               Handled(<<l, "accept">>, {}) /\ zero' = None /\ UNCHANGED <<entries, conns, accepting>>
  BY DEF event_tcp_accept_cb
<1>2. r \in {"ok", "again", "error"}
  BY CurvednsAssumption
<1>3. CASE r = "ok" /\ Spare # {}
  <2>1. /\ conns' = conns + 1 /\ accepting' = StopsAccepting(conns + 1, l) /\ Keep(e, y)
        /\ queue' = (queue \ {<<l, "accept">>}) \ {<<x, "accept">> : x \in accepting \ StopsAccepting(conns + 1, l)}
    BY <1>1, <1>3 DEF Handled
  <2>2. Good(y) /\ Answerable(y) /\ y.proto = "tcp"
    BY DEF Good, Tcp, Watched, Abandoned, Dns, NoDns, Answerable, Waits
  <2>3. e \in Slots /\ e \notin Live
    BY <1>0, <1>3, Spared
  <2> HIDE DEF y, e
  <2>4. Live' = Live \cup {e} /\ entries'[e] = y /\ \A z \in Live : entries'[z] = entries[z]
    BY <2>1, <2>3, Kept
  <2>5. Held'
    BY <1>0, <1>1, <2>1, <2>2, <2>3, <2>4, HeldStep
  <2>6. Queued'
    <3>1. \A z \in Live : \A w \in entries[z].active : <<z, w>> \in queue' => z \in Live' /\ w \in entries'[z].active
      BY <2>4
    <3>2. \A x \in accepting : <<x, "accept">> \in queue' => x \in accepting'
      BY <2>1
    <3> QED
      BY <1>0, <1>1, <2>1, <3>1, <3>2, QueuedStep
  <2>7. Counted'
    <3> SUFFICES ASSUME proc.pc = "loop"
                 PROVE  /\ conns' = Cardinality(Conns') /\ conns' <= proc.maxconns
                        /\ accepting' = IF conns' >= proc.maxconns THEN {} ELSE Listener
      BY <1>1 DEF Counted
    <3>1. conns = Cardinality(Conns) /\ conns <= proc.maxconns /\ accepting = IF conns >= proc.maxconns THEN {} ELSE Listener
      BY <1>0 DEF Counted
    <3>2. IsFiniteSet(Conns) /\ conns \in Nat /\ proc.maxconns \in Nat
      BY <1>0, <3>1, Finite DEF Started
    <3>3. Conns' = Conns \cup {e} /\ e \notin Conns
      BY <2>2, <2>3, <2>4 DEF Conns
    <3>4. Cardinality(Conns') = conns + 1
      BY <3>1, <3>2, <3>3, FS_AddElement
    <3>5. l \in accepting
      <4>1. <<l, "accept">> \in Ready
        BY <1>0, <1>1 DEF Queued
      <4>2. Event(<<l, "accept">>, entries, accepting)
        BY <4>1, ReadyIs DEF Ready, ReadyOf, Live
      <4>3. ASSUME NEW x \in Live, NEW w \in entries[x].active PROVE w # "accept"
        BY <1>0 DEF Held, Good, Watched
      <4> QED
        BY <4>2, <4>3 DEF Event, Live
    <3>6. ~(conns >= proc.maxconns) /\ accepting = Listener
      BY <3>1, <3>5
    <3>7. conns' <= proc.maxconns
      BY <2>1, <3>2, <3>6
    <3> QED
      BY <2>1, <3>4, <3>6, <3>7 DEF StopsAccepting
  <2> QED
    BY <1>0, <1>1, <2>5, <2>6, <2>7, Done DEF Mem, Stored, AnswersAsker
<1>4. CASE ~(r = "ok" /\ Spare # {})
  <2>1. queue' \subseteq queue /\ UNCHANGED <<entries, conns, accepting>>
    BY <1>1, <1>2, <1>4 DEF Handled
  <2> QED
    BY <1>0, <1>1, <2>1, Ends DEF Stored
<1> QED
  BY <1>3, <1>4

\* A connection that is idle too long.
LEMMA TcpTimeouts == Inv /\ event_tcp_timeout_cb => Inv'
<1> SUFFICES ASSUME Inv, event_tcp_timeout_cb PROVE Inv'
  OBVIOUS
<1>1. PICK e \in Live : Running /\ event_cleanup_entry(e, <<e, "timer">>) /\ out' = None /\ UNCHANGED <<proc, table>>
  BY DEF event_tcp_timeout_cb
<1>2. Stored
  BY DEF Inv
<1> QED
  BY <1>1, <1>2, Ends DEF Stored

\* A connection that only reads or writes on.
Onward(x, y) ==
  /\ DOMAIN y = DOMAIN x /\ y.proto = x.proto /\ y.int = x.int /\ y.sock = x.sock /\ y.dns = x.dns
  /\ y.text = x.text /\ y.asked = x.asked

\* It keeps the invariant.
LEMMA Goes ==
  ASSUME Inv, Running, UNCHANGED <<proc, table, conns, accepting>>, out' = None, queue' \subseteq queue,
         NEW e \in Live, entries[e].proto = "tcp", NEW y, Keep(e, y), Onward(entries[e], y),
         Watched(y), \A w \in entries[e].active : <<e, w>> \in queue' => w \in y.active
  PROVE  Inv'
<1>0. Started /\ Stored /\ Mem /\ Held
  BY DEF Inv, Mem
<1>1. Tcp(entries[e]) /\ Dns(entries[e].dns) /\ (Answerable(entries[e]) \/ Lost(e))
  BY <1>0 DEF Held, Good, Udp
<1>2. Good(y) /\ (Answerable(y) \/ Lost(e)')
  <2>1. Good(y)
    BY <1>1 DEF Good, Tcp, Onward
  <2>2. Answerable(entries[e]) => Answerable(y)
    BY DEF Answerable, Waits, Onward
  <2>3. Lost(e) => Lost(e)'
    BY DEF Lost, Events
  <2> QED
    BY <1>1, <2>1, <2>2, <2>3
<1>3. Mem'
  BY <1>0, <1>2, Changed DEF Onward
<1> QED
  BY <1>0, <1>3, Done DEF Stored, AnswersAsker

\* A query goes to the server, or a response to the client.
LEMMA Writes == Inv /\ event_tcp_write_cb => Inv'
<1> SUFFICES ASSUME Inv, event_tcp_write_cb PROVE Inv'
  OBVIOUS
<1>0. Started /\ Stored /\ Mem /\ Held
  BY DEF Inv, Mem
<1> DEFINE initial(x) == x.state = "writing_init"
           left(x) == (IF initial(x) THEN 2 ELSE x.size) - x.at
           Next_(x, n) == IF initial(x) /\ n = left(x) THEN [x EXCEPT !.state = "writing_more", !.at = 0]
                          ELSE IF n < left(x) THEN [x EXCEPT !.at = @ + n]
                          ELSE [x EXCEPT !.state = "reading_init", !.at = 0, !.size = 0, !.active = {"read", "timer"}]
<1>1. PICK e \in Live :
        /\ Running /\ <<e, "write">> \in queue /\ entries[e].proto = "tcp" /\ out' = None /\ UNCHANGED <<proc, table>>
        /\ \/ \E n \in (IF left(entries[e]) = 0 THEN {0} ELSE 1..left(entries[e])) :
                Again(e, Next_(entries[e], n), <<e, "write">>,
                      IF "write" \in Next_(entries[e], n).active THEN {} ELSE {<<e, "write">>})
           \/ Handled(<<e, "write">>, {}) /\ UNCHANGED <<entries, conns, accepting, zero>>
           \/ event_cleanup_entry(e, <<e, "write">>)
  BY DEF event_tcp_write_cb
<1>2. Tcp(entries[e]) /\ Watched(entries[e])
  BY <1>0, <1>1 DEF Held, Good, Udp
<1>3. ASSUME NEW n, NEW S, Again(e, Next_(entries[e], n), <<e, "write">>, S) PROVE Inv'
  <2> DEFINE y == Next_(entries[e], n)
  <2>1. Onward(entries[e], y) /\ y.active \in {entries[e].active, {"read", "timer"}}
    <3> DEFINE x == entries[e]
               n1 == x.at + n
    <3>1. DOMAIN x = {"proto", "state", "int", "at", "size", "sock", "active", "dns", "text", "asked"}
      BY <1>2 DEF Tcp
    <3>2. y = [x EXCEPT !.state = "writing_more", !.at = 0] \/ y = [x EXCEPT !.at = @ + n]
          \/ y = [x EXCEPT !.state = "reading_init", !.at = 0, !.size = 0, !.active = {"read", "timer"}]
      OBVIOUS
    <3> HIDE DEF x, y
    <3>3. Onward(x, y) /\ y.active \in {x.active, {"read", "timer"}}
      BY <3>1, <3>2 DEF Onward
    <3> QED
      BY <3>3 DEF x
  <2>2. Keep(e, y) /\ UNCHANGED <<conns, accepting>> /\ queue' = (queue \ {<<e, "write">>}) \ S
    BY <1>3 DEF Again, Handled
  <2> HIDE DEF y
  <2>3. Watched(y)
    BY <1>1, <1>2, <2>1 DEF Watched, Abandoned, Onward
  <2>4. \A w \in entries[e].active : <<e, w>> \in queue' => w \in y.active
    BY <1>2, <2>1, <2>2 DEF Watched
  <2>5. queue' \subseteq queue
    BY <2>2
  <2> QED
    BY <1>1, <2>1, <2>2, <2>3, <2>4, <2>5, Goes
<1>4. CASE Handled(<<e, "write">>, {}) /\ UNCHANGED <<entries, conns, accepting, zero>>
  BY <1>0, <1>1, <1>4, Ends DEF Stored, Handled
<1>5. CASE event_cleanup_entry(e, <<e, "write">>)
  BY <1>0, <1>1, <1>5, Ends DEF Stored
<1> QED
  BY <1>1, <1>3, <1>4, <1>5

\* A part of a message.
LEMMA ReadsPart ==
  ASSUME Inv, NEW e \in Live, Running, entries[e].proto = "tcp", UNCHANGED <<proc, table>>, out' = None,
         read_part(e, <<e, "read">>)
  PROVE  Inv'
<1>0. Started /\ Stored /\ Mem /\ Held
  BY DEF Inv, Mem
<1>1. (\E n : Again(e, [entries[e] EXCEPT !.at = @ + n], <<e, "read">>, {}))
      \/ (\E size : Again(e, [entries[e] EXCEPT !.at = 0, !.size = size, !.state = "reading_more"], <<e, "read">>, {}))
      \/ (Handled(<<e, "read">>, {}) /\ UNCHANGED <<entries, conns, accepting, zero>>)
      \/ event_cleanup_entry(e, <<e, "read">>)
  BY DEF read_part
<1>2. Tcp(entries[e]) /\ Watched(entries[e])
  BY <1>0 DEF Held, Good, Udp
<1>3. ASSUME NEW y, Again(e, y, <<e, "read">>, {}), Onward(entries[e], y), y.active = entries[e].active PROVE Inv'
  <2>1. Keep(e, y) /\ UNCHANGED <<conns, accepting>> /\ queue' \subseteq queue
    BY <1>3 DEF Again, Handled
  <2>2. Watched(y)
    BY <1>2, <1>3 DEF Watched, Abandoned, Onward, Tcp
  <2> QED
    BY <1>3, <2>1, <2>2, Goes
<1>4. ASSUME NEW n, Again(e, [entries[e] EXCEPT !.at = @ + n], <<e, "read">>, {}) PROVE Inv'
  <2> DEFINE y == [entries[e] EXCEPT !.at = @ + n]
  <2>1. Onward(entries[e], y) /\ y.active = entries[e].active
    BY <1>2 DEF Onward, Tcp
  <2> QED
    BY <1>3, <1>4, <2>1
<1>5. ASSUME NEW size, Again(e, [entries[e] EXCEPT !.at = 0, !.size = size, !.state = "reading_more"], <<e, "read">>, {})
      PROVE  Inv'
  <2> DEFINE y == [entries[e] EXCEPT !.at = 0, !.size = size, !.state = "reading_more"]
  <2>1. Onward(entries[e], y) /\ y.active = entries[e].active
    BY <1>2 DEF Onward, Tcp
  <2> QED
    BY <1>3, <1>5, <2>1
<1>6. CASE Handled(<<e, "read">>, {}) /\ UNCHANGED <<entries, conns, accepting, zero>>
  BY <1>0, <1>6, Ends DEF Stored, Handled
<1>7. CASE event_cleanup_entry(e, <<e, "read">>)
  BY <1>0, <1>7, Ends DEF Stored
<1> QED
  BY <1>1, <1>4, <1>5, <1>6, <1>7

\* A whole query: an earlier one of the connection, of another format, may
\* have left its fields behind.
LEMMA ReadsQuery ==
  ASSUME Inv, NEW e \in Live, Running, entries[e].proto = "tcp", <<e, "read">> \in queue, UNCHANGED proc, out' = None,
         NEW p \in Packets, read_query(e, <<e, "read">>, p)
  PROVE  Inv'
<1>0. Started /\ Stored /\ Mem /\ Held
  BY DEF Inv, Mem
<1> DEFINE x == entries[e]
           got == dnscurve_analyze_query(x.dns, table, p)
           y(id) == [dns_forward_query_tcp(x, got, id) EXCEPT
                       !.state = "writing_init", !.at = 0, !.active = {"write", "timer"}, !.asked = p]
<1>1. /\ table' = got.table
      /\ \/ \E id \in Ids : got.ok /\ Again(e, y(id), <<e, "read">>, Events(e))
         \/ event_cleanup_entry(e, <<e, "read">>)
  BY DEF read_query
<1>2. Tcp(x) /\ Dns(x.dns) /\ Watched(x)
  BY <1>0 DEF Held, Good, Udp
<1>3. /\ got.table = None \/ IsTable(got.table)
      /\ table # None => got.table # None
      /\ got.ok => Dns(got.dns)
      /\ got.ok /\ table # None => Fits(got.dns, got.text, p)
  BY <1>0, <1>2, Analyzed DEF Stored
<1> HIDE DEF got
<1>4. (table' = None \/ IsTable(table')) /\ (proc.pc = "loop" => table # None /\ table' # None)
  BY <1>0, <1>1, <1>3 DEF Stored
<1>5. CASE event_cleanup_entry(e, <<e, "read">>)
  BY <1>4, <1>5, Ends
<1>6. ASSUME NEW id \in Ids, got.ok, Again(e, y(id), <<e, "read">>, Events(e)) PROVE Inv'
  <2> DEFINE z == y(id)
             d2 == [got.dns EXCEPT !.dsttxid = id]
  <2>1. Dns(d2) /\ (Fits(got.dns, got.text, p) => Fits(d2, got.text, p))
    BY <1>3, <1>6, FitsAgain
  <2> HIDE DEF d2
  <2>2. /\ DOMAIN z = DOMAIN x /\ z.proto = x.proto /\ z.int = TRUE /\ z.sock = TRUE /\ z.dns = d2
        /\ z.text = got.text /\ z.asked = p /\ z.active = {"write", "timer"}
    <3> HIDE DEF x
    <3> QED
      BY <1>2 DEF dns_forward_query_tcp, Tcp, d2
  <2>3. Keep(e, z) /\ UNCHANGED <<conns, accepting>> /\ queue' = (queue \ {<<e, "read">>}) \ Events(e)
    BY <1>6 DEF Again, Handled
  <2> HIDE DEF z, y
  <2>4. Good(z)
    BY <1>2, <2>1, <2>2 DEF Good, Tcp, Watched, Abandoned
  <2>5. Answerable(z) \/ Lost(e)'
    <3>1. CASE proc.pc = "loop"
      BY <1>3, <1>4, <1>6, <2>1, <2>2, <3>1 DEF Answerable
    <3>2. CASE proc.pc # "loop"
      BY <2>3, <3>2 DEF Lost, Events
    <3> QED
      BY <3>1, <3>2
  <2>6. queue' \subseteq queue /\ \A w \in x.active : <<e, w>> \notin queue'
    <3>1. \A w \in x.active : <<e, w>> \in Events(e)
      BY <1>2 DEF Watched, Events
    <3> QED
      BY <2>3, <3>1
  <2>7. z.proto = entries[e].proto /\ \A w \in entries[e].active : <<e, w>> \in queue' => w \in z.active
    BY <2>2, <2>6
  <2>8. Mem'
    BY <1>0, <2>3, <2>4, <2>5, <2>6, <2>7, Changed
  <2> QED
    BY <1>4, <2>8, Done DEF AnswersAsker
<1> QED
  BY <1>1, <1>5, <1>6

\* A whole answer.
LEMMA ReadsAnswer ==
  ASSUME Inv, NEW e \in Live, Running, entries[e].proto = "tcp", <<e, "read">> \in queue, UNCHANGED <<proc, table>>,
         read_answer(e, <<e, "read">>)
  PROVE  Inv'
<1>0. Started /\ Stored /\ Mem /\ Held
  BY DEF Inv, Mem
<1> DEFINE x == entries[e]
           z == [x EXCEPT !.state = "writing_init", !.at = 0, !.int = FALSE, !.sock = FALSE,
                          !.active = {"write", "timer"}, !.text = None, !.asked = None]
<1>1. PICK a \in Answers(x) :
        LET reply == dns_reply_query_tcp(x.dns, a.text, a.big)
        IN IF dns_analyze_reply_query(x.dns, a) /\ reply # None
           THEN out' = [reply |-> reply, asked |-> x.asked] /\ Again(e, z, <<e, "read">>, Events(e))
           ELSE event_cleanup_entry(e, <<e, "read">>) /\ out' = None
  BY DEF read_answer
<1>2. Tcp(x) /\ Dns(x.dns) /\ Watched(x)
  BY <1>0 DEF Held, Good, Udp
<1>3. Fits(x.dns, x.text, x.asked)
  <2>1. Waits(x)
    BY DEF read_answer, Waits
  <2> QED
    BY <1>0, <2>1, Awaited
<1> DEFINE reply == dns_reply_query_tcp(x.dns, a.text, a.big)
<1>4. reply \in {None, Expected(x.asked)}
  <2>1. a.text = x.text /\ a.big \in BOOLEAN
    BY DEF Answers
  <2> QED
    BY <1>3, <2>1 DEF Fits
<1>5. CASE dns_analyze_reply_query(x.dns, a) /\ reply # None
  <2>1. out' = [reply |-> Expected(x.asked), asked |-> x.asked] /\ Again(e, z, <<e, "read">>, Events(e))
    BY <1>1, <1>4, <1>5
  <2>2. AnswersAsker'
    BY <2>1, Answered
  <2>3. Keep(e, z) /\ UNCHANGED <<conns, accepting>> /\ queue' = (queue \ {<<e, "read">>}) \ Events(e)
    BY <2>1 DEF Again, Handled
  <2>4. /\ DOMAIN z = DOMAIN x /\ z.proto = x.proto /\ z.int = FALSE /\ z.sock = FALSE /\ z.dns = x.dns
        /\ z.active = {"write", "timer"}
    <3> HIDE DEF x
    <3> QED
      BY <1>2 DEF Tcp
  <2> HIDE DEF z
  <2>5. Good(z) /\ Answerable(z)
    <3>1. z.proto = "tcp"
      BY <2>4
    <3> QED
      BY <1>2, <2>4, <3>1 DEF Good, Tcp, Watched, Abandoned, Answerable, Waits
  <2>6. queue' \subseteq queue /\ \A w \in x.active : <<e, w>> \notin queue'
    <3>1. \A w \in x.active : <<e, w>> \in Events(e)
      BY <1>2 DEF Watched, Events
    <3> QED
      BY <2>3, <3>1
  <2>7. z.proto = entries[e].proto /\ \A w \in entries[e].active : <<e, w>> \in queue' => w \in z.active
    BY <2>4, <2>6
  <2>8. Mem'
    BY <1>0, <2>3, <2>5, <2>6, <2>7, Changed
  <2> QED
    BY <1>0, <2>2, <2>8, Done DEF Stored
<1>6. CASE ~(dns_analyze_reply_query(x.dns, a) /\ reply # None)
  <2>1. event_cleanup_entry(e, <<e, "read">>) /\ out' = None
    BY <1>1, <1>6
  <2> QED
    BY <1>0, <2>1, Ends DEF Stored
<1> QED
  BY <1>5, <1>6

\* What a connection can read.
LEMMA Reads == Inv /\ event_tcp_read_cb => Inv'
<1> SUFFICES ASSUME Inv, event_tcp_read_cb PROVE Inv'
  OBVIOUS
<1>1. PICK e \in Live :
        /\ Running /\ <<e, "read">> \in queue /\ entries[e].proto = "tcp" /\ UNCHANGED proc
        /\ \/ read_part(e, <<e, "read">>) /\ out' = None /\ UNCHANGED table
           \/ \E p \in Packets : read_query(e, <<e, "read">>, p) /\ out' = None
           \/ read_answer(e, <<e, "read">>) /\ UNCHANGED table
  BY DEF event_tcp_read_cb
<1>2. CASE read_part(e, <<e, "read">>) /\ out' = None /\ UNCHANGED table
  BY <1>1, <1>2, ReadsPart
<1>3. ASSUME NEW p \in Packets, read_query(e, <<e, "read">>, p), out' = None PROVE Inv'
  BY <1>1, <1>3, ReadsQuery
<1>4. CASE read_answer(e, <<e, "read">>) /\ UNCHANGED table
  BY <1>1, <1>4, ReadsAnswer
<1> QED
  BY <1>1, <1>2, <1>3, <1>4

----------------------------------------------------------------------------
\* Every step keeps the invariant.
LEMMA Steps == Inv /\ [Next]_vars => Inv'
<1> SUFFICES ASSUME Inv, [Next]_vars PROVE Inv'
  OBVIOUS
<1>1. CASE UNCHANGED vars
  BY <1>1 DEF vars, Inv, Started, Stored, Mem, Held, Lost, Live, Counted, Conns, Queued, Ready, AnswersAsker
<1>2. CASE Next
  BY <1>2, Starts, Polls, UdpQueries, UdpTimeouts, UdpAnswers, Accepts, TcpTimeouts, Writes, Reads, Signals DEF Next
<1> QED
  BY <1>1, <1>2

\* A table that is laid out is sound, and its used entries hold the right
\* secrets.
LEMMA InvTable == Inv => TableSound
<1> SUFFICES ASSUME Inv, table # None
             PROVE  Sound(table) /\ \A e \in Entry : table.key[e] # None => table.value[e] = Secret(table.key[e])
  BY DEF TableSound
<1>1. PICK u, h, lo, hi, v, a, b : Laid(table, u, h, lo, hi, v, a, b)
  BY DEF Inv, Stored, IsTable
<1>2. Keyed(table, u, h, lo, hi, v, a, b) /\ Covered(u, lo, hi, v, a, b, {})
  BY <1>1 DEF Laid
<1>3. ASSUME NEW e \in Entry, table.key[e] # None PROVE table.value[e] = Secret(table.key[e])
  <2>1. e \notin Run(v, a, b)
    BY <1>2, <1>3 DEF Keyed, Run
  <2>2. PICK i \in lo..hi : e = u[i]
    BY <1>2, <2>1 DEF Covered, Run
  <2> QED
    BY <1>2, <2>2 DEF Keyed
<1> QED
  BY <1>1, <1>3, LaidSound

\* The invariant gives Accounted.
LEMMA InvAccounted == Inv => Accounted
<1> SUFFICES ASSUME Inv, proc.pc = "loop"
             PROVE  /\ ~proc.root /\ proc.open = Listener
                    /\ conns = Cardinality({e \in Live : entries[e].proto = "tcp"})
                    /\ accepting = IF conns >= proc.maxconns THEN {} ELSE Listener
                    /\ \A e \in Live : /\ IF Abandoned(entries[e]) THEN entries[e].active = {}
                                          ELSE entries[e].active \in {{"read", "timer"}, {"write", "timer"}}
                                       /\ entries[e].sock = (entries[e].proto = "udp" \/ entries[e].int)
                    /\ queue \subseteq Ready
  BY DEF Accounted
<1>1. Started /\ Held /\ Counted /\ Queued
  BY DEF Inv, Mem
<1>2. ASSUME NEW e \in Live
      PROVE  /\ IF Abandoned(entries[e]) THEN entries[e].active = {}
                ELSE entries[e].active \in {{"read", "timer"}, {"write", "timer"}}
             /\ entries[e].sock = (entries[e].proto = "udp" \/ entries[e].int)
  <2>1. (Udp(entries[e]) \/ Tcp(entries[e])) /\ Watched(entries[e])
    BY <1>1 DEF Held, Good
  <2>2. CASE Udp(entries[e])
    BY <2>1, <2>2 DEF Udp, Watched
  <2>3. CASE Tcp(entries[e])
    BY <2>1, <2>3 DEF Tcp, Watched
  <2> QED
    BY <2>1, <2>2, <2>3
<1> QED
  BY <1>1, <1>2 DEF Started, Counted, Conns, Queued

\* After any history of clients, evictions and SIGHUPs the table of shared
\* secrets (cache_hashtable.c) is sound: its three kinds of links agree, no
\* key is twice in it, and it holds for a key what the server shares with its
\* owner.
THEOREM CurvednsTableSound == Spec => []TableSound
BY InitInv, Steps, InvTable, PTL DEF Spec

\* Every response curvedns sends can be read by whoever asked for it: in the
\* format, under the id, the secret and the nonce of the very query
\* (dnscurve.c, event_udp.c, event_tcp.c).
THEOREM CurvednsAnswersAsker == Spec => []AnswersAsker
<1>1. Inv => AnswersAsker
  BY DEF Inv
<1> QED
  BY InitInv, Steps, <1>1, PTL DEF Spec

\* Whatever recvfrom and accept say, every entry is watched, or abandoned by a
\* recvfrom that failed (event_udp.c:103-113) with no event of it left; no
\* event is left of a watcher that was stopped, the count of connections is
\* right and listeners accept unless it is at its limit (event_main.c,
\* event_tcp.c).
THEOREM CurvednsAccounted == Spec => []Accounted
<1>1. Inv => Accounted
  BY InvAccounted
<1> QED
  BY InitInv, Steps, <1>1, PTL DEF Spec
=============================================================================
