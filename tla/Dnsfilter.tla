----------------------------- MODULE Dnsfilter -----------------------------
(* dnsfilter: copies its input to its output, and puts after each address    *)
(* at the start of a line the name that the DNS has for it.  It looks up     *)
(* several lines at once, and prints them in order.                          *)
(*                                                                           *)
(* A byte of the input is a token: an address, a word, "sp" (a space or a    *)
(* tab) or "nl".                                                             *)
EXTENDS Integers, Sequences, SequencesExt, FiniteSets, FiniteSetsExt

CONSTANTS
  Inputs,      \* inputs
  Address,     \* tokens that are addresses
  NameOf,      \* for some addresses a name
  xmax,        \* option -l: lines in memory
  maxactive,   \* option -c: look-ups at once
  InbufSize    \* 1024

\* An input is a sequence.
ASSUME FilterAssumption ==
  /\ \A s \in Inputs : Len(s) \in Nat /\ s = [i \in 1..Len(s) |-> s[i]]
  /\ maxactive \in Nat

\* An address is neither a space nor a newline; a name has letters.
ASSUME LookupAssumption ==
  /\ "sp" \notin Address /\ "nl" \notin Address
  /\ \A a \in DOMAIN NameOf : NameOf[a] # ""

VARIABLES
  whole, input,        \* the input, and what of it has not been read
  flag0,               \* there may be more
  inbuf, partial, x, numactive,
  output,              \* lines printed
  at                   \* "pause", "loop", or how the program ended

filter_vars == <<whole, input, flag0, inbuf, partial, x, numactive, output, at>>

FilterInit ==
  /\ whole \in Inputs /\ input = whole /\ flag0 = TRUE
  /\ inbuf = << >> /\ partial = << >> /\ x = << >> /\ numactive = 0
  /\ output = << >> /\ at = "pause"

\* read(0,...): as much as has come and as there is room for, or the end.
Read(n) ==
  /\ n <= Len(input) /\ n <= InbufSize - Len(inbuf)
  /\ IF n = 0 THEN input = << >> /\ flag0' = FALSE /\ UNCHANGED <<input, inbuf>>
     ELSE /\ inbuf' = inbuf \o SubSeq(input, 1, n)
          /\ input' = SubSeq(input, n + 1, Len(input))
          /\ UNCHANGED flag0
NoRead == UNCHANGED <<input, inbuf, flag0>>

Middle(l) == IF l.left[1] \in DOMAIN NameOf THEN NameOf[l.left[1]] ELSE ""

\* dns_transmit_get for one line: nothing yet, no answer (errout), an answer,
\* or one that dns_name_packet cannot read.
Got(l, r) ==
  CASE r = "wait" -> l
    [] r = "fail" -> [l EXCEPT !.middle = ":error", !.active = FALSE]
    [] r = "bad" -> [l EXCEPT !.left = Append(@, "="), !.middle = ":error", !.active = FALSE]
    [] OTHER -> [l EXCEPT !.left = IF Middle(l) = "" THEN @ ELSE Append(@, "="), !.middle = Middle(l), !.active = FALSE]

\* iopause returns: input is read, and look-ups that ended are taken in.
pause ==
  /\ at = "pause" /\ (flag0 \/ inbuf # << >> \/ partial # << >> \/ x # << >>)
  /\ \/ flag0 /\ Len(inbuf) < InbufSize /\ \E n \in 0..InbufSize : Read(n)
     \/ NoRead
  /\ \E got \in [{i \in DOMAIN x : x[i].active} -> {"wait", "fail", "bad", "name"}] :
       /\ x' = [i \in DOMAIN x |-> IF i \in DOMAIN got THEN Got(x[i], got[i]) ELSE x[i]]
       /\ numactive' = numactive - Cardinality({i \in DOMAIN got : got[i] # "wait"})
  /\ at' = "loop"
  /\ UNCHANGED <<whole, partial, output>>

Done(l) == l.left \o (IF l.middle = "" THEN << >> ELSE <<l.middle>>) \o l.right

\* Mutant: any line whose look-up has ended is printed.
Printable_any == {i \in DOMAIN x : ~x[i].active}
Printable == {i \in DOMAIN x \cap {1} : ~x[1].active}

put ==
  /\ at = "loop"
  /\ \E i \in Printable : output' = Append(output, Done(x[i])) /\ x' = RemoveAt(x, i)
  /\ UNCHANGED <<whole, input, flag0, inbuf, partial, numactive, at>>

byte_chr(s, c) == IF \E i \in DOMAIN s : s[i] = c THEN CHOOSE i \in DOMAIN s : s[i] = c /\ \A j \in 1..(i - 1) : s[j] # c ELSE Len(s) + 1
Room == Printable = {} /\ Len(x) < xmax /\ numactive < maxactive
HasLine == byte_chr(inbuf, "nl") <= Len(inbuf)

\* No newline has been read: what there is becomes the start of a line.
gather ==
  /\ at = "loop" /\ Room /\ inbuf # << >> /\ ~HasLine
  /\ partial' = partial \o inbuf /\ inbuf' = << >>
  /\ UNCHANGED <<whole, input, flag0, x, numactive, output, at>>

\* The text before the first space, and the rest.
Split(s) ==
  LET i == Min({byte_chr(s, "nl"), byte_chr(s, "sp")}) - 1
  IN [left |-> SubSeq(s, 1, i), middle |-> "", right |-> SubSeq(s, i + 1, Len(s)), active |-> FALSE]

\* A line, the last one perhaps without a newline.  ip4_scan wants an address at
\* the beginning of the first word, whatever follows in the word.  The look-up
\* starts, or cannot start, or (the program ends) resolv.conf cannot be read.
take ==
  /\ at = "loop" /\ Room /\ (HasLine \/ (~flag0 /\ partial # << >> /\ inbuf = << >>))
  /\ LET n == IF HasLine THEN byte_chr(inbuf, "nl") ELSE 0
         l == Split(partial \o SubSeq(inbuf, 1, n))
     IN /\ inbuf' = SubSeq(inbuf, n + 1, Len(inbuf))
        /\ partial' = << >>
        /\ IF l.left = << >> \/ Head(l.left) \notin Address
           THEN x' = Append(x, l) /\ UNCHANGED <<numactive, at>>
           ELSE \/ x' = Append(x, [l EXCEPT !.active = TRUE]) /\ numactive' = numactive + 1 /\ UNCHANGED at
                \/ x' = Append(x, [l EXCEPT !.middle = ":error"]) /\ UNCHANGED <<numactive, at>>
                \/ at' = "fatal" /\ UNCHANGED <<x, numactive>>
  /\ UNCHANGED <<whole, input, flag0, output>>

again ==
  /\ at = "loop" /\ Printable = {}
  /\ ~(Room /\ (inbuf # << >> \/ (~flag0 /\ partial # << >>)))
  /\ at' = IF flag0 \/ inbuf # << >> \/ partial # << >> \/ x # << >> THEN "pause" ELSE "exit"
  /\ UNCHANGED <<whole, input, flag0, inbuf, partial, x, numactive, output>>

FilterNext == pause \/ put \/ gather \/ take \/ again
FilterSpec == FilterInit /\ [][FilterNext]_filter_vars

----------------------------------------------------------------------------
\* The lines of a text.
Ends(s) == {i \in 1..Len(s) : s[i] = "nl" \/ i = Len(s)}
LinesOf(s) ==
  LET E == Ends(s) IN
  [k \in 1..Cardinality(E) |->
     LET e == CHOOSE i \in E : Cardinality({j \in E : j < i}) = k - 1
         b == 1 + (IF k = 1 THEN 0 ELSE CHOOSE i \in E : Cardinality({j \in E : j < i}) = k - 2)
     IN SubSeq(s, b, e)]

\* The first word of a line, which may be empty, has i letters.
IsWord(l, i) ==
  /\ i \in 0..Len(l) /\ (i < Len(l) => l[i + 1] \in {"nl", "sp"})
  /\ \A j \in 1..i : l[j] \notin {"nl", "sp"}

\* What is put behind it, if it begins with address a.
Notes(a) == {<<":error">>, <<"=", ":error">>, IF a \in DOMAIN NameOf THEN <<"=", NameOf[a]>> ELSE << >>}

\* What may be printed for a line: an address at its beginning has its name or
\* an error behind the first word, any other line is as it was.
Noted(l, note) == {SubSeq(l, 1, i) \o note \o SubSeq(l, i + 1, Len(l)) : i \in {j \in 0..Len(l) : IsWord(l, j)}}
Filtered(l) == IF l[1] \in Address THEN UNION {Noted(l, note) : note \in Notes(l[1])} ELSE {l}

\* However the input is cut into reads and in whatever order look-ups end,
\* the lines are printed in order, each with the name of its own address or
\* an error, and when the program exits none is missing; it never has more
\* look-ups under way than option -c says (the loop of main, dnsfilter.c).
LinesInOrder ==
  /\ \A k \in DOMAIN output : k <= Len(LinesOf(whole)) /\ output[k] \in Filtered(LinesOf(whole)[k])
  /\ at = "exit" => Len(output) = Len(LinesOf(whole))
  /\ numactive = Cardinality({i \in DOMAIN x : x[i].active}) /\ numactive <= maxactive
=============================================================================
