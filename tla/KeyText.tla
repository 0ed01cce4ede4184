------------------------------ MODULE KeyText ------------------------------
(* Keys and boxes as text: the base-32 and hexadecimal forms of both         *)
(* DNSCurve programs (misc.c of curvedns, dns_base32.c, base32decode.c and   *)
(* hexdecode.c of dq), the keys curvedns-keygen prints and dq reads, and the *)
(* query names in which dq sends a box and a key to curvedns.                *)
(*                                                                           *)
(* Bytes are numbers.  A character is the value of its digit; Upper more for *)
(* a capital, Other if it is no digit.  A byte of 128 or more is no digit    *)
(* and is left out.  A decoder that fails gives Fail.                        *)
EXTENDS Integers, SequencesExt

Upper == 32
Other == 99
Fail == <<-1>>

digit32(c) == IF c < 2 * Upper THEN c % Upper ELSE Other
digit16(c) == IF digit32(c) < 16 THEN digit32(c) ELSE Other

----------------------------------------------------------------------------
(* Base 32, lowest bits first *)

\* The n bits from bit p on of a number whose digits, of w bits each, are s: what
\* the loops have in v when they take out the next digit.
Bits(s, w, p, n) ==
  LET At(k) == IF k < Len(s) THEN s[k + 1] ELSE 0
      q == p \div w
  IN ((At(q) + 2^w * At(q + 1) + 4^w * At(q + 2)) \div 2^(p % w)) % 2^n
Digits32(bytes, n) == [i \in 1..n |-> Bits(bytes, 8, 5 * (i - 1), 5)]

\* The last digit holds what is left.
misc_base32_encode(bytes, outlen) ==
  LET n == (8 * Len(bytes) + 4) \div 5
  IN IF n > outlen THEN Fail ELSE Digits32(bytes, n)

\* What is left is a byte of its own (mode 1), or must be nothing.
misc_base32_decode(text, outlen, mode) ==
  LET d == [i \in DOMAIN text |-> digit32(text[i])]
      whole == (5 * Len(d)) \div 8
      left == 5 * Len(d) - 8 * whole
      n == IF mode = 1 /\ left > 0 THEN whole + 1 ELSE whole
      out == [i \in 1..n |-> Bits(d, 5, 8 * (i - 1), 8)]
  IN IF \/ \E i \in DOMAIN d : d[i] = Other
        \/ n > outlen
        \/ mode = 0 /\ (left >= 5 \/ Bits(d, 5, 8 * whole, 8) # 0)
     THEN Fail ELSE out

\* dq's decoders: the same, without a limit, and with mode 1.
base32_decode(text, mode) == misc_base32_decode(text, Len(text), mode)
base32decode(text, outlen) == misc_base32_decode(text, outlen, 1)

\* Labels of 50 digits and the rest, and the room they are given.
dns_base32_encodebytes(bytes) ==
  LET d == misc_base32_encode(bytes, 2 * Len(bytes))
      n == (Len(d) + 49) \div 50
  IN [i \in 1..n |-> SubSeq(d, 50 * i - 49, IF i = n THEN Len(d) ELSE 50 * i)]
dns_base32_bytessize(len) == LET n == (8 * len + 4) \div 5 IN n + (n + 49) \div 50

\* The whole digits only: 51 for a key, whose highest bit is 0.
dns_base32_encodekey(key) == Digits32(key, (8 * Len(key)) \div 5)

----------------------------------------------------------------------------
(* Hexadecimal *)

misc_hex_encode(bytes) ==
  LET High(i) == i % 2 = 1   Byte(i) == bytes[(i + 1) \div 2]
  IN [i \in 1..(2 * Len(bytes)) |-> IF High(i) THEN Byte(i) \div 16 ELSE Byte(i) % 16]
misc_hex_decode(text) ==
  IF Len(text) % 2 = 1 \/ \E i \in DOMAIN text : digit16(text[i]) = Other THEN Fail
  ELSE [i \in 1..(Len(text) \div 2) |-> 16 * digit16(text[2 * i - 1]) + digit16(text[2 * i])]
hexdecode(text, len) == IF Len(text) > 2 * len THEN Fail ELSE misc_hex_decode(text)

----------------------------------------------------------------------------
(* Keys *)

\* dnspublic has room for 52 digits behind "uz5", of which 51 are printed.
keygen(public, private) ==
  LET d == misc_base32_encode(public, 52)
  IN [dns |-> IF d = Fail THEN Fail ELSE SubSeq(d, 1, 51),
      hexpublic |-> misc_hex_encode(public), hexprivate |-> misc_hex_encode(private)]

\* A key with 51 or 64 characters ("uz5" before it is left out).
keyparse(text) ==
  CASE Len(text) = 51 -> base32decode(text, 32)
    [] Len(text) = 64 -> hexdecode(text, 32)
    [] OTHER -> Fail

\* curvedns takes its private key from the environment.
misc_getenv_key(text) == IF Len(text) # 64 THEN Fail ELSE misc_hex_decode(text)

\* The name of a TXT query: the labels of the box, then that of the key, with
\* "x1a" before it, which makes it 54 characters long.
KeyLabel(digits) == [key |-> TRUE, text |-> digits]
BoxLabel(digits) == [key |-> FALSE, text |-> digits]
txtquery(box, pk) ==
  LET l == dns_base32_encodebytes(box)
  IN [i \in DOMAIN l |-> BoxLabel(l[i])] \o <<KeyLabel(dns_base32_encodekey(pk))>>

\* curvedns reads the two again.  (A name is too short to exceed its buffer.)
parse_query_name(name) ==
  LET keys == {i \in DOMAIN name : Len(name[i].text) + (IF name[i].key THEN 3 ELSE 0) = 54}
      n    == CHOOSE i \in keys : \A j \in keys : i <= j
      box  == misc_base32_decode(FlattenSeq([i \in 1..(n - 1) |-> name[i].text]), 4096, 0)
      key  == misc_base32_decode(name[n].text, 32, 1)
  IN IF \/ keys = {} \/ \E i \in 1..(n - 1) : Len(name[i].text) \notin 1..50
        \/ box = Fail \/ ~name[n].key \/ key = Fail \/ Len(key) # 32
     THEN Fail ELSE <<box, key>>
=============================================================================
