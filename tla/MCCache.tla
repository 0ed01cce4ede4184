------------------------------ MODULE MCCache ------------------------------
(* Small instances of Cache with the code's own header and table sizes. *)
EXTENDS Cache

\* "a" and "b" may share a bucket; "long" is longer than MAXKEYLEN allows.
MCKeyLen  == [k \in {"a", "b", "long"} |-> IF k = "long" THEN 9 ELSE 1]
MCKey == DOMAIN MCKeyLen
\* Entries of 33 and 61 bytes, one larger than the whole block, and one that
\* MAXDATALEN refuses.
MCDataLen == [d \in {"s", "m", "big", "huge"} |->
                CASE d = "s" -> 12 [] d = "m" -> 40 [] d = "big" -> 110 [] OTHER -> 200]
MCData == DOMAIN MCDataLen
=============================================================================
